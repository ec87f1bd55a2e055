------------------------------- MODULE MCBson -------------------------------
(***************************************************************************)
(* The texts that jsonString prints for some documents and those texts     *)
(* with one token left out, repeated or replaced; and every three of some  *)
(* documents with elements of each type.                                   *)
(***************************************************************************)
EXTENDS JsonText, BsonFields

MCStrings == <<"", "$date", "$oid", "$ref", "0", "1", "2", "3", "ZZZ", "a", "b", "g", "i", "id1", "id2", "s", "z",
               "zzzzzzzzzzzzzzzzzzzzzzzzzzzzzzzzzzzzzzzzzzzzzzzz">>
MCOids     == {"id1", "id2"}
MCHexBytes == 0 :> "00" @@ 2 :> "02" @@ 128 :> "80"
MCLetters  == {"", "a", "b", "g", "i", "s", "z"}
MCSixteen  == 7 :> 6 @@ 16 :> 16

Leaves ==
  LET n == <<"a">> IN
  {Text("String", n, "a"), Text("String", n, ""), Text("String", n, "id1"), Text("Symbol", n, "a"),
   Number("NumberInt", n, 2), Number("NumberInt", n, -4), Number("NumberLong", n, 12),
   Number("NumberLong", n, 4), Number("NumberDouble", n, 3), Number("NumberDouble", n, 4),
   Number("NumberDouble", n, 7), Number("NumberDouble", n, 16),
   Number("Bool", n, 1), Number("Bool", n, 0), Plain("jstNULL", n), Number("Date", n, 2),
   Text("jstOID", n, "id1"), Element("BinData", n, 0, "a", "", << >>),
   Element("BinData", n, 2, "", "", << >>), Pair("DBRef", n, "a", "id2"), Pair("RegEx", n, "a", "i"),
   Pair("RegEx", n, "b", "")}

Scope(name, code, sub) == Element("CodeWScope", name, 0, code, "", sub)

Int1 == Number("NumberInt", <<"b">>, 2)
At0(e) == Renamed(e, <<"0">>)
At1(e) == Renamed(e, <<"1">>)
Array(name, elements) ==
  Nested("Array", <<name>>, [i \in DOMAIN elements |-> Renamed(elements[i], <<numStr(i - 1)>>)])

Small == {<<e>> : e \in Leaves} \cup
  {<< >>, <<Int1, Int1>>,
   <<Nested("Object", <<"a">>, << >>), Array("b", << >>)>>,
   <<Nested("Object", << >>, <<Plain("jstNULL", << >>)>>)>>,
   <<Nested("Object", <<"a">>, <<Text("String", <<"$ref">>, "a"), Text("String", <<"$id">>, "id1")>>)>>,
   <<Nested("Object", <<"a">>, <<Number("NumberInt", <<"$ref">>, 2)>>)>>,
   <<Pair("RegEx", <<"a">>, "a", "s")>>, <<Text("String", <<"$oid">>, "a")>>}

\* Documents that are printed as what is read as another document or refused.
Unread ==
  LET n == <<"a">>
      odd == {Plain("Undefined", n), Text("Code", n, "a"), Text("Code", n, "true"), Text("Code", n, ""),
              Scope(n, "a", <<Int1>>), Scope(n, "a", << >>), Number("Timestamp", n, 6), Plain("MinKey", n),
              Plain("MaxKey", n), Element("BinData", n, 128, "a", "", << >>), Pair("RegEx", n, "a", "1")}
  IN  {<<e>> : e \in odd} \cup {<<Array("a", <<e, e>>), Int1>> : e \in odd}

\* Special values one after the other, and objects that begin like one.
Special2 ==
  LET oid(name, s) == Text("jstOID", <<name>>, s)
      ref(name, s, t) == Pair("DBRef", <<name>>, s, t)
  IN
  {<<oid("a", "id1"), oid("b", "id2")>>, <<ref("a", "a", "id1"), ref("b", "b", "id2")>>,
   <<ref("a", "a", "id1"), oid("b", "id2"), ref("z", "b", "id1")>>,
   <<Number("Date", <<"a">>, 2), Number("Date", <<"b">>, 4)>>,
   <<Pair("RegEx", <<"a">>, "a", "i"), Pair("RegEx", <<"b">>, "b", "g")>>,
   <<Element("BinData", <<"a">>, 0, "a", "", << >>), Element("BinData", <<"b">>, 2, "b", "", << >>)>>}

Long(name) == Text("String", <<name>>, Last(MCStrings))

Large ==
  {<<Nested("Object", <<"a">>, <<e>>), Array("b", <<e, Int1>>)>> : e \in Leaves} \cup
  {<<Array("a", <<Array("b", <<Int1, Int1, Int1>>), Nested("Object", <<"b">>, <<Int1>>)>>), Int1>>,
   <<Nested("Object", <<"a">>, <<Nested("Object", <<"a">>, <<Nested("Object", <<"a">>, <<Int1>>)>>)>>)>>,
   <<Long("a"), Long("b")>>, <<Nested("Object", <<"a">>, <<Nested("Object", <<"b">>, <<Long("a")>>)>>)>>,
   <<Long("a"), Long("b"), Array("z", <<Int1, Int1, Int1, Int1, Int1, Int1>>)>>,
   <<Long("a"), Long("b"), Nested("Object", <<"z">>, <<Int1, Int1, Plain("jstNULL", <<"a">>)>>)>>,
   <<Long("a"), Nested("Object", <<"b">>, <<Long("a"), Nested("Object", <<"a">>, <<Long("b")>>)>>)>>}

Printed(d, f) == [tokens |-> JsonString(d, f), origin |-> d, printed |-> TRUE]
Other(tokens) == [tokens |-> tokens, origin |-> << >>, printed |-> FALSE]

Strays == {P("}"), P("]"), P(","), P("{"), Str("$date"), Str("id1"), Word("a"), Word("$oid"),
           Token("base64", "a", 1), Token("int", "", -2)}

\* Each field in a format of its own.
Mixed(d, f, g) ==
  Braces(List([i \in DOMAIN d |-> Field(StringOf(d[i].name), ValueString(d[i], IF i = 1 THEN f ELSE g))]))

\* Texts that jsonString does not print.
Written ==
  LET a(tokens) == Braces(Field("a", tokens))
      date == <<Word("new")>> \o Call("Date", Integer(2))
      like == Braces(Field("$ref", <<Str("b"), P(",")>>) \o Field("$id", <<Str("a")>>))
  IN
  {Mixed(d, f, g) : d \in Special2, f \in Formats, g \in Formats} \cup
  {a(date), a(Brackets(date \o <<P(",")>> \o Call("Date", Integer(4)))), a(<<Token("real", "", 4)>>),
   a(Braces(Field("$binary", <<Token("base64", "a", 0), P(",")>>) \o Field("$type", <<Str("80")>>))),
   a(Braces(Field("$regex", <<Str("a"), P(",")>>) \o Field("$options", <<Str("1")>>))),
   Braces(Field("a", like) \o <<P(",")>> \o Field("b", Call("Dbref", <<Str("a"), P(","), Str("id1")>>)))}

Altered(t) ==
  {SubSeq(t, 1, i - 1) \o SubSeq(t, i + 1, Len(t)) : i \in DOMAIN t} \cup
  {SubSeq(t, 1, i) \o SubSeq(t, i, Len(t)) : i \in DOMAIN t} \cup
  {SubSeq(t, 1, i) : i \in DOMAIN t} \cup
  {[t EXCEPT ![i] = s] : i \in DOMAIN t, s \in Strays}

MCTexts ==
  {Printed(d, f) : d \in {d \in Small \cup Large \cup Unread \cup Special2 : Prints(d)}, f \in Formats} \cup
  {Other(t) : t \in UNION {Altered(JsonString(d, f)) : d \in Small, f \in {"Strict", "TenGen"}}} \cup
  {Other(t) : t \in UNION {Altered(JsonString(d, "Strict")) :
      d \in {<<Nested("Object", <<"a">>, <<Array("b", <<Nested("Object", <<"a">>, <<Int1>>), Int1>>)>>)>>}}} \cup
  {Other(t) : t \in Written \cup Altered(Braces(Field("a", <<Word("new")>> \o Call("Date", Integer(2)))))} \cup
  {Other(<< >>)}

-----------------------------------------------------------------------------
OrderElements ==
  LET n == <<"a">> IN
  {Plain("MinKey", n), Plain("Undefined", n), Plain("jstNULL", n), Plain("MaxKey", n),
   Number("NumberInt", n, 2), Number("NumberInt", n, -2), Number("NumberDouble", n, 3),
   Number("NumberLong", n, 16),
   Number("NumberLong", n, 18), Number("NumberDouble", n, 16), Number("NumberDouble", n, NaN),
   Number("NumberDouble", n, Infinity),
   Text("String", n, "a"), Text("Symbol", n, "a"), Nested("Object", n, <<Int1>>),
   Nested("Object", n, << >>), Array("a", <<Int1>>), Element("BinData", n, 0, "a", "", << >>),
   Element("BinData", n, 0, "b", "", << >>), Element("BinData", n, 2, "", "", << >>),
   Text("jstOID", n, "id2"), Number("Bool", n, 0), Number("Bool", n, 1), Number("Date", n, 2),
   Number("Timestamp", n, 2), Pair("RegEx", n, "a", "i"), Pair("RegEx", n, "a", ""),
   Pair("DBRef", n, "a", "id1"), Pair("DBRef", n, "a", "id2"), Text("Code", n, "a"),
   Scope(n, "ZZZ", <<Int1>>), Scope(n, "a", << >>), Scope(n, "", <<Int1, Int1>>)}

MCDocs == {<<e>> : e \in OrderElements} \cup
  {<< >>, <<Renamed(Int1, <<"a", "b">>), Renamed(Int1, <<"a", "a">>), Renamed(Int1, <<"b">>)>>,
   <<Renamed(Int1, <<"a", "b", "a">>), Renamed(Int1, <<"a", "b", "b">>), Renamed(Int1, <<"a", "a">>)>>,
   <<Renamed(Int1, <<"a">>), Int1>>, <<Int1, Renamed(Int1, <<"a">>)>>,
   <<Nested("Object", <<"a">>, <<Int1>>), Array("b", <<Nested("Object", <<"b">>, <<Int1>>)>>)>>}

MCKeys  == {<<Int1>>, <<Number("NumberInt", <<"a">>, -2), Int1>>,
            <<Number("NumberInt", <<"a", "b">>, 2), Number("NumberInt", <<"b">>, -2)>>}
MCPaths == {<<"a">>, <<"b">>, <<"a", "b">>, <<"b", "0">>, <<"b", "0", "b">>, <<"b", "b">>}

MCInit == \/ Init /\ one = << >> /\ two = << >> /\ three = << >>
          \/ Init /\ text.tokens = << >> /\ DocInit
MCNext == \/ Next /\ UNCHANGED docVars
          \/ text.tokens = << >> /\ DocNext /\ UNCHANGED vars
MCSpec == MCInit /\ [][MCNext]_<<vars, docVars>> /\ WF_vars(Next /\ UNCHANGED docVars)
=============================================================================
