------------------------------ MODULE JsonText ------------------------------
(***************************************************************************)
(* jsonString, which prints what fromjson reads, and what a text says.     *)
(***************************************************************************)
EXTENDS Json

CONSTANTS Sixteen,    \* doubles that 16 digits write with a point or an exponent: what
                      \* strict_real_p makes of them; other odd ones are read as they are
          Increments  \* the values of a timestamp's low word: 2^32

ASSUME TextAssumption ==
  /\ \A n \in DOMAIN Sixteen : n \in Int /\ Sixteen[n] \in Int
  /\ Increments \in Nat \ {0}

Reread(n) == IF n \in DOMAIN Sixteen THEN Sixteen[n] ELSE n

\* A small integral double is printed without a point.
Num(e) ==
  IF e.type # "NumberDouble" \/ (e.num % 2 = 0 /\ e.num \notin DOMAIN Sixteen)
  THEN Token("int", "", e.num) ELSE Token("real", "", Reread(e.num))

StringOf(n) == IF n = << >> THEN "" ELSE Head(n)

Formats == {"Strict", "TenGen", "JS"}

Field(name, tokens) == <<Str(name), P(":")>> \o tokens
Braces(tokens)      == <<P("{")>> \o tokens \o <<P("}")>>
Brackets(tokens)    == <<P("[")>> \o tokens \o <<P("]")>>
Call(name, tokens)  == <<Word(name), P("(")>> \o tokens \o <<P(")")>>
Integer(n)          == <<Token("int", "", n)>>

\* Fields or values with commas between them.
List(parts) ==
  FlattenSeq([i \in DOMAIN parts |-> IF i = 1 THEN parts[i] ELSE <<P(",")>> \o parts[i]])

\* The subtype is a char with a sign, printed as an int.
TypeDigits(n) == IF n < 128 THEN HexBytes[n] ELSE "ffffff" \o HexBytes[n]

\* Code is printed as it is, without quotes.
Raw(e) == IF e.str = "" THEN << >> ELSE <<Word(e.str)>>

RECURSIVE JsonString(_, _), ValueString(_, _)

\* BSONElement::jsonString, without the name.
ValueString(e, format) ==
  CASE e.type = "Undefined" -> << >>
    [] e.type \in {"String", "Symbol"} -> <<Str(e.str)>>
    [] IsNumber(e) -> <<Num(e)>>
    [] e.type = "Bool" -> <<Word(IF e.num = 1 THEN "true" ELSE "false")>>
    [] e.type = "jstNULL" -> <<Word("null")>>
    [] e.type = "Object" -> JsonString(e.sub, format)
    [] e.type = "Array" -> Brackets(List([i \in DOMAIN e.sub |-> ValueString(e.sub[i], format)]))
    [] e.type = "DBRef" ->
         IF format = "TenGen" THEN Call("Dbref", <<Str(e.str), P(","), Str(e.opt)>>)
         ELSE Braces(Field("$ref", <<Str(e.str), P(",")>>) \o Field("$id", <<Str(e.opt)>>))
    [] e.type = "jstOID" ->
         IF format = "TenGen" THEN Call("ObjectId", <<Str(e.str)>>)
         ELSE Braces(Field("$oid", <<Str(e.str)>>))
    [] e.type = "BinData" ->
         Braces(Field("$binary", <<Token("base64", e.str, 0), P(",")>>)
                \o Field("$type", <<Str(TypeDigits(e.num))>>))
    [] e.type = "Date" ->
         IF format = "Strict" THEN Braces(Field("$date", Integer(e.num))) ELSE Call("Date", Integer(e.num))
    [] e.type = "RegEx" ->
         IF format = "Strict"
         THEN Braces(Field("$regex", <<Str(e.str), P(",")>>) \o Field("$options", <<Str(e.opt)>>))
         ELSE <<Token("slashed", e.str, 0), Word(IF e.opt \in {"g", "i", "m"} THEN e.opt ELSE "")>>
    [] e.type = "CodeWScope" /\ e.sub # << >> ->
         Braces(Field("$code", Raw(e)) \o <<P(",")>> \o Field("$scope", JsonString(e.sub, "Strict")))
    [] e.type \in {"Code", "CodeWScope"} -> Raw(e)
    [] e.type = "Timestamp" ->
         Braces(Field("t", Integer(2000 * (e.num \div Increments))) \o <<P(",")>>
                \o Field("i", Integer(2 * (e.num % Increments))))
    [] e.type = "MinKey" -> Braces(Field("$minKey", Integer(2)))
    [] e.type = "MaxKey" -> Braces(Field("$maxKey", Integer(2)))

\* Of an undefined value nothing is printed, its name neither.
JsonString(d, format) ==
  Braces(List([i \in DOMAIN d |->
                 IF d[i].type = "Undefined" THEN << >>
                 ELSE Field(StringOf(d[i].name), ValueString(d[i], format))]))

\* The elements of a document, the nested ones included.
RECURSIVE Elements(_)
Elements(d) == UNION {{d[i]} \cup Elements(d[i].sub) : i \in DOMAIN d}

\* jsonString throws for a number that is not finite.
Prints(d) == \A e \in Elements(d) : e.type = "NumberDouble" => Finite(e.num)

-----------------------------------------------------------------------------
(***************************************************************************)
(* What a text says                                                        *)
(***************************************************************************)
\* The ways to write a value that holds no others.
Spellings(e) ==
  CASE e.type = "String"  -> {<<Str(e.str)>>}
    [] e.type = "Bool"    -> {<<Word(IF e.num = 1 THEN "true" ELSE "false")>>}
    [] e.type = "jstNULL" -> {<<Word("null")>>}
    [] e.type = "NumberDouble" -> {<<Token("real", "", e.num)>>}
    [] e.type = "NumberInt"  -> IF -IntMax - 2 <= e.num /\ e.num <= IntMax THEN {Integer(e.num)} ELSE {}
    [] e.type = "NumberLong" -> IF -IntMax - 2 <= e.num /\ e.num <= IntMax THEN {} ELSE {Integer(e.num)}
    [] e.type = "Date"    -> {Braces(Field("$date", Integer(e.num))), Call("Date", Integer(e.num)),
                              <<Word("new")>> \o Call("Date", Integer(e.num))}
    [] e.type = "jstOID"  -> {Braces(Field("$oid", <<Str(e.str)>>)), Call("ObjectId", <<Str(e.str)>>)}
    [] e.type = "BinData" -> {Braces(Field("$binary", <<Token("base64", e.str, 0), P(",")>>)
                                     \o Field("$type", <<Str(HexBytes[e.num])>>))}
    [] e.type = "DBRef"   ->
         {Braces(Field("$ref", <<Str(e.str), P(",")>>) \o Field("$id", <<Str(e.opt)>>)),
          Call("Dbref", <<Str(e.str), P(","), Str(e.opt)>>)}
    [] e.type = "RegEx"   ->
         {Braces(Field("$regex", <<Str(e.str), P(",")>>) \o Field("$options", <<Str(e.opt)>>)),
          <<Token("slashed", e.str, 0), Word(e.opt)>>}
    [] OTHER -> {}

\* Where the parts of a list may end that begins at a position: each part ends
\* where its operator says, with a comma before all but the first.
ListEnds(d, PartEnds(_, _), begin) ==
  LET Then(at, i) ==
        UNION {PartEnds(d[i], IF i = 1 THEN a ELSE a + 1) :
                 a \in {a \in at : i = 1 \/ At(a) = P(",")}}
  IN  FoldLeft(Then, {begin}, [i \in DOMAIN d |-> i])

Enclosed(open, begin, Ends(_), close) ==
  IF At(begin) = P(open) THEN {a + 1 : a \in {a \in Ends(begin + 1) : At(a) = P(close)}} ELSE {}

\* Where the text may end that says a value, if it says it from a position on.
RECURSIVE SaysObject(_, _), SaysValue(_, _)

SaysValue(e, begin) ==
  IF e.type = "Object" THEN SaysObject(e.sub, begin)
  ELSE IF e.type = "Array"
  THEN LET Ends(b) == ListEnds(e.sub, SaysValue, b)
       IN  IF \A i \in DOMAIN e.sub : e.sub[i].name = <<numStr(i - 1)>>
           THEN Enclosed("[", begin, Ends, "]") ELSE {}
  ELSE {begin + Len(s) : s \in {s \in Spellings(e) : \A i \in DOMAIN s : At(begin - 1 + i) = s[i]}}

SaysObject(d, begin) ==
  LET FieldEnds(e, b) ==
        IF /\ \/ At(b) = Str(StringOf(e.name)) /\ StringOf(e.name) \notin Reserved
              \/ At(b) = Word(StringOf(e.name)) /\ At(b) # Word("")
           /\ At(b + 1) = P(":")
        THEN SaysValue(e, b + 2) ELSE {}
      Ends(b) == ListEnds(d, FieldEnds, b)
  IN  Enclosed("{", begin, Ends, "}")

-----------------------------------------------------------------------------
\* What is read of a document that is printed: of each double 16 digits.
RECURSIVE AsRead(_)
AsRead(d) ==
  [i \in DOMAIN d |->
     [d[i] EXCEPT !.num = IF d[i].type = "NumberDouble" THEN Reread(@) ELSE @, !.sub = AsRead(@)]]

\* Documents that survive: reserved names, objects that look like a reference,
\* options of a regular expression other than g, i and m, binary data of a subtype
\* from 128 on, and the types that fromjson knows no text for do not.
Ordinary(d) ==
  \A e \in Elements(d) :
    /\ StringOf(e.name) \notin Reserved \cup {"$ref"}
    /\ e.type \notin {"Undefined", "Code", "CodeWScope", "Timestamp", "MinKey", "MaxKey"}
    /\ e.type = "RegEx" => e.opt \in {"", "g", "i", "m"}
    /\ e.type = "BinData" => e.num < 128

\* What jsonString prints in any of its formats, fromjson reads as an equal
\* document, but for the digits of its doubles beyond the 16th, unless it is larger
\* than an object may be.  (A long that fits becomes an int, an integral double an
\* int, a symbol a string.)
PrintedIsRead ==
  text.printed /\ Ordinary(text.origin) =>
    /\ phase = "returned" => Equal(doc, AsRead(text.origin))
    /\ phase = "thrown" => ObjSize(text.origin) > MaxObject

\* A text that is accepted says the document that it yields, from its first token
\* to its last: what the alternatives of the grammar captured before they failed is
\* in none of its fields (JsonGrammar).
AcceptedSpellsIt ==
  phase = "returned" /\ text.tokens # << >> => Len(text.tokens) + 1 \in SaysObject(doc, 1)
=============================================================================
