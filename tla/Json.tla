-------------------------------- MODULE Json --------------------------------
(***************************************************************************)
(* fromjson reads a text with a grammar whose semantic actions drive an    *)
(* ObjectBuilder: a stack of BSONObjBuilders, all of them writing into the *)
(* buffer of the first.  A text that is refused is left by an exception,   *)
(* which unwinds that stack.                                               *)
(*                                                                         *)
(* A text is a sequence of tokens: the characters of a string and the      *)
(* digits of a number are not told apart.  The buffer has one cell for     *)
(* each byte; the first byte of an element stands for what all of it says. *)
(***************************************************************************)
EXTENDS Bson

CONSTANTS Texts,      \* the texts: [tokens, origin, printed], origin being what was printed
          Oids,       \* the strings of 24 hexadecimal digits
          HexBytes,   \* the subtypes of binary data and their two digits
          Letters,    \* the strings that are made of letters
          IntMax,     \* the largest NumberInt, in halves
          InitSize,   \* the size a builder starts with
          Slack,      \* what grow_reallocate adds when doubling is too little
          BufferMaxSize,
          MaxObject   \* BSONObjMaxInternalSize: a larger object is no BSONObj

ASSUME JsonAssumption ==
  /\ InitSize \in Nat /\ Slack \in Nat /\ BufferMaxSize \in Nat /\ MaxObject \in Nat
  /\ 4 <= InitSize /\ InitSize + 4 <= BufferMaxSize
  /\ \A t \in Texts :
       /\ t.tokens \in Seq([k : STRING, s : STRING, n : Int])
       /\ \A i \in 1..Len(t.tokens) : Len(t.tokens[i].s) \in Nat
       /\ \A i \in 0..Len(t.tokens) : Len(ToString(i)) \in Nat

VARIABLES text,      \* the text that is read
          pos,       \* the scanner's position
          expect,    \* what the grammar admits at this position
          phase,     \* "parsing", "returned", "unwinding", "thrown" or "terminated"
          builders,  \* ObjectBuilder: builders, fieldNames and indexes
          scratch,   \* ObjectBuilder: ns, oid, binData, ...: the tokens captured
          buf, size, \* the BufBuilder of the first builder
          freed,     \* that buffer was freed
          doc        \* the document that was returned

bufVars == <<buf, size>>
vars == <<text, pos, expect, phase, builders, scratch, bufVars, freed, doc>>

-----------------------------------------------------------------------------
(***************************************************************************)
(* Tokens                                                                  *)
(***************************************************************************)
Token(k, s, n) == [k |-> k, s |-> s, n |-> n]
P(k)    == Token(k, Blank, 0)       \* punctuation
Str(s)  == Token("str", s, 0)    \* a quoted string
Word(s) == Token("word", s, 0)   \* an identifier
End     == P("end")

NameOf(s)   == IF s = Blank THEN << >> ELSE <<s>>
-----------------------------------------------------------------------------
(***************************************************************************)
(* The buffer: BufBuilder and BSONObjBuilder                               *)
(***************************************************************************)
Cell(k, n, e) == [k |-> k, n |-> n, e |-> e]
Bytes(cell, n) == <<cell>> \o [i \in 1..(n - 1) |-> Cell("more", 0, Eoo)]
Skipped(n)     == Bytes(Cell("skipped", 0, Eoo), n)
EooByte        == <<Cell("eoo", 0, Eoo)>>

\* The bytes of an element, and those before the body of a nested one.
ElementBytes(e) == Bytes(Cell("element", 0, e), ElementSize(e))
HeaderBytes(e)  == Bytes(Cell("element", 0, e), 1 + NameSize(e.name))

\* The appends that an element is written with.
Pieces(e) ==
  LET name == NameSize(e.name) IN
  CASE e.type \in {"String", "Symbol", "Code"} -> <<1, name, 4, StrSize(e.str)>>
    [] e.type = "BinData" -> <<1, name, 4, 1, StrSize(e.str) - 1>>
    [] e.type = "DBRef"   -> <<1, name, 4, StrSize(e.str), 12>>
    [] e.type = "RegEx"   -> <<1, name, StrSize(e.str), StrSize(e.opt)>>
    [] IsABSONObj(e)      -> <<1, name, 4>>
    [] OTHER              -> <<1, name, ValueSize(e)>>

\* Mutant: doubling is taken to be enough.
GrowDoubles(b, by) ==
  LET l == b.len + by
      a == IF l <= b.size THEN b.size ELSE IF b.size = 0 THEN InitSize ELSE 2 * b.size
  IN  IF ~b.ok THEN b
      ELSE IF a > BufferMaxSize THEN [b EXCEPT !.len = l, !.ok = FALSE]
      ELSE [len |-> l, size |-> a, ok |-> TRUE]

\* grow and grow_reallocate: the length is counted before the limit is looked at.
Grow(b, by) ==
  LET l == b.len + by
      doubled == IF b.size = 0 THEN InitSize ELSE 2 * b.size
      a == IF l <= b.size THEN b.size ELSE IF l > doubled THEN l + Slack ELSE doubled
  IN  IF ~b.ok THEN b
      ELSE IF l > b.size /\ a > BufferMaxSize THEN [b EXCEPT !.len = l, !.ok = FALSE]
      ELSE [len |-> l, size |-> a, ok |-> TRUE]

\* A buffer after some appends.
Grown(b, pieces) ==
  LET upTo[i \in Nat] == IF i = 0 THEN b ELSE Grow(upTo[i - 1], pieces[i])
  IN  upTo[Len(pieces)]

After(pieces) == Grown([len |-> Len(buf), size |-> size, ok |-> TRUE], pieces)

\* numStrs holds the first of them.
numStr(n) == ToString(n)

\* done: "open", "called" once _done has begun, "closed" once ~ObjectBuilder is past it.
Builder(offset, array) ==
  [offset |-> offset, done |-> "open", array |-> array, index |-> 0,
   name |-> IF array THEN <<numStr(0)>> ELSE << >>]

Top == Len(builders)
Back == builders[Top]

\* _done: the EOO is appended and the size stored where it was left out.
DoneBytes(b, offset) ==
  [b \o EooByte EXCEPT ![offset + 1] = Cell("size", Len(b) + 1 - offset, Eoo)]

\* Reading: BSONObjIterator over the elements from a position to the EOO.
ReadObj(b, offset) ==
  LET elements[at, end \in 0..Len(b)] ==
        IF at >= end THEN << >>
        ELSE LET e == b[at + 1].e
                 body == at + 1 + NameSize(e.name)
                 length == IF IsABSONObj(e) THEN b[body + 1].n ELSE ValueSize(e)
                 sub == IF IsABSONObj(e) THEN elements[body + 4, body + length - 1] ELSE e.sub
             IN  <<[e EXCEPT !.sub = sub]>> \o elements[body + length, end]
  IN  elements[offset + 4, offset + b[offset + 1].n - 1]

-----------------------------------------------------------------------------
(***************************************************************************)
(* The grammar                                                             *)
(***************************************************************************)
At(i) == IF i <= Len(text.tokens) THEN text.tokens[i] ELSE End
Tok == At(pos)

Init ==
  /\ text \in Texts
  /\ pos = 1 /\ expect = "start" /\ phase = "parsing"
  /\ builders = << >>
  /\ scratch = [f \in {"ns", "oid", "bin", "type", "date", "regex", "options"} |-> End]
  /\ buf = << >> /\ size = 0 /\ freed = FALSE
  /\ doc = << >>

Consume(n, next) == phase = "parsing" /\ pos' = pos + n /\ expect' = next
Keep == UNCHANGED <<text, freed, doc>>
SetBack(b) == builders' = [builders EXCEPT ![Top] = b]

\* fromjson("") is the empty document.
ParseNothing ==
  /\ expect = "start" /\ phase = "parsing" /\ Tok = End
  /\ phase' = "returned"
  /\ UNCHANGED <<text, pos, expect, builders, scratch, bufVars, freed, doc>>

\* ObjectBuilder::init
ObjectStart ==
  /\ expect = "start" /\ Tok = P("{")
  /\ Consume(1, "first name")
  /\ builders' = <<Builder(4, FALSE)>>
  /\ buf' = Skipped(8) /\ size' = InitSize + 4
  /\ UNCHANGED <<phase, scratch>> /\ Keep

Reserved == {"$oid", "$binary", "$type", "$date", "$regex", "$options"}

AtName == expect \in {"name", "first name"}

FieldName ==
  /\ AtName /\ Tok.k = "str" /\ Tok.s \notin Reserved
  /\ Consume(1, "colon")
  /\ SetBack([Back EXCEPT !.name = NameOf(Tok.s)])
  /\ UNCHANGED <<phase, scratch, bufVars>> /\ Keep

\* An identifier is not looked up among the reserved names.
UnquotedFieldName ==
  /\ AtName /\ Tok.k = "word" /\ Tok.s # ""
  /\ Consume(1, "colon")
  /\ SetBack([Back EXCEPT !.name = NameOf(Tok.s)])
  /\ UNCHANGED <<phase, scratch, bufVars>> /\ Keep

Colon ==
  /\ expect = "colon" /\ Tok = P(":")
  /\ Consume(1, "value")
  /\ UNCHANGED <<phase, builders, scratch, bufVars>> /\ Keep

Comma ==
  /\ expect = "next" /\ Tok = P(",")
  /\ Consume(1, IF Back.array THEN "value" ELSE "name")
  /\ IF Back.array
     THEN SetBack([Back EXCEPT !.index = @ + 1, !.name = <<numStr(Back.index + 1)>>])
     ELSE UNCHANGED builders
  /\ UNCHANGED <<phase, scratch, bufVars>> /\ Keep

AtValue == expect \in {"value", "first value"}

\* The element a simple value makes; none for a token that is no such value.
Simple(name) ==
  CASE Tok.k = "str"  -> <<Text("String", name, Tok.s)>>
    [] Tok.k = "real" -> <<Number("NumberDouble", name, Tok.n)>>
    [] Tok.k = "int"  -> <<Number(IF -IntMax - 2 <= Tok.n /\ Tok.n <= IntMax THEN "NumberInt"
                                  ELSE "NumberLong", name, Tok.n)>>
    [] Tok = Word("true")  -> <<Number("Bool", name, 1)>>
    [] Tok = Word("false") -> <<Number("Bool", name, 0)>>
    [] Tok = Word("null")  -> <<Plain("jstNULL", name)>>
    [] OTHER -> << >>

\* The special values.  An item of their grammars is a token or, with a field to
\* capture it in, any token of its kind that suits the field.
Lit(t)      == [k |-> t.k, s |-> t.s, to |-> "none"]
Some(k, to)  == [k |-> k, s |-> Blank, to |-> to]
Key(s)      == <<Lit(Str(s)), Lit(P(":"))>>
Curly(items) == <<Lit(P("{"))>> \o items \o <<Lit(P("}"))>>
Called(name, items) == <<Lit(Word(name)), Lit(P("("))>> \o items \o <<Lit(P(")"))>>

Form(type, items) == [type |-> type, items |-> items]

Forms ==
  LET dated == <<Some("int", "date")>>
      quotedOid == <<Some("str", "oid")>>
      named == <<Some("str", "ns"), Lit(P(","))>>
  IN
  <<Form("Date", Curly(Key("$date") \o dated)),
    Form("Date", Called("Date", dated)),
    Form("Date", <<Lit(Word("new"))>> \o Called("Date", dated)),
    Form("jstOID", Curly(Key("$oid") \o quotedOid)),
    Form("jstOID", Called("ObjectId", quotedOid)),
    Form("BinData", Curly(Key("$binary") \o <<Some("base64", "bin"), Lit(P(","))>>
                          \o Key("$type") \o <<Some("str", "type")>>)),
    Form("DBRef", Curly(Key("$ref") \o named \o Key("$id") \o quotedOid)),
    Form("DBRef", Called("Dbref", named \o quotedOid)),
    Form("RegEx", Curly(Key("$regex") \o <<Some("str", "regex"), Lit(P(","))>>
                        \o Key("$options") \o <<Some("str", "options")>>)),
    Form("RegEx", <<Some("slashed", "regex"), Some("word", "options")>>)>>

Suits(item, t) ==
  /\ t.k = item.k
  /\ CASE item.to = "none"    -> t.s = item.s
       [] item.to = "oid"     -> t.s \in Oids
       [] item.to = "type"    -> \E n \in DOMAIN HexBytes : HexBytes[n] = t.s
       [] item.to = "date"    -> t.n >= 0
       [] item.to = "options" -> t.s \in IF t.k = "word" THEN {"", "g", "i", "m"} ELSE Letters
       [] OTHER -> TRUE

\* Item i of a form is reached: all before it suit the text.
Reached(f, i) == \A j \in 1..i : Suits(Forms[f].items[j], At(pos + j - 1))

Hits == {f \in DOMAIN Forms : Reached(f, Len(Forms[f].items))}
Special == Hits # {}

\* The alternatives are tried in turn, until one matches; each captures as far
\* as it gets.
Tried == 1..(IF Special THEN Min(Hits) ELSE Len(Forms))

\* The items, by form and place, that captured into a field; the last form's stays.
Captures(to) ==
  {x \in Tried \X (1..9) :
     /\ x[2] <= Len(Forms[x[1]].items) /\ Forms[x[1]].items[x[2]].to = to
     /\ Reached(x[1], x[2])}

LastOf(c) == At(pos - 1 + (CHOOSE x \in c : \A y \in c : y[1] <= x[1])[2])

\* Mutant: what was captured for an earlier value stays.
CapturedOnce ==
  [to \in DOMAIN scratch |->
     IF Captures(to) = {} \/ scratch[to] # End THEN scratch[to] ELSE LastOf(Captures(to))]

Captured ==
  [to \in DOMAIN scratch |->
     IF Captures(to) = {} THEN scratch[to] ELSE LastOf(Captures(to))]

\* What dateEnd, oidEnd, binDataEnd, dbrefEnd and regexEnd append.
SpecialElement(type, name, s) ==
  CASE type = "Date"    -> Number("Date", name, s.date.n)
    [] type = "jstOID"  -> Text("jstOID", name, s.oid.s)
    [] type = "BinData" -> Element("BinData", name,
                             CHOOSE n \in DOMAIN HexBytes : HexBytes[n] = s.type.s, s.bin.s, Blank, << >>)
    [] type = "DBRef"   -> Pair("DBRef", name, s.ns.s, s.oid.s)
    [] type = "RegEx"   -> Pair("RegEx", name, s.regex.s, s.options.s)

\* binDataBinary asserts that the digits come in groups of four.
BadBinary == Captured.bin.k = "base64" /\ Captured.bin.n % 4 # 0

\* The builder's append: past the limit of the buffer it throws.
AppendBytes(bytes, pieces) ==
  \E b \in {After(pieces)} :
    /\ buf' = buf \o SubSeq(bytes, 1, b.len - Len(buf))
    /\ size' = b.size
    /\ phase' = IF b.ok THEN phase ELSE "unwinding"

AppendElement(e) == AppendBytes(ElementBytes(e), Pieces(e))

AppendSimple ==
  /\ AtValue /\ Simple(Back.name) # << >>
  /\ Consume(1, "next")
  /\ AppendElement(Simple(Back.name)[1])
  /\ UNCHANGED <<builders, scratch>> /\ Keep

AppendSpecial ==
  /\ AtValue /\ Special /\ ~BadBinary
  /\ LET f == Forms[Min(Hits)]
     IN  /\ Consume(Len(f.items), "next")
         /\ \E e \in {SpecialElement(f.type, Back.name, Captured)} : AppendElement(e)
  /\ scratch' = Captured
  /\ UNCHANGED builders /\ Keep

\* Mutant: where the new object begins is noted before its type and name are
\* appended.
PushOffsetFirst(array) ==
  LET e == Plain(IF array THEN "Array" ELSE "Object", Back.name)
  IN  /\ AppendBytes(HeaderBytes(e) \o Skipped(4), Pieces(e))
      /\ builders' = IF After(Pieces(e)).ok THEN Append(builders, Builder(Len(buf), array))
                     ELSE builders

\* pushObject and pushArray: the new builder leaves room for its size.
Push(array) ==
  LET e == Plain(IF array THEN "Array" ELSE "Object", Back.name)
  IN  /\ AppendBytes(HeaderBytes(e) \o Skipped(4), Pieces(e))
      /\ builders' = IF After(Pieces(e)).ok
                     THEN Append(builders, Builder(Len(buf) + Len(HeaderBytes(e)), array))
                     ELSE builders

OpenArray ==
  /\ AtValue /\ Tok = P("[")
  /\ Consume(1, "first value")
  /\ Push(TRUE)
  /\ UNCHANGED scratch /\ Keep

OpenObject ==
  /\ AtValue /\ Tok = P("{") /\ ~Special /\ ~BadBinary
  /\ Consume(1, "first name")
  /\ Push(FALSE)
  /\ scratch' = Captured /\ Keep

\* Mutant: a comma may end an object or an array.
AtEndAfterComma ==
  \/ ~Back.array /\ expect \in {"first name", "name", "next"} /\ Tok = P("}")
  \/ Back.array /\ expect \in {"first value", "value", "next"} /\ Tok = P("]")

AtEnd ==
  \/ ~Back.array /\ expect \in {"first name", "next"} /\ Tok = P("}")
  \/ Back.array /\ expect \in {"first value", "next"} /\ Tok = P("]")

EooFits == After(<<1>>).ok

\* The size of an object that ends here, which BSONObj::init looks at.
DoneSize(offset) == Len(buf) + 1 - offset

\* pop: the builder's done appends the EOO and stores the size it left out.
Pop ==
  /\ builders # << >> /\ AtEnd /\ Top > 1
  /\ EooFits /\ DoneSize(Back.offset) <= MaxObject
  /\ Consume(1, "next")
  /\ buf' = DoneBytes(buf, Back.offset) /\ size' = After(<<1>>).size
  /\ builders' = Front(builders)
  /\ UNCHANGED <<phase, scratch>> /\ Keep

\* The text has ended with its object: the first builder hands its buffer over.
Finish ==
  /\ phase = "parsing" /\ builders # << >> /\ AtEnd /\ Top = 1
  /\ At(pos + 1) = End
  /\ EooFits /\ DoneSize(Back.offset) <= MaxObject
  /\ phase' = "returned" /\ pos' = pos + 1
  /\ buf' = DoneBytes(buf, Back.offset) /\ size' = After(<<1>>).size
  /\ builders' = << >>
  /\ doc' = ReadObj(DoneBytes(buf, Back.offset), Back.offset)
  /\ UNCHANGED <<text, expect, scratch, freed>>

Ending == phase = "parsing" /\ builders # << >> /\ AtEnd /\ (Top > 1 \/ At(pos + 1) = End)

\* The builder has done its part when BSONObj::init throws: the object is too
\* large.  The first builder's buffer, already handed over, is freed.
TooLarge ==
  /\ Ending /\ EooFits /\ DoneSize(Back.offset) > MaxObject
  /\ SetBack([Back EXCEPT !.done = "called"])
  /\ buf' = DoneBytes(buf, Back.offset) /\ size' = After(<<1>>).size
  /\ phase' = "unwinding" /\ freed' = (Top = 1)
  /\ UNCHANGED <<text, pos, expect, scratch, doc>>

\* done throws when the EOO is past the limit: the size is not stored.
DoneThrows ==
  /\ Ending /\ ~EooFits
  /\ SetBack([Back EXCEPT !.done = "called"])
  /\ buf' = buf \o Skipped(1)
  /\ phase' = "unwinding"
  /\ UNCHANGED <<text, pos, expect, scratch, size, freed, doc>>

\* Mutant: what follows the document is not looked at.
GoesOnAfter ==
  \/ expect = "start" /\ Tok \in {End, P("{")}
  \/ AtName /\ Tok.k = "str" /\ Tok.s \notin Reserved
  \/ AtName /\ Tok.k = "word" /\ Tok.s # ""
  \/ expect = "colon" /\ Tok = P(":")
  \/ AtValue /\ ~BadBinary /\ (Tok \in {P("["), P("{")} \/ Special \/ Simple(Back.name) # << >>)
  \/ expect = "next" /\ Tok = P(",")
  \/ builders # << >> /\ AtEnd

\* What the text may go on with: anything else ends the parse, and fromjson
\* throws; a reserved name and a badly formatted binary throw by themselves.
Goes ==
  \/ expect = "start" /\ Tok \in {End, P("{")}
  \/ AtName /\ Tok.k = "str" /\ Tok.s \notin Reserved
  \/ AtName /\ Tok.k = "word" /\ Tok.s # ""
  \/ expect = "colon" /\ Tok = P(":")
  \/ AtValue /\ Tok \in {P("["), P("{")} /\ ~BadBinary
  \/ AtValue /\ ~BadBinary /\ (Special \/ Simple(Back.name) # << >>)
  \/ expect = "next" /\ Tok = P(",")
  \/ builders # << >> /\ AtEnd /\ (Top > 1 \/ At(pos + 1) = End)

Throw ==
  /\ phase = "parsing" /\ ~Goes
  /\ phase' = "unwinding"
  /\ UNCHANGED <<text, pos, expect, builders, scratch, bufVars, freed, doc>>

-----------------------------------------------------------------------------
(***************************************************************************)
(* Unwinding                                                               *)
(***************************************************************************)
\* Mutant: the loop stops before the first builder above the root.
UndoneButOne == {i \in DOMAIN builders : i > 2 /\ builders[i].done # "closed"}

\* ~ObjectBuilder: done for the builders above the first, from the last down.
Undone == {i \in DOMAIN builders : i > 1 /\ builders[i].done # "closed"}

\* The outcomes of done: an exception that leaves a destructor here terminates
\* the program.  A size that was never stored may be any.
UnwoundTo(b) ==
  LET stored == buf[b.offset + 1] IN
  CASE b.done = "open" ->
         {IF EooFits /\ DoneSize(b.offset) <= MaxObject THEN "unwinding" ELSE "terminated"}
    [] b.done # "open" /\ stored.k = "size" ->
         {IF stored.n <= MaxObject THEN "unwinding" ELSE "terminated"}
    [] OTHER -> {"unwinding", "terminated"}

UnwindDone ==
  /\ phase = "unwinding" /\ Undone # {}
  /\ LET i == Max(Undone)
         b == builders[i]
     IN  /\ builders' = [builders EXCEPT ![i].done = "closed"]
         /\ phase' \in UnwoundTo(b)
         /\ buf' = IF b.done # "open" THEN buf
                   ELSE IF EooFits THEN DoneBytes(buf, b.offset) ELSE buf \o Skipped(1)
         /\ size' = IF b.done # "open" THEN size ELSE After(<<1>>).size
  /\ UNCHANGED <<text, pos, expect, scratch, freed, doc>>

\* The vector then destroys the builders from the first on: the first frees the
\* buffer, another that is not done yet writes into it.
DestroyBuilder ==
  /\ phase = "unwinding" /\ Undone = {} /\ builders # << >>
  /\ LET first == Head(builders)
     IN  /\ freed' = TRUE
         /\ buf' = IF first.offset = 4 \/ first.done # "open" THEN buf
                   ELSE DoneBytes(buf, first.offset)
  /\ builders' = Tail(builders)
  /\ UNCHANGED <<text, pos, expect, phase, scratch, size, doc>>

Unwound ==
  /\ phase = "unwinding" /\ Undone = {} /\ builders = << >>
  /\ phase' = "thrown"
  /\ UNCHANGED <<text, pos, expect, builders, scratch, bufVars, freed, doc>>

Parse ==
  \/ ParseNothing \/ ObjectStart \/ FieldName \/ UnquotedFieldName \/ Colon \/ Comma
  \/ AppendSimple \/ AppendSpecial \/ OpenArray \/ OpenObject \/ Pop \/ Finish
  \/ TooLarge \/ DoneThrows

Next == Parse \/ Throw \/ UnwindDone \/ DestroyBuilder \/ Unwound

Spec == Init /\ [][Next]_vars

\* The program runs on.
FairSpec == Spec /\ WF_vars(Next)

-----------------------------------------------------------------------------
(***************************************************************************)
(* Properties                                                              *)
(***************************************************************************)
\* The buffer cannot be doubled once more.
CannotGrow == size > BufferMaxSize \div 2

\* The builders that a refused text leaves open finish their objects before the
\* buffer is freed; nothing is written to it after (~ObjectBuilder).
NothingWrittenAfterFree == [][freed => UNCHANGED buf]_vars

\* A builder's bytes never exceed its buffer, except when the limit is reached:
\* then the parse is over; the buffer stays within the limit (grow,
\* grow_reallocate).
InsideBuffer ==
  /\ phase \in {"parsing", "returned"} => Len(buf) <= size
  /\ size <= BufferMaxSize

\* The objects that are being built lie in the buffer, each behind the size of
\* the one around it: the size that done stores at the offset of a builder
\* overwrites nothing that another builder has written (BSONObjBuilder::_done).
ObjectsNested ==
  \A i, j \in DOMAIN builders :
    /\ builders[i].offset + 4 <= Len(buf)
    /\ i < j => builders[i].offset + 4 < builders[j].offset

\* An object above the first, when it is done, that is too large for a BSONObj.
Oversized ==
  \E i \in DOMAIN builders : i > 1 /\ Len(buf) - builders[i].offset > MaxObject

\* Every text is read or refused with an exception that the caller can catch,
\* unless the buffer could not grow any further or a nested object is too large:
\* what pop throws for it, ~ObjectBuilder throws again (fromjson).
ParseEnds == <>(phase \in {"returned", "thrown"} \/ CannotGrow \/ Oversized)
=============================================================================
