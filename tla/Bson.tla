-------------------------------- MODULE Bson --------------------------------
(***************************************************************************)
(* Documents as the BSON library reads, compares and converts them.  A     *)
(* document is a sequence of elements; an element is its type, its field   *)
(* name and what its value is made of.  A name is the sequence of its      *)
(* parts: "a.b" is <<"a", "b">>.                                           *)
(***************************************************************************)
EXTENDS Integers, SequencesExt

CONSTANTS Strings,  \* the strings of the documents, in the order of strcmp
          Exact,    \* integers above it are rounded when they become doubles
          Huge,     \* the largest finite double
          Deepest,  \* documents are nested less deep
          Radix     \* the values of a byte: 256

Blank == ""

ASSUME BsonAssumption ==
  /\ Exact \in Nat /\ Huge \in Nat /\ Deepest \in Nat
  /\ Radix \in Nat /\ Radix > 5
  /\ Strings \in Seq(STRING) /\ Strings # << >> /\ IsInjective(Strings)
  /\ Strings[1] = Blank
  /\ \A s \in ToSet(Strings) : Len(s) \in Nat /\ (Len(s) = 0 <=> s = Blank)

NaN      == Huge + 1
Infinity == Huge + 2

\* The order of canonicalType; the compound types of bsontypes.h by name.
Canonical ==
  [MinKey |-> -1, EOO |-> 0, Undefined |-> 0, jstNULL |-> 5, NumberDouble |-> 10,
   NumberInt |-> 10, NumberLong |-> 10, String |-> 15, Symbol |-> 15, Object |-> 20,
   Array |-> 25, BinData |-> 30, jstOID |-> 35, Bool |-> 40, Date |-> 45,
   Timestamp |-> 45, RegEx |-> 50, DBRef |-> 55, Code |-> 60, CodeWScope |-> 65,
   MaxKey |-> 127]

Types == DOMAIN Canonical

\* num: a number, in halves for the numeric types; a flag, a time, a subtype.
\* str, opt: strings, opt being the options or the object id; sub: a document.
Element(type, name, num, str, opt, sub) ==
  [type |-> type, name |-> name, num |-> num, str |-> str, opt |-> opt, sub |-> sub]

Plain(type, name)       == Element(type, name, 0, Blank, Blank, << >>)
Number(type, name, num) == Element(type, name, num, Blank, Blank, << >>)
Text(type, name, str)   == Element(type, name, 0, str, Blank, << >>)
Pair(type, name, str, opt) == Element(type, name, 0, str, opt, << >>)
Nested(type, name, sub) == Element(type, name, 0, Blank, Blank, sub)

Eoo == Plain("EOO", << >>)

IsNumber(e)   == e.type \in {"NumberLong", "NumberDouble", "NumberInt"}
IsABSONObj(e) == e.type \in {"Object", "Array"}

Renamed(e, name) == [e EXCEPT !.name = name]

-----------------------------------------------------------------------------
(***************************************************************************)
(* What a double holds of a number                                         *)
(***************************************************************************)
\* number(): a NumberLong that a double has no room for goes to the even one
\* of its neighbours.
AsDouble(e) ==
  IF e.type = "NumberLong" /\ e.num > Exact
  THEN 4 * (e.num \div 4 + IF e.num % 8 = 6 THEN 1 ELSE 0) ELSE e.num

Finite(x) == -Huge <= x /\ x <= Huge

-----------------------------------------------------------------------------
(***************************************************************************)
(* Documents                                                               *)
(***************************************************************************)
Words == ToSet(Strings)

\* What the value of each type is made of.  A date is a number of 64 bits
\* without a sign, the largest being Huge.
ValueOK(e) ==
  /\ e.type \in {"NumberInt", "NumberLong"} => Finite(e.num) /\ Finite(AsDouble(e))
  /\ e.type = "Bool" => e.num \in {0, 1}
  /\ e.type \in {"Date", "Timestamp"} => e.num \in 0..Huge
  /\ e.type = "BinData" => e.num >= 0
  /\ IsNumber(e) \/ e.type \in {"Bool", "Date", "Timestamp", "BinData"} \/ e.num = 0
  /\ \/ e.type \in {"String", "Symbol", "jstOID", "BinData", "RegEx", "DBRef", "Code", "CodeWScope"}
     \/ e.str = Blank
  /\ e.type \in {"RegEx", "DBRef"} \/ e.opt = Blank
  /\ IsABSONObj(e) \/ e.type = "CodeWScope" \/ e.sub = << >>

\* The elements in which documents of a set are nested.
ElementsOver(docs) ==
  {e \in [type : Types \ {"EOO"}, name : Seq(Words), num : Int, str : Words, opt : Words, sub : docs] :
     ValueOK(e)}

\* The documents that are nested n deep at most: those nested less deep in
\* elements, in any order.
DocsOf[n \in Nat] == IF n = 0 THEN {<< >>} ELSE Seq(ElementsOver(DocsOf[n - 1]))

Documents == DocsOf[Deepest]

-----------------------------------------------------------------------------
(***************************************************************************)
(* Sizes in bytes, of C strings with the zero at their end                 *)
(***************************************************************************)
Total(sizes) ==
  LET upTo[i \in Nat] == IF i = 0 THEN 0 ELSE upTo[i - 1] + sizes[i]
  IN  upTo[Len(sizes)]

StrSize(s)  == Len(s) + 1
NameSize(n) == IF n = << >> THEN 1 ELSE Total([i \in DOMAIN n |-> StrSize(n[i])])

\* In the operators named In, what is known of nested documents is a parameter.
ValueSizeIn(e, objSize) ==
  CASE e.type \in {"EOO", "Undefined", "jstNULL", "MaxKey", "MinKey"} -> 0
    [] e.type = "Bool"      -> 1
    [] e.type = "NumberInt" -> 4
    [] e.type \in {"Timestamp", "Date", "NumberDouble", "NumberLong"} -> 8
    [] e.type = "jstOID"    -> 12
    [] e.type \in {"Symbol", "Code", "String"} -> 4 + StrSize(e.str)
    [] e.type = "DBRef"     -> 4 + StrSize(e.str) + 12
    [] e.type = "BinData"   -> 4 + 1 + (StrSize(e.str) - 1)
    [] e.type = "RegEx"     -> StrSize(e.str) + StrSize(e.opt)
    [] e.type = "CodeWScope" -> 8 + StrSize(e.str) + objSize[e.sub]
    [] OTHER -> objSize[e.sub]

ElementSizeIn(e, objSize) ==
  IF e.type = "EOO" THEN 1 ELSE 1 + NameSize(e.name) + ValueSizeIn(e, objSize)

SizeAt[n \in Nat] ==
  IF n = 0 THEN [doc \in DocsOf[0] |-> 5]
  ELSE [doc \in DocsOf[n] |-> 5 + Total([i \in DOMAIN doc |-> ElementSizeIn(doc[i], SizeAt[n - 1])])]

ObjSize(doc)   == SizeAt[Deepest][doc]
ValueSize(e)   == ValueSizeIn(e, SizeAt[Deepest])
ElementSize(e) == ElementSizeIn(e, SizeAt[Deepest])

IsEmpty(doc) == ObjSize(doc) <= 5

-----------------------------------------------------------------------------
(***************************************************************************)
(* Comparison.  Only the sign of a result is kept.                         *)
(***************************************************************************)
Sign(n) == IF n < 0 THEN -1 ELSE IF n > 0 THEN 1 ELSE 0

StrCmp(s, t) == Sign((CHOOSE i \in DOMAIN Strings : Strings[i] = s)
                     - (CHOOSE i \in DOMAIN Strings : Strings[i] = t))

NameCmp(n, m) ==
  LET differ == {i \in DOMAIN n \cap DOMAIN m : n[i] # m[i]}
  IN  IF differ = {} THEN Sign(Len(n) - Len(m)) ELSE StrCmp(n[Min(differ)], m[Min(differ)])

\* The comparisons of a pair of elements, in order: the first that tells them
\* apart decides.
FirstOf(results) ==
  IF \A i \in DOMAIN results : results[i] = 0 THEN 0
  ELSE results[Min({i \in DOMAIN results : results[i] # 0})]

\* Mutant: two numbers that are not finite are not looked at together.
CompareDoublesUnordered(x, y) ==
  IF ~Finite(x) THEN -1 ELSE IF ~Finite(y) THEN 1 ELSE Sign(x - y)

CompareDoubles(x, y) ==
  CASE ~Finite(x) /\ ~Finite(y) -> 0
    [] ~Finite(x) /\ Finite(y)  -> -1
    [] Finite(x) /\ ~Finite(y)  -> 1
    [] OTHER -> Sign(x - y)

\* What strcmp reads where a scope begins: the bytes of its size up to a zero, the
\* low one first, here as the number that is in the same order.
UpToZero(bytes) ==
  [i \in DOMAIN bytes |-> IF \E j \in 1..i : bytes[j] = 0 THEN 0 ELSE bytes[i]]

KeyOfSize[size \in Nat] ==
  LET second == size \div Radix
      third  == second \div Radix
      b == UpToZero(<<size % Radix, second % Radix, third % Radix, (third \div Radix) % Radix>>)
  IN  ((b[1] * Radix + b[2]) * Radix + b[3]) * Radix + b[4]

ScopeKey(scope) == KeyOfSize[ObjSize(scope)]

CompareElementValues(l, r, woCompare) ==
  CASE l.type \in {"EOO", "Undefined", "jstNULL", "MaxKey", "MinKey"} ->
         Sign(Canonical[l.type] - Canonical[r.type])
    [] l.type \in {"Bool", "Date", "Timestamp"} -> Sign(l.num - r.num)
    [] l.type = "NumberLong" /\ r.type = "NumberLong" -> Sign(l.num - r.num)
    [] IsNumber(l) /\ ~(l.type = "NumberLong" /\ r.type = "NumberLong") ->
         CompareDoubles(AsDouble(l), AsDouble(r))
    [] l.type \in {"jstOID", "Code", "Symbol", "String"} -> StrCmp(l.str, r.str)
    [] IsABSONObj(l) -> woCompare[l.sub][r.sub]
    [] l.type = "DBRef" ->
         FirstOf(<<Sign(ValueSize(l) - ValueSize(r)), StrCmp(l.str, r.str),
                   StrCmp(l.opt, r.opt)>>)
    [] l.type = "BinData" ->
         FirstOf(<<Sign(StrSize(l.str) - StrSize(r.str)), Sign(l.num - r.num),
                   StrCmp(l.str, r.str)>>)
    [] l.type = "RegEx" -> FirstOf(<<StrCmp(l.str, r.str), StrCmp(l.opt, r.opt)>>)
    [] l.type = "CodeWScope" ->
         FirstOf(<<StrCmp(l.str, r.str),
                   Sign(ScopeKey(l.sub) - ScopeKey(r.sub))>>)

\* Mutant: the names are not compared.
CompareElementsUnnamed(l, r, considerFieldName, woCompare) ==
  LET x == Sign(Canonical[l.type] - Canonical[r.type])
  IN  IF x # 0 THEN x ELSE CompareElementValues(l, r, woCompare)

CompareElementsIn(l, r, considerFieldName, woCompare) ==
  LET x == Sign(Canonical[l.type] - Canonical[r.type])
      y == IF considerFieldName THEN NameCmp(l.name, r.name) ELSE 0
  IN  IF x # 0 THEN x ELSE IF y # 0 THEN y ELSE CompareElementValues(l, r, woCompare)

\* The i-th next() of an iterator: the EOO once the elements are exhausted.
ElementAt(doc, i) == IF i \in DOMAIN doc THEN doc[i] ELSE Eoo

\* The key pattern gives the direction of each position.
Descending(key, i) == i \in DOMAIN key /\ IsNumber(key[i]) /\ key[i].num < 0

WoCompareIn(l, r, key, considerFieldName, woCompare) ==
  IF IsEmpty(l) \/ IsEmpty(r) THEN Sign(Len(l) - Len(r))
  ELSE LET n == Min({Len(l), Len(r)})
           at == [i \in 1..n |->
                    LET x == CompareElementsIn(l[i], r[i], considerFieldName, woCompare)
                    IN  IF Descending(key, i) THEN -x ELSE x]
       IN  FirstOf(Append(at, Sign(Len(l) - Len(r))))

\* Nested documents are compared without a key, and by their names.
CompareAt[n \in Nat] ==
  IF n = 0 THEN [l \in DocsOf[0] |-> [r \in DocsOf[0] |-> 0]]
  ELSE [l \in DocsOf[n] |-> [r \in DocsOf[n] |-> WoCompareIn(l, r, << >>, TRUE, CompareAt[n - 1])]]

CompareElements(l, r, considerFieldName) ==
  CompareElementsIn(l, r, considerFieldName, CompareAt[Deepest])

WoCompare(l, r, key, considerFieldName) ==
  WoCompareIn(l, r, key, considerFieldName, CompareAt[Deepest])

\* operator==: every pair of elements compares equal, names included.
Equal(l, r) ==
  /\ Len(l) = Len(r)
  /\ \A i \in DOMAIN l : CompareElements(l[i], r[i], TRUE) = 0

-----------------------------------------------------------------------------
(***************************************************************************)
(* Looking fields up                                                       *)
(***************************************************************************)
GetField(doc, name) ==
  LET found == {i \in DOMAIN doc : doc[i].name = name}
  IN  IF found = {} THEN Eoo ELSE doc[Min(found)]

GetObjectField(doc, name) ==
  LET e == GetField(doc, name) IN IF IsABSONObj(e) THEN e.sub ELSE << >>

\* A name with n dots: the part before the first is looked for where the whole
\* name is not found.
DottedAt[n \in Nat] ==
  IF n = 0 THEN [doc \in Documents |-> [name \in Seq(Words) |-> GetField(doc, name)]]
  ELSE [doc \in Documents |-> [name \in Seq(Words) |->
          IF GetField(doc, name) # Eoo THEN GetField(doc, name)
          ELSE DottedAt[n - 1][GetObjectField(doc, <<Head(name)>>)][Tail(name)]]]

GetFieldDotted(doc, name) == DottedAt[Max({Len(name) - 1, 0})][doc][name]

\* The fields of a pattern, with its names.
ExtractFields(doc, pattern, fillWithNull) ==
  LET field(p) == GetFieldDotted(doc, p.name)
      found == IF fillWithNull THEN pattern ELSE SelectSeq(pattern, LAMBDA p : field(p) # Eoo)
  IN  [i \in DOMAIN found |->
         IF field(found[i]) = Eoo THEN Plain("jstNULL", found[i].name)
         ELSE Renamed(field(found[i]), found[i].name)]

\* Mutant: fields that are missing are appended too.
ExtractFieldsUnDottedAll(doc, pattern) ==
  [i \in DOMAIN pattern |-> Renamed(GetField(doc, pattern[i].name), << >>)]

ExtractFieldsUnDotted(doc, pattern) ==
  LET found == SelectSeq(pattern, LAMBDA p : GetField(doc, p.name) # Eoo)
  IN  [i \in DOMAIN found |-> Renamed(GetField(doc, found[i].name), << >>)]

FilterFieldsUndotted(doc, filter, inFilter) ==
  SelectSeq(doc, LAMBDA e : (GetField(filter, e.name) # Eoo) = inFilter)

GetFieldUsingIndexNames(doc, name, indexKey) ==
  LET at == {i \in DOMAIN indexKey : indexKey[i].name = name}
  IN  IF at = {} THEN Eoo ELSE ElementAt(doc, Min(at))

\* Mutant: a missing field stays the EOO.
OrEoo(e) == e

OrNull(e) == IF e = Eoo THEN Plain("jstNULL", << >>) ELSE e

\* The order of sorting by a key pattern; a missing field counts as null.
WoSortOrder(l, r, sortKey, useDotted) ==
  LET field(doc, name) == OrNull(IF useDotted THEN GetFieldDotted(doc, name)
                                 ELSE GetField(doc, name))
      at == [i \in DOMAIN sortKey |->
               LET x == CompareElements(field(l, sortKey[i].name),
                                        field(r, sortKey[i].name), FALSE)
               IN  IF Descending(sortKey, i) THEN -x ELSE x]
  IN  IF IsEmpty(l) \/ IsEmpty(r) THEN Sign(Len(l) - Len(r)) ELSE FirstOf(at)

\* Mutant: the least positive double is taken for the least.
MinForTypePositive(type, name) ==
  IF type \in {"NumberInt", "NumberLong", "NumberDouble"}
  THEN <<Number("NumberDouble", name, 1)>> ELSE <<Plain(type, name)>>

\* appendMinForType and appendMaxForType: the elements they append, which are to
\* bound those of a type.  The case of null goes on into that of Bool.
MinForType(type, name) ==
  CASE type \in {"MinKey", "MaxKey"} -> <<Plain("MinKey", name)>>
    [] type \in {"NumberInt", "NumberLong", "NumberDouble"} ->
         <<Number("NumberDouble", name, -Huge)>>
    [] type \in {"Symbol", "String"} -> <<Plain("String", name)>>
    [] type = "BinData" -> <<Number("BinData", name, 1)>>
    [] OTHER -> <<Plain(type, name)>>

MaxForType(type, name) ==
  CASE type \in {"MinKey", "MaxKey"} -> <<Plain("MaxKey", name)>>
    [] type \in {"NumberInt", "NumberLong", "NumberDouble"} ->
         <<Number("NumberDouble", name, Huge)>>
    [] type = "BinData" -> MinForType("jstOID", name)
    [] type = "jstOID"  -> <<Text("jstOID", name, Last(Strings))>>
    [] type \in {"Undefined", "jstNULL"} ->
         MinForType("NumberInt", name) \o <<Number("Bool", name, 1)>>
    [] type = "Bool" -> <<Number("Bool", name, 1)>>
    [] type \in {"Date", "Timestamp"} -> <<Number(type, name, Huge)>>
    [] type \in {"Symbol", "String"} -> <<Plain("Object", name)>>
    [] type \in {"Code", "CodeWScope"} -> <<Text("CodeWScope", name, "ZZZ")>>
    [] type = "Object" -> MinForType("Array", name)
    [] type = "Array"  -> MinForType("BinData", name)
    [] type = "RegEx"  -> MinForType("DBRef", name)
    [] OTHER -> MinForType("Code", name)

=============================================================================
