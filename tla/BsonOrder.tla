------------------------------ MODULE BsonOrder ------------------------------
(***************************************************************************)
(* Documents that a caller holds and compares with each other: what the    *)
(* comparison of the library promises.                                     *)
(***************************************************************************)
EXTENDS Bson

CONSTANTS Docs,  \* the documents a caller starts with
          Keys   \* key patterns

\* The bound that appendMaxForType gives code with a scope is "ZZZ"; an empty key
\* pattern is refused (uassert 10060).
ASSUME OrderAssumption ==
  /\ Docs \subseteq Documents /\ "ZZZ" \in Words
  /\ Keys \subseteq Documents /\ << >> \notin Keys

VARIABLES one, two, three

docVars == <<one, two, three>>

DocInit == one \in Docs /\ two \in Docs /\ three \in Docs

-----------------------------------------------------------------------------
\* What a caller holds are documents.
DocTypeOK == one \in Documents /\ two \in Documents /\ three \in Documents

\* A number that is not exact as a double, and the documents without one.
Rounded(e) == AsDouble(e) # e.num

ExactAt[n \in Nat] ==
  IF n = 0 THEN DocsOf[0]
  ELSE {d \in DocsOf[n] : \A i \in DOMAIN d : ~Rounded(d[i]) /\ d[i].sub \in ExactAt[n - 1]}

AllExact == {one, two, three} \subseteq ExactAt[Deepest]

\* "wo" is for "well ordered": the comparison of documents is a total order, as
\* sorting by it needs.  (Longs that a double rounds compare equal to a double
\* and not to each other: compareElementValues.)
WellOrdered ==
  LET cmp(l, r) == WoCompare(l, r, << >>, TRUE) IN
  /\ cmp(one, two) = -cmp(two, one)
  /\ AllExact /\ cmp(one, two) <= 0 /\ cmp(two, three) <= 0 =>
       /\ cmp(one, three) <= 0
       /\ cmp(one, three) = 0 => cmp(one, two) = 0 /\ cmp(two, three) = 0

\* What equal documents have in common: the same fields in the same order with
\* the same values, up to the type of a number, of a string or a symbol, and of a
\* time; infinite numbers are not told apart, and of a scope at most the size is
\* looked at.
GistOf(e, gist) ==
  [of |-> Canonical[e.type], name |-> e.name, str |-> e.str, opt |-> e.opt,
   num |-> IF IsNumber(e) THEN IF Finite(e.num) THEN AsDouble(e) ELSE NaN ELSE e.num,
   sub |-> IF e.type = "CodeWScope" THEN << >> ELSE gist[e.sub]]

GistAt[n \in Nat] ==
  IF n = 0 THEN [d \in DocsOf[0] |-> << >>]
  ELSE [d \in DocsOf[n] |-> [i \in DOMAIN d |-> GistOf(d[i], GistAt[n - 1])]]

EqualIsAlike == Equal(one, two) => GistAt[Deepest][one] = GistAt[Deepest][two]

\* Sorting by a key pattern is comparing the keys that the pattern extracts, as
\* an index on it does, and a key holds each field where the pattern names it; an
\* empty document comes first whatever the pattern.
SortIsKeyOrder ==
  \A pattern \in Keys :
    LET key(d) == ExtractFields(d, pattern, TRUE) IN
    /\ \A p \in ToSet(pattern) :
         CompareElements(GetFieldUsingIndexNames(key(one), p.name, pattern),
                         OrNull(GetFieldDotted(one, p.name)), FALSE) = 0
    /\ one # << >> /\ two # << >> =>
         WoSortOrder(one, two, pattern, TRUE) = WoCompare(key(one), key(two), pattern, FALSE)

\* "min/max when comparing": the first element appended for a type bounds every
\* element of it, from both sides.  (Not bounded: numbers that are not finite, empty
\* general binary data, code with a scope from "ZZZ" on, and no code with a scope
\* whose size has a low byte below that of the empty scope's, 5.)
Unbounded(e) ==
  \/ IsNumber(e) /\ ~Finite(e.num)
  \/ e.type = "BinData" /\ e.str = Blank /\ e.num = 0
  \/ e.type = "CodeWScope" /\ StrCmp(e.str, "ZZZ") >= 0
  \/ e.type = "CodeWScope" /\ e.str = Blank /\ ObjSize(e.sub) % Radix < 5

BoundsEnclose ==
  \A e \in ToSet(one) : Unbounded(e) \/
    /\ CompareElements(Head(MinForType(e.type, e.name)), e, TRUE) <= 0
    /\ CompareElements(e, Head(MaxForType(e.type, e.name)), TRUE) <= 0
=============================================================================
