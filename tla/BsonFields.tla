----------------------------- MODULE BsonFields -----------------------------
(***************************************************************************)
(* The documents of BsonOrder, from which fields are looked up and taken   *)
(* and which are converted: lookups that expand arrays, nested documents   *)
(* and documents with dotted names.                                        *)
(***************************************************************************)
EXTENDS BsonOrder

CONSTANT Paths  \* names to look up

-----------------------------------------------------------------------------
(***************************************************************************)
(* Looking fields up in arrays                                             *)
(***************************************************************************)
\* Mutant: an index into an array is taken for a name.
NoDigits == {}

Digits == {"0", "1", "2", "3"}

\* The elements that a name reaches, arrays being expanded.  (The code's set
\* keeps one of those that have equal values.)
RECURSIVE GetFieldsDotted(_, _)
GetFieldsDotted(doc, name) ==
  LET e == GetField(doc, name)
      left == GetField(doc, <<Head(name)>>)
      next == Tail(name)
      inside == IF left.type = "Array" /\ Head(next) \notin Digits
                THEN {f.sub : f \in {f \in ToSet(left.sub) : IsABSONObj(f)}}
                ELSE IF IsABSONObj(left) THEN {left.sub} ELSE {}
  IN  IF e # Eoo THEN IF e.type = "Array" THEN ToSet(e.sub) ELSE {e}
      ELSE IF Len(name) = 1 THEN {}
      ELSE UNION {GetFieldsDotted(sub, next) : sub \in inside}

-----------------------------------------------------------------------------
(***************************************************************************)
(* Nested and dotted names                                                 *)
(***************************************************************************)
RECURSIVE Nested2Dotted(_, _)
Nested2Dotted(doc, base) ==
  FlattenSeq([i \in DOMAIN doc |->
    LET e == doc[i] IN
    IF e.type = "Object" THEN Nested2Dotted(e.sub, base \o e.name)
    ELSE <<Renamed(e, base \o e.name)>>])

\* bson2map: one element for each name, the last, in the order of the names.
Bson2Map(doc) ==
  LET last == {i \in DOMAIN doc : \A j \in DOMAIN doc : doc[j].name = doc[i].name => j <= i}
      order == SetToSortSeq(last, LAMBDA i, j : NameCmp(doc[i].name, doc[j].name) < 0)
  IN  [i \in DOMAIN order |-> doc[order[i]]]

\* The builders that EmbeddedBuilder holds are the objects at the end of the
\* document, one in the other: context is the sequence of their names.
RECURSIVE InContext(_, _, _)
InContext(doc, context, e) ==
  IF context = << >> THEN Append(doc, e)
  ELSE LET n == Len(doc)
       IN  [doc EXCEPT ![n] = [@ EXCEPT !.sub = InContext(@, Tail(context), e)]]

\* Mutant: every name starts afresh from the document.
PrepareContextAfresh(eb, name) ==
  LET Add(b, part) == [doc |-> InContext(b.doc, b.context, Nested("Object", <<part>>, << >>)),
                       context |-> Append(b.context, part)]
  IN  FoldLeft(Add, [doc |-> eb.doc, context |-> << >>], Front(name))

\* prepareContext: the builders that are not on the way to the name are popped,
\* those that are missing are added; the last part of the name is left.
PrepareContext(eb, name) ==
  LET path == Front(name)
      same == Max({n \in 0..Min({Len(path), Len(eb.context)}) :
                     SubSeq(path, 1, n) = SubSeq(eb.context, 1, n)})
      Add(b, part) == [doc |-> InContext(b.doc, b.context, Nested("Object", <<part>>, << >>)),
                       context |-> Append(b.context, part)]
  IN  FoldLeft(Add, [doc |-> eb.doc, context |-> SubSeq(path, 1, same)],
               SubSeq(path, same + 1, Len(path)))

\* An empty object is left open: fields may follow.
AppendAs(eb, e) ==
  LET empty == e.type = "Object" /\ e.sub = << >>
      b == PrepareContext(eb, IF empty THEN Append(e.name, "foo") ELSE e.name)
  IN  IF empty THEN b
      ELSE [b EXCEPT !.doc = InContext(@, b.context, Renamed(e, <<Last(e.name)>>))]

Dotted2Nested(doc) ==
  FoldLeft(AppendAs, [doc |-> << >>, context |-> << >>], Bson2Map(doc)).doc

-----------------------------------------------------------------------------
Extract(fillWithNull)  == one' = ExtractFields(one, two, fillWithNull)
ExtractUnDotted        == one' = ExtractFieldsUnDotted(one, two)
Filter(inFilter)       == one' = FilterFieldsUndotted(one, two, inFilter)
Nest                   == one' = Dotted2Nested(one)
Flatten                == one' = Nested2Dotted(one, << >>)

DocNext ==
  /\ one \in Docs /\ three = one
  /\ \/ \E b \in BOOLEAN : Extract(b) \/ Filter(b)
     \/ ExtractUnDotted \/ Nest \/ Flatten
  /\ UNCHANGED <<two, three>>

-----------------------------------------------------------------------------
\* No name of a document is the beginning of another, and none occurs twice.
Separate(d) ==
  \A i, j \in DOMAIN d : i # j => ~IsPrefix(d[i].name, d[j].name)

Flat(d) == \A i \in DOMAIN d : d[i].type # "Object" /\ d[i].name # << >>

\* A document with dotted names that do not get in each other's way is found
\* again in the nested one, by its dotted names, and nothing else is there.
DottedIsNested ==
  Flat(one) /\ Separate(one) =>
    LET nested == Dotted2Nested(one) IN
    /\ \A e \in ToSet(one) : Renamed(GetFieldDotted(nested, e.name), e.name) = e
    /\ ToSet(Nested2Dotted(nested, << >>)) = ToSet(one)

\* What getFieldDotted finds is among what getFieldsDotted finds, which expands
\* arrays: it or an element of equal value, of which one is kept.
FieldsDottedFindIt ==
  \A path \in Paths :
    LET e == GetFieldDotted(one, path) IN
    e # Eoo => \A f \in IF e.type = "Array" THEN ToSet(e.sub) ELSE {e} :
                 \E g \in GetFieldsDotted(one, path) : CompareElements(f, g, FALSE) = 0
=============================================================================
