----------------------------- MODULE BsonProofs -----------------------------
(***************************************************************************)
(* For any documents: their comparison is a total order, equal documents   *)
(* hold the same values, the bounds of a type enclose its elements, and    *)
(* sorting by a pattern is comparing the keys that it extracts.            *)
(*                                                                         *)
(* The argument goes by the depth to which documents are nested.  What the *)
(* sizes, the comparison and the lookup are at a depth follows from what   *)
(* they are one less deep (NatRecursion).  A comparison is an order when   *)
(* it is turned round with what it compares and when its results follow    *)
(* one another; both pass from the values of elements to elements, in the  *)
(* order of kind, name and value, and from elements to documents, in       *)
(* lexicographic order, so from each depth to the next.                    *)
(***************************************************************************)
EXTENDS BsonOrder, SequenceTheorems, NaturalsInduction, WellFoundedInduction, TLAPS

-----------------------------------------------------------------------------
\* The constants: numbers and strings each by themselves.
LEMMA Numbers == Exact \in Nat /\ Huge \in Nat /\ Deepest \in Nat
  BY BsonAssumption, Zenon

LEMMA Lengths == \A s \in Words : Len(s) \in Nat /\ (Len(s) = 0 <=> s = Blank)
  BY BsonAssumption, Zenon DEF Words

LEMMA StringsOnce ==
  /\ DOMAIN Strings = 1..Len(Strings) /\ Len(Strings) \in Nat /\ Len(Strings) > 0
  /\ Strings[1] = Blank
  /\ \A i, j \in DOMAIN Strings : Strings[i] = Strings[j] => i = j
<1>1. Strings \in Seq(STRING) /\ Strings # << >> /\ Strings[1] = Blank /\ IsInjective(Strings)
  BY BsonAssumption, Zenon
<1>2. \A i, j \in DOMAIN Strings : Strings[i] = Strings[j] => i = j
  BY <1>1, Zenon DEF IsInjective
<1>3. \A s \in Seq(STRING) : s # << >> => DOMAIN s = 1..Len(s) /\ Len(s) \in Nat /\ Len(s) > 0
  BY EmptySeq
<1>4. QED BY <1>1, <1>2, <1>3, Zenon

DocsStep(n, docs) == Seq(ElementsOver(docs))

DocsRec == INSTANCE NatRecursion WITH Base <- {<< >>}, Step <- DocsStep

\* What is nested deeper is made of what is nested less deep.
LEMMA DocsUnfold ==
  /\ DocsOf[0] = {<< >>}
  /\ \A n \in Nat : DocsOf[n + 1] = Seq(ElementsOver(DocsOf[n]))
<1>1. DocsOf = DocsRec!Recursive
  BY DEF DocsOf, DocsRec!Recursive, DocsStep
<1>2. QED BY <1>1, DocsRec!Unfold DEF DocsStep

\* More documents are nested in more elements.
LEMMA ElementsGrow ==
  ASSUME NEW D, NEW E, D \subseteq E
  PROVE  ElementsOver(D) \subseteq ElementsOver(E)
  BY DEF ElementsOver

\* What is nested n deep at most is nested n + 1 deep at most.
LEMMA DocsGrowByOne == \A n \in Nat : DocsOf[n] \subseteq DocsOf[n + 1]
<1> DEFINE S == {n \in Nat : DocsOf[n] \subseteq DocsOf[n + 1]}
<1>1. 0 \in S
  <2>1. << >> \in Seq(ElementsOver(DocsOf[0]))
    OBVIOUS
  <2>2. QED BY <2>1, DocsUnfold
<1>2. ASSUME NEW n \in Nat, n \in S
      PROVE  n + 1 \in S
  <2>1. DocsOf[n] \subseteq DocsOf[n + 1] /\ n + 1 \in Nat
    BY <1>2
  <2>2. ElementsOver(DocsOf[n]) \subseteq ElementsOver(DocsOf[n + 1])
    BY <2>1, ElementsGrow
  <2>3. Seq(ElementsOver(DocsOf[n])) \subseteq Seq(ElementsOver(DocsOf[n + 1]))
    BY <2>2
  <2>4. QED BY <2>1, <2>3, DocsUnfold
<1>3. Nat \subseteq S
  <2> HIDE DEF S
  <2>1. QED BY <1>1, <1>2, DocsRec!Induction
<1>4. QED BY <1>3

LEMMA DocsGrow ==
  ASSUME NEW n \in Nat, NEW m \in Nat, n <= m
  PROVE  DocsOf[n] \subseteq DocsOf[m]
<1> DEFINE S == {k \in Nat : DocsOf[n] \subseteq DocsOf[n + k]}
<1>1. 0 \in S
  OBVIOUS
<1>2. ASSUME NEW k \in Nat, k \in S
      PROVE  k + 1 \in S
  <2>1. DocsOf[n] \subseteq DocsOf[n + k] /\ n + k \in Nat /\ (n + k) + 1 = n + (k + 1)
    BY <1>2
  <2>2. DocsOf[n + k] \subseteq DocsOf[(n + k) + 1]
    BY <2>1, DocsGrowByOne
  <2>3. QED BY <2>1, <2>2
<1>3. Nat \subseteq S
  <2> HIDE DEF S
  <2>1. QED BY <1>1, <1>2, DocsRec!Induction
<1>4. m - n \in Nat /\ n + (m - n) = m
  OBVIOUS
<1>5. QED BY <1>3, <1>4

\* The elements of documents.
Elems == ElementsOver(Documents)

\* A document is a sequence of elements, in which documents are nested less deep.
LEMMA DocIn ==
  ASSUME NEW n \in 0..Deepest, NEW d \in DocsOf[n]
  PROVE  /\ d \in Documents /\ d \in Seq(Elems)
         /\ \A i \in DOMAIN d : d[i] \in Elems /\ n > 0 /\ d[i].sub \in DocsOf[n - 1]
<1>1. Deepest \in Nat /\ n \in Nat
  BY Numbers
<1>2. d \in Documents
  BY <1>1, DocsGrow DEF Documents
<1>3. CASE n = 0
  BY <1>2, <1>3, DocsUnfold
<1>4. CASE n # 0
  <2>1. n - 1 \in Nat /\ n - 1 + 1 = n /\ n - 1 <= Deepest
    BY <1>1, <1>4
  <2>2. d \in Seq(ElementsOver(DocsOf[n - 1]))
    BY <2>1, DocsUnfold
  <2>3. ElementsOver(DocsOf[n - 1]) \subseteq Elems
    BY <2>1, <1>1, DocsGrow, ElementsGrow DEF Elems, Documents
  <2>4. d \in Seq(Elems)
    BY <2>2, <2>3
  <2>5. ASSUME NEW i \in DOMAIN d
        PROVE  d[i] \in Elems /\ d[i].sub \in DocsOf[n - 1]
    <3>1. d[i] \in ElementsOver(DocsOf[n - 1])
      BY <2>2
    <3>2. QED BY <3>1, <2>3 DEF ElementsOver
  <2>6. QED BY <1>1, <1>2, <1>4, <2>4, <2>5
<1>5. QED BY <1>3, <1>4

\* The fields of an element.
LEMMA ElemFields ==
  ASSUME NEW e \in Elems
  PROVE  /\ e.type \in Types \ {"EOO"} /\ e.name \in Seq(Words) /\ e.num \in Int
         /\ e.str \in Words /\ e.opt \in Words /\ e.sub \in Documents
         /\ ValueOK(e)
  BY DEF Elems, ElementsOver
-----------------------------------------------------------------------------
\* Sums over every sequence of numbers, as far as a position.
SumBase       == [s \in Seq(Nat) |-> 0]
SumStep(n, g) == [s \in Seq(Nat) |-> g[s] + s[n]]

SumRec == INSTANCE NatRecursion WITH Base <- SumBase, Step <- SumStep

\* Total is a sum.
LEMMA TotalUpTo ==
  ASSUME NEW s \in Seq(Nat)
  PROVE  \E f : /\ Total(s) = f[Len(s)]
                /\ f[0] = 0
                /\ \A n \in Nat : f[n + 1] = f[n] + s[n + 1]
<1> DEFINE g == [n \in Nat |-> SumRec!Recursive[n][s]]
           f == CHOOSE u : u = [i \in Nat |-> IF i = 0 THEN 0 ELSE u[i - 1] + s[i]]
<1>1. Total(s) = f[Len(s)]
  BY DEF Total
<1>2. ASSUME NEW i \in Nat
      PROVE  g[i] = IF i = 0 THEN 0 ELSE g[i - 1] + s[i]
  <2>1. CASE i = 0
    BY <2>1, SumRec!Unfold DEF SumBase
  <2>2. CASE i # 0
    <3>1. i - 1 \in Nat /\ i - 1 + 1 = i
      BY <2>2
    <3>2. SumRec!Recursive[i] = SumStep(i, SumRec!Recursive[i - 1])
      BY <3>1, SumRec!Unfold
    <3>3. SumRec!Recursive[i][s] = SumRec!Recursive[i - 1][s] + s[i]
      BY <3>2 DEF SumStep
    <3>4. QED BY <2>2, <3>1, <3>3
  <2>3. QED BY <2>1, <2>2
<1>3. g = [i \in Nat |-> IF i = 0 THEN 0 ELSE g[i - 1] + s[i]]
  <2>1. g = [i \in Nat |-> g[i]]
    OBVIOUS
  <2> HIDE DEF g
  <2>2. QED BY <1>2, <2>1
<1> HIDE DEF g
<1>4. f = [i \in Nat |-> IF i = 0 THEN 0 ELSE f[i - 1] + s[i]]
  BY <1>3
<1> HIDE DEF f
<1>5. f[0] = 0
  BY <1>4
<1>6. ASSUME NEW n \in Nat
      PROVE  f[n + 1] = f[n] + s[n + 1]
  <2>1. n + 1 \in Nat /\ n + 1 # 0 /\ n + 1 - 1 = n
    OBVIOUS
  <2>2. f[n + 1] = f[n + 1 - 1] + s[n + 1]
    BY <1>4, <2>1
  <2>3. QED BY <2>1, <2>2
<1>7. QED BY <1>1, <1>5, <1>6

\* A sum of numbers is a number, and positive when there are numbers, all positive.
LEMMA TotalNat ==
  ASSUME NEW s \in Seq(Nat)
  PROVE  /\ Total(s) \in Nat
         /\ s # << >> /\ (\A i \in DOMAIN s : s[i] > 0) => Total(s) > 0
<1>1. PICK f : /\ Total(s) = f[Len(s)]
               /\ f[0] = 0
               /\ \A n \in Nat : f[n + 1] = f[n] + s[n + 1]
  BY TotalUpTo
<1> DEFINE S == {n \in Nat : n <= Len(s) =>
                   /\ f[n] \in Nat
                   /\ n > 0 /\ (\A i \in DOMAIN s : s[i] > 0) => f[n] > 0}
<1>2. Len(s) \in Nat /\ DOMAIN s = 1..Len(s) /\ \A i \in DOMAIN s : s[i] \in Nat
  OBVIOUS
<1>3. 0 \in S
  BY <1>1
<1>4. ASSUME NEW n \in Nat, n \in S
      PROVE  n + 1 \in S
  <2>1. SUFFICES ASSUME n + 1 <= Len(s)
                 PROVE  /\ f[n + 1] \in Nat
                        /\ (\A i \in DOMAIN s : s[i] > 0) => f[n + 1] > 0
    OBVIOUS
  <2>2. f[n] \in Nat /\ n + 1 \in DOMAIN s /\ s[n + 1] \in Nat
    BY <1>2, <1>4, <2>1
  <2>3. f[n + 1] = f[n] + s[n + 1]
    BY <1>1
  <2>4. QED BY <2>2, <2>3
<1>5. Len(s) \in S
  <2> HIDE DEF S
  <2>1. Nat \subseteq S
    BY <1>3, <1>4, SumRec!Induction
  <2>2. QED BY <1>2, <2>1
<1>6. s # << >> => Len(s) > 0
  BY <1>2, EmptySeq
<1>7. QED BY <1>1, <1>2, <1>5, <1>6
-----------------------------------------------------------------------------
(***************************************************************************)
(* Orders.  A comparison of two things is a sign; it is an order when it   *)
(* is turned round with them and when the signs of x and y, of y and z and *)
(* of x and z follow one another.                                          *)
(***************************************************************************)
Signs == {-1, 0, 1}

Follow(a, b, c) == a <= 0 /\ b <= 0 => c <= 0 /\ (c = 0 <=> a = 0 /\ b = 0)

LEMMA SignOf ==
  ASSUME NEW n \in Int
  PROVE  /\ Sign(n) \in Signs /\ Sign(-n) = -Sign(n)
         /\ Sign(n) = 0 <=> n = 0
         /\ Sign(n) <= 0 <=> n <= 0
  BY DEF Sign, Signs

LEMMA DifferenceOrder ==
  ASSUME NEW x \in Int, NEW y \in Int, NEW z \in Int
  PROVE  /\ Sign(x - y) \in Signs /\ Sign(y - x) = -Sign(x - y)
         /\ Sign(x - y) = 0 <=> x = y
         /\ Sign(x - y) <= 0 <=> x <= y
         /\ Follow(Sign(x - y), Sign(y - z), Sign(x - z))
  BY DEF Sign, Signs, Follow

\* The position of a string in the order of strcmp.
Place(s) == CHOOSE i \in DOMAIN Strings : Strings[i] = s

LEMMA PlaceOf ==
  ASSUME NEW s \in Words
  PROVE  /\ Place(s) \in DOMAIN Strings /\ Place(s) \in Nat /\ Place(s) > 0
         /\ Strings[Place(s)] = s
<1>1. \E i \in DOMAIN Strings : Strings[i] = s
  BY DEF Words, ToSet
<1>2. Place(s) \in DOMAIN Strings /\ Strings[Place(s)] = s
  BY <1>1 DEF Place
<1>3. DOMAIN Strings = 1..Len(Strings) /\ Len(Strings) \in Nat
  BY StringsOnce
<1>4. QED BY <1>2, <1>3

\* strcmp orders strings, and tells any two apart; nothing is before Blank.
LEMMA StrCmpOrder ==
  ASSUME NEW s \in Words, NEW t \in Words, NEW u \in Words
  PROVE  /\ StrCmp(s, t) \in Signs /\ StrCmp(t, s) = -StrCmp(s, t)
         /\ StrCmp(s, t) = 0 <=> s = t
         /\ Follow(StrCmp(s, t), StrCmp(t, u), StrCmp(s, u))
<1>1. \A v, w \in Words : StrCmp(v, w) = Sign(Place(v) - Place(w))
  BY DEF StrCmp, Place
<1>2. /\ Place(s) \in Int /\ Place(t) \in Int /\ Place(u) \in Int
      /\ Place(s) = Place(t) => s = t
  BY PlaceOf
<1>3. /\ Sign(Place(s) - Place(t)) \in Signs
      /\ Sign(Place(t) - Place(s)) = -Sign(Place(s) - Place(t))
      /\ Sign(Place(s) - Place(t)) = 0 <=> Place(s) = Place(t)
      /\ Follow(Sign(Place(s) - Place(t)), Sign(Place(t) - Place(u)), Sign(Place(s) - Place(u)))
  BY <1>2, DifferenceOrder
<1> HIDE DEF Place
<1>4. QED BY <1>1, <1>2, <1>3

LEMMA EmptyFirst ==
  ASSUME NEW s \in Words
  PROVE  Blank \in Words /\ StrCmp(Blank, s) <= 0
<1>1. 1 \in DOMAIN Strings
  BY StringsOnce
<1>2. Blank \in Words
  BY <1>1, StringsOnce DEF Words, ToSet
<1>3. Place(Blank) = 1
  BY <1>1, <1>2, PlaceOf, StringsOnce
<1>4. StrCmp(Blank, s) = Sign(1 - Place(s))
  BY <1>3 DEF StrCmp, Place
<1>5. Place(s) \in Nat /\ Place(s) > 0
  BY PlaceOf
<1>6. QED BY <1>2, <1>4, <1>5 DEF Sign

\* The lexicographic order is the order at the first position that differs: what
\* a comparison finds there, position by position, and what it makes of it.
Positions == Nat \ {0}

IsFirst(v, c) ==
  \/ v = 0 /\ \A i \in Positions : c[i] = 0
  \/ \E i \in Positions : v = c[i] /\ v # 0 /\ \A j \in Positions : j < i => c[j] = 0

LEMMA LexTurned ==
  ASSUME NEW c \in [Positions -> Signs], NEW v, IsFirst(v, c),
         NEW d \in [Positions -> Signs], NEW w, IsFirst(w, d),
         \A i \in Positions : d[i] = -c[i]
  PROVE  v \in Signs /\ w = -v
<1>1. CASE v = 0 /\ \A i \in Positions : c[i] = 0
  BY <1>1 DEF IsFirst, Signs
<1>2. CASE \E i \in Positions : v = c[i] /\ v # 0 /\ \A j \in Positions : j < i => c[j] = 0
  <2>1. PICK i \in Positions : v = c[i] /\ v # 0 /\ \A j \in Positions : j < i => c[j] = 0
    BY <1>2
  <2>2. d[i] = -v /\ d[i] # 0 /\ \A j \in Positions : j < i => d[j] = 0
    BY <2>1 DEF Signs
  <2>3. PICK k \in Positions : w = d[k] /\ w # 0 /\ \A j \in Positions : j < k => d[j] = 0
    BY <2>2 DEF IsFirst
  <2>4. k = i
    BY <2>2, <2>3 DEF Positions
  <2>5. QED BY <2>1, <2>2, <2>3, <2>4
<1>3. QED BY <1>1, <1>2 DEF IsFirst

LEMMA LexFollows ==
  ASSUME NEW a \in [Positions -> Signs], NEW u, IsFirst(u, a),
         NEW b \in [Positions -> Signs], NEW v, IsFirst(v, b),
         NEW c \in [Positions -> Signs], NEW w, IsFirst(w, c),
         \A i \in Positions : Follow(a[i], b[i], c[i])
  PROVE  Follow(u, v, w)
<1>1. SUFFICES ASSUME u <= 0, v <= 0
               PROVE  w <= 0 /\ (w = 0 <=> u = 0 /\ v = 0)
  BY DEF Follow
<1>2. CASE u = 0 /\ v = 0
  <2>1. \A i \in Positions : a[i] = 0 /\ b[i] = 0
    BY <1>2 DEF IsFirst
  <2>2. \A i \in Positions : c[i] = 0
    BY <2>1 DEF Follow
  <2>3. QED BY <1>2, <2>2 DEF IsFirst
<1>3. CASE u # 0 \/ v # 0
  <2>1. \E i \in Positions : /\ a[i] # 0 \/ b[i] # 0
                             /\ a[i] <= 0 /\ b[i] <= 0
                             /\ \A j \in Positions : j < i => a[j] = 0 /\ b[j] = 0
    <3>1. CASE u = 0
      BY <1>1, <1>3, <3>1 DEF IsFirst
    <3>2. CASE v = 0
      BY <1>1, <1>3, <3>2 DEF IsFirst
    <3>3. CASE u # 0 /\ v # 0
      <4>1. PICK i \in Positions : u = a[i] /\ \A j \in Positions : j < i => a[j] = 0
        BY <3>3 DEF IsFirst
      <4>2. PICK k \in Positions : v = b[k] /\ \A j \in Positions : j < k => b[j] = 0
        BY <3>3 DEF IsFirst
      <4>3. CASE i < k
        BY <1>1, <3>3, <4>1, <4>2, <4>3 DEF Positions
      <4>4. CASE k < i
        BY <1>1, <3>3, <4>1, <4>2, <4>4 DEF Positions
      <4>5. CASE i = k
        BY <1>1, <3>3, <4>1, <4>2, <4>5 DEF Positions
      <4>6. QED BY <4>3, <4>4, <4>5 DEF Positions
    <3>4. QED BY <3>1, <3>2, <3>3
  <2>2. PICK i \in Positions : /\ a[i] # 0 \/ b[i] # 0
                               /\ a[i] <= 0 /\ b[i] <= 0
                               /\ \A j \in Positions : j < i => a[j] = 0 /\ b[j] = 0
    BY <2>1
  <2>3. c[i] <= 0 /\ c[i] # 0 /\ \A j \in Positions : j < i => c[j] = 0
    BY <2>2 DEF Follow
  <2>4. w # 0
    BY <2>3 DEF IsFirst
  <2>5. PICK k \in Positions : w = c[k] /\ w # 0 /\ \A j \in Positions : j < k => c[j] = 0
    BY <2>4 DEF IsFirst
  <2>6. k = i
    BY <2>3, <2>5 DEF Positions
  <2>7. QED BY <1>3, <2>3, <2>5, <2>6
<1>4. QED BY <1>2, <1>3

\* A set of numbers has a least one, which Min finds.
LEMMA MinOf ==
  ASSUME NEW S, S \subseteq Nat, S # {}
  PROVE  Min(S) \in S /\ \A n \in S : Min(S) <= n
<1>1. PICK m \in S : \A n \in S : <<n, m>> \notin OpToRel(<, Nat)
  BY NatLessThanWellFounded, WFMin
<1>2. ASSUME NEW n \in S
      PROVE  m <= n
  <2>1. n \in Nat /\ m \in Nat
    OBVIOUS
  <2>2. <<n, m>> \notin OpToRel(<, Nat)
    BY <1>1
  <2>3. ~(n < m)
    BY <2>1, <2>2 DEF OpToRel
  <2>4. QED BY <2>1, <2>3
<1>3. QED BY <1>2 DEF Min

\* FirstOf finds the first of some results that is not 0.
LEMMA FirstOfIs ==
  ASSUME NEW s \in Seq(Signs), NEW c \in [Positions -> Signs],
         \A i \in Positions : c[i] = IF i \in DOMAIN s THEN s[i] ELSE 0
  PROVE  IsFirst(FirstOf(s), c)
<1> DEFINE S == {i \in DOMAIN s : s[i] # 0}
<1>1. DOMAIN s = 1..Len(s) /\ Len(s) \in Nat
  OBVIOUS
<1>2. CASE \A i \in DOMAIN s : s[i] = 0
  BY <1>2 DEF FirstOf, IsFirst
<1>3. CASE ~\A i \in DOMAIN s : s[i] = 0
  <2>1. S \subseteq Nat /\ S # {}
    BY <1>1, <1>3
  <2>2. FirstOf(s) = s[Min(S)]
    BY <1>3 DEF FirstOf
  <2> DEFINE i == Min(S)
  <2> HIDE DEF S
  <2>3. i \in S /\ \A j \in S : i <= j
    BY <2>1, MinOf
  <2> USE DEF S
  <2> HIDE DEF i
  <2>4. i \in Positions /\ i \in DOMAIN s /\ s[i] # 0 /\ c[i] = s[i]
    BY <1>1, <2>3 DEF Positions
  <2>5. \A j \in Positions : j < i => c[j] = 0
    BY <1>1, <2>3, <2>4 DEF Positions
  <2>6. FirstOf(s) = c[i] /\ c[i] # 0
    BY <2>2, <2>4 DEF i
  <2>7. QED BY <2>4, <2>5, <2>6 DEF IsFirst
<1>4. QED BY <1>2, <1>3

-----------------------------------------------------------------------------
(***************************************************************************)
(* Sizes                                                                   *)
(***************************************************************************)
LEMMA WordSize ==
  ASSUME NEW s \in Words
  PROVE  Len(s) \in Nat /\ StrSize(s) \in Nat /\ StrSize(s) > 0
<1>1. Len(s) \in Nat
  BY Lengths
<1>2. QED BY <1>1 DEF StrSize

LEMMA NameSizeNat ==
  ASSUME NEW n \in Seq(Words)
  PROVE  NameSize(n) \in Nat
<1> DEFINE sizes == [i \in DOMAIN n |-> StrSize(n[i])]
<1>1. DOMAIN n = 1..Len(n) /\ Len(n) \in Nat /\ \A i \in DOMAIN n : n[i] \in Words
  OBVIOUS
<1>2. \A i \in 1..Len(n) : StrSize(n[i]) \in Nat
  BY <1>1, WordSize
<1>3. sizes \in Seq(Nat)
  BY <1>1, <1>2
<1> HIDE DEF sizes
<1>4. Total(sizes) \in Nat
  BY <1>3, TotalNat
<1>5. QED BY <1>4 DEF NameSize, sizes

\* An element takes at least the byte of its type.
LEMMA ElementSizeNat ==
  ASSUME NEW e \in Elems, NEW objSize, objSize[e.sub] \in Nat
  PROVE  ElementSizeIn(e, objSize) \in Nat /\ ElementSizeIn(e, objSize) > 0
<1>1. e.type # "EOO" /\ NameSize(e.name) \in Nat
  BY ElemFields, NameSizeNat
<1>2. StrSize(e.str) \in Nat /\ StrSize(e.opt) \in Nat /\ StrSize(e.str) > 0
  BY ElemFields, WordSize
<1>3. ValueSizeIn(e, objSize) \in Nat
  BY <1>2 DEF ValueSizeIn
<1>4. QED BY <1>1, <1>3 DEF ElementSizeIn

SizeBase       == [doc \in DocsOf[0] |-> 5]
SizeStep(n, g) == [doc \in DocsOf[n] |-> 5 + Total([i \in DOMAIN doc |-> ElementSizeIn(doc[i], g)])]

SizeRec == INSTANCE NatRecursion WITH Base <- SizeBase, Step <- SizeStep

LEMMA SizeUnfold ==
  /\ SizeAt[0] = SizeBase
  /\ \A n \in Nat : SizeAt[n + 1] = SizeStep(n + 1, SizeAt[n])
<1>1. SizeAt = SizeRec!Recursive
  BY DEF SizeAt, SizeRec!Recursive, SizeBase, SizeStep
<1>2. QED BY <1>1, SizeRec!Unfold

\* A document takes five bytes, and more exactly when it has elements.
LEMMA SizeOf ==
  ASSUME NEW n \in 0..Deepest, NEW d \in DocsOf[n]
  PROVE  /\ SizeAt[n][d] \in Nat /\ SizeAt[n][d] >= 5
         /\ SizeAt[n][d] > 5 <=> d # << >>
<1> DEFINE Right(m, x) == /\ SizeAt[m][x] \in Nat /\ SizeAt[m][x] >= 5
                          /\ SizeAt[m][x] > 5 <=> x # << >>
           S == {m \in Nat : m <= Deepest => \A x \in DocsOf[m] : Right(m, x)}
<1>1. 0 \in S
  BY SizeUnfold, DocsUnfold DEF SizeBase
<1>2. ASSUME NEW m \in Nat, m \in S
      PROVE  m + 1 \in S
  <2>1. SUFFICES ASSUME m + 1 <= Deepest, NEW x \in DocsOf[m + 1]
                 PROVE  Right(m + 1, x)
    OBVIOUS
  <2> DEFINE sizes == [i \in DOMAIN x |-> ElementSizeIn(x[i], SizeAt[m])]
  <2>2. m + 1 \in 0..Deepest /\ m + 1 - 1 = m /\ m <= Deepest
    BY <2>1, Numbers
  <2>3. x \in Seq(Elems) /\ \A i \in DOMAIN x : x[i] \in Elems /\ x[i].sub \in DocsOf[m]
    BY <2>1, <2>2, DocIn
  <2>4. \A i \in DOMAIN x : SizeAt[m][x[i].sub] \in Nat
    BY <1>2, <2>2, <2>3
  <2>5. \A i \in DOMAIN x : ElementSizeIn(x[i], SizeAt[m]) \in Nat /\ ElementSizeIn(x[i], SizeAt[m]) > 0
    BY <2>3, <2>4, ElementSizeNat
  <2>6. DOMAIN x = 1..Len(x) /\ Len(x) \in Nat
    BY <2>3
  <2>7. sizes \in Seq(Nat) /\ (\A i \in DOMAIN sizes : sizes[i] > 0)
        /\ (x = << >> <=> sizes = << >>)
    <3>1. sizes \in Seq(Nat) /\ Len(sizes) = Len(x)
      BY <2>5, <2>6
    <3>2. \A i \in DOMAIN sizes : sizes[i] > 0
      BY <2>5
    <3> HIDE DEF sizes
    <3>3. x = << >> <=> sizes = << >>
      BY <2>3, <3>1, EmptySeq
    <3>4. QED BY <3>1, <3>2, <3>3
  <2>8. SizeAt[m + 1][x] = 5 + Total(sizes)
    BY SizeUnfold DEF SizeStep
  <2> HIDE DEF sizes
  <2>9. Total(sizes) \in Nat /\ (sizes # << >> => Total(sizes) > 0)
    BY <2>7, TotalNat
  <2>10. sizes = << >> => Total(sizes) = 0
    <3>1. PICK f : Total(sizes) = f[Len(sizes)] /\ f[0] = 0
      BY <2>7, TotalUpTo
    <3>2. QED BY <3>1
  <2>11. QED BY <2>7, <2>8, <2>9, <2>10
<1>3. Nat \subseteq S
  <2> HIDE DEF S
  <2>1. QED BY <1>1, <1>2, DocsRec!Induction
<1>4. n \in Nat /\ n <= Deepest
  BY Numbers
<1>5. QED BY <1>3, <1>4

\* isEmpty looks at the size, and finds that there are no elements.
LEMMA EmptyDoc ==
  ASSUME NEW d \in Documents
  PROVE  /\ ObjSize(d) \in Nat /\ ObjSize(d) >= 5
         /\ IsEmpty(d) <=> d = << >>
<1>1. Deepest \in 0..Deepest
  BY Numbers
<1>2. QED BY <1>1, SizeOf DEF Documents, ObjSize, IsEmpty

LEMMA RadixFacts ==
  /\ Radix \in Nat /\ Radix > 5
  /\ \A n \in Nat : n % Radix \in Nat /\ n % Radix < Radix /\ n \div Radix \in Nat
  /\ 5 % Radix = 5 /\ 5 \div Radix = 0 /\ 0 % Radix = 0 /\ 0 \div Radix = 0
<1>1. Radix \in Nat /\ Radix > 5
  BY BsonAssumption
<1>2. QED BY <1>1

\* A number with the digits that strcmp reads; larger digits make it no smaller.
LEMMA Digits ==
  ASSUME NEW a \in Nat, NEW b \in Nat, NEW c \in Nat, NEW d \in Nat
  PROVE  /\ ((a * Radix + b) * Radix + c) * Radix + d \in Nat
         /\ a >= 5 => ((a * Radix + b) * Radix + c) * Radix + d
                      >= ((5 * Radix + 0) * Radix + 0) * Radix + 0
<1>1. Radix \in Nat
  BY RadixFacts
<1>2. \A x, y, z \in Nat : /\ x * Radix + z \in Nat
                           /\ x >= y => x * Radix + z >= y * Radix + 0
  <2>1. SUFFICES ASSUME NEW x \in Nat, NEW y \in Nat, NEW z \in Nat
                 PROVE  /\ x * Radix + z \in Nat
                        /\ x >= y => x * Radix + z >= y * Radix + 0
    OBVIOUS
  <2>2. x * Radix \in Nat /\ y * Radix \in Nat
    BY <1>1
  <2>3. x >= y => x * Radix >= y * Radix
    BY <1>1
  <2>4. QED BY <2>2, <2>3
<1> DEFINE x1 == a * Radix + b
           x2 == x1 * Radix + c
           x3 == x2 * Radix + d
           y1 == 5 * Radix + 0
           y2 == y1 * Radix + 0
<1>3. x1 \in Nat /\ y1 \in Nat /\ (a >= 5 => x1 >= y1)
  BY <1>2
<1>4. x2 \in Nat /\ y2 \in Nat /\ (a >= 5 => x2 >= y2)
  <2> HIDE DEF x1, y1
  <2>1. QED BY <1>2, <1>3
<1>5. x3 \in Nat /\ (a >= 5 => x3 >= y2 * Radix + 0)
  <2> HIDE DEF x2, y2
  <2>1. QED BY <1>2, <1>4
<1>6. QED BY <1>5

LEMMA ScopeKeyIs ==
  ASSUME NEW d \in Documents
  PROVE  \E a, b, c \in Nat :
           /\ ScopeKey(d) = (((ObjSize(d) % Radix) * Radix + a) * Radix + b) * Radix + c
           /\ d = << >> => ObjSize(d) % Radix = 5 /\ a = 0 /\ b = 0 /\ c = 0
<1> DEFINE size == ObjSize(d)
           second == size \div Radix
           third == second \div Radix
           bytes == <<size % Radix, second % Radix, third % Radix, (third \div Radix) % Radix>>
           seen == UpToZero(bytes)
<1>1. size \in Nat /\ (d = << >> => size = 5)
  BY EmptyDoc DEF IsEmpty
<1>2. second \in Nat /\ third \in Nat /\ third \div Radix \in Nat
  <2>1. second \in Nat
    BY <1>1, RadixFacts
  <2>2. third \in Nat
    BY <2>1, RadixFacts
  <2>3. QED BY <2>1, <2>2, RadixFacts
<1>3. /\ bytes[1] \in Nat /\ bytes[2] \in Nat /\ bytes[3] \in Nat /\ bytes[4] \in Nat
      /\ DOMAIN bytes = 1 .. 4
  <2>1. /\ size % Radix \in Nat /\ second % Radix \in Nat /\ third % Radix \in Nat
        /\ (third \div Radix) % Radix \in Nat
    BY <1>1, <1>2, RadixFacts
  <2> HIDE DEF size, second, third
  <2>2. QED BY <2>1
<1>4. d = << >> => bytes[1] = 5 /\ bytes[2] = 0
  <2>1. d = << >> => size = 5 /\ second = 0
    BY <1>1, RadixFacts
  <2>2. QED BY <2>1, RadixFacts
<1> HIDE DEF bytes
<1>5. /\ \A i \in 1 .. 4 : seen[i] \in Nat
      /\ seen[1] = bytes[1]
      /\ bytes[2] = 0 => seen[2] = 0 /\ seen[3] = 0 /\ seen[4] = 0
  <2>1. \A i \in 1 .. 4 : seen[i] = IF \E j \in 1..i : bytes[j] = 0 THEN 0 ELSE bytes[i]
    BY <1>3 DEF UpToZero
  <2>2. QED BY <1>3, <2>1
<1>6. ScopeKey(d) = ((seen[1] * Radix + seen[2]) * Radix + seen[3]) * Radix + seen[4]
  BY <1>1 DEF ScopeKey, KeyOfSize, bytes
<1>7. bytes[1] = ObjSize(d) % Radix
  BY DEF bytes
<1>8. /\ seen[2] \in Nat /\ seen[3] \in Nat /\ seen[4] \in Nat
      /\ seen[1] = ObjSize(d) % Radix
  BY <1>5, <1>7
<1>9. d = << >> => /\ ObjSize(d) % Radix = 5
                   /\ seen[2] = 0 /\ seen[3] = 0 /\ seen[4] = 0
  BY <1>4, <1>5, <1>7
<1> HIDE DEF seen
<1>10. QED BY <1>6, <1>8, <1>9

LEMMA ScopeKeys ==
  ASSUME NEW d \in Documents
  PROVE  ScopeKey(d) \in Int
<1>1. ObjSize(d) % Radix \in Nat
  BY EmptyDoc, RadixFacts
<1>2. QED BY <1>1, ScopeKeyIs, Digits

-----------------------------------------------------------------------------
(***************************************************************************)
(* Sequences, compared position by position, the shorter coming first      *)
(***************************************************************************)
\* What a comparison finds of l and r, given x at the positions of both.
Column(l, r, x) ==
  [i \in Positions |->
     IF i \in DOMAIN l THEN IF i \in DOMAIN r THEN x[i] ELSE 1
     ELSE IF i \in DOMAIN r THEN -1 ELSE 0]

LEMMA ColumnSigns ==
  ASSUME NEW l, NEW r, NEW x, \A i \in DOMAIN l \cap DOMAIN r : x[i] \in Signs
  PROVE  Column(l, r, x) \in [Positions -> Signs]
  BY DEF Column, Signs

LEMMA ColumnTurned ==
  ASSUME NEW l, NEW r, NEW x, NEW y,
         \A i \in DOMAIN l \cap DOMAIN r : x[i] \in Signs /\ y[i] = -x[i]
  PROVE  \A i \in Positions : Column(r, l, y)[i] = -Column(l, r, x)[i]
  BY DEF Column, Signs

LEMMA ColumnsFollow ==
  ASSUME NEW l, NEW m, NEW r, NEW x, NEW y, NEW z,
         \A i \in DOMAIN l \cap DOMAIN m \cap DOMAIN r : Follow(x[i], y[i], z[i])
  PROVE  \A i \in Positions : Follow(Column(l, m, x)[i], Column(m, r, y)[i], Column(l, r, z)[i])
  BY DEF Column, Follow

\* The first position that differs decides, and the lengths where none does.
LEMMA ColumnFirst ==
  ASSUME NEW l, NEW r, NEW n \in Nat, NEW m \in Nat, DOMAIN l = 1..n, DOMAIN r = 1..m,
         NEW x, NEW v,
         \/ (\A i \in DOMAIN l \cap DOMAIN r : x[i] = 0) /\ v = Sign(n - m)
         \/ \E i \in DOMAIN l \cap DOMAIN r :
              /\ v = x[i] /\ v # 0
              /\ \A j \in DOMAIN l \cap DOMAIN r : j < i => x[j] = 0
  PROVE  IsFirst(v, Column(l, r, x))
<1> DEFINE c == Column(l, r, x)
<1>1. \A i \in Positions : c[i] = IF i <= n THEN IF i <= m THEN x[i] ELSE 1
                                  ELSE IF i <= m THEN -1 ELSE 0
  BY DEF Column, Positions
<1>. SUFFICES IsFirst(v, c)
  OBVIOUS
<1> HIDE DEF c
<1>2. CASE (\A i \in DOMAIN l \cap DOMAIN r : x[i] = 0) /\ v = Sign(n - m)
  <2>1. \A i \in Positions : i <= n /\ i <= m => c[i] = 0
    BY <1>1, <1>2 DEF Positions
  <2>2. CASE n = m
    BY <1>1, <1>2, <2>1, <2>2 DEF Sign, IsFirst, Positions
  <2>3. CASE n < m
    <3>1. v = -1 /\ n + 1 \in Positions /\ c[n + 1] = -1
      BY <1>1, <1>2, <2>3 DEF Sign, Positions
    <3>2. \A j \in Positions : j < n + 1 => c[j] = 0
      BY <2>1, <2>3 DEF Positions
    <3>3. QED BY <3>1, <3>2 DEF IsFirst
  <2>4. CASE m < n
    <3>1. v = 1 /\ m + 1 \in Positions /\ c[m + 1] = 1
      BY <1>1, <1>2, <2>4 DEF Sign, Positions
    <3>2. \A j \in Positions : j < m + 1 => c[j] = 0
      BY <2>1, <2>4 DEF Positions
    <3>3. QED BY <3>1, <3>2 DEF IsFirst
  <2>5. QED BY <2>2, <2>3, <2>4
<1>3. ASSUME NEW i \in DOMAIN l \cap DOMAIN r,
             v = x[i] /\ v # 0,
             \A j \in DOMAIN l \cap DOMAIN r : j < i => x[j] = 0
      PROVE  IsFirst(v, c)
  <2>1. i \in Positions /\ c[i] = v
    BY <1>1, <1>3 DEF Positions
  <2>2. \A j \in Positions : j < i => c[j] = 0
    BY <1>1, <1>3, <2>1 DEF Positions
  <2>3. QED BY <1>3, <2>1, <2>2 DEF IsFirst
<1>4. QED BY <1>2, <1>3

NameCol(n, m) == Column(n, m, [i \in DOMAIN n \cap DOMAIN m |-> StrCmp(n[i], m[i])])

LEMMA NameCmpFirst ==
  ASSUME NEW n \in Seq(Words), NEW m \in Seq(Words)
  PROVE  IsFirst(NameCmp(n, m), NameCol(n, m))
<1> DEFINE x == [i \in DOMAIN n \cap DOMAIN m |-> StrCmp(n[i], m[i])]
           differ == {i \in DOMAIN n \cap DOMAIN m : n[i] # m[i]}
<1>1. /\ DOMAIN n = 1..Len(n) /\ Len(n) \in Nat /\ DOMAIN m = 1..Len(m) /\ Len(m) \in Nat
      /\ \A i \in DOMAIN n \cap DOMAIN m : n[i] \in Words /\ m[i] \in Words
  OBVIOUS
<1>2. \A i \in DOMAIN n \cap DOMAIN m : x[i] = StrCmp(n[i], m[i]) /\ (x[i] = 0 <=> n[i] = m[i])
  BY <1>1, StrCmpOrder
<1> HIDE DEF x
<1>3. CASE differ = {}
  <2>1. NameCmp(n, m) = Sign(Len(n) - Len(m))
    BY <1>3 DEF NameCmp
  <2>2. \A i \in DOMAIN n \cap DOMAIN m : x[i] = 0
    BY <1>2, <1>3
  <2>3. QED BY <1>1, <2>1, <2>2, ColumnFirst DEF NameCol, x
<1>4. CASE differ # {}
  <2> DEFINE i == Min(differ)
  <2>1. differ \subseteq Nat
    BY <1>1
  <2> HIDE DEF differ
  <2>2. i \in differ /\ \A j \in differ : i <= j
    BY <1>4, <2>1, MinOf
  <2>3. NameCmp(n, m) = StrCmp(n[i], m[i])
    BY <1>4 DEF NameCmp, differ
  <2> HIDE DEF i
  <2>4. i \in DOMAIN n \cap DOMAIN m /\ n[i] # m[i]
    BY <2>2 DEF differ
  <2>5. NameCmp(n, m) = x[i] /\ x[i] # 0
    BY <1>2, <2>3, <2>4
  <2>6. \A j \in DOMAIN n \cap DOMAIN m : j < i => x[j] = 0
    <3>1. SUFFICES ASSUME NEW j \in DOMAIN n \cap DOMAIN m, j < i
                   PROVE  n[j] = m[j]
      BY <1>2
    <3>2. j \notin differ
      BY <1>1, <2>2, <2>4, <3>1
    <3>3. QED BY <3>2 DEF differ
  <2>7. QED BY <1>1, <2>4, <2>5, <2>6, ColumnFirst DEF NameCol, x
<1>5. QED BY <1>3, <1>4

\* Names are ordered, and two are told apart.
LEMMA NameCmpOrder ==
  ASSUME NEW n \in Seq(Words), NEW m \in Seq(Words), NEW k \in Seq(Words)
  PROVE  /\ NameCmp(n, m) \in Signs /\ NameCmp(m, n) = -NameCmp(n, m)
         /\ NameCmp(n, m) = 0 <=> n = m
         /\ Follow(NameCmp(n, m), NameCmp(m, k), NameCmp(n, k))
<1> DEFINE x(a, b) == [i \in DOMAIN a \cap DOMAIN b |-> StrCmp(a[i], b[i])]
<1>1. ASSUME NEW a \in Seq(Words), NEW b \in Seq(Words)
      PROVE  /\ NameCol(a, b) \in [Positions -> Signs] /\ IsFirst(NameCmp(a, b), NameCol(a, b))
             /\ \A i \in Positions : NameCol(b, a)[i] = -NameCol(a, b)[i]
  <2>1. \A i \in DOMAIN a \cap DOMAIN b : a[i] \in Words /\ b[i] \in Words
    OBVIOUS
  <2>2. \A i \in DOMAIN a \cap DOMAIN b : x(a, b)[i] \in Signs /\ x(b, a)[i] = -x(a, b)[i]
    BY <2>1, StrCmpOrder
  <2> HIDE DEF x
  <2>3. NameCol(a, b) = Column(a, b, x(a, b)) /\ NameCol(b, a) = Column(b, a, x(b, a))
    BY DEF NameCol, x
  <2>4. QED BY <2>2, <2>3, ColumnSigns, ColumnTurned, NameCmpFirst
<1>2. NameCmp(n, m) \in Signs /\ NameCmp(m, n) = -NameCmp(n, m)
  BY <1>1, LexTurned
<1>3. NameCmp(n, m) = 0 <=> n = m
  <2>1. ASSUME NameCmp(n, m) = 0
        PROVE  n = m
    <3>1. \A i \in Positions : NameCol(n, m)[i] = 0
      BY <1>1, <2>1 DEF IsFirst
    <3>2. /\ DOMAIN n = 1..Len(n) /\ Len(n) \in Nat /\ DOMAIN m = 1..Len(m) /\ Len(m) \in Nat
          /\ \A i \in DOMAIN n \cap DOMAIN m : n[i] \in Words /\ m[i] \in Words
      OBVIOUS
    <3>3. \A i \in Positions : i \in DOMAIN n <=> i \in DOMAIN m
      BY <3>1 DEF NameCol, Column
    <3>4. Len(n) = Len(m)
      <4>1. Len(n) > 0 => Len(n) \in Positions /\ Len(n) \in DOMAIN n
        BY <3>2 DEF Positions
      <4>2. Len(m) > 0 => Len(m) \in Positions /\ Len(m) \in DOMAIN m
        BY <3>2 DEF Positions
      <4>3. Len(n) > 0 => Len(n) <= Len(m)
        BY <3>2, <3>3, <4>1
      <4>4. Len(m) > 0 => Len(m) <= Len(n)
        BY <3>2, <3>3, <4>2
      <4>5. Len(n) \in Nat /\ Len(m) \in Nat
        BY <3>2
      <4>6. QED BY <4>3, <4>4, <4>5
    <3>5. \A i \in 1..Len(n) : n[i] = m[i]
      <4>1. SUFFICES ASSUME NEW i \in 1..Len(n) PROVE StrCmp(n[i], m[i]) = 0
        BY <3>2, <3>4, StrCmpOrder
      <4>2. i \in Positions /\ i \in DOMAIN n /\ i \in DOMAIN m
        BY <3>2, <3>4 DEF Positions
      <4>3. QED BY <3>1, <4>2 DEF NameCol, Column
    <3>6. QED BY <3>4, <3>5, SeqEqual
  <2>2. ASSUME n = m
        PROVE  NameCmp(n, m) = 0
    <3>1. NameCmp(n, m) \in Signs /\ NameCmp(n, m) = -NameCmp(n, m)
      BY <1>2, <2>2
    <3>2. QED BY <3>1 DEF Signs
  <2>3. QED BY <2>1, <2>2
<1>4. Follow(NameCmp(n, m), NameCmp(m, k), NameCmp(n, k))
  <2>1. \A i \in DOMAIN n \cap DOMAIN m \cap DOMAIN k :
          n[i] \in Words /\ m[i] \in Words /\ k[i] \in Words
    OBVIOUS
  <2>2. \A i \in DOMAIN n \cap DOMAIN m \cap DOMAIN k :
          Follow(x(n, m)[i], x(m, k)[i], x(n, k)[i])
    BY <2>1, StrCmpOrder
  <2> HIDE DEF x
  <2>3. \A i \in Positions : Follow(NameCol(n, m)[i], NameCol(m, k)[i], NameCol(n, k)[i])
    BY <2>2, ColumnsFollow DEF NameCol, x
  <2>4. QED BY <1>1, <2>3, LexFollows
<1>5. QED BY <1>2, <1>3, <1>4

-----------------------------------------------------------------------------
(***************************************************************************)
(* Elements                                                                *)
(***************************************************************************)
\* The first of two results that tells things apart.
Then(a, b) == IF a # 0 THEN a ELSE b

LEMMA ThenOrder ==
  ASSUME NEW a1 \in Signs, NEW a2 \in Signs
  PROVE  /\ Then(a1, a2) \in Signs /\ Then(-a1, -a2) = -Then(a1, a2)
         /\ Then(a1, a2) = 0 <=> a1 = 0 /\ a2 = 0
  BY DEF Then, Signs

LEMMA ThenFollows ==
  ASSUME NEW a1 \in Signs, NEW b1 \in Signs, NEW c1 \in Signs, Follow(a1, b1, c1),
         NEW a2 \in Signs, NEW b2 \in Signs, NEW c2 \in Signs, Follow(a2, b2, c2)
  PROVE  Follow(Then(a1, a2), Then(b1, b2), Then(c1, c2))
  BY DEF Then, Signs, Follow

LEMMA FirstOfTwo ==
  ASSUME NEW a \in Signs, NEW b \in Signs
  PROVE  FirstOf(<<a, b>>) = Then(a, b)
<1> DEFINE S == {i \in DOMAIN <<a, b>> : <<a, b>>[i] # 0}
<1>1. CASE a = 0 /\ b = 0
  BY <1>1 DEF FirstOf, Then
<1>2. CASE a # 0 \/ b # 0
  <2>1. S \subseteq Nat /\ S # {} /\ (1 \in S <=> a # 0) /\ (2 \in S <=> b # 0) /\ S \subseteq {1, 2}
    BY <1>2
  <2>2. FirstOf(<<a, b>>) = <<a, b>>[Min(S)]
    BY <1>2 DEF FirstOf
  <2> HIDE DEF S
  <2>3. Min(S) \in S /\ \A n \in S : Min(S) <= n
    BY <2>1, MinOf
  <2> DEFINE m == Min(S)
  <2> HIDE DEF m
  <2>4. m \in S /\ m \in {1, 2} /\ (1 \in S => m <= 1)
    BY <2>1, <2>3 DEF m
  <2>5. m = IF a # 0 THEN 1 ELSE 2
    BY <2>1, <2>4
  <2>6. QED BY <2>2, <2>5 DEF Then, m
<1>3. QED BY <1>1, <1>2

LEMMA FirstOfThree ==
  ASSUME NEW a \in Signs, NEW b \in Signs, NEW c \in Signs
  PROVE  FirstOf(<<a, b, c>>) = Then(a, Then(b, c))
<1> DEFINE S == {i \in DOMAIN <<a, b, c>> : <<a, b, c>>[i] # 0}
<1>1. CASE a = 0 /\ b = 0 /\ c = 0
  BY <1>1 DEF FirstOf, Then
<1>2. CASE a # 0 \/ b # 0 \/ c # 0
  <2>1. /\ S \subseteq Nat /\ S # {} /\ S \subseteq {1, 2, 3}
        /\ (1 \in S <=> a # 0) /\ (2 \in S <=> b # 0) /\ (3 \in S <=> c # 0)
    BY <1>2
  <2>2. FirstOf(<<a, b, c>>) = <<a, b, c>>[Min(S)]
    BY <1>2 DEF FirstOf
  <2> HIDE DEF S
  <2>3. Min(S) \in S /\ \A n \in S : Min(S) <= n
    BY <2>1, MinOf
  <2> DEFINE m == Min(S)
  <2> HIDE DEF m
  <2>4. m \in S /\ m \in {1, 2, 3} /\ (1 \in S => m <= 1) /\ (2 \in S => m <= 2)
    BY <2>1, <2>3 DEF m
  <2>5. m = IF a # 0 THEN 1 ELSE IF b # 0 THEN 2 ELSE 3
    BY <2>1, <2>4
  <2>6. QED BY <2>2, <2>5 DEF Then, m
<1>3. QED BY <1>1, <1>2

Nulls    == {"Undefined", "jstNULL", "MaxKey", "MinKey"}
Numerics == {"NumberLong", "NumberDouble", "NumberInt"}
Times    == {"Date", "Timestamp"}

\* The types that canonicalType takes together.
LEMMA SameKind ==
  ASSUME NEW s \in Types \ {"EOO"}, NEW t \in Types \ {"EOO"}, Canonical[s] = Canonical[t]
  PROVE  s = t \/ {s, t} \subseteq Numerics \/ {s, t} \subseteq Times \/ {s, t} \subseteq {"String", "Symbol"}
  BY DEF Types, Canonical, Numerics, Times

LEMMA CanonicalInt == \A t \in Types : Canonical[t] \in Int
  BY DEF Types, Canonical

\* Where a double comes in the order: those that are not finite come first.
Rank(x) == IF Finite(x) THEN x ELSE -Huge - 1

LEMMA CompareDoublesIs ==
  ASSUME NEW x \in Int, NEW y \in Int
  PROVE  CompareDoubles(x, y) = Sign(Rank(x) - Rank(y)) /\ Rank(x) \in Int
  BY Numbers DEF CompareDoubles, Rank, Finite, Sign

LEMMA AsDoubleInt ==
  ASSUME NEW e, e.num \in Int
  PROVE  AsDouble(e) \in Int
<1>1. e.num \div 4 \in Int
  BY Z3
<1>2. QED BY <1>1, Numbers DEF AsDouble

LEMMA NumberFields ==
  ASSUME NEW e \in Elems
  PROVE  /\ AsDouble(e) \in Int
         /\ ~Rounded(e) => AsDouble(e) = e.num
         /\ e.type \in {"NumberLong", "NumberInt"} => Finite(e.num) /\ Rank(e.num) = e.num
  BY ElemFields, AsDoubleInt DEF Rounded, ValueOK, Rank

\* The values of two elements of types that are taken together.
LEMMA ValuesByKind ==
  ASSUME NEW l \in Elems, NEW r \in Elems, Canonical[l.type] = Canonical[r.type], NEW w
  PROVE  LET v == CompareElementValues(l, r, w) IN
         /\ l.type \in Nulls => v = 0
         /\ l.type \in {"Bool"} \cup Times => v = Sign(l.num - r.num)
         /\ l.type \in Numerics =>
              v = IF l.type = "NumberLong" /\ r.type = "NumberLong" THEN Sign(Rank(l.num) - Rank(r.num))
                  ELSE Sign(Rank(AsDouble(l)) - Rank(AsDouble(r)))
         /\ l.type \in {"jstOID", "Code", "Symbol", "String"} => v = StrCmp(l.str, r.str)
         /\ l.type \in {"Object", "Array"} => v = w[l.sub][r.sub]
         /\ l.type = "DBRef" => v = Then(Sign(ValueSize(l) - ValueSize(r)),
                                         Then(StrCmp(l.str, r.str), StrCmp(l.opt, r.opt)))
         /\ l.type = "BinData" => v = Then(Sign(StrSize(l.str) - StrSize(r.str)),
                                           Then(Sign(l.num - r.num), StrCmp(l.str, r.str)))
         /\ l.type = "RegEx" => v = Then(StrCmp(l.str, r.str), StrCmp(l.opt, r.opt))
         /\ l.type = "CodeWScope" => v = Then(StrCmp(l.str, r.str), Sign(ScopeKey(l.sub) - ScopeKey(r.sub)))
<1> DEFINE v == CompareElementValues(l, r, w)
<1>1. l.type \in Types \ {"EOO"} /\ r.type \in Types \ {"EOO"}
  BY ElemFields
<1>2. \/ l.type = r.type \/ {l.type, r.type} \subseteq Numerics \/ {l.type, r.type} \subseteq Times
      \/ {l.type, r.type} \subseteq {"String", "Symbol"}
  BY <1>1, SameKind
<1>3. /\ l.num \in Int /\ r.num \in Int /\ ScopeKey(l.sub) \in Int /\ ScopeKey(r.sub) \in Int
      /\ StrSize(l.str) \in Int /\ StrSize(r.str) \in Int
  BY ElemFields, ScopeKeys, WordSize
<1>4. StrCmp(l.str, r.str) \in Signs /\ StrCmp(l.opt, r.opt) \in Signs
  BY ElemFields, StrCmpOrder
<1>5. l.type \in Nulls => v = 0
  <2>1. SUFFICES ASSUME l.type \in Nulls PROVE v = 0
    OBVIOUS
  <2>2. v = Sign(Canonical[l.type] - Canonical[r.type])
    BY <2>1 DEF Nulls, CompareElementValues, IsNumber, IsABSONObj
  <2>3. Canonical[l.type] \in Int /\ Canonical[l.type] - Canonical[r.type] = 0
    BY <1>1, CanonicalInt
  <2>4. QED BY <2>2, <2>3, SignOf
<1>6. l.type \in {"Bool"} \cup Times => v = Sign(l.num - r.num)
  BY DEF Times, CompareElementValues, IsNumber, IsABSONObj
<1>7. l.type \in Numerics =>
        v = IF l.type = "NumberLong" /\ r.type = "NumberLong" THEN Sign(Rank(l.num) - Rank(r.num))
            ELSE Sign(Rank(AsDouble(l)) - Rank(AsDouble(r)))
  <2>1. SUFFICES ASSUME l.type \in Numerics
                 PROVE  v = IF l.type = "NumberLong" /\ r.type = "NumberLong"
                            THEN Sign(Rank(l.num) - Rank(r.num))
                            ELSE Sign(Rank(AsDouble(l)) - Rank(AsDouble(r)))
    OBVIOUS
  <2>2. CASE l.type = "NumberLong" /\ r.type = "NumberLong"
    <3>1. v = Sign(l.num - r.num)
      BY <2>2 DEF CompareElementValues, IsNumber, IsABSONObj
    <3>2. Rank(l.num) = l.num /\ Rank(r.num) = r.num
      BY <2>2, NumberFields
    <3>3. QED BY <2>2, <3>1, <3>2
  <2>3. CASE ~(l.type = "NumberLong" /\ r.type = "NumberLong")
    <3>1. v = CompareDoubles(AsDouble(l), AsDouble(r))
      BY <2>1, <2>3 DEF CompareElementValues, IsNumber, IsABSONObj, Numerics
    <3>2. AsDouble(l) \in Int /\ AsDouble(r) \in Int
      BY NumberFields
    <3>3. QED BY <2>3, <3>1, <3>2, CompareDoublesIs
  <2>4. QED BY <2>2, <2>3
<1>8. l.type \in {"jstOID", "Code", "Symbol", "String"} => v = StrCmp(l.str, r.str)
  BY DEF CompareElementValues, IsNumber, IsABSONObj
<1>9. l.type \in {"Object", "Array"} => v = w[l.sub][r.sub]
  BY DEF CompareElementValues, IsNumber, IsABSONObj
<1>10. l.type = "DBRef" => v = Then(Sign(ValueSize(l) - ValueSize(r)),
                                    Then(StrCmp(l.str, r.str), StrCmp(l.opt, r.opt)))
  <2>1. SUFFICES ASSUME l.type = "DBRef" PROVE v = Then(Sign(ValueSize(l) - ValueSize(r)),
                                    Then(StrCmp(l.str, r.str), StrCmp(l.opt, r.opt)))
    OBVIOUS
  <2>2. r.type = "DBRef"
    BY <1>2, <2>1 DEF Numerics, Times
  <2>3. ValueSize(l) \in Int /\ ValueSize(r) \in Int
    BY <1>3, <2>1, <2>2 DEF ValueSize, ValueSizeIn
  <2>4. Sign(ValueSize(l) - ValueSize(r)) \in Signs
    BY <2>3, DifferenceOrder
  <2>5. v = FirstOf(<<Sign(ValueSize(l) - ValueSize(r)), StrCmp(l.str, r.str), StrCmp(l.opt, r.opt)>>)
    BY <2>1 DEF CompareElementValues, IsNumber, IsABSONObj
  <2>6. QED BY <1>4, <2>4, <2>5, FirstOfThree
<1>11. l.type = "BinData" => v = Then(Sign(StrSize(l.str) - StrSize(r.str)),
                                      Then(Sign(l.num - r.num), StrCmp(l.str, r.str)))
  <2>1. Sign(StrSize(l.str) - StrSize(r.str)) \in Signs /\ Sign(l.num - r.num) \in Signs
    BY <1>3, DifferenceOrder
  <2>2. l.type = "BinData" =>
          v = FirstOf(<<Sign(StrSize(l.str) - StrSize(r.str)), Sign(l.num - r.num), StrCmp(l.str, r.str)>>)
    BY DEF CompareElementValues, IsNumber, IsABSONObj
  <2>3. QED BY <1>4, <2>1, <2>2, FirstOfThree
<1>12. l.type = "RegEx" => v = Then(StrCmp(l.str, r.str), StrCmp(l.opt, r.opt))
  <2>1. l.type = "RegEx" => v = FirstOf(<<StrCmp(l.str, r.str), StrCmp(l.opt, r.opt)>>)
    BY DEF CompareElementValues, IsNumber, IsABSONObj
  <2>2. QED BY <1>4, <2>1, FirstOfTwo
<1>13. l.type = "CodeWScope" => v = Then(StrCmp(l.str, r.str), Sign(ScopeKey(l.sub) - ScopeKey(r.sub)))
  <2>1. Sign(ScopeKey(l.sub) - ScopeKey(r.sub)) \in Signs
    BY <1>3, DifferenceOrder
  <2>2. l.type = "CodeWScope" =>
          v = FirstOf(<<StrCmp(l.str, r.str), Sign(ScopeKey(l.sub) - ScopeKey(r.sub))>>)
    BY DEF CompareElementValues, IsNumber, IsABSONObj
  <2>3. QED BY <1>4, <2>1, <2>2, FirstOfTwo
<1>14. QED BY <1>5, <1>6, <1>7, <1>8, <1>9, <1>10, <1>11, <1>12, <1>13

LEMMA ZeroTurned ==
  ASSUME NEW a \in Signs, NEW b \in Signs, a <= 0, 0 <= a, b <= 0, 0 <= b
  PROVE  b = -a
  BY DEF Signs

LEMMA KindsOf ==
  ASSUME NEW t \in Types \ {"EOO"}
  PROVE  \/ t \in Nulls \/ t \in {"Bool"} \cup Times \/ t \in Numerics
         \/ t \in {"jstOID", "Code", "Symbol", "String"} \/ t \in {"Object", "Array"}
         \/ t = "DBRef" \/ t = "BinData" \/ t = "RegEx" \/ t = "CodeWScope"
  BY DEF Types, Canonical, Nulls, Times, Numerics

\* The numbers that an element is compared by.
LEMMA ElementNumbers ==
  ASSUME NEW e \in Elems
  PROVE  /\ e.num \in Int /\ ScopeKey(e.sub) \in Int /\ StrSize(e.str) \in Int
         /\ Rank(e.num) \in Int /\ Rank(AsDouble(e)) \in Int
         /\ e.type = "DBRef" => ValueSize(e) \in Int
<1>1. e.num \in Int /\ ScopeKey(e.sub) \in Int /\ StrSize(e.str) \in Int
  BY ElemFields, ScopeKeys, WordSize
<1>2. AsDouble(e) \in Int
  BY NumberFields
<1>3. Rank(e.num) \in Int /\ Rank(AsDouble(e)) \in Int
  BY <1>1, <1>2, CompareDoublesIs
<1>4. e.type = "DBRef" => ValueSize(e) \in Int
  BY <1>1 DEF ValueSize, ValueSizeIn
<1>5. QED BY <1>1, <1>3, <1>4

\* The comparison of two values is turned round with them, if that of what is
\* nested in them is.
LEMMA ValuesTurned ==
  ASSUME NEW l \in Elems, NEW r \in Elems, Canonical[l.type] = Canonical[r.type], NEW w,
         w[l.sub][r.sub] \in Signs, w[r.sub][l.sub] = -w[l.sub][r.sub]
  PROVE  /\ CompareElementValues(l, r, w) \in Signs
         /\ CompareElementValues(r, l, w) = -CompareElementValues(l, r, w)
<1> DEFINE v == CompareElementValues(l, r, w)
           u == CompareElementValues(r, l, w)
<1>1. l.type \in Types \ {"EOO"} /\ r.type \in Types \ {"EOO"}
  BY ElemFields
<1>2. \/ l.type = r.type \/ {l.type, r.type} \subseteq Numerics \/ {l.type, r.type} \subseteq Times
      \/ {l.type, r.type} \subseteq {"String", "Symbol"}
  BY <1>1, SameKind
<1>3. /\ StrCmp(l.str, r.str) \in Signs /\ StrCmp(r.str, l.str) = -StrCmp(l.str, r.str)
      /\ StrCmp(l.opt, r.opt) \in Signs /\ StrCmp(r.opt, l.opt) = -StrCmp(l.opt, r.opt)
  BY ElemFields, StrCmpOrder
<1>4. \A x, y \in Int : Sign(x - y) \in Signs /\ Sign(y - x) = -Sign(x - y)
  BY DifferenceOrder
<1>5. \A a, b \in Signs : Then(a, b) \in Signs /\ Then(-a, -b) = -Then(a, b)
  BY ThenOrder
<1>6. CASE l.type \in Nulls
  <2>1. r.type \in Nulls
    BY <1>2, <1>6 DEF Nulls, Numerics, Times
  <2>2. v = 0 /\ u = 0
    BY <1>6, <2>1, ValuesByKind
  <2>3. v \in Signs /\ u \in Signs /\ v <= 0 /\ 0 <= v /\ u <= 0 /\ 0 <= u
    BY <2>2 DEF Signs
  <2>4. QED BY <2>3, ZeroTurned
<1>7. CASE l.type \in {"Bool"} \cup Times
  <2>1. r.type \in {"Bool"} \cup Times
    BY <1>2, <1>7 DEF Nulls, Numerics, Times
  <2>2. v = Sign(l.num - r.num) /\ u = Sign(r.num - l.num)
    BY <1>7, <2>1, ValuesByKind
  <2>3. QED BY <1>4, <2>2, ElementNumbers
<1>8. CASE l.type \in Numerics
  <2>1. r.type \in Numerics
    BY <1>2, <1>8 DEF Nulls, Numerics, Times
  <2>2. \E x, y \in Int : v = Sign(x - y) /\ u = Sign(y - x)
    BY <1>8, <2>1, ValuesByKind, ElementNumbers
  <2>3. QED BY <1>4, <2>2
<1>9. CASE l.type \in {"jstOID", "Code", "Symbol", "String"}
  <2>1. r.type \in {"jstOID", "Code", "Symbol", "String"}
    BY <1>2, <1>9 DEF Nulls, Numerics, Times
  <2>2. v = StrCmp(l.str, r.str) /\ u = StrCmp(r.str, l.str)
    BY <1>9, <2>1, ValuesByKind
  <2>3. QED BY <1>3, <2>2
<1>10. CASE l.type \in {"Object", "Array"}
  <2>1. r.type \in {"Object", "Array"}
    BY <1>2, <1>10 DEF Nulls, Numerics, Times
  <2>2. v = w[l.sub][r.sub] /\ u = w[r.sub][l.sub]
    BY <1>10, <2>1, ValuesByKind
  <2>3. QED BY <2>2
<1>11. CASE l.type = "DBRef"
  <2>1. r.type = "DBRef"
    BY <1>2, <1>11 DEF Nulls, Numerics, Times
  <2>2. /\ v = Then(Sign(ValueSize(l) - ValueSize(r)), Then(StrCmp(l.str, r.str), StrCmp(l.opt, r.opt)))
        /\ u = Then(Sign(ValueSize(r) - ValueSize(l)), Then(StrCmp(r.str, l.str), StrCmp(r.opt, l.opt)))
    BY <1>11, <2>1, ValuesByKind
  <2>3. ValueSize(l) \in Int /\ ValueSize(r) \in Int
    BY <1>11, <2>1, ElementNumbers
  <2>4. /\ Sign(ValueSize(l) - ValueSize(r)) \in Signs
        /\ Sign(ValueSize(r) - ValueSize(l)) = -Sign(ValueSize(l) - ValueSize(r))
    BY <1>4, <2>3
  <2>5. QED BY <1>3, <1>5, <2>2, <2>4
<1>12. CASE l.type = "BinData"
  <2>1. r.type = "BinData"
    BY <1>2, <1>12 DEF Nulls, Numerics, Times
  <2>2. /\ v = Then(Sign(StrSize(l.str) - StrSize(r.str)), Then(Sign(l.num - r.num), StrCmp(l.str, r.str)))
        /\ u = Then(Sign(StrSize(r.str) - StrSize(l.str)), Then(Sign(r.num - l.num), StrCmp(r.str, l.str)))
    BY <1>12, <2>1, ValuesByKind
  <2>3. StrSize(l.str) \in Int /\ StrSize(r.str) \in Int /\ l.num \in Int /\ r.num \in Int
    BY ElementNumbers
  <2>4. /\ Sign(StrSize(l.str) - StrSize(r.str)) \in Signs /\ Sign(l.num - r.num) \in Signs
        /\ Sign(StrSize(r.str) - StrSize(l.str)) = -Sign(StrSize(l.str) - StrSize(r.str))
        /\ Sign(r.num - l.num) = -Sign(l.num - r.num)
    BY <1>4, <2>3
  <2>5. QED BY <1>3, <1>5, <2>2, <2>4
<1>13. CASE l.type = "RegEx"
  <2>1. r.type = "RegEx"
    BY <1>2, <1>13 DEF Nulls, Numerics, Times
  <2>2. /\ v = Then(StrCmp(l.str, r.str), StrCmp(l.opt, r.opt))
        /\ u = Then(StrCmp(r.str, l.str), StrCmp(r.opt, l.opt))
    BY <1>13, <2>1, ValuesByKind
  <2>3. QED BY <1>3, <1>5, <2>2
<1>14. CASE l.type = "CodeWScope"
  <2>1. r.type = "CodeWScope"
    BY <1>2, <1>14 DEF Nulls, Numerics, Times
  <2>2. /\ v = Then(StrCmp(l.str, r.str), Sign(ScopeKey(l.sub) - ScopeKey(r.sub)))
        /\ u = Then(StrCmp(r.str, l.str), Sign(ScopeKey(r.sub) - ScopeKey(l.sub)))
    BY <1>14, <2>1, ValuesByKind
  <2>3. ScopeKey(l.sub) \in Int /\ ScopeKey(r.sub) \in Int
    BY ElementNumbers
  <2>4. /\ Sign(ScopeKey(l.sub) - ScopeKey(r.sub)) \in Signs
        /\ Sign(ScopeKey(r.sub) - ScopeKey(l.sub)) = -Sign(ScopeKey(l.sub) - ScopeKey(r.sub))
    BY <1>4, <2>3
  <2>5. QED BY <1>3, <1>5, <2>2, <2>4
<1>15. QED BY <1>1, <1>6, <1>7, <1>8, <1>9, <1>10, <1>11, <1>12, <1>13, <1>14, KindsOf

\* The comparisons of three values follow one another, where doubles hold their
\* numbers and if those of what is nested in them do.
LEMMA ValuesFollow ==
  ASSUME NEW a \in Elems, NEW b \in Elems, NEW c \in Elems,
         Canonical[a.type] = Canonical[b.type], Canonical[b.type] = Canonical[c.type],
         ~Rounded(a), ~Rounded(b), ~Rounded(c),
         NEW w, Follow(w[a.sub][b.sub], w[b.sub][c.sub], w[a.sub][c.sub])
  PROVE  Follow(CompareElementValues(a, b, w), CompareElementValues(b, c, w), CompareElementValues(a, c, w))
<1> DEFINE u == CompareElementValues(a, b, w)
           v == CompareElementValues(b, c, w)
           x == CompareElementValues(a, c, w)
           All(T) == a.type \in T /\ b.type \in T /\ c.type \in T
<1>1. a.type \in Types \ {"EOO"} /\ b.type \in Types \ {"EOO"} /\ c.type \in Types \ {"EOO"}
  BY ElemFields
<1>2. /\ \/ a.type = b.type \/ {a.type, b.type} \subseteq Numerics \/ {a.type, b.type} \subseteq Times
         \/ {a.type, b.type} \subseteq {"String", "Symbol"}
      /\ \/ b.type = c.type \/ {b.type, c.type} \subseteq Numerics \/ {b.type, c.type} \subseteq Times
         \/ {b.type, c.type} \subseteq {"String", "Symbol"}
      /\ Canonical[a.type] = Canonical[c.type]
  BY <1>1, SameKind
<1>3. /\ Follow(StrCmp(a.str, b.str), StrCmp(b.str, c.str), StrCmp(a.str, c.str))
      /\ Follow(StrCmp(a.opt, b.opt), StrCmp(b.opt, c.opt), StrCmp(a.opt, c.opt))
      /\ StrCmp(a.str, b.str) \in Signs /\ StrCmp(b.str, c.str) \in Signs /\ StrCmp(a.str, c.str) \in Signs
      /\ StrCmp(a.opt, b.opt) \in Signs /\ StrCmp(b.opt, c.opt) \in Signs /\ StrCmp(a.opt, c.opt) \in Signs
  BY ElemFields, StrCmpOrder
<1>4. \A i, j, k \in Int : /\ Follow(Sign(i - j), Sign(j - k), Sign(i - k))
                           /\ Sign(i - j) \in Signs /\ Sign(j - k) \in Signs /\ Sign(i - k) \in Signs
  BY DifferenceOrder
<1>5. \A p, q, r, s, t, y \in Signs :
        Follow(p, q, r) /\ Follow(s, t, y) =>
          /\ Follow(Then(p, s), Then(q, t), Then(r, y))
          /\ Then(p, s) \in Signs /\ Then(q, t) \in Signs /\ Then(r, y) \in Signs
  BY ThenFollows, ThenOrder
<1>6. CASE a.type \in Nulls
  <2>1. All(Nulls)
    BY <1>2, <1>6 DEF Nulls, Numerics, Times
  <2>2. u = 0 /\ v = 0 /\ x = 0
    BY <1>2, <2>1, ValuesByKind
  <2>3. QED BY <2>2 DEF Follow
<1>7. CASE a.type \in {"Bool"} \cup Times
  <2>1. All({"Bool"} \cup Times)
    BY <1>2, <1>7 DEF Nulls, Numerics, Times
  <2>2. u = Sign(a.num - b.num) /\ v = Sign(b.num - c.num) /\ x = Sign(a.num - c.num)
    BY <1>2, <2>1, ValuesByKind
  <2>3. QED BY <1>4, <2>2, ElementNumbers
<1>8. CASE a.type \in Numerics
  <2>1. All(Numerics)
    BY <1>2, <1>8 DEF Nulls, Numerics, Times
  <2>2. /\ AsDouble(a) = a.num /\ AsDouble(b) = b.num /\ AsDouble(c) = c.num
    BY NumberFields
  <2>3. /\ u = Sign(Rank(a.num) - Rank(b.num)) /\ v = Sign(Rank(b.num) - Rank(c.num))
        /\ x = Sign(Rank(a.num) - Rank(c.num))
    BY <1>2, <2>1, <2>2, ValuesByKind
  <2>4. QED BY <1>4, <2>3, ElementNumbers
<1>9. CASE a.type \in {"jstOID", "Code", "Symbol", "String"}
  <2>1. All({"jstOID", "Code", "Symbol", "String"})
    BY <1>2, <1>9 DEF Nulls, Numerics, Times
  <2>2. u = StrCmp(a.str, b.str) /\ v = StrCmp(b.str, c.str) /\ x = StrCmp(a.str, c.str)
    BY <1>2, <2>1, ValuesByKind
  <2>3. QED BY <1>3, <2>2
<1>10. CASE a.type \in {"Object", "Array"}
  <2>1. All({"Object", "Array"})
    BY <1>2, <1>10 DEF Nulls, Numerics, Times
  <2>2. u = w[a.sub][b.sub] /\ v = w[b.sub][c.sub] /\ x = w[a.sub][c.sub]
    BY <1>2, <2>1, ValuesByKind
  <2>3. QED BY <2>2
<1>11. CASE a.type = "DBRef"
  <2>1. All({"DBRef"})
    BY <1>2, <1>11 DEF Nulls, Numerics, Times
  <2>2. /\ u = Then(Sign(ValueSize(a) - ValueSize(b)), Then(StrCmp(a.str, b.str), StrCmp(a.opt, b.opt)))
        /\ v = Then(Sign(ValueSize(b) - ValueSize(c)), Then(StrCmp(b.str, c.str), StrCmp(b.opt, c.opt)))
        /\ x = Then(Sign(ValueSize(a) - ValueSize(c)), Then(StrCmp(a.str, c.str), StrCmp(a.opt, c.opt)))
    BY <1>2, <2>1, ValuesByKind
  <2>3. ValueSize(a) \in Int /\ ValueSize(b) \in Int /\ ValueSize(c) \in Int
    BY <2>1, ElementNumbers
  <2>4. /\ Follow(Sign(ValueSize(a) - ValueSize(b)),
                  Sign(ValueSize(b) - ValueSize(c)),
                  Sign(ValueSize(a) - ValueSize(c)))
        /\ Sign(ValueSize(a) - ValueSize(b)) \in Signs /\ Sign(ValueSize(b) - ValueSize(c)) \in Signs
        /\ Sign(ValueSize(a) - ValueSize(c)) \in Signs
    BY <1>4, <2>3
  <2>5. /\ Follow(Then(StrCmp(a.str, b.str), StrCmp(a.opt, b.opt)),
                  Then(StrCmp(b.str, c.str), StrCmp(b.opt, c.opt)),
                  Then(StrCmp(a.str, c.str), StrCmp(a.opt, c.opt)))
        /\ Then(StrCmp(a.str, b.str), StrCmp(a.opt, b.opt)) \in Signs
        /\ Then(StrCmp(b.str, c.str), StrCmp(b.opt, c.opt)) \in Signs
        /\ Then(StrCmp(a.str, c.str), StrCmp(a.opt, c.opt)) \in Signs
    BY <1>3, <1>5
  <2>6. QED BY <1>5, <2>2, <2>4, <2>5
<1>12. CASE a.type = "BinData"
  <2>1. All({"BinData"})
    BY <1>2, <1>12 DEF Nulls, Numerics, Times
  <2>2. /\ u = Then(Sign(StrSize(a.str) - StrSize(b.str)), Then(Sign(a.num - b.num), StrCmp(a.str, b.str)))
        /\ v = Then(Sign(StrSize(b.str) - StrSize(c.str)), Then(Sign(b.num - c.num), StrCmp(b.str, c.str)))
        /\ x = Then(Sign(StrSize(a.str) - StrSize(c.str)), Then(Sign(a.num - c.num), StrCmp(a.str, c.str)))
    BY <1>2, <2>1, ValuesByKind
  <2>3. /\ StrSize(a.str) \in Int /\ StrSize(b.str) \in Int /\ StrSize(c.str) \in Int
        /\ a.num \in Int /\ b.num \in Int /\ c.num \in Int
    BY ElementNumbers
  <2>4. /\ Follow(Sign(StrSize(a.str) - StrSize(b.str)),
                  Sign(StrSize(b.str) - StrSize(c.str)),
                  Sign(StrSize(a.str) - StrSize(c.str)))
        /\ Sign(StrSize(a.str) - StrSize(b.str)) \in Signs /\ Sign(StrSize(b.str) - StrSize(c.str)) \in Signs
        /\ Sign(StrSize(a.str) - StrSize(c.str)) \in Signs
    BY <1>4, <2>3
  <2>5. /\ Follow(Sign(a.num - b.num), Sign(b.num - c.num), Sign(a.num - c.num))
        /\ Sign(a.num - b.num) \in Signs /\ Sign(b.num - c.num) \in Signs /\ Sign(a.num - c.num) \in Signs
    BY <1>4, <2>3
  <2>6. /\ Follow(Then(Sign(a.num - b.num), StrCmp(a.str, b.str)),
                  Then(Sign(b.num - c.num), StrCmp(b.str, c.str)),
                  Then(Sign(a.num - c.num), StrCmp(a.str, c.str)))
        /\ Then(Sign(a.num - b.num), StrCmp(a.str, b.str)) \in Signs
        /\ Then(Sign(b.num - c.num), StrCmp(b.str, c.str)) \in Signs
        /\ Then(Sign(a.num - c.num), StrCmp(a.str, c.str)) \in Signs
    BY <1>3, <1>5, <2>5
  <2>7. QED BY <1>5, <2>2, <2>4, <2>6
<1>13. CASE a.type = "RegEx"
  <2>1. All({"RegEx"})
    BY <1>2, <1>13 DEF Nulls, Numerics, Times
  <2>2. /\ u = Then(StrCmp(a.str, b.str), StrCmp(a.opt, b.opt))
        /\ v = Then(StrCmp(b.str, c.str), StrCmp(b.opt, c.opt))
        /\ x = Then(StrCmp(a.str, c.str), StrCmp(a.opt, c.opt))
    BY <1>2, <2>1, ValuesByKind
  <2>3. QED BY <1>3, <1>5, <2>2
<1>14. CASE a.type = "CodeWScope"
  <2>1. All({"CodeWScope"})
    BY <1>2, <1>14 DEF Nulls, Numerics, Times
  <2>2. /\ u = Then(StrCmp(a.str, b.str), Sign(ScopeKey(a.sub) - ScopeKey(b.sub)))
        /\ v = Then(StrCmp(b.str, c.str), Sign(ScopeKey(b.sub) - ScopeKey(c.sub)))
        /\ x = Then(StrCmp(a.str, c.str), Sign(ScopeKey(a.sub) - ScopeKey(c.sub)))
    BY <1>2, <2>1, ValuesByKind
  <2>3. ScopeKey(a.sub) \in Int /\ ScopeKey(b.sub) \in Int /\ ScopeKey(c.sub) \in Int
    BY ElementNumbers
  <2>4. /\ Follow(Sign(ScopeKey(a.sub) - ScopeKey(b.sub)),
                  Sign(ScopeKey(b.sub) - ScopeKey(c.sub)),
                  Sign(ScopeKey(a.sub) - ScopeKey(c.sub)))
        /\ Sign(ScopeKey(a.sub) - ScopeKey(b.sub)) \in Signs
        /\ Sign(ScopeKey(b.sub) - ScopeKey(c.sub)) \in Signs
        /\ Sign(ScopeKey(a.sub) - ScopeKey(c.sub)) \in Signs
    BY <1>4, <2>3
  <2>5. QED BY <1>3, <1>5, <2>2, <2>4
<1>15. QED BY <1>1, <1>6, <1>7, <1>8, <1>9, <1>10, <1>11, <1>12, <1>13, <1>14, KindsOf

LEMMA ElementsAre ==
  ASSUME NEW l \in Elems, NEW r \in Elems, NEW named \in BOOLEAN, NEW w
  PROVE  /\ Canonical[l.type] \in Int
         /\ CompareElementsIn(l, r, named, w) =
              Then(Sign(Canonical[l.type] - Canonical[r.type]),
                   Then(IF named THEN NameCmp(l.name, r.name) ELSE 0, CompareElementValues(l, r, w)))
<1>1. Canonical[l.type] \in Int
  BY ElemFields, CanonicalInt
<1>2. QED BY <1>1 DEF CompareElementsIn, Then

\* The comparison of two elements is turned round with them.
LEMMA ElementsTurned ==
  ASSUME NEW l \in Elems, NEW r \in Elems, NEW named \in BOOLEAN, NEW w,
         w[l.sub][r.sub] \in Signs, w[r.sub][l.sub] = -w[l.sub][r.sub]
  PROVE  /\ CompareElementsIn(l, r, named, w) \in Signs
         /\ CompareElementsIn(r, l, named, w) = -CompareElementsIn(l, r, named, w)
<1> DEFINE x == Sign(Canonical[l.type] - Canonical[r.type])
           y == IF named THEN NameCmp(l.name, r.name) ELSE 0
           z == CompareElementValues(l, r, w)
           x1 == Sign(Canonical[r.type] - Canonical[l.type])
           y1 == IF named THEN NameCmp(r.name, l.name) ELSE 0
           z1 == CompareElementValues(r, l, w)
<1>1. /\ CompareElementsIn(l, r, named, w) = Then(x, Then(y, z))
      /\ CompareElementsIn(r, l, named, w) = Then(x1, Then(y1, z1))
  BY ElementsAre
<1>2. x \in Signs /\ x1 = -x /\ (x = 0 <=> Canonical[l.type] = Canonical[r.type])
  BY ElementsAre, DifferenceOrder
<1>3. y \in Signs /\ y1 = -y
  <2>1. NameCmp(l.name, r.name) \in Signs /\ NameCmp(r.name, l.name) = -NameCmp(l.name, r.name)
    BY ElemFields, NameCmpOrder
  <2>2. CASE named
    BY <2>1, <2>2
  <2>3. CASE ~named
    <3>1. y \in Signs /\ y1 \in Signs /\ y <= 0 /\ 0 <= y /\ y1 <= 0 /\ 0 <= y1
      BY <2>3 DEF Signs
    <3> HIDE DEF y, y1
    <3>2. QED BY <3>1, ZeroTurned
  <2>4. QED BY <2>2, <2>3
<1>4. x = 0 => z \in Signs /\ z1 = -z
  BY <1>2, ValuesTurned
<1> HIDE DEF x, y, z, x1, y1, z1
<1>5. CASE x = 0
  <2>1. Then(y, z) \in Signs /\ Then(y1, z1) = -Then(y, z)
    BY <1>3, <1>4, <1>5, ThenOrder
  <2>2. Then(x, Then(y, z)) \in Signs /\ Then(x1, Then(y1, z1)) = -Then(x, Then(y, z))
    BY <1>2, <2>1, ThenOrder
  <2>3. QED BY <1>1, <2>2
<1>6. CASE x # 0
  <2>1. x1 # 0
    BY <1>2, <1>6 DEF Signs
  <2>2. QED BY <1>1, <1>2, <1>6, <2>1 DEF Then
<1>7. QED BY <1>5, <1>6

\* The comparisons of three elements follow one another.
LEMMA ElementsFollow ==
  ASSUME NEW a \in Elems, NEW b \in Elems, NEW c \in Elems, NEW named \in BOOLEAN,
         ~Rounded(a), ~Rounded(b), ~Rounded(c),
         NEW w, Follow(w[a.sub][b.sub], w[b.sub][c.sub], w[a.sub][c.sub]),
         w[a.sub][b.sub] \in Signs, w[b.sub][c.sub] \in Signs, w[a.sub][c.sub] \in Signs,
         w[b.sub][a.sub] = -w[a.sub][b.sub], w[c.sub][b.sub] = -w[b.sub][c.sub],
         w[c.sub][a.sub] = -w[a.sub][c.sub]
  PROVE  Follow(CompareElementsIn(a, b, named, w), CompareElementsIn(b, c, named, w),
                CompareElementsIn(a, c, named, w))
<1> DEFINE K(e) == Canonical[e.type]
           X(l, r) == Sign(K(l) - K(r))
           Y(l, r) == IF named THEN NameCmp(l.name, r.name) ELSE 0
           Z(l, r) == CompareElementValues(l, r, w)
<1>1. /\ CompareElementsIn(a, b, named, w) = Then(X(a, b), Then(Y(a, b), Z(a, b)))
      /\ CompareElementsIn(b, c, named, w) = Then(X(b, c), Then(Y(b, c), Z(b, c)))
      /\ CompareElementsIn(a, c, named, w) = Then(X(a, c), Then(Y(a, c), Z(a, c)))
  BY ElementsAre
<1>2. K(a) \in Int /\ K(b) \in Int /\ K(c) \in Int
  BY ElementsAre
<1>3. /\ Follow(X(a, b), X(b, c), X(a, c))
      /\ X(a, b) \in Signs /\ X(b, c) \in Signs /\ X(a, c) \in Signs
      /\ (X(a, b) = 0 <=> K(a) = K(b)) /\ (X(b, c) = 0 <=> K(b) = K(c))
  BY <1>2, DifferenceOrder
<1>4. /\ Follow(Y(a, b), Y(b, c), Y(a, c))
      /\ Y(a, b) \in Signs /\ Y(b, c) \in Signs /\ Y(a, c) \in Signs
  <2>1. /\ Follow(NameCmp(a.name, b.name), NameCmp(b.name, c.name), NameCmp(a.name, c.name))
        /\ NameCmp(a.name, b.name) \in Signs /\ NameCmp(b.name, c.name) \in Signs
        /\ NameCmp(a.name, c.name) \in Signs
    BY ElemFields, NameCmpOrder
  <2>2. CASE named
    BY <2>1, <2>2
  <2>3. CASE ~named
    BY <2>3 DEF Follow, Signs
  <2>4. QED BY <2>2, <2>3
<1>5. CASE K(a) = K(b) /\ K(b) = K(c)
  <2>1. Z(a, b) \in Signs /\ Z(b, c) \in Signs /\ Z(a, c) \in Signs
    BY <1>5, ValuesTurned
  <2>2. Follow(Z(a, b), Z(b, c), Z(a, c))
    BY <1>5, ValuesFollow
  <2> HIDE DEF X, Y, Z
  <2>3. /\ Follow(Then(Y(a, b), Z(a, b)), Then(Y(b, c), Z(b, c)), Then(Y(a, c), Z(a, c)))
        /\ Then(Y(a, b), Z(a, b)) \in Signs /\ Then(Y(b, c), Z(b, c)) \in Signs
        /\ Then(Y(a, c), Z(a, c)) \in Signs
    BY <1>4, <2>1, <2>2, ThenFollows, ThenOrder
  <2>4. Follow(Then(X(a, b), Then(Y(a, b), Z(a, b))), Then(X(b, c), Then(Y(b, c), Z(b, c))),
               Then(X(a, c), Then(Y(a, c), Z(a, c))))
    BY <1>3, <2>3, ThenFollows
  <2>5. QED BY <1>1, <2>4
<1>6. CASE ~(K(a) = K(b) /\ K(b) = K(c))
  <2>1. X(a, b) # 0 \/ X(b, c) # 0
    BY <1>3, <1>6
  <2> HIDE DEF X, Y, Z, K
  <2>2. \A p, q, r, s, t, u : /\ p \in Signs /\ q \in Signs /\ r \in Signs /\ Follow(p, q, r)
                              /\ p # 0 \/ q # 0
                              => Follow(Then(p, s), Then(q, t), Then(r, u))
    BY DEF Follow, Then, Signs
  <2>3. QED BY <1>1, <1>3, <2>1, <2>2
<1>7. QED BY <1>5, <1>6

\* Elements that compare equal are of types taken together, of the same name where
\* names count, and of equal values.
LEMMA ElementsEqual ==
  ASSUME NEW l \in Elems, NEW r \in Elems, NEW named \in BOOLEAN, NEW w,
         w[l.sub][r.sub] \in Signs, w[r.sub][l.sub] = -w[l.sub][r.sub],
         CompareElementsIn(l, r, named, w) = 0
  PROVE  /\ Canonical[l.type] = Canonical[r.type] /\ (named => l.name = r.name)
         /\ CompareElementValues(l, r, w) = 0
<1> DEFINE x == Sign(Canonical[l.type] - Canonical[r.type])
           y == IF named THEN NameCmp(l.name, r.name) ELSE 0
           z == CompareElementValues(l, r, w)
<1>1. Then(x, Then(y, z)) = 0
  BY ElementsAre
<1>2. x = 0 <=> Canonical[l.type] = Canonical[r.type]
  BY ElementsAre, DifferenceOrder
<1>3. named /\ y = 0 => l.name = r.name
  BY ElemFields, NameCmpOrder
<1> HIDE DEF x, y
<1>4. x = 0 /\ y = 0 /\ z = 0
  BY <1>1 DEF Then
<1>5. QED BY <1>2, <1>3, <1>4

-----------------------------------------------------------------------------
(***************************************************************************)
(* Documents                                                               *)
(***************************************************************************)
At(l, r, named, w) == [i \in DOMAIN l \cap DOMAIN r |-> CompareElementsIn(l[i], r[i], named, w)]

DocCol(l, r, named, w) == Column(l, r, At(l, r, named, w))

\* What is nested in two documents is compared with a sign, turned round with them.
TurnedIn(l, r, w) ==
  \A i \in DOMAIN l \cap DOMAIN r :
    w[l[i].sub][r[i].sub] \in Signs /\ w[r[i].sub][l[i].sub] = -w[l[i].sub][r[i].sub]

LEMMA DocElements ==
  ASSUME NEW d \in Documents
  PROVE  /\ DOMAIN d = 1..Len(d) /\ Len(d) \in Nat /\ d \in Seq(Elems)
         /\ \A i \in DOMAIN d : d[i] \in Elems /\ d[i].sub \in Documents
<1>1. Deepest \in 0..Deepest /\ d \in DocsOf[Deepest]
  BY Numbers DEF Documents
<1>2. d \in Seq(Elems) /\ \A i \in DOMAIN d : d[i] \in Elems
  BY <1>1, DocIn
<1>3. DOMAIN d = 1..Len(d) /\ Len(d) \in Nat
  BY <1>2
<1>4. QED BY <1>2, <1>3, ElemFields

\* Without a key the first element that differs decides, and the numbers of
\* elements where none does.
LEMMA DocFirst ==
  ASSUME NEW l \in Documents, NEW r \in Documents, NEW named \in BOOLEAN, NEW w, TurnedIn(l, r, w)
  PROVE  IsFirst(WoCompareIn(l, r, << >>, named, w), DocCol(l, r, named, w))
<1> DEFINE v == WoCompareIn(l, r, << >>, named, w)
           n == Len(l)
           m == Len(r)
           x == At(l, r, named, w)
           last == Sign(n - m)
           k == Min({n, m})
           at == [i \in 1..k |->
                    LET y == CompareElementsIn(l[i], r[i], named, w)
                    IN  IF Descending(<< >>, i) THEN -y ELSE y]
<1>1. DOMAIN l = 1..n /\ n \in Nat /\ DOMAIN r = 1..m /\ m \in Nat
  BY DocElements
<1>2. last \in Signs
  <2> HIDE DEF n, m
  <2>1. n - m \in Int
    BY <1>1
  <2>2. QED BY <2>1, SignOf
<1>3. \A i \in DOMAIN l \cap DOMAIN r : x[i] = CompareElementsIn(l[i], r[i], named, w) /\ x[i] \in Signs
  BY DocElements, ElementsTurned DEF TurnedIn, At
<1>4. SUFFICES \/ (\A i \in DOMAIN l \cap DOMAIN r : x[i] = 0) /\ v = last
               \/ \E i \in DOMAIN l \cap DOMAIN r :
                    /\ v = x[i] /\ v # 0
                    /\ \A j \in DOMAIN l \cap DOMAIN r : j < i => x[j] = 0
  <2> HIDE DEF n, m, x, v
  <2>1. IsFirst(v, Column(l, r, x))
    BY <1>1, ColumnFirst
  <2>2. QED BY <2>1 DEF DocCol, v, x
<1>5. CASE IsEmpty(l) \/ IsEmpty(r)
  <2>1. v = last
    BY <1>5 DEF WoCompareIn
  <2>2. l = << >> \/ r = << >>
    BY <1>5, EmptyDoc
  <2>3. DOMAIN l \cap DOMAIN r = {}
    BY <2>2
  <2>4. QED BY <2>1, <2>3
<1>6. CASE ~(IsEmpty(l) \/ IsEmpty(r))
  <2>1. k \in Nat /\ 1..k = DOMAIN l \cap DOMAIN r
    <3>1. {n, m} \subseteq Nat /\ {n, m} # {}
      BY <1>1
    <3>2. k \in {n, m} /\ \A i \in {n, m} : k <= i
      BY <3>1, MinOf
    <3> HIDE DEF k, n, m
    <3>3. QED BY <1>1, <3>2
  <2>2. v = FirstOf(Append(at, last))
    BY <1>6 DEF WoCompareIn
  <2>3. \A i \in 1..k : at[i] = x[i]
    <3>1. \A i \in 1..k : ~Descending(<< >>, i)
      BY DEF Descending
    <3>2. \A i \in 1..k : at[i] = CompareElementsIn(l[i], r[i], named, w)
      BY <3>1
    <3> HIDE DEF at, x, k
    <3>3. QED BY <1>3, <2>1, <3>2
  <2>4. at \in Seq(Signs) /\ Len(at) = k
    <3>1. \A i \in 1..k : at[i] \in Signs
      BY <1>3, <2>1, <2>3
    <3>2. at = [i \in 1..k |-> at[i]]
      OBVIOUS
    <3> HIDE DEF at, k
    <3>3. QED BY <2>1, <3>1, <3>2
  <2> DEFINE s == Append(at, last)
             c == [i \in Positions |-> IF i \in DOMAIN s THEN s[i] ELSE 0]
  <2> HIDE DEF at, k, last, x, v, n, m
  <2>5. /\ s \in Seq(Signs) /\ Len(s) = k + 1
        /\ \A i \in 1..k : s[i] = at[i]
        /\ s[k + 1] = last
    BY <1>2, <2>4, AppendProperties
  <2>6. DOMAIN s = 1..(k + 1)
    BY <2>5
  <2> HIDE DEF s
  <2>7. c \in [Positions -> Signs]
    BY <2>5, <2>6 DEF Positions, Signs
  <2>8. IsFirst(v, c)
    <3>1. \A i \in Positions : c[i] = IF i \in DOMAIN s THEN s[i] ELSE 0
      OBVIOUS
    <3> HIDE DEF c
    <3>2. IsFirst(FirstOf(s), c)
      BY <2>5, <2>7, <3>1, FirstOfIs
    <3>3. QED BY <2>2, <3>2 DEF s
  <2>9. /\ \A i \in 1..k : i \in Positions /\ c[i] = x[i]
        /\ k + 1 \in Positions /\ c[k + 1] = last
        /\ \A i \in Positions : i > k + 1 => c[i] = 0
    BY <2>1, <2>3, <2>5, <2>6 DEF Positions
  <2> HIDE DEF c
  <2>10. CASE v = 0 /\ \A i \in Positions : c[i] = 0
    BY <2>1, <2>9, <2>10
  <2>11. ASSUME NEW i \in Positions, v = c[i], v # 0, \A j \in Positions : j < i => c[j] = 0
         PROVE  \/ (\A j \in DOMAIN l \cap DOMAIN r : x[j] = 0) /\ v = last
                \/ \E j \in DOMAIN l \cap DOMAIN r :
                     /\ v = x[j] /\ v # 0
                     /\ \A h \in DOMAIN l \cap DOMAIN r : h < j => x[h] = 0
    <3>1. i \in Nat /\ i > 0 /\ i <= k + 1
      BY <2>1, <2>9, <2>11 DEF Positions
    <3>2. CASE i = k + 1
      <4>1. v = last
        BY <2>9, <2>11, <3>2
      <4>2. \A j \in 1..k : x[j] = 0
        BY <2>1, <2>9, <2>11, <3>2
      <4>3. QED BY <2>1, <4>1, <4>2
    <3>3. CASE i <= k
      <4>1. i \in 1..k /\ v = x[i]
        BY <2>1, <2>9, <2>11, <3>1, <3>3
      <4>2. \A j \in 1..k : j < i => x[j] = 0
        BY <2>9, <2>11
      <4>3. QED BY <2>1, <2>11, <4>1, <4>2
    <3>4. QED BY <2>1, <3>1, <3>2, <3>3
  <2>12. QED BY <2>8, <2>10, <2>11 DEF IsFirst
<1>7. QED BY <1>5, <1>6

\* The comparison of documents is turned round with them.
LEMMA DocsTurned ==
  ASSUME NEW l \in Documents, NEW r \in Documents, NEW named \in BOOLEAN, NEW w, TurnedIn(l, r, w)
  PROVE  /\ WoCompareIn(l, r, << >>, named, w) \in Signs
         /\ WoCompareIn(r, l, << >>, named, w) = -WoCompareIn(l, r, << >>, named, w)
<1> DEFINE x == At(l, r, named, w)
           y == At(r, l, named, w)
<1>1. \A i \in DOMAIN l \cap DOMAIN r : l[i] \in Elems /\ r[i] \in Elems
  BY DocElements
<1>2. TurnedIn(r, l, w)
  BY DEF TurnedIn, Signs
<1>3. \A i \in DOMAIN l \cap DOMAIN r : x[i] \in Signs /\ y[i] = -x[i]
  BY <1>1, ElementsTurned DEF TurnedIn, At
<1>4. \A i \in DOMAIN r \cap DOMAIN l : y[i] \in Signs
  BY <1>3 DEF Signs
<1> HIDE DEF x, y
<1>5. /\ Column(l, r, x) \in [Positions -> Signs] /\ Column(r, l, y) \in [Positions -> Signs]
      /\ \A i \in Positions : Column(r, l, y)[i] = -Column(l, r, x)[i]
  BY <1>3, <1>4, ColumnSigns, ColumnTurned
<1>6. /\ IsFirst(WoCompareIn(l, r, << >>, named, w), Column(l, r, x))
      /\ IsFirst(WoCompareIn(r, l, << >>, named, w), Column(r, l, y))
  BY <1>2, DocFirst DEF DocCol, x, y
<1>7. QED BY <1>5, <1>6, LexTurned

\* The comparisons of three documents follow one another.
LEMMA DocsFollow ==
  ASSUME NEW a \in Documents, NEW b \in Documents, NEW c \in Documents, NEW named \in BOOLEAN, NEW w,
         TurnedIn(a, b, w), TurnedIn(b, c, w), TurnedIn(a, c, w),
         \A i \in DOMAIN a \cap DOMAIN b \cap DOMAIN c :
           /\ ~Rounded(a[i]) /\ ~Rounded(b[i]) /\ ~Rounded(c[i])
           /\ Follow(w[a[i].sub][b[i].sub], w[b[i].sub][c[i].sub], w[a[i].sub][c[i].sub])
  PROVE  Follow(WoCompareIn(a, b, << >>, named, w), WoCompareIn(b, c, << >>, named, w),
                WoCompareIn(a, c, << >>, named, w))
<1> DEFINE X(l, r) == At(l, r, named, w)
<1>1. ASSUME NEW l \in Documents, NEW r \in Documents, TurnedIn(l, r, w)
      PROVE  /\ Column(l, r, X(l, r)) \in [Positions -> Signs]
             /\ IsFirst(WoCompareIn(l, r, << >>, named, w), Column(l, r, X(l, r)))
  <2>1. \A i \in DOMAIN l \cap DOMAIN r : l[i] \in Elems /\ r[i] \in Elems
    BY DocElements
  <2>2. \A i \in DOMAIN l \cap DOMAIN r : X(l, r)[i] \in Signs
    BY <1>1, <2>1, ElementsTurned DEF TurnedIn, At
  <2> HIDE DEF X
  <2>3. QED BY <1>1, <2>2, ColumnSigns, DocFirst DEF DocCol, X
<1>2. \A i \in DOMAIN a \cap DOMAIN b \cap DOMAIN c : a[i] \in Elems /\ b[i] \in Elems /\ c[i] \in Elems
  BY DocElements
<1>3. \A i \in DOMAIN a \cap DOMAIN b \cap DOMAIN c : Follow(X(a, b)[i], X(b, c)[i], X(a, c)[i])
  <2>1. SUFFICES ASSUME NEW i \in DOMAIN a \cap DOMAIN b \cap DOMAIN c
                 PROVE  Follow(X(a, b)[i], X(b, c)[i], X(a, c)[i])
    OBVIOUS
  <2>2. /\ X(a, b)[i] = CompareElementsIn(a[i], b[i], named, w)
        /\ X(b, c)[i] = CompareElementsIn(b[i], c[i], named, w)
        /\ X(a, c)[i] = CompareElementsIn(a[i], c[i], named, w)
    BY DEF At
  <2> HIDE DEF X
  <2>3. /\ a[i] \in Elems /\ b[i] \in Elems /\ c[i] \in Elems
        /\ ~Rounded(a[i]) /\ ~Rounded(b[i]) /\ ~Rounded(c[i])
        /\ Follow(w[a[i].sub][b[i].sub], w[b[i].sub][c[i].sub], w[a[i].sub][c[i].sub])
    BY <1>2
  <2>4. /\ w[a[i].sub][b[i].sub] \in Signs /\ w[b[i].sub][c[i].sub] \in Signs
        /\ w[a[i].sub][c[i].sub] \in Signs
        /\ w[b[i].sub][a[i].sub] = -w[a[i].sub][b[i].sub]
        /\ w[c[i].sub][b[i].sub] = -w[b[i].sub][c[i].sub]
        /\ w[c[i].sub][a[i].sub] = -w[a[i].sub][c[i].sub]
    BY DEF TurnedIn
  <2>5. QED BY <2>2, <2>3, <2>4, ElementsFollow
<1> HIDE DEF X
<1>4. \A i \in Positions : Follow(Column(a, b, X(a, b))[i], Column(b, c, X(b, c))[i], Column(a, c, X(a, c))[i])
  BY <1>3, ColumnsFollow
<1>5. QED BY <1>1, <1>4, LexFollows

CompareBase       == [l \in DocsOf[0] |-> [r \in DocsOf[0] |-> 0]]
CompareStep(n, w) == [l \in DocsOf[n] |-> [r \in DocsOf[n] |-> WoCompareIn(l, r, << >>, TRUE, w)]]

CompareRec == INSTANCE NatRecursion WITH Base <- CompareBase, Step <- CompareStep

LEMMA CompareUnfold ==
  /\ CompareAt[0] = CompareBase
  /\ \A n \in Nat : CompareAt[n + 1] = CompareStep(n + 1, CompareAt[n])
<1>1. CompareAt = CompareRec!Recursive
  BY DEF CompareAt, CompareRec!Recursive, CompareBase, CompareStep
<1>2. QED BY <1>1, CompareRec!Unfold

\* So is that of nested documents, at every depth.
LEMMA NestedTurned ==
  ASSUME NEW n \in 0..Deepest, NEW l \in DocsOf[n], NEW r \in DocsOf[n]
  PROVE  CompareAt[n][l][r] \in Signs /\ CompareAt[n][r][l] = -CompareAt[n][l][r]
<1> DEFINE Right(m, x, y) == CompareAt[m][x][y] \in Signs /\ CompareAt[m][y][x] = -CompareAt[m][x][y]
           S == {m \in Nat : m <= Deepest => \A x, y \in DocsOf[m] : Right(m, x, y)}
<1>1. 0 \in S
  <2>1. ASSUME NEW x \in DocsOf[0], NEW y \in DocsOf[0]
        PROVE  Right(0, x, y)
    <3>1. CompareAt[0][x][y] = 0 /\ CompareAt[0][y][x] = 0
      BY CompareUnfold DEF CompareBase
    <3>2. /\ CompareAt[0][x][y] \in Signs /\ CompareAt[0][y][x] \in Signs
          /\ CompareAt[0][x][y] <= 0 /\ 0 <= CompareAt[0][x][y]
          /\ CompareAt[0][y][x] <= 0 /\ 0 <= CompareAt[0][y][x]
      BY <3>1 DEF Signs
    <3>3. QED BY <3>2, ZeroTurned
  <2>2. QED BY <2>1
<1>2. ASSUME NEW m \in Nat, m \in S
      PROVE  m + 1 \in S
  <2>1. SUFFICES ASSUME m + 1 <= Deepest, NEW x \in DocsOf[m + 1], NEW y \in DocsOf[m + 1]
                 PROVE  Right(m + 1, x, y)
    OBVIOUS
  <2>2. m + 1 \in 0..Deepest /\ m + 1 - 1 = m /\ m <= Deepest
    BY <2>1, Numbers
  <2>3. /\ x \in Documents /\ y \in Documents
        /\ \A i \in DOMAIN x : x[i].sub \in DocsOf[m]
        /\ \A i \in DOMAIN y : y[i].sub \in DocsOf[m]
    BY <2>1, <2>2, DocIn
  <2>4. TurnedIn(x, y, CompareAt[m])
    BY <1>2, <2>2, <2>3 DEF TurnedIn
  <2>5. /\ CompareAt[m + 1][x][y] = WoCompareIn(x, y, << >>, TRUE, CompareAt[m])
        /\ CompareAt[m + 1][y][x] = WoCompareIn(y, x, << >>, TRUE, CompareAt[m])
    <3>1. CompareAt[m + 1] = CompareStep(m + 1, CompareAt[m])
      BY CompareUnfold
    <3>2. /\ CompareStep(m + 1, CompareAt[m])[x][y] = WoCompareIn(x, y, << >>, TRUE, CompareAt[m])
          /\ CompareStep(m + 1, CompareAt[m])[y][x] = WoCompareIn(y, x, << >>, TRUE, CompareAt[m])
      BY DEF CompareStep
    <3>3. QED BY <3>1, <3>2
  <2>6. /\ WoCompareIn(x, y, << >>, TRUE, CompareAt[m]) \in Signs
        /\ WoCompareIn(y, x, << >>, TRUE, CompareAt[m]) = -WoCompareIn(x, y, << >>, TRUE, CompareAt[m])
    BY <2>3, <2>4, DocsTurned
  <2>7. QED BY <2>5, <2>6
<1>3. Nat \subseteq S
  <2> HIDE DEF S
  <2>1. QED BY <1>1, <1>2, DocsRec!Induction
<1>4. n \in Nat /\ n <= Deepest
  BY Numbers
<1>5. QED BY <1>3, <1>4

ExactBase       == DocsOf[0]
ExactStep(n, x) == {d \in DocsOf[n] : \A i \in DOMAIN d : ~Rounded(d[i]) /\ d[i].sub \in x}

ExactRec == INSTANCE NatRecursion WITH Base <- ExactBase, Step <- ExactStep

LEMMA ExactUnfold ==
  /\ ExactAt[0] = DocsOf[0]
  /\ \A n \in Nat : ExactAt[n + 1] = ExactStep(n + 1, ExactAt[n])
<1>1. ExactAt = ExactRec!Recursive
  BY DEF ExactAt, ExactRec!Recursive, ExactBase, ExactStep
<1>2. QED BY <1>1, ExactRec!Unfold DEF ExactBase

\* A document without a rounded number is one, and so is what is nested in it.
LEMMA ExactIn ==
  ASSUME NEW n \in Nat, NEW d \in ExactAt[n]
  PROVE  /\ d \in DocsOf[n] /\ d \in ExactAt[n + 1]
         /\ \A i \in DOMAIN d : ~Rounded(d[i]) /\ d[i].sub \in ExactAt[n]
<1> DEFINE Right(m, x) == x \in DocsOf[m] /\ x \in ExactAt[m + 1]
           S == {m \in Nat : \A x \in ExactAt[m] : Right(m, x)}
<1>1. 0 \in S
  <2>1. ASSUME NEW x \in ExactAt[0]
        PROVE  Right(0, x)
    <3>1. x \in DocsOf[0] /\ x = << >>
      BY ExactUnfold, DocsUnfold
    <3>2. x \in DocsOf[0 + 1]
      BY <3>1, DocsGrowByOne
    <3>3. DOMAIN x = {}
      BY <3>1
    <3>4. QED BY <3>1, <3>2, <3>3, ExactUnfold DEF ExactStep
  <2>2. QED BY <2>1
<1>2. ASSUME NEW m \in Nat, m \in S
      PROVE  m + 1 \in S
  <2>1. ASSUME NEW x \in ExactAt[m + 1]
        PROVE  Right(m + 1, x)
    <3>1. /\ x \in DocsOf[m + 1]
          /\ \A i \in DOMAIN x : ~Rounded(x[i]) /\ x[i].sub \in ExactAt[m]
      BY ExactUnfold DEF ExactStep
    <3>2. \A i \in DOMAIN x : x[i].sub \in ExactAt[m + 1]
      BY <1>2, <3>1
    <3>3. m + 1 \in Nat /\ x \in DocsOf[(m + 1) + 1]
      BY <3>1, DocsGrowByOne
    <3>4. ExactAt[(m + 1) + 1] = ExactStep((m + 1) + 1, ExactAt[m + 1])
      BY <3>3, ExactUnfold
    <3>5. QED BY <3>1, <3>2, <3>3, <3>4 DEF ExactStep
  <2>2. QED BY <2>1
<1>3. Nat \subseteq S
  <2> HIDE DEF S
  <2>1. QED BY <1>1, <1>2, DocsRec!Induction
<1>4. d \in DocsOf[n] /\ d \in ExactAt[n + 1]
  BY <1>3
<1>5. QED BY <1>4, ExactUnfold DEF ExactStep

\* The comparisons of three nested documents without rounded numbers follow one
\* another, at every depth.
LEMMA NestedFollow ==
  ASSUME NEW n \in 0..Deepest, NEW a \in ExactAt[n], NEW b \in ExactAt[n], NEW c \in ExactAt[n]
  PROVE  Follow(CompareAt[n][a][b], CompareAt[n][b][c], CompareAt[n][a][c])
<1> DEFINE Right(m, x, y, z) == Follow(CompareAt[m][x][y], CompareAt[m][y][z], CompareAt[m][x][z])
           S == {m \in Nat : m <= Deepest => \A x, y, z \in ExactAt[m] : Right(m, x, y, z)}
<1>1. 0 \in S
  <2>1. ASSUME NEW x \in ExactAt[0], NEW y \in ExactAt[0], NEW z \in ExactAt[0]
        PROVE  Right(0, x, y, z)
    <3>1. x \in DocsOf[0] /\ y \in DocsOf[0] /\ z \in DocsOf[0]
      BY ExactUnfold
    <3>2. CompareAt[0][x][y] = 0 /\ CompareAt[0][y][z] = 0 /\ CompareAt[0][x][z] = 0
      BY <3>1, CompareUnfold DEF CompareBase
    <3>3. QED BY <3>2 DEF Follow
  <2>2. QED BY <2>1
<1>2. ASSUME NEW m \in Nat, m \in S
      PROVE  m + 1 \in S
  <2>1. SUFFICES ASSUME m + 1 <= Deepest,
                        NEW x \in ExactAt[m + 1], NEW y \in ExactAt[m + 1], NEW z \in ExactAt[m + 1]
                 PROVE  Right(m + 1, x, y, z)
    OBVIOUS
  <2>2. m + 1 \in 0..Deepest /\ m + 1 - 1 = m /\ m <= Deepest /\ m \in 0..Deepest
    BY <2>1, Numbers
  <2>3. ASSUME NEW d \in ExactAt[m + 1]
        PROVE  /\ d \in DocsOf[m + 1] /\ d \in Documents
               /\ \A i \in DOMAIN d : ~Rounded(d[i]) /\ d[i].sub \in ExactAt[m] /\ d[i].sub \in DocsOf[m]
    <3>1. /\ d \in DocsOf[m + 1]
          /\ \A i \in DOMAIN d : ~Rounded(d[i]) /\ d[i].sub \in ExactAt[m]
      BY ExactUnfold DEF ExactStep
    <3>2. d \in Documents /\ \A i \in DOMAIN d : d[i].sub \in DocsOf[m]
      BY <2>2, <3>1, DocIn
    <3>3. QED BY <3>1, <3>2
  <2> DEFINE w == CompareAt[m]
  <2>4. ASSUME NEW d \in ExactAt[m + 1], NEW e \in ExactAt[m + 1]
        PROVE  TurnedIn(d, e, w) /\ CompareAt[m + 1][d][e] = WoCompareIn(d, e, << >>, TRUE, w)
    <3>1. TurnedIn(d, e, w)
      BY <2>2, <2>3, NestedTurned DEF TurnedIn
    <3>2. CompareAt[m + 1] = CompareStep(m + 1, w)
      BY CompareUnfold
    <3>3. CompareStep(m + 1, w)[d][e] = WoCompareIn(d, e, << >>, TRUE, w)
      BY <2>3 DEF CompareStep
    <3>4. QED BY <3>1, <3>2, <3>3
  <2>5. \A i \in DOMAIN x \cap DOMAIN y \cap DOMAIN z :
          /\ ~Rounded(x[i]) /\ ~Rounded(y[i]) /\ ~Rounded(z[i])
          /\ Follow(w[x[i].sub][y[i].sub], w[y[i].sub][z[i].sub], w[x[i].sub][z[i].sub])
    BY <1>2, <2>2, <2>3
  <2>6. x \in Documents /\ y \in Documents /\ z \in Documents
    BY <2>3
  <2>7. TurnedIn(x, y, w) /\ TurnedIn(y, z, w) /\ TurnedIn(x, z, w)
    BY <2>4
  <2> HIDE DEF w
  <2>8. Follow(WoCompareIn(x, y, << >>, TRUE, w), WoCompareIn(y, z, << >>, TRUE, w),
               WoCompareIn(x, z, << >>, TRUE, w))
    BY <2>5, <2>6, <2>7, DocsFollow
  <2>9. QED BY <2>4, <2>8
<1>3. Nat \subseteq S
  <2> HIDE DEF S
  <2>1. QED BY <1>1, <1>2, DocsRec!Induction
<1>4. n \in Nat /\ n <= Deepest
  BY Numbers
<1>5. QED BY <1>3, <1>4

LEMMA AllTurned ==
  ASSUME NEW l \in Documents, NEW r \in Documents
  PROVE  /\ TurnedIn(l, r, CompareAt[Deepest])
         /\ CompareAt[Deepest][l][r] \in Signs /\ CompareAt[Deepest][r][l] = -CompareAt[Deepest][l][r]
<1>1. Deepest \in 0..Deepest
  BY Numbers
<1>2. \A x, y \in Documents :
        CompareAt[Deepest][x][y] \in Signs /\ CompareAt[Deepest][y][x] = -CompareAt[Deepest][x][y]
  BY <1>1, NestedTurned DEF Documents
<1>3. TurnedIn(l, r, CompareAt[Deepest])
  BY <1>2, DocElements DEF TurnedIn
<1>4. QED BY <1>2, <1>3

\* woCompare is a total order of documents: turned round with its arguments, and
\* on documents whose numbers doubles hold transitive, also where it finds no
\* difference.
THEOREM ComparisonIsOrder == DocTypeOK => WellOrdered
<1> SUFFICES ASSUME DocTypeOK PROVE WellOrdered
  OBVIOUS
<1> DEFINE w == CompareAt[Deepest]
           cmp(l, r) == WoCompareIn(l, r, << >>, TRUE, w)
<1>1. one \in Documents /\ two \in Documents /\ three \in Documents
  BY DEF DocTypeOK
<1>2. \A l, r \in Documents : TurnedIn(l, r, w)
  BY AllTurned
<1> HIDE DEF w
<1>3. cmp(two, one) \in Signs /\ cmp(one, two) = -cmp(two, one)
  BY <1>1, <1>2, DocsTurned
<1>4. ASSUME AllExact
      PROVE  Follow(cmp(one, two), cmp(two, three), cmp(one, three))
  <2>1. one \in ExactAt[Deepest] /\ two \in ExactAt[Deepest] /\ three \in ExactAt[Deepest]
    BY <1>4 DEF AllExact
  <2>2. Deepest \in Nat /\ Deepest \in 0..Deepest
    BY Numbers
  <2>3. \A d \in ExactAt[Deepest] : \A i \in DOMAIN d : ~Rounded(d[i]) /\ d[i].sub \in ExactAt[Deepest]
    BY <2>2, ExactIn
  <2>4. \A a, b, c \in ExactAt[Deepest] : Follow(w[a][b], w[b][c], w[a][c])
    BY <2>2, NestedFollow DEF w
  <2>5. \A i \in DOMAIN one \cap DOMAIN two \cap DOMAIN three :
          /\ ~Rounded(one[i]) /\ ~Rounded(two[i]) /\ ~Rounded(three[i])
          /\ Follow(w[one[i].sub][two[i].sub], w[two[i].sub][three[i].sub], w[one[i].sub][three[i].sub])
    BY <2>1, <2>3, <2>4
  <2>6. TurnedIn(one, two, w) /\ TurnedIn(two, three, w) /\ TurnedIn(one, three, w)
    BY <1>1, <1>2
  <2>7. QED BY <1>1, <2>5, <2>6, DocsFollow
<1>5. QED BY <1>3, <1>4 DEF WellOrdered, WoCompare, Follow, w

-----------------------------------------------------------------------------
(***************************************************************************)
(* What equal documents have in common                                     *)
(***************************************************************************)
\* The parts of a value that its type does not use are empty.
LEMMA Unused ==
  ASSUME NEW e \in Elems
  PROVE  /\ e.type \in Nulls \cup {"Object", "Array", "RegEx", "DBRef", "CodeWScope",
                                   "jstOID", "Code", "Symbol", "String"} => e.num = 0
         /\ e.type \in Nulls \cup {"Bool", "Object", "Array"} \cup Times \cup Numerics => e.str = Blank
         /\ e.type \notin {"RegEx", "DBRef"} => e.opt = Blank
         /\ e.type \notin {"Object", "Array", "CodeWScope"} => e.sub = << >>
<1>1. ValueOK(e)
  BY ElemFields
<1>2. /\ IsNumber(e) \/ e.type \in {"Bool", "Date", "Timestamp", "BinData"} \/ e.num = 0
      /\ \/ e.type \in {"String", "Symbol", "jstOID", "BinData", "RegEx", "DBRef", "Code", "CodeWScope"}
         \/ e.str = Blank
      /\ e.type \in {"RegEx", "DBRef"} \/ e.opt = Blank
      /\ IsABSONObj(e) \/ e.type = "CodeWScope" \/ e.sub = << >>
  BY <1>1 DEF ValueOK
<1>3. QED BY <1>2 DEF IsNumber, IsABSONObj, Nulls, Times, Numerics

\* The number that is left of a numeric element.
Shown(e) == IF Finite(e.num) THEN AsDouble(e) ELSE NaN

LEMMA ShownAlike ==
  ASSUME NEW l \in Elems, NEW r \in Elems, l.type \in Numerics, r.type \in Numerics,
         Canonical[l.type] = Canonical[r.type], NEW w, CompareElementValues(l, r, w) = 0
  PROVE  Shown(l) = Shown(r)
<1>1. /\ l.num \in Int /\ r.num \in Int /\ Rank(l.num) \in Int /\ Rank(r.num) \in Int
      /\ Rank(AsDouble(l)) \in Int /\ Rank(AsDouble(r)) \in Int
      /\ AsDouble(l) \in Int /\ AsDouble(r) \in Int
  BY ElementNumbers, NumberFields
<1>2. CASE l.type = "NumberLong" /\ r.type = "NumberLong"
  <2>1. Sign(Rank(l.num) - Rank(r.num)) = 0
    BY <1>2, ValuesByKind DEF Numerics
  <2>2. Rank(l.num) = Rank(r.num)
    BY <1>1, <2>1, DifferenceOrder
  <2>3. l.num = r.num
    BY <1>2, <2>2, NumberFields
  <2>4. AsDouble(l) = AsDouble(r)
    BY <1>2, <2>3 DEF AsDouble
  <2>5. QED BY <2>3, <2>4 DEF Shown
<1>3. CASE ~(l.type = "NumberLong" /\ r.type = "NumberLong")
  <2>1. Sign(Rank(AsDouble(l)) - Rank(AsDouble(r))) = 0
    BY <1>3, ValuesByKind
  <2>2. Rank(AsDouble(l)) = Rank(AsDouble(r))
    BY <1>1, <2>1, DifferenceOrder
  <2>3. ASSUME NEW e \in Elems, e.type \in Numerics
        PROVE  Finite(e.num) <=> Finite(AsDouble(e))
    <3>1. CASE e.type = "NumberDouble"
      BY <3>1 DEF AsDouble
    <3>2. CASE e.type \in {"NumberLong", "NumberInt"}
      BY <3>2, ElemFields DEF ValueOK
    <3>3. QED BY <2>3, <3>1, <3>2 DEF Numerics
  <2>4. Shown(l) = (IF Finite(AsDouble(l)) THEN AsDouble(l) ELSE NaN)
    BY <2>3 DEF Shown
  <2>5. Shown(r) = (IF Finite(AsDouble(r)) THEN AsDouble(r) ELSE NaN)
    BY <2>3 DEF Shown
  <2>6. \A x, y \in Int : Rank(x) = Rank(y) =>
          (IF Finite(x) THEN x ELSE NaN) = (IF Finite(y) THEN y ELSE NaN)
    BY Numbers DEF Rank, Finite
  <2>7. QED BY <1>1, <2>2, <2>4, <2>5, <2>6
<1>4. QED BY <1>2, <1>3

\* Elements that compare equal have the same gist, if what is nested in them has.
LEMMA ElementsAlike ==
  ASSUME NEW l \in Elems, NEW r \in Elems, NEW w,
         w[l.sub][r.sub] \in Signs, w[r.sub][l.sub] = -w[l.sub][r.sub],
         CompareElementsIn(l, r, TRUE, w) = 0,
         NEW g, w[l.sub][r.sub] = 0 => g[l.sub] = g[r.sub]
  PROVE  GistOf(l, g) = GistOf(r, g)
<1> DEFINE v == CompareElementValues(l, r, w)
           Num(e) == IF IsNumber(e) THEN Shown(e) ELSE e.num
           Sub(e) == IF e.type = "CodeWScope" THEN << >> ELSE g[e.sub]
<1>1. Canonical[l.type] = Canonical[r.type] /\ l.name = r.name /\ v = 0
  BY ElementsEqual
<1>2. SUFFICES l.str = r.str /\ l.opt = r.opt /\ Num(l) = Num(r) /\ Sub(l) = Sub(r)
  BY <1>1 DEF GistOf, Shown
<1>3. l.type \in Types \ {"EOO"} /\ r.type \in Types \ {"EOO"}
  BY ElemFields
<1>4. \/ l.type = r.type \/ {l.type, r.type} \subseteq Numerics \/ {l.type, r.type} \subseteq Times
      \/ {l.type, r.type} \subseteq {"String", "Symbol"}
  BY <1>1, <1>3, SameKind
<1>5. /\ StrCmp(l.str, r.str) = 0 => l.str = r.str
      /\ StrCmp(l.opt, r.opt) = 0 => l.opt = r.opt
  BY ElemFields, StrCmpOrder
<1>6. \A x, y : Then(x, y) = 0 => x = 0 /\ y = 0
  BY DEF Then
<1>7. Sign(l.num - r.num) = 0 => l.num = r.num
  BY ElemFields, DifferenceOrder
<1> HIDE DEF v
<1>8. CASE l.type \in Nulls
  <2>1. r.type = l.type
    BY <1>4, <1>8 DEF Nulls, Numerics, Times
  <2>2. ~IsNumber(l) /\ ~IsNumber(r) /\ l.type \notin {"RegEx", "DBRef", "Object", "Array", "CodeWScope"}
    BY <1>8, <2>1 DEF Nulls, IsNumber
  <2>3. QED BY <1>8, <2>1, <2>2, Unused
<1>9. CASE l.type \in {"Bool"} \cup Times
  <2>1. r.type \in {"Bool"} \cup Times
    BY <1>4, <1>9 DEF Numerics, Times
  <2>2. \A t \in {l.type, r.type} :
          t \notin {"NumberLong", "NumberDouble", "NumberInt", "RegEx", "DBRef", "Object", "Array", "CodeWScope"}
    BY <1>9, <2>1 DEF Times
  <2>3. v = Sign(l.num - r.num)
    BY <1>1, <1>9, ValuesByKind DEF v
  <2>4. QED BY <1>1, <1>7, <1>9, <2>1, <2>2, <2>3, Unused DEF IsNumber
<1>10. CASE l.type \in Numerics
  <2>1. r.type \in Numerics
    BY <1>4, <1>10 DEF Numerics, Times
  <2>2. \A t \in {l.type, r.type} : t \notin {"RegEx", "DBRef", "Object", "Array", "CodeWScope"}
    BY <1>10, <2>1 DEF Numerics
  <2>3. Shown(l) = Shown(r)
    BY <1>1, <1>10, <2>1, ShownAlike DEF v
  <2>4. IsNumber(l) /\ IsNumber(r)
    BY <1>10, <2>1 DEF Numerics, IsNumber
  <2>5. QED BY <1>10, <2>1, <2>2, <2>3, <2>4, Unused
<1>11. CASE l.type \in {"jstOID", "Code", "Symbol", "String"}
  <2>1. r.type \in {"jstOID", "Code", "Symbol", "String"}
    BY <1>4, <1>11 DEF Numerics, Times
  <2>2. v = StrCmp(l.str, r.str)
    BY <1>1, <1>11, ValuesByKind DEF v
  <2>3. \A t \in {l.type, r.type} :
          t \notin {"NumberLong", "NumberDouble", "NumberInt", "RegEx", "DBRef", "Object", "Array", "CodeWScope"}
    BY <1>11, <2>1
  <2>4. QED BY <1>1, <1>5, <1>11, <2>1, <2>2, <2>3, Unused DEF IsNumber
<1>12. CASE l.type \in {"Object", "Array"}
  <2>1. r.type = l.type
    BY <1>4, <1>12 DEF Numerics, Times
  <2>2. v = w[l.sub][r.sub]
    BY <1>1, <1>12, ValuesByKind DEF v
  <2>3. g[l.sub] = g[r.sub]
    BY <1>1, <2>2
  <2>4. QED BY <1>12, <2>1, <2>3, Unused DEF IsNumber
<1>13. CASE l.type = "DBRef"
  <2>1. r.type = "DBRef"
    BY <1>4, <1>13 DEF Numerics, Times
  <2>2. v = Then(Sign(ValueSize(l) - ValueSize(r)), Then(StrCmp(l.str, r.str), StrCmp(l.opt, r.opt)))
    BY <1>1, <1>13, ValuesByKind DEF v
  <2>3. QED BY <1>1, <1>5, <1>6, <1>13, <2>1, <2>2, Unused DEF IsNumber
<1>14. CASE l.type = "BinData"
  <2>1. r.type = "BinData"
    BY <1>4, <1>14 DEF Numerics, Times
  <2>2. v = Then(Sign(StrSize(l.str) - StrSize(r.str)), Then(Sign(l.num - r.num), StrCmp(l.str, r.str)))
    BY <1>1, <1>14, ValuesByKind DEF v
  <2>3. QED BY <1>1, <1>5, <1>6, <1>7, <1>14, <2>1, <2>2, Unused DEF IsNumber
<1>15. CASE l.type = "RegEx"
  <2>1. r.type = "RegEx"
    BY <1>4, <1>15 DEF Numerics, Times
  <2>2. v = Then(StrCmp(l.str, r.str), StrCmp(l.opt, r.opt))
    BY <1>1, <1>15, ValuesByKind DEF v
  <2>3. QED BY <1>1, <1>5, <1>6, <1>15, <2>1, <2>2, Unused DEF IsNumber
<1>16. CASE l.type = "CodeWScope"
  <2>1. r.type = "CodeWScope"
    BY <1>4, <1>16 DEF Numerics, Times
  <2>2. v = Then(StrCmp(l.str, r.str), Sign(ScopeKey(l.sub) - ScopeKey(r.sub)))
    BY <1>1, <1>16, ValuesByKind DEF v
  <2>3. QED BY <1>1, <1>5, <1>6, <1>16, <2>1, <2>2, Unused DEF IsNumber
<1>17. QED BY <1>3, <1>8, <1>9, <1>10, <1>11, <1>12, <1>13, <1>14, <1>15, <1>16, KindsOf

GistBase       == [d \in DocsOf[0] |-> << >>]
GistStep(n, g) == [d \in DocsOf[n] |-> [i \in DOMAIN d |-> GistOf(d[i], g)]]

GistRec == INSTANCE NatRecursion WITH Base <- GistBase, Step <- GistStep

LEMMA GistUnfold ==
  /\ GistAt[0] = GistBase
  /\ \A n \in Nat : GistAt[n + 1] = GistStep(n + 1, GistAt[n])
<1>1. GistAt = GistRec!Recursive
  BY DEF GistAt, GistRec!Recursive, GistBase, GistStep
<1>2. QED BY <1>1, GistRec!Unfold

\* Two documents of as many elements have the same gist when their elements have.
LEMMA GistsAlike ==
  ASSUME NEW n \in Nat, NEW l \in DocsOf[n + 1], NEW r \in DocsOf[n + 1], DOMAIN l = DOMAIN r,
         \A i \in DOMAIN l : GistOf(l[i], GistAt[n]) = GistOf(r[i], GistAt[n])
  PROVE  GistAt[n + 1][l] = GistAt[n + 1][r]
<1>1. GistAt[n + 1] = GistStep(n + 1, GistAt[n])
  BY GistUnfold
<1>2. /\ GistStep(n + 1, GistAt[n])[l] = [i \in DOMAIN l |-> GistOf(l[i], GistAt[n])]
      /\ GistStep(n + 1, GistAt[n])[r] = [i \in DOMAIN r |-> GistOf(r[i], GistAt[n])]
  BY DEF GistStep
<1>3. QED BY <1>1, <1>2

\* The gist of a document is that of any depth that it fits in.
LEMMA GistStable ==
  ASSUME NEW n \in Nat, n < Deepest, NEW d \in DocsOf[n]
  PROVE  GistAt[n + 1][d] = GistAt[n][d]
<1> DEFINE Right(m, x) == GistAt[m + 1][x] = GistAt[m][x]
           S == {m \in Nat : m < Deepest => \A x \in DocsOf[m] : Right(m, x)}
<1>1. ASSUME NEW m \in Nat, NEW x \in DocsOf[m]
      PROVE  GistAt[m + 1][x] = [i \in DOMAIN x |-> GistOf(x[i], GistAt[m])]
  <2>1. GistAt[m + 1] = GistStep(m + 1, GistAt[m]) /\ x \in DocsOf[m + 1]
    BY GistUnfold, DocsGrowByOne
  <2>2. QED BY <2>1 DEF GistStep
<1>2. 0 \in S
  <2>1. ASSUME NEW x \in DocsOf[0]
        PROVE  Right(0, x)
    <3>1. x = << >> /\ GistAt[0][x] = << >>
      BY DocsUnfold, GistUnfold DEF GistBase
    <3>2. GistAt[0 + 1][x] = [i \in DOMAIN x |-> GistOf(x[i], GistAt[0])]
      BY <1>1
    <3>3. [i \in DOMAIN x |-> GistOf(x[i], GistAt[0])] = << >>
      BY <3>1
    <3>4. QED BY <3>1, <3>2, <3>3
  <2>2. QED BY <2>1
<1>3. ASSUME NEW m \in Nat, m \in S
      PROVE  m + 1 \in S
  <2>1. SUFFICES ASSUME m + 1 < Deepest, NEW x \in DocsOf[m + 1]
                 PROVE  Right(m + 1, x)
    OBVIOUS
  <2>2. m + 1 \in 0..Deepest /\ m + 1 - 1 = m /\ m < Deepest /\ m + 1 \in Nat
    BY <2>1, Numbers
  <2>3. \A i \in DOMAIN x : x[i].sub \in DocsOf[m]
    BY <2>1, <2>2, DocIn
  <2>4. \A i \in DOMAIN x : GistAt[m + 1][x[i].sub] = GistAt[m][x[i].sub]
    BY <1>3, <2>2, <2>3
  <2>5. \A i \in DOMAIN x : GistOf(x[i], GistAt[m + 1]) = GistOf(x[i], GistAt[m])
    BY <2>4 DEF GistOf
  <2>6. GistAt[(m + 1) + 1][x] = [i \in DOMAIN x |-> GistOf(x[i], GistAt[m + 1])]
    BY <1>1, <2>2
  <2>7. GistAt[m + 1][x] = [i \in DOMAIN x |-> GistOf(x[i], GistAt[m])]
    BY GistUnfold DEF GistStep
  <2>8. QED BY <2>5, <2>6, <2>7
<1>4. Nat \subseteq S
  <2> HIDE DEF S
  <2>1. QED BY <1>2, <1>3, DocsRec!Induction
<1>5. QED BY <1>4

\* Documents between which woCompare finds no difference have as many elements, no
\* two of which it tells apart.
LEMMA DocsEqual ==
  ASSUME NEW l \in Documents, NEW r \in Documents, NEW named \in BOOLEAN, NEW w, TurnedIn(l, r, w),
         WoCompareIn(l, r, << >>, named, w) = 0
  PROVE  /\ DOMAIN l = DOMAIN r
         /\ \A i \in DOMAIN l : CompareElementsIn(l[i], r[i], named, w) = 0
<1> DEFINE x == At(l, r, named, w)
<1>1. \A i \in Positions : Column(l, r, x)[i] = 0
  BY DocFirst DEF IsFirst, DocCol
<1>2. DOMAIN l \subseteq Positions /\ DOMAIN r \subseteq Positions
  BY DocElements DEF Positions
<1>3. DOMAIN l = DOMAIN r
  <2> HIDE DEF x
  <2>1. ASSUME NEW i \in Positions
        PROVE  i \in DOMAIN l <=> i \in DOMAIN r
    BY <1>1 DEF Column
  <2>2. QED BY <1>2, <2>1
<1>4. \A i \in DOMAIN l : x[i] = 0
  <2> HIDE DEF x
  <2>1. QED BY <1>1, <1>2, <1>3 DEF Column
<1>5. QED BY <1>3, <1>4 DEF At

\* Nested documents that compare equal have the same gist, at every depth.
LEMMA NestedAlike ==
  ASSUME NEW n \in 0..Deepest, NEW l \in DocsOf[n], NEW r \in DocsOf[n], CompareAt[n][l][r] = 0
  PROVE  GistAt[n][l] = GistAt[n][r]
<1> DEFINE Right(m, x, y) == CompareAt[m][x][y] = 0 => GistAt[m][x] = GistAt[m][y]
           S == {m \in Nat : m <= Deepest => \A x, y \in DocsOf[m] : Right(m, x, y)}
<1>1. 0 \in S
  BY GistUnfold DEF GistBase
<1>2. ASSUME NEW m \in Nat, m \in S
      PROVE  m + 1 \in S
  <2>1. SUFFICES ASSUME m + 1 <= Deepest, NEW x \in DocsOf[m + 1], NEW y \in DocsOf[m + 1],
                        CompareAt[m + 1][x][y] = 0
                 PROVE  GistAt[m + 1][x] = GistAt[m + 1][y]
    OBVIOUS
  <2>2. m + 1 \in 0..Deepest /\ m + 1 - 1 = m /\ m <= Deepest /\ m \in 0..Deepest
    BY <2>1, Numbers
  <2>3. /\ x \in Documents /\ y \in Documents
        /\ \A i \in DOMAIN x : x[i].sub \in DocsOf[m] /\ x[i] \in Elems
        /\ \A i \in DOMAIN y : y[i].sub \in DocsOf[m] /\ y[i] \in Elems
    BY <2>1, <2>2, DocIn
  <2> DEFINE w == CompareAt[m]
  <2>4. TurnedIn(x, y, w)
    BY <2>2, <2>3, NestedTurned DEF TurnedIn
  <2>5. WoCompareIn(x, y, << >>, TRUE, w) = 0
    <3>1. CompareAt[m + 1] = CompareStep(m + 1, w)
      BY CompareUnfold
    <3>2. CompareStep(m + 1, w)[x][y] = WoCompareIn(x, y, << >>, TRUE, w)
      BY DEF CompareStep
    <3>3. QED BY <2>1, <3>1, <3>2
  <2>6. DOMAIN x = DOMAIN y /\ \A i \in DOMAIN x : CompareElementsIn(x[i], y[i], TRUE, w) = 0
    BY <2>3, <2>4, <2>5, DocsEqual
  <2>7. ASSUME NEW i \in DOMAIN x
        PROVE  GistOf(x[i], GistAt[m]) = GistOf(y[i], GistAt[m])
    <3>1. w[x[i].sub][y[i].sub] = 0 => GistAt[m][x[i].sub] = GistAt[m][y[i].sub]
      BY <1>2, <2>2, <2>3, <2>6
    <3>2. w[x[i].sub][y[i].sub] \in Signs /\ w[y[i].sub][x[i].sub] = -w[x[i].sub][y[i].sub]
      BY <2>4, <2>6 DEF TurnedIn
    <3>3. x[i] \in Elems /\ y[i] \in Elems /\ CompareElementsIn(x[i], y[i], TRUE, w) = 0
      BY <2>3, <2>6
    <3> HIDE DEF w
    <3>4. QED BY <3>1, <3>2, <3>3, ElementsAlike
  <2>8. QED BY <2>6, <2>7, GistsAlike
<1>3. Nat \subseteq S
  <2> HIDE DEF S
  <2>1. QED BY <1>1, <1>2, DocsRec!Induction
<1>4. n \in Nat /\ n <= Deepest
  BY Numbers
<1>5. QED BY <1>3, <1>4

\* operator== takes only documents for equal that have the same fields in the same
\* order with the same values, up to what GistOf leaves open.
THEOREM EqualDocumentsAlike == DocTypeOK => EqualIsAlike
<1> SUFFICES ASSUME one \in Documents, two \in Documents, Equal(one, two)
             PROVE  GistAt[Deepest][one] = GistAt[Deepest][two]
  BY DEF DocTypeOK, EqualIsAlike
<1> DEFINE w == CompareAt[Deepest]
<1>1. DOMAIN one = DOMAIN two /\ \A i \in DOMAIN one : CompareElementsIn(one[i], two[i], TRUE, w) = 0
  BY DocElements DEF Equal, CompareElements
<1>2. TurnedIn(one, two, w)
  BY AllTurned
<1>3. CASE Deepest = 0
  BY <1>3, GistUnfold DEF GistBase, Documents
<1>4. CASE Deepest # 0
  <2> DEFINE n == Deepest - 1
  <2>1. n \in Nat /\ n + 1 = Deepest /\ n < Deepest /\ Deepest \in 0..Deepest /\ Deepest > 0
    BY <1>4, Numbers
  <2>2. /\ \A i \in DOMAIN one : one[i].sub \in DocsOf[n] /\ one[i].sub \in Documents /\ one[i] \in Elems
        /\ \A i \in DOMAIN two : two[i].sub \in DocsOf[n] /\ two[i].sub \in Documents /\ two[i] \in Elems
    BY <2>1, DocIn, DocElements DEF Documents
  <2>3. \A d \in DocsOf[n] : GistAt[Deepest][d] = GistAt[n][d]
    BY <2>1, GistStable
  <2>4. \A x, y \in Documents : w[x][y] = 0 => GistAt[Deepest][x] = GistAt[Deepest][y]
    BY <2>1, NestedAlike DEF Documents
  <2> HIDE DEF w, n
  <2>5. ASSUME NEW i \in DOMAIN one
        PROVE  GistOf(one[i], GistAt[n]) = GistOf(two[i], GistAt[n])
    <3>1. w[one[i].sub][two[i].sub] = 0 => GistAt[n][one[i].sub] = GistAt[n][two[i].sub]
      BY <1>1, <2>2, <2>3, <2>4
    <3>2. w[one[i].sub][two[i].sub] \in Signs /\ w[two[i].sub][one[i].sub] = -w[one[i].sub][two[i].sub]
      BY <1>1, <1>2 DEF TurnedIn
    <3>3. one[i] \in Elems /\ two[i] \in Elems /\ CompareElementsIn(one[i], two[i], TRUE, w) = 0
      BY <1>1, <2>2
    <3>4. QED BY <3>1, <3>2, <3>3, ElementsAlike
  <2>6. one \in DocsOf[n + 1] /\ two \in DocsOf[n + 1]
    BY <2>1 DEF Documents
  <2>7. GistAt[n + 1][one] = GistAt[n + 1][two]
    BY <1>1, <2>1, <2>5, <2>6, GistsAlike
  <2>8. QED BY <2>1, <2>7
<1>5. QED BY <1>3, <1>4

-----------------------------------------------------------------------------
(***************************************************************************)
(* The bounds of a type                                                    *)
(***************************************************************************)
LEMMA EmptyIn == << >> \in Documents /\ Blank \in Words
<1>1. << >> \in DocsOf[0] /\ DocsOf[0] \subseteq DocsOf[Deepest]
  <2>1. Deepest \in Nat /\ 0 \in Nat /\ 0 <= Deepest
    BY Numbers
  <2>2. DocsOf[0] \subseteq DocsOf[Deepest]
    BY <2>1, DocsGrow
  <2>3. QED BY <2>2, DocsUnfold
<1>2. 1 \in DOMAIN Strings
  BY StringsOnce
<1>3. Blank \in Words
  BY <1>2, StringsOnce DEF Words, ToSet
<1>4. QED BY <1>1, <1>3 DEF Documents

LEMMA MadeElem ==
  ASSUME NEW type \in Types \ {"EOO"}, NEW name \in Seq(Words), NEW num \in Int, NEW str \in Words,
         ValueOK(Element(type, name, num, str, Blank, << >>))
  PROVE  Element(type, name, num, str, Blank, << >>) \in Elems
<1>1. Blank \in Words /\ << >> \in Documents
  BY EmptyIn
<1>2. QED BY <1>1 DEF Elems, ElementsOver, Element

LEMMA PlainElem ==
  ASSUME NEW type \in Types \ {"EOO"}, NEW name \in Seq(Words)
  PROVE  /\ Plain(type, name) \in Elems
         /\ Plain(type, name).type = type /\ Plain(type, name).name = name
         /\ Plain(type, name).num = 0 /\ Plain(type, name).str = Blank
         /\ Plain(type, name).opt = Blank /\ Plain(type, name).sub = << >>
<1> DEFINE e == Element(type, name, 0, Blank, Blank, << >>)
<1>1. /\ e.type = type /\ e.name = name /\ e.num = 0 /\ e.str = Blank /\ e.opt = Blank /\ e.sub = << >>
  BY DEF Element
<1>2. Finite(0) /\ AsDouble(e) = 0
  BY <1>1, Numbers DEF Finite, AsDouble
<1> HIDE DEF e
<1>3. ValueOK(e)
  BY <1>1, <1>2, Numbers DEF ValueOK
<1> USE DEF e
<1>4. e \in Elems
  BY <1>3, EmptyIn, MadeElem
<1>5. QED BY <1>1, <1>4 DEF Plain

\* A number that bounds those of its type.
LEMMA NumberElem ==
  ASSUME NEW type \in {"NumberDouble", "Bool", "Date", "BinData", "Timestamp"}, NEW name \in Seq(Words),
         NEW num \in Int,
         type = "Bool" => num \in {0, 1},
         type \in {"Date", "Timestamp"} => num \in 0..Huge,
         type = "BinData" => num >= 0
  PROVE  /\ Number(type, name, num) \in Elems
         /\ Number(type, name, num).type = type /\ Number(type, name, num).name = name
         /\ Number(type, name, num).num = num /\ Number(type, name, num).str = Blank
<1> DEFINE e == Element(type, name, num, Blank, Blank, << >>)
<1>1. /\ e.type = type /\ e.name = name /\ e.num = num /\ e.str = Blank /\ e.opt = Blank /\ e.sub = << >>
  BY DEF Element
<1> HIDE DEF e
<1>2. ValueOK(e)
  BY <1>1 DEF ValueOK, IsNumber
<1> USE DEF e
<1>3. type \in Types \ {"EOO"}
  BY DEF Types, Canonical
<1>4. e \in Elems
  BY <1>2, <1>3, EmptyIn, MadeElem
<1>5. QED BY <1>1, <1>4 DEF Number

LEMMA TextElem ==
  ASSUME NEW type \in {"jstOID", "CodeWScope"}, NEW name \in Seq(Words), NEW str \in Words
  PROVE  /\ Text(type, name, str) \in Elems
         /\ Text(type, name, str).type = type /\ Text(type, name, str).name = name
         /\ Text(type, name, str).str = str /\ Text(type, name, str).sub = << >>
<1> DEFINE e == Element(type, name, 0, str, Blank, << >>)
<1>1. /\ e.type = type /\ e.name = name /\ e.num = 0 /\ e.str = str /\ e.opt = Blank /\ e.sub = << >>
  BY DEF Element
<1> HIDE DEF e
<1>2. ValueOK(e)
  BY <1>1 DEF ValueOK
<1> USE DEF e
<1>3. type \in Types \ {"EOO"}
  BY DEF Types, Canonical
<1>4. e \in Elems
  BY <1>2, <1>3, MadeElem
<1>5. QED BY <1>1, <1>4 DEF Text

\* One element is not after another of its name, if its type is not, or its value
\* among those of types that are taken together.
LEMMA NotAfter ==
  ASSUME NEW l \in Elems, NEW r \in Elems, l.name = r.name,
         \/ Canonical[l.type] < Canonical[r.type]
         \/ /\ Canonical[l.type] = Canonical[r.type]
            /\ CompareElementValues(l, r, CompareAt[Deepest]) <= 0
  PROVE  CompareElements(l, r, TRUE) <= 0
<1> DEFINE x == Sign(Canonical[l.type] - Canonical[r.type])
           y == NameCmp(l.name, r.name)
           z == CompareElementValues(l, r, CompareAt[Deepest])
<1>1. CompareElements(l, r, TRUE) = Then(x, Then(y, z))
  BY ElementsAre DEF CompareElements
<1>2. y = 0
  BY ElemFields, NameCmpOrder
<1>3. (x = 0 <=> Canonical[l.type] = Canonical[r.type]) /\ (x <= 0 <=> Canonical[l.type] <= Canonical[r.type])
  BY ElementsAre, DifferenceOrder
<1>4. Canonical[l.type] \in Int /\ Canonical[r.type] \in Int
  BY ElementsAre
<1>5. (x <= 0 /\ x # 0) \/ (x = 0 /\ z <= 0)
  <2> HIDE DEF x
  <2>1. QED BY <1>3, <1>4
<1> HIDE DEF x, y, z
<1>6. QED BY <1>1, <1>2, <1>5 DEF Then

LEMMA ThenNotAfter == \A x, y \in Int : x <= 0 /\ y <= 0 => Then(x, y) <= 0 /\ Then(x, y) \in Int
  BY DEF Then

\* The bound of code with a scope is the empty scope.
LEMMA LeastScope ==
  ASSUME NEW d \in Documents, ObjSize(d) % Radix >= 5
  PROVE  << >> \in Documents /\ ScopeKey(<< >>) <= ScopeKey(d)
<1>1. << >> \in Documents /\ ScopeKey(<< >>) \in Int /\ ScopeKey(d) \in Int
  BY EmptyIn, ScopeKeys
<1>2. ScopeKey(<< >>) = ((5 * Radix + 0) * Radix + 0) * Radix + 0
  BY <1>1, ScopeKeyIs
<1>3. ObjSize(d) % Radix \in Nat
  BY EmptyDoc, RadixFacts
<1>4. ScopeKey(d) >= ((5 * Radix + 0) * Radix + 0) * Radix + 0
  <2>1. PICK a, b, c \in Nat :
          ScopeKey(d) = (((ObjSize(d) % Radix) * Radix + a) * Radix + b) * Radix + c
    BY ScopeKeyIs
  <2> DEFINE low == ObjSize(d) % Radix
  <2>2. low \in Nat /\ low >= 5 /\ ScopeKey(d) = ((low * Radix + a) * Radix + b) * Radix + c
    BY <1>3, <2>1
  <2> HIDE DEF low
  <2>3. ((low * Radix + a) * Radix + b) * Radix + c >= ((5 * Radix + 0) * Radix + 0) * Radix + 0
    BY <2>2, Digits
  <2>4. QED BY <2>2, <2>3
<1>5. QED BY <1>1, <1>2, <1>4

\* The least of each string, and of each document, is the empty one.
LEMMA NestedEmptyFirst ==
  ASSUME NEW d \in Documents
  PROVE  CompareAt[Deepest][<< >>][d] <= 0
<1>1. << >> \in Documents /\ Deepest \in Nat
  BY EmptyIn, Numbers
<1>2. CASE Deepest = 0
  <2>1. CompareAt[0][<< >>][d] = 0
    BY <1>1, <1>2, CompareUnfold DEF CompareBase, Documents
  <2>2. QED BY <1>2, <2>1
<1>3. CASE Deepest # 0
  <2>1. Deepest - 1 \in Nat /\ Deepest - 1 + 1 = Deepest
    BY <1>1, <1>3
  <2>2. CompareAt[Deepest] = CompareStep(Deepest, CompareAt[Deepest - 1])
    BY <2>1, CompareUnfold
  <2>3. CompareAt[Deepest][<< >>][d] = WoCompareIn(<< >>, d, << >>, TRUE, CompareAt[Deepest - 1])
    <3>1. << >> \in DocsOf[Deepest] /\ d \in DocsOf[Deepest]
      BY <1>1 DEF Documents
    <3>2. CompareStep(Deepest, CompareAt[Deepest - 1])[<< >>][d]
            = WoCompareIn(<< >>, d, << >>, TRUE, CompareAt[Deepest - 1])
      BY <3>1 DEF CompareStep
    <3>3. QED BY <2>2, <3>2
  <2>4. WoCompareIn(<< >>, d, << >>, TRUE, CompareAt[Deepest - 1]) = Sign(0 - Len(d))
    <3>1. IsEmpty(<< >>) /\ Len(<< >>) = 0
      BY <1>1, EmptyDoc
    <3>2. QED BY <3>1 DEF WoCompareIn
  <2>5. Len(d) \in Nat
    BY DocElements
  <2>6. Sign(0 - Len(d)) <= 0
    BY <2>5 DEF Sign
  <2>7. QED BY <2>3, <2>4, <2>6
<1>4. QED BY <1>2, <1>3

LEMMA LastString ==
  ASSUME NEW s \in Words
  PROVE  Last(Strings) \in Words /\ StrCmp(s, Last(Strings)) <= 0
<1> DEFINE n == Len(Strings)
<1>1. n \in DOMAIN Strings /\ Last(Strings) = Strings[n] /\ DOMAIN Strings = 1..n /\ n \in Nat
  BY StringsOnce DEF Last
<1>2. Last(Strings) \in Words
  BY <1>1 DEF Words, ToSet
<1>3. Place(Last(Strings)) = n
  BY <1>1, <1>2, PlaceOf, StringsOnce
<1>4. StrCmp(s, Last(Strings)) = Sign(Place(s) - n)
  BY <1>3 DEF StrCmp, Place
<1>5. Place(s) \in 1..n
  BY <1>1, PlaceOf
<1> HIDE DEF n
<1>6. Sign(Place(s) - n) <= 0
  BY <1>1, <1>5 DEF Sign
<1>7. QED BY <1>2, <1>4, <1>6

LEMMA FiniteNumber ==
  ASSUME NEW e \in Elems, e.type \in Numerics, ~Unbounded(e)
  PROVE  Rank(AsDouble(e)) = AsDouble(e) /\ -Huge <= AsDouble(e) /\ AsDouble(e) <= Huge /\ AsDouble(e) \in Int
<1>1. Finite(e.num) /\ AsDouble(e) \in Int
  BY NumberFields DEF Unbounded, IsNumber, Numerics
<1>2. Finite(AsDouble(e))
  <2>1. CASE e.type = "NumberDouble"
    BY <1>1, <2>1 DEF AsDouble
  <2>2. CASE e.type \in {"NumberLong", "NumberInt"}
    BY <2>2, ElemFields DEF ValueOK
  <2>3. QED BY <2>1, <2>2 DEF Numerics
<1>3. QED BY <1>1, <1>2 DEF Rank, Finite

LEMMA HugeBounds == Rank(Huge) = Huge /\ Rank(-Huge) = -Huge /\ Huge \in Int /\ -Huge \in Int
  BY Numbers DEF Rank, Finite

\* What appendMinForType appends first is not after an element of the type.
LEMMA MinBounds ==
  ASSUME NEW e \in Elems, ~Unbounded(e)
  PROVE  CompareElements(Head(MinForType(e.type, e.name)), e, TRUE) <= 0
<1> DEFINE m == Head(MinForType(e.type, e.name))
           w == CompareAt[Deepest]
           v == CompareElementValues(m, e, w)
<1>1. /\ e.type \in Types \ {"EOO"} /\ e.name \in Seq(Words) /\ e.num \in Int /\ e.str \in Words
      /\ e.opt \in Words /\ e.sub \in Documents /\ ValueOK(e)
  BY ElemFields
<1>2. /\ StrCmp(Blank, e.str) <= 0 /\ StrCmp(Blank, e.opt) <= 0
      /\ StrCmp(Blank, e.str) \in Int /\ StrCmp(Blank, e.opt) \in Int /\ Blank \in Words
  BY <1>1, EmptyIn, EmptyFirst, StrCmpOrder DEF Signs
<1>3. \A x \in Int : Sign(x) \in Int /\ (x <= 0 => Sign(x) <= 0)
  BY DEF Sign
<1> HIDE DEF m, w, v
<1>4. SUFFICES /\ m \in Elems /\ m.name = e.name
               /\ \/ Canonical[m.type] < Canonical[e.type]
                  \/ Canonical[m.type] = Canonical[e.type] /\ v <= 0
  BY NotAfter DEF m, w, v
<1>5. CASE e.type \in {"MinKey", "MaxKey"}
  <2>1. m = Plain("MinKey", e.name)
    BY <1>5 DEF m, MinForType
  <2>2. "MinKey" \in Types \ {"EOO"} /\ Canonical["MinKey"] < Canonical["MaxKey"]
    BY DEF Types, Canonical
  <2>3. m \in Elems /\ m.name = e.name /\ m.type = "MinKey"
    BY <1>1, <2>1, <2>2, PlainElem
  <2>4. e.type = "MinKey" => v = 0
    BY <2>3, ValuesByKind DEF v, Nulls
  <2>5. QED BY <1>5, <2>2, <2>3, <2>4
<1>6. CASE e.type \in Numerics
  <2>1. m = Number("NumberDouble", e.name, -Huge)
    BY <1>6 DEF m, MinForType, Numerics
  <2>2. m \in Elems /\ m.name = e.name /\ m.type = "NumberDouble" /\ m.num = -Huge
    BY <1>1, <2>1, HugeBounds, NumberElem
  <2>3. Canonical["NumberDouble"] = Canonical[e.type]
    BY <1>6 DEF Numerics, Canonical
  <2>4. v = Sign(Rank(AsDouble(m)) - Rank(AsDouble(e)))
    BY <2>2, <2>3, ValuesByKind DEF v, Numerics
  <2>5. Rank(AsDouble(m)) = -Huge
    BY <2>2, HugeBounds DEF AsDouble
  <2>6. v <= 0
    <3>1. Rank(AsDouble(m)) - Rank(AsDouble(e)) \in Int /\ Rank(AsDouble(m)) - Rank(AsDouble(e)) <= 0
      BY <1>6, <2>5, FiniteNumber, HugeBounds
    <3>2. QED BY <1>3, <2>4, <3>1
  <2>7. QED BY <2>2, <2>3, <2>6
<1>7. CASE e.type \in {"Symbol", "String"}
  <2>1. m = Plain("String", e.name)
    BY <1>7 DEF m, MinForType
  <2>2. "String" \in Types \ {"EOO"} /\ Canonical["String"] = Canonical[e.type]
    BY <1>7 DEF Types, Canonical
  <2>3. m \in Elems /\ m.name = e.name /\ m.type = "String" /\ m.str = Blank
    BY <1>1, <2>1, <2>2, PlainElem
  <2>4. v = StrCmp(Blank, e.str)
    BY <2>2, <2>3, ValuesByKind DEF v
  <2>5. QED BY <1>2, <2>2, <2>3, <2>4
<1>8. CASE e.type = "BinData"
  <2>1. m = Number("BinData", e.name, 1)
    BY <1>8 DEF m, MinForType
  <2>2. m \in Elems /\ m.name = e.name /\ m.type = "BinData" /\ m.num = 1 /\ m.str = Blank
    BY <1>1, <2>1, NumberElem
  <2>3. v = Then(Sign(StrSize(Blank) - StrSize(e.str)), Then(Sign(1 - e.num), StrCmp(Blank, e.str)))
    BY <1>8, <2>2, ValuesByKind DEF v
  <2>4. StrSize(Blank) = 1 /\ StrSize(e.str) \in Nat /\ StrSize(e.str) >= 1
        /\ (StrSize(e.str) = 1 => e.str = Blank)
    BY <1>1, <1>2, Lengths DEF StrSize
  <2>5. e.num >= 0
    BY <1>1, <1>8 DEF ValueOK
  <2>6. CASE StrSize(e.str) = 1
    <3>1. e.num # 0
      BY <1>8, <2>4, <2>6 DEF Unbounded
    <3>2. Sign(1 - e.num) <= 0 /\ Sign(1 - e.num) \in Int
      <4>1. 1 - e.num \in Int /\ 1 - e.num <= 0
        BY <1>1, <2>5, <3>1
      <4>2. QED BY <1>3, <4>1
    <3>3. Sign(StrSize(Blank) - StrSize(e.str)) <= 0 /\ Sign(StrSize(Blank) - StrSize(e.str)) \in Int
      <4>1. StrSize(Blank) - StrSize(e.str) \in Int /\ StrSize(Blank) - StrSize(e.str) <= 0
        BY <2>4
      <4>2. QED BY <1>3, <4>1
    <3>4. v <= 0
      BY <1>2, <2>3, <3>2, <3>3, ThenNotAfter
    <3>5. QED BY <1>8, <2>2, <3>4
  <2>7. CASE StrSize(e.str) > 1
    <3>1. Sign(StrSize(Blank) - StrSize(e.str)) = -1
      BY <2>4, <2>7 DEF Sign
    <3>2. v = -1
      BY <2>3, <3>1 DEF Then
    <3>3. QED BY <1>8, <2>2, <3>2
  <2>8. QED BY <2>4, <2>6, <2>7
<1>9. CASE e.type \notin {"MinKey", "MaxKey", "BinData", "Symbol", "String"} \cup Numerics
  <2>1. m = Plain(e.type, e.name)
    BY <1>9 DEF m, MinForType, Numerics
  <2>2. /\ m \in Elems /\ m.name = e.name /\ m.type = e.type
        /\ m.num = 0 /\ m.str = Blank /\ m.opt = Blank /\ m.sub = << >>
    BY <1>1, <2>1, PlainElem
  <2>3. SUFFICES v <= 0
    BY <2>2
  <2>4. CASE e.type \in Nulls
    BY <2>2, <2>4, ValuesByKind DEF v
  <2>5. CASE e.type \in {"Bool"} \cup Times
    <3>1. v = Sign(0 - e.num)
      BY <2>2, <2>5, ValuesByKind DEF v
    <3>2. e.num >= 0
      BY <1>1, <2>5, Numbers DEF ValueOK, Times
    <3>3. 0 - e.num \in Int /\ 0 - e.num <= 0
      BY <1>1, <3>2
    <3>4. QED BY <1>3, <3>1, <3>3
  <2>6. CASE e.type \in {"jstOID", "Code", "Symbol", "String"}
    BY <1>2, <2>2, <2>6, ValuesByKind DEF v
  <2>7. CASE e.type \in {"Object", "Array"}
    <3>1. v = w[<< >>][e.sub]
      BY <2>2, <2>7, ValuesByKind DEF v
    <3>2. QED BY <1>1, <3>1, NestedEmptyFirst DEF w
  <2>8. CASE e.type = "DBRef"
    <3>1. v = Then(Sign(ValueSize(m) - ValueSize(e)), Then(StrCmp(Blank, e.str), StrCmp(Blank, e.opt)))
      BY <2>2, <2>8, ValuesByKind DEF v
    <3>2. StrSize(Blank) \in Int /\ StrSize(e.str) \in Int /\ StrSize(Blank) <= StrSize(e.str)
      BY <1>1, <1>2, Lengths DEF StrSize
    <3>3. ValueSize(m) \in Int /\ ValueSize(e) \in Int /\ ValueSize(m) <= ValueSize(e)
      BY <2>2, <2>8, <3>2 DEF ValueSize, ValueSizeIn
    <3>4. Sign(ValueSize(m) - ValueSize(e)) <= 0 /\ Sign(ValueSize(m) - ValueSize(e)) \in Int
      <4>1. ValueSize(m) - ValueSize(e) \in Int /\ ValueSize(m) - ValueSize(e) <= 0
        BY <3>3
      <4>2. QED BY <1>3, <4>1
    <3>5. QED BY <1>2, <3>1, <3>4, ThenNotAfter
  <2>9. CASE e.type = "RegEx"
    <3>1. v = Then(StrCmp(Blank, e.str), StrCmp(Blank, e.opt))
      BY <2>2, <2>9, ValuesByKind DEF v
    <3>2. QED BY <1>2, <3>1, ThenNotAfter
  <2>10. CASE e.type = "CodeWScope"
    <3>1. v = Then(StrCmp(Blank, e.str), Sign(ScopeKey(<< >>) - ScopeKey(e.sub)))
      BY <2>2, <2>10, ValuesByKind DEF v
    <3>2. CASE Blank = e.str
      <4>1. ObjSize(e.sub) % Radix >= 5
        BY <2>10, <3>2, RadixFacts, EmptyDoc, <1>1 DEF Unbounded
      <4>2. ScopeKey(<< >>) - ScopeKey(e.sub) \in Int /\ ScopeKey(<< >>) - ScopeKey(e.sub) <= 0
        BY <1>1, <4>1, ScopeKeys, LeastScope
      <4>3. /\ Sign(ScopeKey(<< >>) - ScopeKey(e.sub)) <= 0
            /\ Sign(ScopeKey(<< >>) - ScopeKey(e.sub)) \in Int
        BY <1>3, <4>2
      <4>4. QED BY <1>2, <3>1, <4>3, ThenNotAfter
    <3>3. CASE Blank # e.str
      <4>1. StrCmp(Blank, e.str) # 0
        <5>1. Blank \in Words /\ e.str \in Words
          BY <1>1, EmptyIn
        <5>2. QED BY <3>3, <5>1, StrCmpOrder
      <4>2. QED BY <1>2, <3>1, <4>1 DEF Then
    <3>4. QED BY <3>2, <3>3
  <2>11. QED BY <1>1, <1>9, <2>4, <2>5, <2>6, <2>7, <2>8, <2>9, <2>10, KindsOf
<1>10. QED BY <1>5, <1>6, <1>7, <1>8, <1>9

\* The first element that appendMaxForType appends for null is the least number.
LEMMA NullBound ==
  ASSUME NEW name \in Seq(Words)
  PROVE  Head(MinForType("NumberInt", name) \o <<Number("Bool", name, 1)>>)
           = Number("NumberDouble", name, -Huge)
<1> DEFINE a == Number("NumberDouble", name, -Huge)
           b == Number("Bool", name, 1)
<1>1. MinForType("NumberInt", name) = <<a>>
  BY DEF MinForType
<1> HIDE DEF a, b
<1>2. Head(<<a>> \o <<b>>) = a
  OBVIOUS
<1> USE DEF a, b
<1>3. QED BY <1>1, <1>2

\* What appendMaxForType appends first is not before an element of the type.
LEMMA MaxBounds ==
  ASSUME NEW e \in Elems, ~Unbounded(e)
  PROVE  CompareElements(e, Head(MaxForType(e.type, e.name)), TRUE) <= 0
<1> DEFINE m == Head(MaxForType(e.type, e.name))
           w == CompareAt[Deepest]
           v == CompareElementValues(e, m, w)
<1>1. /\ e.type \in Types \ {"EOO"} /\ e.name \in Seq(Words) /\ e.num \in Int /\ e.str \in Words
      /\ ValueOK(e)
  BY ElemFields
<1>2. \A x \in Int : Sign(x) \in Int /\ (x <= 0 => Sign(x) <= 0)
  BY DEF Sign
<1> HIDE DEF m, w, v
<1>3. SUFFICES /\ m \in Elems /\ m.name = e.name
               /\ \/ Canonical[e.type] < Canonical[m.type]
                  \/ Canonical[e.type] = Canonical[m.type] /\ v <= 0
  BY NotAfter DEF m, w, v
<1>4. CASE e.type \in {"MinKey", "MaxKey"}
  <2>1. m = Plain("MaxKey", e.name)
    BY <1>4 DEF m, MaxForType
  <2>2. "MaxKey" \in Types \ {"EOO"} /\ Canonical["MinKey"] < Canonical["MaxKey"]
    BY DEF Types, Canonical
  <2>3. m \in Elems /\ m.name = e.name /\ m.type = "MaxKey"
    BY <1>1, <2>1, <2>2, PlainElem
  <2>4. e.type = "MaxKey" => v = 0
    BY <2>3, ValuesByKind DEF v, Nulls
  <2>5. QED BY <1>4, <2>2, <2>3, <2>4
<1>5. CASE e.type \in Numerics
  <2>1. m = Number("NumberDouble", e.name, Huge)
    BY <1>5 DEF m, MaxForType, Numerics
  <2>2. m \in Elems /\ m.name = e.name /\ m.type = "NumberDouble" /\ m.num = Huge
    BY <1>1, <2>1, HugeBounds, NumberElem
  <2>3. Canonical[e.type] = Canonical["NumberDouble"]
    BY <1>5 DEF Numerics, Canonical
  <2>4. v = Sign(Rank(AsDouble(e)) - Rank(AsDouble(m)))
    BY <1>5, <2>2, <2>3, ValuesByKind DEF v
  <2>5. Rank(AsDouble(m)) = Huge
    BY <2>2, HugeBounds DEF AsDouble
  <2>6. v <= 0
    <3>1. Rank(AsDouble(e)) - Rank(AsDouble(m)) \in Int /\ Rank(AsDouble(e)) - Rank(AsDouble(m)) <= 0
      BY <1>5, <2>5, FiniteNumber, HugeBounds
    <3>2. QED BY <1>2, <2>4, <3>1
  <2>7. QED BY <2>2, <2>3, <2>6
<1>6. CASE e.type = "BinData"
  <2>1. m = Plain("jstOID", e.name)
    BY <1>6 DEF m, MaxForType, MinForType
  <2>2. "jstOID" \in Types \ {"EOO"} /\ Canonical["BinData"] < Canonical["jstOID"]
    BY DEF Types, Canonical
  <2>3. QED BY <1>1, <1>6, <2>1, <2>2, PlainElem
<1>7. CASE e.type = "jstOID"
  <2>1. m = Text("jstOID", e.name, Last(Strings))
    BY <1>7 DEF m, MaxForType
  <2>2. m \in Elems /\ m.name = e.name /\ m.type = "jstOID" /\ m.str = Last(Strings)
    BY <1>1, <2>1, LastString, TextElem
  <2>3. v = StrCmp(e.str, Last(Strings))
    BY <1>7, <2>2, ValuesByKind DEF v
  <2>4. QED BY <1>1, <1>7, <2>2, <2>3, LastString
<1>8. CASE e.type \in {"Undefined", "jstNULL"}
  <2>1. m = Number("NumberDouble", e.name, -Huge)
    <3>1. MaxForType(e.type, e.name) = MinForType("NumberInt", e.name) \o <<Number("Bool", e.name, 1)>>
      BY <1>8 DEF MaxForType
    <3>2. QED BY <1>1, <3>1, NullBound DEF m
  <2>2. m \in Elems /\ m.name = e.name /\ m.type = "NumberDouble"
    BY <1>1, <2>1, HugeBounds, NumberElem
  <2>3. Canonical[e.type] < Canonical["NumberDouble"]
    BY <1>8 DEF Canonical
  <2>4. QED BY <2>2, <2>3
<1>9. CASE e.type = "Bool"
  <2>1. m = Number("Bool", e.name, 1)
    BY <1>9 DEF m, MaxForType
  <2>2. m \in Elems /\ m.name = e.name /\ m.type = "Bool" /\ m.num = 1
    BY <1>1, <2>1, NumberElem
  <2>3. v = Sign(e.num - 1)
    BY <1>9, <2>2, ValuesByKind DEF v
  <2>4. e.num - 1 \in Int /\ e.num - 1 <= 0
    BY <1>1, <1>9 DEF ValueOK
  <2>5. QED BY <1>2, <1>9, <2>2, <2>3, <2>4
<1>10. CASE e.type \in Times
  <2>1. m = Number(e.type, e.name, Huge)
    BY <1>10 DEF m, MaxForType, Times
  <2>2. m \in Elems /\ m.name = e.name /\ m.type = e.type /\ m.num = Huge
    BY <1>1, <1>10, <2>1, Numbers, NumberElem DEF Times
  <2>3. v = Sign(e.num - Huge)
    BY <1>10, <2>2, ValuesByKind DEF v
  <2>4. e.num - Huge \in Int /\ e.num - Huge <= 0
    BY <1>1, <1>10, Numbers DEF ValueOK, Times
  <2>5. QED BY <1>2, <2>2, <2>3, <2>4
<1>11. CASE e.type \in {"Symbol", "String"}
  <2>1. m = Plain("Object", e.name)
    BY <1>11 DEF m, MaxForType
  <2>2. "Object" \in Types \ {"EOO"} /\ Canonical[e.type] < Canonical["Object"]
    BY <1>11 DEF Types, Canonical
  <2>3. QED BY <1>1, <2>1, <2>2, PlainElem
<1>12. CASE e.type \in {"Code", "CodeWScope"}
  <2>1. m = Text("CodeWScope", e.name, "ZZZ") /\ "ZZZ" \in Words
    BY <1>12, OrderAssumption DEF m, MaxForType
  <2>2. m \in Elems /\ m.name = e.name /\ m.type = "CodeWScope" /\ m.str = "ZZZ"
    BY <1>1, <2>1, TextElem
  <2>3. CASE e.type = "Code"
    <3>1. Canonical["Code"] < Canonical["CodeWScope"]
      BY DEF Canonical
    <3>2. QED BY <2>2, <2>3, <3>1
  <2>4. CASE e.type = "CodeWScope"
    <3>1. StrCmp(e.str, "ZZZ") \in Signs /\ ~(StrCmp(e.str, "ZZZ") >= 0)
      BY <1>1, <2>1, <2>4, StrCmpOrder DEF Unbounded
    <3>2. v = Then(StrCmp(e.str, "ZZZ"), Sign(ScopeKey(e.sub) - ScopeKey(m.sub)))
      BY <2>2, <2>4, ValuesByKind DEF v
    <3>3. v <= 0
      BY <3>1, <3>2 DEF Then, Signs
    <3>4. QED BY <2>2, <2>4, <3>3
  <2>5. QED BY <1>12, <2>3, <2>4
<1>13. CASE e.type = "Object"
  <2>1. m = Plain("Array", e.name)
    BY <1>13 DEF m, MaxForType, MinForType
  <2>2. "Array" \in Types \ {"EOO"} /\ Canonical["Object"] < Canonical["Array"]
    BY DEF Types, Canonical
  <2>3. QED BY <1>1, <1>13, <2>1, <2>2, PlainElem
<1>14. CASE e.type = "Array"
  <2>1. m = Number("BinData", e.name, 1)
    BY <1>14 DEF m, MaxForType, MinForType
  <2>2. Canonical["Array"] < Canonical["BinData"]
    BY DEF Canonical
  <2>3. QED BY <1>1, <1>14, <2>1, <2>2, NumberElem
<1>15. CASE e.type = "RegEx"
  <2>1. m = Plain("DBRef", e.name)
    BY <1>15 DEF m, MaxForType, MinForType
  <2>2. "DBRef" \in Types \ {"EOO"} /\ Canonical["RegEx"] < Canonical["DBRef"]
    BY DEF Types, Canonical
  <2>3. QED BY <1>1, <1>15, <2>1, <2>2, PlainElem
<1>16. CASE e.type = "DBRef"
  <2>1. m = Plain("Code", e.name)
    BY <1>16 DEF m, MaxForType, MinForType
  <2>2. "Code" \in Types \ {"EOO"} /\ Canonical["DBRef"] < Canonical["Code"]
    BY DEF Types, Canonical
  <2>3. QED BY <1>1, <1>16, <2>1, <2>2, PlainElem
<1>17. QED BY <1>1, <1>4, <1>5, <1>6, <1>7, <1>8, <1>9, <1>10, <1>11, <1>12, <1>13, <1>14, <1>15, <1>16,
              KindsOf DEF Nulls

\* The elements that appendMinForType and appendMaxForType append first bound every
\* element of the type, but those that Unbounded names.
THEOREM TypeBoundsEnclose == DocTypeOK => BoundsEnclose
<1> SUFFICES ASSUME one \in Documents, NEW e \in ToSet(one), ~Unbounded(e)
             PROVE  /\ CompareElements(Head(MinForType(e.type, e.name)), e, TRUE) <= 0
                    /\ CompareElements(e, Head(MaxForType(e.type, e.name)), TRUE) <= 0
  BY DEF DocTypeOK, BoundsEnclose
<1>1. e \in Elems
  BY DocElements DEF ToSet
<1>2. QED BY <1>1, MinBounds, MaxBounds

-----------------------------------------------------------------------------
(***************************************************************************)
(* Sorting by a key pattern                                                *)
(***************************************************************************)
\* The key that a pattern extracts has a field for each field of the pattern.
LEMMA KeyIs ==
  ASSUME NEW doc, NEW pattern
  PROVE  ExtractFields(doc, pattern, TRUE) =
           [i \in DOMAIN pattern |->
              IF GetFieldDotted(doc, pattern[i].name) = Eoo THEN Plain("jstNULL", pattern[i].name)
              ELSE Renamed(GetFieldDotted(doc, pattern[i].name), pattern[i].name)]
  BY DEF ExtractFields

\* There is at most one first difference.
LEMMA FirstUnique ==
  ASSUME NEW c \in [Positions -> Signs], NEW u, IsFirst(u, c), NEW v, IsFirst(v, c)
  PROVE  u = v
<1>1. CASE \A i \in Positions : c[i] = 0
  BY <1>1 DEF IsFirst
<1>2. CASE ~\A i \in Positions : c[i] = 0
  <2>1. PICK i \in Positions : u = c[i] /\ u # 0 /\ \A j \in Positions : j < i => c[j] = 0
    BY <1>2 DEF IsFirst
  <2>2. PICK k \in Positions : v = c[k] /\ v # 0 /\ \A j \in Positions : j < k => c[j] = 0
    BY <1>2 DEF IsFirst
  <2>3. i = k
    BY <2>1, <2>2 DEF Positions
  <2>4. QED BY <2>1, <2>2, <2>3
<1>3. QED BY <1>1, <1>2

\* A result of 0 at the end changes nothing.
LEMMA FirstOfAppend ==
  ASSUME NEW s \in Seq(Signs)
  PROVE  FirstOf(Append(s, 0)) = FirstOf(s)
<1> DEFINE c == [i \in Positions |-> IF i \in DOMAIN s THEN s[i] ELSE 0]
           t == Append(s, 0)
<1>1. DOMAIN s = 1..Len(s) /\ Len(s) \in Nat /\ \A i \in DOMAIN s : s[i] \in Signs
  OBVIOUS
<1>2. 0 \in Signs
  BY DEF Signs
<1>3. /\ t \in Seq(Signs) /\ Len(t) = Len(s) + 1
      /\ \A i \in 1..Len(s) : t[i] = s[i]
      /\ t[Len(s) + 1] = 0
  BY <1>2, AppendProperties
<1>4. DOMAIN t = 1..(Len(s) + 1)
  BY <1>3
<1>5. c \in [Positions -> Signs]
  BY <1>1, <1>2
<1> HIDE DEF t
<1>6. /\ \A i \in Positions : c[i] = IF i \in DOMAIN s THEN s[i] ELSE 0
      /\ \A i \in Positions : c[i] = IF i \in DOMAIN t THEN t[i] ELSE 0
  BY <1>1, <1>3, <1>4 DEF Positions
<1> HIDE DEF c
<1>7. IsFirst(FirstOf(s), c) /\ IsFirst(FirstOf(t), c)
  BY <1>3, <1>5, <1>6, FirstOfIs
<1>8. QED BY <1>5, <1>7, FirstUnique DEF t

\* Elements of the same type and value.
SameValue(e, f) ==
  e.type = f.type /\ e.num = f.num /\ e.str = f.str /\ e.opt = f.opt /\ e.sub = f.sub

\* Without names, only types and values count.
LEMMA UnnamedAlike ==
  ASSUME NEW l, NEW r, NEW l1, NEW r1, NEW named \in BOOLEAN, ~named, NEW w,
         SameValue(l1, l), SameValue(r1, r)
  PROVE  CompareElementsIn(l1, r1, named, w) = CompareElementsIn(l, r, named, w)
<1>1. /\ l1.type = l.type /\ l1.num = l.num /\ l1.str = l.str /\ l1.opt = l.opt /\ l1.sub = l.sub
      /\ r1.type = r.type /\ r1.num = r.num /\ r1.str = r.str /\ r1.opt = r.opt /\ r1.sub = r.sub
  BY DEF SameValue
<1>2. AsDouble(l1) = AsDouble(l) /\ AsDouble(r1) = AsDouble(r)
  BY <1>1 DEF AsDouble
<1>3. ValueSize(l1) = ValueSize(l) /\ ValueSize(r1) = ValueSize(r)
  BY <1>1 DEF ValueSize, ValueSizeIn
<1>4. (IsNumber(l1) <=> IsNumber(l)) /\ (IsABSONObj(l1) <=> IsABSONObj(l))
  BY <1>1 DEF IsNumber, IsABSONObj
<1>5. CompareElementValues(l1, r1, w) = CompareElementValues(l, r, w)
  BY <1>1, <1>2, <1>3, <1>4 DEF CompareElementValues
<1>6. QED BY <1>1, <1>5 DEF CompareElementsIn

DottedBase       == [doc \in Documents |-> [name \in Seq(Words) |-> GetField(doc, name)]]
DottedStep(n, x) == [doc \in Documents |-> [name \in Seq(Words) |->
                       IF GetField(doc, name) # Eoo THEN GetField(doc, name)
                       ELSE x[GetObjectField(doc, <<Head(name)>>)][Tail(name)]]]

DottedRec == INSTANCE NatRecursion WITH Base <- DottedBase, Step <- DottedStep

LEMMA DottedUnfold ==
  /\ DottedAt[0] = DottedBase
  /\ \A n \in Nat : DottedAt[n + 1] = DottedStep(n + 1, DottedAt[n])
<1>1. DottedAt = DottedRec!Recursive
  BY DEF DottedAt, DottedRec!Recursive, DottedBase, DottedStep
<1>2. QED BY <1>1, DottedRec!Unfold

\* The elements of documents, which have a place in documents themselves.
Held == ElementsOver(DocsOf[Deepest - 1])

LEMMA HeldIn ==
  ASSUME Deepest > 0
  PROVE  /\ Seq(Held) = Documents /\ Held \subseteq Elems
         /\ \A d \in Documents : \A i \in DOMAIN d : d[i] \in Held
<1>1. Deepest - 1 \in Nat /\ Deepest - 1 + 1 = Deepest /\ Deepest \in Nat /\ Deepest - 1 <= Deepest
  BY Numbers
<1>2. Seq(Held) = Documents
  <2>1. DocsOf[Deepest - 1 + 1] = Seq(ElementsOver(DocsOf[Deepest - 1]))
    BY <1>1, DocsUnfold
  <2>2. QED BY <1>1, <2>1 DEF Held, Documents
<1>3. Held \subseteq Elems
  BY <1>1, DocsGrow, ElementsGrow DEF Held, Elems, Documents
<1>4. \A d \in Seq(Held) : \A i \in DOMAIN d : d[i] \in Held
  OBVIOUS
<1>5. QED BY <1>2, <1>3, <1>4

LEMMA FieldHeld ==
  ASSUME Deepest > 0, NEW d \in Documents, NEW name
  PROVE  GetField(d, name) \in Held \cup {Eoo} /\ GetObjectField(d, name) \in Documents
<1> DEFINE found == {i \in DOMAIN d : d[i].name = name}
<1>1. GetField(d, name) \in Held \cup {Eoo}
  <2>1. CASE found = {}
    BY <2>1 DEF GetField
  <2>2. CASE found # {}
    <3>1. found \subseteq Nat
      BY DocElements
    <3>2. GetField(d, name) = d[Min(found)]
      BY <2>2 DEF GetField
    <3> HIDE DEF found
    <3>3. Min(found) \in found
      BY <2>2, <3>1, MinOf
    <3>4. Min(found) \in DOMAIN d
      BY <3>3 DEF found
    <3>5. QED BY <3>2, <3>4, HeldIn
  <2>3. QED BY <2>1, <2>2
<1>2. CASE GetField(d, name) = Eoo
  <2>1. ~IsABSONObj(Eoo)
    BY DEF Eoo, Plain, Element, IsABSONObj
  <2>2. GetObjectField(d, name) = << >>
    BY <1>2, <2>1 DEF GetObjectField
  <2>3. QED BY <1>1, <2>2, EmptyIn
<1>3. CASE GetField(d, name) \in Held
  <2>1. GetField(d, name).sub \in Documents
    BY <1>3, HeldIn, ElemFields
  <2>2. QED BY <1>1, <2>1, EmptyIn DEF GetObjectField
<1>4. QED BY <1>1, <1>2, <1>3

\* What getFieldDotted finds at any depth is an element of a document.
LEMMA DottedHeld ==
  ASSUME Deepest > 0, NEW d \in Documents, NEW name \in Seq(Words)
  PROVE  GetFieldDotted(d, name) \in Held \cup {Eoo}
<1> DEFINE Right(m, x, y) == DottedAt[m][x][y] \in Held \cup {Eoo}
           S == {m \in Nat : \A x \in Documents, y \in Seq(Words) :
                   m = 0 \/ Len(y) = m + 1 => Right(m, x, y)}
<1>1. 0 \in S
  <2>1. ASSUME NEW x \in Documents, NEW y \in Seq(Words)
        PROVE  Right(0, x, y)
    <3>1. DottedAt[0][x][y] = GetField(x, y)
      BY DottedUnfold DEF DottedBase
    <3>2. QED BY <3>1, FieldHeld
  <2>2. QED BY <2>1
<1>2. ASSUME NEW m \in Nat, m \in S
      PROVE  m + 1 \in S
  <2>1. SUFFICES ASSUME NEW x \in Documents, NEW y \in Seq(Words), Len(y) = (m + 1) + 1
                 PROVE  Right(m + 1, x, y)
    OBVIOUS
  <2> DEFINE inner == GetObjectField(x, <<Head(y)>>)
  <2>2. DottedAt[m + 1][x][y] = IF GetField(x, y) # Eoo THEN GetField(x, y) ELSE DottedAt[m][inner][Tail(y)]
    <3>1. DottedAt[m + 1] = DottedStep(m + 1, DottedAt[m])
      BY DottedUnfold
    <3>2. DottedStep(m + 1, DottedAt[m])[x][y]
            = IF GetField(x, y) # Eoo THEN GetField(x, y) ELSE DottedAt[m][inner][Tail(y)]
      BY DEF DottedStep
    <3>3. QED BY <3>1, <3>2
  <2>3. inner \in Documents /\ GetField(x, y) \in Held \cup {Eoo}
    BY FieldHeld
  <2> HIDE DEF inner
  <2>4. Tail(y) \in Seq(Words) /\ Len(Tail(y)) = m + 1
    <3>1. Len(y) > 0 /\ Len(y) \in Nat
      BY <2>1
    <3>2. y # << >>
      BY <3>1
    <3>3. Tail(y) \in Seq(Words) /\ Len(Tail(y)) = Len(y) - 1
      BY <3>2, HeadTailProperties
    <3>4. QED BY <2>1, <3>3
  <2>5. DottedAt[m][inner][Tail(y)] \in Held \cup {Eoo}
    BY <1>2, <2>3, <2>4
  <2>6. QED BY <2>2, <2>3, <2>5
<1>3. Nat \subseteq S
  <2> HIDE DEF S
  <2>1. QED BY <1>1, <1>2, DocsRec!Induction
<1>4. Len(name) \in Nat
  OBVIOUS
<1>5. CASE Len(name) <= 1
  <2>1. Max({Len(name) - 1, 0}) = 0
    BY <1>4, <1>5 DEF Max
  <2>2. QED BY <1>3, <2>1 DEF GetFieldDotted
<1>6. CASE Len(name) > 1
  <2>1. Max({Len(name) - 1, 0}) = Len(name) - 1 /\ Len(name) - 1 \in Nat /\ Len(name) - 1 + 1 = Len(name)
    BY <1>4, <1>6 DEF Max
  <2>2. QED BY <1>3, <2>1 DEF GetFieldDotted
<1>7. QED BY <1>4, <1>5, <1>6

\* An element stays one under another name.
LEMMA RenamedHeld ==
  ASSUME Deepest > 0, NEW e \in Held, NEW name \in Seq(Words)
  PROVE  /\ Renamed(e, name) \in Held
         /\ SameValue(Renamed(e, name), e)
<1> DEFINE r == Renamed(e, name)
<1>1. /\ e \in [type : Types \ {"EOO"}, name : Seq(Words), num : Int, str : Words, opt : Words,
                sub : DocsOf[Deepest - 1]]
      /\ ValueOK(e)
  BY DEF Held, ElementsOver
<1>2. /\ r \in [type : Types \ {"EOO"}, name : Seq(Words), num : Int, str : Words, opt : Words,
                sub : DocsOf[Deepest - 1]]
      /\ r.type = e.type /\ r.num = e.num /\ r.str = e.str /\ r.opt = e.opt /\ r.sub = e.sub
  BY <1>1 DEF Renamed
<1> HIDE DEF r
<1>3. AsDouble(r) = AsDouble(e) /\ (IsNumber(r) <=> IsNumber(e)) /\ (IsABSONObj(r) <=> IsABSONObj(e))
  BY <1>2 DEF AsDouble, IsNumber, IsABSONObj
<1>4. ValueOK(r)
  BY <1>1, <1>2, <1>3 DEF ValueOK
<1>5. r \in Held
  BY <1>2, <1>4 DEF Held, ElementsOver
<1> USE DEF r
<1>6. QED BY <1>2, <1>5 DEF SameValue

LEMMA NullHeld ==
  ASSUME Deepest > 0, NEW name \in Seq(Words)
  PROVE  Plain("jstNULL", name) \in Held
<1> DEFINE e == Plain("jstNULL", name)
<1>1. "jstNULL" \in Types \ {"EOO"}
  BY DEF Types, Canonical
<1>2. e \in Elems /\ e.sub = << >>
  BY <1>1, PlainElem
<1>3. << >> \in DocsOf[Deepest - 1]
  <2>1. Deepest - 1 \in Nat /\ 0 <= Deepest - 1
    BY Numbers
  <2>2. DocsOf[0] \subseteq DocsOf[Deepest - 1]
    BY <2>1, DocsGrow
  <2>3. QED BY <2>2, DocsUnfold
<1> HIDE DEF e
<1>4. e \in Held
  BY <1>2, <1>3 DEF Held, Elems, ElementsOver
<1> USE DEF e
<1>5. QED BY <1>4

\* A field of the key holds what getFieldDotted finds, or null.
LEMMA KeyFields ==
  ASSUME Deepest > 0, NEW d \in Documents, NEW pattern \in Documents
  PROVE  LET key == ExtractFields(d, pattern, TRUE) IN
         /\ key \in Documents /\ DOMAIN key = DOMAIN pattern /\ Len(key) = Len(pattern)
         /\ \A i \in DOMAIN pattern :
              LET f == OrNull(GetFieldDotted(d, pattern[i].name)) IN
              f \in Elems /\ SameValue(key[i], f)
<1> DEFINE key == ExtractFields(d, pattern, TRUE)
           f(i) == OrNull(GetFieldDotted(d, pattern[i].name))
<1>1. DOMAIN pattern = 1..Len(pattern) /\ Len(pattern) \in Nat
  BY DocElements
<1>2. ASSUME NEW i \in DOMAIN pattern
      PROVE  key[i] \in Held /\ f(i) \in Held /\ SameValue(key[i], f(i))
  <2> DEFINE name == pattern[i].name
             g == GetFieldDotted(d, name)
  <2>1. name \in Seq(Words)
    BY DocElements, ElemFields
  <2>2. g \in Held \cup {Eoo}
    BY <2>1, DottedHeld
  <2>3. key[i] = IF g = Eoo THEN Plain("jstNULL", name) ELSE Renamed(g, name)
    <3>1. key = [j \in DOMAIN pattern |->
                   IF GetFieldDotted(d, pattern[j].name) = Eoo THEN Plain("jstNULL", pattern[j].name)
                   ELSE Renamed(GetFieldDotted(d, pattern[j].name), pattern[j].name)]
      BY KeyIs, Zenon
    <3> HIDE DEF key
    <3>2. QED BY <3>1
  <2>4. f(i) = IF g = Eoo THEN Plain("jstNULL", << >>) ELSE g
    BY DEF OrNull
  <2> HIDE DEF key, f, name, g
  <2>5. CASE g = Eoo
    <3>1. "jstNULL" \in Types \ {"EOO"} /\ << >> \in Seq(Words)
      BY DEF Types, Canonical
    <3>2. key[i] = Plain("jstNULL", name) /\ f(i) = Plain("jstNULL", << >>)
      BY <2>3, <2>4, <2>5
    <3>3. Plain("jstNULL", name) \in Held /\ Plain("jstNULL", << >>) \in Held
      BY <2>1, <3>1, NullHeld
    <3>4. \A n \in Seq(Words) :
            LET p == Plain("jstNULL", n) IN
            p.type = "jstNULL" /\ p.num = 0 /\ p.str = Blank /\ p.opt = Blank /\ p.sub = << >>
      BY <3>1, PlainElem
    <3>5. /\ key[i].type = "jstNULL" /\ key[i].num = 0 /\ key[i].str = Blank
          /\ key[i].opt = Blank /\ key[i].sub = << >>
      BY <2>1, <3>2, <3>4
    <3>6. /\ f(i).type = "jstNULL" /\ f(i).num = 0 /\ f(i).str = Blank
          /\ f(i).opt = Blank /\ f(i).sub = << >>
      BY <3>1, <3>2, <3>4
    <3>7. QED BY <3>2, <3>3, <3>5, <3>6 DEF SameValue
  <2>6. CASE g # Eoo
    <3>1. key[i] = Renamed(g, name) /\ f(i) = g /\ g \in Held
      BY <2>2, <2>3, <2>4, <2>6
    <3>2. QED BY <2>1, <3>1, RenamedHeld
  <2>7. QED BY <2>5, <2>6
<1>3. DOMAIN key = DOMAIN pattern /\ key = [i \in DOMAIN pattern |-> key[i]]
  <2>1. key = [j \in DOMAIN pattern |->
                 IF GetFieldDotted(d, pattern[j].name) = Eoo THEN Plain("jstNULL", pattern[j].name)
                 ELSE Renamed(GetFieldDotted(d, pattern[j].name), pattern[j].name)]
    BY KeyIs, Zenon
  <2> HIDE DEF key
  <2>2. QED BY <2>1
<1> HIDE DEF key, f
<1>4. key \in Seq(Held) /\ Len(key) = Len(pattern)
  BY <1>1, <1>2, <1>3
<1>5. key \in Documents /\ \A i \in DOMAIN pattern : f(i) \in Elems
  BY <1>2, <1>4, HeldIn
<1>6. QED BY <1>2, <1>3, <1>4, <1>5 DEF key, f

\* Two fields compare as they do in the keys.
LEMMA FieldsCompareAlike ==
  ASSUME Deepest > 0, NEW c \in Documents, NEW d \in Documents, NEW pattern \in Documents,
         NEW i \in DOMAIN pattern, NEW named \in BOOLEAN, ~named
  PROVE  LET f == OrNull(GetFieldDotted(c, pattern[i].name))
             g == OrNull(GetFieldDotted(d, pattern[i].name))
         IN  /\ CompareElementsIn(ExtractFields(c, pattern, TRUE)[i], ExtractFields(d, pattern, TRUE)[i],
                                  named, CompareAt[Deepest])
                  = CompareElementsIn(f, g, named, CompareAt[Deepest])
             /\ CompareElementsIn(ExtractFields(c, pattern, TRUE)[i], f, named, CompareAt[Deepest]) = 0
             /\ CompareElementsIn(f, g, named, CompareAt[Deepest]) \in Signs
<1> DEFINE w == CompareAt[Deepest]
           f == OrNull(GetFieldDotted(c, pattern[i].name))
           g == OrNull(GetFieldDotted(d, pattern[i].name))
           k == ExtractFields(c, pattern, TRUE)[i]
           m == ExtractFields(d, pattern, TRUE)[i]
<1>1. f \in Elems /\ g \in Elems /\ SameValue(k, f) /\ SameValue(m, g)
  BY KeyFields
<1> HIDE DEF f, g, k, m, w
<1>2. CompareElementsIn(k, m, named, w) = CompareElementsIn(f, g, named, w)
  BY <1>1, UnnamedAlike
<1>3. CompareElementsIn(k, f, named, w) = CompareElementsIn(f, f, named, w)
  <2>1. SameValue(f, f)
    BY DEF SameValue
  <2>2. QED BY <1>1, <2>1, UnnamedAlike
<1>4. \A x, y \in Elems : w[x.sub][y.sub] \in Signs /\ w[y.sub][x.sub] = -w[x.sub][y.sub]
  BY AllTurned, ElemFields DEF w
<1>5. /\ CompareElementsIn(f, g, named, w) \in Signs
      /\ CompareElementsIn(f, f, named, w) \in Signs
      /\ CompareElementsIn(f, f, named, w) = -CompareElementsIn(f, f, named, w)
  BY <1>1, <1>4, ElementsTurned
<1>6. CompareElementsIn(f, f, named, w) = 0
  <2> DEFINE z == CompareElementsIn(f, f, named, w)
  <2>1. z \in Signs /\ z = -z
    BY <1>5
  <2> HIDE DEF z
  <2>2. z = 0
    BY <2>1 DEF Signs
  <2>3. QED BY <2>2 DEF z
<1>7. QED BY <1>2, <1>3, <1>5, <1>6 DEF f, g, k, m, w

\* The result for a field, turned round where the pattern descends.
Turn(pattern, i, x) == IF Descending(pattern, i) THEN -x ELSE x

LEMMA TurnSigns ==
  ASSUME NEW pattern, NEW i, NEW x \in Signs
  PROVE  Turn(pattern, i, x) \in Signs
  BY DEF Turn, Signs

\* Sorting compares field by field.
LEMMA SortIs ==
  ASSUME NEW l \in Documents, NEW r \in Documents, l # << >>, r # << >>, NEW pattern
  PROVE  WoSortOrder(l, r, pattern, TRUE) =
           FirstOf([i \in DOMAIN pattern |->
                      Turn(pattern, i, CompareElements(OrNull(GetFieldDotted(l, pattern[i].name)),
                                                       OrNull(GetFieldDotted(r, pattern[i].name)), FALSE))])
<1>1. ~IsEmpty(l) /\ ~IsEmpty(r)
  BY EmptyDoc
<1>2. QED BY <1>1, Zenon DEF WoSortOrder, Turn

\* So does the comparison of two keys, after which their lengths count.
LEMMA KeysCompare ==
  ASSUME NEW l \in Documents, NEW r \in Documents, NEW pattern, l # << >>, Len(l) = Len(r)
  PROVE  WoCompare(l, r, pattern, FALSE) =
           FirstOf(Append([i \in 1..Len(l) |-> Turn(pattern, i, CompareElements(l[i], r[i], FALSE))], 0))
<1>1. ~IsEmpty(l) /\ ~IsEmpty(r) /\ Len(l) \in Nat /\ Len(r) \in Nat
  <2>1. Len(l) > 0 /\ Len(l) \in Nat
    BY DocElements, EmptySeq
  <2>2. r # << >>
    BY <2>1
  <2>3. QED BY <2>1, <2>2, EmptyDoc
<1>2. Min({Len(l), Len(r)}) = Len(l)
  <2>1. {Len(l), Len(r)} = {Len(l)} /\ {Len(l)} # {} /\ {Len(l)} \subseteq Nat
    BY <1>1
  <2>2. QED BY <2>1, MinOf
<1>3. Sign(Len(l) - Len(r)) = 0
  BY <1>1 DEF Sign
<1>4. WoCompare(l, r, pattern, FALSE) =
        FirstOf(Append([i \in 1..Min({Len(l), Len(r)}) |->
                          Turn(pattern, i, CompareElements(l[i], r[i], FALSE))], Sign(Len(l) - Len(r))))
  BY <1>1, Zenon DEF WoCompare, WoCompareIn, Turn, CompareElements
<1>5. QED BY <1>2, <1>3, <1>4, Zenon

\* woSortOrder sorts by the keys that extractFields makes, with null for what a
\* document lacks; getFieldUsingIndexNames finds each field in a key.
THEOREM SortingByKeys == DocTypeOK => SortIsKeyOrder
<1> SUFFICES ASSUME one \in Documents, two \in Documents, NEW pattern \in Documents
             PROVE  /\ \A p \in ToSet(pattern) :
                         CompareElements(
                           GetFieldUsingIndexNames(ExtractFields(one, pattern, TRUE), p.name, pattern),
                           OrNull(GetFieldDotted(one, p.name)), FALSE) = 0
                    /\ one # << >> /\ two # << >> =>
                         WoSortOrder(one, two, pattern, TRUE)
                           = WoCompare(ExtractFields(one, pattern, TRUE),
                                       ExtractFields(two, pattern, TRUE), pattern, FALSE)
  BY OrderAssumption DEF DocTypeOK, SortIsKeyOrder
<1> DEFINE key(d) == ExtractFields(d, pattern, TRUE)
           f(d, i) == OrNull(GetFieldDotted(d, pattern[i].name))
<1>1. CASE Deepest = 0
  <2>1. pattern = << >> /\ one = << >>
    BY <1>1, DocsUnfold DEF Documents
  <2>2. ToSet(pattern) = {}
    BY <2>1 DEF ToSet
  <2>3. QED BY <2>1, <2>2
<1>2. CASE Deepest # 0
  <2>1. Deepest > 0
    BY <1>2, Numbers
  <2>2. DOMAIN pattern = 1..Len(pattern) /\ Len(pattern) \in Nat
    BY DocElements
  <2>3. \A d \in Documents : key(d) \in Documents /\ DOMAIN key(d) = DOMAIN pattern /\ Len(key(d)) = Len(pattern)
    BY <2>1, KeyFields
  <2>4. ASSUME NEW c \in Documents, NEW d \in Documents, NEW i \in DOMAIN pattern
        PROVE  /\ CompareElements(key(c)[i], key(d)[i], FALSE) = CompareElements(f(c, i), f(d, i), FALSE)
               /\ CompareElements(key(c)[i], f(c, i), FALSE) = 0
               /\ CompareElements(f(c, i), f(d, i), FALSE) \in Signs
    BY <2>1, FieldsCompareAlike DEF CompareElements
  <2>5. ASSUME NEW p \in ToSet(pattern)
        PROVE  CompareElements(GetFieldUsingIndexNames(key(one), p.name, pattern),
                               OrNull(GetFieldDotted(one, p.name)), FALSE) = 0
    <3> DEFINE at == {i \in DOMAIN pattern : pattern[i].name = p.name}
               i == Min(at)
    <3>1. at \subseteq Nat /\ at # {}
      BY <2>2 DEF ToSet
    <3>2. GetFieldUsingIndexNames(key(one), p.name, pattern) = ElementAt(key(one), i)
      BY <3>1 DEF GetFieldUsingIndexNames
    <3> HIDE DEF at
    <3>3. i \in at
      BY <3>1, MinOf
    <3> USE DEF at
    <3> HIDE DEF i
    <3>4. i \in DOMAIN pattern /\ pattern[i].name = p.name
      BY <3>3
    <3>5. ElementAt(key(one), i) = key(one)[i]
      BY <2>3, <3>4 DEF ElementAt
    <3>6. f(one, i) = OrNull(GetFieldDotted(one, p.name))
      BY <3>4
    <3> HIDE DEF key, f
    <3>7. CompareElements(key(one)[i], f(one, i), FALSE) = 0
      BY <2>4, <3>4
    <3>8. QED BY <3>2, <3>5, <3>6, <3>7, Zenon DEF key, f
  <2>6. ASSUME one # << >>, two # << >>
        PROVE  WoSortOrder(one, two, pattern, TRUE) = WoCompare(key(one), key(two), pattern, FALSE)
    <3> DEFINE at == [i \in DOMAIN pattern |-> Turn(pattern, i, CompareElements(f(one, i), f(two, i), FALSE))]
    <3>1. WoSortOrder(one, two, pattern, TRUE) = FirstOf(at)
      BY <2>6, SortIs
    <3>2. \A i \in DOMAIN pattern : at[i] \in Signs
      BY <2>4, TurnSigns
    <3>3. at \in Seq(Signs) /\ Len(at) = Len(pattern)
      <4>1. at = [i \in 1..Len(pattern) |-> at[i]]
        BY <2>2
      <4> HIDE DEF at
      <4>2. QED BY <2>2, <3>2, <4>1
    <3>4. CASE pattern = << >>
      <4>1. FirstOf(at) = 0
        BY <3>4 DEF FirstOf
      <4>2. key(one) = << >> /\ Len(key(one)) = Len(key(two)) /\ key(one) \in Documents /\ Len(key(one)) \in Nat
        <5>1. /\ key(one) \in Documents /\ Len(key(one)) = Len(key(two)) /\ Len(key(one)) = Len(pattern)
          BY <2>3
        <5>2. Len(pattern) = 0
          BY <3>4
        <5>3. key(one) = << >>
          BY <5>1, <5>2, DocElements, EmptySeq
        <5>4. QED BY <2>2, <5>1, <5>3
      <4> HIDE DEF key
      <4>3. IsEmpty(key(one))
        BY <4>2, EmptyDoc
      <4>4. Sign(Len(key(one)) - Len(key(two))) = 0
        BY <4>2 DEF Sign
      <4>5. WoCompare(key(one), key(two), pattern, FALSE) = Sign(Len(key(one)) - Len(key(two)))
        BY <4>3, Zenon DEF WoCompare, WoCompareIn
      <4>6. QED BY <3>1, <4>1, <4>4, <4>5, Zenon
    <3>5. CASE pattern # << >>
      <4> HIDE DEF key
      <4>1. /\ key(one) \in Documents /\ key(two) \in Documents
            /\ Len(key(one)) = Len(pattern) /\ Len(key(two)) = Len(pattern)
        BY <2>3
      <4>2. key(one) # << >>
        BY <2>2, <3>5, <4>1, DocElements, EmptySeq
      <4>3. WoCompare(key(one), key(two), pattern, FALSE)
              = FirstOf(Append([i \in 1..Len(key(one)) |->
                                  Turn(pattern, i, CompareElements(key(one)[i], key(two)[i], FALSE))], 0))
        BY <4>1, <4>2, KeysCompare
      <4>4. [i \in 1..Len(key(one)) |-> Turn(pattern, i, CompareElements(key(one)[i], key(two)[i], FALSE))] = at
        BY <2>2, <2>4, <4>1
      <4>5. FirstOf(Append(at, 0)) = FirstOf(at)
        BY <3>3, FirstOfAppend
      <4>6. QED BY <3>1, <4>3, <4>4, <4>5, Zenon
    <3>6. QED BY <3>4, <3>5
  <2>7. QED BY <2>5, <2>6
<1>3. QED BY <1>1, <1>2
=============================================================================
