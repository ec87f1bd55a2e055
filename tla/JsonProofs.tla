----------------------------- MODULE JsonProofs -----------------------------
(***************************************************************************)
(* For any text and any sizes of the buffer: what the builders write stays *)
(* inside their buffer, their objects lie in each other, and nothing is    *)
(* written once the buffer is freed, whatever way a text is refused.       *)
(***************************************************************************)
EXTENDS Json, SequenceTheorems, NaturalsInduction, WellFoundedInduction, TLAPS

-----------------------------------------------------------------------------
(***************************************************************************)
(* Appends to a buffer                                                     *)
(***************************************************************************)
Buffers == [len : Nat, size : Nat, ok : BOOLEAN]

Fits(b) == b.ok => b.len <= b.size

\* From b to c at most n bytes were appended, all of them unless that failed.
Moved(b, c, n) ==
  /\ c \in Buffers /\ b.len <= c.len /\ c.len <= b.len + n
  /\ c.ok => b.ok /\ c.len = b.len + n
  /\ Fits(b) => Fits(c)
  /\ b.size <= BufferMaxSize => c.size <= BufferMaxSize

\* The constants of the buffer.
LEMMA Limits ==
  /\ InitSize \in Nat /\ Slack \in Nat /\ BufferMaxSize \in Nat
  /\ 4 <= InitSize /\ InitSize + 4 <= BufferMaxSize
  BY JsonAssumption, Zenon

LEMMA GrowMoves ==
  ASSUME NEW b \in Buffers, NEW n \in Nat
  PROVE  Moved(b, Grow(b, n), n)
<1> DEFINE l == b.len + n
           doubled == IF b.size = 0 THEN InitSize ELSE 2 * b.size
           a == IF l <= b.size THEN b.size ELSE IF l > doubled THEN l + Slack ELSE doubled
<1>1. b.len \in Nat /\ b.size \in Nat /\ b.ok \in BOOLEAN /\ l \in Nat /\ a \in Nat
  BY Limits DEF Buffers
<1>2. a <= BufferMaxSize \/ l <= b.size => l <= a
  BY <1>1, Limits
<1>3. CASE ~b.ok
  BY <1>1, <1>3 DEF Moved, Grow, Fits
<1>4. CASE b.ok /\ l > b.size /\ a > BufferMaxSize
  <2>1. Grow(b, n) = [b EXCEPT !.len = l, !.ok = FALSE]
    BY <1>1, <1>4 DEF Grow
  <2> DEFINE c == [b EXCEPT !.len = l, !.ok = FALSE]
  <2>2. c \in Buffers /\ c.len = l /\ c.size = b.size /\ ~c.ok
    BY <1>1 DEF Buffers
  <2> HIDE DEF a, c
  <2>3. c = Grow(b, n)
    BY <2>1 DEF c
  <2>4. b.len <= l
    BY <1>1
  <2> HIDE DEF l
  <2>5. c.len <= b.len + n
    BY <1>1, <2>2 DEF l
  <2>6. Moved(b, c, n)
    BY <2>2, <2>4, <2>5 DEF Moved, Fits
  <2>7. QED BY <2>3, <2>6
<1>5. CASE b.ok /\ ~(l > b.size /\ a > BufferMaxSize)
  <2>1. Grow(b, n) = [len |-> l, size |-> a, ok |-> TRUE]
    BY <1>1, <1>5 DEF Grow
  <2>2. l <= a /\ (b.size <= BufferMaxSize => a <= BufferMaxSize)
    BY <1>1, <1>2, <1>5, Limits
  <2> HIDE DEF l, a
  <2>3. QED BY <1>1, <1>5, <2>1, <2>2 DEF Moved, Fits, Buffers, l
<1>6. QED BY <1>1, <1>3, <1>4, <1>5

LEMMA MovedThen ==
  ASSUME NEW b \in Buffers, NEW c, NEW d, NEW n \in Nat, NEW m \in Nat, Moved(b, c, n), Moved(c, d, m)
  PROVE  Moved(b, d, n + m)
  BY DEF Moved, Buffers

\* After appends, one after the other.
GrowBase       == [b \in Buffers |-> [s \in Seq(Nat) |-> b]]
GrowStep(n, g) == [b \in Buffers |-> [s \in Seq(Nat) |-> Grow(g[b][s], s[n])]]

GrowRec == INSTANCE NatRecursion WITH Base <- GrowBase, Step <- GrowStep

LEMMA GrownUpTo ==
  ASSUME NEW b \in Buffers, NEW s \in Seq(Nat)
  PROVE  \E f : /\ Grown(b, s) = f[Len(s)]
                /\ f[0] = b
                /\ \A n \in Nat : f[n + 1] = Grow(f[n], s[n + 1])
<1> DEFINE g == [n \in Nat |-> GrowRec!Recursive[n][b][s]]
           f == CHOOSE u : u = [i \in Nat |-> IF i = 0 THEN b ELSE Grow(u[i - 1], s[i])]
<1>1. Grown(b, s) = f[Len(s)]
  BY DEF Grown
<1>2. ASSUME NEW i \in Nat
      PROVE  g[i] = IF i = 0 THEN b ELSE Grow(g[i - 1], s[i])
  <2>1. CASE i = 0
    BY <2>1, GrowRec!Unfold DEF GrowBase
  <2>2. CASE i # 0
    <3>1. i - 1 \in Nat /\ i - 1 + 1 = i
      BY <2>2
    <3>2. GrowRec!Recursive[i] = GrowStep(i, GrowRec!Recursive[i - 1])
      BY <3>1, GrowRec!Unfold
    <3>3. GrowRec!Recursive[i][b][s] = Grow(GrowRec!Recursive[i - 1][b][s], s[i])
      BY <3>2 DEF GrowStep
    <3>4. QED BY <2>2, <3>1, <3>3
  <2>3. QED BY <2>1, <2>2
<1>3. g = [i \in Nat |-> IF i = 0 THEN b ELSE Grow(g[i - 1], s[i])]
  <2>1. g = [i \in Nat |-> g[i]]
    OBVIOUS
  <2> HIDE DEF g
  <2>2. QED BY <1>2, <2>1
<1> HIDE DEF g
<1>4. f = [i \in Nat |-> IF i = 0 THEN b ELSE Grow(f[i - 1], s[i])]
  BY <1>3
<1> HIDE DEF f
<1>5. f[0] = b
  BY <1>4
<1>6. ASSUME NEW n \in Nat
      PROVE  f[n + 1] = Grow(f[n], s[n + 1])
  <2>1. n + 1 \in Nat /\ n + 1 # 0 /\ n + 1 - 1 = n
    OBVIOUS
  <2>2. f[n + 1] = Grow(f[n + 1 - 1], s[n + 1])
    BY <1>4, <2>1
  <2>3. QED BY <2>1, <2>2
<1>7. QED BY <1>1, <1>5, <1>6

LEMMA GrownFor ==
  ASSUME NEW b \in Buffers, NEW s \in Seq(Nat)
  PROVE  /\ Len(s) = 1 => Moved(b, Grown(b, s), s[1])
         /\ Len(s) = 3 => Moved(b, Grown(b, s), s[1] + s[2] + s[3])
         /\ Len(s) = 4 => Moved(b, Grown(b, s), s[1] + s[2] + s[3] + s[4])
         /\ Len(s) = 5 => Moved(b, Grown(b, s), s[1] + s[2] + s[3] + s[4] + s[5])
<1>0. PICK f : /\ Grown(b, s) = f[Len(s)]
               /\ f[0] = b
               /\ \A n \in Nat : f[n + 1] = Grow(f[n], s[n + 1])
  BY GrownUpTo
<1>1. ASSUME NEW n \in Nat, n + 1 <= Len(s), f[n] \in Buffers
      PROVE  s[n + 1] \in Nat /\ Moved(f[n], f[n + 1], s[n + 1])
  <2>1. n + 1 \in 1..Len(s)
    BY <1>1
  <2>2. s[n + 1] \in Nat
    BY <2>1
  <2>3. Moved(f[n], Grow(f[n], s[n + 1]), s[n + 1])
    BY <1>1, <2>2, GrowMoves
  <2>4. QED BY <1>0, <2>2, <2>3
<1>2. ASSUME NEW n \in Nat, NEW m \in Nat, n + 1 <= Len(s), Moved(b, f[n], m)
      PROVE  Moved(b, f[n + 1], m + s[n + 1]) /\ s[n + 1] \in Nat
  <2>1. f[n] \in Buffers
    BY <1>2 DEF Moved
  <2>2. QED BY <1>1, <1>2, <2>1, MovedThen
<1>3. Moved(b, f[0], 0)
  <2>1. b.len \in Nat /\ b.len + 0 = b.len /\ b.len <= b.len
    BY DEF Buffers
  <2>2. Moved(b, b, 0)
    BY <2>1, Zenon DEF Moved
  <2>3. QED BY <1>0, <2>2
<1>4. 1 <= Len(s) => Moved(b, f[1], s[1]) /\ s[1] \in Nat
  <2>1. 0 + 1 <= Len(s) => Moved(b, f[0 + 1], 0 + s[0 + 1]) /\ s[0 + 1] \in Nat
    BY <1>2, <1>3
  <2>2. QED BY <2>1
<1>5. 2 <= Len(s) => Moved(b, f[2], s[1] + s[2]) /\ s[1] + s[2] \in Nat
  <2>1. 1 + 1 <= Len(s) => Moved(b, f[1 + 1], s[1] + s[1 + 1]) /\ s[1 + 1] \in Nat
    BY <1>2, <1>4
  <2>2. QED BY <1>4, <2>1
<1>6. 3 <= Len(s) => Moved(b, f[3], s[1] + s[2] + s[3]) /\ s[1] + s[2] + s[3] \in Nat
  <2>1. 2 + 1 <= Len(s) => Moved(b, f[2 + 1], (s[1] + s[2]) + s[2 + 1]) /\ s[2 + 1] \in Nat
    BY <1>2, <1>5
  <2>2. QED BY <1>5, <2>1
<1>7. 4 <= Len(s) => Moved(b, f[4], s[1] + s[2] + s[3] + s[4]) /\ s[1] + s[2] + s[3] + s[4] \in Nat
  <2>1. 3 + 1 <= Len(s) => Moved(b, f[3 + 1], (s[1] + s[2] + s[3]) + s[3 + 1]) /\ s[3 + 1] \in Nat
    BY <1>2, <1>6
  <2>2. QED BY <1>6, <2>1
<1>8. 5 <= Len(s) => Moved(b, f[5], s[1] + s[2] + s[3] + s[4] + s[5])
  <2>1. 4 + 1 <= Len(s) => Moved(b, f[4 + 1], (s[1] + s[2] + s[3] + s[4]) + s[4 + 1])
    BY <1>2, <1>7
  <2>2. QED BY <1>7, <2>1
<1>9. Len(s) = 1 => Moved(b, Grown(b, s), s[1])
  BY <1>0, <1>4
<1>10. Len(s) = 3 => Moved(b, Grown(b, s), s[1] + s[2] + s[3])
  BY <1>0, <1>6
<1>11. Len(s) = 4 => Moved(b, Grown(b, s), s[1] + s[2] + s[3] + s[4])
  BY <1>0, <1>7
<1>12. Len(s) = 5 => Moved(b, Grown(b, s), s[1] + s[2] + s[3] + s[4] + s[5])
  BY <1>0, <1>8
<1>13. QED BY <1>9, <1>10, <1>11, <1>12

\* The numbers of appends there are.
LEMMA GrownMoves ==
  ASSUME NEW b \in Buffers, NEW u \in Nat, NEW v \in Nat, NEW x \in Nat, NEW y \in Nat, NEW z \in Nat
  PROVE  /\ Moved(b, Grown(b, <<u>>), u)
         /\ Moved(b, Grown(b, <<u, v, x>>), u + v + x)
         /\ Moved(b, Grown(b, <<u, v, x, y>>), u + v + x + y)
         /\ Moved(b, Grown(b, <<u, v, x, y, z>>), u + v + x + y + z)
<1>1. <<u>> \in Seq(Nat) /\ Len(<<u>>) = 1 /\ <<u>>[1] = u
  OBVIOUS
<1>2. <<u, v, x>> \in Seq(Nat) /\ Len(<<u, v, x>>) = 3
  OBVIOUS
<1>3. <<u, v, x, y>> \in Seq(Nat) /\ Len(<<u, v, x, y>>) = 4
  OBVIOUS
<1>4. <<u, v, x, y, z>> \in Seq(Nat) /\ Len(<<u, v, x, y, z>>) = 5
  OBVIOUS
<1>5. QED BY <1>1, <1>2, <1>3, <1>4, GrownFor

-----------------------------------------------------------------------------
(***************************************************************************)
(* The sizes of elements                                                   *)
(***************************************************************************)
\* The strings of the texts and the names of indexes.
Strs ==
  {Blank} \cup (UNION {{t.tokens[i].s : i \in 1..Len(t.tokens)} : t \in Texts})
          \cup (UNION {{numStr(i) : i \in 0..Len(t.tokens)} : t \in Texts})

Names == {<< >>} \cup {<<s>> : s \in Strs}

LEMMA StrLength == \A s \in Strs : Len(s) \in Nat
<1>1. Len(Blank) \in Nat
  <2>1. 1 \in DOMAIN Strings /\ Strings[1] = Blank
    <3>1. Strings \in Seq(STRING) /\ Strings # << >> /\ Strings[1] = Blank
      BY BsonAssumption, Zenon
    <3>2. QED BY <3>1
  <2>2. Blank \in ToSet(Strings)
    BY <2>1 DEF ToSet
  <2>3. QED BY <2>2, BsonAssumption, Zenon
<1>2. ASSUME NEW t \in Texts, NEW i \in 1..Len(t.tokens)
      PROVE  Len(t.tokens[i].s) \in Nat
  BY JsonAssumption, Zenon
<1>3. ASSUME NEW t \in Texts, NEW i \in 0..Len(t.tokens)
      PROVE  Len(numStr(i)) \in Nat
  BY JsonAssumption, Zenon DEF numStr
<1>4. QED BY <1>1, <1>2, <1>3 DEF Strs

LEMMA StrSizeNat ==
  ASSUME NEW s \in Strs
  PROVE  Len(s) \in Nat /\ StrSize(s) \in Nat /\ StrSize(s) = Len(s) + 1
  BY StrLength DEF StrSize

SumBase       == [s \in Seq(Nat) |-> 0]
SumStep(n, g) == [s \in Seq(Nat) |-> g[s] + s[n]]

SumRec == INSTANCE NatRecursion WITH Base <- SumBase, Step <- SumStep

\* The sum of one number.
LEMMA TotalOfOne ==
  ASSUME NEW s \in Seq(Nat), Len(s) = 1
  PROVE  Total(s) = s[1]
<1>0. s[1] \in Nat
  <2>1. 1 \in 1..Len(s)
    OBVIOUS
  <2>2. QED BY <2>1, ElementOfSeq
<1> DEFINE g == [n \in Nat |-> SumRec!Recursive[n][s]]
           f == CHOOSE u : u = [i \in Nat |-> IF i = 0 THEN 0 ELSE u[i - 1] + s[i]]
<1>1. Total(s) = f[1]
  BY DEF Total
<1>2. ASSUME NEW i \in Nat
      PROVE  g[i] = IF i = 0 THEN 0 ELSE g[i - 1] + s[i]
  <2>1. CASE i = 0
    BY <2>1, SumRec!Unfold DEF SumBase
  <2>2. CASE i # 0
    <3>1. i - 1 \in Nat /\ i - 1 + 1 = i
      BY <2>2
    <3>2. SumRec!Recursive[i] = SumStep(i, SumRec!Recursive[i - 1])
      BY <3>1, SumRec!Unfold
    <3>3. SumRec!Recursive[i][s] = SumRec!Recursive[i - 1][s] + s[i]
      BY <3>2 DEF SumStep
    <3>4. QED BY <2>2, <3>1, <3>3
  <2>3. QED BY <2>1, <2>2
<1>3. g = [i \in Nat |-> IF i = 0 THEN 0 ELSE g[i - 1] + s[i]]
  <2>1. g = [i \in Nat |-> g[i]]
    OBVIOUS
  <2> HIDE DEF g
  <2>2. QED BY <1>2, <2>1
<1> HIDE DEF g
<1>4. f = [i \in Nat |-> IF i = 0 THEN 0 ELSE f[i - 1] + s[i]]
  BY <1>3
<1> HIDE DEF f
<1>5. f[0] = 0 /\ f[1] = f[0] + s[1]
  BY <1>4
<1>6. QED BY <1>0, <1>1, <1>5

LEMMA NameSizeNat ==
  ASSUME NEW n \in Names
  PROVE  NameSize(n) \in Nat /\ 1 <= NameSize(n)
<1>1. CASE n = << >>
  BY <1>1 DEF NameSize
<1>2. ASSUME NEW s \in Strs, n = <<s>>
      PROVE  NameSize(n) \in Nat /\ 1 <= NameSize(n)
  <2> DEFINE sizes == [i \in DOMAIN n |-> StrSize(n[i])]
  <2>1. DOMAIN n = 1..1 /\ n[1] = s /\ n # << >>
    BY <1>2
  <2>2. sizes \in Seq(Nat) /\ Len(sizes) = 1 /\ sizes[1] = StrSize(s)
    BY <2>1, StrSizeNat
  <2>3. NameSize(n) = Total(sizes)
    BY <2>1 DEF NameSize
  <2> HIDE DEF sizes
  <2>4. QED BY <2>2, <2>3, TotalOfOne, StrSizeNat
<1>3. QED BY <1>1, <1>2 DEF Names

\* The types of elements that are appended whole.
Whole == {"String", "NumberDouble", "NumberInt", "NumberLong", "Bool", "jstNULL", "Date", "jstOID",
          "BinData", "DBRef", "RegEx"}

Appended(e, types) ==
  e.type \in types /\ e.name \in Names /\ e.str \in Strs /\ e.opt \in Strs

\* What is appended for an element is as much as BSONElement::size takes it for.
LEMMA WholeMoves ==
  ASSUME NEW b \in Buffers, NEW e, Appended(e, Whole)
  PROVE  /\ ElementSize(e) \in Nat /\ 2 <= ElementSize(e)
         /\ Moved(b, Grown(b, Pieces(e)), ElementSize(e))
<1> DEFINE n == NameSize(e.name)
<1>1. /\ n \in Nat /\ 1 <= n
      /\ StrSize(e.str) \in Nat /\ StrSize(e.opt) \in Nat /\ StrSize(e.str) - 1 \in Nat
      /\ 1 <= StrSize(e.str) /\ 1 <= StrSize(e.opt)
  BY NameSizeNat, StrSizeNat DEF Appended
<1>2. /\ ElementSize(e) = 1 + n + ValueSize(e)
      /\ e.type \in Whole
  BY DEF ElementSize, ElementSizeIn, ValueSize, Appended, Whole
<1> HIDE DEF n
<1>3. CASE e.type = "String"
  <2>1. ValueSize(e) = 4 + StrSize(e.str)
    BY <1>3 DEF ValueSize, ValueSizeIn
  <2>2. Pieces(e) = <<1, n, 4, StrSize(e.str)>>
    BY <1>3 DEF Pieces, n, IsABSONObj
  <2>3. Moved(b, Grown(b, Pieces(e)), 1 + n + 4 + StrSize(e.str))
    BY <1>1, <2>2, GrownMoves
  <2>4. QED BY <1>1, <1>2, <2>1, <2>3
<1>4. CASE e.type = "BinData"
  <2>1. ValueSize(e) = 4 + 1 + (StrSize(e.str) - 1)
    BY <1>4 DEF ValueSize, ValueSizeIn
  <2>2. Pieces(e) = <<1, n, 4, 1, StrSize(e.str) - 1>>
    BY <1>4 DEF Pieces, n, IsABSONObj
  <2>3. Moved(b, Grown(b, Pieces(e)), 1 + n + 4 + 1 + (StrSize(e.str) - 1))
    BY <1>1, <2>2, GrownMoves
  <2>4. QED BY <1>1, <1>2, <2>1, <2>3
<1>5. CASE e.type = "DBRef"
  <2>1. ValueSize(e) = 4 + StrSize(e.str) + 12
    BY <1>5 DEF ValueSize, ValueSizeIn
  <2>2. Pieces(e) = <<1, n, 4, StrSize(e.str), 12>>
    BY <1>5 DEF Pieces, n, IsABSONObj
  <2>3. Moved(b, Grown(b, Pieces(e)), 1 + n + 4 + StrSize(e.str) + 12)
    BY <1>1, <2>2, GrownMoves
  <2>4. QED BY <1>1, <1>2, <2>1, <2>3
<1>6. CASE e.type = "RegEx"
  <2>1. ValueSize(e) = StrSize(e.str) + StrSize(e.opt)
    BY <1>6 DEF ValueSize, ValueSizeIn
  <2>2. Pieces(e) = <<1, n, StrSize(e.str), StrSize(e.opt)>>
    BY <1>6 DEF Pieces, n, IsABSONObj
  <2>3. Moved(b, Grown(b, Pieces(e)), 1 + n + StrSize(e.str) + StrSize(e.opt))
    BY <1>1, <2>2, GrownMoves
  <2>4. QED BY <1>1, <1>2, <2>1, <2>3
<1>7. CASE e.type \notin {"String", "BinData", "DBRef", "RegEx"}
  <2>1. ValueSize(e) \in Nat
    BY <1>2, <1>7 DEF ValueSize, ValueSizeIn, Whole
  <2>2. Pieces(e) = <<1, n, ValueSize(e)>>
    BY <1>2, <1>7 DEF Pieces, n, Whole, IsABSONObj
  <2>3. Moved(b, Grown(b, Pieces(e)), 1 + n + ValueSize(e))
    BY <1>1, <2>1, <2>2, GrownMoves
  <2>4. QED BY <1>1, <1>2, <2>1, <2>3
<1>8. QED BY <1>3, <1>4, <1>5, <1>6, <1>7

\* The header of a nested object and the room for its size.
LEMMA HeaderMoves ==
  ASSUME NEW b \in Buffers, NEW e, Appended(e, {"Object", "Array"})
  PROVE  /\ NameSize(e.name) \in Nat /\ 1 <= NameSize(e.name)
         /\ Moved(b, Grown(b, Pieces(e)), 1 + NameSize(e.name) + 4)
<1>1. NameSize(e.name) \in Nat /\ 1 <= NameSize(e.name)
  BY NameSizeNat DEF Appended
<1>2. Pieces(e) = <<1, NameSize(e.name), 4>>
  BY DEF Pieces, Appended, IsABSONObj
<1>3. QED BY <1>1, <1>2, GrownMoves

-----------------------------------------------------------------------------
(***************************************************************************)
(* Bytes                                                                   *)
(***************************************************************************)
Sequence(b) == \E S : b \in Seq(S)

LEMMA BytesAre ==
  ASSUME NEW c, NEW n \in Nat, 1 <= n
  PROVE  Sequence(Bytes(c, n)) /\ Len(Bytes(c, n)) = n
<1> DEFINE more == Cell("more", 0, Eoo)
           rest == [i \in 1..(n - 1) |-> more]
<1>1. n - 1 \in Nat
  OBVIOUS
<1> HIDE DEF more
<1>2. rest \in Seq({c, more}) /\ Len(rest) = n - 1
  BY <1>1
<1>3. <<c>> \in Seq({c, more}) /\ Len(<<c>>) = 1
  OBVIOUS
<1> HIDE DEF rest
<1>4. <<c>> \o rest \in Seq({c, more}) /\ Len(<<c>> \o rest) = 1 + (n - 1)
  BY <1>2, <1>3, ConcatProperties
<1>5. Bytes(c, n) = <<c>> \o rest
  BY DEF Bytes, rest, more
<1>6. 1 + (n - 1) = n
  OBVIOUS
<1>7. QED BY <1>4, <1>5, <1>6 DEF Sequence

\* Sequences of anything can be joined.
LEMMA JoinedAre ==
  ASSUME NEW b, NEW c, Sequence(b), Sequence(c)
  PROVE  Sequence(b \o c) /\ Len(b \o c) = Len(b) + Len(c) /\ Len(b) \in Nat /\ Len(c) \in Nat
<1>1. PICK S : b \in Seq(S)
  BY DEF Sequence
<1>2. PICK T : c \in Seq(T)
  BY DEF Sequence
<1>3. b \in Seq(S \cup T) /\ c \in Seq(S \cup T)
  BY <1>1, <1>2
<1>4. QED BY <1>3, ConcatProperties DEF Sequence

LEMMA FrontAre ==
  ASSUME NEW b, Sequence(b), NEW n \in 0..Len(b)
  PROVE  Sequence(SubSeq(b, 1, n)) /\ Len(SubSeq(b, 1, n)) = n
<1>1. PICK S : b \in Seq(S)
  BY DEF Sequence
<1>2. CASE n = 0
  BY <1>1, <1>2 DEF Sequence
<1>3. CASE n # 0
  BY <1>1, <1>3 DEF Sequence
<1>4. QED BY <1>2, <1>3

LEMMA EndsWhole ==
  ASSUME NEW b, Sequence(b), NEW offset \in Nat
  PROVE  Sequence(DoneBytes(b, offset)) /\ Len(DoneBytes(b, offset)) = Len(b) + 1
<1> DEFINE end == Cell("eoo", 0, Eoo)
           c == Cell("size", Len(b) + 1 - offset, Eoo)
           d == b \o EooByte
<1>1. EooByte \in Seq({end}) /\ Len(EooByte) = 1
  BY DEF EooByte
<1>2. Sequence(d) /\ Len(d) = Len(b) + 1
  BY <1>1, JoinedAre DEF Sequence
<1>3. DoneBytes(b, offset) = [d EXCEPT ![offset + 1] = c]
  BY DEF DoneBytes
<1>4. PICK S : d \in Seq(S)
  BY <1>2 DEF Sequence
<1> HIDE DEF c, d
<1>5. d \in Seq(S \cup {c})
  BY <1>4
<1>6. CASE offset + 1 \in 1..Len(d)
  <2>1. /\ [d EXCEPT ![offset + 1] = c] \in Seq(S \cup {c})
        /\ Len([d EXCEPT ![offset + 1] = c]) = Len(d)
    BY <1>5, <1>6, ExceptSeq
  <2>2. QED BY <1>2, <1>3, <2>1 DEF Sequence
<1>7. CASE offset + 1 \notin 1..Len(d)
  <2>1. DOMAIN d = 1..Len(d) /\ d = [i \in DOMAIN d |-> d[i]]
    BY <1>5
  <2>2. [d EXCEPT ![offset + 1] = c] = d
    BY <1>7, <2>1
  <2>3. QED BY <1>2, <1>3, <2>2 DEF Sequence
<1>8. QED BY <1>6, <1>7

\* The state of the buffer, and what an append does to it.
Now == [len |-> Len(buf), size |-> size, ok |-> TRUE]

BufferOK == Sequence(buf) /\ size \in Nat /\ size <= BufferMaxSize

LEMMA NowIs ==
  ASSUME BufferOK
  PROVE  Now \in Buffers /\ Now.len = Len(buf) /\ Len(buf) \in Nat
<1>1. PICK S : buf \in Seq(S)
  BY DEF BufferOK, Sequence
<1>2. QED BY <1>1 DEF Now, Buffers, BufferOK

LEMMA BytesAppended ==
  ASSUME NEW bytes, NEW pieces, NEW n \in Nat, BufferOK, Sequence(bytes), Len(bytes) = n,
         Moved(Now, After(pieces), n), Len(buf) <= size, AppendBytes(bytes, pieces), phase = "parsing"
  PROVE  /\ BufferOK' /\ Len(buf) \in Nat /\ Len(buf') \in Nat /\ Len(buf) <= Len(buf')
         /\ phase' \in {"parsing", "unwinding"}
         /\ phase' = "parsing" <=> After(pieces).ok
         /\ phase' = "parsing" => Len(buf') = Len(buf) + n /\ Len(buf') <= size'
<1> DEFINE b == After(pieces)
           m == b.len - Len(buf)
<1>1. /\ buf' = buf \o SubSeq(bytes, 1, m) /\ size' = b.size
      /\ phase' = IF b.ok THEN "parsing" ELSE "unwinding"
  BY DEF AppendBytes
<1>2. /\ Now \in Buffers /\ Now.len = Len(buf) /\ Len(buf) \in Nat
      /\ Fits(Now) /\ Now.size <= BufferMaxSize
  BY NowIs DEF Fits, Now, BufferOK
<1>3. /\ b.len \in Nat /\ b.size \in Nat /\ Fits(b) /\ b.size <= BufferMaxSize
      /\ Len(buf) <= b.len /\ b.len <= Len(buf) + n /\ (b.ok => b.len = Len(buf) + n)
  BY <1>2 DEF Moved, Buffers
<1> HIDE DEF b
<1>4. m \in 0..Len(bytes) /\ Len(buf) + m = b.len
  BY <1>2, <1>3
<1>5. Sequence(SubSeq(bytes, 1, m)) /\ Len(SubSeq(bytes, 1, m)) = m
  BY <1>4, FrontAre
<1>6. Sequence(buf') /\ Len(buf') = b.len
  BY <1>1, <1>4, <1>5, JoinedAre DEF BufferOK
<1>7. QED BY <1>1, <1>2, <1>3, <1>6 DEF BufferOK, Fits, b

-----------------------------------------------------------------------------
\* A set of numbers has a least one, a bounded one a largest.
LEMMA MinOf ==
  ASSUME NEW S, S \subseteq Nat, S # {}
  PROVE  Min(S) \in S /\ \A n \in S : Min(S) <= n
<1>1. PICK m \in S : \A n \in S : <<n, m>> \notin OpToRel(<, Nat)
  BY NatLessThanWellFounded, WFMin
<1>2. ASSUME NEW n \in S
      PROVE  m <= n
  <2>1. n \in Nat /\ m \in Nat
    OBVIOUS
  <2>2. <<n, m>> \notin OpToRel(<, Nat)
    BY <1>1
  <2>3. ~(n < m)
    BY <2>1, <2>2 DEF OpToRel
  <2>4. QED BY <2>1, <2>3
<1>3. QED BY <1>2 DEF Min

LEMMA LargestOf ==
  ASSUME NEW S, NEW k \in Nat, S \subseteq 0..k, S # {}
  PROVE  \E m \in S : \A n \in S : n <= m
<1> DEFINE T == {k - n : n \in S}
<1>1. T \subseteq Nat /\ T # {}
  <2>1. \A n \in S : k - n \in Nat
    OBVIOUS
  <2>2. QED BY <2>1, Zenon
<1>2. PICK m \in S : Min(T) = k - m
  <2> HIDE DEF T
  <2>1. Min(T) \in T
    BY <1>1, MinOf
  <2>2. QED BY <2>1 DEF T
<1>3. ASSUME NEW n \in S
      PROVE  n <= m
  <2>1. k - n \in T
    OBVIOUS
  <2> HIDE DEF T
  <2>2. Min(T) <= k - n
    BY <1>1, <2>1, MinOf
  <2>3. n \in 0..k /\ m \in 0..k
    OBVIOUS
  <2>4. QED BY <1>2, <2>2, <2>3
<1>4. QED BY <1>3

LEMMA MaxOf ==
  ASSUME NEW S, NEW k \in Nat, S \subseteq 0..k, S # {}
  PROVE  Max(S) \in S /\ \A n \in S : n <= Max(S)
<1>1. PICK m \in S : \A n \in S : n <= m
  BY LargestOf
<1>2. ASSUME NEW n \in S
      PROVE  m >= n
  <2>1. n \in 0..k /\ m \in 0..k /\ n <= m
    BY <1>1
  <2>2. QED BY <2>1
<1>3. PICK x : x = Max(S)
  OBVIOUS
<1>4. x \in S /\ \A y \in S : x >= y
  BY <1>2, <1>3 DEF Max
<1>5. ASSUME NEW n \in S
      PROVE  n <= x
  <2>1. n \in 0..k /\ x \in 0..k /\ x >= n
    BY <1>4
  <2>2. QED BY <2>1
<1>6. QED BY <1>3, <1>4, <1>5

-----------------------------------------------------------------------------
(***************************************************************************)
(* Tokens and special values                                               *)
(***************************************************************************)
\* Where the builders are and what they call their next field.
Stages == {"open", "called", "closed"}

BuilderStates == [offset : Nat, done : Stages, array : BOOLEAN, index : Nat, name : Names]

Fields == {"ns", "oid", "bin", "type", "date", "regex", "options"}

TextOK    == text \in Texts /\ pos \in Nat /\ 1 <= pos
ScratchOK == DOMAIN scratch = Fields /\ \A f \in Fields : scratch[f].s \in Strs
StackOK   == /\ builders \in Seq(BuilderStates)
             /\ \A i \in DOMAIN builders : builders[i].index < pos
GrammarOK == /\ phase \in {"parsing", "returned", "unwinding", "thrown", "terminated"}
             /\ phase = "parsing" => (expect = "start" <=> builders = << >>)
FreedOK   == freed => /\ phase \in {"unwinding", "thrown"}
                      /\ \A i \in DOMAIN builders :
                           builders[i].done # "open" /\ (i > 1 => builders[i].done = "closed")

\* The invariant of reading a text.
Inv == TextOK /\ ScratchOK /\ StackOK /\ GrammarOK /\ FreedOK /\ BufferOK /\ InsideBuffer /\ ObjectsNested

LEMMA IndexNames ==
  ASSUME TextOK, NEW i \in 0..Len(text.tokens)
  PROVE  numStr(i) \in Strs /\ <<numStr(i)>> \in Names
<1>1. text \in Texts /\ numStr(i) \in {numStr(j) : j \in 0..Len(text.tokens)}
  BY Zenon DEF TextOK
<1>2. {numStr(j) : j \in 0..Len(text.tokens)} \in {{numStr(j) : j \in 0..Len(t.tokens)} : t \in Texts}
  BY <1>1, Zenon
<1>3. numStr(i) \in UNION {{numStr(j) : j \in 0..Len(t.tokens)} : t \in Texts}
  BY <1>1, <1>2, Zenon
<1>4. numStr(i) \in Strs
  BY <1>3, Zenon DEF Strs
<1>5. QED BY <1>4, Zenon DEF Names

LEMMA TextLength ==
  ASSUME TextOK
  PROVE  Len(text.tokens) \in Nat
<1>1. text.tokens \in Seq([k : STRING, s : STRING, n : Int])
  BY JsonAssumption, Zenon DEF TextOK
<1>2. QED BY <1>1

LEMMA TokenStrings ==
  ASSUME TextOK, NEW i \in Nat, 1 <= i
  PROVE  At(i).s \in Strs
<1>1. CASE i <= Len(text.tokens)
  <2>1. i \in 1..Len(text.tokens)
    BY <1>1, TextLength
  <2>2. text \in Texts /\ text.tokens[i].s \in {text.tokens[j].s : j \in 1..Len(text.tokens)}
    BY <2>1, Zenon DEF TextOK
  <2>3. text.tokens[i].s \in Strs
    BY <2>2, Zenon DEF Strs
  <2>4. QED BY <1>1, <2>3, Zenon DEF At
<1>2. CASE ~(i <= Len(text.tokens))
  <2>1. At(i) = End
    BY <1>2 DEF At
  <2>2. QED BY <2>1 DEF End, P, Token, Strs
<1>3. QED BY <1>1, <1>2

LEMMA ElementNames ==
  ASSUME TextOK, NEW i \in Nat, 1 <= i
  PROVE  NameOf(At(i).s) \in Names
  BY TokenStrings DEF NameOf, Names

\* The forms of the special values.
SpecialTypes == {"Date", "jstOID", "BinData", "DBRef", "RegEx"}

LEMMA ItemsJoined ==
  /\ \A x : Sequence(<<x>>)
  /\ \A s : Sequence(Key(s))
  /\ \A items : Sequence(items) => Sequence(Curly(items))
  /\ \A name, items : Sequence(items) => Sequence(Called(name, items))
<1>1. ASSUME NEW x
      PROVE  Sequence(<<x>>)
  <2>1. <<x>> \in Seq({x})
    OBVIOUS
  <2>2. QED BY <2>1 DEF Sequence
<1>2. ASSUME NEW x, NEW y
      PROVE  Sequence(<<x, y>>)
  <2>1. <<x, y>> \in Seq({x, y})
    OBVIOUS
  <2>2. QED BY <2>1 DEF Sequence
<1>3. \A s : Sequence(Key(s))
  BY <1>2 DEF Key
<1>4. ASSUME NEW items, Sequence(items)
      PROVE  Sequence(Curly(items))
  <2>1. Sequence(<<Lit(P("{"))>> \o items)
    BY <1>1, <1>4, JoinedAre
  <2>2. Sequence((<<Lit(P("{"))>> \o items) \o <<Lit(P("}"))>>)
    BY <1>1, <2>1, JoinedAre
  <2>3. QED BY <2>2 DEF Curly
<1>5. ASSUME NEW name, NEW items, Sequence(items)
      PROVE  Sequence(Called(name, items))
  <2>1. Sequence(<<Lit(Word(name)), Lit(P("("))>> \o items)
    BY <1>2, <1>5, JoinedAre
  <2>2. Sequence((<<Lit(Word(name)), Lit(P("("))>> \o items) \o <<Lit(P(")"))>>)
    BY <1>1, <2>1, JoinedAre
  <2>3. QED BY <2>2 DEF Called
<1>6. QED BY <1>1, <1>3, <1>4, <1>5

LEMMA FormsAre ==
  /\ DOMAIN Forms = 1..10
  /\ \A f \in DOMAIN Forms : Forms[f].type \in SpecialTypes /\ Sequence(Forms[f].items)
<1> DEFINE date == <<Some("int", "date")>>
           oid == <<Some("str", "oid")>>
           ns == <<Some("str", "ns"), Lit(P(","))>>
           bin == <<Some("base64", "bin"), Lit(P(","))>>
           type == <<Some("str", "type")>>
           regex == <<Some("str", "regex"), Lit(P(","))>>
           options == <<Some("str", "options")>>
           slashed == <<Some("slashed", "regex"), Some("word", "options")>>
<1>1. ASSUME NEW x, NEW y
      PROVE  Sequence(<<x, y>>)
  <2>1. <<x, y>> \in Seq({x, y})
    OBVIOUS
  <2>2. QED BY <2>1 DEF Sequence
<1>2. /\ Sequence(date) /\ Sequence(oid) /\ Sequence(type) /\ Sequence(options)
      /\ Sequence(ns) /\ Sequence(bin) /\ Sequence(regex) /\ Sequence(slashed)
  BY <1>1, ItemsJoined
<1> DEFINE i1 == Curly(Key("$date") \o date)
           i2 == Called("Date", date)
           i3 == Curly(Key("$oid") \o oid)
           i4 == Called("ObjectId", oid)
           i5 == Curly(Key("$binary") \o bin \o Key("$type") \o type)
           i6 == Curly(Key("$ref") \o ns \o Key("$id") \o oid)
           i7 == Called("Dbref", ns \o oid)
           i8 == Curly(Key("$regex") \o regex \o Key("$options") \o options)
           i9 == <<Lit(Word("new"))>> \o Called("Date", date)
<1>3. Forms = <<Form("Date", i1), Form("Date", i2), Form("Date", i9), Form("jstOID", i3),
                Form("jstOID", i4), Form("BinData", i5), Form("DBRef", i6), Form("DBRef", i7), Form("RegEx", i8),
                Form("RegEx", slashed)>>
  BY Zenon DEF Forms
<1> HIDE DEF date, oid, ns, bin, type, regex, options, slashed
<1>4. \A x, y : Sequence(x) /\ Sequence(y) => Sequence(x \o y)
  BY JoinedAre
<1>5. /\ Sequence(i1) /\ Sequence(i2) /\ Sequence(i3) /\ Sequence(i4)
      /\ Sequence(i5) /\ Sequence(i6) /\ Sequence(i7) /\ Sequence(i8) /\ Sequence(i9)
  <2>1. Sequence(i1) /\ Sequence(i2) /\ Sequence(i3) /\ Sequence(i4)
    BY <1>2, <1>4, ItemsJoined, Zenon
  <2>2. Sequence(i5)
    BY <1>2, <1>4, ItemsJoined, Zenon
  <2>3. Sequence(i6)
    BY <1>2, <1>4, ItemsJoined, Zenon
  <2>4. Sequence(i7)
    BY <1>2, <1>4, ItemsJoined, Zenon
  <2>5. Sequence(i8)
    BY <1>2, <1>4, ItemsJoined, Zenon
  <2>6. Sequence(i9)
    BY <1>2, <1>4, ItemsJoined, Zenon
  <2>7. QED BY <2>1, <2>2, <2>3, <2>4, <2>5, <2>6
<1> HIDE DEF i1, i2, i3, i4, i5, i6, i7, i8, i9
<1>6. QED BY <1>2, <1>3, <1>5 DEF Form, SpecialTypes

LEMMA FormLength ==
  ASSUME NEW f \in DOMAIN Forms
  PROVE  Len(Forms[f].items) \in Nat
<1>1. PICK S : Forms[f].items \in Seq(S)
  BY FormsAre DEF Sequence
<1>2. QED BY <1>1

LEMMA FirstHit ==
  ASSUME Special
  PROVE  Min(Hits) \in DOMAIN Forms
<1>1. Hits \subseteq Nat /\ Hits # {} /\ Hits \subseteq DOMAIN Forms
  BY FormsAre DEF Hits, Special
<1>2. QED BY <1>1, MinOf

LEMMA TriedForms == Tried \subseteq 0..10
<1>1. CASE Special
  <2>1. Min(Hits) \in 1..10
    BY <1>1, FirstHit, FormsAre
  <2>2. Tried = 1..Min(Hits)
    BY <1>1 DEF Tried
  <2>3. QED BY <2>1, <2>2
<1>2. CASE ~Special
  <2>1. Len(Forms) = 10
    BY DEF Forms
  <2>2. QED BY <1>2, <2>1 DEF Tried
<1>3. QED BY <1>1, <1>2

\* Whatever the alternatives capture is a token, or what was captured before.
LEMMA CapturedOK ==
  ASSUME TextOK, ScratchOK
  PROVE  DOMAIN Captured = Fields /\ \A f \in Fields : Captured[f].s \in Strs
<1> DEFINE c(to) == Captures(to)
           x0(to) == CHOOSE x \in c(to) : \A y \in c(to) : y[1] <= x[1]
<1>1. Captured = [to \in DOMAIN scratch |->
                    IF c(to) = {} THEN scratch[to] ELSE At(pos - 1 + x0(to)[2])]
  BY DEF Captured, LastOf
<1>2. ASSUME NEW to \in Fields, c(to) # {}
      PROVE  x0(to)[2] \in 1..9
  <2> DEFINE S == {x[1] : x \in c(to)}
  <2>1. c(to) \subseteq Tried \X (1..9)
    BY DEF Captures
  <2> HIDE DEF c
  <2>2. \A x \in c(to) : x[1] \in Tried /\ x[2] \in 1..9
    BY <2>1
  <2>3. S \subseteq 0..10 /\ S # {}
    BY <1>2, <2>2, TriedForms
  <2>4. PICK m \in S : \A n \in S : n <= m
    <3> HIDE DEF S
    <3>1. 10 \in Nat
      OBVIOUS
    <3>2. QED BY <2>3, <3>1, LargestOf
  <2>5. PICK x \in c(to) : x[1] = m
    OBVIOUS
  <2>6. \A y \in c(to) : y[1] <= x[1]
    BY <2>4, <2>5
  <2>7. x0(to) \in c(to)
    BY <2>6
  <2>8. QED BY <2>2, <2>7
<1> HIDE DEF c, x0
<1>3. ASSUME NEW to \in Fields
      PROVE  Captured[to].s \in Strs
  <2>1. to \in DOMAIN scratch
    BY DEF ScratchOK
  <2>2. CASE c(to) = {}
    <3>1. Captured[to] = scratch[to]
      BY <1>1, <2>1, <2>2
    <3>2. QED BY <3>1 DEF ScratchOK
  <2>3. CASE c(to) # {}
    <3>1. Captured[to] = At(pos - 1 + x0(to)[2])
      BY <1>1, <2>1, <2>3
    <3>2. pos - 1 + x0(to)[2] \in Nat /\ 1 <= pos - 1 + x0(to)[2]
      BY <1>2, <2>3 DEF TextOK
    <3>3. QED BY <3>1, <3>2, TokenStrings
  <2>4. QED BY <2>2, <2>3
<1>4. DOMAIN Captured = Fields
  BY <1>1 DEF ScratchOK
<1>5. QED BY <1>3, <1>4

LEMMA BlankIn == Blank \in Strs
  BY DEF Strs

LEMMA SpecialAppended ==
  ASSUME NEW type \in SpecialTypes, NEW name \in Names, NEW s, DOMAIN s = Fields,
         \A f \in Fields : s[f].s \in Strs
  PROVE  Appended(SpecialElement(type, name, s), Whole)
<1> DEFINE e == SpecialElement(type, name, s)
<1>1. /\ s.oid.s \in Strs /\ s.bin.s \in Strs /\ s.ns.s \in Strs /\ s.regex.s \in Strs
      /\ s.options.s \in Strs
  BY DEF Fields
<1>2. CASE type = "Date"
  <2>1. e = Number("Date", name, s.date.n)
    BY <1>2 DEF SpecialElement
  <2> HIDE DEF e
  <2>2. Appended(e, Whole)
    BY <2>1, BlankIn DEF Appended, Whole, Number, Element
  <2>3. QED BY <2>2 DEF e
<1>3. CASE type = "jstOID"
  <2>1. e = Text("jstOID", name, s.oid.s)
    BY <1>3 DEF SpecialElement
  <2> HIDE DEF e
  <2>2. Appended(e, Whole)
    BY <1>1, <2>1, BlankIn DEF Appended, Whole, Text, Element
  <2>3. QED BY <2>2 DEF e
<1>4. CASE type = "BinData"
  <2>1. PICK n : e = Element("BinData", name, n, s.bin.s, Blank, << >>)
    BY <1>4 DEF SpecialElement
  <2> HIDE DEF e
  <2>2. Appended(e, Whole)
    BY <1>1, <2>1, BlankIn DEF Appended, Whole, Element
  <2>3. QED BY <2>2 DEF e
<1>5. CASE type = "DBRef"
  <2>1. e = Pair("DBRef", name, s.ns.s, s.oid.s)
    BY <1>5 DEF SpecialElement
  <2> HIDE DEF e
  <2>2. Appended(e, Whole)
    BY <1>1, <2>1 DEF Appended, Whole, Pair, Element
  <2>3. QED BY <2>2 DEF e
<1>6. CASE type = "RegEx"
  <2>1. e = Pair("RegEx", name, s.regex.s, s.options.s)
    BY <1>6 DEF SpecialElement
  <2> HIDE DEF e
  <2>2. Appended(e, Whole)
    BY <1>1, <2>1 DEF Appended, Whole, Pair, Element
  <2>3. QED BY <2>2 DEF e
<1>7. QED BY <1>2, <1>3, <1>4, <1>5, <1>6 DEF SpecialTypes

LEMMA SimpleAppended ==
  ASSUME TextOK, NEW name \in Names, Simple(name) # << >>
  PROVE  Appended(Simple(name)[1], Whole)
<1> DEFINE int == IF -IntMax - 2 <= Tok.n /\ Tok.n <= IntMax THEN "NumberInt" ELSE "NumberLong"
<1>0. Tok.s \in Strs
  BY TokenStrings DEF Tok, TextOK
<1>1. \A type \in Whole : \A n : Appended(Number(type, name, n), Whole) /\ Appended(Plain(type, name), Whole)
  BY BlankIn DEF Appended, Number, Plain, Element
<1>2. \A type \in Whole : Appended(Text(type, name, Tok.s), Whole)
  BY <1>0, BlankIn DEF Appended, Text, Element
<1>3. /\ {"String", "NumberDouble", "NumberInt", "NumberLong", "Bool", "jstNULL"} \subseteq Whole
      /\ int \in Whole
  BY DEF Whole
<1>4. \A e : <<e>>[1] = e
  OBVIOUS
<1>5. Word("true").k = "word" /\ Word("false").k = "word" /\ Word("null").k = "word"
  BY DEF Word, Token
<1> HIDE DEF int
<1>6. \/ Simple(name) = <<Text("String", name, Tok.s)>>
      \/ Simple(name) = <<Number("NumberDouble", name, Tok.n)>>
      \/ Simple(name) = <<Number(int, name, Tok.n)>>
      \/ Simple(name) = <<Number("Bool", name, 1)>>
      \/ Simple(name) = <<Number("Bool", name, 0)>>
      \/ Simple(name) = <<Plain("jstNULL", name)>>
  BY SMTT(30) DEF Simple, int
<1>7. /\ Appended(Text("String", name, Tok.s), Whole)
      /\ Appended(Number("NumberDouble", name, Tok.n), Whole)
      /\ Appended(Number(int, name, Tok.n), Whole)
      /\ Appended(Number("Bool", name, 1), Whole) /\ Appended(Number("Bool", name, 0), Whole)
      /\ Appended(Plain("jstNULL", name), Whole)
  BY <1>1, <1>2, <1>3
<1>8. PICK e : Simple(name) = <<e>> /\ Appended(e, Whole)
  BY <1>6, <1>7, Zenon
<1>9. QED BY <1>4, <1>8

-----------------------------------------------------------------------------
(***************************************************************************)
(* Steps                                                                   *)
(***************************************************************************)
LEMMA BuilderIs ==
  ASSUME StackOK, NEW i \in DOMAIN builders
  PROVE  /\ builders[i] \in BuilderStates /\ builders[i].offset \in Nat
         /\ builders[i].index \in Nat /\ builders[i].index < pos
<1>1. builders \in Seq(BuilderStates) /\ i \in 1..Len(builders)
  BY DEF StackOK
<1>2. builders[i] \in BuilderStates
  BY <1>1, ElementOfSeq
<1>3. QED BY <1>2 DEF BuilderStates, StackOK

\* Builders that stay where they are in a buffer that does not shrink.
LEMMA StackStays ==
  ASSUME StackOK, ObjectsNested, pos \in Nat, pos' \in Nat, pos <= pos',
         Len(buf) \in Nat, Len(buf') \in Nat, Len(buf) <= Len(buf'),
         builders' \in Seq(BuilderStates), Len(builders') = Len(builders),
         \A i \in DOMAIN builders : /\ builders'[i].offset = builders[i].offset
                                    /\ builders'[i].index < pos'
  PROVE  StackOK' /\ ObjectsNested'
<1>1. DOMAIN builders = 1..Len(builders) /\ DOMAIN builders' = 1..Len(builders)
  BY DEF StackOK
<1>2. \A i \in DOMAIN builders : builders[i].offset \in Nat
  BY BuilderIs
<1>3. StackOK'
  BY <1>1 DEF StackOK
<1>4. ASSUME NEW i \in DOMAIN builders, NEW j \in DOMAIN builders
      PROVE  /\ builders'[i].offset + 4 <= Len(buf')
             /\ i < j => builders'[i].offset + 4 < builders'[j].offset
  BY <1>2 DEF ObjectsNested
<1>5. ObjectsNested'
  BY <1>1, <1>4 DEF ObjectsNested
<1>6. QED BY <1>3, <1>5

LEMMA StackSame ==
  ASSUME StackOK, ObjectsNested, pos \in Nat, pos' \in Nat, pos <= pos',
         Len(buf) \in Nat, Len(buf') \in Nat, Len(buf) <= Len(buf'), builders' = builders
  PROVE  StackOK' /\ ObjectsNested'
<1>1. ASSUME NEW i \in DOMAIN builders
      PROVE  builders'[i].offset = builders[i].offset /\ builders'[i].index < pos'
  <2>1. builders[i].index \in Nat /\ builders[i].index < pos
    BY BuilderIs
  <2>2. QED BY <2>1
<1>2. builders' \in Seq(BuilderStates) /\ Len(builders') = Len(builders)
  BY DEF StackOK
<1>3. QED BY <1>1, <1>2, StackStays

\* The last builder.
LEMMA BackIs ==
  ASSUME StackOK, builders # << >>
  PROVE  /\ Top \in DOMAIN builders /\ Top \in Nat /\ 1 <= Top
         /\ Back \in BuilderStates /\ Back.index < pos
<1>1. Top \in Nat /\ DOMAIN builders = 1..Top /\ Top # 0
  BY DEF StackOK, Top
<1>2. Top \in 1..Top
  BY <1>1
<1>3. Back \in BuilderStates
  BY <1>1, <1>2, ElementOfSeq DEF StackOK, Back, Top
<1>4. QED BY <1>1, <1>2, <1>3 DEF StackOK, Back

LEMMA BackSet ==
  ASSUME StackOK, ObjectsNested, pos \in Nat, pos' \in Nat, pos <= pos',
         Len(buf) \in Nat, Len(buf') \in Nat, Len(buf) <= Len(buf'), builders # << >>,
         NEW b \in BuilderStates, b.offset = Back.offset, b.index < pos', SetBack(b)
  PROVE  StackOK' /\ ObjectsNested' /\ builders' # << >>
<1>1. Top \in 1..Len(builders) /\ builders \in Seq(BuilderStates)
  BY BackIs DEF StackOK
<1>2. builders' = [builders EXCEPT ![Top] = b]
  BY DEF SetBack
<1>3. builders' \in Seq(BuilderStates) /\ Len(builders') = Len(builders)
  BY <1>1, <1>2, ExceptSeq
<1>4. ASSUME NEW i \in DOMAIN builders
      PROVE  builders'[i].offset = builders[i].offset /\ builders'[i].index < pos'
  <2>1. builders[i].index \in Nat /\ builders[i].index < pos
    BY BuilderIs
  <2>2. CASE i = Top
    BY <1>2, <2>2 DEF Back
  <2>3. CASE i # Top
    <3>1. builders'[i] = builders[i]
      BY <1>2, <2>3
    <3>2. QED BY <2>1, <3>1
  <2>4. QED BY <2>2, <2>3
<1>5. builders' # << >>
  BY <1>1, <1>3
<1>6. QED BY <1>3, <1>4, <1>5, StackStays

LEMMA NewBuilder ==
  ASSUME TextOK, NEW offset \in Nat, NEW array \in BOOLEAN
  PROVE  /\ Builder(offset, array) \in BuilderStates
         /\ Builder(offset, array).offset = offset
         /\ Builder(offset, array).index = 0
<1>1. 0 \in 0..Len(text.tokens)
  BY TextLength
<1>2. <<numStr(0)>> \in Names /\ << >> \in Names
  BY <1>1, IndexNames DEF Names
<1> DEFINE name == IF array THEN <<numStr(0)>> ELSE << >>
<1>3. name \in Names
  BY <1>2
<1>4. Builder(offset, array) = [offset |-> offset, done |-> "open", array |-> array, index |-> 0,
                                name |-> name]
  BY DEF Builder
<1> HIDE DEF name
<1>5. QED BY <1>3, <1>4 DEF BuilderStates, Stages

\* Nothing is parsed once the buffer is freed.
LEMMA NotFreed ==
  ASSUME FreedOK, phase = "parsing"
  PROVE  ~freed
  BY DEF FreedOK

\* A step that reads a token and writes nothing.
LEMMA ReadingStep ==
  ASSUME Inv, builders # << >>, NEW n \in Nat, NEW next, next # "start", Consume(n, next),
         UNCHANGED <<phase, scratch, bufVars>>, Keep, StackOK', ObjectsNested', builders' # << >>
  PROVE  Inv'
<1>1. /\ pos' = pos + n /\ expect' = next /\ text' = text /\ phase' = phase /\ scratch' = scratch
      /\ buf' = buf /\ size' = size /\ freed' = freed /\ phase = "parsing"
  BY DEF Consume, Keep, bufVars
<1>2. TextOK'
  BY <1>1 DEF Inv, TextOK
<1>3. ScratchOK'
  BY <1>1 DEF Inv, ScratchOK
<1>4. GrammarOK'
  BY <1>1 DEF GrammarOK
<1>5. FreedOK'
  BY <1>1 DEF Inv, FreedOK
<1>6. BufferOK' /\ InsideBuffer'
  BY <1>1 DEF Inv, BufferOK, Sequence, InsideBuffer
<1>7. QED BY <1>2, <1>3, <1>4, <1>5, <1>6 DEF Inv

LEMMA NamedBuilder ==
  ASSUME NEW b \in BuilderStates, NEW n \in Names
  PROVE  /\ [b EXCEPT !.name = n] \in BuilderStates
         /\ [b EXCEPT !.name = n].offset = b.offset /\ [b EXCEPT !.name = n].index = b.index
         /\ [b EXCEPT !.index = @ + 1, !.name = n] \in BuilderStates
         /\ [b EXCEPT !.index = @ + 1, !.name = n].offset = b.offset
         /\ [b EXCEPT !.index = @ + 1, !.name = n].index = b.index + 1
<1>1. /\ b.offset \in Nat /\ b.done \in Stages /\ b.array \in BOOLEAN /\ b.index \in Nat
      /\ b = [offset |-> b.offset, done |-> b.done, array |-> b.array, index |-> b.index, name |-> b.name]
  BY DEF BuilderStates
<1>2. [b EXCEPT !.name = n] =
        [offset |-> b.offset, done |-> b.done, array |-> b.array, index |-> b.index, name |-> n]
  BY <1>1
<1>3. [b EXCEPT !.index = @ + 1, !.name = n] =
        [offset |-> b.offset, done |-> b.done, array |-> b.array, index |-> b.index + 1, name |-> n]
  <2> DEFINE i == b.index + 1
  <2>1. [b EXCEPT !.index = @ + 1, !.name = n] = [b EXCEPT !.index = i, !.name = n]
    OBVIOUS
  <2> HIDE DEF i
  <2> DEFINE c == [b EXCEPT !.index = i]
  <2>2. c = [offset |-> b.offset, done |-> b.done, array |-> b.array, index |-> i, name |-> b.name]
    BY <1>1
  <2>3. [b EXCEPT !.index = i, !.name = n] = [c EXCEPT !.name = n]
    OBVIOUS
  <2> HIDE DEF c
  <2>4. [c EXCEPT !.name = n] =
          [offset |-> b.offset, done |-> b.done, array |-> b.array, index |-> i, name |-> n]
    BY <2>2
  <2>5. QED BY <2>1, <2>3, <2>4 DEF i
<1>4. b.index + 1 \in Nat
  BY <1>1
<1>5. \A i \in Nat :
        [offset |-> b.offset, done |-> b.done, array |-> b.array, index |-> i, name |-> n] \in BuilderStates
  BY <1>1 DEF BuilderStates
<1>6. QED BY <1>1, <1>2, <1>3, <1>4, <1>5

LEMMA FieldNameKeeps ==
  ASSUME Inv, FieldName \/ UnquotedFieldName
  PROVE  Inv'
<1> DEFINE b == [Back EXCEPT !.name = NameOf(Tok.s)]
<1>1. /\ Consume(1, "colon") /\ SetBack(b) /\ UNCHANGED <<phase, scratch, bufVars>> /\ Keep /\ AtName
      /\ phase = "parsing"
  BY DEF FieldName, UnquotedFieldName, Consume
<1>2. builders # << >>
  BY <1>1 DEF Inv, GrammarOK, AtName
<1>3. NameOf(Tok.s) \in Names
  BY ElementNames DEF Inv, TextOK, Tok
<1>4. /\ Back \in BuilderStates /\ Back.index < pos
      /\ b \in BuilderStates /\ b.offset = Back.offset /\ b.index = Back.index /\ b.index \in Nat
  BY <1>2, <1>3, BackIs, NamedBuilder DEF Inv, BuilderStates
<1> HIDE DEF b
<1>5. pos \in Nat /\ pos' = pos + 1 /\ Len(buf) \in Nat /\ buf' = buf
  BY <1>1, NowIs DEF Inv, TextOK, Consume, bufVars
<1>6. StackOK' /\ ObjectsNested' /\ builders' # << >>
  <2>1. b.index < pos'
    BY <1>4, <1>5
  <2>2. QED BY <1>1, <1>2, <1>4, <1>5, <2>1, BackSet DEF Inv
<1>7. QED BY <1>1, <1>2, <1>6, ReadingStep

LEMMA ColonKeeps ==
  ASSUME Inv, Colon
  PROVE  Inv'
<1>1. /\ Consume(1, "value") /\ UNCHANGED <<phase, scratch, bufVars>> /\ Keep /\ builders' = builders
      /\ phase = "parsing" /\ expect = "colon"
  BY DEF Colon, Consume
<1>2. builders # << >>
  BY <1>1 DEF Inv, GrammarOK
<1>3. pos \in Nat /\ pos' = pos + 1 /\ Len(buf) \in Nat /\ buf' = buf
  BY <1>1, NowIs DEF Inv, TextOK, Consume, bufVars
<1>4. StackOK' /\ ObjectsNested'
  BY <1>1, <1>3, StackSame DEF Inv
<1>5. QED BY <1>1, <1>2, <1>4, ReadingStep

LEMMA CommaKeeps ==
  ASSUME Inv, Comma
  PROVE  Inv'
<1> DEFINE next == IF Back.array THEN "value" ELSE "name"
           b == [Back EXCEPT !.index = @ + 1, !.name = <<numStr(Back.index + 1)>>]
<1>1. /\ Consume(1, next) /\ UNCHANGED <<phase, scratch, bufVars>> /\ Keep
      /\ phase = "parsing" /\ expect = "next" /\ Tok = P(",")
      /\ IF Back.array THEN SetBack(b) ELSE UNCHANGED builders
  BY DEF Comma, Consume
<1>2. builders # << >>
  BY <1>1 DEF Inv, GrammarOK
<1>3. pos \in Nat /\ pos' = pos + 1 /\ Len(buf) \in Nat /\ buf' = buf
  BY <1>1, NowIs DEF Inv, TextOK, Consume, bufVars
<1>4. Back \in BuilderStates /\ Back.index < pos /\ Back.index \in Nat
  BY <1>2, BackIs DEF Inv, BuilderStates
\* There is a token behind each index, so its name is one of those that are known.
<1>5. pos <= Len(text.tokens) /\ Len(text.tokens) \in Nat
  <2>1. End # P(",")
    BY DEF End, P, Token
  <2>2. QED BY <1>1, <2>1, TextLength DEF Tok, At, Inv
<1>6. Back.index + 1 \in 0..Len(text.tokens)
  BY <1>3, <1>4, <1>5
<1>7. <<numStr(Back.index + 1)>> \in Names
  BY <1>6, IndexNames DEF Inv
<1>8. b \in BuilderStates /\ b.offset = Back.offset /\ b.index = Back.index + 1
  BY <1>4, <1>7, NamedBuilder
<1> HIDE DEF b
<1>9. StackOK' /\ ObjectsNested' /\ builders' # << >>
  <2>1. CASE Back.array
    <3>1. SetBack(b)
      BY <1>1, <2>1, Zenon
    <3>2. b.index < pos'
      BY <1>3, <1>4, <1>8
    <3>3. QED BY <1>2, <1>3, <1>8, <3>1, <3>2, BackSet DEF Inv
  <2>2. CASE ~Back.array
    <3>1. builders' = builders
      BY <1>1, <2>2, Zenon
    <3>2. QED BY <1>2, <1>3, <3>1, StackSame DEF Inv
  <2>3. QED BY <2>1, <2>2
<1>10. next # "start"
  OBVIOUS
<1> HIDE DEF next
<1>11. QED BY <1>1, <1>2, <1>9, <1>10, ReadingStep

\* A step that reads nothing and writes nothing.
LEMMA IdleStep ==
  ASSUME Inv, phase' \in {"returned", "unwinding", "thrown"}, phase' = "returned" => phase = "parsing",
         freed => phase' \in {"unwinding", "thrown"},
         UNCHANGED <<text, pos, expect, builders, scratch, bufVars, freed>>
  PROVE  Inv'
<1>1. /\ pos' = pos /\ text' = text /\ scratch' = scratch /\ builders' = builders
      /\ buf' = buf /\ size' = size /\ freed' = freed
  BY DEF bufVars
<1>2. TextOK' /\ ScratchOK' /\ StackOK' /\ ObjectsNested' /\ GrammarOK'
  BY <1>1 DEF Inv, TextOK, ScratchOK, StackOK, ObjectsNested, GrammarOK
<1>3. FreedOK'
  BY <1>1 DEF Inv, FreedOK
<1>4. BufferOK' /\ InsideBuffer'
  BY <1>1 DEF Inv, BufferOK, Sequence, InsideBuffer
<1>5. QED BY <1>2, <1>3, <1>4 DEF Inv

LEMMA IdleKeeps ==
  ASSUME Inv, ParseNothing \/ Throw \/ Unwound
  PROVE  Inv'
<1>1. CASE ParseNothing
  BY <1>1, IdleStep, NotFreed DEF ParseNothing, Inv
<1>2. CASE Throw
  BY <1>2, IdleStep, NotFreed DEF Throw, Inv
<1>3. CASE Unwound
  BY <1>3, IdleStep DEF Unwound
<1>4. QED BY <1>1, <1>2, <1>3

LEMMA ObjectStartKeeps ==
  ASSUME Inv, ObjectStart
  PROVE  Inv'
<1>1. /\ phase = "parsing" /\ phase' = phase /\ pos' = pos + 1 /\ expect' = "first name"
      /\ text' = text /\ scratch' = scratch /\ freed' = freed
  BY DEF ObjectStart, Consume, Keep
<1>0. builders' = <<Builder(4, FALSE)>> /\ buf' = Skipped(8) /\ size' = InitSize + 4
  BY DEF ObjectStart
<1>2. TextOK' /\ ScratchOK'
  <2>1. TextOK'
    <3>1. text \in Texts /\ pos \in Nat /\ 1 <= pos
      BY DEF Inv, TextOK
    <3>2. text' = text /\ pos' = pos + 1
      BY <1>1, Zenon
    <3>3. text' \in Texts /\ pos' \in Nat /\ 1 <= pos'
      BY <3>1, <3>2
    <3>4. QED BY <3>3 DEF TextOK
  <2>2. ScratchOK'
    BY <1>1 DEF Inv, ScratchOK
  <2>3. QED BY <2>1, <2>2
<1> DEFINE b == Builder(4, FALSE)
<1>3. b \in BuilderStates /\ b.offset = 4 /\ b.index = 0
  BY NewBuilder DEF Inv
<1>4. Sequence(buf') /\ Len(buf') = 8
  <2>1. 8 \in Nat /\ 1 <= 8
    OBVIOUS
  <2>2. Sequence(Skipped(8)) /\ Len(Skipped(8)) = 8
    BY <2>1, BytesAre, Zenon DEF Skipped
  <2>3. QED BY <1>0, <2>2, Zenon
<1>5. builders' = <<b>>
  BY <1>0, Zenon
<1> HIDE DEF b
<1>6. /\ builders' \in Seq(BuilderStates) /\ DOMAIN builders' = {1} /\ builders'[1] = b
      /\ builders' # << >>
  BY <1>3, <1>5
<1>7. StackOK' /\ ObjectsNested'
  <2>1. b.index < pos' /\ b.offset + 4 <= Len(buf')
    <3>1. pos \in Nat /\ pos' = pos + 1
      BY <1>1, Zenon DEF Inv, TextOK
    <3>2. QED BY <1>3, <1>4, <3>1
  <2>2. StackOK'
    BY <1>6, <2>1 DEF StackOK
  <2>3. QED BY <1>6, <2>1, <2>2 DEF ObjectsNested
<1>8. GrammarOK'
  BY <1>1, <1>6 DEF GrammarOK
<1>9. FreedOK'
  BY <1>1, NotFreed DEF Inv, FreedOK
<1>10. BufferOK' /\ InsideBuffer'
  <2>1. size' = InitSize + 4
    BY <1>0, Zenon
  <2>2. size' \in Nat /\ size' <= BufferMaxSize /\ 8 <= size'
    BY <2>1, Limits
  <2>3. QED BY <1>4, <2>2 DEF BufferOK, InsideBuffer, Sequence
<1>11. QED BY <1>2, <1>7, <1>8, <1>9, <1>10 DEF Inv

\* A step that appends, whether all of it fits or not; what it does to the
\* builders is seen to by the caller.
LEMMA AppendingStep ==
  ASSUME Inv, phase = "parsing", builders # << >>, NEW n \in Nat, NEW next, next # "start",
         pos' = pos + n, expect' = next, text' = text, freed' = freed,
         NEW bytes, NEW pieces, NEW m \in Nat, Sequence(bytes), Len(bytes) = m,
         Moved(Now, After(pieces), m), AppendBytes(bytes, pieces),
         ScratchOK', StackOK', ObjectsNested', builders' # << >>
  PROVE  Inv'
<1>1. BufferOK /\ Len(buf) <= size
  BY DEF Inv, InsideBuffer
<1>2. /\ BufferOK' /\ phase' \in {"parsing", "unwinding"}
      /\ phase' = "parsing" => Len(buf') <= size'
  BY <1>1, BytesAppended
<1>3. TextOK'
  <2>1. text \in Texts /\ pos \in Nat /\ 1 <= pos
    BY DEF Inv, TextOK
  <2>2. text' \in Texts /\ pos' \in Nat /\ 1 <= pos'
    BY <2>1
  <2>3. QED BY <2>2 DEF TextOK
<1>4. GrammarOK'
  BY <1>2 DEF GrammarOK
<1>5. FreedOK'
  BY NotFreed DEF Inv, FreedOK
<1>6. InsideBuffer'
  BY <1>2 DEF InsideBuffer, BufferOK
<1>7. QED BY <1>2, <1>3, <1>4, <1>5, <1>6 DEF Inv

LEMMA AfterIs == \A pieces : After(pieces) = Grown(Now, pieces)
  BY DEF After, Now

\* An element that is appended whole.
LEMMA WholeStep ==
  ASSUME Inv, phase = "parsing", builders # << >>, NEW n \in Nat, NEW next, next # "start",
         pos' = pos + n, expect' = next, text' = text, freed' = freed, builders' = builders,
         NEW e, Appended(e, Whole), AppendElement(e), ScratchOK'
  PROVE  Inv'
<1>1. BufferOK /\ Len(buf) <= size /\ Now \in Buffers
  BY NowIs DEF Inv, InsideBuffer
<1>2. /\ ElementSize(e) \in Nat /\ 1 <= ElementSize(e)
      /\ Moved(Now, After(Pieces(e)), ElementSize(e))
  BY <1>1, WholeMoves, AfterIs
<1>3. Sequence(ElementBytes(e)) /\ Len(ElementBytes(e)) = ElementSize(e)
  BY <1>2, BytesAre DEF ElementBytes
<1>4. AppendBytes(ElementBytes(e), Pieces(e))
  BY DEF AppendElement
<1>5. Len(buf) \in Nat /\ Len(buf') \in Nat /\ Len(buf) <= Len(buf')
  BY <1>1, <1>2, <1>3, <1>4, BytesAppended
<1>6. pos \in Nat /\ pos' \in Nat /\ pos <= pos'
  BY DEF Inv, TextOK
<1>7. StackOK' /\ ObjectsNested'
  BY <1>5, <1>6, StackSame DEF Inv
<1>8. QED BY <1>2, <1>3, <1>4, <1>7, AppendingStep

LEMMA AppendSimpleKeeps ==
  ASSUME Inv, AppendSimple
  PROVE  Inv'
<1>1. /\ phase = "parsing" /\ pos' = pos + 1 /\ expect' = "next" /\ text' = text /\ freed' = freed
      /\ builders' = builders /\ scratch' = scratch
      /\ AppendElement(Simple(Back.name)[1]) /\ Simple(Back.name) # << >>
  BY DEF AppendSimple, Consume, Keep
<1>2. expect # "start"
  BY DEF AppendSimple, AtValue
<1>3. builders # << >>
  BY <1>1, <1>2 DEF Inv, GrammarOK
<1>4. Back.name \in Names
  BY <1>3, BackIs DEF Inv, BuilderStates
<1>5. Appended(Simple(Back.name)[1], Whole)
  BY <1>1, <1>4, SimpleAppended DEF Inv
<1>6. ScratchOK'
  BY <1>1 DEF Inv, ScratchOK
<1>7. 1 \in Nat /\ "next" # "start"
  OBVIOUS
<1>8. QED BY <1>1, <1>3, <1>5, <1>6, <1>7, WholeStep, Zenon

LEMMA CapturedKept ==
  ASSUME Inv, scratch' = Captured
  PROVE  ScratchOK'
  BY CapturedOK DEF Inv, ScratchOK

LEMMA AppendSpecialKeeps ==
  ASSUME Inv, AppendSpecial
  PROVE  Inv'
<1> DEFINE f == Min(Hits)
           n == Len(Forms[f].items)
           e == SpecialElement(Forms[f].type, Back.name, Captured)
<1>1. /\ phase = "parsing" /\ pos' = pos + n /\ expect' = "next" /\ text' = text /\ freed' = freed
      /\ builders' = builders /\ scratch' = Captured
      /\ AppendElement(e) /\ Special
  BY DEF AppendSpecial, Consume, Keep
<1>2. expect # "start"
  BY DEF AppendSpecial, AtValue
<1>3. builders # << >>
  BY <1>1, <1>2 DEF Inv, GrammarOK
<1>4. Back.name \in Names
  BY <1>3, BackIs DEF Inv, BuilderStates
<1>5. f \in DOMAIN Forms /\ n \in Nat /\ Forms[f].type \in SpecialTypes
  <2>1. f \in DOMAIN Forms
    BY <1>1, FirstHit
  <2> HIDE DEF f
  <2>2. QED BY <2>1, FormLength, FormsAre
<1>6. Appended(e, Whole)
  <2>1. DOMAIN Captured = Fields /\ \A g \in Fields : Captured[g].s \in Strs
    BY CapturedOK DEF Inv
  <2> HIDE DEF f
  <2>2. QED BY <1>4, <1>5, <2>1, SpecialAppended
<1>7. ScratchOK'
  BY <1>1, CapturedKept
<1>8. "next" # "start"
  OBVIOUS
<1> HIDE DEF f, n, e
<1>9. QED BY <1>1, <1>3, <1>5, <1>6, <1>7, <1>8, WholeStep, Zenon

\* A nested object or array is begun.
LEMMA PushKeeps ==
  ASSUME Inv, phase = "parsing", builders # << >>, NEW next, next # "start", pos' = pos + 1,
         expect' = next, text' = text, freed' = freed, ScratchOK',
         NEW array \in BOOLEAN, Push(array)
  PROVE  Inv'
<1> DEFINE e == Plain(IF array THEN "Array" ELSE "Object", Back.name)
           header == HeaderBytes(e)
           b == Builder(Len(buf) + Len(header), array)
<1>1. /\ AppendBytes(header \o Skipped(4), Pieces(e))
      /\ builders' = IF After(Pieces(e)).ok THEN Append(builders, b) ELSE builders
  BY DEF Push
<1>2. BufferOK /\ Len(buf) <= size /\ Now \in Buffers /\ Len(buf) \in Nat
  BY NowIs DEF Inv, InsideBuffer
<1>3. Appended(e, {"Object", "Array"})
  <2>1. Back.name \in Names
    BY BackIs DEF Inv, BuilderStates
  <2>2. QED BY <2>1, BlankIn DEF Appended, Plain, Element
<1> HIDE DEF e
<1> DEFINE m == 1 + NameSize(e.name)
<1>4. m \in Nat /\ 2 <= m /\ Moved(Now, After(Pieces(e)), m + 4)
  BY <1>2, <1>3, HeaderMoves, AfterIs
<1>5. Sequence(header) /\ Len(header) = m
  BY <1>4, BytesAre DEF HeaderBytes
<1> HIDE DEF m, header
<1>6. Sequence(Skipped(4)) /\ Len(Skipped(4)) = 4
  <2>1. 4 \in Nat /\ 1 <= 4
    OBVIOUS
  <2>2. QED BY <2>1, BytesAre, Zenon DEF Skipped
<1>7. Sequence(header \o Skipped(4)) /\ Len(header \o Skipped(4)) = m + 4 /\ m + 4 \in Nat
  BY <1>4, <1>5, <1>6, JoinedAre
<1>8. /\ Len(buf') \in Nat /\ Len(buf) <= Len(buf')
      /\ After(Pieces(e)).ok => Len(buf') = Len(buf) + (m + 4)
  BY <1>1, <1>2, <1>4, <1>7, BytesAppended
<1>9. pos \in Nat /\ 1 <= pos /\ pos' \in Nat /\ pos < pos'
  BY DEF Inv, TextOK
<1>10. StackOK' /\ ObjectsNested' /\ builders' # << >>
  <2>1. CASE ~After(Pieces(e)).ok
    <3>1. builders' = builders
      BY <1>1, <2>1, Zenon
    <3>2. QED BY <1>2, <1>8, <1>9, <3>1, StackSame DEF Inv
  <2>2. CASE After(Pieces(e)).ok
    <3>1. builders' = Append(builders, b)
      BY <1>1, <2>2, Zenon
    <3>2. b \in BuilderStates /\ b.offset = Len(buf) + m /\ b.index = 0
      BY <1>2, <1>4, <1>5, NewBuilder DEF Inv
    <3> HIDE DEF b
    <3>3. builders \in Seq(BuilderStates) /\ Len(builders) \in Nat /\ DOMAIN builders = 1..Len(builders)
      BY DEF Inv, StackOK
    <3>4. /\ builders' \in Seq(BuilderStates) /\ DOMAIN builders' = 1..(Len(builders) + 1)
          /\ builders'[Len(builders) + 1] = b
          /\ \A i \in DOMAIN builders : builders'[i] = builders[i]
      BY <3>1, <3>2, <3>3
    <3>5. ASSUME NEW i \in DOMAIN builders
          PROVE  /\ builders[i].offset \in Nat /\ builders[i].offset + 4 <= Len(buf)
                 /\ builders[i].index \in Nat /\ builders[i].index < pos
      BY BuilderIs DEF Inv, ObjectsNested
    <3>6. \A i \in DOMAIN builders' : i \in DOMAIN builders \/ i = Len(builders) + 1
      BY <3>3, <3>4
    <3>7. StackOK'
      <4>1. ASSUME NEW i \in DOMAIN builders'
            PROVE  builders'[i].index < pos'
        BY <1>9, <3>2, <3>4, <3>5, <3>6
      <4>2. QED BY <3>4, <4>1 DEF StackOK
    <3>8. ASSUME NEW i \in DOMAIN builders'
          PROVE  builders'[i].offset + 4 <= Len(buf')
      <4>1. CASE i \in DOMAIN builders
        BY <1>2, <1>8, <3>4, <3>5, <4>1
      <4>2. CASE i = Len(builders) + 1
        <5>1. builders'[i].offset = Len(buf) + m
          BY <3>2, <3>4, <4>2
        <5>2. Len(buf') = Len(buf) + (m + 4)
          BY <1>8, <2>2
        <5>3. QED BY <1>2, <1>4, <5>1, <5>2
      <4>3. QED BY <3>6, <4>1, <4>2
    <3>9. ASSUME NEW i \in DOMAIN builders', NEW j \in DOMAIN builders', i < j
          PROVE  builders'[i].offset + 4 < builders'[j].offset
      <4>1. i \in DOMAIN builders
        BY <3>3, <3>4, <3>9
      <4>2. CASE j \in DOMAIN builders
        BY <3>4, <3>9, <4>1, <4>2 DEF Inv, ObjectsNested
      <4>3. CASE j = Len(builders) + 1
        <5>1. builders'[j].offset = Len(buf) + m
          BY <3>2, <3>4, <4>3
        <5>2. builders'[i] = builders[i] /\ builders[i].offset \in Nat /\ builders[i].offset + 4 <= Len(buf)
          BY <3>4, <3>5, <4>1
        <5>3. QED BY <1>2, <1>4, <5>1, <5>2
      <4>4. QED BY <3>6, <4>2, <4>3
    <3>10. ObjectsNested'
      BY <3>8, <3>9 DEF ObjectsNested
    <3>11. builders' # << >>
      BY <3>3, <3>4
    <3>12. QED BY <3>7, <3>10, <3>11
  <2>3. QED BY <2>1, <2>2
<1>11. 1 \in Nat
  OBVIOUS
<1>12. QED BY <1>1, <1>4, <1>7, <1>10, <1>11, AppendingStep, Zenon

LEMMA OpenKeeps ==
  ASSUME Inv, OpenArray \/ OpenObject
  PROVE  Inv'
<1>1. /\ phase = "parsing" /\ pos' = pos + 1 /\ text' = text /\ freed' = freed
      /\ expect' # "start" /\ expect # "start"
  BY DEF OpenArray, OpenObject, Consume, Keep, AtValue
<1>2. builders # << >>
  BY <1>1 DEF Inv, GrammarOK
<1>3. ScratchOK'
  <2>1. CASE OpenArray
    BY <2>1 DEF OpenArray, Inv, ScratchOK
  <2>2. CASE OpenObject
    BY <2>2, CapturedKept DEF OpenObject
  <2>3. QED BY <2>1, <2>2
<1>4. PICK array \in BOOLEAN : Push(array)
  BY DEF OpenArray, OpenObject
<1>5. QED BY <1>1, <1>2, <1>3, <1>4, PushKeeps

-----------------------------------------------------------------------------
(***************************************************************************)
(* The ends of objects                                                     *)
(***************************************************************************)
\* The byte that ends an object.
LEMMA EooMoves ==
  ASSUME BufferOK
  PROVE  /\ After(<<1>>).size \in Nat /\ After(<<1>>).size <= BufferMaxSize
         /\ EooFits /\ Len(buf) <= size => Len(buf) + 1 <= After(<<1>>).size
<1>1. Now \in Buffers /\ Now.len = Len(buf) /\ Now.size = size /\ Now.ok /\ size <= BufferMaxSize
  BY NowIs DEF Now, BufferOK
<1>2. Moved(Now, After(<<1>>), 1)
  <2>1. 1 \in Nat
    OBVIOUS
  <2>2. Moved(Now, Grown(Now, <<1>>), 1)
    BY <1>1, <2>1, GrownMoves
  <2>3. QED BY <2>2, AfterIs
<1>3. QED BY <1>1, <1>2 DEF Moved, Buffers, Fits, EooFits

LEMMA SkippedOne ==
  ASSUME BufferOK
  PROVE  Sequence(buf \o Skipped(1)) /\ Len(buf \o Skipped(1)) = Len(buf) + 1 /\ Len(buf) \in Nat
<1>1. 1 \in Nat /\ 1 <= 1
  OBVIOUS
<1>2. Sequence(Skipped(1)) /\ Len(Skipped(1)) = 1
  BY <1>1, BytesAre, Zenon DEF Skipped
<1>3. QED BY <1>2, JoinedAre DEF BufferOK

LEMMA DoneOne ==
  ASSUME BufferOK, NEW offset \in Nat
  PROVE  /\ Sequence(DoneBytes(buf, offset)) /\ Len(DoneBytes(buf, offset)) = Len(buf) + 1
         /\ Len(buf) \in Nat
  BY EndsWhole, NowIs DEF BufferOK

LEMMA PopKeeps ==
  ASSUME Inv, Pop
  PROVE  Inv'
<1>1. /\ phase = "parsing" /\ pos' = pos + 1 /\ expect' = "next" /\ text' = text /\ freed' = freed
      /\ phase' = phase /\ scratch' = scratch /\ builders # << >> /\ Top > 1 /\ EooFits
      /\ buf' = DoneBytes(buf, Back.offset) /\ size' = After(<<1>>).size /\ builders' = Front(builders)
  BY DEF Pop, Consume, Keep
<1>2. BufferOK /\ Len(buf) <= size
  BY <1>1 DEF Inv, InsideBuffer
<1>3. /\ Sequence(buf') /\ Len(buf') = Len(buf) + 1 /\ Len(buf) \in Nat
      /\ size' \in Nat /\ size' <= BufferMaxSize /\ Len(buf') <= size'
  <2>1. Back.offset \in Nat
    BY <1>1, BackIs DEF Inv, BuilderStates
  <2>2. /\ Sequence(DoneBytes(buf, Back.offset)) /\ Len(DoneBytes(buf, Back.offset)) = Len(buf) + 1
        /\ Len(buf) \in Nat
    BY <1>2, <2>1, DoneOne
  <2>3. QED BY <1>1, <1>2, <2>2, EooMoves
<1>4. BufferOK' /\ InsideBuffer'
  BY <1>3 DEF BufferOK, InsideBuffer
<1>5. TextOK' /\ pos \in Nat /\ pos' \in Nat /\ pos < pos'
  <2>1. text \in Texts /\ pos \in Nat /\ 1 <= pos
    BY DEF Inv, TextOK
  <2>2. text' \in Texts /\ pos' \in Nat /\ 1 <= pos' /\ pos < pos'
    BY <1>1, <2>1
  <2>3. QED BY <2>1, <2>2 DEF TextOK
<1>6. ScratchOK'
  BY <1>1 DEF Inv, ScratchOK
<1>7. /\ builders' \in Seq(BuilderStates) /\ builders' # << >> /\ DOMAIN builders' = 1..(Top - 1)
      /\ DOMAIN builders = 1..Top /\ Top \in Nat
      /\ \A i \in DOMAIN builders' : builders'[i] = builders[i]
  <2>1. builders \in Seq(BuilderStates) /\ Top = Len(builders) /\ Top \in Nat
    BY DEF Inv, StackOK, Top
  <2>2. /\ Front(builders) \in Seq(BuilderStates) /\ Len(Front(builders)) = Top - 1
        /\ \A i \in 1..(Top - 1) : Front(builders)[i] = builders[i]
    BY <1>1, <2>1 DEF Front
  <2>3. QED BY <1>1, <2>1, <2>2
<1>8. StackOK' /\ ObjectsNested'
  <2>1. ASSUME NEW i \in DOMAIN builders'
        PROVE  /\ i \in DOMAIN builders /\ builders'[i] = builders[i]
               /\ builders[i].index \in Nat /\ builders[i].index < pos /\ builders[i].offset \in Nat
    <3>1. i \in DOMAIN builders
      BY <1>7
    <3>2. QED BY <1>7, <3>1, BuilderIs DEF Inv
  <2>2. StackOK'
    BY <1>5, <1>7, <2>1 DEF StackOK
  <2>3. ASSUME NEW i \in DOMAIN builders', NEW j \in DOMAIN builders'
        PROVE  /\ builders'[i].offset + 4 <= Len(buf')
               /\ i < j => builders'[i].offset + 4 < builders'[j].offset
    BY <1>3, <2>1 DEF Inv, ObjectsNested
  <2>4. QED BY <2>2, <2>3 DEF ObjectsNested
<1>9. GrammarOK' /\ FreedOK'
  BY <1>1, <1>7, NotFreed DEF Inv, GrammarOK, FreedOK
<1>10. QED BY <1>4, <1>5, <1>6, <1>8, <1>9 DEF Inv

LEMMA FinishKeeps ==
  ASSUME Inv, Finish
  PROVE  Inv'
<1>1. /\ phase = "parsing" /\ pos' = pos + 1 /\ text' = text /\ freed' = freed
      /\ phase' = "returned" /\ scratch' = scratch /\ builders # << >> /\ EooFits
      /\ buf' = DoneBytes(buf, Back.offset) /\ size' = After(<<1>>).size /\ builders' = << >>
  BY DEF Finish
<1>2. BufferOK /\ Len(buf) <= size
  BY <1>1 DEF Inv, InsideBuffer
<1>3. /\ Sequence(buf') /\ Len(buf') = Len(buf) + 1 /\ Len(buf) \in Nat
      /\ size' \in Nat /\ size' <= BufferMaxSize /\ Len(buf') <= size'
  <2>1. Back.offset \in Nat
    BY <1>1, BackIs DEF Inv, BuilderStates
  <2>2. /\ Sequence(DoneBytes(buf, Back.offset)) /\ Len(DoneBytes(buf, Back.offset)) = Len(buf) + 1
        /\ Len(buf) \in Nat
    BY <1>2, <2>1, DoneOne
  <2>3. QED BY <1>1, <1>2, <2>2, EooMoves
<1>4. BufferOK' /\ InsideBuffer'
  BY <1>3 DEF BufferOK, InsideBuffer
<1>5. TextOK'
  <2>1. text \in Texts /\ pos \in Nat /\ 1 <= pos
    BY DEF Inv, TextOK
  <2>2. text' \in Texts /\ pos' \in Nat /\ 1 <= pos'
    BY <1>1, <2>1
  <2>3. QED BY <2>2 DEF TextOK
<1>6. ScratchOK'
  BY <1>1 DEF Inv, ScratchOK
<1>7. StackOK' /\ ObjectsNested'
  <2>1. builders' \in Seq(BuilderStates) /\ DOMAIN builders' = {}
    BY <1>1
  <2>2. QED BY <2>1 DEF StackOK, ObjectsNested
<1>8. GrammarOK' /\ FreedOK'
  BY <1>1, NotFreed DEF Inv, GrammarOK, FreedOK
<1>9. QED BY <1>4, <1>5, <1>6, <1>7, <1>8 DEF Inv

\* A step of unwinding: nothing is promised of the bytes past the size.
LEMMA UnwindingStep ==
  ASSUME Inv, UNCHANGED <<text, pos, scratch>>, phase' \in {"unwinding", "terminated"},
         Sequence(buf'), size' \in Nat, size' <= BufferMaxSize,
         StackOK', ObjectsNested', FreedOK'
  PROVE  Inv'
<1>1. TextOK' /\ ScratchOK'
  BY DEF Inv, TextOK, ScratchOK
<1>2. GrammarOK' /\ BufferOK' /\ InsideBuffer'
  BY DEF GrammarOK, BufferOK, InsideBuffer
<1>3. QED BY <1>1, <1>2 DEF Inv

LEMMA DoneBuilder ==
  ASSUME NEW b \in BuilderStates, NEW d \in Stages
  PROVE  /\ [b EXCEPT !.done = d] \in BuilderStates /\ [b EXCEPT !.done = d].offset = b.offset
         /\ [b EXCEPT !.done = d].index = b.index /\ [b EXCEPT !.done = d].done = d
<1>1. /\ b.offset \in Nat /\ b.array \in BOOLEAN /\ b.index \in Nat /\ b.name \in Names
      /\ b = [offset |-> b.offset, done |-> b.done, array |-> b.array, index |-> b.index, name |-> b.name]
  BY DEF BuilderStates
<1>2. [b EXCEPT !.done = d] =
        [offset |-> b.offset, done |-> d, array |-> b.array, index |-> b.index, name |-> b.name]
  BY <1>1
<1>3. QED BY <1>1, <1>2 DEF BuilderStates

\* The builder whose end throws has done what it does to the buffer.
LEMMA CalledStep ==
  ASSUME Inv, Ending, UNCHANGED <<text, pos, scratch>>, phase' = "unwinding",
         freed' => Top = 1, SetBack([Back EXCEPT !.done = "called"]),
         Sequence(buf'), Len(buf') = Len(buf) + 1, size' \in Nat, size' <= BufferMaxSize
  PROVE  Inv'
<1> DEFINE b == [Back EXCEPT !.done = "called"]
<1>1. builders # << >> /\ SetBack(b) /\ pos \in Nat /\ pos' = pos /\ Len(buf) \in Nat
  BY NowIs DEF Ending, Inv, TextOK
<1>2. "called" \in Stages
  BY DEF Stages
<1>3. /\ b \in BuilderStates /\ b.offset = Back.offset /\ b.index = Back.index /\ b.done = "called"
      /\ Back.index < pos
  BY <1>1, <1>2, BackIs, DoneBuilder DEF Inv
<1>4. builders' = [builders EXCEPT ![Top] = b]
  BY DEF SetBack
<1> HIDE DEF b
<1>5. StackOK' /\ ObjectsNested'
  <2>1. pos' \in Nat /\ pos <= pos' /\ b.index < pos' /\ Len(buf') \in Nat /\ Len(buf) <= Len(buf')
    BY <1>1, <1>3
  <2>2. QED BY <1>1, <1>3, <2>1, BackSet DEF Inv
<1>6. FreedOK'
  <2>1. ASSUME freed', NEW i \in DOMAIN builders'
        PROVE  builders'[i].done # "open" /\ ~(i > 1)
    <3>0. DOMAIN builders' = DOMAIN builders
      BY <1>4
    <3>1. DOMAIN builders' = 1..Top
      BY <3>0 DEF Inv, StackOK, Top
    <3>2. i = 1 /\ i = Top
      <4>1. freed' /\ i \in DOMAIN builders'
        BY <2>1
      <4>2. Top = 1
        BY <4>1
      <4>3. QED BY <3>1, <4>1, <4>2
    <3>3. builders'[i] = b
      BY <1>4, <2>1, <3>1, <3>2
    <3>4. QED BY <1>3, <3>2, <3>3
  <2>2. QED BY <2>1 DEF FreedOK
<1>7. QED BY <1>5, <1>6, UnwindingStep

LEMMA EndThrowsKeeps ==
  ASSUME Inv, TooLarge \/ DoneThrows
  PROVE  Inv'
<1>1. BufferOK /\ Len(buf) \in Nat
  BY NowIs DEF Inv
<1>2. CASE TooLarge
  <2>1. /\ Ending /\ UNCHANGED <<text, pos, scratch>> /\ phase' = "unwinding" /\ (freed' => Top = 1)
        /\ SetBack([Back EXCEPT !.done = "called"])
        /\ buf' = DoneBytes(buf, Back.offset) /\ size' = After(<<1>>).size
    BY <1>2 DEF TooLarge
  <2>2. Back.offset \in Nat
    BY <2>1, BackIs DEF Inv, BuilderStates, Ending
  <2>3. Sequence(buf') /\ Len(buf') = Len(buf) + 1
    BY <1>1, <2>1, <2>2, DoneOne
  <2>4. size' \in Nat /\ size' <= BufferMaxSize
    BY <1>1, <2>1, EooMoves
  <2>5. QED BY <2>1, <2>3, <2>4, CalledStep
<1>3. CASE DoneThrows
  <2>1. /\ Ending /\ UNCHANGED <<text, pos, scratch>> /\ phase' = "unwinding" /\ freed' = freed
        /\ SetBack([Back EXCEPT !.done = "called"])
        /\ buf' = buf \o Skipped(1) /\ size' = size
    BY <1>3 DEF DoneThrows
  <2>2. ~freed
    BY <2>1, NotFreed DEF Inv, Ending
  <2>3. Sequence(buf') /\ Len(buf') = Len(buf) + 1
    BY <1>1, <2>1, SkippedOne
  <2>4. QED BY <1>1, <2>1, <2>2, <2>3, CalledStep DEF BufferOK
<1>4. QED BY <1>2, <1>3

LEMMA UnwindDoneKeeps ==
  ASSUME Inv, UnwindDone
  PROVE  Inv'
<1> DEFINE i == Max(Undone)
<1>1. /\ phase = "unwinding" /\ Undone # {} /\ UNCHANGED <<text, pos, scratch>> /\ freed' = freed
      /\ builders' = [builders EXCEPT ![i].done = "closed"]
      /\ phase' \in {"unwinding", "terminated"}
      /\ buf' \in {buf, DoneBytes(buf, builders[i].offset), buf \o Skipped(1)}
      /\ size' \in {size, After(<<1>>).size}
  <2>1. UnwoundTo(builders[i]) \subseteq {"unwinding", "terminated"}
    BY DEF UnwoundTo
  <2>2. QED BY <2>1 DEF UnwindDone
<1>2. BufferOK /\ Len(buf) \in Nat
  BY NowIs DEF Inv
<1>3. i \in Undone /\ i \in DOMAIN builders
  <2>1. DOMAIN builders = 1..Len(builders) /\ Len(builders) \in Nat
    BY DEF Inv, StackOK
  <2>2. Undone \subseteq 0..Len(builders)
    BY <2>1 DEF Undone
  <2>3. Max(Undone) \in Undone
    BY <1>1, <2>1, <2>2, MaxOf
  <2>4. QED BY <2>3 DEF Undone
<1> HIDE DEF i
<1>4. builders[i] \in BuilderStates /\ builders[i].offset \in Nat /\ i > 1 /\ builders[i].done # "closed"
  BY <1>3, BuilderIs DEF Inv, Undone
<1>5. Sequence(buf') /\ Len(buf') \in Nat /\ Len(buf) <= Len(buf')
  <2>1. CASE buf' = buf
    BY <1>2, <2>1 DEF BufferOK
  <2>2. CASE buf' = DoneBytes(buf, builders[i].offset)
    BY <1>2, <1>4, <2>2, DoneOne
  <2>3. CASE buf' = buf \o Skipped(1)
    BY <1>2, <2>3, SkippedOne
  <2>4. QED BY <1>1, <2>1, <2>2, <2>3
<1>6. size' \in Nat /\ size' <= BufferMaxSize
  BY <1>1, <1>2, EooMoves DEF BufferOK
<1>7. StackOK' /\ ObjectsNested'
  <2> DEFINE b == [builders[i] EXCEPT !.done = "closed"]
  <2>1. builders' = [builders EXCEPT ![i] = b]
    BY <1>1
  <2>2. b \in BuilderStates /\ b.offset = builders[i].offset /\ b.index = builders[i].index
    <3>1. "closed" \in Stages
      BY DEF Stages
    <3>2. QED BY <1>4, <3>1, DoneBuilder
  <2> HIDE DEF b
  <2>3. builders \in Seq(BuilderStates) /\ i \in 1..Len(builders)
    BY <1>3 DEF Inv, StackOK
  <2>4. builders' \in Seq(BuilderStates) /\ Len(builders') = Len(builders)
    BY <2>1, <2>2, <2>3, ExceptSeq
  <2>5. pos \in Nat /\ pos' = pos
    BY <1>1 DEF Inv, TextOK
  <2>6. ASSUME NEW j \in DOMAIN builders
        PROVE  builders'[j].offset = builders[j].offset /\ builders'[j].index < pos'
    <3>1. builders[j].index < pos
      BY BuilderIs DEF Inv
    <3>2. CASE j = i
      BY <1>3, <2>1, <2>2, <2>5, <3>1, <3>2
    <3>3. CASE j # i
      BY <2>1, <2>5, <3>1, <3>3
    <3>4. QED BY <3>2, <3>3
  <2>7. pos' \in Nat /\ pos <= pos' /\ Len(buf') \in Nat /\ Len(buf) <= Len(buf')
    BY <1>2, <1>5, <2>5
  <2>8. QED BY <1>2, <2>4, <2>5, <2>6, <2>7, StackStays DEF Inv
\* Builders are left to be done, so the buffer is not freed.
<1>8. FreedOK'
  BY <1>1, <1>3, <1>4 DEF Inv, FreedOK
<1>9. QED BY <1>1, <1>5, <1>6, <1>7, <1>8, UnwindingStep

LEMMA DestroyBuilderKeeps ==
  ASSUME Inv, DestroyBuilder
  PROVE  Inv' /\ (freed => buf' = buf)
<1> DEFINE first == Head(builders)
<1>1. /\ phase = "unwinding" /\ phase' = phase /\ UNCHANGED <<text, pos, scratch>> /\ Undone = {}
      /\ builders # << >> /\ builders' = Tail(builders) /\ freed' = TRUE /\ size' = size
      /\ buf' = IF first.offset = 4 \/ first.done # "open" THEN buf ELSE DoneBytes(buf, first.offset)
  BY DEF DestroyBuilder
<1>2. BufferOK /\ Len(buf) \in Nat
  BY NowIs DEF Inv
<1>3. builders \in Seq(BuilderStates) /\ Len(builders) \in Nat /\ DOMAIN builders = 1..Len(builders)
  BY DEF Inv, StackOK
<1>4. 1 \in DOMAIN builders /\ first = builders[1]
  BY <1>1, <1>3
<1>5. first.offset \in Nat
  BY <1>4, BuilderIs DEF Inv
<1> HIDE DEF first
<1>6. Sequence(buf') /\ Len(buf') \in Nat /\ Len(buf) <= Len(buf')
  <2>1. CASE buf' = buf
    BY <1>2, <2>1 DEF BufferOK
  <2>2. CASE buf' = DoneBytes(buf, first.offset)
    BY <1>2, <1>5, <2>2, DoneOne
  <2>3. QED BY <1>1, <2>1, <2>2, Zenon
<1>7. /\ builders' \in Seq(BuilderStates) /\ DOMAIN builders' = 1..(Len(builders) - 1)
      /\ \A i \in DOMAIN builders' : builders'[i] = builders[i + 1]
  BY <1>1, <1>3
<1>8. ASSUME NEW i \in DOMAIN builders'
      PROVE  /\ i + 1 \in DOMAIN builders /\ i + 1 > 1 /\ builders'[i] = builders[i + 1]
             /\ builders[i + 1].offset \in Nat /\ builders[i + 1].index < pos
  <2>1. i + 1 \in DOMAIN builders /\ i + 1 > 1
    BY <1>3, <1>7
  <2>2. QED BY <1>7, <2>1, BuilderIs DEF Inv
<1>9. StackOK' /\ ObjectsNested'
  <2>1. StackOK'
    BY <1>1, <1>7, <1>8 DEF StackOK
  <2>2. ASSUME NEW i \in DOMAIN builders', NEW j \in DOMAIN builders'
        PROVE  /\ builders'[i].offset + 4 <= Len(buf')
               /\ i < j => builders'[i].offset + 4 < builders'[j].offset
    <3>1. i \in Nat /\ j \in Nat
      BY <1>3, <1>7
    <3>2. i < j => i + 1 < j + 1
      BY <3>1
    <3>3. QED BY <1>2, <1>6, <1>8, <3>2 DEF Inv, ObjectsNested
  <2>3. QED BY <2>1, <2>2 DEF ObjectsNested
\* The builders above the first are done.
<1>10. FreedOK'
  <2>1. ASSUME NEW i \in DOMAIN builders'
        PROVE  builders'[i].done = "closed"
    <3>1. i + 1 \notin Undone
      BY <1>1
    <3>2. QED BY <1>8, <3>1 DEF Undone
  <2>2. QED BY <1>1, <2>1 DEF FreedOK
<1>11. freed => buf' = buf
  <2>1. freed => first.done # "open"
    BY <1>4 DEF Inv, FreedOK
  <2>2. QED BY <1>1, <2>1, Zenon
<1>12. Inv'
  BY <1>1, <1>2, <1>6, <1>9, <1>10, UnwindingStep DEF BufferOK
<1>13. QED BY <1>11, <1>12

-----------------------------------------------------------------------------
(***************************************************************************)
(* Theorems                                                                *)
(***************************************************************************)
LEMMA InitInv ==
  ASSUME Init
  PROVE  Inv
<1>1. TextOK
  BY DEF Init, TextOK
<1>2. ScratchOK
  BY BlankIn DEF Init, ScratchOK, Fields, End, P, Token
<1>3. StackOK /\ ObjectsNested
  BY DEF Init, StackOK, ObjectsNested
<1>4. GrammarOK /\ FreedOK
  BY DEF Init, GrammarOK, FreedOK
<1>5. BufferOK
  <2>1. << >> \in Seq({})
    OBVIOUS
  <2>2. QED BY <2>1, Limits DEF Init, BufferOK, Sequence
<1>6. InsideBuffer
  BY Limits DEF Init, InsideBuffer
<1>7. QED BY <1>1, <1>2, <1>3, <1>4, <1>5, <1>6 DEF Inv

LEMMA NextInv ==
  ASSUME Inv, [Next]_vars
  PROVE  Inv' /\ (freed => UNCHANGED buf)
<1>1. CASE Parse \/ Throw \/ Unwound
  <2>1. Inv'
    BY <1>1, IdleKeeps, ObjectStartKeeps, FieldNameKeeps, ColonKeeps, CommaKeeps, AppendSimpleKeeps,
       AppendSpecialKeeps, OpenKeeps, PopKeeps, FinishKeeps, EndThrowsKeeps DEF Parse
\* Only steps of the parser change the buffer, and it does not run on a freed one.
  <2>2. phase = "parsing" \/ buf' = buf
    <3>1. CASE Throw \/ Unwound
      BY <3>1 DEF Throw, Unwound, bufVars
    <3>2. CASE Parse
      BY <3>2 DEF Parse, ParseNothing, ObjectStart, FieldName, UnquotedFieldName, Colon, Comma, AppendSimple,
                  AppendSpecial, OpenArray, OpenObject, Pop, Finish, TooLarge, DoneThrows, Ending, Consume
    <3>3. QED BY <1>1, <3>1, <3>2
  <2>3. QED BY <2>1, <2>2, NotFreed DEF Inv
<1>2. CASE UnwindDone
  <2>1. ~freed
    BY <1>2 DEF Inv, FreedOK, UnwindDone, Undone
  <2>2. QED BY <1>2, <2>1, UnwindDoneKeeps
<1>3. CASE DestroyBuilder
  BY <1>3, DestroyBuilderKeeps
<1>4. CASE UNCHANGED vars
  <2>1. /\ UNCHANGED <<text, pos, expect, phase, builders, scratch, freed>> /\ buf' = buf /\ size' = size
    BY <1>4 DEF vars, bufVars
  <2>2. TextOK' /\ ScratchOK' /\ StackOK' /\ ObjectsNested' /\ GrammarOK' /\ FreedOK'
    BY <2>1 DEF Inv, TextOK, ScratchOK, StackOK, ObjectsNested, GrammarOK, FreedOK
  <2>3. BufferOK' /\ InsideBuffer'
    BY <2>1 DEF Inv, BufferOK, Sequence, InsideBuffer
  <2>4. QED BY <2>1, <2>2, <2>3 DEF Inv
<1>5. QED BY <1>1, <1>2, <1>3, <1>4 DEF Next

\* The invariant of reading a text: whatever the text and the limits.
THEOREM Invariance == Spec => []Inv
<1>1. Inv /\ [Next]_vars => Inv'
  BY NextInv
<1>2. QED BY InitInv, <1>1, PTL DEF Spec

\* What the builders write stays inside their buffer as long as a text is
\* parsed, and the buffer within its limit, whatever the names, the nesting and
\* the increments by which it grows (grow_reallocate).
THEOREM StaysInside == Spec => []InsideBuffer
<1>1. Inv => InsideBuffer
  BY DEF Inv
<1>2. QED BY <1>1, Invariance, PTL

\* The objects that are being built lie in each other: the sizes that done and
\* the destructors store are in the room their own builders left for them.
THEOREM StaysNested == Spec => []ObjectsNested
<1>1. Inv => ObjectsNested
  BY DEF Inv
<1>2. QED BY <1>1, Invariance, PTL

\* However a text is refused, no builder writes into the buffer once the first
\* has freed it (~ObjectBuilder).
THEOREM NoWriteAfterFree == Spec => NothingWrittenAfterFree
<1>1. Inv /\ [Next]_vars => [freed => UNCHANGED buf]_vars
  BY NextInv
<1>2. QED BY <1>1, Invariance, PTL DEF Spec, NothingWrittenAfterFree

=============================================================================
