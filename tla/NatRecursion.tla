---------------------------- MODULE NatRecursion ----------------------------
(***************************************************************************)
(* A function that is defined by recursion on the natural numbers          *)
(* satisfies the equation it is defined by, whatever its base and its      *)
(* step.  Documents nest, so their set, sizes and comparison are defined   *)
(* that way; the module is instantiated for each of them.                  *)
(***************************************************************************)
EXTENDS NaturalsInduction, WellFoundedInduction, TLAPS

CONSTANTS Base, Step(_, _)

Recursive[n \in Nat] == IF n = 0 THEN Base ELSE Step(n, Recursive[n - 1])
-----------------------------------------------------------------------------
\* What is true of 0 and passes from each number to the next is true of all.
LEMMA Induction ==
  ASSUME NEW S, 0 \in S, \A n \in Nat : n \in S => n + 1 \in S
  PROVE  Nat \subseteq S
<1> DEFINE bad == Nat \ S
<1>1. SUFFICES ASSUME bad # {} PROVE FALSE
  OBVIOUS
<1>2. PICK n \in bad : \A m \in bad : <<m, n>> \notin OpToRel(<, Nat)
  <2>1. bad \subseteq Nat
    OBVIOUS
  <2> HIDE DEF bad
  <2>2. QED BY <1>1, <2>1, NatLessThanWellFounded, WFMin
<1>3. n \in Nat /\ n # 0 /\ n - 1 \in Nat /\ n - 1 \notin bad
  <2>1. n \in Nat /\ n # 0 /\ n - 1 \in Nat
    <3>1. n \in Nat /\ n \notin S
      BY <1>2
    <3> HIDE DEF bad
    <3>2. n # 0
      BY <3>1
    <3>3. QED BY <3>1, <3>2
  <2>2. <<n - 1, n>> \in OpToRel(<, Nat)
    BY <2>1 DEF OpToRel
  <2>3. QED BY <1>2, <2>1, <2>2
<1>4. n - 1 + 1 = n /\ n - 1 \in S
  BY <1>3
<1>5. QED BY <1>2, <1>3, <1>4

\* A solution of the equation up to a number.
Body(g, n) == IF n = 0 THEN Base ELSE Step(n, g[n - 1])
UpTo(g, m) == g = [n \in 0..m |-> Body(g, n)]

\* Two solutions agree where both are.
LEMMA Unique ==
  ASSUME NEW m \in Nat, NEW k \in Nat, NEW g, UpTo(g, m), NEW h, UpTo(h, k)
  PROVE  \A n \in 0..m : n \in 0..k => g[n] = h[n]
<1> DEFINE S == {n \in Nat : n \in 0..m /\ n \in 0..k => g[n] = h[n]}
<1>1. 0 \in S
  <2>1. g[0] = Base /\ h[0] = Base
    BY DEF UpTo, Body
  <2>2. QED BY <2>1
<1>2. ASSUME NEW n \in Nat, n \in S
      PROVE  n + 1 \in S
  <2>1. SUFFICES ASSUME n + 1 \in 0..m, n + 1 \in 0..k
                 PROVE  g[n + 1] = h[n + 1]
    OBVIOUS
  <2>2. g[n] = h[n] /\ n + 1 # 0 /\ n + 1 - 1 = n
    BY <1>2, <2>1
  <2>3. g[n + 1] = Step(n + 1, g[n]) /\ h[n + 1] = Step(n + 1, h[n])
    BY <2>1, <2>2 DEF UpTo, Body
  <2>4. QED BY <2>2, <2>3
<1>3. Nat \subseteq S
  <2> HIDE DEF S
  <2>1. QED BY <1>1, <1>2, Induction
<1>4. QED BY <1>3

\* There is a solution up to each number.
LEMMA Exists == \A m \in Nat : \E g : UpTo(g, m)
<1> DEFINE S == {m \in Nat : \E g : UpTo(g, m)}
<1>1. 0 \in S
  <2> DEFINE g == [n \in 0..0 |-> Base]
  <2>1. g = [n \in 0..0 |-> Body(g, n)]
    BY DEF Body
  <2> HIDE DEF g
  <2>2. UpTo(g, 0)
    BY <2>1 DEF UpTo
  <2>3. QED BY <2>2
<1>2. ASSUME NEW m \in Nat, m \in S
      PROVE  m + 1 \in S
  <2>1. PICK g : UpTo(g, m)
    BY <1>2
  <2> DEFINE h == [n \in 0..(m + 1) |-> IF n = m + 1 THEN Step(m + 1, g[m]) ELSE g[n]]
  <2>2. ASSUME NEW n \in 0..(m + 1)
        PROVE  h[n] = Body(h, n)
    <3>1. CASE n = m + 1
      <4>1. h[n] = Step(m + 1, g[m]) /\ h[m] = g[m] /\ n - 1 = m /\ n # 0
        BY <3>1
      <4> HIDE DEF h
      <4>2. QED BY <3>1, <4>1 DEF Body
    <3>2. CASE n # m + 1 /\ n # 0
      <4>1. h[n] = g[n] /\ h[n - 1] = g[n - 1] /\ n \in 0..m
        BY <3>2
      <4> HIDE DEF h
      <4>2. g[n] = Body(g, n)
        BY <2>1, <4>1 DEF UpTo
      <4>3. QED BY <3>2, <4>1, <4>2 DEF Body
    <3>3. CASE n = 0
      <4>1. h[n] = g[0] /\ 0 \in 0..m
        BY <3>3
      <4> HIDE DEF h
      <4>2. g[0] = Body(g, 0)
        BY <2>1, <4>1 DEF UpTo
      <4>3. QED BY <3>3, <4>1, <4>2 DEF Body
    <3>4. QED BY <3>1, <3>2, <3>3
  <2>3. h = [n \in 0..(m + 1) |-> h[n]]
    OBVIOUS
  <2> HIDE DEF h
  <2>4. UpTo(h, m + 1)
    BY <2>2, <2>3 DEF UpTo
  <2>5. QED BY <2>4
<1>3. Nat \subseteq S
  <2> HIDE DEF S
  <2>1. QED BY <1>1, <1>2, Induction
<1>4. QED BY <1>3

\* The function is the one solution for all numbers: it is put together from the
\* solutions up to each of them.
THEOREM Unfold ==
  /\ Recursive = [n \in Nat |-> IF n = 0 THEN Base ELSE Step(n, Recursive[n - 1])]
  /\ Recursive[0] = Base
  /\ \A n \in Nat : Recursive[n + 1] = Step(n + 1, Recursive[n])
<1> DEFINE sol(m) == CHOOSE g : UpTo(g, m)
           f == [n \in Nat |-> sol(n)[n]]
<1>1. \A m \in Nat : UpTo(sol(m), m)
  BY Exists
<1>2. ASSUME NEW n \in Nat
      PROVE  f[n] = Body(f, n)
  <2>1. f[n] = sol(n)[n] /\ sol(n)[n] = Body(sol(n), n)
    <3>1. UpTo(sol(n), n) /\ n \in 0..n
      BY <1>1
    <3> HIDE DEF sol
    <3>2. QED BY <3>1 DEF UpTo
  <2>2. CASE n = 0
    BY <2>1, <2>2 DEF Body
  <2>3. CASE n # 0
    <3>1. n - 1 \in Nat /\ n - 1 \in 0..n /\ n - 1 \in 0..(n - 1)
      BY <2>3
    <3>2. UpTo(sol(n), n) /\ UpTo(sol(n - 1), n - 1)
      BY <1>1, <3>1
    <3> HIDE DEF sol
    <3>3. sol(n)[n - 1] = sol(n - 1)[n - 1]
      BY <3>1, <3>2, Unique
    <3>4. f[n - 1] = sol(n)[n - 1]
      BY <3>1, <3>3
    <3> HIDE DEF f
    <3>5. QED BY <2>1, <2>3, <3>4 DEF Body
  <2>4. QED BY <2>2, <2>3
<1>3. f = [n \in Nat |-> IF n = 0 THEN Base ELSE Step(n, f[n - 1])]
  <2>1. f = [n \in Nat |-> f[n]]
    OBVIOUS
  <2> HIDE DEF f
  <2>2. QED BY <1>2, <2>1 DEF Body
<1> HIDE DEF f
<1>4. Recursive = [n \in Nat |-> IF n = 0 THEN Base ELSE Step(n, Recursive[n - 1])]
  BY <1>3 DEF Recursive
<1>5. Recursive[0] = Base
  BY <1>4
<1>6. ASSUME NEW n \in Nat
      PROVE  Recursive[n + 1] = Step(n + 1, Recursive[n])
  <2>1. n + 1 \in Nat /\ n + 1 # 0 /\ n + 1 - 1 = n
    OBVIOUS
  <2>2. Recursive[n + 1] = Step(n + 1, Recursive[n + 1 - 1])
    BY <1>4, <2>1
  <2>3. QED BY <2>1, <2>2
<1>7. QED BY <1>4, <1>5, <1>6
=============================================================================
