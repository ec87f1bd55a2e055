------------------------- MODULE BlockingQueueProofs -------------------------
(***************************************************************************)
(* No wakeup is lost when at most one thread more uses the queue than the  *)
(* queue has room for items, whatever the threads call.  The pool creates  *)
(* at most 50 threads, the queue holds 50 items, and the main thread is    *)
(* the one more.                                                           *)
(*                                                                         *)
(* WakeupNotLost is inductive because it rules out that puts and takes     *)
(* sleep at the same time: as many threads as the queue has room would     *)
(* have to be awake, besides the two that sleep.  So notify_one, which     *)
(* picks any sleeper, cannot pick one of the wrong kind.                   *)
(***************************************************************************)
EXTENDS BlockingQueue, FiniteSetTheorems, SequenceTheorems, TLAPS

Few == Cardinality(Threads) <= Cap + 1

IInv == TypeOK /\ WakeupNotLost

\* The threads inside a call are finitely many, awake or asleep.
LEMMA CallersFinite ==
  ASSUME NEW call
  PROVE  /\ IsFiniteSet(AwakeIn(call)) /\ Cardinality(AwakeIn(call)) \in Nat
         /\ AwakeIn(call) \subseteq Threads
<1>1. AwakeIn(call) \in SUBSET Threads
  BY DEF AwakeIn
<1>2. QED BY <1>1, QueueAssumption, FS_Subset, FS_CardinalityType

\* Puts and takes do not sleep at the same time.
LEMMA NotMixed ==
  ASSUME IInv, Few
  PROVE  AsleepIn("put") = {} \/ AsleepIn("take") = {}
<1> DEFINE P == AwakeIn("put")
           T == AwakeIn("take")
<1>1. SUFFICES ASSUME NEW p \in AsleepIn("put"), NEW t \in AsleepIn("take") PROVE FALSE
  OBVIOUS
<1>2. /\ IsFiniteSet(P) /\ Cardinality(P) \in Nat /\ P \subseteq Threads
      /\ IsFiniteSet(T) /\ Cardinality(T) \in Nat /\ T \subseteq Threads
  BY CallersFinite
<1>3. Len(queue) \in Nat /\ Cap \in Nat /\ Cardinality(Threads) \in Nat
  BY QueueAssumption, FS_CardinalityType DEF IInv, TypeOK
<1>4. Cardinality(P) + Cardinality(T) >= Cap
  BY <1>1, <1>2, <1>3 DEF IInv, WakeupNotLost
<1>5. IsFiniteSet(P \cup T) /\ Cardinality(P \cup T) = Cardinality(P) + Cardinality(T)
  <2>1. P \cap T = {}
    BY DEF AwakeIn, Awake
  <2>2. Cardinality(P \cap T) = 0
    BY <2>1, FS_EmptySet
  <2> HIDE DEF P, T
  <2>3. /\ IsFiniteSet(P \cup T)
        /\ Cardinality(P \cup T) = Cardinality(P) + Cardinality(T) - Cardinality(P \cap T)
    BY <1>2, FS_Union
  <2>4. QED BY <1>2, <2>2, <2>3
<1>6. /\ p \in Threads /\ t \in Threads /\ p # t
      /\ p \notin P \cup T /\ t \notin P \cup T
  BY <1>1 DEF AsleepIn, AwakeIn, Awake, IInv, TypeOK
<1> DEFINE more == (P \cup T) \cup {p}
           all  == more \cup {t}
<1>7. IsFiniteSet(more) /\ Cardinality(more) = Cardinality(P) + Cardinality(T) + 1
  <2> HIDE DEF P, T
  <2>1. QED BY <1>5, <1>6, FS_AddElement
<1>8. Cardinality(all) = Cardinality(P) + Cardinality(T) + 2
  <2>1. t \notin more
    BY <1>6
  <2> HIDE DEF more, P, T
  <2>2. Cardinality(all) = Cardinality(more) + 1
    BY <1>7, <2>1, FS_AddElement
  <2>3. QED BY <1>2, <1>7, <2>2
<1>9. Cardinality(all) <= Cardinality(Threads)
  <2>1. all \in SUBSET Threads
    BY <1>2, <1>6
  <2> HIDE DEF all
  <2>2. QED BY <2>1, QueueAssumption, FS_Subset
<1>10. QED BY <1>2, <1>3, <1>4, <1>8, <1>9 DEF Few

LEMMA InitIInv == Init => IInv
<1>1. SUFFICES ASSUME Init PROVE IInv
  OBVIOUS
<1>2. TypeOK
  BY <1>1, QueueAssumption DEF Init, TypeOK
<1>3. AsleepIn("put") = {} /\ AsleepIn("take") = {}
  BY <1>1 DEF Init, AsleepIn
<1>4. QED BY <1>2, <1>3 DEF IInv, WakeupNotLost

--------------------------------------------------------------------------------
LEMMA NextType == ASSUME TypeOK, [Next]_queueVars PROVE TypeOK'
<1>1. CASE UNCHANGED queueVars
  BY <1>1 DEF TypeOK, queueVars
<1>2. ASSUME NEW t \in Threads, NEW v \in Items, CallPut(t, v) PROVE TypeOK'
  BY <1>2 DEF TypeOK, CallPut
<1>3. ASSUME NEW t \in Threads, NEW v \in Items, Offer(t, v) PROVE TypeOK'
  <2>1. queue' \in Seq(Items) /\ Len(queue') <= Cap
    BY <1>3, AppendProperties, QueueAssumption DEF TypeOK, Offer
  <2>2. waiting' \subseteq waiting
    BY <1>3 DEF Offer, NotifyOne
  <2>3. QED BY <1>3, <2>1, <2>2 DEF TypeOK, Offer
<1>4. ASSUME NEW t \in Threads, PutDone(t) PROVE TypeOK'
  <2>1. queue' \in Seq(Items) /\ Len(queue') <= Cap
    BY <1>4, AppendProperties, QueueAssumption DEF TypeOK, PutDone, Awake
  <2>2. waiting' \subseteq waiting /\ t \notin waiting
    BY <1>4 DEF PutDone, NotifyOne, Awake
  <2>3. QED BY <1>4, <2>1, <2>2 DEF TypeOK, PutDone, Leave
<1>5. ASSUME NEW t \in Threads, TakeDone(t) PROVE TypeOK'
  <2>1. queue' \in Seq(Items) /\ Len(queue') <= Cap
    <3>1. queue \in Seq(Items) /\ queue # << >> /\ queue' = Tail(queue) /\ Len(queue) <= Cap
      BY <1>5 DEF TypeOK, TakeDone
    <3>2. Tail(queue) \in Seq(Items) /\ Len(Tail(queue)) = Len(queue) - 1
      BY <3>1
    <3>3. Len(queue) \in Nat /\ Cap \in Nat
      BY <3>1, QueueAssumption
    <3>4. QED BY <3>1, <3>2, <3>3
  <2>2. waiting' \subseteq waiting /\ t \notin waiting
    BY <1>5 DEF TakeDone, NotifyOne, Awake
  <2>3. QED BY <1>5, <2>1, <2>2 DEF TypeOK, TakeDone, Leave
<1>6. ASSUME NEW t \in Threads, Poll(t) PROVE TypeOK'
  <2>1. queue' \in Seq(Items) /\ Len(queue') <= Cap
    <3>1. queue \in Seq(Items) /\ queue # << >> /\ queue' = Tail(queue) /\ Len(queue) <= Cap
      BY <1>6 DEF TypeOK, Poll
    <3>2. Tail(queue) \in Seq(Items) /\ Len(Tail(queue)) = Len(queue) - 1
      BY <3>1
    <3>3. Len(queue) \in Nat /\ Cap \in Nat
      BY <3>1, QueueAssumption
    <3>4. QED BY <3>1, <3>2, <3>3
  <2>2. waiting' \subseteq waiting
    BY <1>6 DEF Poll, NotifyOne
  <2>3. QED BY <1>6, <2>1, <2>2 DEF TypeOK, Poll
<1>7. ASSUME NEW t \in Threads, PutWaits(t) \/ TakeWaits(t) \/ SpuriousWakeup(t) PROVE TypeOK'
  BY <1>7 DEF TypeOK, PutWaits, TakeWaits, SpuriousWakeup, Awake
<1>8. ASSUME NEW t \in Threads, CallTake(t) PROVE TypeOK'
  BY <1>8 DEF TypeOK, CallTake
<1>9. QED BY <1>1, <1>2, <1>3, <1>4, <1>5, <1>6, <1>7, <1>8 DEF Next

--------------------------------------------------------------------------------
\* Counting threads.
LEMMA SubThreads ==
  ASSUME NEW S \in SUBSET Threads
  PROVE  IsFiniteSet(S) /\ Cardinality(S) \in Nat
  BY QueueAssumption, FS_Subset, FS_CardinalityType

LEMMA CountMore ==
  ASSUME NEW S \in SUBSET Threads, NEW R \in SUBSET Threads, S \subseteq R
  PROVE  Cardinality(S) <= Cardinality(R)
  BY SubThreads, FS_Subset

LEMMA CountGain ==
  ASSUME NEW S \in SUBSET Threads, NEW R \in SUBSET Threads, S \subseteq R,
         NEW w \in R, w \notin S
  PROVE  Cardinality(S) + 1 <= Cardinality(R)
<1>1. Cardinality(S \cup {w}) = Cardinality(S) + 1
  BY SubThreads, FS_AddElement
<1>2. S \cup {w} \in SUBSET Threads /\ S \cup {w} \subseteq R
  OBVIOUS
<1>3. QED BY <1>1, <1>2, CountMore

LEMMA CountDrop ==
  ASSUME NEW S \in SUBSET Threads, NEW R \in SUBSET Threads, NEW t, S \ {t} \subseteq R
  PROVE  Cardinality(S) <= Cardinality(R) + 1
<1>1. S \ {t} \in SUBSET Threads
  OBVIOUS
<1>2. Cardinality(S \ {t}) <= Cardinality(R)
  BY <1>1, CountMore
<1>3. /\ Cardinality(S \ {t}) = IF t \in S THEN Cardinality(S) - 1 ELSE Cardinality(S)
      /\ Cardinality(S) \in Nat /\ Cardinality(R) \in Nat
  BY SubThreads, FS_RemoveElement
<1>4. QED BY <1>2, <1>3

--------------------------------------------------------------------------------
\* Steps that leave the queue alone and send nobody to sleep in vain.
LEMMA SameQueue ==
  ASSUME IInv, queue' = queue,
         \A c \in {"put", "take"} : AwakeIn(c) \subseteq AwakeIn(c)',
         \A c \in {"put", "take"} : AsleepIn(c)' \subseteq AsleepIn(c)
  PROVE  WakeupNotLost'
<1>1. ASSUME NEW c \in {"put", "take"}
      PROVE  /\ Cardinality(AwakeIn(c)) \in Nat /\ Cardinality(AwakeIn(c)') \in Nat
             /\ Cardinality(AwakeIn(c)) <= Cardinality(AwakeIn(c)')
  <2>1. AwakeIn(c) \in SUBSET Threads /\ AwakeIn(c)' \in SUBSET Threads
    BY DEF AwakeIn
  <2>2. QED BY <2>1, SubThreads, CountMore
<1>2. Len(queue) \in Nat /\ Cap \in Nat
  BY QueueAssumption DEF IInv, TypeOK
<1>3. QED BY <1>1, <1>2 DEF IInv, WakeupNotLost

\* One of the threads asleep in a call wakes up in it, unless none is asleep.
LEMMA WokenIn ==
  ASSUME IInv, Few, NotifyOne, NEW c \in {"put", "take"}, AsleepIn(c) # {}
  PROVE  \E w \in Threads : w \in AsleepIn(c) /\ waiting' = waiting \ {w}
<1>1. \A u \in waiting : u \in Threads /\ op[u] = c
  BY NotMixed DEF IInv, TypeOK, AsleepIn
<1>2. QED BY <1>1 DEF NotifyOne, AsleepIn

\* The queue grows by one item and a thread is notified (put, offer).
LEMMA Grown ==
  ASSUME IInv, Few, NEW t \in Threads, op[t] \in {"put", "none"}, t \notin waiting,
         op' = [op EXCEPT ![t] = "none"], Len(queue') = Len(queue) + 1, NotifyOne
  PROVE  WakeupNotLost'
<1>1. /\ Len(queue) \in Nat /\ Cap \in Nat /\ op \in [Threads -> {"none", "put", "take"}]
      /\ waiting \subseteq Threads /\ waiting' \subseteq waiting
  BY QueueAssumption DEF IInv, TypeOK, NotifyOne
<1>2. \A c \in {"put", "take"} : /\ AsleepIn(c)' \subseteq AsleepIn(c)
                                 /\ AwakeIn(c) \in SUBSET Threads
                                 /\ AwakeIn(c)' \in SUBSET Threads
  BY <1>1 DEF AsleepIn, AwakeIn
<1>3. \A c \in {"put", "take"} :
        Cardinality(AwakeIn(c)) \in Nat /\ Cardinality(AwakeIn(c)') \in Nat
  BY <1>2, SubThreads
<1>4. Cardinality(AwakeIn("put")) <= Cardinality(AwakeIn("put")') + 1
  <2>1. AwakeIn("put") \ {t} \subseteq AwakeIn("put")'
    BY <1>1 DEF AwakeIn, Awake
  <2>2. QED BY <1>2, <2>1, CountDrop
<1>5. ASSUME AsleepIn("take") # {}
      PROVE  Cardinality(AwakeIn("take")) + 1 <= Cardinality(AwakeIn("take")')
  <2>1. PICK w \in Threads : w \in AsleepIn("take") /\ waiting' = waiting \ {w}
    BY <1>5, WokenIn
  <2>2. /\ AwakeIn("take") \subseteq AwakeIn("take")'
        /\ w \in AwakeIn("take")' /\ w \notin AwakeIn("take")
    BY <1>1, <2>1 DEF AwakeIn, AsleepIn, Awake
  <2>3. QED BY <1>2, <2>2, CountGain
<1>6. QED BY <1>1, <1>2, <1>3, <1>4, <1>5 DEF IInv, WakeupNotLost

\* The queue loses an item and a thread is notified (take, poll).
LEMMA Shrunk ==
  ASSUME IInv, Few, NEW t \in Threads, op[t] \in {"take", "none"}, t \notin waiting,
         op' = [op EXCEPT ![t] = "none"], Len(queue') = Len(queue) - 1, NotifyOne
  PROVE  WakeupNotLost'
<1>1. /\ Len(queue) \in Nat /\ Cap \in Nat /\ op \in [Threads -> {"none", "put", "take"}]
      /\ waiting \subseteq Threads /\ waiting' \subseteq waiting
  BY QueueAssumption DEF IInv, TypeOK, NotifyOne
<1>2. \A c \in {"put", "take"} : /\ AsleepIn(c)' \subseteq AsleepIn(c)
                                 /\ AwakeIn(c) \in SUBSET Threads
                                 /\ AwakeIn(c)' \in SUBSET Threads
  BY <1>1 DEF AsleepIn, AwakeIn
<1>3. \A c \in {"put", "take"} :
        Cardinality(AwakeIn(c)) \in Nat /\ Cardinality(AwakeIn(c)') \in Nat
  BY <1>2, SubThreads
<1>4. Cardinality(AwakeIn("take")) <= Cardinality(AwakeIn("take")') + 1
  <2>1. AwakeIn("take") \ {t} \subseteq AwakeIn("take")'
    BY <1>1 DEF AwakeIn, Awake
  <2>2. QED BY <1>2, <2>1, CountDrop
<1>5. ASSUME AsleepIn("put") # {}
      PROVE  Cardinality(AwakeIn("put")) + 1 <= Cardinality(AwakeIn("put")')
  <2>1. PICK w \in Threads : w \in AsleepIn("put") /\ waiting' = waiting \ {w}
    BY <1>5, WokenIn
  <2>2. /\ AwakeIn("put") \subseteq AwakeIn("put")'
        /\ w \in AwakeIn("put")' /\ w \notin AwakeIn("put")
    BY <1>1, <2>1 DEF AwakeIn, AsleepIn, Awake
  <2>3. QED BY <1>2, <2>2, CountGain
<1>6. QED BY <1>1, <1>2, <1>3, <1>4, <1>5 DEF IInv, WakeupNotLost

--------------------------------------------------------------------------------
LEMMA NextOK == ASSUME Few PROVE IInv /\ [Next]_queueVars => IInv'
<1>1. SUFFICES ASSUME IInv, [Next]_queueVars PROVE WakeupNotLost'
  BY NextType DEF IInv
<1>2. CASE UNCHANGED queueVars
  BY <1>1, <1>2 DEF IInv, WakeupNotLost, AwakeIn, AsleepIn, Awake, queueVars
<1>3. ASSUME NEW t \in Threads, (\E v \in Items : CallPut(t, v)) \/ CallTake(t)
      PROVE  WakeupNotLost'
  BY <1>1, <1>3, SameQueue
     DEF IInv, TypeOK, CallPut, CallTake, AwakeIn, AsleepIn, Awake
<1>4. ASSUME NEW t \in Threads, SpuriousWakeup(t) PROVE WakeupNotLost'
  BY <1>1, <1>4, SameQueue DEF SpuriousWakeup, AwakeIn, AsleepIn, Awake
<1>5. ASSUME NEW t \in Threads, PutWaits(t) PROVE WakeupNotLost'
  <2>1. /\ Len(queue') >= Cap /\ Len(queue') \in Nat /\ Cap \in Nat
        /\ queue' = queue /\ op' = op /\ op[t] = "put" /\ waiting' = waiting \cup {t}
    BY <1>1, <1>5, QueueAssumption DEF PutWaits, Awake, IInv, TypeOK
  <2>2. AsleepIn("take")' = AsleepIn("take") /\ AwakeIn("take")' = AwakeIn("take")
    BY <2>1 DEF AsleepIn, AwakeIn, Awake
  <2>3. AwakeIn("put")' \in SUBSET Threads
    BY DEF AwakeIn
  <2>4. Cardinality(AwakeIn("put")') \in Nat
    BY <2>3, SubThreads
  <2>5. QED BY <1>1, <2>1, <2>2, <2>4 DEF IInv, WakeupNotLost
<1>6. ASSUME NEW t \in Threads, TakeWaits(t) PROVE WakeupNotLost'
  <2>1. /\ Len(queue') = 0 /\ queue' = queue /\ op' = op
        /\ op[t] = "take" /\ waiting' = waiting \cup {t}
    BY <1>6 DEF TakeWaits, Awake
  <2>2. AsleepIn("put")' = AsleepIn("put") /\ AwakeIn("put")' = AwakeIn("put")
    BY <2>1 DEF AsleepIn, AwakeIn, Awake
  <2>3. AwakeIn("take")' \in SUBSET Threads
    BY DEF AwakeIn
  <2>4. Cardinality(AwakeIn("take")') \in Nat
    BY <2>3, SubThreads
  <2>5. QED BY <1>1, <2>1, <2>2, <2>4 DEF IInv, WakeupNotLost
<1>7. ASSUME NEW t \in Threads, PutDone(t) PROVE WakeupNotLost'
  <2>1. /\ op[t] = "put" /\ t \notin waiting /\ op' = [op EXCEPT ![t] = "none"]
        /\ NotifyOne
    BY <1>7 DEF PutDone, Awake, Leave
  <2>2. Len(queue') = Len(queue) + 1
    BY <1>1, <1>7, AppendProperties DEF PutDone, Awake, IInv, TypeOK
  <2>3. QED BY <1>1, <2>1, <2>2, Grown
<1>8. ASSUME NEW t \in Threads, NEW v \in Items, Offer(t, v) PROVE WakeupNotLost'
  <2>1. /\ op[t] = "none" /\ t \notin waiting /\ op' = [op EXCEPT ![t] = "none"]
        /\ NotifyOne
    BY <1>1, <1>8 DEF Offer, IInv, TypeOK
  <2>2. Len(queue') = Len(queue) + 1
    BY <1>1, <1>8, AppendProperties DEF Offer, IInv, TypeOK
  <2>3. QED BY <1>1, <2>1, <2>2, Grown
<1>9. ASSUME NEW t \in Threads, TakeDone(t) PROVE WakeupNotLost'
  <2>1. /\ op[t] = "take" /\ t \notin waiting /\ op' = [op EXCEPT ![t] = "none"]
        /\ NotifyOne
    BY <1>9 DEF TakeDone, Awake, Leave
  <2>2. Len(queue') = Len(queue) - 1
    BY <1>1, <1>9 DEF TakeDone, IInv, TypeOK
  <2>3. QED BY <1>1, <2>1, <2>2, Shrunk
<1>10. ASSUME NEW t \in Threads, Poll(t) PROVE WakeupNotLost'
  <2>1. /\ op[t] = "none" /\ t \notin waiting /\ op' = [op EXCEPT ![t] = "none"]
        /\ NotifyOne
    BY <1>1, <1>10 DEF Poll, IInv, TypeOK
  <2>2. Len(queue') = Len(queue) - 1
    BY <1>1, <1>10 DEF Poll, IInv, TypeOK
  <2>3. QED BY <1>1, <2>1, <2>2, Shrunk
<1>11. QED BY <1>1, <1>2, <1>3, <1>4, <1>5, <1>6, <1>7, <1>8, <1>9, <1>10 DEF Next

LEMMA AsleepWithReason == ASSUME IInv, Few PROVE AllAsleepForAReason
<1>1. SUFFICES ASSUME waiting = Threads
               PROVE  \/ AsleepIn("put") = {} /\ queue = << >>
                      \/ AsleepIn("take") = {} /\ Len(queue) = Cap
  BY DEF AllAsleepForAReason
<1>2. AwakeIn("put") = {} /\ AwakeIn("take") = {}
  BY <1>1 DEF AwakeIn, Awake
<1>3. Cardinality(AwakeIn("put")) = 0 /\ Cardinality(AwakeIn("take")) = 0
  BY <1>2, FS_EmptySet
<1>4. /\ queue \in Seq(Items) /\ Len(queue) \in Nat /\ Len(queue) <= Cap /\ Cap \in Nat
      /\ AsleepIn("put") # {} \/ AsleepIn("take") # {}
  BY <1>1, QueueAssumption DEF IInv, TypeOK, AsleepIn
<1>5. CASE AsleepIn("put") # {}
  BY <1>3, <1>4, <1>5, NotMixed DEF IInv, WakeupNotLost
<1>6. CASE AsleepIn("take") # {}
  <2>1. Len(queue) = 0
    BY <1>3, <1>4, <1>6 DEF IInv, WakeupNotLost
  <2>2. QED BY <1>4, <1>6, <2>1, NotMixed
<1>7. QED BY <1>4, <1>5, <1>6

\* The queue keeps its types and its limit, for any threads, items and limit.
THEOREM QueueTypeCorrect == Spec => []TypeOK
<1>1. Init => TypeOK
  BY InitIInv DEF IInv
<1>2. TypeOK /\ [Next]_queueVars => TypeOK'
  BY NextType
<1>3. QED BY <1>1, <1>2, PTL DEF Spec

\* No wakeup is lost while the threads are at most one more than the room in the
\* queue: notify_one wakes a thread that can use what changed (put, take).
THEOREM NoLostWakeup == ASSUME Few PROVE Spec => []WakeupNotLost
<1>1. IInv /\ [Next]_queueVars => IInv'
  BY NextOK
<1>2. IInv => WakeupNotLost
  BY DEF IInv
<1>3. QED BY <1>1, <1>2, InitIInv, PTL DEF Spec

\* With so few threads the queue never deadlocks: they all sleep only on a full
\* queue that nobody takes from, or on an empty one that nobody puts into.
THEOREM NoDeadlock == ASSUME Few PROVE Spec => []AllAsleepForAReason
<1>1. IInv /\ [Next]_queueVars => IInv'
  BY NextOK
<1>2. IInv => AllAsleepForAReason
  BY AsleepWithReason
<1>3. QED BY <1>1, <1>2, InitIInv, PTL DEF Spec
================================================================================
