----------------------------- MODULE PoolProofs -----------------------------
(***************************************************************************)
(* The pool neither loses a task nor runs one twice, and in the test its   *)
(* threads end after the last job was taken; a thread is deleted while it  *)
(* runs, or a job left over, only when the wait for a thread came back     *)
(* before its end.  All this for any number of threads, jobs and clients   *)
(* and any limit of the queue.                                             *)
(*                                                                         *)
(* TaskInOnePlace counts places.  What a step needs to know is sharper:    *)
(* that a call which is no put holds no item and a thread that waits for   *)
(* one has no target, so nothing is overwritten, and that what main has    *)
(* still to start was not started.  FlagsAfterJobs needs the order of the  *)
(* whole queue: behind an end flag there are only end flags.  StoppedClean *)
(* needs how far release has come: the threads it has passed have ended or *)
(* are among those it came back for too early.                             *)
(***************************************************************************)
EXTENDS PoolTest, FiniteSetTheorems, SequenceTheorems, TLAPS

\* The items of calls that are no put are empty, and a thread has a target from
\* take to delete.
Held ==
  /\ \A c \in Callers : op[c] # "put" => item[c] = Q!NoItem
  /\ \A w \in Workers : target[w] = Null <=> pc[w] \in {"take", "end", "ended"}
  /\ done \subseteq called

\* What main has still to start was never started.
NotYetCalled ==
  /\ program = "test" => called \subseteq ToSet(Jobs)
  /\ pc[Main] = "start" =>
       \A i \in DOMAIN Batch :
         i > at[Main] \/ (i = at[Main] /\ op[Main] # "put") => Batch[i] \notin called

\* A task has one place from the call of start until it is done.
Single ==
  \A task \in Tasks :
    IF task \in called \ done THEN \E x \in Places(task) : Places(task) = {x}
    ELSE Places(task) = {}

\* In the test only main puts, first the jobs, then the end flags.
FlagsLast ==
  program = "test" =>
    /\ \A w \in Workers : /\ pc[w] \in {"take", "run", "ran", "end", "ended"}
                          /\ op[w] # "put"
    /\ pc[Main] = "start" => /\ Null \notin ToSet(queue) /\ item[Main] # Null
                             /\ \A w \in Workers : pc[w] \notin {"end", "ended"}
    /\ pc[Main] # "start" => item[Main] \in {Null, Q!NoItem}
    /\ \A i, j \in DOMAIN queue : i <= j /\ queue[i] = Null => queue[j] = Null
    /\ FlagsAfterJobs

PInv == TypeOK /\ Held /\ NotYetCalled /\ Single
FInv == PInv /\ FlagsLast

\* In the test main has started every job when it stops the pool, and release
\* goes on from a thread when it has ended or is recorded as left early.
Left(w) == pc[w] = "ended" \/ w \in early
WaitedFor(n) == \A i \in DOMAIN Pool : i < n => Left(Pool[i])

StopsInOrder ==
  program = "test" =>
    /\ \A i \in DOMAIN Jobs :
         pc[Main] # "start" \/ i < at[Main] \/ (i = at[Main] /\ op[Main] = "put")
           => Jobs[i] \in called
    /\ pc[Main] \in {"start", "put", "release", "wait", "delete", "free"}
    /\ op[Main] = "put" => pc[Main] \in {"start", "put"}
    /\ pc[Main] \in {"release", "wait"} => WaitedFor(at[Main])
    /\ pc[Main] = "wait" => at[Main] \in DOMAIN Pool
    /\ IF pc[Main] \in {"delete", "free"} THEN WaitedFor(Len(Pool) + 1)
       ELSE deleted = {} /\ ~cleared

SInv == FInv /\ StopsInOrder

LEMMA PlacesAre ==
  ASSUME NEW task
  PROVE  \A x : x \in Places(task) <=>
           \/ \E c \in Callers : x = <<"put", c>> /\ item[c] = task
           \/ \E i \in DOMAIN queue : x = <<"queue", i>> /\ queue[i] = task
           \/ \E w \in Workers : x = <<"thread", w>> /\ target[w] = task
  BY DEF Places

\* The program's calls keep every variable in its type.
LEMMA TypesKept ==
  ASSUME TypeOK, Held, Next
  PROVE  TypeOK'
<1> USE PoolAssumption DEF TypeOK, Q!TypeOK, queueVars, poolVars, taskVars, Up, Outside,
        Goto, Begin, NextAt, Callers, Tasks, Q!NoItem, Q!Awake
<1>1. ASSUME NEW c \in Callers, PutSleeps(c) PROVE TypeOK'
  BY <1>1 DEF PutSleeps, Q!PutWaits
<1>2. ASSUME NEW c \in Callers, PutReturns(c) PROVE TypeOK'
  <2>1. /\ op' = [op EXCEPT ![c] = "none"] /\ item' = [item EXCEPT ![c] = "noitem"]
        /\ queue' = Append(queue, item[c]) /\ Len(queue) < Cap /\ op[c] = "put"
        /\ waiting' \subseteq waiting /\ c \notin waiting
        /\ UNCHANGED <<program, state, pc, target, early, deleted, cleared, called, done>>
        /\ at' = at \/ at' = [at EXCEPT ![c] = at[c] + 1]
    BY <1>2 DEF PutReturns, Q!PutDone, Q!NotifyOne, Q!Leave
  <2>2. at' \in [Callers -> Nat \ {0}]
    <3>1. CASE at' = at
      BY <3>1
    <3>2. CASE at' = [at EXCEPT ![c] = at[c] + 1]
      BY <3>2
    <3>3. QED BY <2>1, <3>1, <3>2
  <2>3. queue' \in Seq(Tasks \cup {Null}) /\ Len(queue') <= Cap
    BY <2>1
  <2>4. /\ op' \in [Callers -> {"none", "put", "take"}]
        /\ item' \in [Callers -> Tasks \cup {Null, "noitem"}]
        /\ \A b \in Callers : op'[b] = "put" => item'[b] \in Tasks \cup {Null}
        /\ waiting' \subseteq {b \in Callers : op'[b] # "none"}
    BY <2>1
  <2>5. QED BY <2>1, <2>2, <2>3, <2>4
<1>3. ASSUME NEW c \in Callers, Wakeup(c) PROVE TypeOK'
  BY <1>3 DEF Wakeup, Q!SpuriousWakeup
<1>4. ASSUME NEW c \in Callers, PutEndFlag(c) PROVE TypeOK'
  BY <1>4 DEF PutEndFlag, Q!CallPut
<1>5. ASSUME NEW c \in Callers, EndFlagsPut(c) PROVE TypeOK'
  BY <1>5 DEF EndFlagsPut
<1>6. ASSUME NEW c \in Callers, Released(c) PROVE TypeOK'
  BY <1>6 DEF Released
<1>7. ASSUME NEW c \in Callers, Release(c) PROVE TypeOK'
  BY <1>7 DEF Release
<1>8. ASSUME NEW c \in Callers, ReleaseReturns(c) PROVE TypeOK'
  BY <1>8 DEF ReleaseReturns
<1>9. ASSUME NEW c \in Callers, DeleteThread(c) PROVE TypeOK'
  BY <1>9 DEF DeleteThread, More, Size
<1>10. ASSUME NEW c \in Callers, Clear(c) PROVE TypeOK'
  BY <1>10 DEF Clear
<1>11. ASSUME NEW w \in Workers, TakeCalls(w) PROVE TypeOK'
  BY <1>11 DEF TakeCalls, Q!CallTake
<1>12. ASSUME NEW w \in Workers, TakeSleeps(w) PROVE TypeOK'
  BY <1>12 DEF TakeSleeps, Q!TakeWaits
<1>13. ASSUME NEW w \in Workers, TakeReturns(w) PROVE TypeOK'
  BY <1>13 DEF TakeReturns, Q!TakeDone, Q!NotifyOne, Q!Leave
<1>14. ASSUME NEW w \in Workers, DeleteTarget(w) PROVE TypeOK'
  <2>1. target[w] \in Tasks
    BY <1>14 DEF DeleteTarget, Held
  <2>2. QED BY <1>14, <2>1 DEF DeleteTarget
<1>15. ASSUME NEW w \in Workers, Ends(w) PROVE TypeOK'
  BY <1>15 DEF Ends
<1>16. ASSUME NEW w \in Workers, TaskReturns(w) PROVE TypeOK'
  BY <1>16 DEF TaskReturns
<1>17. ASSUME NEW w \in Workers, Shutdown(w) PROVE TypeOK'
  BY <1>17 DEF Shutdown
<1>18. ASSUME NEW w \in Workers, UsesDeleted(w) PROVE TypeOK'
  BY <1>18 DEF UsesDeleted
<1>19. ASSUME NEW w \in Workers, NEW client \in Clients, Accept(w, client) PROVE TypeOK'
  BY <1>19 DEF Accept, Start, Q!CallPut
<1>20. CASE MainStarts
  BY <1>20 DEF MainStarts, Start, Q!CallPut, Batch
<1>21. CASE MainStarted
  BY <1>21 DEF MainStarted
<1>22. CASE JoinCalls \/ JoinReturns
  BY <1>22 DEF JoinCalls, JoinReturns
<1>23. CASE MainReturns \/ JoinsDeleted
  BY <1>23 DEF MainReturns, JoinsDeleted
<1> QED
  BY <1>1, <1>2, <1>3, <1>4, <1>5, <1>6, <1>7, <1>8, <1>9, <1>10, <1>11, <1>12, <1>13,
     <1>14, <1>15, <1>16, <1>17, <1>18, <1>19, <1>20, <1>21, <1>22, <1>23
     DEF Next, MainStep, PutStep, StopStep, WorkerLoop

\* A thread's target was started and is not done.
LEMMA TargetStarted ==
  ASSUME PInv, NEW w \in Workers, target[w] # Null
  PROVE  target[w] \in Tasks /\ target[w] \in called \ done
<1>1. target[w] \in Tasks
  BY DEF PInv, TypeOK
<1>2. <<"thread", w>> \in Places(target[w])
  BY PlacesAre
<1>3. QED BY <1>1, <1>2 DEF PInv, Single

LEMMA HeldKept ==
  ASSUME PInv, Next
  PROVE  Held'
<1> USE PoolAssumption DEF PInv, TypeOK, Q!TypeOK, Held, queueVars, poolVars, taskVars, Up,
        Outside, Goto, Begin, NextAt, Callers, Q!Awake
<1>1. ASSUME NEW c \in Callers, PutSleeps(c) PROVE Held'
  BY <1>1 DEF PutSleeps, Q!PutWaits
<1>2. ASSUME NEW c \in Callers, Wakeup(c) PROVE Held'
  BY <1>2 DEF Wakeup, Q!SpuriousWakeup
<1>3. ASSUME NEW c \in Callers, PutReturns(c) PROVE Held'
  BY <1>3 DEF PutReturns, Q!PutDone, Q!Leave
<1>4. ASSUME NEW c \in Callers, PutEndFlag(c) PROVE Held'
  BY <1>4 DEF PutEndFlag, Q!CallPut
<1>5. ASSUME NEW c \in Callers, EndFlagsPut(c) PROVE Held'
  BY <1>5 DEF EndFlagsPut
<1>6. ASSUME NEW c \in Callers, Released(c) PROVE Held'
  BY <1>6 DEF Released
<1>7. ASSUME NEW c \in Callers, Release(c) PROVE Held'
  BY <1>7 DEF Release
<1>8. ASSUME NEW c \in Callers, ReleaseReturns(c) PROVE Held'
  BY <1>8 DEF ReleaseReturns
<1>9. ASSUME NEW c \in Callers, DeleteThread(c) PROVE Held'
  BY <1>9 DEF DeleteThread
<1>10. ASSUME NEW c \in Callers, Clear(c) PROVE Held'
  BY <1>10 DEF Clear
<1>11. ASSUME NEW w \in Workers, TakeCalls(w) PROVE Held'
  BY <1>11 DEF TakeCalls, Q!CallTake
<1>12. ASSUME NEW w \in Workers, TakeSleeps(w) PROVE Held'
  BY <1>12 DEF TakeSleeps, Q!TakeWaits
<1>13. ASSUME NEW w \in Workers, TakeReturns(w) PROVE Held'
  BY <1>13 DEF TakeReturns, Q!TakeDone, Q!Leave
<1>14. ASSUME NEW w \in Workers, DeleteTarget(w) PROVE Held'
  <2>1. target[w] \in called
    BY <1>14, TargetStarted DEF DeleteTarget
  <2>2. QED BY <1>14, <2>1 DEF DeleteTarget
<1>15. ASSUME NEW w \in Workers, Ends(w) PROVE Held'
  BY <1>15 DEF Ends
<1>16. ASSUME NEW w \in Workers, TaskReturns(w) PROVE Held'
  BY <1>16 DEF TaskReturns
<1>17. ASSUME NEW w \in Workers, Shutdown(w) PROVE Held'
  BY <1>17 DEF Shutdown
<1>18. ASSUME NEW w \in Workers, UsesDeleted(w) PROVE Held'
  BY <1>18 DEF UsesDeleted
<1>19. ASSUME NEW w \in Workers, NEW client \in Clients, Accept(w, client) PROVE Held'
  BY <1>19 DEF Accept, Start, Q!CallPut
<1>20. CASE MainStarts
  BY <1>20 DEF MainStarts, Start, Q!CallPut
<1>21. CASE MainStarted
  BY <1>21 DEF MainStarted
<1>22. CASE JoinCalls
  BY <1>22 DEF JoinCalls
<1>23. CASE JoinReturns
  BY <1>23 DEF JoinReturns
<1>24. CASE MainReturns
  BY <1>24 DEF MainReturns
<1>25. CASE JoinsDeleted
  BY <1>25 DEF JoinsDeleted
<1> QED
  BY <1>1, <1>2, <1>3, <1>4, <1>5, <1>6, <1>7, <1>8, <1>9, <1>10, <1>11, <1>12, <1>13,
     <1>14, <1>15, <1>16, <1>17, <1>18, <1>19, <1>20, <1>21, <1>22, <1>23, <1>24, <1>25
     DEF Next, MainStep, PutStep, StopStep, WorkerLoop

\* The tasks that main starts are told apart.
LEMMA BatchIs ==
  ASSUME TypeOK
  PROVE  /\ Batch \in Seq(Tasks) /\ \A i, j \in DOMAIN Batch : i # j => Batch[i] # Batch[j]
         /\ \A i \in DOMAIN Batch : Batch[i] \notin Clients
         /\ program = "test" => \A i \in DOMAIN Batch : Batch[i] \in ToSet(Jobs)
<1>1. CASE program = "test"
  <2>1. Batch = Jobs
    BY <1>1 DEF Batch
  <2>2. /\ \A i, j \in DOMAIN Jobs : i # j => Jobs[i] # Jobs[j]
        /\ \A i \in DOMAIN Jobs : Jobs[i] \in ToSet(Jobs)
    BY PoolAssumption DEF ToSet, IsInjective
  <2>3. QED BY <2>1, <2>2, PoolAssumption
<1>2. CASE program # "test"
  <2>1. Batch = <<Listener>>
    BY <1>2 DEF Batch
  <2>2. QED BY <1>2, <2>1, PoolAssumption DEF Tasks
<1>3. QED BY <1>1, <1>2

LEMMA CalledKept ==
  ASSUME PInv, Next
  PROVE  NotYetCalled'
<1> USE PoolAssumption DEF PInv, TypeOK, Q!TypeOK, NotYetCalled, queueVars, poolVars, taskVars,
        Up, Outside, Goto, Begin, NextAt, Callers, Q!Awake, Batch
<1>1. ASSUME NEW c \in Callers, PutSleeps(c) PROVE NotYetCalled'
  BY <1>1 DEF PutSleeps, Q!PutWaits
<1>2. ASSUME NEW c \in Callers, Wakeup(c) PROVE NotYetCalled'
  BY <1>2 DEF Wakeup, Q!SpuriousWakeup
<1>3. ASSUME NEW c \in Callers, PutReturns(c) PROVE NotYetCalled'
  BY <1>3 DEF PutReturns, Q!PutDone, Q!Leave
<1>4. ASSUME NEW c \in Callers, PutEndFlag(c) PROVE NotYetCalled'
  BY <1>4 DEF PutEndFlag, Q!CallPut
<1>5. ASSUME NEW c \in Callers, EndFlagsPut(c) PROVE NotYetCalled'
  BY <1>5 DEF EndFlagsPut
<1>6. ASSUME NEW c \in Callers, Released(c) PROVE NotYetCalled'
  BY <1>6 DEF Released
<1>7. ASSUME NEW c \in Callers, Release(c) PROVE NotYetCalled'
  BY <1>7 DEF Release
<1>8. ASSUME NEW c \in Callers, ReleaseReturns(c) PROVE NotYetCalled'
  BY <1>8 DEF ReleaseReturns
<1>9. ASSUME NEW c \in Callers, DeleteThread(c) PROVE NotYetCalled'
  BY <1>9 DEF DeleteThread
<1>10. ASSUME NEW c \in Callers, Clear(c) PROVE NotYetCalled'
  BY <1>10 DEF Clear
<1>11. ASSUME NEW w \in Workers, TakeCalls(w) PROVE NotYetCalled'
  BY <1>11 DEF TakeCalls, Q!CallTake
<1>12. ASSUME NEW w \in Workers, TakeSleeps(w) PROVE NotYetCalled'
  BY <1>12 DEF TakeSleeps, Q!TakeWaits
<1>13. ASSUME NEW w \in Workers, TakeReturns(w) PROVE NotYetCalled'
  BY <1>13 DEF TakeReturns, Q!TakeDone, Q!Leave
<1>14. ASSUME NEW w \in Workers, DeleteTarget(w) PROVE NotYetCalled'
  BY <1>14 DEF DeleteTarget
<1>15. ASSUME NEW w \in Workers, Ends(w) PROVE NotYetCalled'
  <2>1. pc'[Main] = "start" => pc[Main] = "start" /\ at'[Main] = at[Main]
    BY <1>15 DEF Ends
  <2>2. QED BY <1>15, <2>1 DEF Ends
<1>16. ASSUME NEW w \in Workers, TaskReturns(w) PROVE NotYetCalled'
  BY <1>16 DEF TaskReturns
<1>17. ASSUME NEW w \in Workers, Shutdown(w) PROVE NotYetCalled'
  BY <1>17 DEF Shutdown
<1>18. ASSUME NEW w \in Workers, UsesDeleted(w) PROVE NotYetCalled'
  BY <1>18 DEF UsesDeleted
<1>19. ASSUME NEW w \in Workers, NEW client \in Clients, Accept(w, client) PROVE NotYetCalled'
  <2>1. /\ called' = called \cup {client} /\ UNCHANGED <<program, pc, at>>
        /\ op'[Main] = op[Main]
    BY <1>19 DEF Accept, Start, Q!CallPut
  <2>2. program = "server"
    <3>1. Listener \in called
      BY <1>19, TargetStarted DEF Accept, Tasks
    <3>2. QED BY <3>1
  <2>3. \A i \in DOMAIN Batch : Batch[i] # client
    BY BatchIs
  <2>4. QED BY <2>1, <2>2, <2>3
<1>20. CASE MainStarts
  <2>1. /\ at[Main] \in DOMAIN Batch
        /\ called' = called \cup {Batch[at[Main]]} /\ UNCHANGED <<program, pc, at>>
        /\ op'[Main] = "put" /\ op[Main] = "none"
    BY <1>20, BatchIs DEF MainStarts, Start, Q!CallPut
  <2>2. program = "test" => Batch[at[Main]] \in ToSet(Jobs)
    BY <2>1, BatchIs
  <2>3. \A i \in DOMAIN Batch : i > at[Main] => Batch[i] # Batch[at[Main]]
    BY <2>1, BatchIs
  <2>4. Batch' = Batch
    BY <2>1
  <2> HIDE DEF Batch
  <2>5. pc[Main] = "start"
    BY <1>20 DEF MainStarts
  <2>6. \A i \in DOMAIN Batch : i > at[Main] => Batch[i] \notin called'
    BY <2>1, <2>3, <2>5
  <2>7. QED BY <2>1, <2>2, <2>4, <2>6
<1>21. CASE MainStarted
  BY <1>21 DEF MainStarted
<1>22. CASE JoinCalls
  BY <1>22 DEF JoinCalls
<1>23. CASE JoinReturns
  BY <1>23 DEF JoinReturns
<1>24. CASE MainReturns
  BY <1>24 DEF MainReturns
<1>25. CASE JoinsDeleted
  BY <1>25 DEF JoinsDeleted
<1> QED
  BY <1>1, <1>2, <1>3, <1>4, <1>5, <1>6, <1>7, <1>8, <1>9, <1>10, <1>11, <1>12, <1>13,
     <1>14, <1>15, <1>16, <1>17, <1>18, <1>19, <1>20, <1>21, <1>22, <1>23, <1>24, <1>25
     DEF Next, MainStep, PutStep, StopStep, WorkerLoop

LEMMA PlacesFrom ==
  ASSUME NEW task
  PROVE  /\ \A c \in Callers : <<"put", c>> \in Places(task) <=> item[c] = task
         /\ \A i \in DOMAIN queue : <<"queue", i>> \in Places(task) <=> queue[i] = task
         /\ \A w \in Workers : <<"thread", w>> \in Places(task) <=> target[w] = task
  BY PlacesAre

\* A started task that is not done is in one place only.
LEMMA OnePlace ==
  ASSUME PInv, NEW task \in Tasks, NEW x \in Places(task)
  PROVE  /\ Places(task) = {x} /\ task \in called \ done
  BY DEF PInv, Single

LEMMA NowhereElse ==
  ASSUME PInv, NEW task \in Tasks, NEW x \in Places(task)
  PROVE  /\ \A c \in Callers : item[c] = task => x = <<"put", c>>
         /\ \A i \in DOMAIN queue : queue[i] = task => x = <<"queue", i>>
         /\ \A w \in Workers : target[w] = task => x = <<"thread", w>>
<1>1. \A y \in Places(task) : y = x
  BY OnePlace
<1>2. QED BY <1>1, PlacesFrom

LEMMA SamePlaces ==
  ASSUME NEW task,
         \A c \in Callers : item'[c] = task <=> item[c] = task,
         queue' = queue,
         \A w \in Workers : target'[w] = task <=> target[w] = task
  PROVE  Places(task)' = Places(task)
  BY DEF Places

\* put moves the task of the caller to the end of the queue.
LEMMA PutMoves ==
  ASSUME PInv, NEW c \in Callers, PutReturns(c), NEW task \in Tasks
  PROVE  Places(task)' = IF item[c] = task THEN {<<"queue", Len(queue) + 1>>}
                         ELSE Places(task)
<1>1. /\ queue' = Append(queue, item[c]) /\ item' = [item EXCEPT ![c] = "noitem"]
      /\ target' = target /\ queue \in Seq(Tasks \cup {Null})
      /\ item \in [Callers -> Tasks \cup {Null, "noitem"}] /\ task # "noitem"
      /\ item[c] \in Tasks \cup {Null}
  BY PoolAssumption
     DEF PutReturns, Q!PutDone, Q!Leave, Q!NoItem, Q!Awake, PInv, TypeOK, Q!TypeOK
<1>2. /\ DOMAIN queue = 1 .. Len(queue) /\ DOMAIN queue' = 1 .. (Len(queue) + 1)
      /\ \A i \in DOMAIN queue : queue'[i] = queue[i]
      /\ queue'[Len(queue) + 1] = item[c] /\ Len(queue) \in Nat
  BY <1>1
<1>3. CASE item[c] = task
  <2>1. <<"put", c>> \in Places(task)
    BY <1>3, PlacesFrom
  <2>2. /\ \A b \in Callers : b # c => item[b] # task
        /\ \A i \in DOMAIN queue : queue[i] # task
        /\ \A w \in Workers : target[w] # task
    BY <2>1, NowhereElse
  <2>3. /\ \A b \in Callers : item'[b] # task
        /\ \A i \in DOMAIN queue' : queue'[i] = task <=> i = Len(queue) + 1
        /\ \A w \in Workers : target'[w] # task
    BY <1>1, <1>2, <1>3, <2>2
  <2>4. Len(queue) + 1 \in DOMAIN queue'
    BY <1>2
  <2>5. Places(task)' = {<<"queue", Len(queue) + 1>>}
    BY <2>3, <2>4 DEF Places
  <2>6. QED BY <1>3, <2>5
<1>4. CASE item[c] # task
  <2>1. \A b \in Callers : item'[b] = task <=> item[b] = task
    BY <1>1, <1>4
  <2>2. \A i : i \in DOMAIN queue' /\ queue'[i] = task <=> i \in DOMAIN queue /\ queue[i] = task
    BY <1>2, <1>4
  <2>3. {i \in DOMAIN queue' : queue'[i] = task} = {i \in DOMAIN queue : queue[i] = task}
    BY <2>2
  <2>4. {b \in Callers : item'[b] = task} = {b \in Callers : item[b] = task}
    BY <2>1
  <2>5. Places(task)' = Places(task)
    BY <1>1, <2>3, <2>4 DEF Places
  <2>6. QED BY <1>4, <2>5
<1>5. QED BY <1>3, <1>4

\* take moves the first task of the queue to the thread and the others up.
LEMMA TakeMoves ==
  ASSUME PInv, NEW w \in Workers, TakeReturns(w), NEW task \in Tasks, Places(task) # {}
  PROVE  \E x \in Places(task)' : Places(task)' = {x}
<1>1. /\ queue' = Tail(queue) /\ queue # << >> /\ queue \in Seq(Tasks \cup {Null})
      /\ item' = [item EXCEPT ![w] = "noitem"] /\ item[w] = "noitem"
      /\ item \in [Callers -> Tasks \cup {Null, "noitem"}]
      /\ target' = [target EXCEPT ![w] = Head(queue)] /\ target[w] = Null
      /\ target \in [Workers -> Tasks \cup {Null}] /\ task \notin {"noitem", Null}
  BY PoolAssumption
     DEF TakeReturns, Up, Q!TakeDone, Q!Leave, Q!NoItem, Q!Awake, PInv, Held, TypeOK,
         Q!TypeOK, Callers
<1>2. /\ Len(queue) \in Nat \ {0} /\ DOMAIN queue = 1 .. Len(queue)
      /\ DOMAIN queue' = 1 .. (Len(queue) - 1) /\ Head(queue) = queue[1]
      /\ \A i \in DOMAIN queue' : queue'[i] = queue[i + 1]
  BY <1>1
<1>3. /\ \A b \in Callers : item'[b] = task <=> item[b] = task
      /\ \A v \in Workers : v # w => target'[v] = target[v]
      /\ target'[w] = queue[1]
  BY <1>1, <1>2
<1>4. CASE queue[1] = task
  <2>1. <<"queue", 1>> \in Places(task)
    BY <1>2, <1>4, PlacesFrom
  <2>2. /\ \A b \in Callers : item[b] # task
        /\ \A i \in DOMAIN queue : queue[i] = task => i = 1
        /\ \A v \in Workers : target[v] # task
    BY <2>1, NowhereElse
  <2>3. /\ \A b \in Callers : item'[b] # task
        /\ \A i \in DOMAIN queue' : queue'[i] # task
        /\ \A v \in Workers : target'[v] = task <=> v = w
    BY <1>2, <1>3, <1>4, <2>2
  <2>4. Places(task)' = {<<"thread", w>>}
    BY <2>3 DEF Places
  <2>5. QED BY <2>4
<1>5. CASE \E i \in DOMAIN queue : i # 1 /\ queue[i] = task
  <2>1. PICK i \in DOMAIN queue : i # 1 /\ queue[i] = task
    BY <1>5
  <2>2. <<"queue", i>> \in Places(task)
    BY <2>1, PlacesFrom
  <2>3. /\ \A b \in Callers : item[b] # task
        /\ \A j \in DOMAIN queue : queue[j] = task => j = i
        /\ \A v \in Workers : target[v] # task
    BY <2>2, NowhereElse
  <2>4. /\ \A b \in Callers : item'[b] # task
        /\ \A j \in DOMAIN queue' : queue'[j] = task <=> j = i - 1
        /\ i - 1 \in DOMAIN queue'
        /\ \A v \in Workers : target'[v] # task
    BY <1>2, <1>3, <2>1, <2>3
  <2>5. Places(task)' = {<<"queue", i - 1>>}
    BY <2>4 DEF Places
  <2>6. QED BY <2>5
<1>6. CASE \A i \in DOMAIN queue : queue[i] # task
  <2>1. \A i \in DOMAIN queue' : queue'[i] # task
    BY <1>2, <1>6
  <2>2. \A v \in Workers : target'[v] = task <=> target[v] = task
    BY <1>1, <1>2, <1>3, <1>6
  <2>3. Places(task)' = Places(task)
    BY <1>3, <1>6, <2>1, <2>2 DEF Places
  <2>4. PICK x \in Places(task) : TRUE
    OBVIOUS
  <2>5. Places(task) = {x}
    BY OnePlace
  <2>6. QED BY <2>3, <2>5
<1>7. QED BY <1>4, <1>5, <1>6

\* take finds no place for a task that has none.
LEMMA TakeFindsNone ==
  ASSUME PInv, NEW w \in Workers, TakeReturns(w), NEW task \in Tasks, Places(task) = {}
  PROVE  Places(task)' = {}
<1>1. /\ \A b \in Callers : item[b] # task
      /\ \A i \in DOMAIN queue : queue[i] # task
      /\ \A v \in Workers : target[v] # task
  BY PlacesFrom
<1>2. /\ queue' = Tail(queue) /\ queue # << >> /\ queue \in Seq(Tasks \cup {Null})
      /\ item' = [item EXCEPT ![w] = "noitem"] /\ task # "noitem"
      /\ item \in [Callers -> Tasks \cup {Null, "noitem"}]
      /\ target' = [target EXCEPT ![w] = Head(queue)]
      /\ target \in [Workers -> Tasks \cup {Null}]
  BY PoolAssumption
     DEF TakeReturns, Q!TakeDone, Q!Leave, Q!NoItem, PInv, TypeOK, Q!TypeOK
<1>3. /\ 1 \in DOMAIN queue /\ Head(queue) = queue[1]
      /\ \A i \in DOMAIN queue' : i + 1 \in DOMAIN queue /\ queue'[i] = queue[i + 1]
  BY <1>2
<1>4. /\ \A b \in Callers : item'[b] # task
      /\ \A i \in DOMAIN queue' : queue'[i] # task
      /\ \A v \in Workers : target'[v] # task
  BY <1>1, <1>2, <1>3
<1>5. QED BY <1>4 DEF Places

\* start puts a task that was nowhere into the hands of its caller.
LEMMA StartPuts ==
  ASSUME PInv, NEW c \in Callers, NEW new \in Tasks, Start(c, new), new \notin called,
         NEW task \in Tasks
  PROVE  Places(task)' = IF task = new THEN {<<"put", c>>} ELSE Places(task)
<1>1. /\ item' = [item EXCEPT ![c] = new] /\ queue' = queue /\ target' = target
      /\ item \in [Callers -> Tasks \cup {Null, "noitem"}] /\ item[c] = "noitem"
      /\ task # "noitem"
  BY PoolAssumption
     DEF Start, Q!CallPut, PInv, Held, TypeOK, Q!TypeOK, Q!NoItem
<1>2. CASE task = new
  <2>1. Places(task) = {}
    BY <1>2, OnePlace
  <2>2. /\ \A b \in Callers : item[b] # task
        /\ \A i \in DOMAIN queue : queue[i] # task
        /\ \A v \in Workers : target[v] # task
    BY <2>1, PlacesFrom
  <2>3. \A b \in Callers : item'[b] = task <=> b = c
    BY <1>1, <1>2, <2>2
  <2>4. Places(task)' = {<<"put", c>>}
    BY <1>1, <2>2, <2>3 DEF Places
  <2>5. QED BY <1>2, <2>4
<1>3. CASE task # new
  <2>1. \A b \in Callers : item'[b] = task <=> item[b] = task
    BY <1>1, <1>3
  <2>2. Places(task)' = Places(task)
    BY <1>1, <2>1, SamePlaces
  <2>3. QED BY <1>3, <2>2
<1>4. QED BY <1>2, <1>3

\* A task that is deleted is nowhere any more.
LEMMA DeleteClears ==
  ASSUME PInv, NEW w \in Workers, DeleteTarget(w), NEW task \in Tasks
  PROVE  Places(task)' = IF task = target[w] THEN {} ELSE Places(task)
<1>1. /\ item' = item /\ queue' = queue /\ target' = [target EXCEPT ![w] = Null]
      /\ target \in [Workers -> Tasks \cup {Null}] /\ task # Null
  BY PoolAssumption DEF DeleteTarget, queueVars, PInv, TypeOK
<1>2. CASE task = target[w]
  <2>1. <<"thread", w>> \in Places(task)
    BY <1>2, PlacesFrom
  <2>2. /\ \A b \in Callers : item[b] # task
        /\ \A i \in DOMAIN queue : queue[i] # task
        /\ \A v \in Workers : target[v] = task => v = w
    BY <2>1, NowhereElse
  <2>3. \A v \in Workers : target'[v] # task
    BY <1>1, <2>2
  <2>4. Places(task)' = {}
    BY <1>1, <2>2, <2>3 DEF Places
  <2>5. QED BY <1>2, <2>4
<1>3. CASE task # target[w]
  <2>1. \A v \in Workers : target'[v] = task <=> target[v] = task
    BY <1>1, <1>3
  <2>2. Places(task)' = Places(task)
    BY <1>1, <2>1, SamePlaces
  <2>3. QED BY <1>3, <2>2
<1>4. QED BY <1>2, <1>3

\* A step that starts, moves and ends no task leaves each where it is.
LEMMA NothingMoves ==
  ASSUME PInv, NEW c, item' = item \/ item' = [item EXCEPT ![c] = Null],
         item' # item => c \in Callers /\ item[c] = Q!NoItem,
         UNCHANGED <<queue, target, called, done>>
  PROVE  Single'
<1>1. SUFFICES ASSUME NEW task \in Tasks PROVE Places(task)' = Places(task)
  BY DEF PInv, Single
<1>2. \A b \in Callers : item'[b] = task <=> item[b] = task
  BY PoolAssumption DEF PInv, TypeOK, Q!TypeOK, Q!NoItem
<1>3. QED BY <1>2, SamePlaces

LEMMA StartKeepsSingle ==
  ASSUME PInv, NEW c \in Callers, NEW new \in Tasks, Start(c, new), new \notin called
  PROVE  Single'
<1>1. SUFFICES ASSUME NEW task \in Tasks
               PROVE  IF task \in called' \ done'
                        THEN \E x \in Places(task)' : Places(task)' = {x}
                        ELSE Places(task)' = {}
  BY DEF Single
<1>2. called' = called \cup {new} /\ done' = done
  BY DEF Start
<1>3. new \notin done
  BY DEF PInv, Held
<1>4. CASE task = new
  BY <1>2, <1>3, <1>4, StartPuts
<1>5. CASE task # new
  BY <1>2, <1>5, StartPuts DEF PInv, Single
<1>6. QED BY <1>4, <1>5

LEMMA PlacesKept ==
  ASSUME PInv, Next
  PROVE  Single'
<1> USE DEF queueVars, poolVars, taskVars
<1>1. ASSUME NEW c \in Callers, PutSleeps(c) \/ Wakeup(c) PROVE Single'
  BY <1>1, NothingMoves DEF PutSleeps, Q!PutWaits, Wakeup, Q!SpuriousWakeup
<1>2. ASSUME NEW c \in Callers, PutReturns(c) PROVE Single'
  <2>1. SUFFICES ASSUME NEW task \in Tasks
                 PROVE  IF task \in called \ done
                          THEN \E x \in Places(task)' : Places(task)' = {x}
                          ELSE Places(task)' = {}
    BY <1>2 DEF Single, PutReturns
  <2>2. CASE item[c] = task
    <3>1. task \in called \ done
      BY <2>2, OnePlace, PlacesFrom
    <3>2. Places(task)' = {<<"queue", Len(queue) + 1>>}
      BY <1>2, <2>2, PutMoves
    <3>3. QED BY <3>1, <3>2
  <2>3. CASE item[c] # task
    <3>1. Places(task)' = Places(task)
      BY <1>2, <2>3, PutMoves
    <3>2. QED BY <3>1 DEF PInv, Single
  <2>4. QED BY <2>2, <2>3
<1>3. ASSUME NEW c \in Callers, PutEndFlag(c) PROVE Single'
  <2>1. /\ item[c] = Q!NoItem /\ item' = [item EXCEPT ![c] = Null]
        /\ UNCHANGED <<queue, target, called, done>>
    BY <1>3 DEF PutEndFlag, Q!CallPut, Outside, PInv, Held
  <2>2. QED BY <2>1, NothingMoves
<1>4. ASSUME NEW c \in Callers,
             EndFlagsPut(c) \/ Released(c) \/ Release(c) \/ ReleaseReturns(c)
               \/ DeleteThread(c) \/ Clear(c)
      PROVE  Single'
  BY <1>4, NothingMoves
     DEF EndFlagsPut, Released, Release, ReleaseReturns, DeleteThread, Clear
<1>5. ASSUME NEW w \in Workers, TakeCalls(w) \/ TakeSleeps(w) PROVE Single'
  BY <1>5, NothingMoves DEF TakeCalls, Q!CallTake, TakeSleeps, Q!TakeWaits
<1>6. ASSUME NEW w \in Workers, TakeReturns(w) PROVE Single'
  <2>1. called' = called /\ done' = done
    BY <1>6 DEF TakeReturns
  <2>2. SUFFICES ASSUME NEW task \in Tasks
                 PROVE  IF task \in called \ done
                          THEN \E x \in Places(task)' : Places(task)' = {x}
                          ELSE Places(task)' = {}
    BY <2>1 DEF Single
  <2>3. CASE Places(task) # {}
    BY <1>6, <2>3, TakeMoves DEF PInv, Single
  <2>4. CASE Places(task) = {}
    BY <1>6, <2>4, TakeFindsNone DEF PInv, Single
  <2>5. QED BY <2>3, <2>4
<1>7. ASSUME NEW w \in Workers, DeleteTarget(w) PROVE Single'
  <2>1. called' = called /\ done' = done \cup {target[w]}
    BY <1>7 DEF DeleteTarget
  <2>2. SUFFICES ASSUME NEW task \in Tasks
                 PROVE  IF task \in called' \ done'
                          THEN \E x \in Places(task)' : Places(task)' = {x}
                          ELSE Places(task)' = {}
    BY DEF Single
  <2>3. CASE task = target[w]
    BY <1>7, <2>1, <2>3, DeleteClears
  <2>4. CASE task # target[w]
    BY <1>7, <2>1, <2>4, DeleteClears DEF PInv, Single
  <2>5. QED BY <2>3, <2>4
<1>8. ASSUME NEW w \in Workers, Ends(w) \/ TaskReturns(w) \/ Shutdown(w) \/ UsesDeleted(w)
      PROVE  Single'
  BY <1>8, NothingMoves DEF Ends, TaskReturns, Shutdown, UsesDeleted
<1>9. ASSUME NEW w \in Workers, NEW client \in Clients, Accept(w, client) PROVE Single'
  BY <1>9, StartKeepsSingle DEF Accept, Callers, Tasks
<1>10. CASE MainStarts
  <2>1. /\ at[Main] \in DOMAIN Batch /\ Start(Main, Batch[at[Main]])
        /\ Batch[at[Main]] \in Tasks /\ Main \in Callers
    BY <1>10, BatchIs DEF MainStarts, PInv, TypeOK, Callers
  <2>2. Batch[at[Main]] \notin called
    BY <1>10, <2>1 DEF MainStarts, Up, Outside, PInv, NotYetCalled
  <2>3. QED BY <2>1, <2>2, StartKeepsSingle
<1>11. CASE MainStarted \/ JoinCalls \/ JoinReturns
  BY <1>11, NothingMoves DEF MainStarted, JoinCalls, JoinReturns
<1>12. CASE MainReturns \/ JoinsDeleted
  BY <1>12, NothingMoves DEF MainReturns, JoinsDeleted
<1> QED
  BY <1>1, <1>2, <1>3, <1>4, <1>5, <1>6, <1>7, <1>8, <1>9, <1>10, <1>11, <1>12
     DEF Next, MainStep, PutStep, StopStep, WorkerLoop

LEMMA PInvKept ==
  ASSUME PInv, Next
  PROVE  PInv'
  BY TypesKept, HeldKept, CalledKept, PlacesKept DEF PInv

\* In the test the threads run jobs: no listener and no agent.
LEMMA TestRunsJobs ==
  ASSUME PInv, program = "test", NEW w \in Workers, target[w] # Null
  PROVE  target[w] # Listener /\ target[w] \notin Shutdowns
<1>1. target[w] \in ToSet(Jobs)
  BY TargetStarted DEF PInv, NotYetCalled
<1>2. QED BY <1>1, PoolAssumption

\* What the flags' order is about, with the types it needs.
LEMMA FlagFacts ==
  ASSUME FInv, program = "test"
  PROVE  /\ queue \in Seq(Tasks \cup {Null}) /\ Len(queue) \in Nat
         /\ DOMAIN queue = 1 .. Len(queue)
         /\ item \in [Callers -> Tasks \cup {Null, Q!NoItem}]
         /\ op \in [Callers -> {"none", "put", "take"}] /\ DOMAIN pc = Callers
         /\ Null \notin Tasks /\ Null # Q!NoItem /\ Q!NoItem \notin Tasks
         /\ \A c \in Callers : op[c] = "put" => item[c] \in Tasks \cup {Null}
         /\ \A c \in Callers : op[c] # "put" => item[c] = Q!NoItem
         /\ Callers = Workers \cup {Main} /\ Main \notin Workers
         /\ \A w \in Workers : /\ pc[w] \in {"take", "run", "ran", "end", "ended"}
                               /\ op[w] # "put"
<1>1. TypeOK /\ Held
  BY DEF FInv, PInv
<1>2. /\ queue \in Seq(Tasks \cup {Null}) /\ op \in [Callers -> {"none", "put", "take"}]
      /\ item \in [Callers -> Tasks \cup {Null, Q!NoItem}] /\ DOMAIN pc = Callers
      /\ \A c \in Callers : op[c] = "put" => item[c] \in Tasks \cup {Null}
  BY <1>1 DEF TypeOK, Q!TypeOK
<1>3. /\ Null \notin Tasks /\ Null # Q!NoItem /\ Q!NoItem \notin Tasks
      /\ Callers = Workers \cup {Main} /\ Main \notin Workers
  BY PoolAssumption DEF Q!NoItem, Null, Callers
<1>4. QED BY <1>1, <1>2, <1>3 DEF FInv, FlagsLast, Held

\* A step that leaves queue and items alone, ends no thread and lets main go on
\* only when it is in no put.
LEMMA FlagsStay ==
  ASSUME FInv, program = "test", UNCHANGED <<queue, item, program>>,
         \A w \in Workers : /\ pc'[w] \in {"take", "run", "ran", "end", "ended"}
                            /\ op'[w] # "put"
                            /\ pc'[w] \in {"end", "ended"} => pc[w] \in {"end", "ended"},
         pc'[Main] = "start" => pc[Main] = "start",
         pc'[Main] # "start" => pc[Main] # "start" \/ op[Main] = "none"
  PROVE  FlagsLast'
<1>1. pc'[Main] # "start" => item'[Main] \in {Null, Q!NoItem}
  BY FlagFacts DEF FInv, FlagsLast
<1>2. pc'[Main] = "start" => /\ Null \notin ToSet(queue') /\ item'[Main] # Null
                             /\ \A w \in Workers : pc'[w] \notin {"end", "ended"}
  BY DEF FInv, FlagsLast
<1>3. /\ \A i, j \in DOMAIN queue' : i <= j /\ queue'[i] = Null => queue'[j] = Null
      /\ FlagsAfterJobs'
  BY DEF FInv, FlagsLast, FlagsAfterJobs
<1>4. QED BY <1>1, <1>2, <1>3 DEF FlagsLast

\* put adds a job behind jobs, or a flag.
LEMMA FlagsPut ==
  ASSUME FInv, program = "test", NEW c \in Callers, PutReturns(c)
  PROVE  FlagsLast'
<1>1. /\ op[c] = "put" /\ queue' = Append(queue, item[c])
      /\ item' = [item EXCEPT ![c] = Q!NoItem] /\ op' = [op EXCEPT ![c] = "none"]
      /\ UNCHANGED <<program, pc>>
  BY DEF PutReturns, Q!PutDone, Q!Leave, Q!Awake
<1>2. c = Main
  BY <1>1, FlagFacts
<1>3. /\ DOMAIN queue' = 1 .. (Len(queue) + 1) /\ queue'[Len(queue) + 1] = item[Main]
      /\ \A i \in 1 .. Len(queue) : queue'[i] = queue[i]
      /\ Len(queue) \in Nat /\ DOMAIN queue = 1 .. Len(queue)
  BY <1>1, <1>2, FlagFacts
<1>4. /\ \A w \in Workers : /\ pc'[w] \in {"take", "run", "ran", "end", "ended"}
                            /\ op'[w] # "put"
      /\ item'[Main] = Q!NoItem /\ Null # Q!NoItem
  BY <1>1, <1>2, FlagFacts
<1>5. CASE pc[Main] = "start"
  <2>1. /\ \A i \in DOMAIN queue : queue[i] # Null
        /\ item[Main] # Null /\ \A w \in Workers : pc[w] \notin {"end", "ended"}
    BY <1>5 DEF FInv, FlagsLast, ToSet
  <2>2. \A i \in DOMAIN queue' : queue'[i] # Null
    BY <1>3, <2>1
  <2>3. QED BY <1>1, <1>4, <1>5, <2>1, <2>2 DEF FlagsLast, FlagsAfterJobs, ToSet
<1>6. CASE pc[Main] # "start"
  <2>1. item[Main] = Null
    BY <1>1, <1>2, <1>6, FlagFacts DEF FInv, FlagsLast
  <2>2. \A i, j \in DOMAIN queue : i <= j /\ queue[i] = Null => queue[j] = Null
    BY DEF FInv, FlagsLast
  <2>3. \A i, j \in DOMAIN queue' : i <= j /\ queue'[i] = Null => queue'[j] = Null
    BY <1>3, <2>1, <2>2
  <2>4. FlagsAfterJobs'
    <3>1. SUFFICES ASSUME \E w \in Workers : pc[w] \in {"end", "ended"}
                   PROVE  \A i \in DOMAIN queue' : queue'[i] = Null
      BY <1>1 DEF FlagsAfterJobs, ToSet
    <3>2. \A i \in DOMAIN queue : queue[i] = Null
      BY <3>1 DEF FInv, FlagsLast, FlagsAfterJobs, ToSet
    <3>3. QED BY <1>3, <2>1, <3>2
  <2>5. QED BY <1>1, <1>4, <1>6, <2>3, <2>4 DEF FlagsLast
<1>7. QED BY <1>5, <1>6

\* A thread that takes a flag takes the first of nothing but flags.
LEMMA FlagsTaken ==
  ASSUME FInv, program = "test", NEW w \in Workers, TakeReturns(w)
  PROVE  FlagsLast'
<1>1. /\ queue' = Tail(queue) /\ queue # << >> /\ program' = program
      /\ item' = [item EXCEPT ![w] = Q!NoItem] /\ op' = [op EXCEPT ![w] = "none"]
      /\ pc' = [pc EXCEPT ![w] = IF Head(queue) = Null THEN "end" ELSE "run"]
      /\ pc[w] = "take"
  BY DEF TakeReturns, Up, Goto, Q!TakeDone, Q!Leave
<1>2. /\ 1 \in DOMAIN queue /\ Head(queue) = queue[1]
      /\ DOMAIN queue' = 1 .. (Len(queue) - 1)
      /\ Len(queue) \in Nat /\ DOMAIN queue = 1 .. Len(queue)
      /\ \A i \in DOMAIN queue' : i + 1 \in DOMAIN queue /\ queue'[i] = queue[i + 1]
  BY <1>1, FlagFacts
<1>3. /\ pc'[Main] = pc[Main] /\ item'[Main] = item[Main]
      /\ \A v \in Workers : /\ pc'[v] \in {"take", "run", "ran", "end", "ended"}
                            /\ op'[v] # "put"
                            /\ v # w => pc'[v] = pc[v]
      /\ pc'[w] = IF queue[1] = Null THEN "end" ELSE "run"
  BY <1>1, <1>2, FlagFacts
<1>4. \A i, j \in DOMAIN queue : i <= j /\ queue[i] = Null => queue[j] = Null
  BY DEF FInv, FlagsLast
<1>5. \A i, j \in DOMAIN queue' : i <= j /\ queue'[i] = Null => queue'[j] = Null
  BY <1>2, <1>4
<1>6. pc[Main] = "start" => /\ \A i \in DOMAIN queue : queue[i] # Null
                            /\ item[Main] # Null
                            /\ \A v \in Workers : pc[v] \notin {"end", "ended"}
  BY DEF FInv, FlagsLast, ToSet
<1>7. pc'[Main] = "start" => /\ \A i \in DOMAIN queue' : queue'[i] # Null
                             /\ item'[Main] # Null
                             /\ \A v \in Workers : pc'[v] \notin {"end", "ended"}
  BY <1>2, <1>3, <1>6
<1>8. FlagsAfterJobs'
  <2>1. SUFFICES ASSUME \E v \in Workers : pc'[v] \in {"end", "ended"}
                 PROVE  \A i \in DOMAIN queue : queue[i] = Null
    BY <1>2 DEF FlagsAfterJobs, ToSet
  <2>2. CASE queue[1] = Null
    BY <1>2, <1>4, <2>2
  <2>3. CASE queue[1] # Null
    <3>1. \E v \in Workers : pc[v] \in {"end", "ended"}
      BY <1>3, <2>1, <2>3
    <3>2. QED BY <3>1 DEF FInv, FlagsLast, FlagsAfterJobs, ToSet
  <2>4. QED BY <2>2, <2>3
<1>9. pc'[Main] # "start" => item'[Main] \in {Null, Q!NoItem}
  BY <1>3 DEF FInv, FlagsLast
<1>10. QED BY <1>3, <1>5, <1>7, <1>8, <1>9 DEF FlagsLast, ToSet

\* Main calls put: with a job while it starts the jobs, with a flag after.
LEMMA FlagsCalled ==
  ASSUME FInv, program = "test", NEW v, v # Q!NoItem, UNCHANGED <<queue, program, pc>>,
         item' = [item EXCEPT ![Main] = v], op' = [op EXCEPT ![Main] = "put"],
         v = Null <=> pc[Main] # "start"
  PROVE  FlagsLast'
<1>1. /\ \A w \in Workers : op'[w] = op[w]
      /\ item'[Main] = v
  BY FlagFacts
<1>2. FlagsAfterJobs'
  BY DEF FInv, FlagsLast, FlagsAfterJobs
<1>3. QED BY <1>1, <1>2 DEF FInv, FlagsLast

LEMMA FlagsKept ==
  ASSUME FInv, Next, program = "test"
  PROVE  FlagsLast'
<1> USE FlagFacts DEF queueVars, poolVars, taskVars, Up, Outside, Goto, Begin
<1>1. ASSUME NEW c \in Callers, PutSleeps(c) PROVE FlagsLast'
  BY <1>1, FlagsStay DEF PutSleeps, Q!PutWaits
<1>2. ASSUME NEW c \in Callers, PutReturns(c) PROVE FlagsLast'
  BY <1>2, FlagsPut
<1>3. ASSUME NEW c \in Callers, Wakeup(c) PROVE FlagsLast'
  BY <1>3, FlagsStay DEF Wakeup, Q!SpuriousWakeup
<1>4. ASSUME NEW c \in Callers, PutEndFlag(c) PROVE FlagsLast'
  <2>1. c = Main
    BY <1>4 DEF PutEndFlag
  <2>2. QED BY <1>4, <2>1, FlagsCalled DEF PutEndFlag, Q!CallPut
<1>5. ASSUME NEW c \in Callers, EndFlagsPut(c) PROVE FlagsLast'
  BY <1>5, FlagsStay DEF EndFlagsPut
<1>6. ASSUME NEW c \in Callers, Released(c) PROVE FlagsLast'
  BY <1>6, FlagsStay DEF Released
<1>7. ASSUME NEW c \in Callers, Release(c) PROVE FlagsLast'
  BY <1>7, FlagsStay DEF Release
<1>8. ASSUME NEW c \in Callers, ReleaseReturns(c) PROVE FlagsLast'
  BY <1>8, FlagsStay DEF ReleaseReturns
<1>9. ASSUME NEW c \in Callers, DeleteThread(c) PROVE FlagsLast'
  BY <1>9, FlagsStay DEF DeleteThread
<1>10. ASSUME NEW c \in Callers, Clear(c) PROVE FlagsLast'
  BY <1>10, FlagsStay DEF Clear
<1>11. ASSUME NEW w \in Workers, TakeCalls(w) PROVE FlagsLast'
  BY <1>11, FlagsStay DEF TakeCalls, Q!CallTake
<1>12. ASSUME NEW w \in Workers, TakeSleeps(w) PROVE FlagsLast'
  BY <1>12, FlagsStay DEF TakeSleeps, Q!TakeWaits
<1>13. ASSUME NEW w \in Workers, TakeReturns(w) PROVE FlagsLast'
  BY <1>13, FlagsTaken
<1>14. ASSUME NEW w \in Workers, DeleteTarget(w) PROVE FlagsLast'
  BY <1>14, FlagsStay DEF DeleteTarget
<1>15. ASSUME NEW w \in Workers, Ends(w) PROVE FlagsLast'
  <2>1. /\ UNCHANGED <<queue, op, item, program>> /\ pc[w] = "end" /\ pc'[w] = "ended"
        /\ \A v \in Workers : v # w => pc'[v] = pc[v]
        /\ pc'[Main] = "start" <=> pc[Main] = "start"
    BY <1>15 DEF Ends
  <2>2. QED BY <2>1, FlagsStay
<1>16. ASSUME NEW w \in Workers, TaskReturns(w) PROVE FlagsLast'
  BY <1>16, FlagsStay DEF TaskReturns
<1>17. ASSUME NEW w \in Workers, Shutdown(w) \/ \E client \in Clients : Accept(w, client)
       PROVE  FlagsLast'
  <2>1. target[w] # Null
    BY <1>17 DEF Shutdown, Accept, FInv, PInv, Held
  <2>2. QED BY <1>17, <2>1, TestRunsJobs DEF FInv, Shutdown, Accept
<1>18. ASSUME NEW w \in Workers, UsesDeleted(w) PROVE FlagsLast'
  BY <1>18, FlagsStay DEF UsesDeleted
<1>19. CASE MainStarts
  <2>1. Batch[at[Main]] \in Tasks
    BY <1>19, BatchIs DEF MainStarts, FInv, PInv, TypeOK
  <2>2. QED BY <1>19, <2>1, PoolAssumption, FlagsCalled DEF MainStarts, Start, Q!CallPut, Q!NoItem
<1>20. CASE MainStarted
  BY <1>20, FlagsStay DEF MainStarted
<1>21. CASE JoinCalls \/ JoinReturns
  BY <1>21, FlagsStay DEF JoinCalls, JoinReturns
<1>22. CASE MainReturns \/ JoinsDeleted
  BY <1>22, FlagsStay DEF MainReturns, JoinsDeleted
<1> QED
  BY <1>1, <1>2, <1>3, <1>4, <1>5, <1>6, <1>7, <1>8, <1>9, <1>10, <1>11, <1>12, <1>13,
     <1>14, <1>15, <1>16, <1>17, <1>18, <1>19, <1>20, <1>21, <1>22
     DEF Next, MainStep, PutStep, StopStep, WorkerLoop

LEMMA InitFInv ==
  ASSUME Init
  PROVE  FInv
<1> USE PoolAssumption DEF Init, Q!Init
<1>1. TypeOK
  <2>1. queue \in Seq(Tasks \cup {Null}) /\ Len(queue) <= Cap
    OBVIOUS
  <2>2. Q!TypeOK
    BY <2>1 DEF Q!TypeOK
  <2>3. /\ target \in [Workers -> Tasks \cup {Null}] /\ at \in [Callers -> Nat \ {0}]
        /\ pc \in [Callers -> {"start", "take"}]
    OBVIOUS
  <2>4. QED BY <2>2, <2>3 DEF TypeOK
<1>2. Held
  BY DEF Held, Callers
<1>3. NotYetCalled
  BY DEF NotYetCalled, Batch
<1>4. Single
  <2>1. SUFFICES ASSUME NEW task \in Tasks PROVE Places(task) = {}
    BY DEF Single
  <2>2. task # Q!NoItem /\ task # Null
    BY DEF Q!NoItem
  <2>3. QED BY <2>2, PlacesAre
<1>5. FlagsLast
  BY DEF FlagsLast, FlagsAfterJobs, Callers, ToSet, Q!NoItem, Null
<1>6. QED BY <1>1, <1>2, <1>3, <1>4, <1>5 DEF FInv, PInv

\* A task with one place is counted once.
LEMMA SingleCounts ==
  ASSUME Single
  PROVE  TaskInOnePlace
<1>1. SUFFICES ASSUME NEW task \in Tasks
               PROVE  Cardinality(Places(task)) = IF task \in called \ done THEN 1 ELSE 0
  BY DEF TaskInOnePlace
<1>2. QED BY <1>1, FS_Singleton, FS_EmptySet DEF Single

LEMMA FInvStutters ==
  ASSUME FInv, UNCHANGED vars
  PROVE  FInv'
<1> USE DEF vars, queueVars, poolVars, taskVars
<1>1. TypeOK' /\ Held' /\ NotYetCalled'
  BY DEF FInv, PInv, TypeOK, Q!TypeOK, Held, NotYetCalled, Batch
<1>2. Single'
  BY DEF FInv, PInv, Single, Places
<1>3. FlagsLast'
  BY DEF FInv, FlagsLast, FlagsAfterJobs
<1>4. QED BY <1>1, <1>2, <1>3 DEF FInv, PInv

LEMMA ProgramStays ==
  ASSUME Next
  PROVE  program' = program
  BY DEF Next, MainStep, MainStarts, MainStarted, JoinCalls, JoinReturns, MainReturns,
         JoinsDeleted, PutStep, PutSleeps, PutReturns, Wakeup, StopStep, PutEndFlag,
         EndFlagsPut, Release, ReleaseReturns, Released, DeleteThread, Clear, WorkerLoop,
         TakeCalls, TakeSleeps, TakeReturns, DeleteTarget, Ends, TaskReturns, Shutdown,
         UsesDeleted, Accept, Start

LEMMA FInvKept ==
  ASSUME FInv, [Next]_vars
  PROVE  FInv'
<1>1. CASE UNCHANGED vars
  BY <1>1, FInvStutters
<1>2. CASE Next
  <2>1. program' = program
    BY <1>2, ProgramStays
  <2>2. PInv'
    BY <1>2, PInvKept DEF FInv
  <2>3. CASE program = "test"
    BY <1>2, <2>2, <2>3, FlagsKept DEF FInv
  <2>4. CASE program # "test"
    BY <2>1, <2>2, <2>4 DEF FInv, FlagsLast
  <2>5. QED BY <2>3, <2>4
<1>3. QED BY <1>1, <1>2

\* Whatever the threads, the program and stopAll do, the pool's state keeps its
\* types, and the invariant holds that the next two theorems are read off.
THEOREM PoolInvariant == Spec => []FInv
<1>1. Init => FInv
  BY InitFInv
<1>2. FInv /\ [Next]_vars => FInv'
  BY FInvKept
<1>3. QED BY <1>1, <1>2, PTL DEF Spec

THEOREM PoolTypes == Spec => []TypeOK
<1>1. FInv => TypeOK
  BY DEF FInv, PInv
<1>2. QED BY <1>1, PoolInvariant, PTL

\* No task is lost and none is run twice (start, PooledThread::run).
THEOREM NoTaskLost == Spec => []TaskInOnePlace
<1>1. FInv => TaskInOnePlace
  BY SingleCounts DEF FInv, PInv
<1>2. QED BY <1>1, PoolInvariant, PTL

\* In the test no thread ends while a job is still in the queue (stopAll).
THEOREM FlagsComeLast == Spec => []FlagsAfterJobs
<1>1. FInv => FlagsAfterJobs
  BY DEF FInv, FlagsLast, FlagsAfterJobs
<1>2. QED BY <1>1, PoolInvariant, PTL

--------------------------------------------------------------------------------
\* What the order of stopAll is about, with the types it needs.
LEMMA StopFacts ==
  ASSUME FInv, program = "test"
  PROVE  /\ Callers = Workers \cup {Main} /\ Main \notin Workers
         /\ \A w \in Workers : pc[w] \in {"take", "run", "ran", "end", "ended"}
         /\ DOMAIN pc = Callers /\ DOMAIN op = Callers /\ DOMAIN at = Callers
         /\ at[Main] \in Nat \ {0} /\ Batch = Jobs
         /\ Len(Pool) \in Nat \ {0} /\ DOMAIN Pool = 1 .. Len(Pool)
         /\ \A i \in DOMAIN Pool : Pool[i] \in Workers
         /\ Len(Jobs) \in Nat /\ DOMAIN Jobs = 1 .. Len(Jobs)
<1>1. TypeOK
  BY DEF FInv, PInv
<1>2. /\ DOMAIN pc = Callers /\ DOMAIN op = Callers /\ DOMAIN at = Callers
      /\ at[Main] \in Nat \ {0}
  BY <1>1 DEF TypeOK, Q!TypeOK, Callers
<1>3. /\ Len(Pool) \in Nat \ {0} /\ DOMAIN Pool = 1 .. Len(Pool)
      /\ \A i \in DOMAIN Pool : Pool[i] \in Workers
      /\ Len(Jobs) \in Nat /\ DOMAIN Jobs = 1 .. Len(Jobs)
  BY PoolAssumption
<1>4. QED BY <1>2, <1>3, FlagFacts DEF Batch

\* A step with which main does not go on and no ended thread starts again.
LEMMA StopStays ==
  ASSUME SInv, program = "test", UNCHANGED <<program, early, deleted, cleared>>,
         pc'[Main] = pc[Main], at'[Main] = at[Main],
         op'[Main] = op[Main] \/ pc[Main] = "put", called \subseteq called',
         \A w \in Workers : pc[w] = "ended" => pc'[w] = "ended"
  PROVE  StopsInOrder'
<1>1. \A n : WaitedFor(n) => WaitedFor(n)'
  BY StopFacts DEF WaitedFor, Left, SInv
<1>2. WaitedFor(at[Main]) => WaitedFor(at[Main])'
  BY StopFacts DEF WaitedFor, Left, SInv
<1>3. QED BY <1>1, <1>2 DEF SInv, StopsInOrder

LEMMA StopKept ==
  ASSUME SInv, Next, program = "test"
  PROVE  StopsInOrder'
<1> USE StopFacts DEF SInv, queueVars, poolVars, taskVars, Up, Outside, Goto, Begin, NextAt
<1>1. ASSUME NEW c \in Callers, PutSleeps(c) PROVE StopsInOrder'
  BY <1>1, StopStays DEF PutSleeps, Q!PutWaits
<1>2. ASSUME NEW c \in Callers, PutReturns(c) PROVE StopsInOrder'
  <2>1. c = Main /\ pc[Main] # "run"
    BY <1>2, FlagFacts DEF PutReturns, Q!PutDone, Q!Awake, StopsInOrder
  <2>2. /\ UNCHANGED <<program, pc, early, deleted, cleared, called>>
        /\ at'[Main] = at[Main] + 1 /\ op[Main] = "put" /\ op'[Main] # "put"
    BY <1>2, <2>1 DEF PutReturns, Q!PutDone, Q!Leave, Q!Awake
  <2>3. pc[Main] \notin {"release", "wait"}
    BY <2>2 DEF StopsInOrder
  <2>4. QED BY <2>2, <2>3 DEF StopsInOrder, WaitedFor, Left
<1>3. ASSUME NEW c \in Callers, Wakeup(c) PROVE StopsInOrder'
  BY <1>3, StopStays DEF Wakeup, Q!SpuriousWakeup
<1>4. ASSUME NEW c \in Callers, PutEndFlag(c) PROVE StopsInOrder'
  BY <1>4, StopStays DEF PutEndFlag, Q!CallPut
<1>5. ASSUME NEW c \in Callers, EndFlagsPut(c) PROVE StopsInOrder'
  BY <1>5 DEF EndFlagsPut, StopsInOrder, WaitedFor, Left
<1>6. ASSUME NEW c \in Callers, Release(c) PROVE StopsInOrder'
  BY <1>6 DEF Release, StopsInOrder, WaitedFor, Left, More, Size
<1>7. ASSUME NEW c \in Callers, ReleaseReturns(c) PROVE StopsInOrder'
  <2>1. c = Main /\ pc[Main] = "wait"
    BY <1>7 DEF ReleaseReturns
  <2>2. at[Main] \in DOMAIN Pool /\ WaitedFor(at[Main])
    BY <2>1 DEF StopsInOrder
  <2>3. /\ early' = early \cup ({Pool[at[Main]]} \cap {w \in Workers : pc[w] # "ended"})
        /\ pc' = [pc EXCEPT ![Main] = "release"] /\ at' = [at EXCEPT ![Main] = @ + 1]
        /\ UNCHANGED <<op, program, deleted, cleared, called>>
    BY <1>7, <2>1 DEF ReleaseReturns
  <2>4. WaitedFor(at[Main])'
    <3>1. SUFFICES ASSUME NEW i \in DOMAIN Pool, i < at[Main] + 1 PROVE Left(Pool[i])'
      BY <2>3 DEF WaitedFor
    <3>2. pc'[Pool[i]] = pc[Pool[i]]
      BY <2>3
    <3>3. CASE i < at[Main]
      BY <2>2, <2>3, <3>2, <3>3 DEF WaitedFor, Left
    <3>4. CASE i = at[Main]
      BY <2>3, <3>2, <3>4 DEF Left
    <3>5. QED BY <2>2, <3>1, <3>3, <3>4
  <2>5. QED BY <2>1, <2>3, <2>4 DEF StopsInOrder
<1>8. ASSUME NEW c \in Callers, Released(c) PROVE StopsInOrder'
  BY <1>8 DEF Released, StopsInOrder, WaitedFor, Left, More, Size
<1>9. ASSUME NEW c \in Callers, DeleteThread(c) PROVE StopsInOrder'
  BY <1>9 DEF DeleteThread, StopsInOrder, WaitedFor, Left
<1>10. ASSUME NEW c \in Callers, Clear(c) PROVE StopsInOrder'
  BY <1>10 DEF Clear, StopsInOrder, WaitedFor, Left
<1>11. ASSUME NEW w \in Workers, TakeCalls(w) PROVE StopsInOrder'
  BY <1>11, StopStays DEF TakeCalls, Q!CallTake
<1>12. ASSUME NEW w \in Workers, TakeSleeps(w) PROVE StopsInOrder'
  BY <1>12, StopStays DEF TakeSleeps, Q!TakeWaits
<1>13. ASSUME NEW w \in Workers, TakeReturns(w) PROVE StopsInOrder'
  BY <1>13, StopStays DEF TakeReturns, Q!TakeDone, Q!Leave
<1>14. ASSUME NEW w \in Workers, DeleteTarget(w) PROVE StopsInOrder'
  BY <1>14, StopStays DEF DeleteTarget
<1>15. ASSUME NEW w \in Workers, Ends(w) PROVE StopsInOrder'
  <2>1. /\ UNCHANGED <<op, program, early, deleted, cleared, called>> /\ pc'[w] = "ended"
        /\ \A v \in Workers : pc'[v] \in {pc[v], "ended"}
        /\ IF pc[Main] = "wait" /\ Pool[at[Main]] = w
             THEN pc'[Main] = "release" /\ at'[Main] = at[Main] + 1
             ELSE pc'[Main] = pc[Main] /\ at'[Main] = at[Main]
    BY <1>15 DEF Ends
  <2>2. CASE pc[Main] = "wait" /\ Pool[at[Main]] = w
    BY <2>1, <2>2 DEF StopsInOrder, WaitedFor, Left
  <2>3. CASE ~(pc[Main] = "wait" /\ Pool[at[Main]] = w)
    BY <2>1, <2>3, StopStays
  <2>4. QED BY <2>2, <2>3
<1>16. ASSUME NEW w \in Workers, TaskReturns(w) PROVE StopsInOrder'
  BY <1>16, StopStays DEF TaskReturns
<1>17. ASSUME NEW w \in Workers, Shutdown(w) \/ \E client \in Clients : Accept(w, client)
       PROVE  StopsInOrder'
  <2>1. target[w] # Null
    BY <1>17 DEF Shutdown, Accept, FInv, PInv, Held
  <2>2. QED BY <1>17, <2>1, TestRunsJobs DEF FInv, Shutdown, Accept
<1>18. ASSUME NEW w \in Workers, UsesDeleted(w) PROVE StopsInOrder'
  BY <1>18, StopStays DEF UsesDeleted
<1>19. CASE MainStarts
  <2>1. /\ UNCHANGED <<program, pc, at, deleted, cleared>> /\ pc[Main] = "start"
        /\ op[Main] = "none" /\ called' = called \cup {Jobs[at[Main]]}
    BY <1>19 DEF MainStarts, Start, Q!CallPut
  <2>2. QED BY <2>1 DEF StopsInOrder, WaitedFor, Left
<1>20. CASE MainStarted
  BY <1>20 DEF MainStarted, StopsInOrder
<1>21. CASE JoinCalls \/ JoinReturns
  BY <1>21 DEF JoinCalls, JoinReturns, StopsInOrder
<1>22. CASE MainReturns \/ JoinsDeleted
  BY <1>22, StopStays DEF MainReturns, JoinsDeleted
<1> QED
  BY <1>1, <1>2, <1>3, <1>4, <1>5, <1>6, <1>7, <1>8, <1>9, <1>10, <1>11, <1>12, <1>13,
     <1>14, <1>15, <1>16, <1>17, <1>18, <1>19, <1>20, <1>21, <1>22
     DEF Next, MainStep, PutStep, StopStep, WorkerLoop

LEMMA InitStops ==
  ASSUME Init
  PROVE  StopsInOrder
<1>1. /\ pc[Main] = "start" /\ at[Main] = 1 /\ op[Main] = "none"
      /\ deleted = {} /\ cleared = FALSE
  BY DEF Init, Q!Init, Callers
<1>2. DOMAIN Jobs = 1 .. Len(Jobs) /\ Len(Jobs) \in Nat
  BY PoolAssumption
<1>3. QED BY <1>1, <1>2 DEF StopsInOrder

\* A job that is not done is left to a thread that was not waited for: one thread
\* that was has ended, so the queue holds no job and main puts none.
LEMMA LeftIsClean ==
  ASSUME SInv
  PROVE  StoppedClean
<1>1. SUFFICES ASSUME program = "test"
               PROVE  /\ \A w \in deleted : Left(w)
                      /\ pc[Main] = "free" => \A job \in ToSet(Jobs) \ done : LeftTo(job)
  BY DEF StoppedClean, Left
<1>2. \A w \in Workers : \E i \in DOMAIN Pool : Pool[i] = w
  BY DEF Workers, ToSet
<1>3. /\ Len(Pool) \in Nat \ {0} /\ DOMAIN Pool = 1 .. Len(Pool)
      /\ \A i \in DOMAIN Pool : Pool[i] \in Workers
  BY <1>1, StopFacts DEF SInv
<1>4. pc[Main] \in {"delete", "free"} => \A w \in Workers : Left(w)
  BY <1>1, <1>2, <1>3 DEF SInv, StopsInOrder, WaitedFor
<1>5. \A w \in deleted : Left(w)
  <2>1. deleted \subseteq Workers
    BY DEF SInv, FInv, PInv, TypeOK
  <2>2. pc[Main] \in {"delete", "free"} \/ deleted = {}
    BY <1>1 DEF SInv, StopsInOrder
  <2>3. QED BY <1>4, <2>1, <2>2
<1>6. ASSUME pc[Main] = "free", NEW job \in ToSet(Jobs) \ done, early # Workers
      PROVE  \E w \in early : target[w] = job
  <2>1. PICK v \in Workers : pc[v] = "ended"
    <3>1. early \subseteq Workers
      BY DEF SInv, FInv, PInv, TypeOK
    <3>2. QED BY <1>4, <1>6, <3>1 DEF Left
  <2>2. \A i \in DOMAIN queue : queue[i] = Null
    BY <1>1, <2>1 DEF SInv, FInv, FlagsLast, FlagsAfterJobs, ToSet
  <2>3. \A c \in Callers : item[c] \in {Null, Q!NoItem}
    <3>1. item[Main] \in {Null, Q!NoItem}
      BY <1>1, <1>6 DEF SInv, FInv, FlagsLast
    <3>2. QED BY <1>1, <3>1, FlagFacts DEF SInv
  <2>4. job \in called \ done /\ job \in Tasks /\ job # Null /\ job # Q!NoItem
    <3>1. ToSet(Jobs) \subseteq called
      BY <1>1, <1>6 DEF SInv, StopsInOrder, ToSet
    <3>2. QED BY <1>1, <1>6, <3>1, FlagFacts DEF SInv, Tasks
  <2>5. PICK x : x \in Places(job)
    BY <2>4 DEF SInv, FInv, PInv, Single
  <2>6. PICK w \in Workers : target[w] = job
    BY <2>2, <2>3, <2>4, <2>5, PlacesAre
  <2>7. pc[w] # "ended"
    BY <2>4, <2>6 DEF SInv, FInv, PInv, Held
  <2>8. QED BY <1>4, <1>6, <2>6, <2>7 DEF Left
<1>7. QED BY <1>5, <1>6 DEF LeftTo

LEMMA SInvKept ==
  ASSUME SInv, [Next]_vars
  PROVE  SInv'
<1>1. FInv'
  BY FInvKept DEF SInv
<1>2. CASE UNCHANGED vars
  BY <1>1, <1>2 DEF SInv, StopsInOrder, WaitedFor, Left, vars, queueVars, poolVars, taskVars
<1>3. CASE Next /\ program = "test"
  BY <1>1, <1>3, StopKept DEF SInv
<1>4. CASE Next /\ program # "test"
  BY <1>1, <1>4, ProgramStays DEF SInv, StopsInOrder
<1>5. QED BY <1>2, <1>3, <1>4

\* Whenever the wait of release ends, in the test a PooledThread that runs is deleted
\* only when the wait for it ended early, and the jobs that stopAll leaves are with
\* such threads, or in the queue when no thread has ended (stopAll, release).
THEOREM StopsClean == Spec => []StoppedClean
<1>1. Init => SInv
  BY InitFInv, InitStops DEF SInv
<1>2. SInv /\ [Next]_vars => SInv'
  BY SInvKept
<1>3. SInv => StoppedClean
  BY LeftIsClean
<1>4. QED BY <1>1, <1>2, <1>3, PTL DEF Spec
-----------------------------------------------------------------------------
(***************************************************************************)
(* The test with its logger is a pool, so what is shown of the pool above  *)
(* holds of it.  The logger writes every line once and in order, and when  *)
(* main is notified of its end only the threads that stopAll left behind   *)
(* may still use it.                                                       *)
(*                                                                         *)
(* For the end one has to know that a job that has returned has logged its *)
(* line, that main comes to the release of the logger after stopAll only,  *)
(* where StoppedClean holds, and that the log thread which has notified    *)
(* main is over.                                                           *)
(***************************************************************************)

\* What the logger holds are lines of jobs, none is in the thread's hand but
\* while it writes.
LogTypes ==
  /\ lines \in Seq(ToSet(Jobs)) /\ hand \in Seq(ToSet(Jobs))
  /\ logged \in Seq(ToSet(Jobs)) /\ written \in Seq(ToSet(Jobs))
  /\ logging \in [Workers -> Seq(ToSet(Jobs))]
  /\ writer # "write" => hand = << >>

\* Main comes to the release after stopAll, and is notified by the thread's last
\* step.
ExitInOrder ==
  /\ program # "test" => pc[Main] \in {"start", "join", "joining"}
  /\ exit # "no" => pc[Main] = "free"
  /\ exit = "notified" => writer = "ended"

\* A job that has returned has logged its line.
JobsLog ==
  program = "test" =>
    /\ \A w \in Workers : pc[w] = "ran" => target[w] \in ToSet(logged)
    /\ done \subseteq ToSet(logged)

LInv == SInv /\ LogTypes /\ LinesInOrder /\ ExitInOrder /\ JobsLog

\* What a step of the pool does to main's place and to the jobs that are over.
PoolStep ==
  /\ program' = program
  /\ pc[Main] = "free" => pc'[Main] = "free"
  /\ program # "test" /\ pc[Main] \in {"start", "join", "joining"}
       => pc'[Main] \in {"start", "join", "joining"}
  /\ program = "test" =>
       /\ \A job \in done' : job \in done \/ \E w \in Workers : pc[w] = "ran" /\ target[w] = job
       /\ \A w \in Workers : pc'[w] = "ran" => pc[w] = "ran" /\ target'[w] = target[w]

LEMMA StepsOfPool ==
  ASSUME FInv, PoolSteps
  PROVE  PoolStep
<1>1. /\ DOMAIN pc = Callers /\ DOMAIN target = Workers
      /\ Callers = Workers \cup {Main} /\ Main \notin Workers
  BY PoolAssumption DEF FInv, PInv, TypeOK, Callers
<1>2. program = "test" => \A w \in Workers : pc[w] \in {"take", "run", "ran", "end", "ended"}
  BY DEF FInv, FlagsLast
<1>3. program' = program
  BY ProgramStays DEF PoolSteps, MainGoesOn, MainStep, Next
<1> USE <1>1, <1>2, <1>3 DEF PoolStep, queueVars, poolVars, taskVars, Up, Goto, Begin
<1>4. ASSUME NEW c \in Callers, PutSleeps(c) PROVE PoolStep
  BY <1>4 DEF PutSleeps
<1>5. ASSUME NEW c \in Callers, PutReturns(c) PROVE PoolStep
  BY <1>5 DEF PutReturns
<1>6. ASSUME NEW c \in Callers, Wakeup(c) PROVE PoolStep
  BY <1>6 DEF Wakeup
<1>7. ASSUME NEW c \in Callers, PutEndFlag(c) PROVE PoolStep
  BY <1>7 DEF PutEndFlag
<1>8. ASSUME NEW c \in Callers, EndFlagsPut(c) PROVE PoolStep
  BY <1>8 DEF EndFlagsPut
<1>9. ASSUME NEW c \in Callers, Release(c) PROVE PoolStep
  BY <1>9 DEF Release
<1>10. ASSUME NEW c \in Callers, ReleaseReturns(c) PROVE PoolStep
  BY <1>10 DEF ReleaseReturns
<1>11. ASSUME NEW c \in Callers, Released(c) PROVE PoolStep
  BY <1>11 DEF Released
<1>12. ASSUME NEW c \in Callers, DeleteThread(c) PROVE PoolStep
  BY <1>12 DEF DeleteThread
<1>13. ASSUME NEW c \in Callers, Clear(c) PROVE PoolStep
  BY <1>13 DEF Clear
<1>14. ASSUME NEW w \in Workers, TakeCalls(w) PROVE PoolStep
  BY <1>14 DEF TakeCalls
<1>15. ASSUME NEW w \in Workers, TakeSleeps(w) PROVE PoolStep
  BY <1>15 DEF TakeSleeps
<1>16. ASSUME NEW w \in Workers, TakeReturns(w) PROVE PoolStep
  BY <1>16 DEF TakeReturns
<1>17. ASSUME NEW w \in Workers, DeleteTarget(w) PROVE PoolStep
  BY <1>17 DEF DeleteTarget
<1>18. ASSUME NEW w \in Workers, Ends(w) PROVE PoolStep
  <2>1. /\ UNCHANGED <<target, done>>
        /\ \A c \in Callers : \/ pc'[c] = pc[c] \/ pc'[c] = "ended"
                              \/ pc[c] = "wait" /\ pc'[c] = "release"
        /\ pc'[Main] = "ended" => pc[Main] = "ended"
    BY <1>18 DEF Ends
  <2>2. QED BY <2>1
<1>19. ASSUME NEW w \in Workers, Shutdown(w) PROVE PoolStep
  BY <1>19 DEF Shutdown
<1>20. ASSUME NEW w \in Workers, UsesDeleted(w) PROVE PoolStep
  BY <1>20 DEF UsesDeleted
<1>21. ASSUME NEW w \in Workers, NEW client \in Clients, Accept(w, client) PROVE PoolStep
  BY <1>21 DEF Accept, Start
<1>22. CASE MainStarts
  BY <1>22 DEF MainStarts, Start
<1>23. CASE MainStarted
  BY <1>23 DEF MainStarted
<1>24. CASE JoinCalls
  BY <1>24 DEF JoinCalls
<1>25. CASE JoinReturns
  BY <1>25 DEF JoinReturns
<1>26. CASE JoinsDeleted
  BY <1>26 DEF JoinsDeleted
<1> QED
  BY <1>4, <1>5, <1>6, <1>7, <1>8, <1>9, <1>10, <1>11, <1>12, <1>13, <1>14, <1>15, <1>16,
     <1>17, <1>18, <1>19, <1>20, <1>21, <1>22, <1>23, <1>24, <1>25, <1>26
     DEF PoolSteps, MainGoesOn, PutStep, StopStep, WorkerLoop

\* Every step of the test is one of the pool or leaves the pool alone.
LEMMA StepsOfTest ==
  ASSUME TestNext
  PROVE  Next \/ UNCHANGED vars
<1>1. CASE PoolSteps /\ UNCHANGED logVars
  BY <1>1 DEF PoolSteps, MainGoesOn, MainStep, Next
<1>2. CASE \E w \in Workers : JobLogs(w) \/ JobLogged(w)
  BY <1>2 DEF JobLogs, JobLogged
<1>3. CASE \E w \in Workers : JobReturns(w)
  BY <1>3 DEF JobReturns, Next
<1>4. CASE Writer \/ Exits \/ ExitWoken
  BY <1>4 DEF Writer, Exits, ExitWoken
<1>5. CASE ProcessEnds
  BY <1>5 DEF ProcessEnds, MainStep, Next
<1>6. QED BY <1>1, <1>2, <1>3, <1>4, <1>5 DEF TestNext

\* The theorems about the pool hold of the test too.
THEOREM TestImplementsPool == TestSpec => Spec
<1>1. TestInit => Init
  BY DEF TestInit
<1>2. [TestNext]_testVars => [Next]_vars
  BY StepsOfTest DEF testVars
<1>3. QED BY <1>1, <1>2, PTL DEF TestSpec, Spec

\* A line goes from its caller to the end of the queue, from its head to the
\* thread's hand, and from there to the end of the file.
LEMMA LinesKept ==
  ASSUME LogTypes, LinesInOrder, [TestNext]_testVars
  PROVE  LogTypes' /\ LinesInOrder'
<1> DEFINE S == Seq(ToSet(Jobs))
<1>1. ASSUME UNCHANGED logVars PROVE LogTypes' /\ LinesInOrder'
  BY <1>1 DEF logVars, LogTypes, LinesInOrder
<1>2. ASSUME NEW w \in Workers, JobLogs(w) PROVE LogTypes' /\ LinesInOrder'
  <2>1. /\ logging' = [logging EXCEPT ![w] = <<target[w]>>] /\ target[w] \in ToSet(Jobs)
        /\ UNCHANGED <<lines, writer, hand, logged, written>>
    BY <1>2 DEF JobLogs, L!CallLog
  <2>2. <<target[w]>> \in S
    BY <2>1
  <2>3. QED BY <2>1, <2>2 DEF LogTypes, LinesInOrder
<1>3. ASSUME NEW w \in Workers, JobLogged(w) PROVE LogTypes' /\ LinesInOrder'
  <2>1. /\ lines' = lines \o logging[w] /\ logged' = logged \o logging[w]
        /\ logging' = [logging EXCEPT ![w] = << >>]
        /\ UNCHANGED <<writer, hand, written>>
    BY <1>3 DEF JobLogged, L!Push
  <2>2. logging[w] \in S /\ lines \in S /\ logged \in S /\ written \in S /\ hand \in S
    BY DEF LogTypes
  <2>3. written \o hand \in S /\ lines' \in S /\ logged' \in S /\ << >> \in S
    BY <2>1, <2>2, ConcatProperties
  <2>4. (written \o hand \o lines) \o logging[w] = (written \o hand) \o (lines \o logging[w])
    <3> DEFINE line == logging[w]
    <3>1. line \in S
      BY <2>2
    <3> HIDE DEF line
    <3>2. \A a, b, c \in S : (a \o b) \o c = a \o (b \o c)
      BY ConcatAssociative
    <3>3. written \o hand \in S
      BY <2>3
    <3> HIDE DEF S
    <3>4. ((written \o hand) \o lines) \o line = (written \o hand) \o (lines \o line)
      BY <2>2, <3>1, <3>2, <3>3
    <3>5. QED BY <3>4 DEF line
  <2>5. LogTypes'
    BY <2>1, <2>3 DEF LogTypes
  <2>6. LinesInOrder'
    BY <2>1, <2>4 DEF LinesInOrder
  <2>7. QED BY <2>5, <2>6
<1>4. CASE Writer
  <2>1. CASE L!Takes
    <3>1. /\ hand' = <<Head(lines)>> /\ lines' = Tail(lines) /\ lines # << >> /\ hand = << >>
          /\ writer' = "write" /\ UNCHANGED <<logging, logged, written>>
      BY <2>1 DEF L!Takes, LogTypes
    <3>2. lines \in S /\ written \in S
      BY DEF LogTypes
    <3>3. <<Head(lines)>> \in S /\ Tail(lines) \in S /\ <<Head(lines)>> \o Tail(lines) = lines
      BY <3>1, <3>2
    <3>4. written \o << >> = written
      BY <3>2, ConcatEmptySeq
    <3>5. (written \o <<Head(lines)>>) \o Tail(lines) = written \o lines
      BY <3>2, <3>3, ConcatAssociative
    <3>6. LinesInOrder'
      BY <3>1, <3>4, <3>5 DEF LinesInOrder
    <3>7. LogTypes'
      BY <3>1, <3>3 DEF LogTypes
    <3>8. QED BY <3>6, <3>7
  <2>2. CASE L!Writes
    <3>1. /\ written' = written \o hand /\ hand' = << >>
          /\ UNCHANGED <<lines, logging, logged>>
      BY <2>2 DEF L!Writes
    <3>2. written \in S /\ hand \in S /\ << >> \in S
      BY DEF LogTypes
    <3>3. written' \in S /\ (written \o hand) \o << >> = written \o hand
      BY <3>1, <3>2, ConcatProperties, ConcatEmptySeq
    <3>4. QED BY <3>1, <3>2, <3>3 DEF LogTypes, LinesInOrder
  <2>3. CASE L!LooksEmpty \/ L!AsksStop
    BY <2>3 DEF L!LooksEmpty, L!AsksStop, LogTypes, LinesInOrder
  <2>4. CASE L!Notifies
    BY <2>4 DEF L!Notifies, LogTypes, LinesInOrder
  <2>5. QED BY <1>4, <2>1, <2>2, <2>3, <2>4 DEF Writer, L!WriterStep
<1>5. CASE Exits
  BY <1>5 DEF Exits, L!Release, L!SetStopped, L!Waits, LogTypes, LinesInOrder
<1>6. CASE ExitWoken
  BY <1>6 DEF ExitWoken, L!SpuriouslyWoken, LogTypes, LinesInOrder
<1>7. CASE ProcessEnds \/ \E w \in Workers : JobReturns(w)
  BY <1>1, <1>7 DEF ProcessEnds, JobReturns
<1>8. QED BY <1>1, <1>2, <1>3, <1>4, <1>5, <1>6, <1>7 DEF TestNext, testVars

\* The lines are written in the order they were logged, each once (run, writeV).
THEOREM LinesStayInOrder == TestSpec => []LinesInOrder
<1>1. TestInit => LogTypes /\ LinesInOrder
  <2>1. ASSUME TestInit PROVE LogTypes /\ LinesInOrder
    <3>1. << >> \o << >> \o << >> = << >>
      OBVIOUS
    <3>2. QED BY <2>1, <3>1 DEF TestInit, L!LogInit, LogTypes, LinesInOrder
  <2>2. QED BY <2>1
<1>2. LogTypes /\ LinesInOrder /\ [TestNext]_testVars => LogTypes' /\ LinesInOrder'
  BY LinesKept
<1>3. QED BY <1>1, <1>2, PTL DEF TestSpec

-----------------------------------------------------------------------------
\* Lines that were logged stay logged.
LEMMA LoggedGrows ==
  ASSUME LogTypes, NEW w \in Workers
  PROVE  ToSet(logged) \subseteq ToSet(logged \o logging[w])
<1>1. logged \in Seq(ToSet(Jobs)) /\ logging[w] \in Seq(ToSet(Jobs))
  BY DEF LogTypes
<1>2. /\ DOMAIN logged = 1 .. Len(logged) /\ Len(logged) \in Nat /\ Len(logging[w]) \in Nat
      /\ DOMAIN (logged \o logging[w]) = 1 .. (Len(logged) + Len(logging[w]))
      /\ \A i \in 1 .. Len(logged) : (logged \o logging[w])[i] = logged[i]
  BY <1>1
<1>3. QED BY <1>2 DEF ToSet

\* Steps of the pool but for the return of a job and the end of the process.
LEMMA PoolStepKeeps ==
  ASSUME LInv, PoolSteps, UNCHANGED logVars
  PROVE  ExitInOrder' /\ JobsLog'
<1>1. PoolStep
  BY StepsOfPool DEF LInv, SInv
<1>2. ExitInOrder'
  BY <1>1 DEF PoolStep, LInv, ExitInOrder, logVars
<1>3. JobsLog'
  <2>1. SUFFICES ASSUME program = "test" PROVE JobsLog'
    BY <1>1 DEF PoolStep, JobsLog
  <2>2. /\ \A w \in Workers : pc[w] = "ran" => target[w] \in ToSet(logged)
        /\ done \subseteq ToSet(logged) /\ logged' = logged
    BY <2>1 DEF LInv, JobsLog, logVars
  <2>3. QED BY <1>1, <2>1, <2>2 DEF PoolStep, JobsLog
<1>4. QED BY <1>2, <1>3

LEMMA LInvKept ==
  ASSUME LInv, [TestNext]_testVars
  PROVE  LInv'
<1>1. SInv'
  <2>1. [Next]_vars
    BY StepsOfTest DEF testVars
  <2>2. QED BY <2>1, SInvKept DEF LInv
<1>2. LogTypes' /\ LinesInOrder'
  BY LinesKept DEF LInv
<1>3. ExitInOrder' /\ JobsLog'
  <2> USE DEF LInv, vars, poolVars, taskVars
  <2>1. CASE UNCHANGED testVars
    BY <2>1 DEF testVars, logVars, ExitInOrder, JobsLog
  <2>2. CASE PoolSteps /\ UNCHANGED logVars
    BY <2>2, PoolStepKeeps
  <2>3. ASSUME NEW w \in Workers, JobLogs(w) PROVE ExitInOrder' /\ JobsLog'
    BY <2>3 DEF JobLogs, L!CallLog, ExitInOrder, JobsLog
  <2>4. ASSUME NEW w \in Workers, JobLogged(w) PROVE ExitInOrder' /\ JobsLog'
    <3>1. /\ UNCHANGED <<vars, writer, exit>> /\ logged' = logged \o logging[w]
      BY <2>4 DEF JobLogged, L!Push
    <3>2. ToSet(logged) \subseteq ToSet(logged')
      BY <3>1, LoggedGrows
    <3>3. QED BY <3>1, <3>2 DEF ExitInOrder, JobsLog
  <2>5. ASSUME NEW w \in Workers, JobReturns(w) PROVE ExitInOrder' /\ JobsLog'
    <3>1. /\ UNCHANGED <<program, target, done, logged, exit, writer>> /\ pc[w] = "run"
          /\ pc' = [pc EXCEPT ![w] = "ran"]
          /\ target[w] \in ToSet(Jobs) => target[w] \in ToSet(logged)
      BY <2>5 DEF JobReturns, TaskReturns, Up, Goto, logVars
    <3>2. w # Main
      BY PoolAssumption
    <3>3. program = "test" => target[w] \in ToSet(Jobs)
      <4>1. target[w] # Null
        BY <3>1 DEF SInv, FInv, PInv, Held
      <4>2. QED BY <4>1, TargetStarted DEF SInv, FInv, PInv, NotYetCalled
    <3>4. DOMAIN pc = Callers /\ w \in Callers /\ Main \in Callers
      BY DEF SInv, FInv, PInv, TypeOK, Callers
    <3>5. pc'[Main] = pc[Main] /\ \A v \in Workers : pc'[v] = "ran" => v = w \/ pc[v] = "ran"
      BY <3>1, <3>2, <3>4 DEF Callers
    <3>6. ExitInOrder'
      BY <3>1, <3>5 DEF ExitInOrder
    <3>7. JobsLog'
      BY <3>1, <3>3, <3>5 DEF JobsLog
    <3>8. QED BY <3>6, <3>7
  <2>6. CASE Writer
    <3>1. UNCHANGED <<vars, logged>> /\ (exit' = exit \/ exit = "wait")
          /\ writer # "ended" /\ (exit' = "notified" /\ exit # "notified" => writer' = "ended")
      BY <2>6 DEF Writer, L!WriterStep, L!LooksEmpty, L!AsksStop, L!Takes, L!Writes, L!Notifies
    <3>2. exit # "notified"
      BY <3>1 DEF ExitInOrder
    <3>3. QED BY <3>1, <3>2 DEF ExitInOrder, JobsLog
  <2>7. CASE Exits
    BY <2>7 DEF Exits, L!Release, L!SetStopped, L!Waits, Up, ExitInOrder, JobsLog
  <2>8. CASE ExitWoken
    BY <2>8 DEF ExitWoken, L!SpuriouslyWoken, ExitInOrder, JobsLog
  <2>9. CASE ProcessEnds
    BY <2>9 DEF ProcessEnds, MainReturns, logVars, ExitInOrder, JobsLog
  <2>10. QED
    BY <2>1, <2>2, <2>3, <2>4, <2>5, <2>6, <2>7, <2>8, <2>9 DEF TestNext
<1>4. QED BY <1>1, <1>2, <1>3 DEF LInv

\* When main is notified the logger's thread is over, and a job that has not logged
\* its line is one that stopAll left behind (release, ~Logger).
THEOREM NobodyIsLeft == TestSpec => []ReleasedLast
<1>1. TestInit => LInv
  <2>1. SUFFICES ASSUME TestInit PROVE LInv
    OBVIOUS
  <2>2. SInv
    BY <2>1, InitFInv, InitStops DEF TestInit, SInv
  <2>3. << >> \o << >> \o << >> = << >>
    OBVIOUS
  <2>4. LogTypes /\ LinesInOrder
    BY <2>1, <2>3 DEF TestInit, L!LogInit, LogTypes, LinesInOrder
  <2>5. ExitInOrder /\ JobsLog
    <3>1. /\ exit = "no" /\ done = {} /\ \A w \in Workers : pc[w] # "ran"
          /\ pc[Main] = "start"
      BY <2>1, PoolAssumption DEF TestInit, L!LogInit, Init, Callers
    <3>2. QED BY <3>1 DEF ExitInOrder, JobsLog
  <2>6. QED BY <2>2, <2>4, <2>5 DEF LInv
<1>2. LInv /\ [TestNext]_testVars => LInv'
  BY LInvKept
<1>3. LInv => ReleasedLast
  <2>1. SUFFICES ASSUME LInv, exit = "notified"
                 PROVE  /\ writer = "ended"
                        /\ \A job \in ToSet(Jobs) \ ToSet(logged) : LeftTo(job)
    BY DEF ReleasedLast
  <2>2. pc[Main] = "free" /\ writer = "ended" /\ program = "test"
    BY <2>1 DEF LInv, ExitInOrder
  <2>3. \A job \in ToSet(Jobs) \ done : LeftTo(job)
    BY <2>1, <2>2, LeftIsClean DEF LInv, StoppedClean
  <2>4. done \subseteq ToSet(logged)
    BY <2>1, <2>2 DEF LInv, JobsLog
  <2>5. QED BY <2>2, <2>3, <2>4
<1>4. QED BY <1>1, <1>2, <1>3, PTL DEF TestSpec
=============================================================================
