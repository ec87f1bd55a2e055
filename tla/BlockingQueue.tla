---------------------------- MODULE BlockingQueue ----------------------------
(***************************************************************************)
(* BlockingQueue: the bounded queue through which the listener hands       *)
(* clients to the threads of the pool.  One condition variable serves the  *)
(* threads that wait for an item and those that wait for room, and each    *)
(* change of the queue wakes one thread, of either kind.                   *)
(*                                                                         *)
(* Each critical section of _mutex is one action.  A thread woken from     *)
(* _cond.wait leaves the wait set and tests its condition again when it    *)
(* gets the mutex.  _queueCount is the length of the queue.                *)
(***************************************************************************)
EXTENDS Integers, Sequences, FiniteSets

CONSTANTS Threads,  \* the threads that use the queue
          Cap,      \* _maxCount: 50 in the code
          Items     \* what is put in it

NoItem == "noitem"

ASSUME QueueAssumption ==
  Cap \in Nat \ {0} /\ IsFiniteSet(Threads) /\ Threads # {}

VARIABLES queue,    \* _queue
          op,       \* the call each thread is inside: put, take or none
          item,     \* the argument of its put
          waiting   \* the threads asleep in _cond.wait

queueVars == <<queue, op, item, waiting>>

Init ==
  /\ queue = << >>
  /\ op = [t \in Threads |-> "none"]
  /\ item = [t \in Threads |-> NoItem]
  /\ waiting = {}

\* _cond.notify_one: one of the threads asleep, if any, wakes up.
NotifyOne ==
  \/ waiting = {} /\ UNCHANGED waiting
  \/ \E w \in waiting : waiting' = waiting \ {w}

Awake(t, call) == op[t] = call /\ t \notin waiting

Leave(t) ==
  /\ op' = [op EXCEPT ![t] = "none"]
  /\ item' = [item EXCEPT ![t] = NoItem]

(***************************************************************************)
(* put and offer                                                           *)
(***************************************************************************)
CallPut(t, v) ==
  /\ op[t] = "none"
  /\ op' = [op EXCEPT ![t] = "put"]
  /\ item' = [item EXCEPT ![t] = v]
  /\ UNCHANGED <<queue, waiting>>

PutWaits(t) ==
  /\ Awake(t, "put")
  /\ Len(queue) >= Cap
  /\ waiting' = waiting \cup {t}
  /\ UNCHANGED <<queue, op, item>>

\* Mutants: the limit is off by one; only the first item of an empty queue is
\* announced; the newest item is taken first.
PutDoneOver(t) ==
  /\ Awake(t, "put")
  /\ Len(queue) <= Cap
  /\ queue' = Append(queue, item[t])
  /\ NotifyOne
  /\ Leave(t)

PutDoneFirst(t) ==
  /\ Awake(t, "put")
  /\ Len(queue) < Cap
  /\ queue' = Append(queue, item[t])
  /\ IF queue = << >> THEN NotifyOne ELSE UNCHANGED waiting
  /\ Leave(t)

PutDoneFront(t) ==
  /\ Awake(t, "put")
  /\ Len(queue) < Cap
  /\ queue' = <<item[t]>> \o queue
  /\ NotifyOne
  /\ Leave(t)

PutDone(t) ==
  /\ Awake(t, "put")
  /\ Len(queue) < Cap
  /\ queue' = Append(queue, item[t])
  /\ NotifyOne
  /\ Leave(t)

\* offer does not wait: on a full queue it returns false and changes nothing.
Offer(t, v) ==
  /\ op[t] = "none"
  /\ Len(queue) < Cap
  /\ queue' = Append(queue, v)
  /\ NotifyOne
  /\ UNCHANGED <<op, item>>

(***************************************************************************)
(* take and poll                                                           *)
(***************************************************************************)
CallTake(t) ==
  /\ op[t] = "none"
  /\ op' = [op EXCEPT ![t] = "take"]
  /\ UNCHANGED <<queue, item, waiting>>

TakeWaits(t) ==
  /\ Awake(t, "take")
  /\ queue = << >>
  /\ waiting' = waiting \cup {t}
  /\ UNCHANGED <<queue, op, item>>

\* Mutants: room in the queue is not announced; the item is not popped.
TakeDoneSilent(t) ==
  /\ Awake(t, "take")
  /\ queue # << >>
  /\ queue' = Tail(queue)
  /\ Leave(t)
  /\ UNCHANGED waiting

TakeDonePeeks(t) ==
  /\ Awake(t, "take")
  /\ queue # << >>
  /\ NotifyOne
  /\ Leave(t)
  /\ UNCHANGED queue

TakeDone(t) ==
  /\ Awake(t, "take")
  /\ queue # << >>
  /\ queue' = Tail(queue)
  /\ NotifyOne
  /\ Leave(t)

\* poll does not wait: on an empty queue it returns false and changes nothing.
Poll(t) ==
  /\ op[t] = "none"
  /\ queue # << >>
  /\ queue' = Tail(queue)
  /\ NotifyOne
  /\ UNCHANGED <<op, item>>

\* boost::condition_variable_any may wake a thread nobody notified.
SpuriousWakeup(t) ==
  /\ t \in waiting
  /\ waiting' = waiting \ {t}
  /\ UNCHANGED <<queue, op, item>>

Next ==
  \E t \in Threads :
    \/ \E v \in Items : CallPut(t, v) \/ Offer(t, v)
    \/ PutWaits(t) \/ PutDone(t)
    \/ CallTake(t) \/ TakeWaits(t) \/ TakeDone(t) \/ Poll(t)
    \/ SpuriousWakeup(t)

Spec == Init /\ [][Next]_queueVars

(***************************************************************************)
(* Properties                                                              *)
(***************************************************************************)
\* The queue never holds more than Cap items, and only a thread inside put or
\* take sleeps.
TypeOK ==
  /\ queue \in Seq(Items) /\ Len(queue) <= Cap
  /\ op \in [Threads -> {"none", "put", "take"}]
  /\ item \in [Threads -> Items \cup {NoItem}]
  /\ \A t \in Threads : op[t] = "put" => item[t] \in Items
  /\ waiting \subseteq {t \in Threads : op[t] # "none"}

AwakeIn(call)  == {t \in Threads : Awake(t, call)}
AsleepIn(call) == {t \in waiting : op[t] = call}

\* No wakeup is lost, although notify_one does not choose whom it wakes: while
\* a put sleeps, the puts that are awake are enough to fill the queue again;
\* while a take sleeps, a take is awake for every item (put, take).
WakeupNotLost ==
  /\ AsleepIn("put") # {} => Len(queue) + Cardinality(AwakeIn("put")) >= Cap
  /\ AsleepIn("take") # {} => Cardinality(AwakeIn("take")) >= Len(queue)

\* When every thread sleeps it is for a reason: all wait for room in a full
\* queue, or all for an item in an empty one, never some for each (put, take).
AllAsleepForAReason ==
  waiting = Threads => \/ AsleepIn("put") = {} /\ queue = << >>
                       \/ AsleepIn("take") = {} /\ Len(queue) = Cap
================================================================================
