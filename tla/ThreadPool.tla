----------------------------- MODULE ThreadPool -----------------------------
(***************************************************************************)
(* ThreadPool: threads that take tasks from one BlockingQueue and run      *)
(* them, stopAll, which puts an end flag for each thread, waits for each   *)
(* up to five seconds and deletes its PooledThread object, and joinAll.    *)
(* Two programs use it: the test starts its jobs and calls stopAll; the    *)
(* server starts the listener and calls joinAll, the listener starts an    *)
(* agent per client, and an agent that is told to shut down calls stopAll  *)
(* from inside its own task.                                               *)
(*                                                                         *)
(* No thread is ever added to the pool: getThread has no caller.  The idle *)
(* flags are read by functions that have no caller either.                 *)
(***************************************************************************)
EXTENDS Integers, SequencesExt

CONSTANTS Pool,       \* _threads, as the constructor fills it
          Main,       \* the main thread
          Cap,        \* the limit of the queue
          Programs,   \* which programs are run
          Jobs,       \* the tasks of the test, in the order it starts them
          Listener,   \* the first task of the server
          Clients,    \* the agents of clients that may connect
          Shutdowns   \* those that are told to shut down

Null    == "null"     \* the end flag
Workers == ToSet(Pool)
Callers == Workers \cup {Main}
Tasks   == ToSet(Jobs) \cup Clients \cup {Listener}

ASSUME PoolAssumption ==
  /\ Cap \in Nat \ {0}
  /\ Pool \in Seq(Workers) /\ IsInjective(Pool) /\ Pool # << >> /\ Main \notin Workers
  /\ Programs \subseteq {"test", "server"} /\ Programs # {}
  /\ Jobs \in Seq(Tasks) /\ IsInjective(Jobs) /\ Shutdowns \subseteq Clients
  /\ Listener \notin ToSet(Jobs) \cup Clients /\ ToSet(Jobs) \cap Clients = {}
  /\ {Null, "noitem"} \cap Tasks = {}

VARIABLES queue, op, item, waiting,  \* the queue: see BlockingQueue
          program,  \* "test" or "server"
          state,    \* the process: "up", "exited" or "crashed"
          pc,       \* where each thread is
          at,       \* the loop of start, stopAll or joinAll it is in: how far
          target,   \* _pTarget of each PooledThread
          deleted,  \* the PooledThread objects that were deleted
          early,    \* history: those release came back for while they ran
          cleared,  \* _threads was cleared; its storage keeps the pointers
          called,   \* the tasks that start was called with
          done      \* the tasks that were run and deleted

queueVars == <<queue, op, item, waiting>>
poolVars  == <<early, deleted, cleared>>
taskVars  == <<called, done>>
vars == <<queueVars, program, state, pc, at, target, poolVars, taskVars>>

Q == INSTANCE BlockingQueue WITH Threads <- Callers, Items <- Tasks \cup {Null}

Init ==
  /\ Q!Init
  /\ program \in Programs /\ state = "up"
  /\ pc = [c \in Callers |-> IF c = Main THEN "start" ELSE "take"]
  /\ at = [c \in Callers |-> 1]
  /\ target = [w \in Workers |-> Null]
  /\ early = {} /\ deleted = {} /\ cleared = FALSE
  /\ called = {} /\ done = {}

Up(c, label) == state = "up" /\ pc[c] = label
Outside(c)   == op[c] = "none"

Goto(c, label)   == pc' = [pc EXCEPT ![c] = label]
Begin(c, label)  == Goto(c, label) /\ at' = [at EXCEPT ![c] = 1]
NextAt(c)        == at' = [at EXCEPT ![c] = @ + 1]

\* it != _threads.end(), for an iterator that started at begin.
Size == IF cleared THEN 0 ELSE Len(Pool)
More(c) == at[c] <= Size

(***************************************************************************)
(* put, as start and stopAll call it                                       *)
(***************************************************************************)
PutSleeps(c) ==
  /\ state = "up"
  /\ Q!PutWaits(c)
  /\ UNCHANGED <<program, state, pc, at, target, poolVars, taskVars>>

\* The loops of main and stopAll go on; the listener has none.
PutReturns(c) ==
  /\ state = "up"
  /\ Q!PutDone(c)
  /\ IF pc[c] = "run" THEN UNCHANGED at ELSE NextAt(c)
  /\ UNCHANGED <<program, state, pc, target, poolVars, taskVars>>

Wakeup(c) ==
  /\ state = "up"
  /\ Q!SpuriousWakeup(c)
  /\ UNCHANGED <<program, state, pc, at, target, poolVars, taskVars>>

Start(c, task) ==
  /\ Q!CallPut(c, task)
  /\ called' = called \cup {task}
  /\ UNCHANGED <<program, state, pc, at, target, poolVars, done>>

(***************************************************************************)
(* PooledThread::run                                                       *)
(***************************************************************************)
TakeCalls(w) ==
  /\ Up(w, "take") /\ Outside(w)
  /\ Q!CallTake(w)
  /\ UNCHANGED <<program, state, pc, at, target, poolVars, taskVars>>

TakeSleeps(w) ==
  /\ Up(w, "take")
  /\ Q!TakeWaits(w)
  /\ UNCHANGED <<program, state, pc, at, target, poolVars, taskVars>>

\* A task is run, the end flag ends the loop.
TakeReturns(w) ==
  /\ Up(w, "take")
  /\ Q!TakeDone(w)
  /\ target' = [target EXCEPT ![w] = Head(queue)]
  /\ Goto(w, IF Head(queue) = Null THEN "end" ELSE "run")
  /\ UNCHANGED <<program, state, at, poolVars, taskVars>>

\* A task returns or throws; the listener never does.
TaskReturns(w) ==
  /\ Up(w, "run") /\ target[w] # Listener /\ target[w] \notin Shutdowns
  /\ Goto(w, "ran")
  /\ UNCHANGED <<queueVars, program, state, at, target, poolVars, taskVars>>

\* The listener starts an agent for a client that connects.
Accept(w, client) ==
  /\ Up(w, "run") /\ target[w] = Listener /\ Outside(w)
  /\ client \notin called
  /\ Start(w, client)

\* An agent is told to shut down and calls stopAll.
Shutdown(w) ==
  /\ Up(w, "run") /\ target[w] \in Shutdowns
  /\ Begin(w, "put")
  /\ UNCHANGED <<queueVars, program, state, target, poolVars, taskVars>>

DeleteTarget(w) ==
  /\ Up(w, "ran")
  /\ Goto(w, "take")
  /\ target' = [target EXCEPT ![w] = Null]
  /\ done' = done \cup {target[w]}
  /\ UNCHANGED <<queueVars, program, state, at, poolVars, called>>

\* The thread ends and wakes the caller that waits for it in release, if any.
Ends(w) ==
  /\ Up(w, "end")
  /\ LET waiters == {c \in Callers : pc[c] = "wait" /\ Pool[at[c]] = w}
     IN  /\ pc' = [c \in Callers |-> IF c = w THEN "ended"
                                     ELSE IF c \in waiters THEN "release" ELSE pc[c]]
         /\ at' = [c \in Callers |-> IF c \in waiters THEN at[c] + 1 ELSE at[c]]
  /\ UNCHANGED <<queueVars, program, state, target, poolVars, taskVars>>

\* A thread whose PooledThread was deleted reads or writes it, or runs a job that
\* the test's main has deleted too: the memory may still be there, as in the
\* actions above, or the process crashes.
UsesDeleted(w) ==
  /\ state = "up" /\ w \in deleted
  /\ \/ pc[w] \in {"take", "ran", "end"} /\ w \notin waiting
     \/ pc[w] = "run" /\ pc[Main] = "free"
  /\ state' = "crashed"
  /\ UNCHANGED <<queueVars, program, pc, at, target, poolVars, taskVars>>

(***************************************************************************)
(* stopAll                                                                 *)
(***************************************************************************)
PutEndFlag(c) ==
  /\ Up(c, "put") /\ Outside(c) /\ More(c)
  /\ Q!CallPut(c, Null)
  /\ UNCHANGED <<program, state, pc, at, target, poolVars, taskVars>>

EndFlagsPut(c) ==
  /\ Up(c, "put") /\ Outside(c) /\ ~More(c)
  /\ Begin(c, "release")
  /\ UNCHANGED <<queueVars, program, state, target, poolVars, taskVars>>

\* Mutant: release does not wait.
ReleaseSkips(c) ==
  /\ Up(c, "release") /\ More(c)
  /\ NextAt(c)
  /\ UNCHANGED <<queueVars, program, state, pc, target, poolVars, taskVars>>

\* release waits without looking whether the thread has ended already.
Release(c) ==
  /\ Up(c, "release") /\ More(c)
  /\ Goto(c, "wait")
  /\ UNCHANGED <<queueVars, program, state, at, target, poolVars, taskVars>>

\* Mutant: release waits for the notification only.
ReleaseUntimed(c) ==
  /\ Up(c, "wait")
  /\ pc[Pool[at[c]]] # "ended"
  /\ Goto(c, "release") /\ NextAt(c)
  /\ early' = early \cup {Pool[at[c]]}
  /\ UNCHANGED <<queueVars, program, state, target, deleted, cleared, taskVars>>

\* timed_wait looks at no condition: after five seconds, or at once when it is
\* woken spuriously, release returns, whatever its thread does.
ReleaseReturns(c) ==
  /\ Up(c, "wait")
  /\ Goto(c, "release") /\ NextAt(c)
  /\ early' = early \cup ({Pool[at[c]]} \cap {w \in Workers : pc[w] # "ended"})
  /\ UNCHANGED <<queueVars, program, state, target, deleted, cleared, taskVars>>

Released(c) ==
  /\ Up(c, "release") /\ ~More(c)
  /\ Begin(c, "delete")
  /\ UNCHANGED <<queueVars, program, state, target, poolVars, taskVars>>

DeleteThread(c) ==
  /\ Up(c, "delete") /\ More(c)
  /\ deleted' = deleted \cup {Pool[at[c]]}
  /\ NextAt(c)
  /\ UNCHANGED <<queueVars, program, state, pc, target, early, cleared, taskVars>>

\* _threads is cleared and stopAll returns, to the test or to the agent.
Clear(c) ==
  /\ Up(c, "delete") /\ ~More(c)
  /\ cleared' = TRUE
  /\ Goto(c, IF c = Main THEN "free" ELSE "ran")
  /\ UNCHANGED <<queueVars, program, state, at, target, early, deleted, taskVars>>

(***************************************************************************)
(* The main thread                                                         *)
(***************************************************************************)
Batch == IF program = "test" THEN Jobs ELSE <<Listener>>

MainStarts ==
  /\ Up(Main, "start") /\ Outside(Main) /\ at[Main] <= Len(Batch)
  /\ Start(Main, Batch[at[Main]])

MainStarted ==
  /\ Up(Main, "start") /\ Outside(Main) /\ at[Main] > Len(Batch)
  /\ Begin(Main, IF program = "test" THEN "put" ELSE "join")
  /\ UNCHANGED <<queueVars, program, state, target, poolVars, taskVars>>

\* joinAll takes no lock: the iterator may be past an end that has moved, and
\* then leads to a deleted PooledThread whose memory may still be there.
JoinCalls ==
  /\ Up(Main, "join") /\ at[Main] <= Len(Pool) /\ at[Main] # Size + 1
  /\ Goto(Main, "joining")
  /\ UNCHANGED <<queueVars, program, state, at, target, poolVars, taskVars>>

JoinReturns ==
  /\ Up(Main, "joining") /\ pc[Pool[at[Main]]] = "ended"
  /\ Goto(Main, "join") /\ NextAt(Main)
  /\ UNCHANGED <<queueVars, program, state, target, poolVars, taskVars>>

JoinsDeleted ==
  /\ Up(Main, "join") /\ at[Main] # Size + 1
  /\ at[Main] > Len(Pool) \/ Pool[at[Main]] \in deleted
  /\ state' = "crashed"
  /\ UNCHANGED <<queueVars, program, pc, at, target, poolVars, taskVars>>

\* main returns: the server after joinAll, the test after it has deleted its
\* targets, which the pool has deleted before: the process may be aborted.
MainReturns ==
  /\ \/ Up(Main, "join") /\ at[Main] = Size + 1 /\ state' = "exited"
     \/ Up(Main, "free") /\ state' \in {"exited", "crashed"}
  /\ UNCHANGED <<queueVars, program, pc, at, target, poolVars, taskVars>>

(***************************************************************************)
(* The specification                                                       *)
(***************************************************************************)
PutStep(c) == PutSleeps(c) \/ PutReturns(c)

WorkerLoop(w) ==
  \/ TakeCalls(w) \/ TakeSleeps(w) \/ TakeReturns(w)
  \/ DeleteTarget(w) \/ Ends(w)

StopStep(c) ==
  \/ PutEndFlag(c) \/ EndFlagsPut(c)
  \/ Release(c) \/ ReleaseReturns(c) \/ Released(c)
  \/ DeleteThread(c) \/ Clear(c)

MainStep == MainStarts \/ MainStarted \/ JoinCalls \/ JoinReturns \/ MainReturns

Next ==
  \/ MainStep \/ JoinsDeleted
  \/ \E c \in Callers : PutStep(c) \/ Wakeup(c) \/ StopStep(c)
  \/ \E w \in Workers :
       \/ WorkerLoop(w) \/ TaskReturns(w) \/ Shutdown(w) \/ UsesDeleted(w)
       \/ \E client \in Clients : Accept(w, client)

Spec == Init /\ [][Next]_vars

\* Threads are scheduled and jobs end; clients need not come, stay or leave.
FairSpec ==
  /\ Spec
  /\ WF_vars(MainStep)
  /\ \A c \in Callers : WF_vars(PutStep(c)) /\ WF_vars(StopStep(c))
  /\ \A w \in Workers : /\ WF_vars(WorkerLoop(w))
                        /\ WF_vars(TaskReturns(w) /\ target[w] \in ToSet(Jobs))

(***************************************************************************)
(* Properties                                                              *)
(***************************************************************************)
Stopping(c) == pc[c] \in {"put", "release", "wait", "delete"}

\* Every variable holds a value of its kind, and the queue's limit is kept.
TypeOK ==
  /\ Q!TypeOK
  /\ program \in Programs /\ state \in {"up", "exited", "crashed"}
  /\ pc \in [Callers -> {"start", "take", "run", "ran", "end", "ended", "put", "release",
                         "wait", "delete", "join", "joining", "free"}]
  /\ at \in [Callers -> Nat \ {0}]
  /\ target \in [Workers -> Tasks \cup {Null}]
  /\ early \subseteq Workers /\ deleted \subseteq Workers /\ cleared \in BOOLEAN
  /\ called \subseteq Tasks /\ done \subseteq Tasks

\* Where a task is: in the put that start makes, in the queue, with a thread that
\* runs it.
Places(task) ==
  {<<"put", c>> : c \in {c \in Callers : item[c] = task}}
  \cup {<<"queue", i>> : i \in {i \in DOMAIN queue : queue[i] = task}}
  \cup {<<"thread", w>> : w \in {w \in Workers : target[w] = task}}

\* No task is lost and none is run twice: one that start was called with is in
\* one place until it is done, and in none after (start, PooledThread::run).
TaskInOnePlace ==
  \A task \in Tasks :
    Cardinality(Places(task)) = IF task \in called \ done THEN 1 ELSE 0

\* "put end flag": the flags come after the jobs, so in the test no thread ends
\* while a job is still in the queue (stopAll, PooledThread::run).
FlagsAfterJobs ==
  program = "test" /\ (\E w \in Workers : pc[w] \in {"end", "ended"})
    => ToSet(queue) \subseteq {Null}

\* What release leaves behind in the test, where the wait for a thread may end
\* before the thread does: only such threads are deleted while they run, and when
\* stopAll is over, the jobs that were not run are theirs, or wait in the queue
\* because no thread was waited for to its end (stopAll, release).
LeftTo(job) == (\E w \in early : target[w] = job) \/ early = Workers

StoppedClean ==
  program = "test" =>
    /\ \A w \in deleted : pc[w] = "ended" \/ w \in early
    /\ pc[Main] = "free" => \A job \in ToSet(Jobs) \ done : LeftTo(job)

\* stopAll comes to its end whatever notification release misses, unless it waits
\* for room in a queue that no thread takes from: the threads that are left are
\* the agent that stops and the listener (stopAll, release).  The listener and
\* the agents run as long as they like.
Lasting(w) == pc[w] # "take" /\ target[w] \in Clients \cup {Listener}

NobodyTakes ==
  Len(queue) = Cap /\ \A w \in Workers : pc[w] = "ended" \/ Lasting(w)

StopEnds ==
  \A c \in Callers : Stopping(c) ~> (~Stopping(c) \/ state # "up" \/ NobodyTakes)

\* A PooledThread is deleted when its thread has ended, which is what release
\* waits for: "waiting for 10s, timed out".
DeletedAfterEnd == \A w \in deleted : pc[w] = "ended"
=============================================================================
