------------------------------ MODULE PoolTest ------------------------------
(***************************************************************************)
(* The thread pool and the logger together: in the test each job logs a    *)
(* line when it is done with its sum, and when main returns the logger is  *)
(* released.  The server, which logs too, does not come to the release as  *)
(* long as its listener runs: its lines are left out.                      *)
(***************************************************************************)
EXTENDS ThreadPool

VARIABLES lines, stopped, writer, hand, logging, exit, logged, written

L == INSTANCE Logger WITH LogCallers <- Workers, Lines <- ToSet(Jobs)

logVars  == <<lines, stopped, writer, hand, logging, exit, logged, written>>
testVars == <<vars, logVars>>

TestInit == Init /\ L!LogInit

\* TestFun::run, which has computed its sum.
JobLogs(w) ==
  /\ Up(w, "run") /\ target[w] \in ToSet(Jobs)
  /\ target[w] \notin ToSet(logged)
  /\ L!CallLog(w, target[w])
  /\ UNCHANGED vars

JobLogged(w) == state = "up" /\ L!Push(w) /\ UNCHANGED vars

JobReturns(w) ==
  /\ TaskReturns(w)
  /\ target[w] \in ToSet(Jobs) => target[w] \in ToSet(logged)
  /\ UNCHANGED logVars

Writer == state = "up" /\ L!WriterStep /\ UNCHANGED vars

\* At exit the static objects are destroyed: ~LoggerSingleton, ~Logger.
Exits ==
  /\ Up(Main, "free")
  /\ L!Release
  /\ UNCHANGED vars

ExitWoken == state = "up" /\ L!SpuriouslyWoken /\ UNCHANGED vars

ProcessEnds ==
  /\ MainReturns
  /\ program = "test" => IF state' = "exited" THEN L!Released ELSE exit = "no"
  /\ UNCHANGED logVars

\* The steps of main but for its end, as in ThreadPool.
MainGoesOn == MainStarts \/ MainStarted \/ JoinCalls \/ JoinReturns

PoolSteps ==
  \/ MainGoesOn \/ JoinsDeleted
  \/ \E c \in Callers : PutStep(c) \/ Wakeup(c) \/ StopStep(c)
  \/ \E w \in Workers :
       \/ WorkerLoop(w) \/ Shutdown(w) \/ UsesDeleted(w)
       \/ \E client \in Clients : Accept(w, client)

TestNext ==
  \/ PoolSteps /\ UNCHANGED logVars
  \/ \E w \in Workers : JobLogs(w) \/ JobLogged(w) \/ JobReturns(w)
  \/ Writer \/ Exits \/ ExitWoken \/ ProcessEnds

\* Threads are scheduled, jobs end, the file system writes.
TestSpec ==
  /\ TestInit /\ [][TestNext]_testVars
  /\ WF_testVars((MainGoesOn /\ UNCHANGED logVars) \/ Exits \/ ProcessEnds)
  /\ WF_testVars(Writer)
  /\ \A c \in Callers : /\ WF_testVars(PutStep(c) /\ UNCHANGED logVars)
                        /\ WF_testVars(StopStep(c) /\ UNCHANGED logVars)
  /\ \A w \in Workers :
       /\ WF_testVars(WorkerLoop(w) /\ UNCHANGED logVars)
       /\ WF_testVars(JobLogs(w) \/ JobLogged(w))
       /\ WF_testVars(JobReturns(w) /\ target[w] \in ToSet(Jobs))

-----------------------------------------------------------------------------
\* The lines are written in the order they were logged, each once, though the
\* thread looks at the queue without its mutex (run, writeV).
LinesInOrder == logged = written \o hand \o lines

\* When main is notified, the logger's thread is over and every job has logged its
\* line, but for those that stopAll left behind: only they may still use the
\* logger, which is deleted next (release, ~Logger).
ReleasedLast ==
  exit = "notified" =>
    /\ writer = "ended"
    /\ \A job \in ToSet(Jobs) \ ToSet(logged) : LeftTo(job)

\* The test's process ends once main waits for a thread that still runs, unless a
\* job that stopAll left behind takes the wish to stop back (writeV).  (When the
\* thread's only notification comes before, main waits for ever: release.)
ExitEnds ==
  exit = "wait" /\ writer # "ended"
    ~> state # "up" \/ (~stopped /\ early # {})
=============================================================================
