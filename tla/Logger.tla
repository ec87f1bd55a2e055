------------------------------- MODULE Logger -------------------------------
(***************************************************************************)
(* The logger: callers push lines to a queue under a mutex, a thread polls *)
(* the queue without it and writes one line after the other, and release,  *)
(* which the program's exit calls, tells the thread to stop and waits for  *)
(* one notification.  Lines have the level that is logged.                 *)
(*                                                                         *)
(* The thread holds the mutex while it writes; everyone else holds it for  *)
(* a moment.  The build does not optimise: each test reads the memory.     *)
(***************************************************************************)
EXTENDS Integers, SequencesExt

CONSTANTS LogCallers,  \* threads that log
          Lines        \* what they log

VARIABLES lines,    \* _queue
          stopped,  \* _isStoped
          writer,   \* where the thread is
          hand,     \* the line it has taken: at most one
          logging,  \* the line each caller is about to push: at most one
          exit,     \* how far release is
          logged,   \* the lines pushed so far
          written   \* the lines written so far

logVars == <<lines, stopped, writer, hand, logging, exit, logged, written>>

\* Constructed, and init has started the thread.
LogInit ==
  /\ lines = << >> /\ stopped = FALSE
  /\ writer = "look" /\ hand = << >>
  /\ logging = [c \in LogCallers |-> << >>]
  /\ exit = "no"
  /\ logged = << >> /\ written = << >>

Locked == writer = "write"

-----------------------------------------------------------------------------
\* writeV: whoever logs takes the wish to stop back, and then pushes.
CallLog(c, line) ==
  /\ logging[c] = << >>
  /\ logging' = [logging EXCEPT ![c] = <<line>>]
  /\ stopped' = FALSE
  /\ UNCHANGED <<lines, writer, hand, exit, logged, written>>

\* Mutant: the line is pushed at the wrong end.
PushFront(c) ==
  /\ logging[c] # << >> /\ ~Locked
  /\ lines' = logging[c] \o lines
  /\ logged' = logged \o logging[c]
  /\ logging' = [logging EXCEPT ![c] = << >>]
  /\ UNCHANGED <<stopped, writer, hand, exit, written>>

Push(c) ==
  /\ logging[c] # << >> /\ ~Locked
  /\ lines' = lines \o logging[c]
  /\ logged' = logged \o logging[c]
  /\ logging' = [logging EXCEPT ![c] = << >>]
  /\ UNCHANGED <<stopped, writer, hand, exit, written>>

-----------------------------------------------------------------------------
\* run: the thread finds the queue empty, and asks then whether to stop.
LooksEmpty ==
  /\ writer = "look" /\ lines = << >>
  /\ writer' = "stop?"
  /\ UNCHANGED <<lines, stopped, hand, logging, exit, logged, written>>

\* A line that was pushed since it looked stays in the queue.
AsksStop ==
  /\ writer = "stop?"
  /\ writer' = IF stopped THEN "notify" ELSE "look"
  /\ UNCHANGED <<lines, stopped, hand, logging, exit, logged, written>>

Takes ==
  /\ writer = "look" /\ lines # << >>
  /\ hand' = <<Head(lines)>> /\ lines' = Tail(lines)
  /\ writer' = "write"
  /\ UNCHANGED <<stopped, logging, exit, logged, written>>

\* writeLogItem; what it throws is dropped.
Writes ==
  /\ writer = "write"
  /\ written' = written \o hand
  /\ hand' = << >>
  /\ writer' = "look"
  /\ UNCHANGED <<lines, stopped, logging, exit, logged>>

\* Mutant: nobody is notified.
NotifiesNobody ==
  /\ writer = "notify"
  /\ writer' = "ended"
  /\ UNCHANGED <<lines, stopped, hand, logging, exit, logged, written>>

Notifies ==
  /\ writer = "notify"
  /\ writer' = "ended"
  /\ exit' = IF exit = "wait" THEN "notified" ELSE exit
  /\ UNCHANGED <<lines, stopped, hand, logging, logged, written>>

-----------------------------------------------------------------------------
\* release
SetStopped ==
  /\ exit = "no"
  /\ stopped' = TRUE
  /\ exit' = "stop"
  /\ UNCHANGED <<lines, writer, hand, logging, logged, written>>

\* Mutant: the mutex is taken and the wait left out.
DoesNotWait ==
  /\ exit = "stop" /\ ~Locked
  /\ exit' = "notified"
  /\ UNCHANGED <<lines, stopped, writer, hand, logging, logged, written>>

\* It waits without looking whether the thread has ended already.
Waits ==
  /\ exit = "stop" /\ ~Locked
  /\ exit' = "wait"
  /\ UNCHANGED <<lines, stopped, writer, hand, logging, logged, written>>

SpuriouslyWoken ==
  /\ exit = "wait" /\ ~Locked
  /\ exit' = "woken"
  /\ UNCHANGED <<lines, stopped, writer, hand, logging, logged, written>>

Release   == SetStopped \/ Waits
Released  == exit \in {"notified", "woken"}
WriterStep == LooksEmpty \/ AsksStop \/ Takes \/ Writes \/ Notifies
=============================================================================
