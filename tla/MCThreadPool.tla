---------------------------- MODULE MCThreadPool ----------------------------
(***************************************************************************)
(* ThreadPool with the two threads the code creates, more jobs and clients *)
(* than the queue has room for, and one client that shuts the server down. *)
(***************************************************************************)
EXTENDS ThreadPool

CONSTANTS w1, w2, j1, j2, j3, c1, c2, c3

MCPool == <<w1, w2>>
MCJobs == <<j1, j2, j3>>
=============================================================================
