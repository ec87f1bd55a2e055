------------------------------ MODULE MCSession ------------------------------
(***************************************************************************)
(* Session with two clients, a connection each, and sequence numbers that  *)
(* wrap at the third request of one.                                       *)
(***************************************************************************)
EXTENDS Session

MCRequests == <<3, 1>>
=============================================================================
