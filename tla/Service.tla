------------------------------ MODULE Service ------------------------------
(***************************************************************************)
(* What a client may rely on, whatever fails: a request is carried out at  *)
(* most once, and it is answered, at most once, only after it was.         *)
(***************************************************************************)
EXTENDS SequencesExt

CONSTANT Requests

VARIABLES done,     \* the requests that were carried out, in that order
          answered  \* those whose answer the client has read

Init == done = << >> /\ answered = {}

CarryOut(r) ==
  /\ r \notin ToSet(done)
  /\ done' = Append(done, r)
  /\ UNCHANGED answered

Answer(r) ==
  /\ r \in ToSet(done) \ answered
  /\ answered' = answered \cup {r}
  /\ UNCHANGED done

Next == \E r \in Requests : CarryOut(r) \/ Answer(r)

Spec == Init /\ [][Next]_<<done, answered>>
=============================================================================
