------------------------------ MODULE RecordStore ------------------------------
(***************************************************************************)
(* What a data file promises its callers, with no pages, no free-space map *)
(* and no locks: a record keeps the identifier insert returned, a find of  *)
(* it answers the document that was inserted, a removed record is never    *)
(* answered again, identifiers are not reused, and stopping the process    *)
(* loses nothing.  DmsFile implements this module in the runs that do not  *)
(* tear a file extension apart.                                            *)
(***************************************************************************)
CONSTANTS Threads,   \* the threads that call the data file
          Docs,      \* the documents they insert
          Rids,      \* the record identifiers
          AskedRids  \* those that find is called with

VARIABLES recs,      \* rid |-> the document stored there, or Removed
          ret        \* what each thread's last call returned

vars == <<recs, ret>>

NoReply        == [status |-> "none"]
Refused        == [status |-> "EDB_SYS"]
Done           == [status |-> "done"]
Inserted(r, d) == [status |-> "inserted", rid |-> r, doc |-> d]
Found(r, d)    == [status |-> "found", rid |-> r, doc |-> d]
NotFound(r)    == [status |-> "not_found", rid |-> r]
Thrown(r)      == [status |-> "exception", rid |-> r]

Removed == "removed"

Init ==
  /\ recs = << >>
  /\ ret = [t \in Threads |-> NoReply]

Answer(t, reply) == ret' = [ret EXCEPT ![t] = reply]

Call(t) == Answer(t, NoReply) /\ UNCHANGED recs

\* An insert or a remove that is refused changes nothing.
Refuse(t) == Answer(t, Refused) /\ UNCHANGED recs

\* A record gets an identifier that was never used before.
Insert(t, d) ==
  \E r \in Rids :
     /\ Answer(t, Inserted(r, d))
     /\ r \notin DOMAIN recs
     /\ recs' = [x \in DOMAIN recs \cup {r} |-> IF x = r THEN d ELSE recs[x]]

\* Only a stored record can be removed, and its identifier stays used.  The
\* code returned to the caller is not specified.
Remove(t) ==
  /\ \E reply \in {Done, Refused} : Answer(t, reply)
  /\ \E r \in DOMAIN recs :
       /\ recs[r] # Removed
       /\ recs' = [recs EXCEPT ![r] = Removed]

\* A find of a stored record answers its document and nothing else.  What a
\* find of an identifier that was never handed out answers is not specified.
Find(t, r) ==
  /\ \/ \E d \in Docs : Answer(t, Found(r, d)) /\ (r \in DOMAIN recs => recs[r] = d)
     \/ /\ Answer(t, NotFound(r)) \/ Answer(t, Thrown(r))
        /\ r \in DOMAIN recs => recs[r] = Removed
  /\ UNCHANGED recs

\* The process stops: replies are gone, records are not.
Stop ==
  /\ ret' = [t \in Threads |-> NoReply]
  /\ UNCHANGED recs

Next ==
  \/ Stop
  \/ \E t \in Threads :
       \/ Call(t)
       \/ Refuse(t)
       \/ \E r \in AskedRids : Find(t, r)
       \/ Remove(t)
       \/ \E d \in Docs : Insert(t, d)

Spec == Init /\ [][Next]_vars
================================================================================
