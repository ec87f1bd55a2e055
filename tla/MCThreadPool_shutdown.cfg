\* The server, with a client that shuts it down.
CONSTANTS
  w1 = w1
  w2 = w2
  j1 = j1
  j2 = j2
  j3 = j3
  c1 = c1
  c2 = c2
  c3 = c3
  Pool <- MCPool
  Main = main
  Cap = 2
  Programs = {"server"}
  Jobs <- MCJobs
  Listener = listener
  Clients = {c1, c2, c3}
  Shutdowns = {c1}
SPECIFICATION Spec
CHECK_DEADLOCK FALSE
INVARIANTS
  DeletedAfterEnd
