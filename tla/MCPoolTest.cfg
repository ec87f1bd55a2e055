\* Both programs, the test with the logger.
CONSTANTS
  w1 = w1
  w2 = w2
  j1 = j1
  j2 = j2
  j3 = j3
  c1 = c1
  c2 = c2
  c3 = c3
  Pool <- MCPool
  Main = main
  Cap = 2
  Programs = {"test", "server"}
  Jobs <- MCJobs
  Listener = listener
  Clients = {c1, c2, c3}
  Shutdowns = {c1}
SPECIFICATION TestSpec
CHECK_DEADLOCK FALSE
INVARIANTS
  TypeOK
  TaskInOnePlace
  FlagsAfterJobs
  StoppedClean
  LinesInOrder
  
PROPERTIES
  StopEnds
  ExitEnds
