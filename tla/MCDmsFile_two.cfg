\* Two inserting threads, restarts while nobody extends.
CONSTANTS
  s1 = s1
  s2 = s2
  m = m
  o = o
  h = h
  t1 = t1
  t2 = t2
  t3 = t3
  Docs = {s1, m}
  Threads = {t1, t2}
  DocSize <- MCDocSize
  AskedRids <- MCRids
  PageSize = 24
  EyeWord = 100
  PagesPerSegment = 2
  DiskPages = 4
  IntSegments = 16
  Calls = {"insert"}
  Env = {"kill", "restart"}
SPECIFICATION FairSpec
CHECK_DEADLOCK FALSE
INVARIANTS
  ExtendExclusive
  AckDurable
  PlacementOK
PROPERTIES
  InsertEnds
