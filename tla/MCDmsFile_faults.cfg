\* Two inserting threads, failing writes and maps, kills at any point, and a
\* second segment whose offset overflows an int.
CONSTANTS
  s1 = s1
  s2 = s2
  m = m
  o = o
  h = h
  t1 = t1
  t2 = t2
  t3 = t3
  Docs = {s1, m}
  Threads = {t1, t2}
  DocSize <- MCDocSize
  AskedRids <- MCRids
  PageSize = 24
  EyeWord = 100
  PagesPerSegment = 2
  DiskPages = 4
  IntSegments = 1
  Calls = {"insert"}
  Env = {"kill", "kill_extending", "restart", "write_error", "map_error"}
SPECIFICATION Spec
CHECK_DEADLOCK FALSE
INVARIANT
  AckReadable
