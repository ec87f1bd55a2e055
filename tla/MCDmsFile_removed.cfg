\* A find of a removed record.
CONSTANTS
  s1 = s1
  s2 = s2
  m = m
  o = o
  h = h
  t1 = t1
  t2 = t2
  t3 = t3
  Docs = {s1}
  Threads = {t1}
  DocSize <- MCDocSize
  AskedRids <- MCRids
  PageSize = 24
  EyeWord = 100
  PagesPerSegment = 2
  DiskPages = 4
  IntSegments = 16
  Calls = {"insert", "find", "remove"}
  Env = {}
SPECIFICATION Spec
CHECK_DEADLOCK FALSE
PROPERTIES
  FindRemovedReported
