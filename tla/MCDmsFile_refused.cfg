\* Inserts of records that are not above 4 MB, on a disk with room.
CONSTANTS
  s1 = s1
  s2 = s2
  m = m
  o = o
  h = h
  t1 = t1
  t2 = t2
  t3 = t3
  Docs = {s1}
  Threads = {t1}
  DocSize <- MCDocSize
  AskedRids <- MCRids
  PageSize = 24
  EyeWord = 100
  PagesPerSegment = 2
  DiskPages = 4
  IntSegments = 16
  Calls = {"insert"}
  Env = {}
SPECIFICATION Spec
CHECK_DEADLOCK FALSE
PROPERTIES
  OnlyOversizeRefused
