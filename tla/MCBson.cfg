\* Texts that are read or refused, and documents that are compared.
CONSTANTS
  Strings <- MCStrings
  Exact = 16
  Huge = 40
  Deepest = 4
  Radix = 16
  Texts <- MCTexts
  Oids <- MCOids
  HexBytes <- MCHexBytes
  Letters <- MCLetters
  Sixteen <- MCSixteen
  Increments = 4
  IntMax = 8
  InitSize = 16
  Slack = 8
  BufferMaxSize = 200
  MaxObject = 60
  Docs <- MCDocs
  Keys <- MCKeys
  Paths <- MCPaths
SPECIFICATION MCSpec
CHECK_DEADLOCK FALSE
INVARIANTS
  DocTypeOK
  PrintedIsRead
  AcceptedSpellsIt
  InsideBuffer
  ObjectsNested
  WellOrdered
  EqualIsAlike
  SortIsKeyOrder
  BoundsEnclose
  DottedIsNested
  FieldsDottedFindIt
PROPERTIES
  NothingWrittenAfterFree
  ParseEnds
