\* Two clients and a server that may be killed and restarted.
CONSTANTS
  Clients = {1, 2}
  MaxConnections = 2
  MaxDescriptors = 2
  MaxRequests <- MCRequests
  MaxSequence = 2
SPECIFICATION FairSpec
CHECK_DEADLOCK FALSE
INVARIANTS
  TypeOK
  InStep
  ReplyIsForRequest
  ForgottenForAReason
PROPERTIES
  ImplementsService
  ServedIsAnswered
  AgentLetsGo
