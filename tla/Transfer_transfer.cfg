CONSTANTS
  a = a
  b = b
  Clients = {a, b}
  Services <- MCServices
  WaitNum = 2
  Chunks = 2
  MaxTokens = 3
  MaxFaults = 1
SPECIFICATION Spec
INVARIANTS HandlerOfItsCall PendingAreKept NilIsAllSent
PROPERTIES SentArrives EveryoneIsAccepted TransferEnds
CHECK_DEADLOCK FALSE
