SPECIFICATION Spec
CONSTANTS
  n1 = n1
  a1 = a1
  a2 = a2
  Names = {n1}
  Flavors = {"consul", "zookeeper"}
  Intervals = {0, 1}
  MaxFaults = 1
  MaxRegisters = 2
  Address = a1
  Service = n1
  Kinds = {"consul", "multiple"}
  Retries <- RetryCounts
  SetAt <- Alone
  Updates <- UserLists
  Inactive = {a2}
  XClients = {"none", "never"}
  ChanCap = 1
  MaxLists = 3
  MaxSends = 2
  MaxBreaks = 1
INVARIANTS
  LiveIsRegistered
  Settled
PROPERTIES
  GivesUpAfterRetries
  StopEnds
  DeadIsForgotten
CHECK_DEADLOCK FALSE
