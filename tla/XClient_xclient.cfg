CONSTANTS
  NoServer = NoServer
  NoClient = NoClient
  s1 = s1
  s2 = s2
  p1 = p1
  p2 = p2
  Callers = {p1, p2}
  Kinds <- KindsOf
  Modes = {"Failfast", "Failtry", "Failover", "Failbackup"}
  Servers = {s1, s2}
  Lists = {{s1, s2}, {}}
  Builder = {s1}
  MaxClients = 2
  Retries = 1
  Threshold = 1
  CanClose = TRUE
SPECIFICATION Spec
INVARIANTS
  RightServer
  SuccessIsReal
  BreakerHolds
PROPERTIES
  AnswerEndsCall
  EvictsOwnClient
CHECK_DEADLOCK FALSE
