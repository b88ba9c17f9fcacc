CONSTANTS
  NoServer = NoServer
  Servers = {s1, s2, s3}
  Modes = {"Broadcast", "Fork", "Inform"}
  Unreachable = {s1, s3}
  CanHang = {s2}
  CanTimeOut = TRUE
SPECIFICATION FairSpec
INVARIANTS
  ErrorIsReal
  ForkReplyReady
PROPERTIES
  EveryoneEnds
CHECK_DEADLOCK FALSE
