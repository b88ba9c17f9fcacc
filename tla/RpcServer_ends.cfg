CONSTANTS
  c1 = c1
  c2 = c2
  r1 = r1
  r2 = r2
  r3 = r3
  NoReq = NoReq
  ConnOf <- ConnOfReq
  Conns = {c1}
  Reqs = {r1, r2}
  OneWay = {}
  Refusable = {}
  TCP = {}
  TLS = {}
  AsyncWrite = TRUE
  Mux = FALSE
  Gateway = FALSE
  CanExpire = FALSE
  CanClose = FALSE
  CanLeave = {c1}
  ReadMayFail = {}
SPECIFICATION FairSpec
PROPERTIES
  ShutdownClosesConns
  HandlersFinish
CHECK_DEADLOCK FALSE
