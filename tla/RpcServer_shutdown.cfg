CONSTANTS
  c1 = c1
  c2 = c2
  r1 = r1
  r2 = r2
  r3 = r3
  NoReq = NoReq
  ConnOf <- ConnOfReq
  Conns = {c1, c2}
  Reqs = {r1, r2}
  OneWay = {}
  Refusable = {r2}
  TCP = {c1}
  TLS = {c2}
  AsyncWrite = FALSE
  Mux = FALSE
  Gateway = TRUE
  CanExpire = TRUE
  CanClose = TRUE
  CanLeave = {}
  ReadMayFail = {}
SPECIFICATION Spec
INVARIANTS
  CountedAreAnswered
  ServeReturnsDrained
CHECK_DEADLOCK FALSE
