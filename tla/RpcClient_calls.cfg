CONSTANTS
  NoCall = NoCall
  RawSeq <- FreshRawSeq
  SyncCalls = {s1}
  AsyncCalls = {a1}
  BeatCalls = {}
  RawCalls = {}
  OneWay = {}
  Unencodable = {a1}
  NoCodec = {s1}
  MaxSeq = 1
  GoCap = 2
  Closers = {k1}
  HasChan = FALSE
  ChanCap = 1
  MaxPush = 0
  BidirectionalBlock = FALSE
SPECIFICATION Spec
INVARIANTS
  NoFalseSuccess
  NoStrandedCall
PROPERTIES
  NothingSentAfterClose
  KeepsPromise
CHECK_DEADLOCK FALSE
