CONSTANTS
  NoCall = NoCall
  RawSeq <- FreshRawSeq
  SyncCalls = {s1}
  AsyncCalls = {}
  BeatCalls = {}
  RawCalls = {}
  OneWay = {}
  Unencodable = {}
  NoCodec = {}
  MaxSeq = 1
  GoCap = 2
  Closers = {k1}
  HasChan = FALSE
  ChanCap = 1
  MaxPush = 0
  BidirectionalBlock = FALSE
SPECIFICATION Spec
INVARIANTS
  CloseIsHarmless
CHECK_DEADLOCK FALSE
