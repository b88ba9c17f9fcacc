CONSTANTS
  NoCall = NoCall
  RawSeq <- FreshRawSeq
  SyncCalls = {}
  AsyncCalls = {a1}
  BeatCalls = {h1}
  RawCalls = {r2}
  OneWay = {a1, r2}
  Unencodable = {}
  NoCodec = {}
  MaxSeq = 1
  GoCap = 2
  Closers = {}
  HasChan = FALSE
  ChanCap = 1
  MaxPush = 0
  BidirectionalBlock = FALSE
SPECIFICATION FairSpec
INVARIANTS
  WireHeaders
PROPERTIES
  FailedBeatClosesConn
CHECK_DEADLOCK FALSE
