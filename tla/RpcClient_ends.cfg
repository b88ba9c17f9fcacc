CONSTANTS
  NoCall = NoCall
  RawSeq <- FreshRawSeq
  SyncCalls = {s1}
  AsyncCalls = {}
  BeatCalls = {}
  RawCalls = {r1}
  OneWay = {}
  Unencodable = {}
  NoCodec = {}
  MaxSeq = 1
  GoCap = 2
  Closers = {}
  HasChan = TRUE
  ChanCap = 1
  MaxPush = 1
  BidirectionalBlock = FALSE
SPECIFICATION FairSpec
INVARIANTS
  RepliesMatch
PROPERTIES
  EndedConnReleasesCallers
CHECK_DEADLOCK FALSE
