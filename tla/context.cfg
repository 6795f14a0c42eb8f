SPECIFICATION ContextSpec
CONSTANTS
  Moving = {"runner", "index", "topk"}
  NParts = 1
  MaxQueue = 1
  MaxId = 1
  a = a
  b = b
  Token <- TwoTokens
  Requests <- AllRequests
  NoReq = NoReq
  MaxPrompt = 6
  Cap = 5
  MaxChunk = 3
  NSnaps = 2
  SnapInterval = 3
  POOL_TOKENS = 2
  IndexCap = 6
  TopPools = 2
  Keys = {1, 2}
  Stale = Stale
  Radix = 2
  NegInf = 0
  Align = 2
  Scores <- MCScores
INVARIANTS
  TypeOK
  ResidentSound
  SnapshotsSound
  ServingSound
  IndexSound
  SelectsTheBest
PROPERTY AnswersLikeCold
