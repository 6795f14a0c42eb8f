SPECIFICATION ContextSpec
CONSTANTS
  Moving = {"runner", "copies"}
  a = a
  b = b
  Token <- OneToken
  Requests <- TextRequests
  NoReq = NoReq
  MaxPrompt = 13
  Cap = 12
  MaxChunk = 5
  NSnaps = 2
  SnapInterval = 6
  POOL_TOKENS = 4
  NParts = 2
  MaxQueue = 4
  MaxId = 10
  IndexCap = 4
  TopPools = 1
  Keys = {1}
  Stale = Stale
  Radix = 2
  NegInf = 0
  Align = 2
  Scores <- MCScores
INVARIANTS
  CheckpointsKept
  SettledAsBelieved
PROPERTIES
  PrefillEnds
  KernelsConsumeWholeStates
  StageKeptUntilStored
