SPECIFICATION ServingSpec
CONSTANTS
  h = h
  t = t
  v = v
  w = w
  Health <- MCHealth
  Texts <- MCTexts
  Streams <- MCStreams
  WithImages <- MCWithImages
  Empties <- MCEmpties
  Workers = 2
  NoOne = NoOne
  s1 = s1
  s2 = s2
  Shells <- MCShells
  NServers = 2
  Mishaps <- OneMishap
  u1 = u1
  u2 = u2
  u3 = u3
  u4 = u4
  Urls <- MCUrls
  Size <- MCSize
  Budget = 4
  MaxUses = 4
  ThinkEnd <- MCThinkEnd
  ToolBegin <- MCToolBegin
  ToolEnd <- MCToolEnd
  Boundary <- MCBoundary
  Pieces <- SomePieces
  MaxText = 6
  Tokens <- SomeTokens
  Stops <- OneStop
  MaxTokens = 4
  Room = 3
  ByteTokens <- PlainTokens
  MaxBytes = 4
  Inputs <- MCInputs
  Merges <- MCMerges
  Vocabulary <- MCVocabulary
  Added <- MCAdded
  Toolsets <- MCToolsets
  Questions <- MCQuestions
  Replies <- MCReplies
  MaxMsgs = 7
  Scores <- MCScores
  Params <- MCParams
  Lately <- MCLately
  Percents = {0, 30, 60, 99}
INVARIANTS
  EngineIsExclusive
  UsageIsOwn
  OneServer
  KeepsTheRecent
  EmitsSafeText
  ChunkingInvisible
  EmitsWhatIsCertain
  StreamIsWhole
  LengthMeansTruncated
  EncodesText
  DrawsFromNucleus
PROPERTIES
  StopMeansStopped
  EveryRequestAnswered
  GoneClientEndsDecoding
  StopsAtDeltaEnd
  PromptExtends
CHECK_DEADLOCK FALSE
