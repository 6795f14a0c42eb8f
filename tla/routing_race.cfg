SPECIFICATION RouterSpec
CONSTANTS
  Shapes <- MCShapes
  Stale = Stale
  Lanes = 4
  NTop = 2
  KeyRows <- MCTwelveKeys
  Plans <- MCPlans
  TopK = 2
  NExperts = 4
  MaxTokens = 2
  SMs = 4
  Concurrency = 2
  Width = 2
  MaxWidth = 3
  K = 3
  Parts = 2
  MaxRows = 5
  MaxCall = 4
  NWarps = 2
  Scores <- MCScores
  Lists <- MCLists
  Dims <- MCDims
  Rows = {1, 2, 3, 4, 5, 8, 9, 16}
  MaxChunks = {4, 8, 16}
  Slices <- MCSlices
  Torn = Torn
  Layers <- MCLayers
  Slots = {sa, sb}
  Calls = 3
  Chunks = {1, 8, 40}
  Caps = {6, 41, 64}
  IdxBlocks = {0, 24}
  Groups = 2
  Products <- MCProducts
  Unrotated = Unrotated
  Widths = {1, 2, 3, 4, 5, 6, 7, 8}
  Tiles = 2
  HadLanes = 8
  Ones <- MCOnes
  NormCalls <- MCNorms
  NormLanes = 2
  NormThreads = 4
INVARIANT RoutesTopK
CHECK_DEADLOCK FALSE
