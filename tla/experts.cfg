SPECIFICATION PoolSpec
CONSTANTS
  NLayers = 2
  NExperts = 3
  NSlots = 2
  MaxPinned = 1
  FreqMax = 1
  HeatMax = 1
  Zero = Zero
  None = None
  JobLists <- MCJobLists
  NWorkers = 2
  NEntries = 3
  MaxCount = 2
  Checkpoints <- MCCheckpoints
  PerLayer = 2
  Hidden = 32
  Intermediate = 16
  Places = {0, 1}
INVARIANTS
  SlotsAccounted
  TensorsArrive
PROPERTIES
  StepHoldsItsSlots
  ServesExperts
  StepEnds
  SurvivesRestarts
