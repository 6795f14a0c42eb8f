SPECIFICATION DiskFullSpec
CONSTANTS
  NEntries = 2
  MaxCount = 1
PROPERTY SurvivesRestarts
