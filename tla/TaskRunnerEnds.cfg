SPECIFICATION FairSpec
CONSTANTS
  k1 = k1
  k2 = k2
  Kids <- MCKids
  Block = 2
  PipeSize = 1
  Limit = 3
  MaxOutput = 1
  MaxFaults = 0
CHECK_DEADLOCK FALSE
PROPERTIES
  TaskEnds
