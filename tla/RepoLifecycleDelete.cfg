SPECIFICATION Spec
CONSTANTS
  r1 = r1
  r2 = r2
  r3 = r3
  r4 = r4
  Requests <- MCRequests
  Entries <- MCEntries
  HooksDir = 2
  MaxFaults = 0
  MaxStops = 0
  None = None
CHECK_DEADLOCK FALSE
INVARIANTS
  DeleteRemovesVariables
