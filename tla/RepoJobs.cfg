SPECIFICATION JobsSpec
CONSTANTS
  r1 = r1
  r2 = r2
  r3 = r3
  j1 = j1
  j2 = j2
  Requests = {r1, r2, r3}
  Jobs = {j1, j2}
  Entries <- MCEntries
  HooksDir = 2
  MaxFaults = 1
  MaxStops = 1
  None = None
SYMMETRY Symmetry
CHECK_DEADLOCK FALSE
INVARIANTS
  CreatedIsComplete
  VariablesFollowRepo
  DeletedIsGone
  CreatedStays
  LogsFollowRepo
  JobUsesOwnVariables
