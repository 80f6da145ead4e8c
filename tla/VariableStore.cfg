SPECIFICATION FairSpec
CONSTANTS
  n1 = n1
  n2 = n2
  n3 = n3
  plain = plain
  escaped = escaped
  Clients = {1, 2, 3}
  Names = {n1, n2, n3}
  Values = {plain, escaped}
  Calls <- MCCalls
  Encoded <- MCEncoded
  MaxVariables = 2
  MaxEntry = 3
  MaxFaults = 1
  MaxStops = 1
  None = None
CHECK_DEADLOCK FALSE
INVARIANTS
  PatchIsCurrent
  LimitKept
PROPERTIES
  EveryCallEnds
  IsAtomic
