SPECIFICATION Spec
CONSTANTS
  r1 = r1
  r2 = r2
  r3 = r3
  app = app
  Requests = {r1, r2, r3}
  Repos = {app}
  RepoOf <- MCRepoOf
  OnDefault = {}
  Rank <- MCRank
  Workers = {1, 2}
  Pools = {{1, 2}}
  Capacity = 2
  MaxBoots = 2
  MaxFaults = 1
  None = None
CHECK_DEADLOCK FALSE
INVARIANTS
  CapacityBound
  NoDoubleDispatch
  NoStrandedJob
  DispatchedJobHasFile
  DispatchInAcceptOrder
  EveryBuildIsAwaited
PROPERTIES
  KeepsPromise
