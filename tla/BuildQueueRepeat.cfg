SPECIFICATION Spec
CONSTANTS
  r1 = r1
  r2 = r2
  r3 = r3
  app = app
  Requests = {r1, r2}
  Repos = {app}
  RepoOf <- MCRepoOf
  OnDefault = {r1, r2}
  Rank <- MCRank
  Workers = {1}
  Pools = {{1}}
  Capacity = 2
  MaxBoots = 2
  MaxFaults = 0
  None = None
CHECK_DEADLOCK FALSE
PROPERTIES
  RepeatedJobIsSafe
