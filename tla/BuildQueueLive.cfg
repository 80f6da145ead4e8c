SPECIFICATION FairSpec
CONSTANTS
  r1 = r1
  r2 = r2
  r3 = r3
  app = app
  Requests = {r1, r2}
  Repos = {app}
  RepoOf <- MCRepoOf
  OnDefault = {r1, r2}
  Rank <- MCRank
  Workers = {1, 2}
  Pools = {{1}, {1, 2}}
  Capacity = 2
  MaxBoots = 2
  MaxFaults = 2
  None = None
CHECK_DEADLOCK FALSE
PROPERTIES
  EveryJobIsSettled
  EveryHandlerAnswers
  LatestFollowsAcceptance
