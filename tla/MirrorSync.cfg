SPECIFICATION Spec
CONSTANTS
  c1 = c1
  c2 = c2
  c3 = c3
  main = main
  dev = dev
  all = all
  some = some
  path = path
  Gone = Gone
  Commits <- MCCommits
  Before <- MCBefore
  Refs <- MCRefs
  HeadRef = main
  Mirrors <- MCMirrors
  Valid <- MCValid
  ConfigOf <- MCConfigOf
  MaxPushes = 3
  MaxChanges = 3
  MaxFaults = 1
CHECK_DEADLOCK FALSE
INVARIANTS
  OnlyWhatWasPushed
  FailureIsIsolated
  Converges
PROPERTIES
  NeverBack
  EveryProcessEnds
