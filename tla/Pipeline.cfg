SPECIFICATION Spec
CONSTANTS
  w1 = w1
  h1 = h1
  d1 = d1
  Workers <- MCWorkers
  Hooks <- MCHooks
  Requests <- MCRequests
  Logs <- MCLogs
  Place <- MCPlace
  MaxBuilds = 2
  MaxTasks = 2
  MaxFaults = 1
CHECK_DEADLOCK FALSE
INVARIANTS
  FailureIsLogged
  BuildsThenTasks
  SuccessIsComplete
  LossHasACause
PROPERTIES
  LogsSurviveRetention
