SPECIFICATION Spec
CONSTANTS
  Bytes <- MCBytes
  Star = "*"
  PatternLists <- MCPatternLists
  ReadSize = 3
  LogLimit = 7
  MaxSource = 8
  Urls = {u1, u2}
  Branches = {b1, b2}
  None = None
  MaxLines = 7
  l1 = l1
  l2 = l2
  Logs = {l1, l2}
  Kinds <- MCKinds
  NoLog = NoLog
  HeadSize = 4
  TailSize = 3
  MaxOutput <- MCMaxOutput
CHECK_DEADLOCK FALSE
INVARIANTS
  OutputIsRedacted
  NoValueInLog
  PendingIsBounded
  MirrorsAsDeclared
  OnlyDeclaredUrls
PROPERTIES
  ListingIsTrue
  StatsAreTrue
