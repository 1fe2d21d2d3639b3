SPECIFICATION HolderSpec
CONSTANTS
  Attempts = 3
  NoReport = NoReport
  NoTimeout = NoTimeout
  Timeouts = {0,4,7,NoTimeout}
  Grace = 4
  FirstPoll = 1
  FirstWindow = 3
  FastPoll = 2
  FastWindow = 6
  SlowPoll = 3
  MaxBackoff = 5
  RetryAfters = {0,6}
  PortPoll = 2
  PortTimeout = 5
  RequestTime = 1
  Horizon = 16
  UpAsks <- AsksFollowed
  UpHorizon = 4
  NoEnd = NoEnd
  NotYet = NotYet
  CardRuns = 3
  NoKey = NoKey
  NoExit = NoExit
  Unread = Unread
  FundRuns = 2
  Nets = {n1,n2}
  Addresses = {a1,a2}
  MaxAlpha = 1
  NoNet = NoNet
  NoTarget = NoTarget
  StillFunding = StillFunding
  UserPods = {p1,p2}
  Rows = {1,2}
  PlainNames = {word}
  MaxChanges = 2
  RmLines <- LinesFollowed
  NoLine = NoLine
  NoRows = NoRows
  NoWord = NoWord
CONSTRAINT OneRm
INVARIANTS HolderTypeOK JobKeepsItsWord UpKeepsItsWord TopUpKeepsItsWord FundKeepsItsWord
PROPERTIES RunningPodGoes WaitKeepsItsTimeout RemovalKeepsItsWord
CHECK_DEADLOCK FALSE
