SPECIFICATION MachineSpec
CONSTANTS
  MaxFaults = 3
  MaxReboots = 1
  Launches = {l1,l2}
  MaxVersion = 3
  MaxMishaps = 2
  NoLaunch = NoLaunch
  Execs = {e1,e2,e3}
  Stoppers = {stopper}
  MaxMasters = 3
  NoExec = NoExec
  Commands = {c1,c2}
  Hotkeys = {h1,h2}
  MaxSessions = 2
  MaxTries = 2
  NoCommand = NoCommand
  NoHotkey = NoHotkey
  Copies = {k1,k2}
  Others = {u1,u2}
  Ranks = {m0,m1}
  ClusterAsks <- ClusterLines
  NoCluster = NoCluster
  Shells = {s1,s2}
  Accounts = {a1,a2}
  Teams = {t1,t2}
  MaxCommands = 3
  MaxCuts = 1
  NotSet = NotSet
  PortChoices = {p0,p1}
  DefaultPorts = p0
  Claims = {claim}
  NoClaim = NoClaim
  MaxMineRuns = 3
  WaitLimit = 5
  ConfirmTime = 4
  FindTries = 2
  ReadTime = 1
  MaxRuns = 2
CONSTRAINT RunFollowed
INVARIANTS MachineTypeOK DataKept HostIsLeftWhole MasterHasItsSocket SessionsAreKept KeysAreRight ClusterKeepsItsWord KeysLeadHome NodeKeepsItsWord RegisterKeepsItsWord StatusKeepsItsWord
PROPERTIES UpdateKeepsItsWord
CHECK_DEADLOCK FALSE
