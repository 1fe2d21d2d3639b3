SPECIFICATION SharedSpec
CONSTANTS
  Runs = {ra,rb}
  Pods = {p1,p2}
  NoPod = NoPod
  Never = Never
  Limit = 2
  TtlMargin = 1
  Warmths = {0,1}
  WarmMargin = 1
  MaxNow = 2
  MaxCalls = 2
  Callers = {ca,cb}
  Pids = {n1,n2}
  MaxBorn = 3
  MaxRestarts = 1
  NoPid = NoPid
SYMMETRY Sym
CONSTRAINT FewCalls
INVARIANTS SharedTypeOK
PROPERTIES RunKeepsItsPod NeverMistaken
CHECK_DEADLOCK FALSE
