SPECIFICATION PodJobsSpec
CONSTANTS
  Callers = {ca,cb}
  Pids = {n1,n2}
  MaxBorn = 3
  MaxRestarts = 1
  NoPid = NoPid
PROPERTIES GoneLeftNoExitCode
CHECK_DEADLOCK FALSE
