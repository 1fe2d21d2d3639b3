CONSTANTS
  t1 = t1
  t2 = t2
  Threads <- SshThreads
  Owners <- SshOwners
  MaxConns = 2
SPECIFICATION Spec
INVARIANTS TypeOK RunningCallsAreSafe IdleIsWatched
PROPERTY KeptIsNotReplaced
CHECK_DEADLOCK FALSE
