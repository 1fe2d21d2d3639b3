CONSTANTS
  t1 = t1
  t2 = t2
  Threads <- SshThreads
  Owners <- SshOwners
  MaxConns = 3
SPECIFICATION Spec
INVARIANT UsersCountTheCalls
CHECK_DEADLOCK FALSE
