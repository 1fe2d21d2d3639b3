SPECIFICATION Spec
CONSTANTS
  Nobody = Nobody
  Other = Other
  plain = plain
  confirmed = confirmed
  scoped = scoped
  bySpec = bySpec
  Calls = {plain,confirmed,scoped,bySpec}
  Keys = {k1,k2}
  k1 = k1
  k2 = k2
  NoKey = NoKey
  Pods = {p1,p2}
  p1 = p1
  p2 = p2
  MaxPosts = 3
  Idempotent = TRUE
  Confirmed = {confirmed}
  Scoped = {scoped}
  BySpec = {bySpec}
CONSTRAINT OneCallOnly
SYMMETRY Symmetry
INVARIANTS TypeOK RefusedRentedNothing OnePodPerCall ConfirmedPodIsOurs NoPodUnreported
PROPERTIES ContractKept
CHECK_DEADLOCK FALSE
