SPECIFICATION FairSpec
CONSTANTS
  Servers = {s1}
  Rentals = {r1}
  Listings = {l1,l2}
  MaxCrashes = 1
  Nobody = Nobody
  s1 = s1
  r1 = r1
  l1 = l1
  l2 = l2
INVARIANTS ReservationHasReceiver
PROPERTIES CancelledPodGoes
CHECK_DEADLOCK FALSE
