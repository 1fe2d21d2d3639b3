SPECIFICATION Spec
CONSTANTS
  Servers = {s1,s2}
  Rentals = {r1,r2}
  Listings = {}
  MaxCrashes = 1
  Nobody = Nobody
  s1 = s1
  s2 = s2
  r1 = r1
  r2 = r2
CONSTRAINT OneToTheEnd
SYMMETRY BothSymmetry
INVARIANTS TypeOK UnheardIsJournaled HeldRentalIsTracked CancellationReachesDisk
PROPERTIES NoRentBesideUnsettled
CHECK_DEADLOCK FALSE
