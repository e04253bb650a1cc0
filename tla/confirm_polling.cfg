SPECIFICATION FairSpec
CONSTANTS
  w1 = w1 w2 = w2
  Bookings <- ThreeBookings
  Workers <- TwoWorkers
  BatchSize = 2
  Decidable <- YoungerOnes
  MaxFaults = 1
CHECK_DEADLOCK FALSE
INVARIANTS TypeOK ConfirmedByCatalog
PROPERTIES CancelledIsFinal DecidedIsSettled
