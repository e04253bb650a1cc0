SPECIFICATION FairSpec
CONSTANTS
  b1 = b1 b2 = b2 b3 = b3 w1 = w1
  Bookings <- ThreeBookings
  Workers <- OneWorker
  BatchSize = 2
  MaxFaults = 1
CHECK_DEADLOCK FALSE
INVARIANTS TypeOK WaitingIsLeftAlone
PROPERTIES StuckCancellationIsRepeated
