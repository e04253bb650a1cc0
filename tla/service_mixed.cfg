SPECIFICATION FairSpec
CONSTANTS
  b1 = b1 b2 = b2 c1 = c1 c2 = c2 c3 = c3
  Bookings <- OneBooking
  Calls <- TwoCalls
  Ops <- MixedOps
  StartDay <- FirstDay
  LastDay = 1
  MaxOutbox = 2
INVARIANTS LockedReadIsCurrent
PROPERTIES OutboxMessageIsTheTransition EveryCallReturns
