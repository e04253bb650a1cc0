SPECIFICATION Spec
CONSTANTS
  b1 = b1 b2 = b2 c1 = c1 c2 = c2 c3 = c3
  Bookings <- TwoBookings
  Calls <- ThreeCalls
  Ops <- TransactionalOps
  StartDay <- FirstDay
  LastDay = 2
  MaxOutbox = 4
SYMMETRY Symmetry
INVARIANTS TypeOK OutboxReplays CancelCommandIsHonoured LateConfirmationStands
PROPERTIES ImplementsLifecycle
CHECK_DEADLOCK FALSE
