SPECIFICATION Spec
CONSTANTS
  b1 = b1 b2 = b2 c1 = c1 c2 = c2 c3 = c3
  Bookings <- OneBooking
  Calls <- TwoCalls
  Ops <- OlderOps
  StartDay <- FirstDay
  LastDay = 2
  MaxOutbox = 1
PROPERTIES CancelledIsFinal
