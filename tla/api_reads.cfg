SPECIFICATION Spec
CONSTANTS
  w1 = w1 w2 = w2 r1 = r1
  Bookings <- FirstThree
  InPeriod <- Period
  Resource <- ResourceOf
  Clients <- AllClients
  Serves <- RequestsOf
  Filters <- ListFilters
  Size = 2
  TopLimit = 2
CHECK_DEADLOCK FALSE
INVARIANTS TypeOK NothingIsSkipped TotalEndsTheWalk StatisticsAddUp AnswersHold
