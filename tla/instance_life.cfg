SPECIFICATION FairSpec
CONSTANTS
  b1 = b1 b2 = b2 b3 = b3 confirmed = confirmed denied = denied
  Bookings <- ThreeBookings
  Queues <- TwoQueues
  Verdict <- VerdictOf
  DeniedQueue = denied
  Exchange = "booking-service-topics"
  OtherExchanges = {"elsewhere"}
  Deployments <- TwoDeployments
  Regretted <- RegrettedOnes
  Prefetch = 1
  MaxFaults = 1
  MaxStops = 1
CHECK_DEADLOCK FALSE
INVARIANTS TypeOK AnswersSurvive WindowIsHeld OwnExchangeKeepsChannel
PROPERTIES HeardWhileConnected
