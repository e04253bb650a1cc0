SPECIFICATION FairSpec
CONSTANTS
  b1 = b1 b2 = b2 yes1 = yes1 no1 = no1 yes2 = yes2 c1 = c1 c2 = c2 c3 = c3
  About <- BookingOf
  Kind <- KindOf
  Serves <- QueueOf
  Bookings <- OneBooking
  Events <- OneJob
  Consumers <- OnePair
  MaxCopies = 1
  MaxFaults = 1
CHECK_DEADLOCK FALSE
PROPERTIES AnswerArrives
