SPECIFICATION FairSpec
CONSTANTS
  w1 = w1 w2 = w2
  Workers <- OneWorker
  Messages <- ThreeMessages
  BatchSize = 2
  MaxRetries = 2
  MaxFaults = 2
CHECK_DEADLOCK FALSE
INVARIANTS DuplicatesNeedFaults
PROPERTIES OutcomeIsFinal EveryMessageSettles
