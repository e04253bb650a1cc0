SPECIFICATION Spec
CONSTANTS
  w1 = w1 w2 = w2
  Workers <- TwoWorkers
  Messages <- TwoMessages
  BatchSize = 2
  MaxRetries = 2
  MaxFaults = 1
SYMMETRY Symmetry
CHECK_DEADLOCK FALSE
INVARIANTS TypeOK SentWasHanded NoMessageIsStranded
