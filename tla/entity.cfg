SPECIFICATION Spec
CONSTANTS
  StartDay = 2
  LastDay = 4
INVARIANTS TypeOK RollbackKnowsItsTarget LateCancellationImpossible
PROPERTIES ConfirmationIsNotForgotten ImplementsLifecycle
