CHECK_DEADLOCK FALSE
SPECIFICATION Spec
CONSTANTS
  Faults = {"open2"}
INVARIANT FailureReturns
