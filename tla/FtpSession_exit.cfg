SPECIFICATION Spec
CONSTANTS
  FdLimit = 2
  MaxEvents = 3
INVARIANTS FailureReported
CHECK_DEADLOCK FALSE
