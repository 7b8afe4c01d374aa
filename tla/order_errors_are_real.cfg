CONSTANTS
  MaxNumber = 3
  Streams <- IgnoreStreams
  MaxAttempts = 2
  FaultKinds = {"recv"}
  MaxFaults = 1
  MaxRestarts = 0
SPECIFICATION Spec
INVARIANT OrderErrorsAreReal
CHECK_DEADLOCK FALSE
