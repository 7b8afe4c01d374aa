CONSTANTS
  MaxNumber = 3
  Streams <- RegularStreams
  MaxAttempts = 2
  FaultKinds = {"send"}
  MaxFaults = 1
  MaxRestarts = 0
SPECIFICATION Spec
INVARIANT SuccessMeansDelivered
CHECK_DEADLOCK FALSE
