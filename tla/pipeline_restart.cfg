CONSTANTS
  MaxNumber = 3
  Streams <- RestartStreams
  MaxAttempts = 2
  FaultKinds = {"send", "commit", "process"}
  MaxFaults = 2
  MaxRestarts = 2
SPECIFICATION Spec
INVARIANTS
  NoSilentLoss
  DeliveredInOrder
  FlowInOrder
PROPERTY
  KeepsItsPromise
CHECK_DEADLOCK FALSE
