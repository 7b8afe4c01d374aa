CONSTANTS
  MaxNumber = 3
  Streams <- FaultStreams
  MaxAttempts = 2
  FaultKinds = {"connect", "recv", "eof", "process", "send", "commit", "mark", "intervene"}
  MaxFaults = 1
  MaxRestarts = 0
SPECIFICATION Spec
INVARIANTS
  TypeOK
  NoSilentLoss
  DeliveredInOrder
  FlowInOrder
  OneAttemptAtATime
  DoneMeansEndReached
PROPERTY
  KeepsItsPromise
CHECK_DEADLOCK FALSE
