CONSTANTS
  MaxNumber = 3
  Streams <- LiveStreams
  MaxAttempts = 2
  FaultKinds = {"send", "intervene"}
  MaxFaults = 2
  MaxRestarts = 0
SPECIFICATION FairSpec
PROPERTIES
  TransientFailuresAreAbsorbed
  PauseStopsSink
CHECK_DEADLOCK FALSE
