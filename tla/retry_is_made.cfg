CONSTANTS
  MaxNumber = 3
  Streams <- EndlessStreams
  MaxAttempts = 2
  FaultKinds = {"recv", "intervene"}
  MaxFaults = 2
  MaxRestarts = 0
SPECIFICATION FairSpec
PROPERTY RetryIsMade
CHECK_DEADLOCK FALSE
