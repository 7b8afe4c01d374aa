CONSTANTS
  MaxNumber = 3
  Streams <- StartingStreams
  MaxAttempts = 2
  FaultKinds = {}
  MaxFaults = 0
  MaxRestarts = 0
SPECIFICATION FairSpec
PROPERTY ProcessedStreamEnds
CHECK_DEADLOCK FALSE
