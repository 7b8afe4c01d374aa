\* As accounting.cfg.
CONSTANTS
  Scenarios <- SomeScenarios
  Last = 3
  MaxBatch = 2
  MaxAttempts = 2
  Backoff = 1
  TicksPerSecond = 2
SPECIFICATION Spec
INVARIANT LastBlockSentAtIsTold
\* The stream ends, and the clock stops.
CHECK_DEADLOCK FALSE
