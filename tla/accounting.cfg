\* Three blocks in batches of two at most, two attempts, ticks of half a second.
CONSTANTS
  Scenarios <- SomeScenarios
  Last = 3
  MaxBatch = 2
  MaxAttempts = 2
  Backoff = 1
  TicksPerSecond = 2
SPECIFICATION Spec
INVARIANTS
  TypeOK
  NeverCountedTooMuch
  CursorIsAccounted
  TimeSpentIsReal
  MetricsAgree
  GivenUpAfterItsWindow
\* The stream ends, and the clock stops.
CHECK_DEADLOCK FALSE
