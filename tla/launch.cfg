\* Every environment, and every answer of the state manager; two attempts, so that
\* a connection is replaced.
CONSTANTS
  Environments <- SomeEnvironments
  Answers <- SomeAnswers
  NoStream = NoStream
  LargestChannel = 2
  MaxAttempts = 2
SPECIFICATION FairSpec
INVARIANTS
  TypeOK
  CrashesAreExplained
  ShutdownIsClean
  ReceiverIsToldWhatItGets
PROPERTY ProcessEnds
\* The process ends.
CHECK_DEADLOCK FALSE
