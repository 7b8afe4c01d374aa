\* Four block numbers: enough for a wrap, a rollback of two blocks and a gap.
\* Two attempts: the second starts on the validator and the batch size that the
\* first left behind.  Three blocks fill a batch of two and start another.
CONSTANTS
  MaxNumber = 3
  MaxBatchSize = 2
  MaxBlocks = 4
  MaxAttempts = 2
SPECIFICATION Spec
INVARIANTS
  TypeOK
  NothingLostInBatching
  BatchesAreUniform
  BatchSizeRespected
PROPERTY TipFollowsChain
\* The last attempt ends and nothing follows it.
CHECK_DEADLOCK FALSE
