\* Two processors, as when the runner retries while a batch is being processed, of
\* two batches each: the second batch finds what the first left in the cache.
CONSTANTS
  Processors = {p1, p2}
  None = None
  Batches <- SomeBatches
  Files <- StoredFiles
  GroupSize = 2
  Word = 8
  MaxBatches = 2
  MaxFaults = 1
SPECIFICATION FairSpec
INVARIANTS
  TypeOK
  DownloadedOnce
  BlocksHaveTheirBytes
  PayloadIsTheBatch
  OffsetsFindBlocks
PROPERTIES
  EveryBatchIsAnswered
  ProcessorsAnswerBatches
\* The bound on the batches, or a panic.
CHECK_DEADLOCK FALSE
