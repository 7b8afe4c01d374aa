-------------------------- MODULE BatchProcessing --------------------------
(***************************************************************************)
(* What the batch processor does with one batch (process in                *)
(* services/batch_processor.go): it downloads the data of the blocks       *)
(* (services/block_downloader.go), transforms them on the worker pool, and *)
(* serializes them into a payload.  The processors of two attempts may be  *)
(* at it at the same time; they share the downloader's cache, its lock and *)
(* the pool.  Pipeline sees only that a batch is processed or fails.       *)
(***************************************************************************)
EXTENDS BlockData, FiniteSets

CONSTANTS
  Processors,  \* the batch processors of the attempts that overlap
  None,        \* model value: no processor, no file
  MaxBatches,  \* bound: batches per processor
  MaxFaults    \* bound: failed downloads and functions that throw

ASSUME BoundAssumption == MaxBatches \in Nat /\ MaxFaults \in Nat

ASSUME NoneAssumption == None \notin Processors /\ None \notin DOMAIN Files

VARIABLES
  functionEnabled,  \* the stream has a block function
  encoding,         \* the type of the output compressor
  cache,            \* blockDataMap: [group -> url of the file downloaded, or None]
  lock,             \* who holds blockDataMapLock
  processor,        \* [Processors -> pc, batch, data, tasks, results, result]
  down,             \* a panic has ended the process
  downloads,        \* history: [group -> how often a file was downloaded for it]
  processed,        \* batches each processor has taken
  faults

vars == <<functionEnabled, encoding, cache, lock, processor, down, downloads,
          processed, faults>>

config == <<functionEnabled, encoding>>
bounds == <<processed, faults>>

-----------------------------------------------------------------------------

Idle == [pc |-> "idle", batch |-> None, data |-> << >>, tasks |-> << >>, results |-> << >>,
         err |-> "none", result |-> None]

Init ==
  /\ functionEnabled \in BOOLEAN
  /\ encoding \in Encodings
  /\ cache = [g \in Groups |-> None]
  /\ lock = None
  /\ processor = [c \in Processors |-> Idle]
  /\ down = FALSE
  /\ downloads = [g \in Groups |-> 0]
  /\ processed = [c \in Processors |-> 0]
  /\ faults = 0

Fault == faults < MaxFaults /\ faults' = faults + 1

Blocks(c) == processor[c].batch.blocks

\* The block whose data processor c gets next.
Wanted(c) == Blocks(c)[Len(processor[c].data) + 1]

-----------------------------------------------------------------------------
(***************************************************************************)
(* GetDownloadedBlocksData: one block after the other, under the lock.     *)
(***************************************************************************)

Take(c) ==
  /\ processor[c].pc = "idle"
  /\ processed[c] < MaxBatches
  /\ \E batch \in Batches :
       processor' = [processor EXCEPT ![c] = [Idle EXCEPT !.pc = "download", !.batch = batch]]
  /\ processed' = [processed EXCEPT ![c] = @ + 1]
  /\ UNCHANGED <<config, cache, lock, down, downloads, faults>>

\* data[block.BytesStart : block.BytesEnd+1], and on to the next block or to the pool.
Gather(c, file) ==
  LET b == Wanted(c)
      Got(bytes) ==
        LET data == Append(processor[c].data, bytes) IN
        /\ processor' =
             IF Len(data) < Len(Blocks(c))
               THEN [processor EXCEPT ![c].pc = "download", ![c].data = data]
               ELSE [processor EXCEPT ![c] =
                      [@ EXCEPT !.pc = "wait", !.data = data,
                                !.tasks = [i \in DOMAIN data |-> "queued"],
                                !.results = [i \in DOMAIN data |-> << >>]]]
        /\ UNCHANGED down
  IN \/ InRange(b, file) /\ Got(Slice(b, file))
     \/ b.bytesStart <= EndOf(b) /\ EndOf(b) > Len(file) /\ Got(Padded(b, file))
     \/ ~ InRange(b, file) /\ down' = TRUE /\ UNCHANGED processor

\* Mutant: the map is read and the file downloaded without the lock.
NoLock == TRUE

LockFree == lock = None

\* Mutant: the lock is never released.
KeepLock == UNCHANGED lock

Unlock == lock' = None

CacheHit(c) ==
  /\ processor[c].pc = "download"
  /\ LockFree
  /\ cache[BatchNumber(Wanted(c))] # None
  /\ Gather(c, Files[cache[BatchNumber(Wanted(c))]])
  /\ UNCHANGED <<config, cache, lock, downloads, bounds>>

CacheMiss(c) ==
  /\ processor[c].pc = "download"
  /\ LockFree
  /\ cache[BatchNumber(Wanted(c))] = None
  /\ lock' = c
  /\ processor' = [processor EXCEPT ![c].pc = "fetch"]
  /\ UNCHANGED <<config, cache, down, downloads, bounds>>

\* The file is downloaded and kept.
Downloaded(c) ==
  /\ processor[c].pc = "fetch"
  /\ LET b == Wanted(c)
         g == BatchNumber(b)
     IN /\ cache' = [cache EXCEPT ![g] = b.url]
        /\ downloads' = [downloads EXCEPT ![g] = @ + 1]
        /\ Gather(c, Files[b.url])
  /\ Unlock
  /\ UNCHANGED <<config, bounds>>

DownloadFails(c) ==
  /\ processor[c].pc = "fetch"
  /\ Fault
  /\ processor' = [processor EXCEPT ![c].pc = "failed", ![c].err = "download"]
  /\ Unlock
  /\ UNCHANGED <<config, cache, down, downloads, processed>>

-----------------------------------------------------------------------------
(***************************************************************************)
(* processDownloadedBlocks: the tasks of a batch run on the pool, in any   *)
(* order and next to those of the other processors.                        *)
(***************************************************************************)

\* Mutant: results are appended in the order in which the tasks end.
StoreNext(c, i, data) ==
  LET n == Cardinality({j \in DOMAIN processor[c].tasks : processor[c].tasks[j] = "done"})
  IN processor' = [processor EXCEPT ![c].tasks[i] = "done", ![c].results[n + 1] = data]

\* results[i] = result
Store(c, i, data) ==
  processor' = [processor EXCEPT ![c].tasks[i] = "done", ![c].results[i] = data]

TaskSucceeds(c, i) ==
  /\ processor[c].tasks[i] = "queued"
  /\ MustDecompress(functionEnabled, encoding) => Readable(processor[c].data[i])
  /\ Store(c, i, Transformed(processor[c].data[i], functionEnabled, encoding))
  /\ UNCHANGED <<config, cache, lock, down, downloads, bounds>>

\* The first error of a batch is kept.
TaskFails(c, i) ==
  /\ processor[c].tasks[i] = "queued"
  /\ \/ /\ MustDecompress(functionEnabled, encoding)
        /\ ~ Readable(processor[c].data[i])
        /\ UNCHANGED faults
     \/ functionEnabled /\ Fault
  /\ processor' = [processor EXCEPT ![c].tasks[i] = "failed", ![c].err = "task"]
  /\ UNCHANGED <<config, cache, lock, down, downloads, processed>>

Ended(c) == {i \in DOMAIN processor[c].tasks : processor[c].tasks[i] # "queued"}

\* Mutant: nobody waits for the tasks.
WithoutWaiting(c) == TRUE

\* wg.Wait returns.
AllEnded(c) == Ended(c) = DOMAIN processor[c].tasks

TasksFail(c) ==
  /\ processor[c].pc = "wait"
  /\ AllEnded(c)
  /\ processor[c].err # "none"
  /\ processor' = [processor EXCEPT ![c].pc = "failed"]
  /\ UNCHANGED <<config, cache, lock, down, downloads, bounds>>

\* serialize and NewProcessedBatch.
Finish(c) ==
  /\ processor[c].pc = "wait"
  /\ AllEnded(c)
  /\ processor[c].err = "none"
  /\ processor' = [processor EXCEPT ![c].pc = "ready", ![c].result =
                     NewProcessedBatch(processor[c].batch, processor[c].results, encoding)]
  /\ UNCHANGED <<config, cache, lock, down, downloads, bounds>>

\* outputChannel <- processedBatch, and the loop goes on.
Deliver(c) ==
  /\ processor[c].pc = "ready"
  /\ processor' = [processor EXCEPT ![c] = Idle]
  /\ UNCHANGED <<config, cache, lock, down, downloads, bounds>>

\* errorChannel <- err, and the goroutine returns.
Report(c) ==
  /\ processor[c].pc = "failed"
  /\ processor' = [processor EXCEPT ![c].pc = "closed"]
  /\ UNCHANGED <<config, cache, lock, down, downloads, bounds>>

-----------------------------------------------------------------------------

ProcessorStep(c) ==
  \/ CacheHit(c) \/ CacheMiss(c) \/ Downloaded(c) \/ DownloadFails(c)
  \/ TasksFail(c) \/ Finish(c) \/ Deliver(c) \/ Report(c)

TaskStep(c) == \E i \in DOMAIN processor[c].tasks : TaskSucceeds(c, i) \/ TaskFails(c, i)

Next ==
  /\ ~ down
  /\ \E c \in Processors : Take(c) \/ ProcessorStep(c) \/ TaskStep(c)

Spec == Init /\ [][Next]_vars

\* A processor that can go on does, and so does the pool.  Calls to the store end,
\* at the latest with the HTTP client's timeout.
FairSpec ==
  /\ Spec
  /\ \A c \in Processors : WF_vars(~ down /\ ProcessorStep(c)) /\ WF_vars(~ down /\ TaskStep(c))

-----------------------------------------------------------------------------
(***************************************************************************)
(* Properties.                                                             *)
(***************************************************************************)

Tasks == {"queued", "done", "failed"}

Results == [data : Seq(Unit), size : Nat, encoding : Encodings, numbers : Seq(Nat)]

TypeOK ==
  /\ functionEnabled \in BOOLEAN
  /\ encoding \in Encodings
  /\ cache \in [Groups -> DOMAIN Files \cup {None}]
  /\ lock \in Processors \cup {None}
  /\ \A c \in Processors :
       /\ processor[c].pc \in {"idle", "download", "fetch", "wait", "ready", "failed", "closed"}
       /\ processor[c].batch \in Batches \cup {None}
       /\ processor[c].data \in Seq(Seq(Unit))
       /\ processor[c].tasks \in Seq(Tasks)
       /\ processor[c].results \in Seq(Seq(Unit))
       /\ processor[c].err \in {"none", "download", "task"}
       /\ processor[c].result = None \/ processor[c].result \in Results
  /\ down \in BOOLEAN
  /\ downloads \in [Groups -> Nat]
  /\ processed \in [Processors -> 0 .. MaxBatches]
  /\ faults \in 0 .. MaxFaults

\* However many processors want a file, it is downloaded once: the second waits for
\* the first and finds what it left, unless the first failed.
DownloadedOnce == \A g \in Groups : downloads[g] <= 1

\* Every block has the bytes of its own range of its own file, provided that this
\* range lies in the file, and that the file its hundred was downloaded from is the
\* file it names: the cache is blind to the difference.
OwnBytes(b, bytes) ==
  LET file == Files[b.url] IN
  cache[BatchNumber(b)] = b.url /\ b.bytesStart <= b.bytesEnd /\ b.bytesEnd < Len(file) =>
    /\ Len(bytes) = b.bytesEnd - b.bytesStart + 1
    /\ \A k \in DOMAIN bytes : bytes[k] = file[b.bytesStart + k]

BlocksHaveTheirBytes ==
  \A c \in Processors : \A i \in DOMAIN processor[c].data :
    OwnBytes(Blocks(c)[i], processor[c].data[i])

\* What a destination reads in a payload: the texts, after decompression.
Read(result) ==
  LET plain == IF result.encoding = "gzip" THEN Decompress(result.data) ELSE result.data
  IN [i \in DOMAIN plain |-> plain[i]]

Wrapped(c) ==
  LET data == processor[c].data
      Contents(i) == [k \in DOMAIN data[i] |->
                        [data[i][k] EXCEPT !.gz = FALSE, !.mapped = functionEnabled]]
  IN <<Plain(StartOf(processor[c].batch.direction))>> \o Contents(1)
       \o FlattenSeq([i \in 1 .. Len(data) - 1 |-> <<Plain(SeparatorText)>> \o Contents(i + 1)])
       \o <<Plain(EndText)>>

\* A payload holds the blocks of its batch, each downloaded, transformed once and in
\* the order of the batch, in whatever order the tasks ended; the destination can
\* decompress it; and no payload is made of a batch of which a task failed.
PayloadIsTheBatch ==
  \A c \in Processors : processor[c].pc = "ready" =>
    /\ \A i \in DOMAIN processor[c].tasks : processor[c].tasks[i] = "done"
    /\ (\A i \in DOMAIN processor[c].data : Readable(processor[c].data[i])) =>
         Read(processor[c].result) = Wrapped(c)

\* Each block is found in the payload at the offset CalculateOffsets gives, and the
\* size billed is that of the blocks without what the payload wraps around them.
OffsetsFindBlocks ==
  \A c \in Processors : processor[c].pc = "ready" =>
    LET results == processor[c].results
        payload == processor[c].result.data
        offsets == CalculateOffsets(results, processor[c].batch.direction, encoding)
    IN /\ \A i \in DOMAIN results :
            SubSeq(payload, offsets[i] + 1, offsets[i] + Len(results[i])) = results[i]
       /\ processor[c].result.size = Len(payload) - (Len(results) + 1)

\* Every batch taken is answered, with a payload or an error, also when another
\* processor's download fails or takes long; a panic ends the process.
EveryBatchIsAnswered ==
  \A c \in Processors :
    processor[c].pc = "download" ~> processor[c].pc \in {"ready", "failed"} \/ down

StateOf(c) ==
  CASE processor[c].pc \in {"download", "fetch", "wait"} -> "inHand"
    [] processor[c].pc = "ready" -> "answered"
    [] processor[c].pc = "failed" -> "refused"
    [] OTHER -> processor[c].pc

Answers ==
  INSTANCE BatchAnswers WITH
    kept <- cache,
    state <- [c \in Processors |-> StateOf(c)],
    batch <- [c \in Processors |-> processor[c].batch],
    answer <- [c \in Processors |-> processor[c].result]

\* The processors, with their lock, their pool and the interleaving of the two,
\* implement BatchAnswers: each batch is answered as if in one step, with the payload
\* of its blocks in the files kept, or refused; no file that was kept is replaced.
ProcessorsAnswerBatches == Answers!AnswersSpec
=============================================================================
