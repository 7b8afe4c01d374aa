# Verification of the sink pipeline

The sink is a process that is launched for one stream. It asks a block stream
server for the blocks of the stream, puts them into batches, downloads and
transforms their data, sends each batch to a destination and commits a cursor
to a state manager, so that a later launch resumes behind the last batch
delivered. This directory holds TLA+ models of it, TLC configurations that
check them on small instances, and proofs that TLAPS checks. The repository has
no documentation and no tests: the reference is the code under `src/internal`
(all paths below are relative to it), its comments and its messages.

## The system

    runner --starts, cancels--> one attempt after the other, each of four goroutines:

    server ==> reader --blockCh--> batcher --batchCh--> processor --procCh--> sender ==> destination
               block_stream        batch, validator     downloader, pool     cursor ==> state manager

    errorChannel (capacity 1): every goroutine and the runner itself -> runner
    doneChannel  (capacity 1): the sender -> runner

| component | code | state | operations |
|---|---|---|---|
| runner | `services/runner.go` | attempt, the context of the attempt, the two channels | start an attempt, wait for done or error, back off, cancel and retry, shut down |
| reader | `services/block_stream.go` | the gRPC stream | receive a block and put it into blockCh; end at EOF, error or cancellation |
| batcher | `services/batch.go`, `types/batch.go`, `lib/block_order_validator.go` | the batch being collected; for the life of the process: the validator's last block, the stream's batch size | validate a block, release a full batch, push, flush on the way out |
| processor | `services/batch_processor.go`, `block_downloader.go`, `block_function.go`, `lib/compressors`, `lib/payload_builders`, `lib/serializers` | for the life of the process: the downloader's cache and lock, the pool | download the bytes of the blocks, transform each on the pool, serialize |
| sender | `services/batch_sender.go`, `lib/destinations` | the batch in hand; for the life of the process: the previous status | send with retries, commit, mark as running, signal the end |
| cursor | `services/stream_cursor.go` | status, cursor, sums of blocks, bytes and time, the time of the last commit | make the request of an attempt, commit, tell whether the end is reached |
| state manager client | `services/state_manager.go`, `lib/http_client.go` | none | update the cursor, mark as running, get the stream |
| stream configuration | `services/stream_config.go`, `lib/sink_config.go`, `lib/destination_configs` | the stream as fetched at start-up, of which the batch size changes | load and parse; what is derived: reorg action, compressor, destination, headers |
| metrics | `services/metrics.go` | Prometheus counters, a goroutine that pushes them | observe, count, push |
| start-up | `bootstrap`, `infrastructure`, `cmd` | the container of services, the hooks started | construct what is needed, run the hooks of start and stop, shut down on a signal or when the runner asks |

What is hard about it: the goroutines of a cancelled attempt do not stop at
once, and share the validator, the batch size, the cursor and the cache with
those of the next attempt; the runner sleeps before it cancels, and a failed
attempt goes on working during that sleep; a full channel of capacity one stops
whoever reports; every call over the network may fail after it was carried out,
and a call abandoned may be carried out later; the stop hooks run while
goroutines of the pipeline are at work; and the process may be killed
anywhere. The hazards are listed, each at its line, in `PROJECT.json`.

What makes it correct: no block is skipped silently, whatever is retried,
cancelled, lost or restarted (it may be delivered twice); the destination sees
no block before the earlier ones are settled; a batch is never mixed, doubled or
overgrown; a payload is exactly its batch; a pause stops the sink; failures that
pass are absorbed; what the sink says of its work, to the state manager and in
its metrics, is true; a configuration it cannot work with stops it before the
pipeline runs; a receiver is told what it gets; and the process ends when it should.

## The modules

| module | models | state and actions |
|---|---|---|
| `BlockOrder` | the order validator and the rules of a batch, as operators | `Accepts` is `Validate` with its three `validateFor...Action` functions over wrapping uint64 numbers; `CanPush`, `shouldReleaseBatch...` and `ElasticBatchSize` are the decisions of `batch.go` |
| `BatchService` | the batching goroutine against any input, attempt after attempt | one action per way the loop goes: `Accept`, `Refuse`, `Emit`, `Report`, `Leave`, `Flush`; `Consume` is the processor taking a batch |
| `ChainTip` | the abstract specification of the order check: one chain whose tip moves | `Begin`, `Extend`, `RollBack`, `Jump` |
| `BatchServiceProofs` | the theorems about `BatchService` | |
| `Pipeline` | the runner, all four goroutines of every attempt, cursor, state manager, destination, crashes and restarts | per goroutine one action between two points where another can come in; see the headings in the module |
| `PipelineProperties` | what the pipeline promises together, and what its messages say it does | |
| `Delivery` | the abstract specification of all that: blocks settled in order, positions told and taken over, one outcome | `Deliver`, `Abandon`, `Commit`, `Delay` and `Arrive` (an update that is late), `TakeOver` (the sink stores a confirmed cursor), `End`, `Resume` |
| `PipelineProofs`, `PipelineFlowProofs` | the theorems about `Pipeline`: its types and attempts; the flow of the blocks, and that it implements `Delivery` | |
| `Payload` | compressors, payload builders and serializers, as operators on sequences of texts | `Build`, `CalculateOffsets`, `Serialize`, `Compress`, `Decompress` |
| `PayloadProofs` | the theorems about these operators, by induction over the blocks | |
| `BlockData` | where the data of a block lies and what becomes of it, as operators | `Slice` and `Padded` are what Go cuts out of a file, `Transformed` the way through decompression, function and compression |
| `BatchAnswers` | the abstract specification of the processors: a batch is answered in one step, or refused | `Take`, `Keep` (a file), `Answer`, `HandOver`, `Refuse`, `Close`, `Panic` |
| `BatchProcessing` | what a processor does with one batch, with the processors of several attempts at once | `CacheHit`, `CacheMiss`, `Downloaded`, `DownloadFails` (`getBlockData` under its lock), `TaskSucceeds`, `TaskFails` (the pool), `TasksFail`, `Finish`, `Deliver`, `Report` |
| `BatchProcessingProofs`, `AnswersProofs` | the theorems about `BatchProcessing`: the cache and the bytes; the payloads, and that it implements `BatchAnswers` | |
| `SinkConfig` | parsing the sink's and the webhook's configuration, the delays between retries, the headers of a request, as operators | `ValidSinkConfig`, `NewSinkConfig`, `NewWebhookDestinationConfig`, `validateHeaderKey`, `getBatchHeaders`, `CalculateDelay` |
| `Launch` | the process from construction to exit | `Resolve` and `Construct` (the container), one action per start hook, `RunnerStep` (the runner, and its connection), `ProcessorPanics` (an empty batch, a range outside its file), `FunctionStep` (tasks in the V8 isolate), `PusherStep`, `Signal`, `StopHook`, `Exit` |
| `LaunchProofs` | the theorems about `Launch` | |
| `Accounting` | the sums told to the state manager and the metrics, with time | the sender's send, sleep and retry, the three points of `Commit` (`CommitBegins`, `UpdateAnswered` or `UpdateFails`, `ReadSums` and `Write`) and `Count` (the metrics) behind them, the runner's retry, `Restart`, `Tick` |
| `AccountingProofs` | the theorems about `Accounting` | |
| `MCBatchService`, `MCPipeline`, `MCBatchProcessing`, `MCLaunch`, `MCAccounting` | the instances TLC checks | |

`Pipeline` composes the components that interact: it uses the operators of
`BlockOrder` for the batcher, and sees of `BatchProcessing` only that a batch is
processed or fails. `BatchService` looks at the batcher alone, with inputs no
well-behaved server sends; `Pipeline` looks at it where attempts overlap.
`Delivery` has no attempts, channels or goroutines left: it is what a customer may
rely on, and `Pipeline` implements it. `BatchAnswers` is the bridge to
`BatchProcessing`: it has the steps of `Pipeline`'s processor and the payloads, and
`BatchProcessing` implements it.
`Accounting` has the sender and the cursor of `Pipeline` with the numbers and the
time that `Pipeline` leaves out, and in place of the other goroutines an error
that comes at any time. `Launch` has what is around the pipeline, and of the
pipeline what outlives an attempt. Both use the operators of `SinkConfig`.

Conventions. A server's answer is a script, `stream.blocks`; a cursor is a
position in it, and the server resumes behind it. A batch is the sequence of the
positions of its blocks. A block in the hand of a reader that waits for room is
kept at the end of its channel, which therefore has room for one more. What
`Validate` looks at and what it sets are two steps, since the batcher of a
cancelled attempt can come in between; the writes of `setLastBlock` are one.
A call that takes the context of its attempt must fail once the attempt is
cancelled, and may fail before by a fault. A failed send or update was carried
out, was not, or (an update) will be. Bytes in `BatchProcessing` are sequences
of texts, each plain or one gzip member, and a block's range counts such units.
A value of a customer's configuration is a tagged pair of its JSON type and what
there is of it that a parser tells apart; numbers are counted in halves, so that
there are some that are not whole. The name of a header is a pair of its
lower-case form and how it is spelled. In `Accounting` bytes are summed as blocks
are, a clock ticks twice a second, and the two reads and the write in `Commit`, and
the counters raised after it, are steps of their own, because two senders may be at
them; `Pipeline` for the same reason parts what `Commit` stores (`SenderStores`) from
what `process` makes of the answer (`SenderReacts`); that a struct is
written whole is an assumption there (see below).

## What the runs check

| run | instance | what it shows |
|---|---|---|
| `batching` | block numbers 0..3, batches of two, four blocks in each of two attempts, any order, some unreadable (275 thousand states) | nothing accepted is lost or doubled, batches are uniform and bounded, and what the validator accepts implements `ChainTip` |
| `pipeline_faults` | three streams, two attempts, one fault of any of eight kinds anywhere (1.7 million states) | no silent loss, delivery in order, one attempt at a time, and done only at the end; all of it implements `Delivery` |
| `pipeline_restart` | three blocks in batches of two and one, two attempts, two faults, two kills anywhere (1.1 million states) | the same across restarts and with updates that arrive late; the cursor is taken over only when confirmed |
| `pipeline_live` | three streams (starting; without end; with a reorg), two faults of sending or of somebody pausing (59 thousand states) | failures fewer than the send attempts are absorbed and the sink ends well; a pause that a commit has reported stops it |
| `processing` | two processors of two batches each, five batches: two hundreds of blocks, one of them in two files after a reorg, a range beyond its file, one that wraps; one fault (115 thousand states) | one download per file, every block the bytes of its range in the file that is kept, the payload is the batch, offsets find the blocks, every batch is answered, and all of it implements `BatchAnswers` |
| `accounting` | three blocks in batches of two at most, two attempts; eight scenarios of what fails and how it is retried (3.9 million states) | the state manager is never told too much, the cursor passes nothing unaccounted, time and metrics are true, no batch is given up before its window |
| `launch` | four environments; a configuration that works and all that differ from it in one key, or in the headers and one key; each type of destination, function, batch size (negative, none, usual, too large for a channel), URL and byte ranges (80 thousand states) | whatever crashes the process is one of the causes that `CrashesAreExplained` names: before the runner starts a configuration that cannot work, then only a batch size, a byte range or a disposed isolate, and at any time metrics without an interval; the runner's own shutdown leaves nothing open, the headers tell the receiver what it gets, the process ends |

Five runs show the code doing other than what its messages say (`findings` in
`PROJECT.json` has the lines):

| run | what the message says | what happens |
|---|---|---|
| `success_means_delivered` | "stream has been processed successfully." | a batch that ran out of send attempts is dropped; its sender goes on during the back-off, reaches the end, and the next attempt takes its done signal |
| `order_errors_are_real` | "invalid block order with reorg action" | the validator survives the retry and refuses a server that sends everything in order |
| `retry_is_made` | "retrying pipeline in ..." | the runner blocks for ever on its own full error channel |
| `processed_stream_ends` | "stream has been processed successfully." | never said of a stream whose first committed batch, in status starting, is its last: the sink waits for ever |
| `last_block_sent_at` | "The timestamp of the last block sent" | the gauge is set when the process starts and never again: the function that sets it (`send`) has no caller |

The first of these is why `NoSilentLoss` and `DeliveredInOrder` speak of blocks
settled: delivered, or in a batch that was reported as not deliverable
(`abandoned`, a history variable). That a batch reported is then passed over is
what the finding says; that no other block ever is, is what the properties say.

Three properties of `Accounting` (`CursorIsAccounted`, `TimeSpentIsReal` and the
first half of `MetricsAgree`) speak of what happens until a store is raced
(`history.raced`): the sender of a cancelled attempt, between the answer to its
update and its write, and the sender of the next attempt can commit at once, and
then the later write loses the blocks of the earlier one or counts a time twice.
The runner sleeps before it cancels and a commit is short, which makes this rare;
nothing excludes it. `NeverCountedTooMuch` holds even then, and so do
`GivenUpAfterItsWindow` and the count of failed sends in `MetricsAgree`.

Bounds and why they are enough. Two attempts are the least that overlap; the
goroutines of three can overlap only if two are stuck, and they share nothing
that two do not. Two batches are the least for one to fail and the next to
go on. One fault is explored with every kind at every point, two where crashes
or retries of a send need a second. Four block numbers allow a wrap, a rollback
of two and a gap. The scenarios of `accounting` bound the failed sends, the
failed commits, the errors of other goroutines, the restarts and the ticks: three
failed sends exhaust three tries under each strategy, and the other kinds come
alone or in the pairs that interact. `launch` needs no bound but the two attempts,
which are the least that replace a connection; headers are combined with every
other key because what the sink must say of itself depends on both.
`CHECK_DEADLOCK FALSE` is set everywhere, because the process
ends (`runner.pc = "down"`, the phases exited and crashed of `Launch`, or the last
attempt of `BatchService`), or the bound
on batches or the clock does; that it does not stop early is what the liveness properties and
two of the findings are about.

Fairness. `Pipeline` assumes weak fairness of the runner and of every goroutine
of every attempt while the process lives: the Go scheduler runs what can run,
a timer that sleeps fires, and every network call returns, at the latest with
the HTTP client's timeout. The reader's fairness includes that the server goes on
sending its script. Nothing is assumed of faults, of whoever pauses a stream, or
of restarts and late requests. `BatchProcessing` assumes the same of processors
and of tasks on the pool. `Launch` assumes weak fairness of the container's
goroutine (construction, the hooks of start and stop) and of the runner's: hooks
do not block, and the HTTP client's timeout ends the one that asks the state
manager. It assumes nothing of the tasks in the block function or of the
goroutine that pushes metrics: `ProcessEnds` holds while they hang.
`Accounting` states none; it has no liveness property.

`TransientFailuresAreAbsorbed` has a premise (the stream has an end and nobody
stops it) and so does `PauseStopsSink` (a commit reported it); both happen in
the run. The faults of `pipeline_live` are those a send retry or a pause meets:
errors that make the runner retry lead to the findings above.

## What is proved

Every safety property the passing runs check is a theorem for every value of the
constants, and so are the three refinements. The assumptions are the named ones in
the modules, which TLC evaluates in the runs: batch sizes and numbers of attempts
are not nought, streams and configurations have the shape of their JSON
(`StreamAssumption`, `LaunchAssumption`, `AccountingAssumption`), files are
shorter than a uint64 can count and what the store serves has not been through
the block function (`BatchAssumption`), and the value for "no file" is not a file
(`NoneAssumption`). In each case the property is not inductive, and the invariant
that is says what the goroutines have in their hands.

**The batcher** (`BatchServiceProofs`): `TypeCorrect`, `NothingIsLostInBatching`,
`BatchesStayUniform`, `BatchSizeIsRespected`, and `TipIsFollowed`: `BatchService`
implements `ChainTip` under a refinement mapping that reads the tip off the
validator's last block. That a full batch is not pushed to rests on what holds at
the moment it is released. `Inv` therefore adds `HandOver`, what the goroutine has
in its hands at the select and when it releases a batch (`InvHolds`).

**The pipeline** (`PipelineProofs`, `PipelineFlowProofs`). `TypeCorrect` rests on
`Typed`, which adds what depends on a program counter: who hands over a batch has
one, who reports has an error, who backs off has an attempt left; and on `RoomInv`,
that `blockCh` has room for as many blocks as a batch had when it was made, which
needs `AttemptInv`, since the channel of an attempt that begins must be empty.
`AttemptsComeOneByOne` rests on `AttemptInv`: whoever is behind the runner is
cancelled, whoever is before it has not begun. The other four rest on one idea,
`FlowInv`. What is under way in an attempt is one run of consecutive positions,
cut into the sender's hand, `procCh`, the processor's hand, `batchCh`, the batch
being collected, the block in the batcher's hand, and `blockCh` with the reader;
and the run begins right behind a position up to which everything is settled. An
action moves, extends or drops one part, and a part counts only while the
goroutine behind it lives: what a dead goroutine has left is dropped with all that
is behind it. With `EmptyHanded` and `BatchSettled` (who is past its sends has
settled its batch) this gives `NoBlockIsSkipped` (`NoSilentLoss`, for the cursor,
the state manager and every update that may still arrive), `DeliveryIsOrdered`
(`DeliveredInOrder`) and `FlowIsInOrder` (`FlowInOrder`). `SuccessIsEarned`
(`DoneMeansEndReached`) adds `EndInv`: the done signal says that the end is settled.
`PipelineImplementsDelivery` is the refinement, from these invariants and `OutcomeInv`
(nothing is said before the shutdown). A send that arrives, answered or not, is a
`Deliver` of a batch that begins right behind what is settled; a batch that ran out of
attempts an `Abandon`; an update a `Commit`, with or without an answer, or a `Delay`;
what `SenderStores` does a `TakeOver`, since what is confirmed is what the senders
between answer and store have in their hands (`Confirmed`); `Succeed` and `GiveUp` an
`End`; a restart a `Resume`. The rest, all of reader, batcher and processor included,
stutters. `Delivery` says more than the invariants: what is delivered or reported
stays so, one step settles one batch, the position the state manager has changes only
by an update, and the sink's own by an answer or a restart. It does not say that
positions only move forward, because they do not: an update that arrives late, or,
where the reorg action (`RESEND`) lets the next attempt read accepted blocks again, the
sender of a cancelled attempt, can put an older one in place of a newer.

**Payloads** (`PayloadProofs`): `PayloadLength`, `OffsetsAreRight` (each block is in
the payload where `CalculateOffsets` says, in each direction and encoding) and
`DecompressPayload`. They are proved by induction over the blocks. The
induction theorems of the library take an operator and cannot be instantiated
here; `UpTo`, an induction over a set of numbers, can, and follows from the least
element of a set (`Least`). What `FlattenSeq` and `FoldLeft` compute is first
shown to be a running total.

**The processors** (`BatchProcessingProofs`, `AnswersProofs`).
`FilesAreDownloadedOnce` and `BlocksKeepTheirBytes` rest on two facts: who
downloads holds the lock and has an empty entry of the cache before it, so nobody
else can fill it; an entry is there before a block is cut out of it and is never
replaced, so bytes once cut out stay right. Right are the bytes of the file that is
kept: when two blocks of a hundred name different files, the second is cut out of
the first one's file, and the properties say nothing of its bytes. The lemmas `SliceCutsTheRange` and
`PaddingIsUnits` say what cutting a range out of a file yields, and that the uint64
end plus one wraps around for no range inside a file. `TypeCorrect`,
`PayloadHasItsBlocks` (`PayloadIsTheBatch`) and `BlocksAreFound`
(`OffsetsFindBlocks`) rest on `AnswerInv` (`AnswerInvHolds`), which follows a batch
through its stages: the blocks up to here have their bytes (`Cutting`), there is
one task for each (`Staged`), the tasks that are done have left their result in its
place, in whatever order they ended (`Transforming`), and only a batch whose tasks
are all done has a payload, made of these results (`Answered`).
`ProcessorsImplementAnswers` is the refinement: `Take` is a `Take`, the bytes of a
file that is kept a `Keep`, `Finish` an `Answer`, a failed download or task a
`Refuse`, `Deliver` a `HandOver`, `Report` a `Close`, a range outside its file a
`Panic`; the lock, a cache hit and every task are stutters.

**The launch** (`LaunchProofs`): `TypeCorrect`, `CrashesHaveTheirReasons`
(`CrashesAreExplained`), `ShutdownLeavesNothing` (`ShutdownIsClean`) and
`ReceiverIsTold` (`ReceiverIsToldWhatItGets`). They rest on the order of the hooks,
which nobody writes down: it follows from the parameters of the constructors.
`Inv` (`InvHolds`) says that what is built, and each hook, is behind everything it
uses (`Wired`), that the runner's hook is the last, what the hooks that have run
have found out about the stream (`Loaded`), and in what state the runner leaves the
connection (`Connected`, `Stopping`).

**The accounts** (`AccountingProofs`): all six invariants, for any retry
configuration and any number of failures.
- `TypeCorrect` rests on `Typed`: no time is in the future, who has a batch has one
  of a block at least, attempts to come are idle. What each step makes of the records
  is in lemmas named after the actions (`TakeEffect` ...); all later proofs use these.
- `NothingIsCountedTwice` (`NeverCountedTooMuch`) needs more than the senders' own
  sums: two senders may both have batches that are delivered and not counted, and
  either may then write what it read plus its own. `BudgetInv` says that the cursor's
  count and everything outstanding fit together into what was delivered, with the
  sum over all senders as a running total, and that what each has read and not
  yet written leaves room for its own batch.
- `CursorCountsWhatItPasses` (`CursorIsAccounted`), `TimeIsTold` (`TimeSpentIsReal`)
  and the first half of `MetricsTellTheSame` (`MetricsAgree`) hold until a store is
  raced, and the proof has to know when one is. `ReadsInv` says that what a sender has
  seen or read is never more than what the cursor has now; so a write that finds the
  cursor as it was read is the only one since. On it rest `AccountInv` (every batch in
  hand begins behind blocks that are accounted for), `TimeInv` (a sender that will
  not find the cursor changed saw one that told the time), and `CountersInv`: what the
  cursor has counted is what it had at the start, what the metrics have counted, and
  what the senders have written and not yet raised, a running total over all of them.
  `MetricsAgree` is the case in which that total is nothing.
- The second half of `MetricsAgree` rests on `SleepInv` alone, and
  `NothingIsGivenUpEarly` (`GivenUpAfterItsWindow`) on `WaitInv`: who has tried n times
  has waited through the window of n tries. `WindowGrows` adds up the delays, with
  `PowersOfTwo` for the exponential ones.

Only model-checked, because it is out of the prover's reach: the liveness
properties (`TransientFailuresAreAbsorbed`, `PauseStopsSink`, `EveryBatchIsAnswered`,
`ProcessEnds`), for which ENABLED and fairness would be needed; and the five
violations, which are traces. No module has a RECURSIVE operator.

## What is left out

- The case of `pipelineCtx.Done` in the runner: that context is cancelled only
  when `runPipeline` returns.
- The branch of `batch.go` that releases a batch after a push of another
  direction: `PushBlock` refuses such a block first. The lemma
  `NoReleaseAfterPush` proves it is never taken.
- Delays in `Pipeline`: every order of steps is allowed, so lengths of sleeps do
  not matter to safety. How they grow is in `SinkConfig` and `Accounting`, with delays
  as naturals: an int64 of nanoseconds cannot hold an exponential delay of some thirty
  retries, but by then the sink has slept for 292 years.
- The noop destination, which never fails: the case without send faults.
- The statuses "pausing" and "terminated", which the code treats like any other
  status that is not starting or running, and the message that
  `previousStatus` chooses.
- The size of the worker pool (100): tasks do not wait for each other.
- The block function's JavaScript. In `Launch` a task in a disposed V8 isolate may
  end the process; what else it may do is up to V8.
- Torn writes: `Commit` writes a struct without a lock while another sender may
  read it. `Accounting` writes it whole, as every word of it is on the platforms
  built for; a mixture of two writes would be a mixture of two true sets of sums.
- In `Accounting`: streams that turn back, the statuses, bytes (summed as blocks
  are), and `MarkAsRunning`, all of which `Pipeline` has or which add nothing.
- Of the metrics, the histograms: nothing reads them back. (Each duration is
  observed twice, in seconds and in milliseconds; `MeasureFilterLatency` measures
  before it runs its function, and has no caller.)
- Of the environment, the values that only configure a client (URLs, tokens, the
  log level, timeouts), and logging.
- The branch for S3 in `ReorgAction`: `DestinationType` panics before it.
- The protocol code, which is generated, and functions without a caller
  (`GetStatus`, `send`, `SetLastBlockSentAt` through it). `CalculateOffsets` of the
  payload builders has none either; it is modelled, for whoever may come to call it.
- In `Launch`, what the machine refuses: memory, a host name, a log file.
- Memory: the cache of files is never emptied, in the code and in the model.

## What was seen on the way

Not findings, because no comment or message says otherwise, but worth a look by
whoever changes the code. The models have them as they are.

- `retryAttempts: 0` is valid, and then no batch is ever sent: each is given up at
  once (`batch_sender.go:195`).
- The time of a commit is told in whole seconds and the rest is dropped, so a
  stream that commits several times a second tells no time at all;
  `TimeSpentIsReal` bounds the loss by less than a second per commit.
- `P0_SINK_METRICS_INTERVAL` has no default, and without it the ticker panics when metrics
  are enabled; a batch size that is negative, or too large to allocate, panics when the
  first channel is made (`block_stream.go`), and one of none when the first block
  arrives, since the batch handed on is empty. A byte range that ends behind what is
  allocated for its file, or before it begins, panics in `block_downloader.go:75` and
  `:102`, and takes the process with it. Nothing checks any of these beforehand; all are named in
  `CrashesAreExplained`. `BatchService` and `Pipeline` assume a batch size that works.
- A stop hook disposes the V8 isolate while a task of an attempt may be in it.
- The process exits with code 0 after its attempts are used up.
- `P0_SINK_STATE_MANAGER_TIMEOUT` is 2000 by default and counted in seconds.
- A failed creation of a connection keeps the closed one, and closing it again
  costs the next attempt (`AttemptFails` in `CloseOld`).

## Plan

1. Done: `BlockOrder`, `BatchService`, `ChainTip` with proofs; `Pipeline` with
   its properties; `Payload` and `BatchProcessing` with proofs.
2. Done: `SinkConfig`, `Accounting`, `Launch`; `BatchAnswers` and the refinement.
3. Done: proofs of the safety properties of `Pipeline`, `Payload`,
   `BatchProcessing` (with the refinement of `BatchAnswers`), `Launch` and `Accounting`.
4. Done: `Delivery`, checked and proved to be implemented by `Pipeline`.
5. That the batcher of one attempt of `Pipeline`, with its validator shared by the
   others, implements `BatchService` where attempts do not overlap.
6. That the processor of one attempt of `Pipeline` takes and hands over batches as
   `BatchAnswers` does.
