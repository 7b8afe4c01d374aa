----------------------------- MODULE Pipeline -----------------------------
(***************************************************************************)
(* The sink's pipeline: the runner (services/runner.go) and, per attempt,  *)
(* the four goroutines it starts, which hand blocks on to each other:      *)
(*                                                                         *)
(*   reader --blockCh--> batcher --batchCh--> processor --procCh--> sender *)
(*                                                                         *)
(* The reader is services/block_stream.go, the batcher services/batch.go,  *)
(* the processor services/batch_processor.go and the sender                *)
(* services/batch_sender.go with services/stream_cursor.go.  All of them   *)
(* report on one errorChannel, and the sender of every attempt on one      *)
(* doneChannel; the runner listens to both.  Around them are the block     *)
(* stream server, the destination and the state manager, which the sink    *)
(* reaches over a network that fails.                                      *)
(*                                                                         *)
(* The server's answer is a script: stream.blocks, what it sends to a sink *)
(* that starts from nothing.  A cursor is a position in the script, 0 the  *)
(* empty cursor, and the server resumes after it.  A batch is the sequence *)
(* of the positions of its blocks.                                         *)
(***************************************************************************)
EXTENDS BlockOrder

CONSTANTS
  Streams,      \* the streams to choose from, see StreamAssumption
  MaxAttempts,  \* PIPELINE_RETRY_MAX_ATTEMPTS
  FaultKinds,   \* what may go wrong: a subset of AnyFault
  MaxFaults,    \* bound: how often anything goes wrong
  MaxRestarts   \* bound: how often the process is killed and started again

Status == {"starting", "running", "paused", "finished"}

AnyFault == {"connect", "recv", "eof", "process", "send", "commit", "mark",
             "intervene"}

ASSUME StreamAssumption ==
  \A s \in Streams :
    /\ s.blocks \in Seq(Block)
    /\ s.reorgAction \in ReorgAction
    /\ s.toBlock \in {-1} \cup 0 .. MaxNumber   \* -1: no last block
    /\ s.maxBatchSize \in Nat \ {0}
    /\ s.retryAttempts \in Nat
    /\ s.status \in Status                      \* when the sink is launched

ASSUME BoundsAssumption ==
  /\ MaxAttempts \in Nat \ {0}
  /\ FaultKinds \subseteq AnyFault
  /\ MaxFaults \in Nat
  /\ MaxRestarts \in Nat

Attempts == 1 .. MaxAttempts

VARIABLES
  stream,          \* the stream this sink is launched for, never changes
  runner,          \* pc, attempt, the error it is about to report, outcome
  cancelled,       \* [Attempts -> BOOLEAN]: childCtx is done
  errorChannel,    \* capacity 1
  doneChannel,     \* capacity 1
  reader,          \* [Attempts -> pc, next, size]
  blockCh,         \* [Attempts -> Seq(position)]
  batcher,         \* [Attempts -> pc, block, batch, err]
  batchCh,         \* [Attempts -> Seq(batch)], capacity 1
  processor,       \* [Attempts -> pc, batch]
  procCh,          \* [Attempts -> Seq(batch)], capacity 1
  sender,          \* [Attempts -> pc, batch, tries, status, err]
  lastBlock,       \* BlockOrderValidator: one for the life of the process
  batchSize,       \* stream.MaxBatchSize, lowered at the head of the chain
  cursor,          \* streamCursorService.state: status and position
  previousStatus,  \* batchSenderService.previousStatus
  manager,         \* the state manager's status and position (external)
  patches,         \* cursor updates under way to it, abandoned by their sender
  delivered,       \* positions that reached the destination (external)
  abandoned,       \* history: positions of batches that ran out of send attempts
  faults,          \* how much has gone wrong
  restarts

results == <<errorChannel, doneChannel>>
workers == <<batcher, processor, sender>>
stateVars == <<cursor, previousStatus>>
processVars == <<lastBlock, batchSize, stateVars>>
externalVars == <<manager, patches, delivered, abandoned>>
vars == <<stream, runner, cancelled, results, reader, blockCh, batchCh, procCh, workers,
          processVars, externalVars, faults, restarts>>

-----------------------------------------------------------------------------

Length == Len(stream.blocks)

Position == 0 .. Length

Positions(batch) == {batch[i] : i \in 1 .. Len(batch)}

LastOf(batch) == batch[Len(batch)]

BlocksOf(batch) == [i \in 1 .. Len(batch) |-> stream.blocks[batch[i]]]

\* Mutant: the end is taken for reached one block early.
ReachedEndEarly(p) ==
  stream.toBlock # -1 /\ p # 0 /\ stream.toBlock <= stream.blocks[p].number + 1

\* StreamCursorService.ReachedEnd with the cursor at position p.
ReachedEnd(p) ==
  stream.toBlock # -1 /\ p # 0 /\ stream.toBlock <= stream.blocks[p].number

isRunning == cursor.status = "running"

isStarting == cursor.status = "starting"

\* errors.StreamTerminationError, found by a type assertion: sendWithRetry returns
\* one too, but process wraps it with %v, so "exhausted" is not among them.
isNotRetryableError(kind) == kind = "termination"

\* Something goes wrong outside the sink.
Fault(kind) ==
  kind \in FaultKinds /\ faults < MaxFaults /\ faults' = faults + 1

\* A call that takes ctx returns an error: it has to when ctx is done, and may
\* always.
CallFails(a, kind) == IF cancelled[a] THEN UNCHANGED faults ELSE Fault(kind)

\* errorChannel <- err blocks as long as an earlier error is in the channel.
SendError(kind) == errorChannel = << >> /\ errorChannel' = <<kind>>

IdleReader == [pc |-> "idle", next |-> 1, size |-> 0]
IdleBatcher == [pc |-> "idle", block |-> 0, batch |-> << >>, err |-> "none"]
IdleProcessor == [pc |-> "idle", batch |-> << >>]
IdleSender == [pc |-> "idle", batch |-> << >>, tries |-> 0, status |-> "running",
               err |-> "none"]

IdleRunner == [pc |-> "start", attempt |-> 1, err |-> "none", outcome |-> "none"]

\* The same for every attempt.
All(value) == [a \in Attempts |-> value]

Init ==
  /\ stream \in Streams
  /\ manager = [status |-> stream.status, position |-> 0]
  /\ patches = {}
  /\ delivered = {}
  /\ abandoned = {}
  /\ faults = 0
  /\ restarts = 0
  /\ runner = IdleRunner
  /\ cancelled = All(FALSE)
  /\ errorChannel = << >> /\ doneChannel = << >>
  /\ reader = All(IdleReader) /\ blockCh = All(<< >>)
  /\ batcher = All(IdleBatcher) /\ batchCh = All(<< >>)
  /\ processor = All(IdleProcessor) /\ procCh = All(<< >>)
  /\ sender = All(IdleSender)
  /\ lastBlock = NoBlock
  /\ batchSize = stream.maxBatchSize
  /\ cursor = manager
  /\ previousStatus = manager.status

-----------------------------------------------------------------------------
(***************************************************************************)
(* The runner: startStream, and the select of runPipeline.                 *)
(***************************************************************************)

\* Mutant: the attempt is left running.
KeepRunning == UNCHANGED cancelled

\* childCtxCancel
childCtxCancel == cancelled' = [cancelled EXCEPT ![runner.attempt] = TRUE]

\* Mutant: there is always one more attempt.
EndlessAttempts == TRUE

AttemptsLeft == runner.attempt < MaxAttempts

\* Mutant: the request skips a block.
FromAfterNext == cursor.position + 2

\* BlocksRequest.From: the server resumes behind the cursor.
From == cursor.position + 1

\* GetBlockRequest returns a request.
MayRequest == ~ ReachedEnd(cursor.position) /\ (isRunning \/ isStarting)

\* The goroutines behind the block channel start whether or not there is one.
StartWorkers(a) ==
  /\ batcher' = [batcher EXCEPT ![a].pc = "select"]
  /\ processor' = [processor EXCEPT ![a].pc = "select"]
  /\ sender' = [sender EXCEPT ![a].pc = "select"]

\* GetBlockRequest returns an error; startStream goes on to report it.
RequestRefused ==
  /\ runner.pc = "start"
  /\ ~ MayRequest
  /\ runner' = [runner EXCEPT !.pc = "report", !.err = "termination"]
  /\ UNCHANGED <<cancelled, results, reader, workers, faults>>

StreamStarted ==
  /\ runner.pc = "start"
  /\ MayRequest
  /\ runner' = [runner EXCEPT !.pc = "wait"]
  /\ reader' = [reader EXCEPT ![runner.attempt] =
                  [pc |-> "recv", next |-> From, size |-> batchSize]]
  /\ StartWorkers(runner.attempt)
  /\ UNCHANGED <<cancelled, results, faults>>

\* createConnection or client.Blocks fails: the runner itself has to report it.
ConnectFails ==
  /\ runner.pc = "start"
  /\ MayRequest
  /\ Fault("connect")
  /\ runner' = [runner EXCEPT !.pc = "report", !.err = "connect"]
  /\ UNCHANGED <<cancelled, results, reader, workers>>

\* errorChannel <- err on the runner's own goroutine, the only one that ever
\* takes from the channel.  After a refused request the attempt is over;
\* without a connection its other goroutines start with a nil block channel.
RunnerReports ==
  /\ runner.pc = "report"
  /\ SendError(runner.err)
  /\ runner' = [runner EXCEPT !.pc = "wait", !.err = "none"]
  /\ IF runner.err = "termination"
       THEN childCtxCancel /\ UNCHANGED workers
       ELSE StartWorkers(runner.attempt) /\ UNCHANGED cancelled
  /\ UNCHANGED <<doneChannel, reader, faults>>

\* case <-doneChannel
Succeed ==
  /\ runner.pc = "wait"
  /\ doneChannel # << >>
  /\ doneChannel' = << >>
  /\ runner' = [runner EXCEPT !.pc = "shutdown", !.outcome = "success"]
  /\ childCtxCancel
  /\ UNCHANGED <<errorChannel, reader, workers, faults>>

\* case err = <-errorChannel, and no further attempt.
GiveUp ==
  /\ runner.pc = "wait"
  /\ errorChannel # << >>
  /\ ~ AttemptsLeft \/ isNotRetryableError(errorChannel[1])
  /\ errorChannel' = << >>
  /\ runner' = [runner EXCEPT !.pc = "shutdown", !.outcome = "failure"]
  /\ childCtxCancel
  /\ UNCHANGED <<doneChannel, reader, workers, faults>>

\* case err = <-errorChannel, and then the sleep before the next attempt, during
\* which the attempt that failed is still running.
BackOff ==
  /\ runner.pc = "wait"
  /\ errorChannel # << >>
  /\ AttemptsLeft /\ ~ isNotRetryableError(errorChannel[1])
  /\ errorChannel' = << >>
  /\ runner' = [runner EXCEPT !.pc = "backoff"]
  /\ UNCHANGED <<cancelled, doneChannel, reader, workers, faults>>

\* The sleep is over: cancel the attempt, go round the loop.
Retry ==
  /\ runner.pc = "backoff"
  /\ childCtxCancel
  /\ runner' = [runner EXCEPT !.pc = "start", !.attempt = @ + 1]
  /\ UNCHANGED <<results, reader, workers, faults>>

\* shutdown: five more seconds, then fx ends the process and its goroutines.
Exit ==
  /\ runner.pc = "shutdown"
  /\ runner' = [runner EXCEPT !.pc = "down"]
  /\ UNCHANGED <<cancelled, results, reader, workers, faults>>

\* The case of pipelineCtx.Done is left out: pipelineCtx is cancelled only when
\* runPipeline returns.
RunnerStep ==
  /\ \/ RequestRefused \/ StreamStarted \/ ConnectFails \/ RunnerReports
     \/ Succeed \/ GiveUp \/ BackOff \/ Retry \/ Exit
  /\ UNCHANGED <<stream, blockCh, batchCh, procCh, processVars, externalVars, restarts>>

-----------------------------------------------------------------------------
(***************************************************************************)
(* The reader of attempt a.  A reader stuck in blockCh <- block does not   *)
(* look at ctx: the block in its hand is kept at the end of blockCh, which *)
(* has room for one more than its size.                                    *)
(***************************************************************************)

ReaderReady(a) == reader[a].pc = "recv" /\ Len(blockCh[a]) <= reader[a].size

\* ctx is looked at between stream.Recv and the send.
ReaderReceives(a) ==
  /\ ReaderReady(a)
  /\ ~ cancelled[a]
  /\ reader[a].next <= Length
  /\ blockCh' = [blockCh EXCEPT ![a] = Append(@, reader[a].next)]
  /\ reader' = [reader EXCEPT ![a].next = @ + 1]
  /\ UNCHANGED <<errorChannel, faults>>

\* io.EOF at the last block the stream asks for, or before it, or a cancelled
\* context.
ReaderCloses(a) ==
  /\ ReaderReady(a)
  /\ \/ cancelled[a] /\ UNCHANGED faults
     \/ stream.toBlock # -1 /\ reader[a].next > Length /\ UNCHANGED faults
     \/ Fault("eof")
  /\ reader' = [reader EXCEPT ![a].pc = "closed"]
  /\ UNCHANGED <<errorChannel, blockCh>>

ReaderFails(a) ==
  /\ ReaderReady(a)
  /\ ~ cancelled[a]
  /\ Fault("recv")
  /\ reader' = [reader EXCEPT ![a].pc = "report"]
  /\ UNCHANGED <<errorChannel, blockCh>>

ReaderReports(a) ==
  /\ reader[a].pc = "report"
  /\ SendError("recv")
  /\ reader' = [reader EXCEPT ![a].pc = "closed"]
  /\ UNCHANGED <<blockCh, faults>>

ReaderStep(a) ==
  /\ ReaderReceives(a) \/ ReaderCloses(a) \/ ReaderFails(a) \/ ReaderReports(a)
  /\ UNCHANGED <<stream, runner, cancelled, doneChannel, batchCh, procCh, workers,
                 processVars, externalVars, restarts>>

-----------------------------------------------------------------------------
(***************************************************************************)
(* The batcher of attempt a.  Validate looks at lastBlock and sets it; the *)
(* batcher of a cancelled attempt can come in between.                     *)
(***************************************************************************)

\* case block, ok = <-inputChannel, up to the verdict of Validate: what it sets is
\* still to come.
BatcherReceives(a) ==
  /\ batcher[a].pc = "select"
  /\ blockCh[a] # << >>
  /\ blockCh' = [blockCh EXCEPT ![a] = Tail(@)]
  /\ batcher' =
       IF Accepts(stream.reorgAction, lastBlock, stream.blocks[Head(blockCh[a])])
         THEN [batcher EXCEPT ![a].pc = "accept", ![a].block = Head(blockCh[a])]
         ELSE [batcher EXCEPT ![a].pc = "report", ![a].err = "order"]
  /\ UNCHANGED <<errorChannel, batchCh, lastBlock, batchSize>>

\* Mutant: the block that found the batch full is not pushed into the next one.
PushNothing(a, p, batch) ==
  batcher' = [batcher EXCEPT ![a] = [IdleBatcher EXCEPT !.pc = "select", !.batch = batch]]

\* batch.PushBlock, and back to the select if it succeeds.
PushBlock(a, p, batch) ==
  batcher' = [batcher EXCEPT ![a] =
    IF CanPush(BlocksOf(batch), stream.blocks[p])
      THEN [IdleBatcher EXCEPT !.pc = "select", !.batch = Append(batch, p)]
      ELSE [IdleBatcher EXCEPT !.pc = "report", !.batch = batch, !.err = "push"]]

\* setLastBlock, the elastic batch size, and the release of a full batch or else
\* the push.
BatcherCollects(a) ==
  /\ batcher[a].pc = "accept"
  /\ LET p == batcher[a].block
         b == stream.blocks[p]
     IN /\ lastBlock' = setLastBlock(b)
        /\ batchSize' = ElasticBatchSize(b, batchSize)
        /\ IF shouldReleaseBatchAfterBlock(batcher[a].batch, batchSize')
             THEN batcher' = [batcher EXCEPT ![a].pc = "emit"]
             ELSE PushBlock(a, p, batcher[a].batch)
  /\ UNCHANGED <<errorChannel, blockCh, batchCh>>

\* outputChannel <- batch, and the push into a new one.
BatcherReleases(a) ==
  /\ batcher[a].pc = "emit"
  /\ batchCh[a] = << >>
  /\ batchCh' = [batchCh EXCEPT ![a] = <<batcher[a].batch>>]
  /\ PushBlock(a, batcher[a].block, << >>)
  /\ UNCHANGED <<errorChannel, blockCh, lastBlock, batchSize>>

\* On return: hand over what was collected, if anything, and close.
Deferred(a) == IF HasBlocks(batcher[a].batch) THEN "flush" ELSE "closed"

BatcherReports(a) ==
  /\ batcher[a].pc = "report"
  /\ SendError(batcher[a].err)
  /\ batcher' = [batcher EXCEPT ![a].pc = Deferred(a)]
  /\ UNCHANGED <<blockCh, batchCh, lastBlock, batchSize>>

\* The block channel is closed and empty, or ctx is done.
BatcherLeaves(a) ==
  /\ batcher[a].pc = "select"
  /\ cancelled[a] \/ (reader[a].pc = "closed" /\ blockCh[a] = << >>)
  /\ batcher' = [batcher EXCEPT ![a].pc = Deferred(a)]
  /\ UNCHANGED <<errorChannel, blockCh, batchCh, lastBlock, batchSize>>

BatcherCloses(a) ==
  /\ batcher[a].pc = "flush"
  /\ batchCh[a] = << >>
  /\ batchCh' = [batchCh EXCEPT ![a] = <<batcher[a].batch>>]
  /\ batcher' = [batcher EXCEPT ![a].pc = "closed", ![a].batch = << >>]
  /\ UNCHANGED <<errorChannel, blockCh, lastBlock, batchSize>>

BatcherStep(a) ==
  /\ \/ BatcherReceives(a) \/ BatcherCollects(a) \/ BatcherReleases(a)
     \/ BatcherReports(a) \/ BatcherLeaves(a) \/ BatcherCloses(a)
  /\ UNCHANGED <<stream, runner, cancelled, doneChannel, reader, procCh, processor, sender,
                 stateVars, externalVars, faults, restarts>>

-----------------------------------------------------------------------------
(***************************************************************************)
(* The processor of attempt a.  What it makes of a batch (download, block  *)
(* function, serialisation) leaves the blocks of the batch as they are.    *)
(***************************************************************************)

ProcessorTakes(a) ==
  /\ processor[a].pc = "select"
  /\ batchCh[a] # << >>
  /\ batchCh' = [batchCh EXCEPT ![a] = << >>]
  /\ processor' = [processor EXCEPT ![a] = [pc |-> "process", batch |-> batchCh[a][1]]]
  /\ UNCHANGED <<errorChannel, procCh, faults>>

\* process, and the hand-over of its result.
ProcessorHandsOver(a) ==
  /\ processor[a].pc = "process"
  /\ procCh[a] = << >>
  /\ procCh' = [procCh EXCEPT ![a] = <<processor[a].batch>>]
  /\ processor' = [processor EXCEPT ![a] = [pc |-> "select", batch |-> << >>]]
  /\ UNCHANGED <<errorChannel, batchCh, faults>>

\* A download, the block function or a compressor fails.
ProcessorFails(a) ==
  /\ processor[a].pc = "process"
  /\ CallFails(a, "process")
  /\ processor' = [processor EXCEPT ![a] = [pc |-> "report", batch |-> << >>]]
  /\ UNCHANGED <<errorChannel, batchCh, procCh>>

ProcessorReports(a) ==
  /\ processor[a].pc = "report"
  /\ SendError("process")
  /\ processor' = [processor EXCEPT ![a].pc = "closed"]
  /\ UNCHANGED <<batchCh, procCh, faults>>

ProcessorLeaves(a) ==
  /\ processor[a].pc = "select"
  /\ cancelled[a] \/ (batcher[a].pc = "closed" /\ batchCh[a] = << >>)
  /\ processor' = [processor EXCEPT ![a].pc = "closed"]
  /\ UNCHANGED <<errorChannel, batchCh, procCh, faults>>

ProcessorStep(a) ==
  /\ \/ ProcessorTakes(a) \/ ProcessorHandsOver(a) \/ ProcessorFails(a)
     \/ ProcessorReports(a) \/ ProcessorLeaves(a)
  /\ UNCHANGED <<stream, runner, cancelled, doneChannel, reader, blockCh, batcher, sender,
                 processVars, externalVars, restarts>>

-----------------------------------------------------------------------------
(***************************************************************************)
(* The sender of attempt a: ProcessChannel and process, with Commit of the *)
(* cursor service.                                                         *)
(***************************************************************************)

\* The sender back at its select, whatever it did before.
SenderLoops(a) == sender' = [sender EXCEPT ![a] = [IdleSender EXCEPT !.pc = "select"]]

SenderReportsNext(a, kind) ==
  sender' = [sender EXCEPT ![a].pc = "report", ![a].err = kind]

SenderTakes(a) ==
  /\ sender[a].pc = "select"
  /\ procCh[a] # << >>
  /\ procCh' = [procCh EXCEPT ![a] = << >>]
  /\ sender' = [sender EXCEPT ![a].pc = "send", ![a].batch = procCh[a][1]]
  /\ UNCHANGED results

\* Mutant: one send attempt too few.
TriesLeftButOne(a) == sender[a].tries < stream.retryAttempts - 1

TriesLeft(a) == sender[a].tries < stream.retryAttempts

\* destination.Send returns nil.
SendSucceeds(a) ==
  /\ sender[a].pc = "send"
  /\ TriesLeft(a)
  /\ ~ cancelled[a]
  /\ delivered' = delivered \cup Positions(sender[a].batch)
  /\ sender' = [sender EXCEPT ![a].pc = "commit"]
  /\ UNCHANGED <<abandoned, faults>>

\* destination.Send returns an error; the request may have arrived all the same.
SendFails(a) ==
  /\ sender[a].pc = "send"
  /\ TriesLeft(a)
  /\ CallFails(a, "send")
  /\ delivered' \in {delivered, delivered \cup Positions(sender[a].batch)}
  /\ sender' = [sender EXCEPT ![a].tries = @ + 1]
  /\ UNCHANGED abandoned

\* "max %d send attempts reached"
SendExhausted(a) ==
  /\ sender[a].pc = "send"
  /\ ~ TriesLeft(a)
  /\ abandoned' = abandoned \cup Positions(sender[a].batch)
  /\ SenderReportsNext(a, "exhausted")
  /\ UNCHANGED <<delivered, faults>>

\* Mutant: UpdateCursor is sent the cursor of the block after the batch.
CommitOneAhead(batch) == LastOf(batch) + 1

\* The cursor that UpdateCursor is sent, and Commit stores: that of the last block.
CommitPosition(batch) == LastOf(batch)

\* UpdateCursor returns the status.
CommitSucceeds(a) ==
  /\ sender[a].pc = "commit"
  /\ ~ cancelled[a]
  /\ manager' = [manager EXCEPT !.position = CommitPosition(sender[a].batch)]
  /\ sender' = [sender EXCEPT ![a].pc = "store", ![a].status = manager.status]
  /\ UNCHANGED <<stateVars, patches, faults>>

\* Mutant: an update that failed is taken for made.
CommitTakenForMade(a) ==
  /\ sender[a].pc = "commit"
  /\ CallFails(a, "commit")
  /\ sender' = [sender EXCEPT ![a].pc = "store", ![a].status = cursor.status]
  /\ UNCHANGED <<manager, stateVars, patches>>

\* UpdateCursor returns an error: the update was lost, was made, or will be.
CommitFails(a) ==
  /\ sender[a].pc = "commit"
  /\ CallFails(a, "commit")
  /\ LET p == CommitPosition(sender[a].batch) IN
       \/ UNCHANGED <<manager, patches>>
       \/ manager' = [manager EXCEPT !.position = p] /\ UNCHANGED patches
       \/ patches' = patches \cup {p} /\ UNCHANGED manager
  /\ SenderReportsNext(a, "commit")
  /\ UNCHANGED stateVars

\* Mutant: a commit that says the stream is finished changes nothing.
StopsOnPause(status) == status \in {"starting", "paused"}

\* The statuses after which process does not get to look at the end of the stream.
Stops(status) == status # "running"

\* Commit stores the new state.
SenderStores(a) ==
  /\ sender[a].pc = "store"
  /\ cursor' = [status |-> sender[a].status, position |-> CommitPosition(sender[a].batch)]
  /\ sender' = [sender EXCEPT ![a].pc = "react"]
  /\ UNCHANGED <<previousStatus, manager, patches, faults>>

\* process goes on from the status that Commit returned; whether the end is reached
\* it asks the cursor, where another sender may have stored meanwhile.
SenderReacts(a) ==
  /\ sender[a].pc = "react"
  /\ LET status == sender[a].status
         stopping == previousStatus = "running" /\ status \in {"paused", "finished"}
     IN /\ previousStatus' = IF stopping THEN status ELSE previousStatus
        /\ IF status = "starting" THEN sender' = [sender EXCEPT ![a].pc = "mark"]
           ELSE IF Stops(status) THEN SenderReportsNext(a, "termination")
           ELSE IF ReachedEnd(cursor.position) THEN sender' = [sender EXCEPT ![a].pc = "done"]
           ELSE SenderLoops(a)
  /\ UNCHANGED <<cursor, manager, patches, faults>>

\* MarkAsRunning, which ends process without a look at the end of the stream.
MarkSucceeds(a) ==
  /\ sender[a].pc = "mark"
  /\ ~ cancelled[a]
  /\ manager' = [manager EXCEPT !.status = "running"]
  /\ previousStatus' = "running"
  /\ SenderLoops(a)
  /\ UNCHANGED <<cursor, patches, faults>>

MarkFails(a) ==
  /\ sender[a].pc = "mark"
  /\ CallFails(a, "mark")
  /\ manager' \in {manager, [manager EXCEPT !.status = "running"]}
  /\ SenderReportsNext(a, "mark")
  /\ UNCHANGED <<stateVars, patches>>

\* doneChannel <- struct{}{}
SenderDone(a) ==
  /\ sender[a].pc = "done"
  /\ doneChannel = << >>
  /\ doneChannel' = <<"done">>
  /\ SenderLoops(a)
  /\ UNCHANGED <<errorChannel, procCh>>

\* errorChannel <- err; process returns, and the loop takes the next batch.
SenderReports(a) ==
  /\ sender[a].pc = "report"
  /\ SendError(sender[a].err)
  /\ SenderLoops(a)
  /\ UNCHANGED <<doneChannel, procCh>>

SenderLeaves(a) ==
  /\ sender[a].pc = "select"
  /\ cancelled[a] \/ (processor[a].pc = "closed" /\ procCh[a] = << >>)
  /\ sender' = [sender EXCEPT ![a].pc = "closed"]
  /\ UNCHANGED <<results, procCh>>

SenderStep(a) ==
  /\ \/ /\ SenderTakes(a) \/ SenderDone(a) \/ SenderReports(a) \/ SenderLeaves(a)
        /\ UNCHANGED <<stateVars, externalVars, faults>>
     \/ /\ SendSucceeds(a) \/ SendFails(a) \/ SendExhausted(a)
        /\ UNCHANGED <<results, procCh, stateVars, manager, patches>>
     \/ /\ \/ CommitSucceeds(a) \/ CommitFails(a) \/ SenderStores(a)
           \/ SenderReacts(a) \/ MarkSucceeds(a) \/ MarkFails(a)
        /\ UNCHANGED <<results, procCh, delivered, abandoned>>
  /\ UNCHANGED <<stream, runner, cancelled, reader, blockCh, batcher, batchCh, processor,
                 lastBlock, batchSize, restarts>>

-----------------------------------------------------------------------------
(***************************************************************************)
(* The world around the process.                                           *)
(***************************************************************************)

sinkVars == <<runner, cancelled, results, reader, blockCh, batchCh, procCh, workers,
              processVars>>

\* A cursor update the sink has given up on reaches the state manager after all.
LatePatch ==
  /\ \E p \in patches :
       /\ manager' = [manager EXCEPT !.position = p]
       /\ patches' = patches \ {p}
  /\ UNCHANGED <<stream, sinkVars, delivered, abandoned, faults, restarts>>

\* Somebody pauses the stream, or ends it.
Intervene ==
  /\ runner.pc # "down"
  /\ manager.status \in {"starting", "running"}
  /\ Fault("intervene")
  /\ \E status \in {"paused", "finished"} : manager' = [manager EXCEPT !.status = status]
  /\ UNCHANGED <<stream, sinkVars, patches, delivered, abandoned, restarts>>

Senders(at) == {a \in Attempts : sender[a].pc = at}

\* The process is killed, or has ended, and is launched again; a paused stream
\* is resumed first.  Requests under way may still arrive.  Everything but the
\* outside world starts afresh.
Restart ==
  /\ restarts < MaxRestarts
  /\ restarts' = restarts + 1
  /\ manager' = [manager EXCEPT !.status = IF @ = "paused" THEN "starting" ELSE @]
  /\ runner' = IdleRunner
  /\ cancelled' = All(FALSE)
  /\ errorChannel' = << >> /\ doneChannel' = << >>
  /\ reader' = All(IdleReader) /\ blockCh' = All(<< >>)
  /\ batcher' = All(IdleBatcher) /\ batchCh' = All(<< >>)
  /\ processor' = All(IdleProcessor) /\ procCh' = All(<< >>)
  /\ sender' = All(IdleSender)
  /\ lastBlock' = NoBlock
  /\ batchSize' = stream.maxBatchSize
  /\ cursor' = manager'
  /\ previousStatus' = manager'.status
  /\ \E arriving \in SUBSET Senders("commit") :
       patches' = patches \cup {CommitPosition(sender[a].batch) : a \in arriving}
  /\ \E arriving \in SUBSET Senders("send") :
       delivered' = delivered \cup UNION {Positions(sender[a].batch) : a \in arriving}
  /\ UNCHANGED <<stream, abandoned, faults>>

GoroutineStep(a) ==
  ReaderStep(a) \/ BatcherStep(a) \/ ProcessorStep(a) \/ SenderStep(a)

Next ==
  \/ runner.pc # "down" /\ (RunnerStep \/ \E a \in Attempts : GoroutineStep(a))
  \/ LatePatch
  \/ Intervene
  \/ Restart

Spec == Init /\ [][Next]_vars

\* Every goroutine that can go on is scheduled at last.  Nothing is assumed of
\* the world: no fault has to happen, no restart has to come.
Fairness ==
  /\ WF_vars(runner.pc # "down" /\ RunnerStep)
  /\ \A a \in Attempts :
       /\ WF_vars(runner.pc # "down" /\ ReaderStep(a))
       /\ WF_vars(runner.pc # "down" /\ BatcherStep(a))
       /\ WF_vars(runner.pc # "down" /\ ProcessorStep(a))
       /\ WF_vars(runner.pc # "down" /\ SenderStep(a))

FairSpec == Spec /\ Fairness
=============================================================================
