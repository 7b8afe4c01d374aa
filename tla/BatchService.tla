--------------------------- MODULE BatchService ---------------------------
(***************************************************************************)
(* The batching goroutine of internal/services/batch.go: it reads blocks   *)
(* from the block channel, checks their order, collects them into batches  *)
(* and hands the batches to the processor.  The input is left wide open:   *)
(* any block may arrive next, and the input may be closed or the attempt   *)
(* cancelled at any point.                                                 *)
(*                                                                         *)
(* The runner starts one such goroutine per attempt; here one at a time,   *)
(* Pipeline has the attempts that overlap.  The order validator and the    *)
(* batch size belong to the process and outlive the attempt.               *)
(***************************************************************************)
EXTENDS BlockOrder

CONSTANTS
  MaxBatchSize,  \* stream.MaxBatchSize as the state manager sent it
  MaxBlocks,     \* bound: blocks accepted per attempt
  MaxAttempts    \* PIPELINE_RETRY_MAX_ATTEMPTS

ASSUME BatchServiceAssumption ==
  /\ MaxBatchSize \in Nat \ {0}
  /\ MaxBlocks \in Nat
  /\ MaxAttempts \in Nat \ {0}

VARIABLES
  reorgAction,  \* fixed when the validator is made, at start-up
  lastBlock,    \* the validator's lastBlockNumber and lastBlockDirection
  batchSize,    \* streamConfig.BatchSize(), lowered by UpdateBatchSize(1)
  attempt,
  pc,           \* where the goroutine is
  block,        \* the block it holds: accepted, not (yet) in the batch
  batch,        \* the batch it is collecting
  output,       \* outputChannel: capacity 1
  err,          \* what it reports, or has reported, in this attempt
  accepted,     \* history: the blocks accepted in this attempt, in order
  released      \* history: the blocks put into outputChannel, in order

vars == <<reorgAction, lastBlock, batchSize, attempt, pc, block, batch,
          output, err, accepted, released>>

PC == {"select", "emit", "report", "flush", "closed"}

TypeOK ==
  /\ reorgAction \in ReorgAction
  /\ lastBlock \in Last
  /\ batchSize \in 1 .. MaxBatchSize
  /\ attempt \in 1 .. MaxAttempts
  /\ pc \in PC
  /\ block \in Block \cup {NoBlock}
  /\ batch \in Seq(Block)
  /\ output \in Seq(Seq(Block))
  /\ err \in {"none", "order", "push"}
  /\ accepted \in Seq(Block)
  /\ released \in Seq(Block)

Init ==
  /\ reorgAction \in ReorgAction
  /\ lastBlock = NoBlock
  /\ batchSize = MaxBatchSize
  /\ attempt = 1
  /\ pc = "select"
  /\ block = NoBlock
  /\ batch = << >>
  /\ output = << >>
  /\ err = "none"
  /\ accepted = << >>
  /\ released = << >>

-----------------------------------------------------------------------------

\* The branch of the loop after the push (release the batch if the block runs
\* against it) is left out: PushBlock has already refused such a block, see
\* NoReleaseAfterPush in BatchServiceProofs.
Push(b, into) ==
  IF CanPush(into, b)
    THEN /\ batch' = Append(into, b)
         /\ pc' = "select"
         /\ block' = NoBlock
         /\ err' = err
    ELSE /\ batch' = into
         /\ pc' = "report"
         /\ block' = b
         /\ err' = "push"

\* case block, ok = <-inputChannel, the block accepted by the validator.
Accept(b) ==
  /\ pc = "select"
  /\ Len(accepted) < MaxBlocks
  /\ Accepts(reorgAction, lastBlock, b)
  /\ lastBlock' = setLastBlock(b)
  /\ batchSize' = ElasticBatchSize(b, batchSize)
  /\ accepted' = Append(accepted, b)
  /\ IF shouldReleaseBatchAfterBlock(batch, batchSize')
       THEN pc' = "emit" /\ block' = b /\ UNCHANGED <<batch, err>>
       ELSE Push(b, batch)
  /\ UNCHANGED <<reorgAction, attempt, output, released>>

\* case block, ok = <-inputChannel, the block refused by the validator.
Refuse(b) ==
  /\ pc = "select"
  /\ ~ Accepts(reorgAction, lastBlock, b)
  /\ pc' = "report"
  /\ err' = "order"
  /\ UNCHANGED <<reorgAction, lastBlock, batchSize, attempt, block, batch,
                 output, accepted, released>>

\* Mutant: the block that found the batch full is forgotten.
EmitOnly ==
  /\ pc = "emit"
  /\ output = << >>
  /\ output' = <<batch>>
  /\ released' = released \o batch
  /\ batch' = << >>
  /\ block' = NoBlock
  /\ pc' = "select"
  /\ UNCHANGED <<reorgAction, lastBlock, batchSize, attempt, err, accepted>>

\* outputChannel <- batch, then the push of the block that found it full.
Emit ==
  /\ pc = "emit"
  /\ output = << >>
  /\ output' = <<batch>>
  /\ released' = released \o batch
  /\ Push(block, << >>)
  /\ UNCHANGED <<reorgAction, lastBlock, batchSize, attempt, accepted>>

\* errorChannel <- err
Report ==
  /\ pc = "report"
  /\ pc' = "flush"
  /\ UNCHANGED <<reorgAction, lastBlock, batchSize, attempt, block, batch,
                 output, err, accepted, released>>

\* The input channel is closed, or ctx is done.
Leave ==
  /\ pc = "select"
  /\ pc' = "flush"
  /\ UNCHANGED <<reorgAction, lastBlock, batchSize, attempt, block, batch,
                 output, err, accepted, released>>

\* The deferred functions: hand over what was collected, close the channel.
Flush ==
  /\ pc = "flush"
  /\ IF HasBlocks(batch)
       THEN /\ output = << >>
            /\ output' = <<batch>>
            /\ released' = released \o batch
            /\ batch' = << >>
       ELSE UNCHANGED <<output, released, batch>>
  /\ pc' = "closed"
  /\ UNCHANGED <<reorgAction, lastBlock, batchSize, attempt, block, err, accepted>>

\* The processor takes the batch.
Consume ==
  /\ output # << >>
  /\ output' = << >>
  /\ UNCHANGED <<reorgAction, lastBlock, batchSize, attempt, pc, block, batch,
                 err, accepted, released>>

\* The runner retries: Channel is called again, on the same validator and the
\* same stream config.
NewAttempt ==
  /\ pc = "closed"
  /\ attempt < MaxAttempts
  /\ attempt' = attempt + 1
  /\ pc' = "select"
  /\ block' = NoBlock
  /\ batch' = << >>
  /\ output' = << >>
  /\ err' = "none"
  /\ accepted' = << >>
  /\ released' = << >>
  /\ UNCHANGED <<reorgAction, lastBlock, batchSize>>

Next ==
  \/ \E b \in Block : Accept(b) \/ Refuse(b)
  \/ Emit
  \/ Report
  \/ Leave
  \/ Flush
  \/ Consume
  \/ NewAttempt

Spec == Init /\ [][Next]_vars

-----------------------------------------------------------------------------
(***************************************************************************)
(* Properties.                                                             *)
(***************************************************************************)

Held == IF block = NoBlock THEN << >> ELSE <<block>>

\* Every block that passed the order check is, in order and exactly once, in a
\* released batch, in the batch being collected, or in the goroutine's hand; and
\* a block is left behind in a hand that has let go of the channel only after a
\* refused push, which has been reported.  (The validator already counts the block
\* as seen, so one that slipped out of this would never be asked for again.)
NothingLostInBatching ==
  /\ accepted = (released \o batch) \o Held
  /\ (pc \in {"report", "flush", "closed"} /\ block # NoBlock) <=> err = "push"

\* Batches hold blocks of one direction, also when a reorg starts in the middle
\* of a batch, and whoever reads outputChannel never gets an empty batch
\* (Batch.String panics on one).
OneDirection(b) == \A i \in 1 .. Len(b) : b[i].direction = b[1].direction

BatchesAreUniform ==
  /\ OneDirection(batch)
  /\ \A i \in 1 .. Len(output) : output[i] # << >> /\ OneDirection(output[i])

\* No batch outgrows the stream's maximum, also when the head of the chain
\* lowers the batch size under a batch half collected; and between two blocks
\* the batch respects the lowered size.
BatchSizeRespected ==
  /\ Len(batch) <= MaxBatchSize
  /\ pc # "emit" => Len(batch) <= batchSize
  /\ \A i \in 1 .. Len(output) : Len(output[i]) <= MaxBatchSize

(***************************************************************************)
(* The refinement: the validator's two fields stand for the tip of the     *)
(* chain the accepted blocks describe.                                     *)
(***************************************************************************)
TipOf(last) ==
  IF last = NoBlock THEN -1
  ELSE IF last.direction = "FORWARD" THEN last.number
  ELSE Pred(last.number)

Chain == INSTANCE ChainTip WITH event <- lastBlock, tip <- TipOf(lastBlock)

\* Through all attempts, whatever the server sends, the blocks let through the
\* check move the tip of one chain as the reorg action allows.
TipFollowsChain == Chain!ChainSpec
=============================================================================
