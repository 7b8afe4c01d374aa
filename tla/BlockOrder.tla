---------------------------- MODULE BlockOrder ----------------------------
(***************************************************************************)
(* The block order check of internal/lib/block_order_validator.go and the  *)
(* batch operations of internal/types/batch.go and                         *)
(* internal/services/batch.go, as operators on values.  The modules that   *)
(* run these operators as part of a state machine are BatchService (one    *)
(* batching goroutine, any input) and Pipeline (the whole sink).           *)
(*                                                                         *)
(* A block is what the sink reads of a pb.BlockWrapper: its number, its    *)
(* direction, whether it is the head of the chain, and whether NewBlock    *)
(* (types/block.go) can read the byte range out of its URL.                *)
(***************************************************************************)
EXTENDS Integers, Sequences

CONSTANT MaxNumber      \* the largest block number: 2^64 - 1 in the code

ASSUME MaxNumberAssumption == MaxNumber \in Nat

Direction == {"FORWARD", "BACKWARD"}

ReorgAction == {"ROLLBACK_AND_RESEND", "RESEND", "IGNORE"}

Block == [number : 0 .. MaxNumber, direction : Direction,
          isHead : BOOLEAN, malformed : BOOLEAN]

(***************************************************************************)
(* lastBlockNumber and lastBlockDirection are set together and start as    *)
(* nil: NoBlock.  Block numbers are uint64, so + 1 and - 1 wrap.           *)
(***************************************************************************)
NoBlock == [number |-> 0, direction |-> "none"]

Last == {NoBlock} \cup [number : 0 .. MaxNumber, direction : Direction]

Succ(n) == IF n = MaxNumber THEN 0 ELSE n + 1

Pred(n) == IF n = 0 THEN MaxNumber ELSE n - 1

-----------------------------------------------------------------------------
(***************************************************************************)
(* BlockOrderValidator.                                                    *)
(***************************************************************************)

\* Mutant: rolled-back blocks are expected in ascending order.
validateRollbackAscending(last, block) ==
  \/ /\ block.direction = "FORWARD" /\ last.direction = "FORWARD"
     /\ block.number = Succ(last.number)
  \/ /\ block.direction = "BACKWARD" /\ last.direction = "FORWARD"
     /\ block.number = last.number
  \/ /\ block.direction = "FORWARD" /\ last.direction = "BACKWARD"
     /\ block.number = last.number
  \/ /\ block.direction = "BACKWARD" /\ last.direction = "BACKWARD"
     /\ block.number = Succ(last.number)

validateForRollbackAndResendAction(last, block) ==
  \/ /\ block.direction = "FORWARD" /\ last.direction = "FORWARD"
     /\ block.number = Succ(last.number)
  \/ /\ block.direction = "BACKWARD" /\ last.direction = "FORWARD"
     /\ block.number = last.number
  \/ /\ block.direction = "FORWARD" /\ last.direction = "BACKWARD"
     /\ block.number = last.number
  \/ /\ block.direction = "BACKWARD" /\ last.direction = "BACKWARD"
     /\ block.number = Pred(last.number)

validateForIgnoreAction(last, block) ==
  /\ block.direction = "FORWARD" /\ last.direction = "FORWARD"
  /\ block.number = Succ(last.number)

validateForResendAction(last, block) ==
  block.direction = "FORWARD" /\ last.direction = "FORWARD"

validateByReorgAction(action, last, block) ==
  \/ action = "RESEND" /\ validateForResendAction(last, block)
  \/ action = "IGNORE" /\ validateForIgnoreAction(last, block)
  \/ /\ action = "ROLLBACK_AND_RESEND"
     /\ validateForRollbackAndResendAction(last, block)

isFirstBlock(last) == last = NoBlock

\* Validate returns nil.
Accepts(action, last, block) ==
  isFirstBlock(last) \/ validateByReorgAction(action, last, block)

setLastBlock(block) == [number |-> block.number, direction |-> block.direction]

-----------------------------------------------------------------------------
(***************************************************************************)
(* Batch.  A batch is the sequence of the blocks pushed into it; its       *)
(* direction is that of the block pushed first and its cursor that of the  *)
(* block pushed last.                                                      *)
(***************************************************************************)

HasBlocks(batch) == batch # << >>

GetDirection(batch) == batch[1].direction

\* Mutant: the direction is not verified.
anyDirection(batch, block) == TRUE

\* verifyDirection returns nil.
directionMatches(batch, block) ==
  HasBlocks(batch) => GetDirection(batch) = block.direction

\* PushBlock returns nil and appends the block.
CanPush(batch, block) == ~ block.malformed /\ directionMatches(batch, block)

\* Mutant: one block too many.
shouldReleaseBatchLate(batch, batchSize) == Len(batch) > batchSize

shouldReleaseBatchAfterBlock(batch, batchSize) == Len(batch) >= batchSize

shouldReleaseBatchBeforeBlock(block, batch) ==
  HasBlocks(batch) /\ GetDirection(batch) # block.direction

\* Mutant: every head block lowers the batch size, down to nothing.
ShrinkingBatchSize(block, batchSize) ==
  IF block.isHead THEN batchSize - 1 ELSE batchSize

\* The batch size after the elastic scale-down on a head block (ElasticBatchEnabled
\* is always true).
ElasticBatchSize(block, batchSize) ==
  IF block.isHead /\ batchSize > 1 THEN 1 ELSE batchSize
=============================================================================
