------------------------ MODULE BatchServiceProofs ------------------------
(***************************************************************************)
(* Proofs about BatchService, for every batch size, every number of        *)
(* attempts and every range of block numbers: the type invariant, the      *)
(* safety invariants and the implementation of ChainTip.                   *)
(***************************************************************************)
EXTENDS BatchService, SequenceTheorems, TLAPS

-----------------------------------------------------------------------------
(***************************************************************************)
(* Lemmas about the operators.                                             *)
(***************************************************************************)

\* Stepping a block number back and forth on the circle of uint64 numbers.
LEMMA NumberSteps ==
  ASSUME NEW n \in 0 .. MaxNumber
  PROVE  /\ Succ(n) \in 0 .. MaxNumber
         /\ Pred(n) \in 0 .. MaxNumber
         /\ Succ(Pred(n)) = n
BY MaxNumberAssumption DEF Succ, Pred

\* The branch of batch.go that would release the batch after the push, left out of
\* the model, is never taken: PushBlock refuses a block that runs against the batch.
LEMMA NoReleaseAfterPush ==
  ASSUME NEW s \in Seq(Block), NEW b \in Block, CanPush(s, b)
  PROVE  ~ shouldReleaseBatchBeforeBlock(b, Append(s, b))
<1>1. Append(s, b)[1].direction = b.direction
  <2>1. CASE s = << >>
    <3>1. Append(s, b)[1] = b
      BY <2>1
    <3> QED BY <3>1
  <2>2. CASE s # << >>
    <3>1. Len(s) \in Nat /\ Len(s) > 0
      BY <2>2
    <3>2. Append(s, b)[1] = s[1]
      BY <3>1
    <3> QED BY <2>2, <3>2 DEF CanPush, directionMatches, HasBlocks, GetDirection
  <2> QED BY <2>1, <2>2
<1> QED BY <1>1 DEF shouldReleaseBatchBeforeBlock, GetDirection

\* A block that may be pushed keeps the batch uniform.
LEMMA PushKeepsDirection ==
  ASSUME NEW s \in Seq(Block), NEW b \in Block, CanPush(s, b), OneDirection(s)
  PROVE  OneDirection(Append(s, b))
<1>1. CASE s = << >>
  BY <1>1 DEF OneDirection
<1>2. CASE s # << >>
  <2>1. Len(s) \in Nat /\ Len(s) > 0 /\ Len(Append(s, b)) = Len(s) + 1
    BY <1>2
  <2>2. \A i \in 1 .. Len(s) : Append(s, b)[i] = s[i]
    OBVIOUS
  <2>3. Append(s, b)[Len(s) + 1] = b
    OBVIOUS
  <2>4. s[1].direction = b.direction
    BY <1>2 DEF CanPush, directionMatches, HasBlocks, GetDirection
  <2>5. Append(s, b)[1].direction = s[1].direction
    BY <2>1, <2>2
  <2>6. ASSUME NEW i \in 1 .. Len(Append(s, b))
        PROVE  Append(s, b)[i].direction = Append(s, b)[1].direction
    <3>1. CASE i = Len(s) + 1
      BY <3>1, <2>3, <2>4, <2>5
    <3>2. CASE i # Len(s) + 1
      <4>1. i \in 1 .. Len(s)
        BY <3>2, <2>1
      <4> QED BY <4>1, <2>2, <2>5 DEF OneDirection
    <3> QED BY <3>1, <3>2
  <2> QED BY <2>6 DEF OneDirection
<1> QED BY <1>1, <1>2

\* The elastic scale-down leaves a batch size between one and what it was.
LEMMA ElasticSizeType ==
  ASSUME NEW b \in Block, NEW n \in 1 .. MaxBatchSize
  PROVE  ElasticBatchSize(b, n) \in 1 .. n
BY BatchServiceAssumption DEF ElasticBatchSize, Block

\* What setLastBlock stores is a pair of a block number and a direction.
LEMMA SetLastBlockType ==
  ASSUME NEW b \in Block
  PROVE  setLastBlock(b) \in Last
BY DEF setLastBlock, Block, Last

-----------------------------------------------------------------------------
(***************************************************************************)
(* The inductive invariant.  What the properties leave open is what the    *)
(* goroutine holds at its select (nothing) and when it releases a batch    *)
(* (a block, and a batch that is not empty).                               *)
(***************************************************************************)

HandOver ==
  /\ pc = "select" => block = NoBlock
  /\ pc = "emit" => block \in Block /\ batch # << >>

Inv ==
  /\ TypeOK
  /\ HandOver
  /\ NothingLostInBatching
  /\ BatchesAreUniform
  /\ BatchSizeRespected

\* Start-up establishes the invariant.
LEMMA InitInv == Init => Inv
BY BatchServiceAssumption
   DEF Init, Inv, TypeOK, HandOver, NothingLostInBatching, BatchesAreUniform,
       BatchSizeRespected, OneDirection, Held, Last, PC

\* A held block is never mistaken for an empty hand.
LEMMA BlockIsNotNoBlock == \A b \in Block : b # NoBlock
BY DEF Block, NoBlock, Direction

\* What a push does to the batch, whichever way it goes.
LEMMA PushEffect ==
  ASSUME TypeOK, err # "push",
         NEW b \in Block, NEW s \in Seq(Block), OneDirection(s), Push(b, s)
  PROVE  /\ pc' \in {"select", "report"}
         /\ block' \in Block \cup {NoBlock}
         /\ err' \in {"none", "order", "push"}
         /\ batch' \in Seq(Block)
         /\ pc' = "select" => block' = NoBlock
         /\ block' # NoBlock <=> err' = "push"
         /\ pc' = "report" => err' = "push"
         /\ OneDirection(batch')
         /\ Len(batch') <= Len(s) + 1
         /\ batch' \o Held' = s \o <<b>>
<1>1. CASE CanPush(s, b)
  <2>1. /\ batch' = Append(s, b) /\ pc' = "select" /\ block' = NoBlock /\ err' = err
    BY <1>1 DEF Push
  <2>2. Append(s, b) = s \o <<b>> /\ Append(s, b) \in Seq(Block)
    BY AppendIsConcat, AppendProperties
  <2>3. Held' = << >>
    BY <2>1 DEF Held
  <2>4. batch' \o Held' = s \o <<b>>
    BY <2>1, <2>2, <2>3, ConcatEmptySeq
  <2>5. OneDirection(batch')
    BY <1>1, <2>1, PushKeepsDirection
  <2>6. Len(batch') <= Len(s) + 1
    BY <2>1
  <2> QED BY <2>1, <2>2, <2>4, <2>5, <2>6 DEF TypeOK
<1>2. CASE ~ CanPush(s, b)
  <2>1. /\ batch' = s /\ pc' = "report" /\ block' = b /\ err' = "push"
    BY <1>2 DEF Push
  <2>2. b # NoBlock
    BY BlockIsNotNoBlock
  <2>3. Held' = <<b>>
    BY <2>1, <2>2 DEF Held
  <2>4. OneDirection(batch')
    BY <2>1
  <2> QED BY <2>1, <2>2, <2>3, <2>4
<1> QED BY <1>1, <1>2

\* A block let through by Validate keeps the invariant, whether it is pushed, finds
\* the batch full or is refused by PushBlock.
LEMMA AcceptInv ==
  ASSUME Inv, NEW b \in Block, Accept(b)
  PROVE  Inv'
<1> USE DEF Inv
<1>1. batchSize \in 1 .. MaxBatchSize /\ batchSize' \in 1 .. batchSize
  BY ElasticSizeType DEF TypeOK, Accept
<1>2. batchSize' \in 1 .. MaxBatchSize
  BY <1>1, BatchServiceAssumption
<1>3. lastBlock' \in Last
  BY SetLastBlockType DEF Accept
<1>4. block = NoBlock /\ Held = << >> /\ err # "push" /\ pc = "select"
  BY DEF Accept, HandOver, Held, NothingLostInBatching
<1>5. /\ batch \in Seq(Block) /\ released \in Seq(Block) /\ released \o batch \in Seq(Block)
      /\ OneDirection(batch) /\ Len(batch) \in Nat /\ Len(batch) <= batchSize
  BY <1>4, ConcatProperties DEF TypeOK, BatchesAreUniform, BatchSizeRespected
<1>6. accepted = released \o batch
  BY <1>4, <1>5, ConcatEmptySeq DEF NothingLostInBatching
<1>7. /\ accepted' = accepted \o <<b>> /\ accepted' \in Seq(Block)
      /\ released' = released /\ output' = output /\ attempt' = attempt
      /\ reorgAction' = reorgAction
  BY AppendIsConcat, AppendProperties DEF Accept, TypeOK
<1>8. <<b>> \in Seq(Block) /\ b # NoBlock
  BY BlockIsNotNoBlock
<1>9. /\ \A i \in 1 .. Len(output') : output'[i] # << >> /\ OneDirection(output'[i])
      /\ \A i \in 1 .. Len(output') : Len(output'[i]) <= MaxBatchSize
  BY <1>7 DEF BatchesAreUniform, BatchSizeRespected
<1>10. CASE shouldReleaseBatchAfterBlock(batch, batchSize')
  <2>1. pc' = "emit" /\ block' = b /\ batch' = batch /\ err' = err
    BY <1>10 DEF Accept
  <2>2. Held' = <<b>>
    BY <2>1, <1>8 DEF Held
  <2>3. batch # << >>
    BY <1>1, <1>10 DEF shouldReleaseBatchAfterBlock
  <2>4. TypeOK'
    BY <1>2, <1>3, <1>7, <2>1 DEF TypeOK, PC
  <2>5. HandOver'
    BY <2>1, <2>3 DEF HandOver
  <2>6. NothingLostInBatching'
    BY <1>4, <1>6, <1>7, <2>1, <2>2 DEF NothingLostInBatching
  <2>7. BatchesAreUniform'
    BY <1>5, <1>9, <2>1 DEF BatchesAreUniform
  <2>8. BatchSizeRespected'
    BY <1>1, <1>5, <1>9, <2>1, BatchServiceAssumption DEF BatchSizeRespected
  <2> QED BY <2>4, <2>5, <2>6, <2>7, <2>8
<1>11. CASE ~ shouldReleaseBatchAfterBlock(batch, batchSize')
  <2>1. Push(b, batch)
    BY <1>11 DEF Accept
  <2> DEFINE Effect ==
         /\ pc' \in {"select", "report"}
         /\ block' \in Block \cup {NoBlock}
         /\ err' \in {"none", "order", "push"}
         /\ batch' \in Seq(Block)
         /\ pc' = "select" => block' = NoBlock
         /\ block' # NoBlock <=> err' = "push"
         /\ pc' = "report" => err' = "push"
         /\ OneDirection(batch')
         /\ Len(batch') <= Len(batch) + 1
         /\ batch' \o Held' = batch \o <<b>>
  <2>2. Effect
    <3> HIDE DEF Effect
    <3>1. TypeOK
      OBVIOUS
    <3> QED BY <2>1, <1>4, <1>5, <3>1, PushEffect DEF Effect
  <2>3. Held' \in Seq(Block)
    BY <2>2 DEF Held
  <2>4. accepted' = (released' \o batch') \o Held'
    <3>1. accepted' = released \o (batch \o <<b>>)
      BY <1>5, <1>6, <1>7, <1>8, ConcatAssociative
    <3>2. (released \o batch') \o Held' = released \o (batch' \o Held')
      <4>1. released \in Seq(Block) /\ batch' \in Seq(Block)
        BY <1>5, <2>2
      <4> HIDE DEF Effect, Inv
      <4> QED BY ONLY <4>1, <2>3, ConcatAssociative
    <3> QED BY <1>7, <2>2, <3>1, <3>2
  <2>5. Len(batch) < batchSize'
    BY <1>1, <1>5, <1>11 DEF shouldReleaseBatchAfterBlock
  <2>6. TypeOK'
    BY <1>2, <1>3, <1>7, <2>2 DEF TypeOK, PC
  <2>7. HandOver'
    BY <2>2 DEF HandOver
  <2>8. NothingLostInBatching'
    BY <2>2, <2>4 DEF NothingLostInBatching
  <2>9. BatchesAreUniform'
    BY <2>2, <1>9 DEF BatchesAreUniform
  <2>10. BatchSizeRespected'
    BY <1>1, <1>2, <1>5, <1>9, <2>2, <2>5, BatchServiceAssumption DEF BatchSizeRespected
  <2> QED BY <2>6, <2>7, <2>8, <2>9, <2>10
<1> QED BY <1>10, <1>11

\* Releasing a full batch and pushing the block that found it full into a new one
\* keeps the invariant.
LEMMA EmitInv ==
  ASSUME Inv, Emit
  PROVE  Inv'
<1> USE DEF Inv
<1>1. /\ pc = "emit" /\ output = << >> /\ output' = <<batch>>
      /\ released' = released \o batch /\ accepted' = accepted
      /\ Push(block, << >>)
      /\ UNCHANGED <<reorgAction, lastBlock, batchSize, attempt>>
  BY DEF Emit
<1>2. block \in Block /\ block # NoBlock /\ batch # << >> /\ Held = <<block>> /\ err # "push"
  BY <1>1, BlockIsNotNoBlock DEF HandOver, Held, NothingLostInBatching
<1>3. << >> \in Seq(Block) /\ Len(<< >>) = 0 /\ OneDirection(<< >>)
  BY DEF OneDirection
<1>4. /\ released \in Seq(Block) /\ batch \in Seq(Block) /\ released' \in Seq(Block)
  BY <1>1, ConcatProperties DEF TypeOK
<1> DEFINE Effect ==
       /\ pc' \in {"select", "report"}
       /\ block' \in Block \cup {NoBlock}
       /\ err' \in {"none", "order", "push"}
       /\ batch' \in Seq(Block)
       /\ pc' = "select" => block' = NoBlock
       /\ block' # NoBlock <=> err' = "push"
       /\ pc' = "report" => err' = "push"
       /\ OneDirection(batch')
       /\ Len(batch') <= Len(<< >>) + 1
       /\ batch' \o Held' = << >> \o <<block>>
<1>5. Effect
  <2> HIDE DEF Effect
  <2>1. TypeOK
    OBVIOUS
  <2> QED BY <1>1, <1>2, <1>3, <2>1, PushEffect DEF Effect
<1>6. Held' \in Seq(Block) /\ <<block>> \in Seq(Block)
  BY <1>2, <1>5 DEF Held
<1>7. accepted' = (released' \o batch') \o Held'
  <2>1. batch' \in Seq(Block)
    BY <1>5
  <2>2. (released' \o batch') \o Held' = released' \o (batch' \o Held')
    BY ONLY <1>4, <1>6, <2>1, ConcatAssociative, SMTT(30)
  <2>3. batch' \o Held' = <<block>>
    BY <1>5, <1>6, ConcatEmptySeq
  <2>4. accepted = (released \o batch) \o <<block>>
    BY <1>2 DEF NothingLostInBatching
  <2> QED BY <1>1, <2>2, <2>3, <2>4
<1>8. /\ output'[1] = batch /\ Len(output') = 1 /\ output' \in Seq(Seq(Block))
  BY <1>1, <1>4
<1>9. TypeOK'
  BY <1>1, <1>4, <1>5, <1>8 DEF TypeOK, PC
<1>10. HandOver'
  BY <1>5 DEF HandOver
<1>11. NothingLostInBatching'
  BY <1>5, <1>7 DEF NothingLostInBatching
<1>12. BatchesAreUniform'
  BY <1>2, <1>5, <1>8 DEF BatchesAreUniform
<1>13. BatchSizeRespected'
  <2>1. batchSize' \in 1 .. MaxBatchSize /\ Len(batch) <= MaxBatchSize
    BY <1>1 DEF TypeOK, BatchSizeRespected
  <2>2. Len(batch') <= 1 /\ Len(batch') \in Nat
    BY <1>5
  <2> QED BY <1>8, <2>1, <2>2, BatchServiceAssumption DEF BatchSizeRespected
<1> QED BY <1>9, <1>10, <1>11, <1>12, <1>13

\* The steps that leave the blocks where they are.
LEMMA QuietInv ==
  ASSUME Inv, (\E b \in Block : Refuse(b)) \/ Report \/ Leave \/ Consume
  PROVE  Inv'
<1> USE DEF Inv
<1>1. /\ UNCHANGED <<reorgAction, lastBlock, batchSize, attempt, block, batch, accepted,
                     released>>
      /\ output' \in {output, << >>}
      /\ pc' \in {"report", "flush", pc}
      /\ pc = "select" \/ pc = "report" \/ pc' = pc
  <2>1. CASE \E b \in Block : Refuse(b)
    BY <2>1 DEF Refuse
  <2>2. CASE Report \/ Leave \/ Consume
    BY <2>2 DEF Report, Leave, Consume
  <2> QED BY <2>1, <2>2
<1>2. Held' = Held
  BY <1>1 DEF Held
<1>3. err' \in {err, "order"}
  <2>1. CASE \E b \in Block : Refuse(b)
    BY <2>1 DEF Refuse
  <2>2. CASE Report \/ Leave \/ Consume
    BY <2>2 DEF Report, Leave, Consume
  <2> QED BY <2>1, <2>2
<1>4. (pc' \in {"report", "flush", "closed"} /\ block' # NoBlock) <=> err' = "push"
  <2>1. CASE \E b \in Block : Refuse(b)
    BY <2>1 DEF Refuse, HandOver
  <2>2. CASE Report \/ Leave
    BY <2>2 DEF Report, Leave, HandOver, NothingLostInBatching
  <2>3. CASE Consume
    BY <2>3 DEF Consume, NothingLostInBatching
  <2> QED BY <2>1, <2>2, <2>3
<1>5. TypeOK'
  <2>1. err' \in {"none", "order", "push"} /\ pc' \in PC
    BY <1>1, <1>3 DEF TypeOK, PC
  <2>2. output' \in Seq(Seq(Block))
    <3>1. << >> \in Seq(Seq(Block)) /\ output \in Seq(Seq(Block))
      BY EmptySeq DEF TypeOK
    <3>2. output' = output \/ output' = << >>
      BY <1>1
    <3> QED BY <3>1, <3>2
  <2> QED BY <1>1, <2>1, <2>2 DEF TypeOK
<1>6. pc' = "emit" => pc = "emit"
  BY <1>1
<1>7. pc' = "select" => pc = "select"
  BY <1>1
<1>8. HandOver'
  BY <1>1, <1>6, <1>7 DEF HandOver
<1>9. NothingLostInBatching'
  BY <1>1, <1>2, <1>4 DEF NothingLostInBatching
<1>10. BatchesAreUniform'
  BY <1>1 DEF BatchesAreUniform
<1>11. BatchSizeRespected'
  <2>1. pc = "emit" => pc' = "emit"
    BY DEF Refuse, Report, Leave, Consume
  <2> QED BY <1>1, <2>1 DEF BatchSizeRespected
<1> QED BY <1>5, <1>8, <1>9, <1>10, <1>11

\* The deferred hand-over of what was collected keeps the invariant.
LEMMA FlushInv ==
  ASSUME Inv, Flush
  PROVE  Inv'
<1> USE DEF Inv
<1>1. /\ pc = "flush" /\ pc' = "closed"
      /\ UNCHANGED <<reorgAction, lastBlock, batchSize, attempt, block, err, accepted>>
  BY DEF Flush
<1>2. Held' = Held
  BY <1>1 DEF Held
<1>3. CASE HasBlocks(batch)
  <2>1. /\ output' = <<batch>> /\ released' = released \o batch /\ batch' = << >>
        /\ batch # << >>
    BY <1>3 DEF Flush, HasBlocks
  <2>2. /\ released \in Seq(Block) /\ batch \in Seq(Block) /\ released' \in Seq(Block)
    BY <2>1, ConcatProperties DEF TypeOK
  <2>3. released' \o batch' = released \o batch
    BY <2>1, <2>2, ConcatEmptySeq
  <2>4. output'[1] = batch /\ Len(output') = 1 /\ output' \in Seq(Seq(Block))
    BY <2>1, <2>2
  <2>5. TypeOK'
    BY <1>1, <2>1, <2>2, <2>4 DEF TypeOK, PC
  <2>6. HandOver'
    BY <1>1 DEF HandOver
  <2>7. NothingLostInBatching'
    BY <1>1, <1>2, <2>3 DEF NothingLostInBatching
  <2>8. BatchesAreUniform'
    BY <2>1, <2>4 DEF BatchesAreUniform, OneDirection
  <2>9. BatchSizeRespected'
    <3>1. batchSize' \in 1 .. MaxBatchSize /\ Len(batch) <= MaxBatchSize /\ Len(batch') = 0
      BY <1>1, <2>1 DEF TypeOK, BatchSizeRespected
    <3> QED BY <2>4, <3>1, BatchServiceAssumption DEF BatchSizeRespected
  <2> QED BY <2>5, <2>6, <2>7, <2>8, <2>9
<1>4. CASE ~ HasBlocks(batch)
  <2>1. UNCHANGED <<output, released, batch>>
    BY <1>4 DEF Flush
  <2>2. TypeOK'
    BY <1>1, <2>1 DEF TypeOK, PC
  <2>3. HandOver'
    BY <1>1 DEF HandOver
  <2>4. NothingLostInBatching'
    BY <1>1, <1>2, <2>1 DEF NothingLostInBatching
  <2>5. BatchesAreUniform' /\ BatchSizeRespected'
    BY <1>1, <2>1 DEF BatchesAreUniform, BatchSizeRespected
  <2> QED BY <2>2, <2>3, <2>4, <2>5
<1> QED BY <1>3, <1>4

\* A retry by the runner keeps the invariant: the channels and the batch are new,
\* the validator and the batch size are not.
LEMMA NewAttemptInv ==
  ASSUME Inv, NewAttempt
  PROVE  Inv'
<1> USE DEF Inv
<1>1. /\ pc' = "select" /\ block' = NoBlock /\ batch' = << >> /\ output' = << >>
      /\ err' = "none" /\ accepted' = << >> /\ released' = << >>
      /\ attempt' \in 1 .. MaxAttempts /\ UNCHANGED <<reorgAction, lastBlock, batchSize>>
  BY BatchServiceAssumption DEF NewAttempt, TypeOK
<1>2. TypeOK'
  BY <1>1 DEF TypeOK, PC
<1>3. HandOver' /\ BatchesAreUniform'
  BY <1>1 DEF HandOver, BatchesAreUniform, OneDirection
<1>4. NothingLostInBatching'
  BY <1>1 DEF NothingLostInBatching, Held
<1>5. BatchSizeRespected'
  BY <1>1, BatchServiceAssumption DEF BatchSizeRespected, TypeOK
<1> QED BY <1>2, <1>3, <1>4, <1>5

\* A step of anybody else keeps the invariant.
LEMMA StutterInv ==
  ASSUME Inv, UNCHANGED vars
  PROVE  Inv'
BY DEF Inv, vars, TypeOK, HandOver, NothingLostInBatching, Held, BatchesAreUniform,
       BatchSizeRespected

\* The inductive invariant holds of every behaviour of the batching goroutine.
THEOREM InvHolds == Spec => []Inv
<1>1. Inv /\ [Next]_vars => Inv'
  <2> SUFFICES ASSUME Inv, [Next]_vars PROVE Inv'
    OBVIOUS
  <2> QED BY AcceptInv, EmitInv, QuietInv, FlushInv, NewAttemptInv, StutterInv DEF Next
<1> QED BY InitInv, <1>1, PTL DEF Spec

\* Every variable of the batching goroutine keeps its type.
THEOREM TypeCorrect == Spec => []TypeOK
BY InvHolds, PTL DEF Inv

\* No accepted block is lost or doubled between the order check and the output
\* channel, but for the one whose push was refused, and that is reported.
THEOREM NothingIsLostInBatching == Spec => []NothingLostInBatching
BY InvHolds, PTL DEF Inv

\* No batch mixes directions and no empty batch is released.
THEOREM BatchesStayUniform == Spec => []BatchesAreUniform
BY InvHolds, PTL DEF Inv

\* No batch outgrows the stream's maximum, nor the size the head of the chain has
\* lowered it to.
THEOREM BatchSizeIsRespected == Spec => []BatchSizeRespected
BY InvHolds, PTL DEF Inv

-----------------------------------------------------------------------------
(***************************************************************************)
(* BatchService implements ChainTip.                                       *)
(***************************************************************************)

\* What the validator remembers always stands for a tip within the block numbers.
LEMMA TipType ==
  ASSUME NEW last \in Last
  PROVE  /\ last = NoBlock <=> TipOf(last) = -1
         /\ last # NoBlock => TipOf(last) \in 0 .. MaxNumber
BY NumberSteps, MaxNumberAssumption DEF TipOf, Last, NoBlock, Direction

\* What acceptance by each reorg action means for the tip.
LEMMA AcceptMovesTip ==
  ASSUME NEW action \in ReorgAction, NEW last \in Last, NEW b \in Block,
         last # NoBlock, validateByReorgAction(action, last, b)
  PROVE  \/ /\ b.direction = "FORWARD"
            /\ b.number = Succ(TipOf(last))
         \/ /\ b.direction = "BACKWARD"
            /\ action = "ROLLBACK_AND_RESEND"
            /\ b.number = TipOf(last)
         \/ /\ b.direction = "FORWARD"
            /\ action = "RESEND"
<1>1. last.number \in 0 .. MaxNumber /\ last.direction \in Direction
  BY DEF Last
<1>2. CASE action = "RESEND"
  BY <1>2 DEF validateByReorgAction, validateForResendAction
<1>3. CASE action = "IGNORE"
  BY <1>1, <1>3 DEF validateByReorgAction, validateForIgnoreAction, TipOf
<1>4. CASE action = "ROLLBACK_AND_RESEND"
  <2>1. validateForRollbackAndResendAction(last, b)
    BY <1>4 DEF validateByReorgAction
  <2>2. CASE last.direction = "FORWARD"
    BY <1>4, <2>1, <2>2 DEF validateForRollbackAndResendAction, TipOf
  <2>3. CASE last.direction = "BACKWARD"
    <3>1. TipOf(last) = Pred(last.number) /\ Succ(Pred(last.number)) = last.number
      BY <1>1, <2>3, NumberSteps DEF TipOf
    <3> QED BY <1>4, <2>1, <2>3, <3>1 DEF validateForRollbackAndResendAction
  <2> QED BY <1>1, <2>2, <2>3 DEF Direction
<1> QED BY <1>2, <1>3, <1>4 DEF ReorgAction

\* After setLastBlock the tip is the block itself, or the one below a block that
\* was rolled back.
LEMMA TipOfAccepted ==
  ASSUME NEW b \in Block
  PROVE  /\ setLastBlock(b) # NoBlock
         /\ b.direction = "FORWARD" => TipOf(setLastBlock(b)) = b.number
         /\ b.direction = "BACKWARD" => TipOf(setLastBlock(b)) = Pred(b.number)
BY DEF setLastBlock, TipOf, Block, NoBlock, Direction

\* Every block let through by Validate is a step of ChainTip.
LEMMA AcceptImplementsChain ==
  ASSUME TypeOK, NEW b \in Block, Accept(b)
  PROVE  Chain!ChainNext
<1>1. /\ reorgAction' = reorgAction /\ lastBlock' = setLastBlock(b)
      /\ Accepts(reorgAction, lastBlock, b)
      /\ reorgAction \in ReorgAction /\ lastBlock \in Last
  BY DEF Accept, TypeOK
<1>2. /\ b.number \in 0 .. MaxNumber /\ b.direction \in {"FORWARD", "BACKWARD"}
      /\ lastBlock' = [number |-> b.number, direction |-> b.direction]
  BY <1>1 DEF Block, Direction, setLastBlock
<1>3. Chain!Pred(b.number) = Pred(b.number)
  BY DEF Chain!Pred, Pred
<1>4. CASE lastBlock = NoBlock
  <2>1. TipOf(lastBlock) = -1
    BY <1>4 DEF TipOf
  <2>2. CASE b.direction = "FORWARD"
    <3>1. TipOf(lastBlock') = b.number
      BY <1>1, <2>2, TipOfAccepted
    <3> QED BY <1>1, <1>2, <2>1, <2>2, <3>1
            DEF Chain!ChainNext, Chain!Begin, Chain!Announce, Chain!NoTip
  <2>3. CASE b.direction = "BACKWARD"
    <3>1. TipOf(lastBlock') = Chain!Pred(b.number)
      BY <1>1, <1>3, <2>3, TipOfAccepted
    <3> QED BY <1>1, <1>2, <2>1, <2>3, <3>1
            DEF Chain!ChainNext, Chain!Begin, Chain!Announce, Chain!NoTip
  <2> QED BY <1>2, <2>2, <2>3
<1>5. CASE lastBlock # NoBlock
  <2>1. TipOf(lastBlock) # -1 /\ TipOf(lastBlock) \in 0 .. MaxNumber
    BY <1>1, <1>5, TipType
  <2>2. validateByReorgAction(reorgAction, lastBlock, b)
    BY <1>1, <1>5 DEF Accepts, isFirstBlock
  <2>3. CASE b.direction = "FORWARD" /\ b.number = Succ(TipOf(lastBlock))
    <3>1. TipOf(lastBlock') = b.number
      BY <1>1, <2>3, TipOfAccepted
    <3>2. Chain!Succ(TipOf(lastBlock)) = b.number
      BY <2>3 DEF Chain!Succ, Succ
    <3> QED BY <1>1, <1>2, <2>1, <2>3, <3>1, <3>2
            DEF Chain!ChainNext, Chain!Extend, Chain!Announce, Chain!NoTip
  <2>4. CASE /\ b.direction = "BACKWARD" /\ reorgAction = "ROLLBACK_AND_RESEND"
             /\ b.number = TipOf(lastBlock)
    <3>1. TipOf(lastBlock') = Chain!Pred(TipOf(lastBlock))
      BY <1>1, <1>3, <2>4, TipOfAccepted
    <3> QED BY <1>1, <1>2, <2>1, <2>4, <3>1
            DEF Chain!ChainNext, Chain!RollBack, Chain!Announce, Chain!NoTip
  <2>5. CASE b.direction = "FORWARD" /\ reorgAction = "RESEND"
    <3>1. TipOf(lastBlock') = b.number
      BY <1>1, <2>5, TipOfAccepted
    <3> QED BY <1>1, <1>2, <2>1, <2>5, <3>1
            DEF Chain!ChainNext, Chain!Jump, Chain!Announce, Chain!NoTip
  <2> QED BY <1>1, <1>5, <2>2, <2>3, <2>4, <2>5, AcceptMovesTip
<1> QED BY <1>4, <1>5

\* The blocks that pass the order check move the tip of one chain as the reorg
\* action allows, through all attempts and whatever the server sends.
THEOREM TipIsFollowed == Spec => TipFollowsChain
<1>1. Init => Chain!ChainInit
  BY DEF Init, Chain!ChainInit, Chain!ReorgAction, ReorgAction, Chain!NoBlock, NoBlock,
         Chain!NoTip, TipOf
<1>2. TypeOK /\ [Next]_vars => [Chain!ChainNext]_Chain!chainVars
  <2> SUFFICES ASSUME TypeOK, [Next]_vars
               PROVE  Chain!ChainNext \/ UNCHANGED <<reorgAction, lastBlock>>
    BY DEF Chain!chainVars, TipOf
  <2>1. CASE \E b \in Block : Accept(b)
    BY <2>1, AcceptImplementsChain
  <2>2. CASE UNCHANGED vars
    BY <2>2 DEF vars
  <2>3. CASE (\E b \in Block : Refuse(b)) \/ Emit \/ Report \/ Leave \/ Flush \/ Consume
             \/ NewAttempt
    BY <2>3 DEF Refuse, Emit, Report, Leave, Flush, Consume, NewAttempt
  <2> QED BY <2>1, <2>2, <2>3 DEF Next
<1> QED BY <1>1, <1>2, TypeCorrect, PTL DEF Spec, TipFollowsChain, Chain!ChainSpec
=============================================================================
