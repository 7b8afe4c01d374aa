------------------------- MODULE PipelineFlowProofs -------------------------
(***************************************************************************)
(* No block is skipped, delivered early, doubled or lost on its way: the   *)
(* properties NoSilentLoss, DeliveredInOrder, FlowInOrder and              *)
(* DoneMeansEndReached of the pipeline, for every stream, any number of    *)
(* attempts, any faults and any restarts.                                  *)
(*                                                                         *)
(* They rest on one invariant.  What is under way in an attempt is a run   *)
(* of consecutive positions, cut into the parts that sit in the sender's   *)
(* hand, in the channel before it, and so on back to the reader; the run   *)
(* begins right behind a position up to which everything is settled.  It   *)
(* cannot be said of the whole run alone: an action moves, drops or        *)
(* extends one part, and which part is what the proof is about.            *)
(***************************************************************************)
EXTENDS PipelineProofs

\* The positions after base, one by one.
Run(s, base) == \A i \in 1 .. Len(s) : s[i] = base + i

\* Where the parts of what is under way in attempt a begin, when the first one
\* begins behind base.
AtProcCh(a, base) == base + Len(sender[a].batch)
AtProcessor(a, base) == AtProcCh(a, base) + Len(Content(procCh[a]))
AtBatchCh(a, base) == AtProcessor(a, base) + Len(processor[a].batch)
AtBatcher(a, base) == AtBatchCh(a, base) + Len(Content(batchCh[a]))
AtHand(a, base) == AtBatcher(a, base) + Len(batcher[a].batch)
AtBlockCh(a, base) == AtHand(a, base) + Len(Hand(a))
AtReader(a, base) == AtBlockCh(a, base) + Len(blockCh[a])

BlocksFrom(a, base) ==
  /\ Run(Hand(a), AtHand(a, base))
  /\ Run(blockCh[a], AtBlockCh(a, base))
  /\ reader[a].pc # "idle" => AtReader(a, base) = reader[a].next - 1

BatchesFrom(a, base) ==
  /\ Run(processor[a].batch, AtProcessor(a, base))
  /\ Run(Content(batchCh[a]), AtBatchCh(a, base))
  /\ Run(batcher[a].batch, AtBatcher(a, base))

FlowFrom(a, base) ==
  /\ Run(sender[a].batch, base)
  /\ Run(Content(procCh[a]), AtProcCh(a, base))
  /\ ProcessorLive(a) => BatchesFrom(a, base)
  /\ ProcessorLive(a) /\ BatcherLive(a) => BlocksFrom(a, base)

FlowInv(a) == \E base \in Nat : SettledUpTo(base) /\ FlowFrom(a, base)

\* A goroutine at its select has nothing in its hand.
EmptyHanded(a) ==
  /\ processor[a].pc # "process" => processor[a].batch = << >>
  /\ sender[a].pc \in {"idle", "select", "closed"} => sender[a].batch = << >>

\* A sender past its sends has settled its batch.
BatchSettled(a) ==
  sender[a].pc \in {"commit", "store", "react", "mark", "done", "report"} =>
    Positions(sender[a].batch) \subseteq Settled

Inv ==
  /\ NoSilentLoss
  /\ DeliveredInOrder
  /\ \A a \in Attempts : FlowInv(a) /\ EmptyHanded(a) /\ BatchSettled(a)

\* The end of the stream is settled, and everything before it.
EndSettled ==
  /\ stream.toBlock # -1
  /\ \E p \in 1 .. Length : stream.blocks[p].number >= stream.toBlock /\ SettledUpTo(p)

EndInv ==
  /\ doneChannel # << >> \/ runner.outcome = "success" => EndSettled
  /\ \A a \in Attempts : sender[a].pc = "done" => EndSettled

-----------------------------------------------------------------------------
(***************************************************************************)
(* Runs of positions, and what is settled.                                 *)
(***************************************************************************)

\* Nothing is a run, wherever it begins.
LEMMA EmptyRun == ASSUME NEW base PROVE Run(<< >>, base) /\ Len(<< >>) = 0
BY DEF Run

\* A run goes on with the position behind its last one.
LEMMA RunAppend ==
  ASSUME NEW base \in Nat, NEW s \in Batches, Run(s, base), NEW p, p = base + Len(s) + 1
  PROVE  Run(Append(s, p), base) /\ Len(Append(s, p)) = Len(s) + 1
BY DEF Run, Batches

\* A run without its first position begins one later.
LEMMA RunTail ==
  ASSUME NEW base \in Nat, NEW s \in Batches, s # << >>, Run(s, base)
  PROVE  /\ Head(s) = base + 1
         /\ Run(Tail(s), base + 1)
         /\ Len(Tail(s)) = Len(s) - 1
<1>1. /\ Head(s) = s[1] /\ Len(Tail(s)) = Len(s) - 1 /\ Len(s) \in Nat /\ Len(s) > 0
      /\ \A i \in 1 .. Len(Tail(s)) : Tail(s)[i] = s[i + 1]
  BY HeadTailProperties, EmptySeq DEF Batches
<1>2. \A i \in 1 .. Len(s) - 1 : i + 1 \in 1 .. Len(s) /\ base + (i + 1) = (base + 1) + i
  BY <1>1
<1> QED BY <1>1, <1>2 DEF Run

\* One position is a run.
LEMMA RunOfOne ==
  ASSUME NEW base \in Nat, NEW p, p = base + 1
  PROVE  Run(<<p>>, base) /\ Len(<<p>>) = 1
BY DEF Run

\* What is settled stays settled.
LEMMA SettledGrows ==
  ASSUME Settled \subseteq Settled'
  PROVE  /\ \A p : SettledUpTo(p) => SettledUpTo(p)'
         /\ EndSettled /\ UNCHANGED stream => EndSettled'
<1>1. \A p : SettledUpTo(p) => SettledUpTo(p)'
  BY DEF SettledUpTo
<1>2. EndSettled /\ UNCHANGED stream => EndSettled'
  BY <1>1 DEF EndSettled, Length
<1> QED BY <1>1, <1>2

\* The positions of a run.
LEMMA RunPositions ==
  ASSUME NEW base \in Nat, NEW s \in Batches, Run(s, base)
  PROVE  Positions(s) = base + 1 .. base + Len(s)
<1>1. Len(s) \in Nat
  BY DEF Batches
<1>2. Positions(s) = {base + i : i \in 1 .. Len(s)}
  BY DEF Positions, Run
<1>3. \A n \in base + 1 .. base + Len(s) : n - base \in 1 .. Len(s) /\ n = base + (n - base)
  BY <1>1
<1>4. \A i \in 1 .. Len(s) : base + i \in base + 1 .. base + Len(s)
  BY <1>1
<1> QED BY <1>2, <1>3, <1>4

\* A batch that continues what is settled ends with the position up to which
\* everything is settled once the batch is.
LEMMA RunSettled ==
  ASSUME NEW base \in Nat, NEW s \in Batches, Run(s, base), SettledUpTo(base)
  PROVE  /\ base + Len(s) \in Nat
         /\ s # << >> => LastOf(s) = base + Len(s)
         /\ \A p \in Positions(s) : p \in Nat /\ 1 .. p \subseteq 1 .. base \cup Positions(s)
         /\ 1 .. base + Len(s) = 1 .. base \cup Positions(s)
         /\ Positions(s) \subseteq Settled => SettledUpTo(base + Len(s))
<1>1. s # << >> => Len(s) \in 1 .. Len(s)
  BY EmptySeq DEF Batches
<1>2. Len(s) \in Nat
  BY DEF Batches
<1>3. Positions(s) = base + 1 .. base + Len(s)
  BY RunPositions
<1>4. s # << >> => LastOf(s) = base + Len(s)
  BY <1>1, <1>2 DEF Run, LastOf
<1>5. 1 .. base + Len(s) = 1 .. base \cup Positions(s)
  BY <1>2, <1>3
<1>6. \A p \in Positions(s) : p \in Nat /\ 1 .. p \subseteq 1 .. base \cup Positions(s)
  BY <1>2, <1>3
<1> QED BY <1>2, <1>4, <1>5, <1>6 DEF SettledUpTo

-----------------------------------------------------------------------------
(***************************************************************************)
(* How a step changes the parts.                                           *)
(***************************************************************************)

\* The parts of what is under way are sequences of positions.
LEMMA PartsTyped ==
  ASSUME Typed, NEW a \in Attempts
  PROVE  /\ sender[a].batch \in Batches /\ Content(procCh[a]) \in Batches
         /\ processor[a].batch \in Batches /\ Content(batchCh[a]) \in Batches
         /\ batcher[a].batch \in Batches /\ Hand(a) \in Batches /\ blockCh[a] \in Batches
<1>1. sender[a].batch \in Batches /\ processor[a].batch \in Batches
  BY DEF Typed, SenderOK, SenderState, ProcessorOK
<1>2. batcher[a].batch \in Batches /\ blockCh[a] \in Batches
  BY DEF Typed, BatcherOK, BatcherState, BlockChOK
<1>3. << >> \in Batches
  BY DEF Batches
<1>4. Content(procCh[a]) \in Batches /\ Content(batchCh[a]) \in Batches
  BY <1>3 DEF Typed, ProcChOK, BatchChOK, AtMostOne, Content
<1>5. Hand(a) \in Batches
  <2>1. CASE batcher[a].pc \in {"accept", "emit"}
    <3>1. batcher[a].block \in 1 .. Length
      BY <2>1, StreamFacts DEF Typed, BatcherOK, BatcherState, Position
    <3> QED BY <2>1, <3>1 DEF Hand, Batches
  <2>2. CASE batcher[a].pc \notin {"accept", "emit"}
    BY <1>3, <2>2 DEF Hand
  <2> QED BY <2>1, <2>2
<1> QED BY <1>1, <1>2, <1>4, <1>5

\* A batch has a length.
LEMMA BatchLength == \A s \in Batches : Len(s) \in Nat
BY DEF Batches

\* The places where the parts begin are numbers.
LEMMA CutsTyped ==
  ASSUME Typed, NEW a \in Attempts, NEW base \in Nat
  PROVE  /\ AtProcCh(a, base) \in Nat /\ AtProcessor(a, base) \in Nat
         /\ AtBatchCh(a, base) \in Nat /\ AtBatcher(a, base) \in Nat
         /\ AtHand(a, base) \in Nat /\ AtBlockCh(a, base) \in Nat /\ AtReader(a, base) \in Nat
<1>1. \A s \in Batches : Len(s) \in Nat
  BY BatchLength
<1>2. AtProcCh(a, base) \in Nat
  BY <1>1, PartsTyped DEF AtProcCh
<1>3. AtProcessor(a, base) \in Nat
  BY <1>1, <1>2, PartsTyped DEF AtProcessor
<1>4. AtBatchCh(a, base) \in Nat
  BY <1>1, <1>3, PartsTyped, SMTT(30) DEF AtBatchCh
<1>5. AtBatcher(a, base) \in Nat
  BY <1>1, <1>4, PartsTyped DEF AtBatcher
<1>6. AtHand(a, base) \in Nat
  BY <1>1, <1>5, PartsTyped, SMTT(30) DEF AtHand
<1>7. AtBlockCh(a, base) \in Nat
  BY <1>1, <1>6, PartsTyped DEF AtBlockCh
<1>8. AtReader(a, base) \in Nat
  BY <1>1, <1>7, PartsTyped DEF AtReader
<1> QED BY <1>2, <1>3, <1>4, <1>5, <1>6, <1>7, <1>8

\* Nothing moves, and at most a goroutine stops counting.
LEMMA FlowKept ==
  ASSUME NEW a \in Attempts, FlowInv(a), Settled \subseteq Settled',
         UNCHANGED <<sender[a].batch, Content(procCh[a])>>,
         ProcessorLive(a)' =>
           /\ ProcessorLive(a)
           /\ UNCHANGED <<processor[a].batch, Content(batchCh[a]), batcher[a].batch>>
           /\ BatcherLive(a)' =>
                /\ BatcherLive(a)
                /\ UNCHANGED <<Hand(a), blockCh[a]>>
                /\ reader'[a].pc # "idle" => reader[a].pc # "idle" /\ UNCHANGED reader[a].next
  PROVE  FlowInv(a)'
<1>1. PICK base \in Nat : SettledUpTo(base) /\ FlowFrom(a, base)
  BY DEF FlowInv
<1>2. SettledUpTo(base)'
  BY <1>1, SettledGrows
<1>3. UNCHANGED <<AtProcCh(a, base), AtProcessor(a, base)>>
  BY DEF AtProcCh, AtProcessor
<1>4. ProcessorLive(a)' => BatchesFrom(a, base)' /\ UNCHANGED AtHand(a, base)
  BY <1>1, <1>3 DEF FlowFrom, BatchesFrom, AtBatchCh, AtBatcher, AtHand
<1>5. ProcessorLive(a)' /\ BatcherLive(a)' => BlocksFrom(a, base)'
  BY <1>1, <1>4 DEF FlowFrom, BlocksFrom, AtBlockCh, AtReader
<1>6. FlowFrom(a, base)'
  BY <1>1, <1>3, <1>4, <1>5 DEF FlowFrom
<1> QED BY <1>2, <1>6 DEF FlowInv

\* What the reader receives continues what is under way.
LEMMA ReaderFlow ==
  ASSUME Typed, NEW a \in Attempts, FlowInv(a), ReaderStep(a), Settled \subseteq Settled'
  PROVE  FlowInv(a)'
<1>1. UNCHANGED <<sender, procCh, processor, batchCh, batcher>>
  BY DEF ReaderStep, workers
<1>2. UNCHANGED <<Hand(a), BatcherLive(a), ProcessorLive(a)>>
  BY <1>1 DEF Hand, BatcherLive, ProcessorLive
<1>3. CASE ReaderCloses(a) \/ ReaderFails(a) \/ ReaderReports(a)
  <2>1. UNCHANGED <<blockCh[a], reader[a].next>> /\ reader[a].pc # "idle"
    BY <1>3 DEF Typed, ReaderOK, ReaderCloses, ReaderFails, ReaderReports, ReaderReady
  <2> QED BY <1>1, <1>2, <2>1, FlowKept
<1>4. CASE ReaderReceives(a)
  <2>1. /\ reader[a].pc # "idle" /\ reader[a].next \in Nat
        /\ reader'[a].next = reader[a].next + 1
        /\ blockCh'[a] = Append(blockCh[a], reader[a].next)
    BY <1>4, StreamFacts DEF Typed, ReaderOK, BlockChOK, ReaderReceives, ReaderReady
  <2>2. PICK base \in Nat : SettledUpTo(base) /\ FlowFrom(a, base)
    BY DEF FlowInv
  <2>3. SettledUpTo(base)'
    BY <2>2, SettledGrows
  <2>4. UNCHANGED <<AtProcCh(a, base), AtProcessor(a, base), AtBatchCh(a, base),
                    AtBatcher(a, base), AtHand(a, base), AtBlockCh(a, base)>>
    BY <1>1, <1>2 DEF AtProcCh, AtProcessor, AtBatchCh, AtBatcher, AtHand, AtBlockCh
  <2>5. AtBlockCh(a, base) \in Nat /\ AtReader(a, base) \in Nat /\ blockCh[a] \in Batches
    BY CutsTyped, PartsTyped
  <2>6. ASSUME ProcessorLive(a), BatcherLive(a)
        PROVE  BlocksFrom(a, base)'
    <3>1. BlocksFrom(a, base)
      BY <2>2, <2>6 DEF FlowFrom
    <3>2. reader[a].next = AtBlockCh(a, base) + Len(blockCh[a]) + 1
      BY <2>1, <2>5, <3>1 DEF BlocksFrom, AtReader
    <3>3. /\ Run(blockCh'[a], AtBlockCh(a, base))
          /\ Len(blockCh'[a]) = Len(blockCh[a]) + 1 /\ Len(blockCh[a]) \in Nat
      BY <2>1, <2>5, <3>1, <3>2, RunAppend DEF BlocksFrom, Batches
    <3>4. AtReader(a, base)' = reader'[a].next - 1
      BY <2>1, <2>4, <2>5, <3>2, <3>3 DEF AtReader
    <3> QED BY <1>2, <2>4, <3>1, <3>3, <3>4 DEF BlocksFrom
  <2>7. FlowFrom(a, base)'
    BY <1>1, <1>2, <2>2, <2>4, <2>6 DEF FlowFrom, BatchesFrom
  <2> QED BY <2>3, <2>7 DEF FlowInv
<1> QED BY <1>3, <1>4 DEF ReaderStep

\* What PushBlock does: the block is at the end of the batch, or the batcher is on its
\* way out with the batch as it was.
LEMMA PushEffect ==
  ASSUME Typed, NEW a \in Attempts, NEW p, NEW batch, PushBlock(a, p, batch)
  PROVE  \/ batcher'[a].pc = "select" /\ batcher'[a].batch = Append(batch, p)
         \/ batcher'[a].pc = "report" /\ batcher'[a].batch = batch
BY DEF PushBlock, IdleBatcher, Typed, BatcherOK

\* The block in the batcher's hand goes to the end of its batch.
LEMMA PushFlow ==
  ASSUME Typed, NEW a \in Attempts, FlowInv(a), Settled \subseteq Settled',
         UNCHANGED <<reader, blockCh, procCh, processor, sender, batchCh>>,
         batcher[a].pc = "accept", batcher'[a].pc = "select",
         batcher'[a].batch = Append(batcher[a].batch, batcher[a].block)
  PROVE  FlowInv(a)'
<1>1. /\ Hand(a) = <<batcher[a].block>> /\ Hand(a)' = << >>
      /\ BatcherLive(a) /\ BatcherLive(a)' /\ UNCHANGED ProcessorLive(a)
  BY DEF Hand, BatcherLive, ProcessorLive
<1>2. PICK base \in Nat : SettledUpTo(base) /\ FlowFrom(a, base)
  BY DEF FlowInv
<1>3. SettledUpTo(base)'
  BY <1>2, SettledGrows
<1>4. UNCHANGED <<AtProcCh(a, base), AtProcessor(a, base), AtBatchCh(a, base),
                  AtBatcher(a, base)>>
  BY DEF AtProcCh, AtProcessor, AtBatchCh, AtBatcher
<1>5. /\ AtBatcher(a, base) \in Nat /\ AtHand(a, base) \in Nat
      /\ batcher[a].batch \in Batches /\ Len(batcher[a].batch) \in Nat
  BY CutsTyped, PartsTyped, BatchLength
<1>6. ASSUME ProcessorLive(a)
      PROVE  BatchesFrom(a, base)' /\ BlocksFrom(a, base)'
  <2>1. BatchesFrom(a, base) /\ BlocksFrom(a, base)
    BY <1>1, <1>2, <1>6 DEF FlowFrom
  <2>2. batcher[a].block = AtBatcher(a, base) + Len(batcher[a].batch) + 1
    BY <1>1, <1>5, <2>1 DEF BlocksFrom, Run, AtHand
  <2>3. /\ Run(batcher'[a].batch, AtBatcher(a, base))
        /\ Len(batcher'[a].batch) = Len(batcher[a].batch) + 1
    BY <1>5, <2>1, <2>2, RunAppend DEF BatchesFrom
  <2>4. Len(Hand(a)) = 1 /\ Len(Hand(a)') = 0 /\ Run(Hand(a)', AtHand(a, base)')
    BY <1>1, EmptyRun
  <2>5. AtBlockCh(a, base)' = AtBlockCh(a, base)
    BY <1>4, <1>5, <2>3, <2>4, SMTT(30) DEF AtHand, AtBlockCh
  <2>6. BlocksFrom(a, base)'
    BY <2>1, <2>4, <2>5 DEF BlocksFrom, AtReader
  <2> QED BY <1>4, <2>1, <2>3, <2>6 DEF BatchesFrom
<1>7. FlowFrom(a, base)'
  BY <1>1, <1>2, <1>4, <1>6 DEF FlowFrom
<1> QED BY <1>3, <1>7 DEF FlowInv

\* The batcher's batch goes to the empty channel behind it; the block in its hand,
\* if it still has one, begins the next batch.
LEMMA HandOverFlow ==
  ASSUME Typed, Typed', NEW a \in Attempts, FlowInv(a), Settled \subseteq Settled',
         UNCHANGED <<reader, blockCh, procCh, processor, sender>>,
         batchCh[a] = << >>, batchCh'[a] = <<batcher[a].batch>>,
         \/ batcher'[a].batch = << >> /\ ~ BatcherLive(a)'
         \/ /\ batcher[a].pc = "emit" /\ batcher'[a].pc = "select"
            /\ batcher'[a].batch = Append(<< >>, batcher[a].block)
  PROVE  FlowInv(a)'
<1>1. PICK base \in Nat : SettledUpTo(base) /\ FlowFrom(a, base)
  BY DEF FlowInv
<1>2. SettledUpTo(base)'
  BY <1>1, SettledGrows
<1>3. /\ UNCHANGED <<AtProcCh(a, base), AtProcessor(a, base), AtBatchCh(a, base), ProcessorLive(a)>>
      /\ Content(batchCh[a]) = << >> /\ Content(batchCh'[a]) = batcher[a].batch
  BY DEF AtProcCh, AtProcessor, AtBatchCh, ProcessorLive, Content
<1>4. /\ AtBatchCh(a, base) \in Nat /\ AtHand(a, base) \in Nat /\ AtBatcher(a, base) \in Nat
      /\ batcher[a].batch \in Batches /\ Len(batcher[a].batch) \in Nat /\ Len(<< >>) = 0
  BY CutsTyped, PartsTyped, BatchLength, EmptyRun
<1>5. AtBatcher(a, base) = AtBatchCh(a, base) /\ AtBatcher(a, base)' = AtHand(a, base)
  BY <1>3, <1>4 DEF AtBatcher, AtHand
<1>6. ASSUME ProcessorLive(a)
      PROVE  BatchesFrom(a, base)' /\ (BatcherLive(a)' => BlocksFrom(a, base)')
  <2>1. BatchesFrom(a, base)
    BY <1>1, <1>6 DEF FlowFrom
  <2>2. Run(Content(batchCh'[a]), AtBatchCh(a, base))
    BY <1>3, <1>5, <2>1 DEF BatchesFrom
  <2>3. CASE batcher'[a].batch = << >> /\ ~ BatcherLive(a)'
    BY <1>3, <2>1, <2>2, <2>3, EmptyRun DEF BatchesFrom
  <2>4. CASE /\ batcher[a].pc = "emit" /\ batcher'[a].pc = "select"
             /\ batcher'[a].batch = Append(<< >>, batcher[a].block)
    <3>1. /\ BatcherLive(a) /\ Hand(a) = <<batcher[a].block>> /\ Hand(a)' = << >>
      BY <2>4 DEF BatcherLive, Hand
    <3>2. BlocksFrom(a, base)
      BY <1>1, <1>6, <3>1 DEF FlowFrom
    <3>3. batcher'[a].batch = Hand(a)
      BY <2>4, <3>1
    <3>4. Run(batcher'[a].batch, AtBatcher(a, base)')
      BY <1>5, <3>2, <3>3 DEF BlocksFrom
    <3>5. AtHand(a, base)' = AtBlockCh(a, base)
      BY <1>5, <3>3 DEF AtHand, AtBlockCh
    <3>6. AtBlockCh(a, base) \in Nat
      BY CutsTyped
    <3>7. AtBlockCh(a, base)' = AtBlockCh(a, base)
      BY <1>4, <3>1, <3>5, <3>6 DEF AtBlockCh
    <3>8. BlocksFrom(a, base)'
      BY <3>1, <3>2, <3>7, EmptyRun DEF BlocksFrom, AtReader
    <3> QED BY <1>3, <2>1, <2>2, <3>4, <3>8 DEF BatchesFrom
  <2> QED BY <2>3, <2>4
<1>7. FlowFrom(a, base)'
  BY <1>1, <1>3, <1>6 DEF FlowFrom
<1> QED BY <1>2, <1>7 DEF FlowInv

\* The next block goes from the channel to the batcher's hand.
LEMMA ReceiveFlow ==
  ASSUME Typed, NEW a \in Attempts, FlowInv(a), Settled \subseteq Settled',
         UNCHANGED <<reader, procCh, processor, sender, batchCh, batcher[a].batch>>,
         batcher[a].pc = "select", batcher'[a].pc = "accept",
         blockCh[a] # << >>, batcher'[a].block = Head(blockCh[a]), blockCh'[a] = Tail(blockCh[a])
  PROVE  FlowInv(a)'
<1>1. /\ Hand(a) = << >> /\ Hand(a)' = <<Head(blockCh[a])>>
      /\ BatcherLive(a) /\ BatcherLive(a)' /\ UNCHANGED ProcessorLive(a)
  BY DEF Hand, BatcherLive, ProcessorLive
<1>2. PICK base \in Nat : SettledUpTo(base) /\ FlowFrom(a, base)
  BY DEF FlowInv
<1>3. SettledUpTo(base)'
  BY <1>2, SettledGrows
<1>4. UNCHANGED <<AtProcCh(a, base), AtProcessor(a, base), AtBatchCh(a, base),
                  AtBatcher(a, base), AtHand(a, base)>>
  BY DEF AtProcCh, AtProcessor, AtBatchCh, AtBatcher, AtHand
<1>5. /\ AtHand(a, base) \in Nat /\ AtBlockCh(a, base) = AtHand(a, base)
      /\ blockCh[a] \in Batches /\ Len(blockCh[a]) \in Nat
  <2>1. AtHand(a, base) \in Nat /\ blockCh[a] \in Batches /\ Len(blockCh[a]) \in Nat
    BY CutsTyped, PartsTyped, BatchLength
  <2> QED BY <1>1, <2>1, EmptyRun DEF AtBlockCh
<1>6. ASSUME ProcessorLive(a)
      PROVE  BlocksFrom(a, base)'
  <2>1. BlocksFrom(a, base)
    BY <1>1, <1>2, <1>6 DEF FlowFrom
  <2>2. /\ Head(blockCh[a]) = AtHand(a, base) + 1
        /\ Run(blockCh'[a], AtHand(a, base) + 1) /\ Len(blockCh'[a]) = Len(blockCh[a]) - 1
    BY <1>5, <2>1, RunTail DEF BlocksFrom
  <2>3. Run(Hand(a)', AtHand(a, base)) /\ Len(Hand(a)') = 1
    BY <1>1, <1>5, <2>2, RunOfOne
  <2>4. AtBlockCh(a, base)' = AtHand(a, base) + 1
    BY <1>4, <2>3 DEF AtBlockCh
  <2>5. AtReader(a, base)' = AtReader(a, base)
    BY <1>5, <2>2, <2>4 DEF AtReader
  <2> QED BY <1>4, <2>1, <2>2, <2>3, <2>4, <2>5 DEF BlocksFrom
<1>7. FlowFrom(a, base)'
  BY <1>1, <1>2, <1>4, <1>6 DEF FlowFrom, BatchesFrom
<1> QED BY <1>3, <1>7 DEF FlowInv

\* The batcher keeps what is under way in order, also when it drops its block.
LEMMA BatcherFlow ==
  ASSUME Typed, Typed', NEW a \in Attempts, FlowInv(a), BatcherStep(a),
         Settled \subseteq Settled'
  PROVE  FlowInv(a)'
<1>1. UNCHANGED <<reader, procCh, processor, sender>>
  BY DEF BatcherStep
<1>2. UNCHANGED ProcessorLive(a)
  BY <1>1 DEF ProcessorLive
<1>3. CASE BatcherReceives(a)
  <2>1. /\ batcher[a].pc = "select" /\ batchCh' = batchCh /\ batcher'[a].batch = batcher[a].batch
        /\ blockCh[a] # << >> /\ blockCh'[a] = Tail(blockCh[a])
        /\ \/ batcher'[a].pc = "accept" /\ batcher'[a].block = Head(blockCh[a])
           \/ batcher'[a].pc = "report"
    BY <1>3 DEF Typed, BatcherOK, BlockChOK, BatcherReceives
  <2>2. CASE batcher'[a].pc = "accept" /\ batcher'[a].block = Head(blockCh[a])
    BY <1>1, <2>1, <2>2, ReceiveFlow
  <2>3. CASE batcher'[a].pc = "report"
    BY <1>1, <1>2, <2>1, <2>3, FlowKept DEF BatcherLive
  <2> QED BY <2>1, <2>2, <2>3
<1>4. CASE BatcherCollects(a)
  <2>1. batcher[a].pc = "accept" /\ blockCh' = blockCh /\ batchCh' = batchCh
    BY <1>4 DEF BatcherCollects
  <2>2. CASE batcher' = [batcher EXCEPT ![a].pc = "emit"]
    <3>1. /\ UNCHANGED <<batcher[a].batch, Hand(a)>> /\ BatcherLive(a)
      BY <2>1, <2>2 DEF Typed, BatcherOK, Hand, BatcherLive
    <3> QED BY <1>1, <1>2, <2>1, <3>1, FlowKept
  <2>3. CASE PushBlock(a, batcher[a].block, batcher[a].batch)
    <3>1. CASE /\ batcher'[a].pc = "select"
               /\ batcher'[a].batch = Append(batcher[a].batch, batcher[a].block)
      BY <1>1, <2>1, <3>1, PushFlow
    <3>2. CASE batcher'[a].pc = "report" /\ batcher'[a].batch = batcher[a].batch
      BY <1>1, <1>2, <2>1, <3>2, FlowKept DEF BatcherLive
    <3> QED BY <2>3, <3>1, <3>2, PushEffect
  <2> QED BY <1>4, <2>2, <2>3 DEF BatcherCollects
<1>5. CASE BatcherReleases(a)
  <2>1. /\ batcher[a].pc = "emit" /\ blockCh' = blockCh
        /\ batchCh[a] = << >> /\ batchCh'[a] = <<batcher[a].batch>>
        /\ PushBlock(a, batcher[a].block, << >>)
    BY <1>5 DEF Typed, BatchChOK, BatcherReleases
  <2>2. CASE batcher'[a].pc = "select" /\ batcher'[a].batch = Append(<< >>, batcher[a].block)
    BY <1>1, <2>1, <2>2, HandOverFlow
  <2>3. CASE batcher'[a].pc = "report" /\ batcher'[a].batch = << >>
    BY <1>1, <2>1, <2>3, HandOverFlow DEF BatcherLive
  <2> QED BY <2>1, <2>2, <2>3, PushEffect
<1>6. CASE BatcherReports(a) \/ BatcherLeaves(a)
  <2>1. /\ batchCh' = batchCh /\ batcher'[a].batch = batcher[a].batch
        /\ batcher'[a].pc \in {"flush", "closed"}
    <3>1. Deferred(a) \in {"flush", "closed"}
      BY DEF Deferred
    <3> QED BY <1>6, <3>1 DEF Typed, BatcherOK, BatcherState, BatcherReports, BatcherLeaves
  <2> QED BY <1>1, <1>2, <2>1, FlowKept DEF BatcherLive
<1>7. CASE BatcherCloses(a)
  <2>1. /\ blockCh' = blockCh /\ batchCh[a] = << >> /\ batchCh'[a] = <<batcher[a].batch>>
        /\ batcher'[a].pc = "closed" /\ batcher'[a].batch = << >>
    BY <1>7 DEF Typed, BatcherOK, BatchChOK, BatcherCloses
  <2> QED BY <1>1, <2>1, HandOverFlow DEF BatcherLive
<1> QED BY <1>3, <1>4, <1>5, <1>6, <1>7 DEF BatcherStep

\* So does the processor: when it fails, nothing behind it counts any more.
LEMMA ProcessorFlow ==
  ASSUME Typed, NEW a \in Attempts, FlowInv(a), EmptyHanded(a), ProcessorStep(a),
         Settled \subseteq Settled'
  PROVE  FlowInv(a)'
<1>1. UNCHANGED <<reader, blockCh, batcher, sender>>
  BY DEF ProcessorStep
<1>2. UNCHANGED <<Hand(a), BatcherLive(a)>>
  BY <1>1 DEF Hand, BatcherLive
<1>3. CASE ProcessorFails(a) \/ ProcessorReports(a) \/ ProcessorLeaves(a)
  <2>1. procCh' = procCh /\ ~ ProcessorLive(a)'
    BY <1>3 DEF Typed, ProcessorOK, ProcessorFails, ProcessorReports, ProcessorLeaves, ProcessorLive
  <2> QED BY <1>1, <2>1, FlowKept
<1>4. ASSUME ProcessorTakes(a) \/ ProcessorHandsOver(a)
      PROVE  /\ ProcessorLive(a)
             /\ \A base \in Nat : FlowFrom(a, base) => FlowFrom(a, base)'
  <2>1. ProcessorLive(a)
    BY <1>4 DEF ProcessorTakes, ProcessorHandsOver, ProcessorLive
  <2> SUFFICES ASSUME NEW base \in Nat, FlowFrom(a, base)
               PROVE  FlowFrom(a, base)'
    BY <2>1
  <2>2. BatchesFrom(a, base) /\ (BatcherLive(a) => BlocksFrom(a, base))
    BY <2>1 DEF FlowFrom
  <2>3. /\ AtProcCh(a, base) \in Nat /\ AtProcessor(a, base) \in Nat /\ AtBatchCh(a, base) \in Nat
        /\ Len(processor[a].batch) \in Nat /\ Len(Content(batchCh[a])) \in Nat
        /\ Len(Content(procCh[a])) \in Nat
    BY CutsTyped, PartsTyped, BatchLength
  <2>4. CASE ProcessorTakes(a)
    <3>1. /\ UNCHANGED procCh /\ processor'[a].batch = Content(batchCh[a])
          /\ Content(batchCh'[a]) = << >> /\ processor[a].batch = << >>
      BY <2>4 DEF Typed, ProcessorOK, BatchChOK, ProcessorTakes, Content, EmptyHanded
    <3>2. UNCHANGED <<AtProcCh(a, base), AtProcessor(a, base)>>
      BY <1>1, <3>1 DEF AtProcCh, AtProcessor
    <3>3. AtBatchCh(a, base) = AtProcessor(a, base) /\ AtBatchCh(a, base)' = AtBatcher(a, base)
      BY <2>3, <3>1, <3>2, EmptyRun DEF AtBatchCh, AtBatcher
    <3>4. AtBatcher(a, base)' = AtBatcher(a, base) /\ AtBatcher(a, base) \in Nat
      <4>1. AtBatcher(a, base) \in Nat
        BY CutsTyped
      <4> QED BY <3>1, <3>3, <4>1, EmptyRun DEF AtBatcher
    <3>5. UNCHANGED <<AtHand(a, base), AtBlockCh(a, base), AtReader(a, base)>>
      BY <1>1, <1>2, <3>4 DEF AtHand, AtBlockCh, AtReader
    <3>6. BatchesFrom(a, base)'
      BY <1>1, <2>2, <3>1, <3>2, <3>3, <3>4, EmptyRun DEF BatchesFrom
    <3>7. BatcherLive(a) => BlocksFrom(a, base)'
      BY <1>1, <1>2, <2>2, <3>5 DEF BlocksFrom
    <3> QED BY <1>1, <1>2, <3>1, <3>2, <3>6, <3>7 DEF FlowFrom
  <2>5. CASE ProcessorHandsOver(a)
    <3>1. /\ UNCHANGED batchCh /\ processor'[a].batch = << >>
          /\ Content(procCh[a]) = << >> /\ Content(procCh'[a]) = processor[a].batch
      BY <2>5 DEF Typed, ProcessorOK, ProcChOK, ProcessorHandsOver, Content
    <3>2. UNCHANGED AtProcCh(a, base)
      BY <1>1 DEF AtProcCh
    <3>3. AtProcessor(a, base) = AtProcCh(a, base) /\ AtProcessor(a, base)' = AtBatchCh(a, base)
      BY <2>3, <3>1, <3>2, EmptyRun DEF AtProcessor, AtBatchCh
    <3>4. AtBatchCh(a, base)' = AtBatchCh(a, base)
      BY <2>3, <3>1, <3>3, EmptyRun DEF AtBatchCh
    <3>5. UNCHANGED <<AtBatcher(a, base), AtHand(a, base), AtBlockCh(a, base), AtReader(a, base)>>
      BY <1>1, <1>2, <3>1, <3>4 DEF AtBatcher, AtHand, AtBlockCh, AtReader
    <3>6. BatchesFrom(a, base)'
      BY <1>1, <2>2, <3>1, <3>4, <3>5, EmptyRun DEF BatchesFrom
    <3>7. BatcherLive(a) => BlocksFrom(a, base)'
      BY <1>1, <1>2, <2>2, <3>5 DEF BlocksFrom
    <3>8. Run(Content(procCh'[a]), AtProcCh(a, base)')
      BY <2>2, <3>1, <3>2, <3>3 DEF BatchesFrom
    <3> QED BY <1>1, <1>2, <3>6, <3>7, <3>8 DEF FlowFrom
  <2> QED BY <1>4, <2>4, <2>5
<1> QED BY <1>3, <1>4, SettledGrows DEF ProcessorStep, FlowInv

\* The sender forgets a batch that is settled: the rest begins behind it.
LEMMA DropFlow ==
  ASSUME Typed, NEW a \in Attempts, FlowInv(a), Settled \subseteq Settled',
         UNCHANGED <<reader, blockCh, batcher, batchCh, processor, procCh>>,
         sender'[a].batch = << >>, Positions(sender[a].batch) \subseteq Settled
  PROVE  FlowInv(a)'
<1>1. PICK base \in Nat : SettledUpTo(base) /\ FlowFrom(a, base)
  BY DEF FlowInv
<1>2. /\ AtProcCh(a, base) \in Nat /\ sender[a].batch \in Batches
      /\ Run(sender[a].batch, base)
  BY <1>1, CutsTyped, PartsTyped DEF FlowFrom
<1>3. PICK next \in Nat : next = AtProcCh(a, base) /\ SettledUpTo(next)
  BY <1>1, <1>2, RunSettled DEF AtProcCh
<1>4. AtProcCh(a, next)' = next
  BY EmptyRun DEF AtProcCh
<1>5. /\ AtProcessor(a, next)' = AtProcessor(a, base)
      /\ AtBatchCh(a, next)' = AtBatchCh(a, base)
      /\ AtBatcher(a, next)' = AtBatcher(a, base)
      /\ AtHand(a, next)' = AtHand(a, base)
      /\ AtBlockCh(a, next)' = AtBlockCh(a, base)
      /\ AtReader(a, next)' = AtReader(a, base)
  BY <1>3, <1>4 DEF AtProcessor, AtBatchCh, AtBatcher, AtHand, AtBlockCh, AtReader, Hand
<1>6. FlowFrom(a, next)'
  BY <1>1, <1>3, <1>4, <1>5, EmptyRun
     DEF FlowFrom, BatchesFrom, BlocksFrom, ProcessorLive, BatcherLive, Hand
<1> QED BY <1>3, <1>6, SettledGrows DEF FlowInv

\* The sender takes over what is in the channel before it.
LEMMA TakeFlow ==
  ASSUME Typed, NEW a \in Attempts, FlowInv(a), Settled \subseteq Settled',
         UNCHANGED <<reader, blockCh, batcher, batchCh, processor>>,
         sender[a].batch = << >>, sender'[a].batch = Content(procCh[a]),
         Content(procCh'[a]) = << >>
  PROVE  FlowInv(a)'
<1>1. PICK base \in Nat : SettledUpTo(base) /\ FlowFrom(a, base)
  BY DEF FlowInv
<1>2. AtProcCh(a, base) = base
  BY EmptyRun DEF AtProcCh
<1>3. AtProcCh(a, base)' = AtProcessor(a, base)
  BY <1>2 DEF AtProcCh, AtProcessor
<1>4. AtProcessor(a, base)' = AtProcessor(a, base)
  <2>1. AtProcessor(a, base) \in Nat
    BY CutsTyped
  <2> QED BY <1>3, <2>1, EmptyRun DEF AtProcessor
<1>5. UNCHANGED <<AtBatchCh(a, base), AtBatcher(a, base), AtHand(a, base), AtBlockCh(a, base),
                  AtReader(a, base)>>
  BY <1>4 DEF AtBatchCh, AtBatcher, AtHand, AtBlockCh, AtReader, Hand
<1>6. FlowFrom(a, base)'
  BY <1>1, <1>2, <1>3, <1>4, <1>5, EmptyRun
     DEF FlowFrom, BatchesFrom, BlocksFrom, ProcessorLive, BatcherLive, Hand
<1> QED BY <1>1, <1>6, SettledGrows DEF FlowInv

\* What the sender of attempt a does to its batch, to what is settled, and to the
\* cursors.
LEMMA SenderEffect ==
  ASSUME Typed, NEW a \in Attempts, SenderStep(a)
  PROVE  /\ UNCHANGED <<reader, blockCh, batcher, batchCh, processor>>
         /\ delivered \subseteq delivered' /\ abandoned \subseteq abandoned'
         /\ \/ delivered' = delivered
            \/ delivered' = delivered \cup Positions(sender[a].batch) /\ sender[a].pc = "send"
         /\ \/ UNCHANGED <<manager.position, cursor.position, patches>>
            \/ /\ sender[a].pc \in {"commit", "store"}
               /\ manager'.position \in {manager.position, CommitPosition(sender[a].batch)}
               /\ cursor'.position \in {cursor.position, CommitPosition(sender[a].batch)}
               /\ patches' \subseteq patches \cup {CommitPosition(sender[a].batch)}
         /\ \/ /\ procCh' = procCh /\ sender'[a].batch = sender[a].batch
               /\ \/ /\ sender[a].pc = "send" /\ sender'[a].pc \in {"send", "commit", "report"}
                     /\ sender'[a].pc # "send" => Positions(sender[a].batch) \subseteq Settled'
                  \/ /\ sender[a].pc \in {"commit", "store", "react", "mark"}
                     /\ sender'[a].pc \in {"store", "react", "mark", "done", "report"}
                  \/ sender[a].pc = "select" /\ sender'[a].pc = "closed"
            \/ /\ procCh' = procCh /\ sender'[a].batch = << >> /\ sender'[a].pc = "select"
               /\ sender[a].pc \in {"react", "mark", "done", "report"}
            \/ /\ sender[a].pc = "select" /\ sender'[a].pc = "send"
               /\ sender'[a].batch = Content(procCh[a]) /\ Content(procCh'[a]) = << >>
<1>1. UNCHANGED <<reader, blockCh, batcher, batchCh, processor>>
  BY DEF SenderStep
<1>2. sender \in [Attempts -> SenderState] /\ procCh \in [Attempts -> Seq(Batches)]
  BY DEF Typed, SenderOK, ProcChOK
<1>3. ASSUME SenderLoops(a)
      PROVE  sender'[a].batch = << >> /\ sender'[a].pc = "select"
  BY <1>2, <1>3 DEF SenderLoops, IdleSender
<1>4. ASSUME NEW kind, SenderReportsNext(a, kind)
      PROVE  sender'[a].batch = sender[a].batch /\ sender'[a].pc = "report"
  BY <1>2, <1>4 DEF SenderReportsNext, SenderState
<1>5. CASE SenderTakes(a) /\ UNCHANGED <<stateVars, externalVars, faults>>
  <2>1. /\ sender'[a].batch = procCh[a][1] /\ sender'[a].pc = "send" /\ sender[a].pc = "select"
        /\ procCh[a] # << >> /\ procCh'[a] = << >>
    BY <1>2, <1>5 DEF SenderTakes, SenderState
  <2>2. sender'[a].batch = Content(procCh[a]) /\ Content(procCh'[a]) = << >>
    BY <2>1 DEF Content
  <2> QED BY <1>1, <1>5, <2>1, <2>2 DEF stateVars, externalVars
<1>6. CASE SenderDone(a) /\ UNCHANGED <<stateVars, externalVars, faults>>
  BY <1>1, <1>3, <1>6 DEF SenderDone, stateVars, externalVars
<1>7. CASE SenderReports(a) /\ UNCHANGED <<stateVars, externalVars, faults>>
  BY <1>1, <1>3, <1>7 DEF SenderReports, stateVars, externalVars
<1>8. CASE SenderLeaves(a) /\ UNCHANGED <<stateVars, externalVars, faults>>
  <2>1. sender'[a].batch = sender[a].batch /\ sender'[a].pc = "closed"
    BY <1>2, <1>8 DEF SenderLeaves, SenderState
  <2> QED BY <1>1, <1>8, <2>1 DEF SenderLeaves, stateVars, externalVars
<1>9. CASE SendSucceeds(a) /\ UNCHANGED <<results, procCh, stateVars, manager, patches>>
  <2>1. sender'[a].batch = sender[a].batch /\ sender'[a].pc = "commit"
    BY <1>2, <1>9 DEF SendSucceeds, SenderState
  <2> QED BY <1>1, <1>9, <2>1 DEF SendSucceeds, stateVars, Settled
<1>10. CASE SendFails(a) /\ UNCHANGED <<results, procCh, stateVars, manager, patches>>
  <2>1. sender'[a].batch = sender[a].batch /\ sender'[a].pc = sender[a].pc
    BY <1>2, <1>10 DEF SendFails, SenderState
  <2> QED BY <1>1, <1>10, <2>1 DEF SendFails, stateVars
<1>11. CASE SendExhausted(a) /\ UNCHANGED <<results, procCh, stateVars, manager, patches>>
  BY <1>1, <1>4, <1>11 DEF SendExhausted, stateVars, Settled
<1>12. CASE CommitSucceeds(a) /\ UNCHANGED <<results, procCh, delivered, abandoned>>
  <2>1. sender'[a].batch = sender[a].batch /\ sender'[a].pc = "store"
    BY <1>2, <1>12 DEF CommitSucceeds, SenderState
  <2>2. manager'.position = CommitPosition(sender[a].batch)
    BY <1>12 DEF CommitSucceeds, Typed, ExternalOK
  <2> QED BY <1>1, <1>12, <2>1, <2>2 DEF CommitSucceeds, stateVars
<1>13. CASE CommitFails(a) /\ UNCHANGED <<results, procCh, delivered, abandoned>>
  <2>1. manager'.position \in {manager.position, CommitPosition(sender[a].batch)}
    BY <1>13 DEF CommitFails, Typed, ExternalOK
  <2>2. patches' \subseteq patches \cup {CommitPosition(sender[a].batch)}
    BY <1>13 DEF CommitFails
  <2>3. sender'[a].batch = sender[a].batch /\ sender'[a].pc = "report"
    BY <1>4, <1>13 DEF CommitFails
  <2> QED BY <1>1, <1>13, <2>1, <2>2, <2>3 DEF CommitFails, stateVars
<1>14. CASE SenderStores(a) /\ UNCHANGED <<results, procCh, delivered, abandoned>>
  <2>1. cursor'.position = CommitPosition(sender[a].batch) /\ UNCHANGED <<manager, patches>>
    BY <1>14 DEF SenderStores
  <2>2. sender'[a].batch = sender[a].batch /\ sender'[a].pc = "react" /\ sender[a].pc = "store"
    BY <1>2, <1>14 DEF SenderStores, SenderState
  <2> QED BY <1>1, <1>14, <2>1, <2>2
<1>15. CASE SenderReacts(a) /\ UNCHANGED <<results, procCh, delivered, abandoned>>
  <2>1. UNCHANGED <<manager, cursor, patches>> /\ sender[a].pc = "react"
    BY <1>15 DEF SenderReacts
  <2>2. \/ sender'[a].batch = sender[a].batch /\ sender'[a].pc \in {"mark", "done", "report"}
        \/ sender'[a].batch = << >> /\ sender'[a].pc = "select"
    BY <1>2, <1>3, <1>4, <1>15 DEF SenderReacts, SenderState
  <2> QED BY <1>1, <1>15, <2>1, <2>2
<1>16. CASE MarkSucceeds(a) /\ UNCHANGED <<results, procCh, delivered, abandoned>>
  <2>1. manager'.position = manager.position
    BY <1>16 DEF MarkSucceeds, Typed, ExternalOK
  <2> QED BY <1>1, <1>3, <1>16, <2>1 DEF MarkSucceeds
<1>17. CASE MarkFails(a) /\ UNCHANGED <<results, procCh, delivered, abandoned>>
  <2>1. manager'.position = manager.position
    BY <1>17 DEF MarkFails, Typed, ExternalOK
  <2> QED BY <1>1, <1>4, <1>17, <2>1 DEF MarkFails, stateVars
<1> QED BY <1>5, <1>6, <1>7, <1>8, <1>9, <1>10, <1>11, <1>12, <1>13, <1>14, <1>15, <1>16, <1>17
       DEF SenderStep

\* And the sender, which takes a batch from the front or drops one it has settled.
LEMMA SenderFlow ==
  ASSUME Typed, NEW a \in Attempts, FlowInv(a), EmptyHanded(a), BatchSettled(a), SenderStep(a)
  PROVE  FlowInv(a)' /\ EmptyHanded(a)' /\ BatchSettled(a)' /\ Settled \subseteq Settled'
<1>1. /\ UNCHANGED <<reader, blockCh, batcher, batchCh, processor>>
      /\ Settled \subseteq Settled'
  BY SenderEffect DEF Settled
<1>2. UNCHANGED <<ProcessorLive(a), BatcherLive(a), Hand(a)>>
  BY <1>1 DEF ProcessorLive, BatcherLive, Hand
<1>3. CASE /\ procCh' = procCh /\ sender'[a].batch = sender[a].batch
           /\ \/ /\ sender[a].pc = "send" /\ sender'[a].pc \in {"send", "commit", "report"}
                 /\ sender'[a].pc # "send" => Positions(sender[a].batch) \subseteq Settled'
              \/ /\ sender[a].pc \in {"commit", "store", "react", "mark"}
                 /\ sender'[a].pc \in {"store", "react", "mark", "done", "report"}
              \/ sender[a].pc = "select" /\ sender'[a].pc = "closed"
  <2>1. FlowInv(a)'
    BY <1>1, <1>2, <1>3, FlowKept
  <2>2. EmptyHanded(a)' /\ BatchSettled(a)'
    BY <1>1, <1>3 DEF EmptyHanded, BatchSettled
  <2> QED BY <1>1, <2>1, <2>2
<1>4. CASE /\ procCh' = procCh /\ sender'[a].batch = << >> /\ sender'[a].pc = "select"
           /\ sender[a].pc \in {"react", "mark", "done", "report"}
  <2>1. FlowInv(a)'
    BY <1>1, <1>4, DropFlow DEF BatchSettled
  <2>2. EmptyHanded(a)' /\ BatchSettled(a)'
    BY <1>1, <1>4 DEF EmptyHanded, BatchSettled
  <2> QED BY <1>1, <2>1, <2>2
<1>5. CASE /\ sender[a].pc = "select" /\ sender'[a].pc = "send"
           /\ sender'[a].batch = Content(procCh[a]) /\ Content(procCh'[a]) = << >>
  <2>1. FlowInv(a)'
    BY <1>1, <1>5, TakeFlow DEF EmptyHanded
  <2>2. EmptyHanded(a)' /\ BatchSettled(a)'
    BY <1>1, <1>5 DEF EmptyHanded, BatchSettled
  <2> QED BY <1>1, <2>1, <2>2
<1> QED BY <1>3, <1>4, <1>5, SenderEffect

\* A batch whose sender commits it is settled, and so is everything before it.
LEMMA CommitIsSettled ==
  ASSUME Typed, NEW a \in Attempts, FlowInv(a), BatchSettled(a),
         sender[a].pc \in {"commit", "store"}
  PROVE  SettledUpTo(CommitPosition(sender[a].batch))
<1>1. PICK base \in Nat : SettledUpTo(base) /\ Run(sender[a].batch, base)
  BY DEF FlowInv, FlowFrom
<1>2. sender[a].batch \in Batches /\ sender[a].batch # << >>
  BY DEF Typed, SenderOK, SenderState, WithBatch
<1>3. Positions(sender[a].batch) \subseteq Settled
  BY DEF BatchSettled
<1> QED BY <1>1, <1>2, <1>3, RunSettled DEF CommitPosition

\* A batch that is delivered comes right behind what was settled before.
LEMMA DeliveryIsInOrder ==
  ASSUME Typed, NEW a \in Attempts, FlowInv(a), NEW p \in Positions(sender[a].batch)
  PROVE  1 .. p \subseteq Settled \cup Positions(sender[a].batch)
<1>1. PICK base \in Nat : SettledUpTo(base) /\ Run(sender[a].batch, base)
  BY DEF FlowInv, FlowFrom
<1>2. sender[a].batch \in Batches
  BY DEF Typed, SenderOK, SenderState
<1>3. 1 .. p \subseteq 1 .. base \cup Positions(sender[a].batch)
  BY <1>1, <1>2, RunSettled
<1> QED BY <1>1, <1>3 DEF SettledUpTo

\* What a sender delivers comes next, and what it commits is settled.
LEMMA SenderKeepsOrder ==
  ASSUME Typed, NEW a \in Attempts, FlowInv(a), BatchSettled(a), NoSilentLoss, DeliveredInOrder,
         SenderStep(a)
  PROVE  NoSilentLoss' /\ DeliveredInOrder'
<1>1. Settled \subseteq Settled'
  BY SenderEffect DEF Settled
<1>2. \A p : SettledUpTo(p) => SettledUpTo(p)'
  BY <1>1, SettledGrows
<1>3. NoSilentLoss'
  <2> DEFINE committed == CommitPosition(sender[a].batch)
  <2>1. CASE UNCHANGED <<manager.position, cursor.position, patches>>
    BY <1>1, <2>1 DEF NoSilentLoss, SettledUpTo
  <2>2. CASE /\ sender[a].pc \in {"commit", "store"}
             /\ manager'.position \in {manager.position, committed}
             /\ cursor'.position \in {cursor.position, committed}
             /\ patches' \subseteq patches \cup {committed}
    <3>1. SettledUpTo(committed)
      BY <2>2, CommitIsSettled
    <3> HIDE DEF committed
    <3>2. /\ 1 .. manager'.position \subseteq Settled' /\ 1 .. cursor'.position \subseteq Settled'
          /\ \A p \in patches' : 1 .. p \subseteq Settled'
      BY <1>1, <2>2, <3>1 DEF NoSilentLoss, SettledUpTo
    <3> QED BY <3>2 DEF NoSilentLoss, SettledUpTo
  <2> QED BY <2>1, <2>2, SenderEffect
<1>4. DeliveredInOrder'
  <2>1. CASE delivered' = delivered
    BY <1>2, <2>1 DEF DeliveredInOrder
  <2>2. CASE delivered' = delivered \cup Positions(sender[a].batch)
    <3>1. Settled \cup Positions(sender[a].batch) \subseteq Settled'
      BY <1>1, <2>2 DEF Settled
    <3>2. \A p \in Positions(sender[a].batch) : SettledUpTo(p)'
      BY <3>1, DeliveryIsInOrder DEF SettledUpTo
    <3> QED BY <1>2, <2>2, <3>2 DEF DeliveredInOrder
  <2> QED BY <2>1, <2>2, SenderEffect
<1> QED BY <1>3, <1>4

\* No batch is taken back from the destination, and no report is withdrawn.
LEMMA SettledOnlyGrows ==
  ASSUME Typed, [Next]_vars
  PROVE  Settled \subseteq Settled' /\ UNCHANGED stream
<1>1. CASE UNCHANGED vars
  BY <1>1 DEF vars, externalVars, Settled
<1>2. CASE RunnerStep
  BY <1>2 DEF RunnerStep, externalVars, Settled
<1>3. CASE \E a \in Attempts : GoroutineStep(a)
  <2>1. PICK a \in Attempts : GoroutineStep(a)
    BY <1>3
  <2>2. CASE ReaderStep(a) \/ BatcherStep(a) \/ ProcessorStep(a)
    BY <2>2 DEF ReaderStep, BatcherStep, ProcessorStep, externalVars, Settled
  <2>3. CASE SenderStep(a)
    <3>1. UNCHANGED stream
      BY <2>3 DEF SenderStep
    <3> QED BY <2>3, <3>1, SenderEffect DEF Settled
  <2> QED BY <2>1, <2>2, <2>3 DEF GoroutineStep
<1>4. CASE LatePatch \/ Intervene
  BY <1>4 DEF LatePatch, Intervene, Settled
<1>5. CASE Restart
  BY <1>5 DEF Restart, Settled
<1> QED BY <1>1, <1>2, <1>3, <1>4, <1>5 DEF Next

-----------------------------------------------------------------------------
(***************************************************************************)
(* The invariant.                                                          *)
(***************************************************************************)

AttemptOK(a) == FlowInv(a) /\ EmptyHanded(a) /\ BatchSettled(a)

\* An attempt nobody touches keeps its part of the invariant.
LEMMA AttemptUntouched ==
  ASSUME NEW a \in Attempts, AttemptOK(a), UNCHANGED AttemptState(a), Settled \subseteq Settled'
  PROVE  AttemptOK(a)'
<1>1. FlowInv(a)'
  BY FlowKept DEF AttemptOK, AttemptState, ProcessorLive, BatcherLive, Hand
<1>2. EmptyHanded(a)' /\ BatchSettled(a)'
  BY DEF AttemptOK, AttemptState, EmptyHanded, BatchSettled
<1> QED BY <1>1, <1>2 DEF AttemptOK

\* An attempt with nothing under way, whose reader, if it has one, goes on where
\* everything is settled.
NothingUnderWay(a) ==
  /\ sender[a].batch = << >> /\ Content(procCh[a]) = << >> /\ processor[a].batch = << >>
  /\ Content(batchCh[a]) = << >> /\ batcher[a].batch = << >>
  /\ Hand(a) = << >> /\ blockCh[a] = << >>

\* An attempt with nothing under way begins wherever everything is settled.
LEMMA FlowOfNothing ==
  ASSUME NEW a \in Attempts, NothingUnderWay(a), NEW base \in Nat, SettledUpTo(base),
         reader[a].pc # "idle" => reader[a].next = base + 1
  PROVE  FlowInv(a)
<1>1. /\ AtProcCh(a, base) = base /\ AtProcessor(a, base) = base /\ AtBatchCh(a, base) = base
      /\ AtBatcher(a, base) = base /\ AtHand(a, base) = base /\ AtBlockCh(a, base) = base
      /\ AtReader(a, base) = base
  BY EmptyRun DEF NothingUnderWay, AtProcCh, AtProcessor, AtBatchCh, AtBatcher, AtHand, AtBlockCh,
                  AtReader
<1>2. FlowFrom(a, base)
  BY <1>1, EmptyRun DEF NothingUnderWay, FlowFrom, BatchesFrom, BlocksFrom
<1> QED BY <1>2 DEF FlowInv

\* The same of the state after a step.
LEMMA FlowOfNothingNext ==
  ASSUME NEW a \in Attempts, NothingUnderWay(a)', NEW base \in Nat, SettledUpTo(base)',
         reader'[a].pc # "idle" => reader'[a].next = base + 1
  PROVE  FlowInv(a)'
<1>1. /\ AtProcCh(a, base)' = base /\ AtProcessor(a, base)' = base /\ AtBatchCh(a, base)' = base
      /\ AtBatcher(a, base)' = base /\ AtHand(a, base)' = base /\ AtBlockCh(a, base)' = base
      /\ AtReader(a, base)' = base
  BY EmptyRun DEF NothingUnderWay, AtProcCh, AtProcessor, AtBatchCh, AtBatcher, AtHand, AtBlockCh,
                  AtReader
<1>2. FlowFrom(a, base)'
  BY <1>1, EmptyRun DEF NothingUnderWay, FlowFrom, BatchesFrom, BlocksFrom
<1> QED BY <1>2 DEF FlowInv

\* When the sink is launched nothing is under way and nothing committed.
LEMMA InitInv == Init => Inv
<1> SUFFICES ASSUME Init PROVE Inv
  OBVIOUS
<1>1. manager.position = 0 /\ cursor.position = 0 /\ patches = {} /\ delivered = {}
  BY DEF Init
<1>2. SettledUpTo(0)
  BY DEF SettledUpTo
<1>3. NoSilentLoss /\ DeliveredInOrder
  BY <1>1, <1>2 DEF NoSilentLoss, DeliveredInOrder
<1>4. ASSUME NEW a \in Attempts
      PROVE  FlowInv(a) /\ EmptyHanded(a) /\ BatchSettled(a)
  <2>1. NothingUnderWay(a) /\ reader[a].pc = "idle" /\ sender[a].pc = "idle"
    BY DEF Init, All, NothingUnderWay, Content, Hand, IdleReader, IdleBatcher, IdleProcessor,
           IdleSender
  <2> QED BY <1>2, <2>1, FlowOfNothing DEF EmptyHanded, BatchSettled, NothingUnderWay
<1> QED BY <1>3, <1>4 DEF Inv

\* A goroutine keeps the invariant, of its own attempt and of the others.
LEMMA GoroutineInv ==
  ASSUME Typed, Typed', Inv, Settled \subseteq Settled', NEW a \in Attempts, GoroutineStep(a)
  PROVE  Inv'
<1>1. \A d \in Attempts : AttemptOK(d)
  BY DEF Inv, AttemptOK
<1>2. \A d \in Attempts : d # a => AttemptOK(d)'
  BY <1>1, OthersStay, AttemptUntouched
<1>3. AttemptOK(a)'
  <2> USE <1>1 DEF AttemptOK
  <2>1. CASE ReaderStep(a)
    <3>1. UNCHANGED <<processor, sender>>
      BY <2>1 DEF ReaderStep, workers
    <3> QED BY <2>1, <3>1, ReaderFlow DEF EmptyHanded, BatchSettled
  <2>2. CASE BatcherStep(a)
    <3>1. UNCHANGED <<processor, sender>>
      BY <2>2 DEF BatcherStep
    <3> QED BY <2>2, <3>1, BatcherFlow DEF EmptyHanded, BatchSettled
  <2>3. CASE ProcessorStep(a)
    <3>1. UNCHANGED sender
      BY <2>3 DEF ProcessorStep
    <3>2. processor'[a].pc # "process" => processor'[a].batch = << >>
      BY <2>3 DEF Typed, ProcessorOK, EmptyHanded, ProcessorStep, ProcessorTakes,
                  ProcessorHandsOver, ProcessorFails, ProcessorReports, ProcessorLeaves
    <3> QED BY <2>3, <3>1, <3>2, ProcessorFlow DEF EmptyHanded, BatchSettled
  <2>4. CASE SenderStep(a)
    BY <2>4, SenderFlow
  <2> QED BY <2>1, <2>2, <2>3, <2>4 DEF GoroutineStep
<1>4. NoSilentLoss' /\ DeliveredInOrder'
  <2>1. CASE ReaderStep(a) \/ BatcherStep(a) \/ ProcessorStep(a)
    <3>1. UNCHANGED <<manager, cursor, patches, delivered, abandoned>>
      BY <2>1 DEF ReaderStep, BatcherStep, ProcessorStep, processVars, stateVars, externalVars
    <3> QED BY <3>1 DEF Inv, NoSilentLoss, DeliveredInOrder, SettledUpTo, Settled
  <2>2. CASE SenderStep(a)
    BY <1>1, <2>2, SenderKeepsOrder DEF Inv, AttemptOK
  <2> QED BY <2>1, <2>2 DEF GoroutineStep
<1> QED BY <1>2, <1>3, <1>4 DEF Inv, AttemptOK

\* The runner keeps it: an attempt begins behind the cursor, and that is settled.
LEMMA RunnerInv ==
  ASSUME Typed, AttemptInv, Inv, RunnerStep
  PROVE  Inv'
<1>1. UNCHANGED <<manager, cursor, patches, delivered, abandoned, blockCh, batchCh, procCh>>
  BY DEF RunnerStep, processVars, stateVars, externalVars
<1>2. NoSilentLoss' /\ DeliveredInOrder' /\ Settled' = Settled
  BY <1>1 DEF Inv, NoSilentLoss, DeliveredInOrder, SettledUpTo, Settled
<1>3. \A d \in Attempts : d # runner.attempt => AttemptOK(d)'
  BY <1>2, RunnerTouchesCurrent, AttemptUntouched DEF Inv, AttemptOK
<1>4. PICK n \in Attempts : n = runner.attempt
  BY DEF Typed, RunnerOK
<1>5. AttemptOK(n)'
  <2>1. CASE UNCHANGED <<reader, workers>>
    <3>1. UNCHANGED AttemptState(n)
      BY <1>1, <2>1 DEF AttemptState, workers
    <3> QED BY <1>2, <3>1, AttemptUntouched DEF Inv, AttemptOK
  <2>2. ASSUME StartWorkers(n), Fresh(n)
        PROVE  NothingUnderWay(n)' /\ EmptyHanded(n)' /\ BatchSettled(n)'
    <3>1. /\ sender'[n].pc = "select" /\ sender'[n].batch = << >>
          /\ processor'[n].batch = << >>
          /\ batcher'[n].pc = "select" /\ batcher'[n].batch = << >>
      BY <2>2 DEF Typed, SenderOK, SenderState, ProcessorOK, BatcherOK, BatcherState, StartWorkers,
                  Fresh
    <3>2. blockCh'[n] = << >> /\ batchCh'[n] = << >> /\ procCh'[n] = << >>
      BY <1>1, <2>2 DEF Fresh
    <3> QED BY <3>1, <3>2 DEF NothingUnderWay, Content, Hand, EmptyHanded, BatchSettled
  <2>3. CASE StreamStarted
    <3>1. StartWorkers(n) /\ Fresh(n) /\ reader'[n].next = cursor.position + 1
      BY <1>4, <2>3 DEF StreamStarted, AttemptInv, Typed, ReaderOK, From
    <3>2. PICK base \in Nat : base = cursor.position
      BY DEF Typed, ProcessOK, Position
    <3>3. SettledUpTo(base)'
      BY <1>2, <3>2 DEF Inv, NoSilentLoss, SettledUpTo
    <3> QED BY <2>2, <3>1, <3>2, <3>3, FlowOfNothingNext DEF AttemptOK
  <2>4. CASE RunnerReports /\ StartWorkers(n)
    <3>1. Fresh(n) /\ reader'[n].pc = "idle"
      BY <1>4, <2>4 DEF RunnerReports, AttemptInv, Fresh
    <3>2. SettledUpTo(0)'
      BY DEF SettledUpTo
    <3> QED BY <2>2, <2>4, <3>1, <3>2, FlowOfNothingNext DEF AttemptOK
  <2> QED BY <1>4, <2>1, <2>3, <2>4
          DEF RunnerStep, RequestRefused, ConnectFails, RunnerReports, Succeed, GiveUp, BackOff,
              Retry, Exit, workers
<1> QED BY <1>2, <1>3, <1>4, <1>5 DEF Inv, AttemptOK

\* A restart keeps it, with requests that arrive after all.
LEMMA RestartInv ==
  ASSUME Typed, Inv, Restart
  PROVE  Inv'
<1>1. Settled \subseteq Settled'
  BY DEF Restart, Settled
<1>2. \A p : SettledUpTo(p) => SettledUpTo(p)'
  BY <1>1, SettledGrows
<1>3. NoSilentLoss'
  <2>1. manager'.position = manager.position /\ cursor'.position = manager.position
    BY DEF Restart, Typed, ExternalOK
  <2>2. PICK arriving \in SUBSET Senders("commit") :
          patches' = patches \cup {CommitPosition(sender[d].batch) : d \in arriving}
    BY DEF Restart
  <2>3. \A d \in arriving : SettledUpTo(CommitPosition(sender[d].batch))
    BY <2>2, CommitIsSettled DEF Senders, Inv
  <2>4. \A p \in patches' : SettledUpTo(p)
    BY <2>2, <2>3 DEF Inv, NoSilentLoss
  <2> QED BY <1>1, <2>1, <2>4 DEF Inv, NoSilentLoss, SettledUpTo
<1>4. DeliveredInOrder'
  <2>1. PICK arriving \in SUBSET Senders("send") :
          delivered' = delivered \cup UNION {Positions(sender[d].batch) : d \in arriving}
    BY DEF Restart
  <2>2. ASSUME NEW d \in arriving, NEW p \in Positions(sender[d].batch)
        PROVE  SettledUpTo(p)'
    <3>1. d \in Attempts /\ FlowInv(d)
      BY <2>1, <2>2 DEF Senders, Inv
    <3>2. 1 .. p \subseteq Settled \cup Positions(sender[d].batch)
      BY <3>1, DeliveryIsInOrder
    <3>3. Positions(sender[d].batch) \subseteq Settled'
      BY <2>1, <2>2 DEF Settled
    <3> QED BY <1>1, <3>2, <3>3 DEF SettledUpTo
  <2>3. \A p \in delivered : SettledUpTo(p)'
    BY <1>2 DEF Inv, DeliveredInOrder
  <2> QED BY <2>1, <2>2, <2>3 DEF DeliveredInOrder
<1>5. ASSUME NEW a \in Attempts
      PROVE  AttemptOK(a)'
  <2>1. NothingUnderWay(a)' /\ reader'[a].pc = "idle" /\ sender'[a].pc = "idle"
    BY DEF Restart, All, NothingUnderWay, Content, Hand, IdleReader, IdleBatcher, IdleProcessor,
           IdleSender
  <2>2. SettledUpTo(0)'
    BY DEF SettledUpTo
  <2>3. FlowInv(a)'
    BY <2>1, <2>2, FlowOfNothingNext
  <2> QED BY <2>1, <2>3 DEF AttemptOK, EmptyHanded, BatchSettled, NothingUnderWay
<1> QED BY <1>3, <1>4, <1>5 DEF Inv, AttemptOK

\* Every step keeps the invariant.
LEMMA NextInv == Typed /\ Typed' /\ AttemptInv /\ Inv /\ [Next]_vars => Inv'
<1> SUFFICES ASSUME Typed, Typed', AttemptInv, Inv, [Next]_vars PROVE Inv'
  OBVIOUS
<1>1. Settled \subseteq Settled'
  BY SettledOnlyGrows
<1>2. CASE UNCHANGED vars \/ LatePatch \/ Intervene
  <2>1. /\ UNCHANGED <<cursor, delivered, abandoned, reader, blockCh, batchCh, procCh, workers>>
        /\ manager'.position \in {manager.position} \cup patches /\ patches' \subseteq patches
    BY <1>2 DEF vars, externalVars, sinkVars, processVars, stateVars, LatePatch, Intervene, Typed,
                ExternalOK
  <2>2. NoSilentLoss' /\ DeliveredInOrder'
    BY <2>1 DEF Inv, NoSilentLoss, DeliveredInOrder, SettledUpTo, Settled
  <2>3. \A a \in Attempts : AttemptOK(a)'
    BY <1>1, <2>1, AttemptUntouched DEF Inv, AttemptOK, AttemptState, workers
  <2> QED BY <2>2, <2>3 DEF Inv, AttemptOK
<1> QED BY <1>1, <1>2, GoroutineInv, RunnerInv, RestartInv DEF Next

\* The inductive invariant behind the theorems below.
LEMMA InvHolds == Spec => []Inv
BY InitInv, NextInv, TypedHolds, AttemptInvHolds, PTL DEF Spec

-----------------------------------------------------------------------------
(***************************************************************************)
(* What the pipeline guarantees.                                           *)
(***************************************************************************)

\* No cursor ever stands behind a block that was neither delivered nor reported as
\* undeliverable, however often goroutines fail, attempts are cancelled, requests
\* are lost or late, and the process is restarted.
THEOREM NoBlockIsSkipped == Spec => []NoSilentLoss
BY InvHolds, PTL DEF Inv

\* No block is delivered before every earlier one is settled.
THEOREM DeliveryIsOrdered == Spec => []DeliveredInOrder
BY InvHolds, PTL DEF Inv

\* Two runs, the second where the first ends, are one.
LEMMA RunConcat ==
  ASSUME NEW base \in Nat, NEW s \in Batches, NEW t \in Batches,
         NEW cut, cut = base + Len(s), Run(s, base), Run(t, cut)
  PROVE  s \o t \in Batches /\ Run(s \o t, base) /\ base + Len(s \o t) = cut + Len(t)
<1>1. /\ s \in Seq(1 .. Length) /\ t \in Seq(1 .. Length) /\ Len(s) \in Nat /\ Len(t) \in Nat
      /\ s \o t \in Batches
  BY ConcatProperties DEF Batches
<1>2. /\ Len(s \o t) = Len(s) + Len(t)
      /\ \A i \in 1 .. Len(s) + Len(t) :
           (s \o t)[i] = IF i <= Len(s) THEN s[i] ELSE t[i - Len(s)]
  BY <1>1, ConcatProperties
<1>3. ASSUME NEW i \in 1 .. Len(s) + Len(t)
      PROVE  (s \o t)[i] = base + i
  <2>1. CASE i <= Len(s)
    BY <1>1, <1>2, <2>1 DEF Run
  <2>2. CASE i > Len(s)
    <3>1. i - Len(s) \in 1 .. Len(t)
      BY <1>1, <2>2
    <3>2. t[i - Len(s)] = base + Len(s) + (i - Len(s))
      BY <3>1 DEF Run
    <3> QED BY <1>1, <1>2, <2>2, <3>2
  <2> QED BY <1>1, <2>1, <2>2
<1> QED BY <1>1, <1>2, <1>3 DEF Run

\* The parts, put together, are one run.
LEMMA FlowIsARun ==
  ASSUME Typed, NEW a \in Attempts, NEW base \in Nat, FlowFrom(a, base)
  PROVE  /\ Flow(a) \in Batches /\ Run(Flow(a), base)
         /\ ProcessorLive(a) /\ BatcherLive(a) => base + Len(Flow(a)) = AtReader(a, base)
<1>1. /\ Content(procCh[a]) \in Batches /\ Content(batchCh[a]) \in Batches
      /\ Hand(a) \in Batches /\ blockCh[a] \in Batches
  BY PartsTyped
<1>2. PICK sending \in Batches : sending = sender[a].batch
  BY PartsTyped
<1>3. PICK processing \in Batches : processing = processor[a].batch
  BY PartsTyped
<1>4. PICK batching \in Batches : batching = batcher[a].batch
  BY PartsTyped
<1>5. /\ AtProcCh(a, base) \in Nat /\ AtProcessor(a, base) \in Nat /\ AtBatchCh(a, base) \in Nat
      /\ AtBatcher(a, base) \in Nat /\ AtHand(a, base) \in Nat /\ AtBlockCh(a, base) \in Nat
  BY CutsTyped
<1> DEFINE front == sending \o Content(procCh[a])
           hand == batching \o Hand(a)
           middle == processing \o Content(batchCh[a])
<1>6. front \in Batches /\ Run(front, base) /\ base + Len(front) = AtProcessor(a, base)
  <2>1. Run(sending, base) /\ Run(Content(procCh[a]), AtProcCh(a, base))
    BY <1>2 DEF FlowFrom
  <2>2. AtProcCh(a, base) = base + Len(sending)
    BY <1>2 DEF AtProcCh
  <2>3. /\ front \in Batches /\ Run(front, base)
        /\ base + Len(front) = AtProcCh(a, base) + Len(Content(procCh[a]))
    BY <1>1, <2>1, <2>2, RunConcat
  <2> QED BY <2>3 DEF AtProcessor
<1>7. ASSUME ProcessorLive(a)
      PROVE  /\ Read(a) \in Batches /\ Run(Read(a), AtBatcher(a, base))
             /\ BatcherLive(a) => AtBatcher(a, base) + Len(Read(a)) = AtReader(a, base)
  <2>1. Run(batching, AtBatcher(a, base))
    BY <1>7, <1>4 DEF FlowFrom, BatchesFrom
  <2>2. CASE ~ BatcherLive(a)
    BY <1>4, <2>1, <2>2 DEF Read
  <2>3. CASE BatcherLive(a)
    <3>1. /\ Run(Hand(a), AtHand(a, base)) /\ Run(blockCh[a], AtBlockCh(a, base))
          /\ AtHand(a, base) = AtBatcher(a, base) + Len(batching)
      BY <1>7, <1>4, <2>3 DEF FlowFrom, BlocksFrom, AtHand
    <3>2. /\ hand \in Batches /\ Run(hand, AtBatcher(a, base))
          /\ AtBatcher(a, base) + Len(hand) = AtBlockCh(a, base)
      <4>1. /\ hand \in Batches /\ Run(hand, AtBatcher(a, base))
            /\ AtBatcher(a, base) + Len(hand) = AtHand(a, base) + Len(Hand(a))
        BY <1>1, <1>5, <2>1, <3>1, RunConcat
      <4> QED BY <4>1 DEF AtBlockCh
    <3> HIDE DEF hand
    <3>3. /\ hand \o blockCh[a] \in Batches /\ Run(hand \o blockCh[a], AtBatcher(a, base))
          /\ AtBatcher(a, base) + Len(hand \o blockCh[a]) = AtReader(a, base)
      BY <1>1, <1>5, <3>1, <3>2, RunConcat, SMTT(30) DEF AtReader
    <3> QED BY <1>4, <2>3, <3>3 DEF Read, hand
  <2> QED BY <2>2, <2>3
<1>8. CASE ~ ProcessorLive(a)
  <2>1. Flow(a) = front \o << >>
    BY <1>8, <1>2 DEF Flow
  <2> HIDE DEF front
  <2>2. front \o << >> = front
    BY <1>6, ConcatEmptySeq DEF Batches
  <2> QED BY <1>6, <1>8, <2>1, <2>2
<1>9. CASE ProcessorLive(a)
  <2>1. /\ middle \in Batches /\ Run(middle, AtProcessor(a, base))
        /\ AtProcessor(a, base) + Len(middle) = AtBatcher(a, base)
    <3>1. /\ Run(processing, AtProcessor(a, base))
          /\ Run(Content(batchCh[a]), AtBatchCh(a, base))
          /\ AtBatchCh(a, base) = AtProcessor(a, base) + Len(processing)
      BY <1>9, <1>3 DEF FlowFrom, BatchesFrom, AtBatchCh
    <3>2. /\ middle \in Batches /\ Run(middle, AtProcessor(a, base))
          /\ AtProcessor(a, base) + Len(middle) = AtBatchCh(a, base) + Len(Content(batchCh[a]))
      BY <1>1, <1>5, <3>1, RunConcat
    <3> QED BY <3>2 DEF AtBatcher
  <2> HIDE DEF middle, front
  <2>2. /\ middle \o Read(a) \in Batches /\ Run(middle \o Read(a), AtProcessor(a, base))
        /\ AtProcessor(a, base) + Len(middle \o Read(a)) = AtBatcher(a, base) + Len(Read(a))
    BY <1>5, <1>7, <1>9, <2>1, RunConcat
  <2>3. /\ front \o (middle \o Read(a)) \in Batches
        /\ Run(front \o (middle \o Read(a)), base)
        /\ base + Len(front \o (middle \o Read(a))) = AtBatcher(a, base) + Len(Read(a))
    BY <1>5, <1>6, <2>2, RunConcat
  <2>4. Flow(a) = front \o (middle \o Read(a))
    BY <1>9, <1>2, <1>3 DEF Flow, front, middle
  <2> QED BY <1>7, <1>9, <2>3, <2>4
<1> QED BY <1>8, <1>9

\* Of the blocks under way in an attempt none is missing, doubled or out of place,
\* they begin right behind what is settled, and nothing that was read is dropped
\* while every goroutine between the reader and the sender is at work.
THEOREM FlowIsInOrder == Spec => []FlowInOrder
<1>1. ASSUME Typed, Inv, NEW a \in Attempts
      PROVE  /\ Consecutive(Flow(a))
             /\ Flow(a) # << >> =>
                  /\ SettledUpTo(Flow(a)[1] - 1)
                  /\ ProcessorLive(a) /\ BatcherLive(a) /\ reader[a].pc # "idle" =>
                       LastOf(Flow(a)) = reader[a].next - 1
  <2>1. PICK base \in Nat : SettledUpTo(base) /\ FlowFrom(a, base)
    BY <1>1 DEF Inv, FlowInv
  <2>2. /\ Flow(a) \in Batches /\ Run(Flow(a), base)
        /\ ProcessorLive(a) /\ BatcherLive(a) => base + Len(Flow(a)) = AtReader(a, base)
    BY <1>1, <2>1, FlowIsARun
  <2>3. Len(Flow(a)) \in Nat /\ (Flow(a) # << >> => Len(Flow(a)) > 0)
    BY <2>2, EmptySeq DEF Batches
  <2>4. Consecutive(Flow(a))
    <3> SUFFICES ASSUME NEW i \in 1 .. Len(Flow(a)) - 1
                 PROVE  Flow(a)[i + 1] = Flow(a)[i] + 1
      BY DEF Consecutive
    <3>1. i \in 1 .. Len(Flow(a)) /\ i + 1 \in 1 .. Len(Flow(a))
      BY <2>3
    <3>2. Flow(a)[i] = base + i /\ Flow(a)[i + 1] = base + (i + 1)
      BY <2>2, <3>1 DEF Run
    <3> QED BY <3>2
  <2>5. ASSUME Flow(a) # << >>
        PROVE  Flow(a)[1] - 1 = base /\ LastOf(Flow(a)) = base + Len(Flow(a))
    <3>1. 1 \in 1 .. Len(Flow(a)) /\ Len(Flow(a)) \in 1 .. Len(Flow(a))
      BY <2>3, <2>5
    <3> QED BY <2>2, <3>1 DEF Run, LastOf
  <2>6. ProcessorLive(a) /\ BatcherLive(a) /\ reader[a].pc # "idle" =>
          AtReader(a, base) = reader[a].next - 1
    BY <2>1 DEF FlowFrom, BlocksFrom
  <2> QED BY <2>1, <2>2, <2>4, <2>5, <2>6
<1>2. Typed /\ Inv => FlowInOrder
  BY <1>1 DEF FlowInOrder
<1> QED BY <1>2, TypedHolds, InvHolds, PTL

-----------------------------------------------------------------------------
(***************************************************************************)
(* The end that is reported was reached.                                   *)
(***************************************************************************)

\* Blocks have numbers, and so has the end of the stream.
LEMMA BlockNumbers ==
  ASSUME stream \in Streams, NEW p \in 1 .. Length
  PROVE  stream.toBlock \in Int /\ stream.blocks[p].number \in Int
<1>1. stream.blocks \in Seq(Block) /\ stream.toBlock \in {-1} \cup 0 .. MaxNumber
  BY StreamAssumption
<1>2. stream.blocks[p] \in Block
  BY <1>1, ElementOfSeq DEF Length
<1> QED BY <1>1, <1>2, MaxNumberAssumption DEF Block

\* A sender turns to doneChannel only when the cursor stands at the block that ends
\* the stream, or at a later one, whichever sender has moved it there.
LEMMA DoneIsEarned ==
  ASSUME Typed, Inv, NEW a \in Attempts, SenderStep(a), sender'[a].pc = "done"
  PROVE  EndSettled \/ sender[a].pc = "done"
<1>1. sender \in [Attempts -> SenderState]
  BY DEF Typed, SenderOK
<1>2. CASE SenderReacts(a)
  <2>1. ReachedEnd(cursor.position)
    BY <1>1, <1>2 DEF SenderReacts, SenderReportsNext, SenderLoops, IdleSender, SenderState
  <2>2. PICK p \in 1 .. Length : p = cursor.position
    BY <2>1, StreamFacts DEF Typed, ProcessOK, Position, ReachedEnd
  <2>3. SettledUpTo(p)
    BY <2>2 DEF Inv, NoSilentLoss
  <2>4. stream.toBlock \in Int /\ stream.blocks[p].number \in Int
    BY BlockNumbers DEF Typed
  <2> QED BY <2>1, <2>2, <2>3, <2>4 DEF ReachedEnd, EndSettled
<1>3. CASE sender[a].pc # "done" /\ ~ SenderReacts(a)
  BY <1>1, <1>3 DEF SenderStep, SenderTakes, SenderDone, SenderReports, SenderLeaves, SendSucceeds,
     SendFails, SendExhausted, CommitSucceeds, CommitFails, SenderStores, MarkSucceeds, MarkFails,
     SenderLoops, SenderReportsNext, IdleSender, SenderState
<1> QED BY <1>2, <1>3

\* Every step keeps what is said of the end.
LEMMA NextEnd == Typed /\ Inv /\ EndInv /\ [Next]_vars => EndInv'
<1> SUFFICES ASSUME Typed, Inv, EndInv, [Next]_vars PROVE EndInv'
  OBVIOUS
<1>1. UNCHANGED stream /\ (EndSettled => EndSettled')
  <2>1. UNCHANGED stream
    BY DEF vars, Next, LatePatch, Intervene, Restart, RunnerStep, GoroutineStep, ReaderStep,
           BatcherStep, ProcessorStep, SenderStep
  <2> QED BY <2>1, SettledOnlyGrows, SettledGrows
<1>2. CASE UNCHANGED vars \/ LatePatch \/ Intervene
  BY <1>1, <1>2 DEF EndInv, vars, results, workers, sinkVars, LatePatch, Intervene
<1>3. CASE Restart
  BY <1>3 DEF EndInv, Restart, All, IdleRunner, IdleSender
<1>4. CASE RunnerStep
  <2>1. \A a \in Attempts : sender'[a].pc = "done" => sender[a].pc = "done"
    <3>1. CASE StreamStarted \/ RunnerReports
      BY <3>1 DEF StreamStarted, RunnerReports, StartWorkers, workers, Typed, SenderOK, SenderState
    <3>2. CASE ~ (StreamStarted \/ RunnerReports)
      <4>1. sender' = sender
        BY <1>4, <3>2 DEF RunnerStep, RequestRefused, ConnectFails, Succeed, GiveUp, BackOff, Retry,
           Exit, workers
      <4> QED BY <4>1
    <3> QED BY <3>1, <3>2
  <2>2. \/ UNCHANGED <<doneChannel, runner.outcome>>
        \/ doneChannel' = doneChannel /\ runner'.outcome = "failure"
        \/ doneChannel # << >> /\ doneChannel' = << >>
    BY <1>4 DEF Typed, RunnerOK, RunnerStep, RequestRefused, StreamStarted, ConnectFails,
       RunnerReports, Succeed, GiveUp, BackOff, Retry, Exit, results, SendError
  <2> QED BY <1>1, <2>1, <2>2 DEF EndInv
<1>5. ASSUME NEW a \in Attempts, GoroutineStep(a)
      PROVE  EndInv'
  <2>1. runner' = runner
    BY <1>5 DEF GoroutineStep, ReaderStep, BatcherStep, ProcessorStep, SenderStep
  <2>2. \A d \in Attempts \ {a} : sender'[d] = sender[d]
    BY <1>5, OthersStay DEF AttemptState
  <2>3. CASE ~ SenderStep(a)
    <3>1. UNCHANGED <<sender, doneChannel>>
      BY <1>5, <2>3 DEF GoroutineStep, ReaderStep, BatcherStep, ProcessorStep, workers
    <3> QED BY <1>1, <2>1, <3>1 DEF EndInv
  <2>4. CASE SenderStep(a)
    <3>1. doneChannel' = doneChannel \/ sender[a].pc = "done"
      BY <2>4 DEF SenderStep, SenderTakes, SenderDone, SenderReports, SenderLeaves, results
    <3>2. sender'[a].pc = "done" => EndSettled'
      BY <1>1, <2>4, DoneIsEarned DEF EndInv
    <3> QED BY <1>1, <2>1, <2>2, <3>1, <3>2 DEF EndInv
  <2> QED BY <2>3, <2>4
<1> QED BY <1>2, <1>3, <1>4, <1>5 DEF Next

\* The inductive invariant behind SuccessIsEarned.
LEMMA EndInvHolds == Spec => []EndInv
<1>1. Init => EndInv
  BY DEF Init, EndInv, All, IdleRunner, IdleSender
<1> QED BY <1>1, NextEnd, TypedHolds, InvHolds, PTL DEF Spec

\* The sink ends well only after the block that ends the stream, and every block
\* before it, was settled; whichever attempt has said so.
THEOREM SuccessIsEarned == Spec => []DoneMeansEndReached
<1>1. EndInv => DoneMeansEndReached
  BY DEF EndInv, EndSettled, DoneMeansEndReached
<1> QED BY <1>1, EndInvHolds, PTL

-----------------------------------------------------------------------------
(***************************************************************************)
(* The pipeline implements Delivery.                                       *)
(***************************************************************************)

\* What is settled in Delivery is what is settled here.
LEMMA SameSettled ==
  /\ Promised!Settled = Settled
  /\ \A p : Promised!SettledUpTo(p) <=> SettledUpTo(p)
  /\ Promise(stream).length = Length
  /\ Promised!Resumable = {p \in 1 .. Length : SettledUpTo(p)}
<1>1. Promised!Settled = Settled
  BY DEF Promised!Settled, Settled
<1>2. \A p : Promised!SettledUpTo(p) <=> SettledUpTo(p)
  BY <1>1 DEF Promised!SettledUpTo, SettledUpTo
<1>3. Promise(stream).length = Length
  BY DEF Promise, Length
<1> QED BY <1>1, <1>2, <1>3 DEF Promised!Resumable

\* What is confirmed changes only with the senders that are about to store it.
LEMMA ConfirmedStays ==
  ASSUME \A d \in Attempts :
           /\ sender'[d].pc = "store" <=> sender[d].pc = "store"
           /\ sender[d].pc = "store" => sender'[d].batch = sender[d].batch
  PROVE  Confirmed' = Confirmed
BY DEF Confirmed, Senders, CommitPosition, LastOf

\* The batch in a sender's hand begins right behind what is settled.
LEMMA HandIsNext ==
  ASSUME Typed, NEW a \in Attempts, FlowInv(a), sender[a].batch # << >>
  PROVE  Positions(sender[a].batch) \in Promised!NextBatches
<1>1. PICK base \in Nat : SettledUpTo(base) /\ Run(sender[a].batch, base)
  BY DEF FlowInv, FlowFrom
<1>2. PICK batch \in Batches : batch = sender[a].batch
  BY PartsTyped
<1>3. Len(batch) \in Nat /\ Len(batch) > 0
  BY <1>2, EmptySeq DEF Batches
<1>4. Positions(batch) = base + 1 .. base + Len(batch)
  BY <1>1, <1>2, RunPositions
<1>5. Positions(batch) \subseteq 1 .. Length /\ Length \in Nat
  BY BatchPositions, StreamFacts DEF Typed
<1>6. base + 1 \in 1 .. Length /\ base + Len(batch) \in 1 .. Length
  <2>1. base + 1 \in Positions(batch) /\ base + Len(batch) \in Positions(batch)
    BY <1>3, <1>4
  <2> QED BY <1>5, <2>1
<1>7. SettledUpTo((base + 1) - 1)
  BY <1>1
<1>8. base + 1 \in {p \in 1 .. Promise(stream).length : Promised!SettledUpTo(p - 1)}
  BY <1>6, <1>7, SameSettled
<1>9. base + Len(batch) \in 1 .. Promise(stream).length
  BY <1>6, SameSettled
<1> QED BY <1>2, <1>4, <1>8, <1>9 DEF Promised!NextBatches

\* What a sender commits or stores is a position the sink can resume from.
LEMMA CommitIsResumable ==
  ASSUME Typed, NEW a \in Attempts, FlowInv(a), BatchSettled(a),
         sender[a].pc \in {"commit", "store"}
  PROVE  CommitPosition(sender[a].batch) \in Promised!Resumable
<1>1. sender[a].batch \in Batches /\ sender[a].batch # << >>
  BY DEF Typed, SenderOK, SenderState, WithBatch
<1>2. CommitPosition(sender[a].batch) \in 1 .. Length
  BY <1>1, BatchPositions, StreamFacts DEF Typed, CommitPosition
<1>3. SettledUpTo(CommitPosition(sender[a].batch))
  BY CommitIsSettled
<1> QED BY <1>2, <1>3, SameSettled

\* The runner has said nothing of the outcome before it shuts down.
OutcomeInv == runner.pc \notin {"shutdown", "down"} => runner.outcome = "none"

\* And every step keeps that.
LEMMA OutcomeHolds == Spec => []OutcomeInv
<1>1. Init => OutcomeInv
  BY DEF Init, OutcomeInv, IdleRunner
<1>2. Typed /\ OutcomeInv /\ [Next]_vars => OutcomeInv'
  <2> SUFFICES ASSUME Typed, OutcomeInv, [Next]_vars PROVE OutcomeInv'
    OBVIOUS
  <2>1. CASE RunnerStep
    BY <2>1 DEF OutcomeInv, Typed, RunnerOK, RunnerStep, RequestRefused, StreamStarted,
       ConnectFails, RunnerReports, Succeed, GiveUp, BackOff, Retry, Exit
  <2>2. CASE Restart
    BY <2>2 DEF OutcomeInv, Restart, IdleRunner
  <2>3. CASE UNCHANGED vars \/ LatePatch \/ Intervene \/ \E a \in Attempts : GoroutineStep(a)
    <3>1. runner' = runner
      BY <2>3 DEF vars, LatePatch, Intervene, sinkVars, GoroutineStep, ReaderStep, BatcherStep,
                  ProcessorStep, SenderStep
    <3> QED BY <3>1 DEF OutcomeInv
  <2> QED BY <2>1, <2>2, <2>3 DEF Next
<1> QED BY <1>1, <1>2, TypedHolds, PTL DEF Spec

\* A step of the runner ends the sink, well only behind the block that ends the stream,
\* or is none of Delivery's concern.
LEMMA RunnerPromise ==
  ASSUME Typed, AttemptInv, EndInv, OutcomeInv, RunnerStep
  PROVE  Promised!End \/ UNCHANGED Promised!vars
<1>1. UNCHANGED <<stream, delivered, abandoned, manager, patches, cursor>>
  BY DEF RunnerStep, externalVars, processVars, stateVars
<1>2. UNCHANGED Confirmed
  <2> SUFFICES ASSUME NEW d \in Attempts
               PROVE  /\ sender'[d].pc = "store" <=> sender[d].pc = "store"
                      /\ sender[d].pc = "store" => sender'[d].batch = sender[d].batch
    BY ConfirmedStays
  <2>1. CASE sender' = sender
    BY <2>1
  <2>2. CASE StartWorkers(runner.attempt) /\ runner.pc \in {"start", "report"}
    <3>1. sender[runner.attempt].pc = "idle"
      BY <2>2 DEF AttemptInv, Fresh
    <3> QED BY <2>2, <3>1 DEF StartWorkers, Typed, SenderOK, SenderState
  <2> QED BY <2>1, <2>2 DEF RunnerStep, RequestRefused, StreamStarted, ConnectFails,
             RunnerReports, Succeed, GiveUp, BackOff, Retry, Exit, workers
<1>3. UNCHANGED <<Promise(stream), delivered, abandoned, manager.position, Confirmed, patches,
                  cursor.position>>
  BY <1>1, <1>2
<1>4. CASE Succeed
  <2>1. /\ runner.outcome = "none" /\ runner'.outcome = "success" /\ doneChannel # << >>
    BY <1>4 DEF Succeed, OutcomeInv, Typed, RunnerOK
  <2>2. PICK p \in 1 .. Length : stream.blocks[p].number >= stream.toBlock /\ SettledUpTo(p)
    BY <2>1 DEF EndInv, EndSettled
  <2>3. stream.toBlock # -1
    BY <2>1 DEF EndInv, EndSettled
  <2>4. p \in Promise(stream).ends
    <3>1. stream.toBlock \in Int /\ stream.blocks[p].number \in Int
      BY BlockNumbers DEF Typed
    <3> QED BY <2>2, <2>3, <3>1 DEF Promise, Length
  <2>5. p \in Promised!Resumable
    BY <2>2, SameSettled
  <2> QED BY <1>3, <2>1, <2>4, <2>5 DEF Promised!End
<1>5. CASE GiveUp
  <2>1. runner.outcome = "none" /\ runner'.outcome = "failure"
    BY <1>5 DEF GiveUp, OutcomeInv, Typed, RunnerOK
  <2> QED BY <1>3, <2>1 DEF Promised!End
<1>6. CASE ~ Succeed /\ ~ GiveUp
  <2>1. UNCHANGED runner.outcome
    BY <1>6 DEF Typed, RunnerOK, RunnerStep, RequestRefused, StreamStarted, ConnectFails,
       RunnerReports, BackOff, Retry, Exit
  <2> QED BY <1>3, <2>1 DEF Promised!vars
<1> QED BY <1>4, <1>5, <1>6

\* What a sender leaves alone of Delivery's state.
LEMMA SenderLeavesAlone ==
  ASSUME NEW a \in Attempts, SenderStep(a)
  PROVE  /\ UNCHANGED <<Promise(stream), runner.outcome>>
         /\ UNCHANGED manager => UNCHANGED manager.position
         /\ UNCHANGED stateVars => UNCHANGED cursor.position
BY DEF SenderStep, stateVars

\* A send, whether it is answered or not, is a delivery or nothing; a batch that runs
\* out of attempts is abandoned.
LEMMA SendPromise ==
  ASSUME Typed, NEW a \in Attempts, FlowInv(a), SenderStep(a),
         SendSucceeds(a) \/ SendFails(a) \/ SendExhausted(a),
         UNCHANGED <<results, procCh, stateVars, manager, patches>>
  PROVE  Promised!Deliver \/ Promised!Abandon \/ UNCHANGED Promised!vars
<1>1. sender \in [Attempts -> SenderState]
  BY DEF Typed, SenderOK
<1>2. sender[a].pc = "send" /\ sender[a].batch # << >>
  BY DEF SendSucceeds, SendFails, SendExhausted, Typed, SenderOK, WithBatch
<1>3. UNCHANGED Confirmed
  <2>1. /\ sender'[a].pc \in {"send", "commit", "report"}
        /\ \A d \in Attempts \ {a} : sender'[d] = sender[d]
    BY <1>1, <1>2 DEF SendSucceeds, SendFails, SendExhausted, SenderReportsNext, SenderState
  <2> QED BY <1>2, <2>1, ConfirmedStays
<1>4. UNCHANGED <<Promise(stream), runner.outcome, manager.position, cursor.position, patches,
                  Confirmed>>
  BY <1>3, SenderLeavesAlone
<1>5. Positions(sender[a].batch) \in Promised!NextBatches
  BY <1>2, HandIsNext
<1>6. CASE delivered' = delivered \cup Positions(sender[a].batch) /\ abandoned' = abandoned
  BY <1>4, <1>5, <1>6 DEF Promised!Deliver
<1>7. CASE abandoned' = abandoned \cup Positions(sender[a].batch) /\ delivered' = delivered
  BY <1>4, <1>5, <1>7 DEF Promised!Abandon
<1>8. CASE delivered' = delivered /\ abandoned' = abandoned
  BY <1>4, <1>8 DEF Promised!vars
<1> QED BY <1>6, <1>7, <1>8 DEF SendSucceeds, SendFails, SendExhausted

\* An update of the state manager is made and confirmed, made, delayed or lost.
LEMMA CommitPromise ==
  ASSUME Typed, NEW a \in Attempts, FlowInv(a), BatchSettled(a), SenderStep(a),
         CommitSucceeds(a) \/ CommitFails(a),
         UNCHANGED <<results, procCh, delivered, abandoned>>
  PROVE  Promised!Commit \/ Promised!Delay \/ UNCHANGED Promised!vars
<1>1. sender \in [Attempts -> SenderState] /\ manager \in [status : Status, position : Position]
  BY DEF Typed, SenderOK, ExternalOK
<1>2. PICK p \in Promised!Resumable : p = CommitPosition(sender[a].batch)
  BY CommitIsResumable DEF CommitSucceeds, CommitFails
<1>3. UNCHANGED <<Promise(stream), runner.outcome, cursor.position, delivered, abandoned>>
  BY SenderLeavesAlone DEF CommitSucceeds, CommitFails
<1>4. CASE CommitSucceeds(a)
  <2>1. manager'.position = p /\ UNCHANGED patches
    BY <1>1, <1>2, <1>4 DEF CommitSucceeds
  <2>2. /\ sender[a].pc # "store" /\ sender'[a].pc = "store" /\ sender'[a].batch = sender[a].batch
        /\ \A d \in Attempts \ {a} : sender'[d] = sender[d]
    BY <1>1, <1>4 DEF CommitSucceeds, SenderState
  <2>3. Senders("store")' = Senders("store") \cup {a}
    BY <2>2 DEF Senders
  <2>4. Confirmed' = Confirmed \cup {p}
    BY <1>2, <2>2, <2>3 DEF Confirmed, Senders, CommitPosition, LastOf
  <2> QED BY <1>3, <2>1, <2>4 DEF Promised!Commit
<1>5. CASE CommitFails(a)
  <2>1. /\ sender[a].pc # "store" /\ sender'[a].pc # "store"
        /\ \A d \in Attempts \ {a} : sender'[d] = sender[d]
    BY <1>1, <1>5 DEF CommitFails, SenderReportsNext, SenderState
  <2>2. UNCHANGED Confirmed
    BY <2>1, ConfirmedStays
  <2>3. \/ UNCHANGED <<manager.position, patches>>
        \/ manager'.position = p /\ UNCHANGED patches
        \/ patches' = patches \cup {p} /\ UNCHANGED manager.position
    BY <1>1, <1>2, <1>5 DEF CommitFails
  <2> QED BY <1>3, <2>2, <2>3 DEF Promised!Commit, Promised!Delay, Promised!vars
<1> QED BY <1>4, <1>5

\* What a sender stores is what the state manager has confirmed to it.
LEMMA StorePromise ==
  ASSUME Typed, NEW a \in Attempts, SenderStep(a), SenderStores(a),
         UNCHANGED <<results, procCh, delivered, abandoned>>
  PROVE  Promised!TakeOver
<1>1. sender \in [Attempts -> SenderState]
  BY DEF Typed, SenderOK
<1> DEFINE p == CommitPosition(sender[a].batch)
<1>2. cursor'.position = p /\ UNCHANGED <<manager, patches>> /\ sender[a].pc = "store"
  BY DEF SenderStores
<1>3. sender'[a].pc # "store" /\ \A d \in Attempts \ {a} : sender'[d] = sender[d]
  BY <1>1 DEF SenderStores, SenderState
<1>4. Senders("store")' = Senders("store") \ {a} /\ a \in Senders("store")
  BY <1>2, <1>3 DEF Senders
<1>5. \A d \in Senders("store") \ {a} :
        CommitPosition(sender[d].batch)' = CommitPosition(sender[d].batch)
  BY <1>3 DEF Senders, CommitPosition, LastOf
<1>6. p \in Confirmed /\ Confirmed' \in {Confirmed, Confirmed \ {p}}
  <2>1. p \in Confirmed /\ Confirmed = {p} \cup Confirmed'
    BY <1>4, <1>5 DEF Confirmed
  <2> QED BY <2>1
<1>7. UNCHANGED <<Promise(stream), runner.outcome, manager.position, patches, delivered, abandoned>>
  BY <1>2, SenderLeavesAlone
<1> HIDE DEF p
<1> QED BY <1>2, <1>6, <1>7 DEF Promised!TakeOver

\* Everything else a sender does is none of Delivery's concern.
LEMMA SenderRestPromise ==
  ASSUME Typed, NEW a \in Attempts, SenderStep(a),
         \/ /\ SenderTakes(a) \/ SenderDone(a) \/ SenderReports(a) \/ SenderLeaves(a)
            /\ UNCHANGED <<stateVars, externalVars, faults>>
         \/ /\ SenderReacts(a) \/ MarkSucceeds(a) \/ MarkFails(a)
            /\ UNCHANGED <<results, procCh, delivered, abandoned>>
  PROVE  UNCHANGED Promised!vars
<1>1. sender \in [Attempts -> SenderState] /\ manager \in [status : Status, position : Position]
  BY DEF Typed, SenderOK, ExternalOK
<1>2. /\ sender[a].pc # "store" /\ sender'[a].pc # "store"
      /\ \A d \in Attempts \ {a} : sender'[d] = sender[d]
  BY <1>1 DEF SenderTakes, SenderDone, SenderReports, SenderLeaves, SenderReacts, MarkSucceeds,
              MarkFails, SenderLoops, SenderReportsNext, IdleSender, SenderState
<1>3. UNCHANGED Confirmed
  BY <1>2, ConfirmedStays
<1>4. UNCHANGED <<delivered, abandoned, patches, cursor.position, manager.position>>
  BY <1>1 DEF externalVars, stateVars, SenderReacts, MarkSucceeds, MarkFails
<1> QED BY <1>3, <1>4, SenderLeavesAlone DEF Promised!vars

\* A sender settles, commits and takes over as Delivery does.
LEMMA SenderPromise ==
  ASSUME Typed, NEW a \in Attempts, FlowInv(a), BatchSettled(a), SenderStep(a)
  PROVE  Promised!Next \/ UNCHANGED Promised!vars
<1>1. CASE /\ SendSucceeds(a) \/ SendFails(a) \/ SendExhausted(a)
           /\ UNCHANGED <<results, procCh, stateVars, manager, patches>>
  BY <1>1, SendPromise DEF Promised!Next
<1>2. CASE /\ CommitSucceeds(a) \/ CommitFails(a)
           /\ UNCHANGED <<results, procCh, delivered, abandoned>>
  BY <1>2, CommitPromise DEF Promised!Next
<1>3. CASE SenderStores(a) /\ UNCHANGED <<results, procCh, delivered, abandoned>>
  BY <1>3, StorePromise DEF Promised!Next
<1>4. CASE \/ /\ SenderTakes(a) \/ SenderDone(a) \/ SenderReports(a) \/ SenderLeaves(a)
              /\ UNCHANGED <<stateVars, externalVars, faults>>
           \/ /\ SenderReacts(a) \/ MarkSucceeds(a) \/ MarkFails(a)
              /\ UNCHANGED <<results, procCh, delivered, abandoned>>
  BY <1>4, SenderRestPromise
<1> QED BY <1>1, <1>2, <1>3, <1>4 DEF SenderStep

\* The sink resumes from what the state manager knows, and of the requests under way
\* only those arrive late that may.
LEMMA RestartPromise ==
  ASSUME Typed, Inv, Restart
  PROVE  Promised!Resume
<1>1. /\ manager'.position = manager.position /\ cursor'.position = manager.position
      /\ UNCHANGED <<Promise(stream), abandoned>> /\ runner'.outcome = "none"
  BY DEF Restart, Typed, ExternalOK, IdleRunner
<1>2. Confirmed' = {}
  BY DEF Restart, All, IdleSender, Confirmed, Senders
<1>3. \E batches \in SUBSET Promised!NextBatches : delivered' = delivered \cup UNION batches
  <2>1. PICK arriving \in SUBSET Senders("send") :
          delivered' = delivered \cup UNION {Positions(sender[d].batch) : d \in arriving}
    BY DEF Restart
  <2>2. \A d \in arriving : Positions(sender[d].batch) \in Promised!NextBatches
    <3> SUFFICES ASSUME NEW d \in arriving
                 PROVE  Positions(sender[d].batch) \in Promised!NextBatches
      OBVIOUS
    <3>1. d \in Attempts /\ sender[d].pc = "send"
      BY <2>1 DEF Senders
    <3> QED BY <3>1, HandIsNext DEF Typed, SenderOK, WithBatch, Inv
  <2> QED BY <2>1, <2>2
<1>4. \E positions \in SUBSET Promised!Resumable : patches' = patches \cup positions
  <2>1. PICK arriving \in SUBSET Senders("commit") :
          patches' = patches \cup {CommitPosition(sender[d].batch) : d \in arriving}
    BY DEF Restart
  <2>2. \A d \in arriving : CommitPosition(sender[d].batch) \in Promised!Resumable
    BY <2>1, CommitIsResumable DEF Senders, Inv
  <2> QED BY <2>1, <2>2
<1> QED BY <1>1, <1>2, <1>3, <1>4 DEF Promised!Resume

\* For any streams, any number of attempts, any faults and any restarts: the runner,
\* the goroutines of all attempts and the world around them do nothing that Delivery
\* does not allow.
THEOREM PipelineImplementsDelivery == Spec => KeepsItsPromise
<1>1. Init => Promised!Init
  <2> SUFFICES ASSUME Init PROVE Promised!Init
    OBVIOUS
  <2>1. Confirmed = {}
    BY DEF Init, All, IdleSender, Confirmed, Senders
  <2> QED BY <2>1 DEF Init, IdleRunner, Promised!Init
<1>2. Typed /\ AttemptInv /\ Inv /\ EndInv /\ OutcomeInv /\ [Next]_vars
        => [Promised!Next]_Promised!vars
  <2> SUFFICES ASSUME Typed, AttemptInv, Inv, EndInv, OutcomeInv, [Next]_vars
               PROVE  Promised!Next \/ UNCHANGED Promised!vars
    OBVIOUS
  <2>1. CASE RunnerStep
    BY <2>1, RunnerPromise DEF Promised!Next
  <2>2. ASSUME NEW a \in Attempts, GoroutineStep(a)
        PROVE  Promised!Next \/ UNCHANGED Promised!vars
    <3>1. CASE SenderStep(a)
      BY <3>1, SenderPromise DEF Inv
    <3>2. CASE ReaderStep(a) \/ BatcherStep(a) \/ ProcessorStep(a)
      <4>1. UNCHANGED <<stream, runner, sender, stateVars, externalVars>>
        BY <3>2 DEF ReaderStep, BatcherStep, ProcessorStep, workers, processVars
      <4> QED BY <4>1, ConfirmedStays DEF Promised!vars, stateVars, externalVars
    <3> QED BY <2>2, <3>1, <3>2 DEF GoroutineStep
  <2>3. CASE LatePatch
    <3>1. UNCHANGED <<stream, runner, sender, cursor, delivered, abandoned>>
      BY <2>3 DEF LatePatch, sinkVars, workers, processVars, stateVars
    <3>2. UNCHANGED Confirmed
      BY <3>1, ConfirmedStays
    <3>3. \E p \in patches : manager'.position = p /\ patches' = patches \ {p}
      BY <2>3 DEF LatePatch, Typed, ExternalOK
    <3> QED BY <3>1, <3>2, <3>3 DEF Promised!Arrive, Promised!Next
  <2>4. CASE Intervene
    <3>1. UNCHANGED <<stream, runner, sender, cursor, delivered, abandoned, patches>>
      BY <2>4 DEF Intervene, sinkVars, workers, processVars, stateVars
    <3>2. manager'.position = manager.position
      BY <2>4 DEF Intervene, Typed, ExternalOK
    <3> QED BY <3>1, <3>2, ConfirmedStays DEF Promised!vars
  <2>5. CASE Restart
    BY <2>5, RestartPromise DEF Promised!Next
  <2>6. CASE UNCHANGED vars
    <3>1. UNCHANGED <<stream, runner, sender, stateVars, externalVars>>
      BY <2>6 DEF vars, workers, processVars
    <3> QED BY <3>1, ConfirmedStays DEF Promised!vars, stateVars, externalVars
  <2> QED BY <2>1, <2>2, <2>3, <2>4, <2>5, <2>6 DEF Next
<1> QED BY <1>1, <1>2, TypedHolds, AttemptInvHolds, InvHolds, EndInvHolds, OutcomeHolds, PTL
        DEF Spec, KeepsItsPromise, Promised!Spec
=============================================================================
