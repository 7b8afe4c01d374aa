--------------------------- MODULE PipelineProofs ---------------------------
(***************************************************************************)
(* The pipeline keeps its types and has one attempt at a time, for every   *)
(* stream, any number of attempts, any faults and any restarts.            *)
(*                                                                         *)
(* TypeOK is not inductive: which error a goroutine reports, which batch   *)
(* it hands over and which block it pushes depends on its pc, and a batch  *)
(* taken from a channel has to be one.  Typed says so.                     *)
(***************************************************************************)
EXTENDS PipelineProperties, SequenceTheorems, TLAPS

\* A channel of capacity one.
AtMostOne(channel) == channel = << >> \/ \E batch \in Batches \ {<< >>} : channel = <<batch>>

RunnerOK ==
  /\ runner \in [pc : {"start", "report", "wait", "backoff", "shutdown", "down"},
                 attempt : Attempts, err : Kind \cup {"none"},
                 outcome : {"none", "success", "failure"}]
  /\ cancelled \in [Attempts -> BOOLEAN]
  /\ runner.pc = "report" => runner.err # "none"
  /\ runner.pc = "backoff" => AttemptsLeft

ResultsOK ==
  /\ errorChannel = << >> \/ \E k \in Kind : errorChannel = <<k>>
  /\ doneChannel \in {<< >>, <<"done">>}

ReaderOK ==
  reader \in [Attempts -> [pc : {"idle", "recv", "report", "closed"},
                           next : 1 .. Length + 1, size : Nat]]

BlockChOK == blockCh \in [Attempts -> Batches]

BatcherState == [pc : {"idle", "select", "accept", "emit", "report", "flush", "closed"},
                 block : Position, batch : Batches, err : {"none", "order", "push"}]

BatcherOK ==
  /\ batcher \in [Attempts -> BatcherState]
  /\ \A a \in Attempts :
       /\ batcher[a].pc \in {"accept", "emit"} => batcher[a].block # 0
       /\ batcher[a].pc \in {"emit", "flush"} => batcher[a].batch # << >>
       /\ batcher[a].pc = "report" => batcher[a].err # "none"

BatchChOK == batchCh \in [Attempts -> Seq(Batches)] /\ \A a \in Attempts : AtMostOne(batchCh[a])

ProcessorOK ==
  /\ processor \in [Attempts -> [pc : {"idle", "select", "process", "report", "closed"},
                                 batch : Batches]]
  /\ \A a \in Attempts : processor[a].pc = "process" => processor[a].batch # << >>

ProcChOK == procCh \in [Attempts -> Seq(Batches)] /\ \A a \in Attempts : AtMostOne(procCh[a])

SenderState == [pc : {"idle", "select", "send", "commit", "store", "react", "mark", "done",
                      "report", "closed"},
                batch : Batches, tries : 0 .. stream.retryAttempts, status : Status,
                err : Kind \cup {"none"}]

\* Where a sender has a batch in its hand.
WithBatch == {"send", "commit", "store", "react", "mark", "done"}

SenderOK ==
  /\ sender \in [Attempts -> SenderState]
  /\ \A a \in Attempts :
       /\ sender[a].pc \in WithBatch => sender[a].batch # << >>
       /\ sender[a].pc = "report" => sender[a].err # "none"

ProcessOK ==
  /\ lastBlock \in Last
  /\ batchSize \in 1 .. stream.maxBatchSize
  /\ cursor \in [status : Status, position : Position]
  /\ previousStatus \in Status

ExternalOK ==
  /\ manager \in [status : Status, position : Position]
  /\ patches \subseteq Position
  /\ delivered \subseteq 1 .. Length
  /\ abandoned \subseteq 1 .. Length

CountersOK == faults \in 0 .. MaxFaults /\ restarts \in 0 .. MaxRestarts

Typed ==
  /\ stream \in Streams
  /\ RunnerOK /\ ResultsOK /\ ReaderOK /\ BlockChOK /\ BatcherOK /\ BatchChOK /\ ProcessorOK
  /\ ProcChOK /\ SenderOK /\ ProcessOK /\ ExternalOK /\ CountersOK

\* No channel of blocks holds more than it has room for, the block in the hand of a
\* reader that is stuck included.
RoomInv == \A a \in Attempts : Len(blockCh[a]) <= reader[a].size + 1

\* Typed is TypeOK and more, but for the room in the channels of blocks.
LEMMA TypedIsTypeOK == Typed /\ RoomInv => TypeOK
<1> SUFFICES ASSUME Typed, RoomInv PROVE TypeOK
  OBVIOUS
<1>1. ASSUME NEW channel, AtMostOne(channel) PROVE Len(channel) <= 1
  <2>1. CASE channel = << >>
    BY <2>1
  <2>2. CASE channel # << >>
    <3>1. PICK batch \in Batches : channel = <<batch>>
      BY <1>1, <2>2 DEF AtMostOne
    <3> QED BY <3>1
  <2> QED BY <2>1, <2>2
<1>2. \A a \in Attempts : AtMostOne(batchCh[a]) /\ AtMostOne(procCh[a])
  BY DEF Typed, BatchChOK, ProcChOK
<1>3. \A a \in Attempts : Len(batchCh[a]) <= 1 /\ Len(procCh[a]) <= 1
  BY <1>1, <1>2
<1> QED BY <1>3 DEF Typed, TypeOK, RoomInv, RunnerOK, ResultsOK, ReaderOK, BlockChOK, BatcherOK,
     BatcherState, BatchChOK, ProcessorOK, ProcChOK, SenderOK, SenderState, ProcessOK, ExternalOK,
     CountersOK

\* What is assumed of the streams, of the one this sink is launched for.
LEMMA StreamFacts ==
  ASSUME stream \in Streams
  PROVE  /\ stream.blocks \in Seq(Block)
         /\ Length \in Nat
         /\ stream.maxBatchSize \in Nat \ {0}
         /\ stream.retryAttempts \in Nat
BY StreamAssumption DEF Length

\* What a step leaves alone keeps its type.
LEMMA UnchangedTyped ==
  ASSUME Typed, UNCHANGED stream
  PROVE  /\ Length' = Length /\ Length \in Nat
         /\ stream' \in Streams
         /\ UNCHANGED <<runner, cancelled>> => RunnerOK'
         /\ UNCHANGED results => ResultsOK'
         /\ UNCHANGED reader => ReaderOK'
         /\ UNCHANGED blockCh => BlockChOK'
         /\ UNCHANGED batcher => BatcherOK'
         /\ UNCHANGED batchCh => BatchChOK'
         /\ UNCHANGED processor => ProcessorOK'
         /\ UNCHANGED procCh => ProcChOK'
         /\ UNCHANGED sender => SenderOK'
         /\ UNCHANGED processVars => ProcessOK'
         /\ UNCHANGED externalVars => ExternalOK'
         /\ UNCHANGED <<faults, restarts>> => CountersOK'
<1> USE DEF Typed
<1>1. Length' = Length /\ Length \in Nat /\ stream' \in Streams
  BY StreamFacts DEF Length
<1>2. UNCHANGED <<runner, cancelled>> => RunnerOK'
  BY DEF RunnerOK, AttemptsLeft
<1>3. UNCHANGED results => ResultsOK'
  BY DEF ResultsOK, results
<1>4. UNCHANGED reader => ReaderOK'
  BY <1>1 DEF ReaderOK
<1>5. UNCHANGED blockCh => BlockChOK'
  BY <1>1 DEF BlockChOK, Batches
<1>6. UNCHANGED batcher => BatcherOK'
  BY <1>1 DEF BatcherOK, BatcherState, Batches, Position
<1>7. UNCHANGED batchCh => BatchChOK'
  BY <1>1 DEF BatchChOK, Batches, AtMostOne
<1>8. UNCHANGED processor => ProcessorOK'
  BY <1>1 DEF ProcessorOK, Batches
<1>9. UNCHANGED procCh => ProcChOK'
  BY <1>1 DEF ProcChOK, Batches, AtMostOne
<1>10. UNCHANGED sender => SenderOK'
  BY <1>1 DEF SenderOK, SenderState, Batches
<1>11. UNCHANGED processVars => ProcessOK'
  BY <1>1 DEF ProcessOK, Position, processVars, stateVars
<1>12. UNCHANGED externalVars => ExternalOK'
  BY <1>1 DEF ExternalOK, Position, externalVars
<1>13. UNCHANGED <<faults, restarts>> => CountersOK'
  BY DEF CountersOK
<1> QED BY <1>1, <1>2, <1>3, <1>4, <1>5, <1>6, <1>7, <1>8, <1>9, <1>10, <1>11, <1>12, <1>13

\* Something that goes wrong is counted, and the bound holds.
LEMMA FaultTyped ==
  ASSUME Typed, NEW kind, Fault(kind), UNCHANGED restarts
  PROVE  CountersOK'
BY BoundsAssumption DEF Typed, CountersOK, Fault

\* An error that is sent leaves the two result channels well-typed.
LEMMA SendErrorTyped ==
  ASSUME Typed, NEW kind \in Kind, SendError(kind), UNCHANGED doneChannel
  PROVE  ResultsOK'
BY DEF Typed, ResultsOK, SendError

\* The reader keeps the types.
LEMMA ReaderTyped ==
  ASSUME Typed, NEW a \in Attempts, ReaderStep(a)
  PROVE  Typed'
<1> USE UnchangedTyped DEF ReaderStep, workers
<1>1. CASE ReaderReceives(a)
  <2> USE <1>1 DEF ReaderReceives, results
  <2>1. reader[a].next \in 1 .. Length /\ reader[a].next + 1 \in 1 .. Length + 1
    BY DEF Typed, ReaderOK
  <2>2. ReaderOK'
    BY <2>1 DEF Typed, ReaderOK
  <2>3. BlockChOK'
    BY <2>1 DEF Typed, BlockChOK, Batches
  <2> QED BY <2>2, <2>3 DEF Typed
<1>2. CASE ReaderCloses(a)
  <2> USE <1>2 DEF ReaderCloses, results
  <2>1. ReaderOK'
    BY DEF Typed, ReaderOK
  <2>2. CountersOK'
    BY FaultTyped
  <2> QED BY <2>1, <2>2 DEF Typed
<1>3. CASE ReaderFails(a)
  <2> USE <1>3 DEF ReaderFails, results
  <2>1. ReaderOK'
    BY DEF Typed, ReaderOK
  <2>2. CountersOK'
    BY FaultTyped
  <2> QED BY <2>1, <2>2 DEF Typed
<1>4. CASE ReaderReports(a)
  <2> USE <1>4 DEF ReaderReports
  <2>1. ReaderOK'
    BY DEF Typed, ReaderOK
  <2>2. ResultsOK'
    BY SendErrorTyped DEF Kind
  <2> QED BY <2>1, <2>2 DEF Typed
<1> QED BY <1>1, <1>2, <1>3, <1>4

\* A push leaves a batch of positions, which has a block if the push succeeds.
LEMMA PushTyped ==
  ASSUME Typed, UNCHANGED stream, NEW a \in Attempts, NEW p \in 1 .. Length,
         NEW batch \in Batches, PushBlock(a, p, batch)
  PROVE  BatcherOK'
<1>1. Length' = Length /\ Length \in Nat
  BY UnchangedTyped
<1>2. Append(batch, p) \in Batches
  BY <1>1 DEF Batches
<1> DEFINE pushed == [IdleBatcher EXCEPT !.pc = "select", !.batch = Append(batch, p)]
           refused == [IdleBatcher EXCEPT !.pc = "report", !.batch = batch, !.err = "push"]
           B == [pc : {"idle", "select", "accept", "emit", "report", "flush", "closed"},
                 block : Position, batch : Batches, err : {"none", "order", "push"}]
<1>3. /\ pushed \in B /\ pushed.pc = "select"
      /\ refused \in B /\ refused.pc = "report" /\ refused.err = "push"
  <2>1. 0 \in Position
    BY <1>1 DEF Position
  <2> QED BY <1>2, <2>1 DEF IdleBatcher
<1>4. \E b \in {pushed, refused} : batcher' = [batcher EXCEPT ![a] = b]
  BY DEF PushBlock
<1>5. /\ batcher' \in [Attempts -> B]
      /\ \A d \in Attempts : d # a => batcher'[d] = batcher[d]
      /\ batcher'[a].pc \in {"select", "report"}
      /\ batcher'[a].pc = "report" => batcher'[a].err = "push"
  <2> HIDE DEF pushed, refused
  <2> QED BY <1>3, <1>4 DEF Typed, BatcherOK, BatcherState
<1>6. Position' = Position /\ Batches' = Batches
  BY <1>1 DEF Position, Batches
<1> QED BY <1>5, <1>6 DEF Typed, BatcherOK, BatcherState

\* A batcher that moves to a state of the right shape.
LEMMA BatcherMovesTyped ==
  ASSUME Typed, NEW a \in Attempts, UNCHANGED stream, NEW next,
         next \in BatcherState,
         next.pc \in {"accept", "emit"} => next.block # 0,
         next.pc \in {"emit", "flush"} => next.batch # << >>,
         next.pc = "report" => next.err # "none",
         batcher' = [batcher EXCEPT ![a] = next]
  PROVE  BatcherOK'
<1>1. Position' = Position /\ Batches' = Batches
  BY DEF Position, Batches, Length
<1>2. batcher \in [Attempts -> BatcherState]
  BY DEF Typed, BatcherOK
<1>3. batcher' \in [Attempts -> BatcherState]
  BY <1>2
<1>4. ASSUME NEW b \in Attempts
      PROVE  /\ batcher'[b].pc \in {"accept", "emit"} => batcher'[b].block # 0
             /\ batcher'[b].pc \in {"emit", "flush"} => batcher'[b].batch # << >>
             /\ batcher'[b].pc = "report" => batcher'[b].err # "none"
  <2>1. batcher'[b] = IF b = a THEN next ELSE batcher[b]
    BY <1>2
  <2> QED BY <2>1 DEF Typed, BatcherOK
<1>5. BatcherState' = BatcherState
  BY <1>1 DEF BatcherState
<1> QED BY <1>3, <1>4, <1>5 DEF BatcherOK

\* The batcher keeps the types.
LEMMA BatcherTyped ==
  ASSUME Typed, NEW a \in Attempts, BatcherStep(a)
  PROVE  Typed'
<1> USE UnchangedTyped DEF BatcherStep, results, processVars
<1>1. Length' = Length /\ Length \in Nat /\ Position' = Position /\ Batches' = Batches
  BY DEF Position, Batches
<1>2. UNCHANGED faults => CountersOK'
  BY DEF Typed
<1>3. CASE BatcherReceives(a)
  <2> USE <1>3 DEF BatcherReceives
  <2>1. /\ Head(blockCh[a]) \in 1 .. Length
        /\ Tail(blockCh[a]) \in Batches
    BY HeadTailProperties DEF Typed, BlockChOK, Batches
  <2>2. BlockChOK'
    BY <1>1, <2>1 DEF Typed, BlockChOK
  <2>3. Head(blockCh[a]) \in Position /\ Head(blockCh[a]) # 0
    BY <1>1, <2>1 DEF Position
  <2>5. batcher[a] \in BatcherState
    BY DEF Typed, BatcherOK
  <2>4. BatcherOK'
    <3>1. CASE batcher' = [batcher EXCEPT ![a].pc = "accept", ![a].block = Head(blockCh[a])]
      <4> DEFINE got == [batcher[a] EXCEPT !.pc = "accept", !.block = Head(blockCh[a])]
      <4>1. got \in BatcherState /\ got.pc = "accept" /\ got.block # 0
        BY <2>3, <2>5 DEF BatcherState
      <4>2. batcher' = [batcher EXCEPT ![a] = got]
        BY <3>1
      <4> HIDE DEF got
      <4> QED BY <1>1, <4>1, <4>2, BatcherMovesTyped
    <3>2. CASE batcher' = [batcher EXCEPT ![a].pc = "report", ![a].err = "order"]
      <4> DEFINE refused == [batcher[a] EXCEPT !.pc = "report", !.err = "order"]
      <4>1. refused \in BatcherState /\ refused.pc = "report" /\ refused.err = "order"
        BY <2>5 DEF BatcherState
      <4>2. batcher' = [batcher EXCEPT ![a] = refused]
        BY <3>2
      <4> HIDE DEF refused
      <4> QED BY <1>1, <4>1, <4>2, BatcherMovesTyped
    <3> QED BY <3>1, <3>2
  <2> QED BY <2>2, <2>4 DEF Typed
<1>4. CASE BatcherCollects(a)
  <2> USE <1>4 DEF BatcherCollects
  <2>1. batcher[a].block \in 1 .. Length /\ batcher[a].batch \in Batches
    BY <1>1 DEF Typed, BatcherOK, BatcherState, Position
  <2>2. stream.blocks[batcher[a].block] \in Block
    BY <2>1, StreamFacts, ElementOfSeq DEF Typed, Length
  <2>3. ProcessOK'
    <3>1. lastBlock' \in Last
      BY <2>2 DEF setLastBlock, Block, Last
    <3>2. batchSize' \in 1 .. stream'.maxBatchSize
      BY StreamFacts DEF Typed, ProcessOK, ElasticBatchSize
    <3>3. /\ cursor' \in [status : Status, position : Position']
          /\ previousStatus' \in Status
      BY <1>1 DEF Typed, ProcessOK, stateVars
    <3> QED BY <3>1, <3>2, <3>3 DEF ProcessOK
  <2>4. BatcherOK'
    <3>1. CASE shouldReleaseBatchAfterBlock(batcher[a].batch, batchSize')
      <4>1. batcher[a].batch # << >>
        BY <2>3, <3>1, StreamFacts DEF shouldReleaseBatchAfterBlock, ProcessOK, Typed
      <4>2. batcher' = [batcher EXCEPT ![a].pc = "emit"]
        BY <3>1
      <4> QED BY <1>1, <4>1, <4>2 DEF Typed, BatcherOK, BatcherState
    <3>2. CASE ~ shouldReleaseBatchAfterBlock(batcher[a].batch, batchSize')
      BY <2>1, <3>2, PushTyped
    <3> QED BY <3>1, <3>2
  <2> QED BY <2>3, <2>4 DEF Typed
<1>5. CASE BatcherReleases(a)
  <2> USE <1>5 DEF BatcherReleases
  <2>1. /\ batcher[a].block \in 1 .. Length
        /\ batcher[a].batch \in Batches /\ batcher[a].batch # << >>
        /\ << >> \in Batches
    BY <1>1 DEF Typed, BatcherOK, BatcherState, Position, Batches
  <2>2. BatcherOK'
    BY <2>1, PushTyped
  <2>3. BatchChOK'
    BY <1>1, <2>1 DEF Typed, BatchChOK, AtMostOne
  <2> QED BY <2>2, <2>3 DEF Typed
<1>6. CASE BatcherReports(a)
  <2> USE <1>6 DEF BatcherReports
  <2>1. BatcherOK'
    BY <1>1 DEF Typed, BatcherOK, BatcherState, Deferred, HasBlocks
  <2>2. batcher[a].err \in Kind
    BY DEF Typed, BatcherOK, BatcherState, Kind
  <2>3. ResultsOK'
    BY <2>2, SendErrorTyped
  <2> QED BY <2>1, <2>3 DEF Typed
<1>7. CASE BatcherLeaves(a)
  <2> USE <1>7 DEF BatcherLeaves
  <2>1. BatcherOK'
    BY <1>1 DEF Typed, BatcherOK, BatcherState, Deferred, HasBlocks
  <2> QED BY <2>1 DEF Typed
<1>8. CASE BatcherCloses(a)
  <2> USE <1>8 DEF BatcherCloses
  <2>1. batcher[a].batch \in Batches /\ batcher[a].batch # << >> /\ << >> \in Batches
    BY DEF Typed, BatcherOK, BatcherState, Batches
  <2>2. BatcherOK'
    BY <1>1, <2>1 DEF Typed, BatcherOK, BatcherState
  <2>3. BatchChOK'
    BY <1>1, <2>1 DEF Typed, BatchChOK, AtMostOne
  <2> QED BY <2>2, <2>3 DEF Typed
<1> QED BY <1>3, <1>4, <1>5, <1>6, <1>7, <1>8

\* The three workers at their selects.
LEMMA StartWorkersTyped ==
  ASSUME Typed, UNCHANGED stream, NEW a \in Attempts, StartWorkers(a)
  PROVE  BatcherOK' /\ ProcessorOK' /\ SenderOK'
<1> USE UnchangedTyped DEF StartWorkers
<1>1. Position' = Position /\ Batches' = Batches
  BY DEF Position, Batches
<1>2. BatcherOK'
  BY <1>1 DEF Typed, BatcherOK, BatcherState
<1>3. ProcessorOK'
  BY <1>1 DEF Typed, ProcessorOK
<1>4. SenderOK'
  <2>1. sender \in [Attempts -> SenderState] /\ SenderState' = SenderState
    BY <1>1 DEF Typed, SenderOK, SenderState
  <2>2. [sender[a] EXCEPT !.pc = "select"] \in SenderState
    BY <2>1 DEF SenderState
  <2>3. sender' \in [Attempts -> SenderState]
    BY <2>1, <2>2
  <2>4. \A d \in Attempts : sender'[d] = sender[d] \/ sender'[d].pc = "select"
    BY <2>1 DEF SenderState
  <2> QED BY <2>1, <2>3, <2>4 DEF Typed, SenderOK, WithBatch
<1> QED BY <1>2, <1>3, <1>4

\* The runner keeps the types.
LEMMA RunnerTyped ==
  ASSUME Typed, RunnerStep
  PROVE  Typed'
<1> USE UnchangedTyped DEF RunnerStep, results, workers
<1>1. UNCHANGED faults => CountersOK'
  BY DEF Typed
<1>2. runner.attempt \in Attempts
  BY DEF Typed, RunnerOK
<1>3. CASE RequestRefused
  <2> USE <1>3 DEF RequestRefused
  <2>1. RunnerOK'
    BY DEF Typed, RunnerOK, Kind
  <2> QED BY <1>1, <2>1 DEF Typed
<1>4. CASE StreamStarted
  <2> USE <1>4 DEF StreamStarted
  <2>1. RunnerOK'
    BY DEF Typed, RunnerOK
  <2>2. From \in 1 .. Length + 1 /\ batchSize \in Nat
    BY StreamFacts DEF Typed, ProcessOK, Position, From
  <2>3. ReaderOK'
    BY <1>2, <2>2 DEF Typed, ReaderOK
  <2>4. BatcherOK' /\ ProcessorOK' /\ SenderOK'
    BY <1>2, StartWorkersTyped
  <2> QED BY <1>1, <2>1, <2>3, <2>4 DEF Typed
<1>5. CASE ConnectFails
  <2> USE <1>5 DEF ConnectFails
  <2>1. RunnerOK'
    BY DEF Typed, RunnerOK, Kind
  <2>2. CountersOK'
    BY FaultTyped
  <2> QED BY <2>1, <2>2 DEF Typed
<1>6. CASE RunnerReports
  <2> USE <1>6 DEF RunnerReports
  <2>1. RunnerOK'
    BY <1>2 DEF Typed, RunnerOK, childCtxCancel
  <2>2. ResultsOK'
    BY SendErrorTyped DEF Typed, RunnerOK
  <2>3. BatcherOK' /\ ProcessorOK' /\ SenderOK'
    BY <1>2, StartWorkersTyped
  <2> QED BY <1>1, <2>1, <2>2, <2>3 DEF Typed
<1>7. CASE Succeed
  <2> USE <1>7 DEF Succeed
  <2>1. RunnerOK' /\ ResultsOK'
    BY <1>2 DEF Typed, RunnerOK, ResultsOK, childCtxCancel
  <2> QED BY <1>1, <2>1 DEF Typed
<1>8. CASE GiveUp
  <2> USE <1>8 DEF GiveUp
  <2>1. RunnerOK' /\ ResultsOK'
    BY <1>2 DEF Typed, RunnerOK, ResultsOK, childCtxCancel
  <2> QED BY <1>1, <2>1 DEF Typed
<1>9. CASE BackOff
  <2> USE <1>9 DEF BackOff
  <2>1. RunnerOK' /\ ResultsOK'
    BY DEF Typed, RunnerOK, ResultsOK, AttemptsLeft
  <2> QED BY <1>1, <2>1 DEF Typed
<1>10. CASE Retry
  <2> USE <1>10 DEF Retry
  <2>1. runner.attempt + 1 \in Attempts
    BY BoundsAssumption DEF Typed, RunnerOK, AttemptsLeft, Attempts
  <2>2. RunnerOK'
    BY <1>2, <2>1 DEF Typed, RunnerOK, childCtxCancel
  <2> QED BY <1>1, <2>2 DEF Typed
<1>11. CASE Exit
  <2> USE <1>11 DEF Exit
  <2>1. RunnerOK'
    BY DEF Typed, RunnerOK
  <2> QED BY <1>1, <2>1 DEF Typed
<1> QED BY <1>3, <1>4, <1>5, <1>6, <1>7, <1>8, <1>9, <1>10, <1>11

\* The processor keeps the types.
LEMMA ProcessorTyped ==
  ASSUME Typed, NEW a \in Attempts, ProcessorStep(a)
  PROVE  Typed'
<1> USE UnchangedTyped DEF ProcessorStep, results
<1>1. Length' = Length /\ Length \in Nat /\ Batches' = Batches /\ << >> \in Batches
  BY DEF Batches
<1>2. UNCHANGED faults => CountersOK'
  BY DEF Typed
<1>3. CASE ProcessorTakes(a)
  <2> USE <1>3 DEF ProcessorTakes
  <2>1. batchCh[a][1] \in Batches /\ batchCh[a][1] # << >>
    BY DEF Typed, BatchChOK, AtMostOne
  <2>2. BatchChOK'
    BY <1>1 DEF Typed, BatchChOK, AtMostOne
  <2>3. ProcessorOK'
    BY <1>1, <2>1 DEF Typed, ProcessorOK
  <2> QED BY <1>2, <2>2, <2>3 DEF Typed
<1>4. CASE ProcessorHandsOver(a)
  <2> USE <1>4 DEF ProcessorHandsOver
  <2>1. processor[a].batch \in Batches /\ processor[a].batch # << >>
    BY DEF Typed, ProcessorOK
  <2>2. ProcChOK'
    BY <1>1, <2>1 DEF Typed, ProcChOK, AtMostOne
  <2>3. ProcessorOK'
    BY <1>1 DEF Typed, ProcessorOK
  <2> QED BY <1>2, <2>2, <2>3 DEF Typed
<1>5. CASE ProcessorFails(a)
  <2> USE <1>5 DEF ProcessorFails
  <2>1. CountersOK'
    BY <1>2, FaultTyped DEF CallFails
  <2>2. ProcessorOK'
    BY <1>1 DEF Typed, ProcessorOK
  <2> QED BY <2>1, <2>2 DEF Typed
<1>6. CASE ProcessorReports(a)
  <2> USE <1>6 DEF ProcessorReports
  <2>1. ResultsOK'
    BY SendErrorTyped DEF Kind
  <2>2. ProcessorOK'
    BY <1>1 DEF Typed, ProcessorOK
  <2> QED BY <1>2, <2>1, <2>2 DEF Typed
<1>7. CASE ProcessorLeaves(a)
  <2> USE <1>7 DEF ProcessorLeaves
  <2>1. ProcessorOK'
    BY <1>1 DEF Typed, ProcessorOK
  <2> QED BY <1>2, <2>1 DEF Typed
<1> QED BY <1>3, <1>4, <1>5, <1>6, <1>7

\* The sender of an attempt goes on from a state that is sound.
LEMMA SenderMovesTyped ==
  ASSUME Typed, UNCHANGED stream, NEW a \in Attempts, NEW s \in SenderState,
         s.pc \in WithBatch => s.batch # << >>,
         s.pc = "report" => s.err # "none",
         sender' = [sender EXCEPT ![a] = s]
  PROVE  SenderOK'
<1>1. SenderState' = SenderState
  BY DEF SenderState, Batches, Length
<1>2. /\ sender' \in [Attempts -> SenderState]
      /\ sender'[a] = s
      /\ \A d \in Attempts : d # a => sender'[d] = sender[d]
  BY DEF Typed, SenderOK
<1> QED BY <1>1, <1>2 DEF Typed, SenderOK

\* A sender at another step of its work is a sender with the same batch.
LEMMA SenderAt ==
  ASSUME Typed, NEW a \in Attempts, NEW pc \in WithBatch
  PROVE  /\ [sender[a] EXCEPT !.pc = pc] \in SenderState
         /\ [sender[a] EXCEPT !.pc = pc].pc = pc
         /\ [sender[a] EXCEPT !.pc = pc].batch = sender[a].batch
<1>1. PICK q \in SenderState : q = sender[a]
  BY DEF Typed, SenderOK
<1>2. /\ [q EXCEPT !.pc = pc] \in SenderState
      /\ [q EXCEPT !.pc = pc].pc = pc
      /\ [q EXCEPT !.pc = pc].batch = q.batch
  BY ONLY q \in SenderState, pc \in WithBatch DEF SenderState, WithBatch
<1> QED BY <1>1, <1>2

\* A sender that goes back to its select has nothing in its hand.
LEMMA SenderLoopsTyped ==
  ASSUME Typed, UNCHANGED stream, NEW a \in Attempts, SenderLoops(a)
  PROVE  SenderOK'
<1>1. [IdleSender EXCEPT !.pc = "select"] \in SenderState
  <2>1. << >> \in Batches /\ 0 \in 0 .. stream.retryAttempts /\ "running" \in Status
    BY StreamFacts DEF Typed, Batches, Status
  <2> QED BY <2>1 DEF SenderState, IdleSender
<1>2. [IdleSender EXCEPT !.pc = "select"].pc = "select"
  BY DEF IdleSender
<1> QED BY <1>1, <1>2, SenderMovesTyped DEF SenderLoops, WithBatch

\* A sender that is about to report has an error to report.
LEMMA SenderReportsTyped ==
  ASSUME Typed, UNCHANGED stream, NEW a \in Attempts, NEW kind \in Kind,
         SenderReportsNext(a, kind)
  PROVE  SenderOK'
<1> DEFINE s == [sender[a] EXCEPT !.pc = "report", !.err = kind]
<1>1. s \in SenderState /\ s.pc = "report" /\ s.err = kind
  BY DEF Typed, SenderOK, SenderState
<1>2. sender' = [sender EXCEPT ![a] = s]
  BY DEF SenderReportsNext
<1>3. kind # "none"
  BY DEF Kind
<1> HIDE DEF s
<1> QED BY <1>1, <1>2, <1>3, SenderMovesTyped DEF WithBatch

\* The positions of a batch and its last one are positions of blocks.
LEMMA BatchPositions ==
  ASSUME NEW batch \in Batches, Length \in Nat
  PROVE  /\ Positions(batch) \subseteq 1 .. Length
         /\ batch # << >> => LastOf(batch) \in 1 .. Length /\ CommitPosition(batch) \in Position
<1>1. \A i \in 1 .. Len(batch) : batch[i] \in 1 .. Length
  BY DEF Batches
<1>2. batch # << >> => Len(batch) \in 1 .. Len(batch)
  BY EmptySeq DEF Batches
<1> QED BY <1>1, <1>2 DEF Positions, LastOf, CommitPosition, Position

\* The sender keeps the types.
LEMMA SenderTyped ==
  ASSUME Typed, NEW a \in Attempts, SenderStep(a)
  PROVE  Typed'
<1> USE UnchangedTyped DEF results, stateVars, externalVars, processVars
<1> UNCHANGED <<stream, runner, cancelled, reader, blockCh, batcher, batchCh, processor,
                lastBlock, batchSize, restarts>>
  BY DEF SenderStep
<1>1. /\ Length' = Length /\ Length \in Nat
      /\ Batches' = Batches /\ << >> \in Batches /\ Position' = Position
  BY DEF Batches, Position
<1>2. UNCHANGED faults => CountersOK'
  BY DEF Typed
<1>3. ASSUME NEW kind, CallFails(a, kind) PROVE CountersOK'
  BY <1>2, <1>3, FaultTyped DEF CallFails
<1>4. /\ sender[a].batch \in Batches
      /\ sender[a].pc \in WithBatch => sender[a].batch # << >>
      /\ sender[a].status \in Status
  BY DEF Typed, SenderOK, SenderState
<1>5. /\ Positions(sender[a].batch) \subseteq 1 .. Length
      /\ sender[a].batch # << >> => CommitPosition(sender[a].batch) \in Position
  BY <1>1, <1>4, BatchPositions
<1>6. CASE SenderTakes(a) /\ UNCHANGED <<stateVars, externalVars, faults>>
  <2> USE <1>6 DEF SenderTakes
  <2>1. procCh[a][1] \in Batches /\ procCh[a][1] # << >>
    BY DEF Typed, ProcChOK, AtMostOne
  <2>2. ProcChOK'
    BY <1>1 DEF Typed, ProcChOK, AtMostOne
  <2>3. SenderOK'
    <3> DEFINE sending == [sender[a] EXCEPT !.pc = "send", !.batch = procCh[a][1]]
    <3>1. sending \in SenderState /\ sending.pc = "send" /\ sending.batch = procCh[a][1]
      <4>1. sender[a] \in SenderState
        BY DEF Typed, SenderOK
      <4> HIDE <1>6
      <4> QED BY <2>1, <4>1 DEF SenderState
    <3>2. sender' = [sender EXCEPT ![a] = sending]
      OBVIOUS
    <3> HIDE DEF sending
    <3> QED BY <2>1, <3>1, <3>2, SenderMovesTyped
  <2> QED BY <1>2, <2>2, <2>3 DEF Typed
<1>7. CASE SendSucceeds(a) /\ UNCHANGED <<results, procCh, stateVars, manager, patches>>
  <2> USE <1>7 DEF SendSucceeds
  <2>1. SenderOK'
    BY <1>1, SMTT(30) DEF Typed, SenderOK, SenderState, WithBatch
  <2>2. ExternalOK'
    BY <1>1, <1>5 DEF Typed, ExternalOK
  <2> QED BY <1>2, <2>1, <2>2 DEF Typed
<1>8. CASE SendFails(a) /\ UNCHANGED <<results, procCh, stateVars, manager, patches>>
  <2> USE <1>8 DEF SendFails
  <2>1. sender[a].tries + 1 \in 0 .. stream.retryAttempts
    BY StreamFacts DEF Typed, SenderOK, SenderState, TriesLeft
  <2>2. SenderOK'
    BY <1>1, <2>1 DEF Typed, SenderOK, SenderState
  <2>3. ExternalOK'
    BY <1>1, <1>5 DEF Typed, ExternalOK
  <2> QED BY <1>3, <2>2, <2>3 DEF Typed
<1>9. CASE SendExhausted(a) /\ UNCHANGED <<results, procCh, stateVars, manager, patches>>
  <2> USE <1>9 DEF SendExhausted
  <2>1. SenderOK'
    BY SenderReportsTyped DEF Kind
  <2>2. ExternalOK'
    BY <1>1, <1>5 DEF Typed, ExternalOK
  <2> QED BY <1>2, <2>1, <2>2 DEF Typed
<1>10. CASE CommitSucceeds(a) /\ UNCHANGED <<results, procCh, delivered, abandoned>>
  <2> USE <1>10 DEF CommitSucceeds
  <2>1. ExternalOK' /\ manager.status \in Status
    BY <1>1, <1>4, <1>5 DEF Typed, ExternalOK, WithBatch
  <2>2. SenderOK'
    <3> DEFINE storing == [sender[a] EXCEPT !.pc = "store", !.status = manager.status]
    <3>1. storing \in SenderState /\ storing.pc = "store" /\ storing.batch = sender[a].batch
      <4>1. PICK q \in SenderState : q = sender[a]
        BY DEF Typed, SenderOK
      <4>2. PICK status \in Status : status = manager.status
        BY <2>1
      <4>3. /\ [q EXCEPT !.pc = "store", !.status = status] \in SenderState
            /\ [q EXCEPT !.pc = "store", !.status = status].pc = "store"
            /\ [q EXCEPT !.pc = "store", !.status = status].batch = q.batch
        BY ONLY q \in SenderState, status \in Status DEF SenderState
      <4> QED BY <4>1, <4>2, <4>3
    <3>2. sender' = [sender EXCEPT ![a] = storing]
      OBVIOUS
    <3> HIDE DEF storing
    <3> QED BY <1>4, <3>1, <3>2, SenderMovesTyped DEF WithBatch
  <2> QED BY <1>2, <2>1, <2>2 DEF Typed
<1>11. CASE CommitFails(a) /\ UNCHANGED <<results, procCh, delivered, abandoned>>
  <2> USE <1>11 DEF CommitFails
  <2>1. SenderOK'
    BY SenderReportsTyped DEF Kind
  <2>2. ExternalOK'
    BY <1>1, <1>4, <1>5 DEF Typed, ExternalOK, WithBatch
  <2> QED BY <1>3, <2>1, <2>2 DEF Typed
<1>12. CASE SenderStores(a) /\ UNCHANGED <<results, procCh, delivered, abandoned>>
  <2> USE <1>12 DEF SenderStores
  <2>1. ProcessOK'
    BY <1>1, <1>4, <1>5 DEF Typed, ProcessOK, WithBatch
  <2>2. SenderOK'
    <3> DEFINE reacting == [sender[a] EXCEPT !.pc = "react"]
    <3>1. reacting \in SenderState /\ reacting.pc = "react" /\ reacting.batch = sender[a].batch
      BY SenderAt DEF WithBatch
    <3>2. sender' = [sender EXCEPT ![a] = reacting]
      OBVIOUS
    <3> HIDE DEF reacting
    <3> QED BY <1>4, <3>1, <3>2, SenderMovesTyped DEF WithBatch
  <2> QED BY <1>2, <2>1, <2>2 DEF Typed
<1>13. CASE SenderReacts(a) /\ UNCHANGED <<results, procCh, delivered, abandoned>>
  <2> USE <1>13 DEF SenderReacts
  <2>1. ProcessOK'
    BY <1>1, <1>4 DEF Typed, ProcessOK
  <2>2. SenderOK'
    <3>1. ASSUME NEW pc \in {"mark", "done"}, sender' = [sender EXCEPT ![a].pc = pc]
          PROVE  SenderOK'
      <4> DEFINE next == [sender[a] EXCEPT !.pc = pc]
      <4>1. next \in SenderState /\ next.pc = pc /\ next.batch = sender[a].batch
        <5>1. pc \in WithBatch
          BY ONLY pc \in {"mark", "done"} DEF WithBatch
        <5> HIDE <1>13
        <5> QED BY <5>1, SenderAt
      <4>2. sender' = [sender EXCEPT ![a] = next]
        BY <3>1
      <4> HIDE DEF next
      <4> QED BY <1>4, <4>1, <4>2, SenderMovesTyped DEF WithBatch
    <3>2. CASE SenderReportsNext(a, "termination")
      BY <3>2, SenderReportsTyped DEF Kind
    <3>3. CASE SenderLoops(a)
      BY <3>3, SenderLoopsTyped
    <3> QED BY <3>1, <3>2, <3>3
  <2> QED BY <1>2, <2>1, <2>2 DEF Typed
<1>14. CASE MarkSucceeds(a) /\ UNCHANGED <<results, procCh, delivered, abandoned>>
  <2> USE <1>14 DEF MarkSucceeds
  <2>1. SenderOK'
    BY SenderLoopsTyped
  <2>2. ProcessOK'
    BY <1>1 DEF Typed, ProcessOK, Status
  <2>3. ExternalOK'
    BY <1>1 DEF Typed, ExternalOK, Status
  <2> QED BY <1>2, <2>1, <2>2, <2>3 DEF Typed
<1>15. CASE MarkFails(a) /\ UNCHANGED <<results, procCh, delivered, abandoned>>
  <2> USE <1>15 DEF MarkFails
  <2>1. SenderOK'
    BY SenderReportsTyped DEF Kind
  <2>2. ExternalOK'
    BY <1>1 DEF Typed, ExternalOK, Status
  <2> QED BY <1>3, <2>1, <2>2 DEF Typed
<1>16. CASE SenderDone(a) /\ UNCHANGED <<stateVars, externalVars, faults>>
  <2> USE <1>16 DEF SenderDone
  <2>1. SenderOK'
    BY SenderLoopsTyped
  <2>2. ResultsOK'
    BY DEF Typed, ResultsOK
  <2> QED BY <1>2, <2>1, <2>2 DEF Typed
<1>17. CASE SenderReports(a) /\ UNCHANGED <<stateVars, externalVars, faults>>
  <2> USE <1>17 DEF SenderReports
  <2>1. SenderOK'
    BY SenderLoopsTyped
  <2>2. sender[a].err \in Kind
    BY DEF Typed, SenderOK, SenderState
  <2>3. ResultsOK'
    BY <2>2, SendErrorTyped
  <2> QED BY <1>2, <2>1, <2>3 DEF Typed
<1>18. CASE SenderLeaves(a) /\ UNCHANGED <<stateVars, externalVars, faults>>
  <2> USE <1>18 DEF SenderLeaves
  <2>1. SenderOK'
    BY <1>1 DEF Typed, SenderOK, SenderState, WithBatch
  <2> QED BY <1>2, <2>1 DEF Typed
<1> QED BY <1>6, <1>7, <1>8, <1>9, <1>10, <1>11, <1>12, <1>13, <1>14, <1>15, <1>16, <1>17, <1>18
       DEF SenderStep

\* So do the world around the process, and a restart.
LEMMA WorldTyped ==
  ASSUME Typed, LatePatch \/ Intervene \/ Restart
  PROVE  Typed'
<1> USE UnchangedTyped DEF sinkVars, results, workers, processVars, stateVars
<1>1. CASE LatePatch
  <2> USE <1>1 DEF LatePatch
  <2>1. ExternalOK'
    BY DEF Typed, ExternalOK, Position
  <2> QED BY <2>1 DEF Typed
<1>2. CASE Intervene
  <2> USE <1>2 DEF Intervene
  <2>1. ExternalOK'
    BY DEF Typed, ExternalOK, Position, Status
  <2>2. CountersOK'
    BY FaultTyped
  <2> QED BY <2>1, <2>2 DEF Typed
<1>3. CASE Restart
  <2> USE <1>3 DEF Restart
  <2>1. /\ Length' = Length /\ Length \in Nat /\ Position' = Position
        /\ Batches' = Batches /\ << >> \in Batches
    BY DEF Position, Batches
  <2>2. RunnerOK' /\ ResultsOK'
    BY BoundsAssumption DEF RunnerOK, ResultsOK, IdleRunner, All, Attempts
  <2>3. ReaderOK' /\ BlockChOK'
    BY <2>1 DEF ReaderOK, BlockChOK, IdleReader, All
  <2>4. BatcherOK' /\ BatchChOK'
    BY <2>1 DEF BatcherOK, BatcherState, BatchChOK, AtMostOne, IdleBatcher, All, Position
  <2>5. ProcessorOK' /\ ProcChOK'
    BY <2>1 DEF ProcessorOK, ProcChOK, AtMostOne, IdleProcessor, All
  <2>6. SenderOK'
    BY <2>1, StreamFacts, SMTT(30)
    DEF Typed, SenderOK, SenderState, WithBatch, IdleSender, All, Status
  <2>7. manager' \in [status : Status, position : Position]
    BY DEF Typed, ExternalOK, Status
  <2>8. ProcessOK'
    BY <2>1, <2>7, StreamFacts DEF Typed, ProcessOK, Last
  <2>9. \A d \in Attempts :
          /\ Positions(sender[d].batch) \subseteq 1 .. Length
          /\ d \in Senders("commit") => CommitPosition(sender[d].batch) \in Position
    BY <2>1, BatchPositions DEF Typed, SenderOK, SenderState, WithBatch, Senders
  <2>10. ExternalOK'
    <3>1. patches' \subseteq Position
      <4>1. PICK arriving \in SUBSET Senders("commit") :
              patches' = patches \cup {CommitPosition(sender[d].batch) : d \in arriving}
        OBVIOUS
      <4>2. patches \subseteq Position /\ Senders("commit") \subseteq Attempts
        BY DEF Typed, ExternalOK, Senders
      <4>3. \A d \in arriving : CommitPosition(sender[d].batch) \in Position
        BY <2>9, <4>1, <4>2
      <4> QED BY <4>1, <4>2, <4>3
    <3>2. delivered' \subseteq 1 .. Length
      <4>1. PICK arriving \in SUBSET Senders("send") :
              delivered' = delivered \cup UNION {Positions(sender[d].batch) : d \in arriving}
        OBVIOUS
      <4>2. delivered \subseteq 1 .. Length /\ Senders("send") \subseteq Attempts
        BY DEF Typed, ExternalOK, Senders
      <4>3. \A d \in arriving : Positions(sender[d].batch) \subseteq 1 .. Length
        BY <2>9, <4>1, <4>2
      <4> QED BY <4>1, <4>2, <4>3
    <3>3. abandoned' \subseteq 1 .. Length
      BY DEF Typed, ExternalOK
    <3> QED BY <2>1, <2>7, <3>1, <3>2, <3>3 DEF ExternalOK
  <2>11. CountersOK'
    BY BoundsAssumption DEF Typed, CountersOK
  <2> QED BY <2>2, <2>3, <2>4, <2>5, <2>6, <2>8, <2>10, <2>11 DEF Typed
<1> QED BY <1>1, <1>2, <1>3

\* The types hold when the sink is launched.
LEMMA InitTyped == Init => Typed
<1> SUFFICES ASSUME Init PROVE Typed
  OBVIOUS
<1> USE DEF Init
<1>1. Length \in Nat /\ << >> \in Batches /\ 0 \in Position
  BY StreamFacts DEF Batches, Position
<1>2. RunnerOK /\ ResultsOK
  BY BoundsAssumption DEF RunnerOK, ResultsOK, IdleRunner, All, Attempts
<1>3. ReaderOK /\ BlockChOK
  BY <1>1 DEF ReaderOK, BlockChOK, IdleReader, All
<1>4. BatcherOK /\ BatchChOK
  BY <1>1 DEF BatcherOK, BatcherState, BatchChOK, AtMostOne, IdleBatcher, All
<1>5. ProcessorOK /\ ProcChOK
  BY <1>1 DEF ProcessorOK, ProcChOK, AtMostOne, IdleProcessor, All
<1>6. SenderOK
  BY <1>1, StreamFacts DEF SenderOK, SenderState, WithBatch, IdleSender, All, Status
<1>7. ProcessOK /\ ExternalOK
  BY <1>1, StreamAssumption, StreamFacts DEF ProcessOK, ExternalOK, Last
<1>8. CountersOK
  BY BoundsAssumption DEF CountersOK
<1> QED BY <1>2, <1>3, <1>4, <1>5, <1>6, <1>7, <1>8 DEF Typed

\* Every step keeps the types.
LEMMA NextTyped == Typed /\ [Next]_vars => Typed'
<1> SUFFICES ASSUME Typed, [Next]_vars PROVE Typed'
  OBVIOUS
<1>1. CASE UNCHANGED vars
  BY <1>1, UnchangedTyped DEF vars, workers, Typed
<1>2. CASE Next
  BY <1>2, RunnerTyped, ReaderTyped, BatcherTyped, ProcessorTyped, SenderTyped, WorldTyped
     DEF Next, GoroutineStep
<1> QED BY <1>1, <1>2

\* The types, with what they need to be inductive.
LEMMA TypedHolds == Spec => []Typed
BY InitTyped, NextTyped, PTL DEF Spec

-----------------------------------------------------------------------------
(***************************************************************************)
(* One attempt at a time.                                                  *)
(***************************************************************************)

\* What belongs to attempt a alone.
AttemptState(a) ==
  <<reader[a], blockCh[a], batcher[a], batchCh[a], processor[a], procCh[a], sender[a]>>

\* Nothing of attempt a has been started.
Fresh(a) ==
  /\ reader[a].pc = "idle" /\ blockCh[a] = << >>
  /\ batcher[a].pc = "idle" /\ batcher[a].batch = << >> /\ batchCh[a] = << >>
  /\ processor[a].pc = "idle" /\ processor[a].batch = << >> /\ procCh[a] = << >>
  /\ sender[a].pc = "idle" /\ sender[a].batch = << >>

\* The runner cancels an attempt before it turns to the next one, and starts the
\* goroutines of the current one only when it is done with the request.
AttemptInv ==
  /\ \A a \in Attempts : a < runner.attempt => cancelled[a]
  /\ \A a \in Attempts : a > runner.attempt => Fresh(a)
  /\ runner.pc \in {"start", "report"} => Fresh(runner.attempt)

\* A goroutine touches nothing of another attempt.
LEMMA OthersStay ==
  ASSUME Typed, NEW a \in Attempts, GoroutineStep(a), NEW d \in Attempts, d # a
  PROVE  UNCHANGED AttemptState(d)
<1> USE DEF AttemptState, workers
<1>1. CASE ReaderStep(a)
  BY <1>1 DEF Typed, ReaderOK, BlockChOK, ReaderStep, ReaderReceives, ReaderCloses, ReaderFails,
              ReaderReports
<1>2. CASE BatcherStep(a)
  <2>1. UNCHANGED <<reader, processor, procCh, sender>>
    BY <1>2 DEF BatcherStep
  <2>2. blockCh'[d] = blockCh[d] /\ batchCh'[d] = batchCh[d]
    BY <1>2 DEF Typed, BlockChOK, BatchChOK, BatcherStep, BatcherReceives, BatcherCollects,
                BatcherReleases, BatcherReports, BatcherLeaves, BatcherCloses
  <2>3. batcher'[d] = batcher[d]
    BY <1>2 DEF Typed, BatcherOK, BatcherStep, BatcherReceives, BatcherCollects, PushBlock,
                BatcherReleases, BatcherReports, BatcherLeaves, BatcherCloses
  <2> QED BY <2>1, <2>2, <2>3
<1>3. CASE ProcessorStep(a)
  BY <1>3 DEF Typed, ProcessorOK, BatchChOK, ProcChOK, ProcessorStep, ProcessorTakes,
              ProcessorHandsOver, ProcessorFails, ProcessorReports, ProcessorLeaves
<1>4. CASE SenderStep(a)
  <2>1. UNCHANGED <<reader, blockCh, batcher, batchCh, processor>>
    BY <1>4 DEF SenderStep
  <2>2. procCh'[d] = procCh[d]
    BY <1>4 DEF Typed, ProcChOK, SenderStep, SenderTakes, SenderDone, SenderReports, SenderLeaves
  <2>3. sender'[d] = sender[d]
    BY <1>4 DEF Typed, SenderOK, SenderStep, SenderTakes, SenderDone, SenderReports, SenderLeaves,
                SendSucceeds, SendFails, SendExhausted, CommitSucceeds, CommitFails, SenderStores,
                SenderReacts, MarkSucceeds, MarkFails, SenderLoops, SenderReportsNext
  <2> QED BY <2>1, <2>2, <2>3
<1> QED BY <1>1, <1>2, <1>3, <1>4 DEF GoroutineStep

\* An attempt that has not been started has no goroutine to take a step.
LEMMA FreshHasNoSteps ==
  ASSUME NEW a \in Attempts, Fresh(a)
  PROVE  ~ GoroutineStep(a)
<1> USE DEF Fresh
<1>1. ~ ReaderStep(a)
  BY DEF ReaderStep, ReaderReceives, ReaderCloses, ReaderFails, ReaderReports, ReaderReady
<1>2. ~ BatcherStep(a)
  BY DEF BatcherStep, BatcherReceives, BatcherCollects, BatcherReleases, BatcherReports,
         BatcherLeaves, BatcherCloses
<1>3. ~ ProcessorStep(a)
  BY DEF ProcessorStep, ProcessorTakes, ProcessorHandsOver, ProcessorFails, ProcessorReports,
         ProcessorLeaves
<1>4. ~ SenderStep(a)
  BY DEF SenderStep, SenderTakes, SenderDone, SenderReports, SenderLeaves, SendSucceeds, SendFails,
         SendExhausted, CommitSucceeds, CommitFails, SenderStores, SenderReacts, MarkSucceeds,
         MarkFails
<1> QED BY <1>1, <1>2, <1>3, <1>4 DEF GoroutineStep

\* An attempt that is not touched stays unstarted.
LEMMA FreshStays ==
  ASSUME NEW a \in Attempts, Fresh(a), UNCHANGED AttemptState(a)
  PROVE  Fresh(a)'
BY DEF Fresh, AttemptState

\* What the runner starts belongs to the current attempt.
LEMMA RunnerTouchesCurrent ==
  ASSUME Typed, RunnerStep, NEW d \in Attempts, d # runner.attempt
  PROVE  UNCHANGED AttemptState(d)
BY DEF Typed, RunnerOK, ReaderOK, BatcherOK, ProcessorOK, SenderOK, RunnerStep, RequestRefused,
       StreamStarted, ConnectFails, RunnerReports, Succeed, GiveUp, BackOff, Retry, Exit,
       StartWorkers, AttemptState, workers

\* When the sink is launched no attempt has been started.
LEMMA InitAttempts == Init => AttemptInv
<1> SUFFICES ASSUME Init PROVE AttemptInv
  OBVIOUS
<1>1. runner.attempt = 1 /\ 1 \in Attempts /\ \A a \in Attempts : a \in Int /\ a >= 1
  BY BoundsAssumption DEF Init, IdleRunner, Attempts
<1>2. \A a \in Attempts : Fresh(a)
  BY DEF Init, Fresh, All, IdleReader, IdleBatcher, IdleProcessor, IdleSender
<1> QED BY <1>1, <1>2 DEF AttemptInv

\* The runner moves on only behind a cancelled attempt, to one that is unstarted.
LEMMA RunnerAttempts ==
  ASSUME Typed, AttemptInv, RunnerStep
  PROVE  AttemptInv'
<1> USE DEF RunnerStep
<1>1. /\ runner.attempt \in Attempts /\ cancelled \in [Attempts -> BOOLEAN]
      /\ \A d \in Attempts : d \in Int
  BY DEF Typed, RunnerOK, Attempts
<1>2. \A d \in Attempts : d > runner.attempt => Fresh(d)'
  BY <1>1, RunnerTouchesCurrent, FreshStays DEF AttemptInv
<1>3. CASE RequestRefused \/ ConnectFails
  <2>1. /\ runner'.attempt = runner.attempt /\ runner.pc = "start"
        /\ UNCHANGED <<cancelled, AttemptState(runner.attempt)>>
    BY <1>1, <1>3 DEF Typed, RunnerOK, RequestRefused, ConnectFails, AttemptState, workers
  <2> QED BY <1>1, <1>2, <2>1, FreshStays DEF AttemptInv
<1>4. CASE StreamStarted \/ BackOff \/ Exit
  <2>1. /\ runner'.attempt = runner.attempt /\ runner'.pc \in {"wait", "backoff", "down"}
        /\ UNCHANGED cancelled
    BY <1>4 DEF Typed, RunnerOK, StreamStarted, BackOff, Exit
  <2> QED BY <1>1, <1>2, <2>1 DEF AttemptInv
<1>5. CASE RunnerReports \/ Succeed \/ GiveUp
  <2>1. /\ runner'.attempt = runner.attempt /\ runner'.pc \in {"wait", "shutdown"}
        /\ cancelled' = cancelled \/ childCtxCancel
    BY <1>5 DEF Typed, RunnerOK, RunnerReports, Succeed, GiveUp
  <2>2. \A d \in Attempts : cancelled[d] => cancelled'[d]
    BY <1>1, <2>1 DEF childCtxCancel
  <2> QED BY <1>1, <1>2, <2>1, <2>2 DEF AttemptInv
<1>6. CASE Retry
  <2>1. runner'.attempt = runner.attempt + 1 /\ childCtxCancel
    BY <1>6 DEF Typed, RunnerOK, Retry
  <2>2. \A d \in Attempts : d <= runner.attempt => cancelled'[d]
    BY <1>1, <2>1 DEF childCtxCancel, AttemptInv
  <2>3. runner.attempt + 1 \in Attempts
    BY <1>6, BoundsAssumption DEF Typed, RunnerOK, Retry, AttemptsLeft, Attempts
  <2> QED BY <1>1, <1>2, <2>1, <2>2, <2>3 DEF AttemptInv
<1> QED BY <1>3, <1>4, <1>5, <1>6

\* A goroutine starts no attempt.
LEMMA GoroutineAttempts ==
  ASSUME Typed, AttemptInv, NEW a \in Attempts, GoroutineStep(a)
  PROVE  AttemptInv'
<1>1. UNCHANGED <<runner, cancelled>>
  BY DEF GoroutineStep, ReaderStep, BatcherStep, ProcessorStep, SenderStep
<1>2. \A d \in Attempts : Fresh(d) => Fresh(d)'
  BY FreshHasNoSteps, OthersStay, FreshStays
<1> QED BY <1>1, <1>2 DEF AttemptInv, Typed, RunnerOK

\* Every step keeps the order of the attempts.
LEMMA NextAttempts == Typed /\ AttemptInv /\ [Next]_vars => AttemptInv'
<1> SUFFICES ASSUME Typed, AttemptInv, [Next]_vars PROVE AttemptInv'
  OBVIOUS
<1>1. CASE UNCHANGED vars \/ LatePatch \/ Intervene
  BY <1>1 DEF vars, LatePatch, Intervene, sinkVars, workers, AttemptInv, Fresh
<1>2. CASE Restart
  <2>1. \A a \in Attempts : Fresh(a)'
    BY <1>2 DEF Restart, All, Fresh, IdleReader, IdleBatcher, IdleProcessor, IdleSender
  <2>2. runner'.attempt = 1 /\ 1 \in Attempts /\ \A a \in Attempts : a \in Int /\ a >= 1
    BY <1>2, BoundsAssumption DEF Restart, IdleRunner, Attempts
  <2> QED BY <2>1, <2>2 DEF AttemptInv
<1> QED BY <1>1, <1>2, RunnerAttempts, GoroutineAttempts DEF Next

\* The inductive invariant behind OneAttemptAtATime.
LEMMA AttemptInvHolds == Spec => []AttemptInv
BY TypedHolds, InitAttempts, NextAttempts, PTL DEF Spec

-----------------------------------------------------------------------------
(***************************************************************************)
(* The room in the channels.  The size of a channel of blocks is set when  *)
(* the attempt starts, while nothing is in it: that is what AttemptInv is  *)
(* needed for.                                                             *)
(***************************************************************************)

\* A goroutine adds to a channel of blocks only when there is room.
LEMMA GoroutineRoom ==
  ASSUME Typed, RoomInv, NEW a \in Attempts, GoroutineStep(a)
  PROVE  RoomInv'
<1>1. ASSUME NEW d \in Attempts \ {a} PROVE UNCHANGED <<reader[d], blockCh[d]>>
  BY OthersStay DEF AttemptState
<1>2. PICK s \in Batches : s = blockCh[a]
  BY DEF Typed, BlockChOK
<1>3. PICK n \in Nat : n = reader[a].size
  BY DEF Typed, ReaderOK
<1>4. Len(s) <= n + 1 /\ Len(s) \in Nat
  BY <1>2, <1>3 DEF RoomInv, Batches
<1>5. ASSUME UNCHANGED <<reader[a].size, blockCh[a]>>
      PROVE  Len(blockCh'[a]) <= reader'[a].size + 1
  BY <1>5 DEF RoomInv
<1>6. Len(blockCh'[a]) <= reader'[a].size + 1
  <2>1. CASE ReaderStep(a)
    <3>1. CASE ReaderReceives(a)
      <4>1. /\ reader'[a].size = n /\ blockCh'[a] = Append(s, reader[a].next) /\ Len(s) <= n
            /\ reader[a].next \in 1 .. Length
        BY <1>2, <1>3, <3>1 DEF Typed, ReaderOK, BlockChOK, ReaderReceives, ReaderReady
      <4>2. Len(Append(s, reader[a].next)) = Len(s) + 1
        BY <4>1 DEF Batches
      <4> QED BY <1>4, <4>1, <4>2
    <3>2. CASE ~ ReaderReceives(a)
      <4>1. UNCHANGED <<reader[a].size, blockCh[a]>>
        BY <2>1, <3>2 DEF Typed, ReaderOK, ReaderStep, ReaderCloses, ReaderFails, ReaderReports
      <4> QED BY <1>5, <4>1
    <3> QED BY <3>1, <3>2
  <2>2. CASE BatcherStep(a)
    <3>1. UNCHANGED reader
      BY <2>2 DEF BatcherStep
    <3>2. CASE BatcherReceives(a)
      <4>1. blockCh'[a] = Tail(s) /\ s # << >>
        BY <1>2, <3>2 DEF Typed, BlockChOK, BatcherReceives
      <4>2. Len(Tail(s)) = Len(s) - 1
        BY <4>1, HeadTailProperties DEF Batches
      <4> QED BY <1>3, <1>4, <3>1, <4>1, <4>2
    <3>3. CASE ~ BatcherReceives(a)
      <4>1. UNCHANGED blockCh
        BY <2>2, <3>3 DEF BatcherStep, BatcherCollects, BatcherReleases, BatcherReports,
                          BatcherLeaves, BatcherCloses
      <4> QED BY <1>5, <3>1, <4>1
    <3> QED BY <3>2, <3>3
  <2>3. CASE ProcessorStep(a) \/ SenderStep(a)
    BY <1>5, <2>3 DEF ProcessorStep, SenderStep
  <2> QED BY <2>1, <2>2, <2>3 DEF GoroutineStep
<1> QED BY <1>1, <1>6 DEF RoomInv

\* The runner gives an attempt its channel while nothing is in it.
LEMMA RunnerRoom ==
  ASSUME Typed, AttemptInv, RoomInv, RunnerStep
  PROVE  RoomInv'
<1>1. UNCHANGED blockCh
  BY DEF RunnerStep
<1>2. CASE StreamStarted
  <2>1. /\ \A d \in Attempts \ {runner.attempt} : UNCHANGED reader[d]
        /\ reader'[runner.attempt].size = batchSize
        /\ batchSize \in Nat
    BY <1>2 DEF Typed, RunnerOK, ReaderOK, ProcessOK, StreamStarted
  <2>2. blockCh[runner.attempt] = << >> /\ Len(<< >>) = 0
    BY <1>2 DEF StreamStarted, AttemptInv, Fresh
  <2> QED BY <1>1, <2>1, <2>2 DEF RoomInv
<1>3. CASE ~ StreamStarted
  <2>1. UNCHANGED reader
    BY <1>3 DEF RunnerStep, RequestRefused, ConnectFails, RunnerReports, Succeed, GiveUp, BackOff,
                Retry, Exit
  <2> QED BY <1>1, <2>1 DEF RoomInv
<1> QED BY <1>2, <1>3

\* A channel that is made afresh is empty.
LEMMA FreshRoom ==
  ASSUME blockCh = All(<< >>), reader = All(IdleReader)
  PROVE  RoomInv
BY DEF RoomInv, All, IdleReader

\* No step fills a channel of blocks beyond its room.
LEMMA NextRoom == Typed /\ AttemptInv /\ RoomInv /\ [Next]_vars => RoomInv'
<1> SUFFICES ASSUME Typed, AttemptInv, RoomInv, [Next]_vars PROVE RoomInv'
  OBVIOUS
<1>1. CASE UNCHANGED vars \/ LatePatch \/ Intervene
  BY <1>1 DEF vars, LatePatch, Intervene, sinkVars, RoomInv
<1>2. CASE Restart
  BY <1>2 DEF Restart, RoomInv, All, IdleReader
<1> QED BY <1>1, <1>2, RunnerRoom, GoroutineRoom DEF Next

\* Type correctness of the whole pipeline, and no channel with more in it than it
\* has room for.
THEOREM TypeCorrect == Spec => []TypeOK
<1>1. Init => RoomInv
  BY FreshRoom DEF Init
<1>2. Spec => []RoomInv
  BY <1>1, NextRoom, TypedHolds, AttemptInvHolds, PTL DEF Spec
<1> QED BY <1>2, TypedIsTypeOK, TypedHolds, PTL

-----------------------------------------------------------------------------
\* For any number of attempts, whatever fails and however often the process is
\* started again: an attempt the runner has left behind is cancelled, and none is
\* begun before its turn.
THEOREM AttemptsComeOneByOne == Spec => []OneAttemptAtATime
<1>1. AttemptInv => OneAttemptAtATime
  BY DEF AttemptInv, OneAttemptAtATime, Fresh
<1> QED BY <1>1, AttemptInvHolds, PTL
=============================================================================
