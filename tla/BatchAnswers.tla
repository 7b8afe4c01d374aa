---------------------------- MODULE BatchAnswers ----------------------------
(***************************************************************************)
(* What batch processors promise to the rest of the sink, without the      *)
(* lock, the pool and the bytes on their way: a batch in hand is answered  *)
(* at one moment, with the payload that its blocks have in the files kept  *)
(* by then, or it is refused and nothing follows.  A file once kept stays. *)
(* This is the processor of Pipeline (ProcessorTakes, ProcessorHandsOver,  *)
(* ProcessorFails, ProcessorReports), with what it hands over.             *)
(***************************************************************************)
EXTENDS BlockData

CONSTANTS Processors, None

VARIABLES
  functionEnabled,
  encoding,
  kept,    \* [group -> url of the file its blocks are cut out of, or None]
  state,   \* [processor -> idle, inHand, answered, refused or closed]
  batch,   \* [processor -> the batch it is at, or None]
  answer,  \* [processor -> the payload, or None]
  down     \* a panic has ended the process

answerVars == <<functionEnabled, encoding, kept, state, batch, answer, down>>

AnswersInit ==
  /\ functionEnabled \in BOOLEAN
  /\ encoding \in Encodings
  /\ kept = [g \in Groups |-> None]
  /\ state = [c \in Processors |-> "idle"]
  /\ batch = [c \in Processors |-> None]
  /\ answer = [c \in Processors |-> None]
  /\ down = FALSE

InHand(c) == state[c] = "inHand" /\ ~ down

Take(c) ==
  /\ state[c] = "idle" /\ ~ down
  /\ state' = [state EXCEPT ![c] = "inHand"]
  /\ \E b \in Batches : batch' = [batch EXCEPT ![c] = b]
  /\ UNCHANGED <<functionEnabled, encoding, kept, answer, down>>

KeptFile(b) == Files[kept[BatchNumber(b)]]

\* A range that is not in its file may end the process.
MayPanic(c) ==
  \E i \in DOMAIN batch[c].blocks :
    LET b == batch[c].blocks[i]
    IN kept[BatchNumber(b)] # None /\ ~ InRange(b, KeptFile(b))

\* The file a block names is kept for its whole hundred, for good.
Keep(c) ==
  /\ InHand(c)
  /\ \E i \in DOMAIN batch[c].blocks :
       LET b == batch[c].blocks[i] IN
       /\ kept[BatchNumber(b)] = None
       /\ kept' = [kept EXCEPT ![BatchNumber(b)] = b.url]
  /\ down' = FALSE \/ (MayPanic(c)' /\ down' = TRUE)
  /\ UNCHANGED <<functionEnabled, encoding, state, batch, answer>>

Panic(c) ==
  /\ InHand(c) /\ MayPanic(c)
  /\ down' = TRUE
  /\ UNCHANGED <<functionEnabled, encoding, kept, state, batch, answer>>

Bytes(b) == IF InRange(b, KeptFile(b)) THEN Slice(b, KeptFile(b)) ELSE Padded(b, KeptFile(b))

Answer(c) ==
  /\ InHand(c)
  /\ \A i \in DOMAIN batch[c].blocks :
       LET b == batch[c].blocks[i] IN
       /\ kept[BatchNumber(b)] # None
       /\ b.bytesStart <= EndOf(b)
       /\ MustDecompress(functionEnabled, encoding) => Readable(Bytes(b))
  /\ answer' = [answer EXCEPT ![c] =
       NewProcessedBatch(batch[c],
         [i \in DOMAIN batch[c].blocks |->
            Transformed(Bytes(batch[c].blocks[i]), functionEnabled, encoding)],
         encoding)]
  /\ state' = [state EXCEPT ![c] = "answered"]
  /\ UNCHANGED <<functionEnabled, encoding, kept, batch, down>>

HandOver(c) ==
  /\ state[c] = "answered" /\ ~ down
  /\ state' = [state EXCEPT ![c] = "idle"]
  /\ batch' = [batch EXCEPT ![c] = None]
  /\ answer' = [answer EXCEPT ![c] = None]
  /\ UNCHANGED <<functionEnabled, encoding, kept, down>>

Refuse(c) ==
  /\ InHand(c)
  /\ state' = [state EXCEPT ![c] = "refused"]
  /\ UNCHANGED <<functionEnabled, encoding, kept, batch, answer, down>>

Close(c) ==
  /\ state[c] = "refused" /\ ~ down
  /\ state' = [state EXCEPT ![c] = "closed"]
  /\ UNCHANGED <<functionEnabled, encoding, kept, batch, answer, down>>

AnswersNext ==
  \E c \in Processors :
    Take(c) \/ Keep(c) \/ Panic(c) \/ Answer(c) \/ HandOver(c) \/ Refuse(c) \/ Close(c)

AnswersSpec == AnswersInit /\ [][AnswersNext]_answerVars
=============================================================================
