------------------------ MODULE PipelineProperties ------------------------
(***************************************************************************)
(* What the pipeline of the sink guarantees, and what its comments and log *)
(* messages say it does.                                                   *)
(***************************************************************************)
EXTENDS Pipeline

Kind == {"connect", "recv", "order", "push", "process", "exhausted", "commit", "mark",
         "termination"}

Batches == Seq(1 .. Length)

TypeOK ==
  /\ stream \in Streams
  /\ runner \in [pc : {"start", "report", "wait", "backoff", "shutdown", "down"},
                 attempt : Attempts, err : Kind \cup {"none"},
                 outcome : {"none", "success", "failure"}]
  /\ cancelled \in [Attempts -> BOOLEAN]
  /\ errorChannel = << >> \/ \E k \in Kind : errorChannel = <<k>>
  /\ doneChannel \in {<< >>, <<"done">>}
  /\ reader \in [Attempts -> [pc : {"idle", "recv", "report", "closed"},
                              next : 1 .. Length + 1, size : Nat]]
  /\ blockCh \in [Attempts -> Batches]
  /\ \A a \in Attempts : Len(blockCh[a]) <= reader[a].size + 1
  /\ batcher \in [Attempts -> [pc : {"idle", "select", "accept", "emit", "report",
                                     "flush", "closed"},
                               block : Position, batch : Batches,
                               err : {"none", "order", "push"}]]
  /\ batchCh \in [Attempts -> Seq(Batches)] /\ procCh \in [Attempts -> Seq(Batches)]
  /\ \A a \in Attempts : Len(batchCh[a]) <= 1 /\ Len(procCh[a]) <= 1
  /\ processor \in [Attempts -> [pc : {"idle", "select", "process", "report", "closed"},
                                 batch : Batches]]
  /\ sender \in [Attempts -> [pc : {"idle", "select", "send", "commit", "store", "react",
                                    "mark", "done", "report", "closed"},
                              batch : Batches, tries : 0 .. stream.retryAttempts,
                              status : Status, err : Kind \cup {"none"}]]
  /\ lastBlock \in Last
  /\ batchSize \in 1 .. stream.maxBatchSize
  /\ cursor \in [status : Status, position : Position]
  /\ previousStatus \in Status
  /\ manager \in [status : Status, position : Position]
  /\ patches \subseteq Position
  /\ delivered \subseteq 1 .. Length
  /\ abandoned \subseteq 1 .. Length
  /\ faults \in 0 .. MaxFaults
  /\ restarts \in 0 .. MaxRestarts

\* What the destination was given, or what was reported as not deliverable.
Settled == delivered \cup abandoned

SettledUpTo(p) == 1 .. p \subseteq Settled

\* No cursor - the state manager's, the sink's own, one still on its way - ever
\* stands behind a block that was neither delivered nor reported as undeliverable:
\* whatever is cancelled, retried, lost or restarted, no block is skipped silently.
NoSilentLoss ==
  /\ SettledUpTo(manager.position)
  /\ SettledUpTo(cursor.position)
  /\ \A p \in patches : SettledUpTo(p)

\* The destination never sees a block before every earlier one was settled, also
\* when the senders of a cancelled attempt and of the next one are both at work.
DeliveredInOrder ==
  \A p \in delivered : SettledUpTo(p)

\* What is still on its way to the destination in attempt a, the sender's hand
\* first: a part of the pipeline counts as long as the goroutine that empties it
\* is at work.
Hand(a) == IF batcher[a].pc \in {"accept", "emit"} THEN <<batcher[a].block>> ELSE << >>

Content(channel) == IF channel = << >> THEN << >> ELSE channel[1]

BatcherLive(a) == batcher[a].pc \in {"select", "accept", "emit"}

ProcessorLive(a) == processor[a].pc \in {"select", "process"}

Read(a) ==
  IF BatcherLive(a) THEN batcher[a].batch \o Hand(a) \o blockCh[a] ELSE batcher[a].batch

Flow(a) ==
  sender[a].batch \o Content(procCh[a])
    \o (IF ProcessorLive(a)
          THEN processor[a].batch \o Content(batchCh[a]) \o Read(a)
          ELSE << >>)

Consecutive(s) == \A i \in 1 .. Len(s) - 1 : s[i + 1] = s[i] + 1

\* Of the blocks on their way to the destination none is missing, doubled or out
\* of place, whichever goroutines fail, are cancelled or are stuck; they begin
\* right behind what is settled, and when nothing was dropped on the way they end
\* with the block the reader read last.
FlowInOrder ==
  \A a \in Attempts :
    /\ Consecutive(Flow(a))
    /\ Flow(a) # << >> =>
         /\ SettledUpTo(Flow(a)[1] - 1)
         /\ ProcessorLive(a) /\ BatcherLive(a) /\ reader[a].pc # "idle" =>
              LastOf(Flow(a)) = reader[a].next - 1

\* Only the attempt the runner waits for may still talk to the outside: every
\* earlier one is cancelled, and no later one has been started.
OneAttemptAtATime ==
  /\ \A a \in Attempts : a < runner.attempt => cancelled[a]
  /\ \A a \in Attempts : a > runner.attempt =>
       reader[a].pc = "idle" /\ sender[a].pc = "idle"

\* The signal that ends the sink well is sent only after the block that ends the
\* stream, and everything before it, was settled; an attempt that is no longer
\* the current one may have sent it.
DoneMeansEndReached ==
  doneChannel # << >> \/ runner.outcome = "success" =>
    /\ stream.toBlock # -1
    /\ \E p \in 1 .. Length : stream.blocks[p].number >= stream.toBlock /\ SettledUpTo(p)

\* What a stream is to its customer: so many blocks, some of which end it.
Promise(s) ==
  [length |-> Len(s.blocks),
   ends |-> {p \in 1 .. Len(s.blocks) : s.toBlock # -1 /\ s.toBlock <= s.blocks[p].number}]

Confirmed == {CommitPosition(sender[a].batch) : a \in Senders("store")}

Promised == INSTANCE Delivery WITH
  Streams <- {Promise(s) : s \in Streams}, stream <- Promise(stream),
  committed <- manager.position, confirmed <- Confirmed, late <- patches,
  cursor <- cursor.position, outcome <- runner.outcome

\* The runner, the goroutines of all its attempts, the network between them and the
\* outside and every restart are together no more than Delivery: batches settled one
\* behind the other, positions committed only behind what is settled, late or at once,
\* taken over only when confirmed, and one outcome, good only at the end of the stream.
KeepsItsPromise == Promised!Spec

(***************************************************************************)
(* Liveness, under FairSpec.                                               *)
(***************************************************************************)

\* Sends that fail now and then, but never as often as the stream allows attempts
\* for one batch, are absorbed: unless somebody stops the stream, the sink delivers
\* all of a stream that has an end, and ends well.
TransientFailuresAreAbsorbed ==
  stream.toBlock # -1 /\ [](manager.status \in {"starting", "running"}) =>
    <>(runner.pc = "down" /\ runner.outcome = "success" /\ 1 .. Length \subseteq delivered)

\* Once a commit has told the sink that the stream is paused or finished, the sink
\* comes to an end, whatever batches are under way and however long the stream is.
PauseStopsSink ==
  cursor.status \in {"paused", "finished"} ~> runner.pc = "down"

(***************************************************************************)
(* What comments and log messages of the code say, and the code does not   *)
(* do: see the runs that expect a violation.                               *)
(***************************************************************************)

\* "stream has been processed successfully.": then the destination has every
\* block of the stream.
SuccessMeansDelivered == runner.outcome = "success" => 1 .. Length \subseteq delivered

\* "invalid block order with reorg action": then the server sent blocks out of
\* order.  The servers of these runs never do.
OrderErrorsAreReal == errorChannel # <<"order">>

\* "retrying pipeline in %v": then the runner goes on to another attempt, and
\* waits for its result.
RetryIsMade == runner.pc = "backoff" ~> runner.pc \in {"wait", "down"}

\* "stream has been processed successfully." is what the runner has to say, and to
\* stop, once every block up to the last one is delivered and committed.
ProcessedStreamEnds ==
  ReachedEnd(cursor.position) /\ 1 .. Length \subseteq delivered ~> runner.pc = "down"
=============================================================================
