----------------------------- MODULE Accounting -----------------------------
(***************************************************************************)
(* What the sink says about its work: the sums that travel with the cursor *)
(* (blocks sent, time spent), kept by the stream cursor and handed to the  *)
(* state manager with each commit, and the counters of the metrics.  They  *)
(* are raised by the batch sender, which sends a batch with pauses between *)
(* the tries and then commits it, and they have to stay true through sends *)
(* and commits that fail, requests that arrive late, restarts, and senders *)
(* of cancelled attempts that have not ended yet.                          *)
(*                                                                         *)
(* Time passes in ticks.  Blocks are their positions in a stream that only *)
(* goes forward and keeps the status running; bytes are summed as blocks   *)
(* are.  Who pauses or ends a stream, and what the other goroutines do, is *)
(* in Pipeline; here they may end an attempt at any time.                  *)
(***************************************************************************)
EXTENDS SinkConfig

CONSTANTS
  Scenarios,       \* how the sink retries, and how often what fails
  Last,            \* the last block of the stream
  MaxBatch,        \* blocks of a batch
  MaxAttempts,     \* PIPELINE_RETRY_MAX_ATTEMPTS
  Backoff,         \* PIPELINE_RETRY_DELAY
  TicksPerSecond

Scenario ==
  [retryStrategy : RetryStrategies, retryAttempts : Nat,
   retryDelay : Nat,  \* in ticks
   sends : Nat,       \* sends that fail
   commits : Nat,     \* cursor updates that fail, or are not answered
   failures : Nat,    \* errors of the other goroutines
   restarts : Nat,
   ticks : Nat]       \* bound on the ticks of a behaviour

ASSUME AccountingAssumption ==
  /\ Scenarios \subseteq Scenario
  /\ Last \in Nat \ {0} /\ MaxBatch \in Nat \ {0} /\ MaxAttempts \in Nat \ {0}
  /\ Backoff \in Nat /\ TicksPerSecond \in Nat \ {0}

VARIABLES
  scenario,  \* the scenario, with what is left of its failures
  clock,
  cursor,    \* streamCursorService: its state, and lastCommitAt
  manager,   \* what the state manager has of the cursor
  patches,   \* cursor updates nobody waits for any more, which may arrive yet
  senders,   \* the batch sender of each attempt
  runner,    \* the attempt, and whether it is over
  channel,   \* there is an error in the error channel, which holds one
  metrics,   \* the counters of metricsService
  history    \* what really happened

vars == <<scenario, clock, cursor, manager, patches, senders, runner, channel, metrics, history>>

Attempts == 1 .. MaxAttempts

Sums == [position |-> 0, blocksSent |-> 0, timeSpent |-> 0]

WithCommitAt(sums, time) ==
  [position |-> sums.position, blocksSent |-> sums.blocksSent, timeSpent |-> sums.timeSpent,
   lastCommitAt |-> time]

\* A sender has a batch of the blocks from .. to, begun to send it at since, and
\* tried tries times; at is when it wakes up, or began to commit; seen is the cursor
\* it then saw.
Idle ==
  [pc |-> "idle", from |-> 1, to |-> 0, tries |-> 0, since |-> 0, at |-> 0,
   seen |-> WithCommitAt(Sums, 0), sums |-> Sums]

\* start: the gauge lastBlockSentAt is set, which nothing sets later, as the only
\* function that does so has no caller.
Counters(time) ==
  [blocksSent |-> 0, batchesSent |-> 0, errors |-> 0, retries |-> 0, lastBlockSentAt |-> time]

BeginAttempt(sums) == [Idle EXCEPT !.pc = "take", !.from = sums.position + 1]

\* A process that starts with what the state manager has.
Started(sums, time) ==
  /\ cursor' = WithCommitAt(sums, time)
  /\ senders' = [a \in Attempts |-> IF a = 1 THEN BeginAttempt(sums) ELSE Idle]
  /\ runner' = [attempt |-> 1, pc |-> "run", wake |-> 0]
  /\ channel' = FALSE
  /\ metrics' = Counters(time)

Init ==
  /\ scenario \in Scenarios
  /\ clock = 0
  /\ cursor = WithCommitAt(Sums, 0)
  /\ manager = Sums
  /\ patches = {}
  /\ senders = [a \in Attempts |-> IF a = 1 THEN BeginAttempt(Sums) ELSE Idle]
  /\ runner = [attempt |-> 1, pc |-> "run", wake |-> 0]
  /\ channel = FALSE
  /\ metrics = Counters(0)
  /\ history = [delivered |-> 0,    \* blocks in sends that were answered
                uncounted |-> {},   \* blocks whose batch was given up, or not committed
                givenUp |-> 0,      \* batches given up by this process
                raced |-> FALSE,    \* the cursor changed under a commit
                commits |-> 0,      \* states that this process has written
                lastSentAt |-> 0,   \* of this process
                born |-> WithCommitAt(Sums, 0)]   \* the cursor it started with

-----------------------------------------------------------------------------
(***************************************************************************)
(* The batch sender.                                                       *)
(***************************************************************************)

Cancelled(a) == a < runner.attempt

Blocks(a) == senders[a].from .. senders[a].to

NumBlocks(a) == senders[a].to - senders[a].from + 1

To(a, pc) == senders' = [senders EXCEPT ![a].pc = pc]

\* The locals of what is over are gone.
KeepBatch(a, pc) ==
  senders' = [senders EXCEPT ![a] = [Idle EXCEPT !.pc = pc, !.from = senders[a].from,
                                                           !.to = senders[a].to]]

NextBatch(a) ==
  senders' = [senders EXCEPT ![a] = [Idle EXCEPT !.pc = "take", !.from = senders[a].to + 1]]

\* A failure of this kind happens to this sender.
Fails(a, kind) ==
  IF Cancelled(a) THEN UNCHANGED scenario
  ELSE scenario[kind] > 0 /\ scenario' = [scenario EXCEPT ![kind] = @ - 1]

Uncounted(a) == [history EXCEPT !.uncounted = @ \cup Blocks(a)]

IncErrorsCount == [metrics EXCEPT !.errors = @ + 1]

IncRetriesCount == [metrics EXCEPT !.retries = @ + 1]

\* IncTotalBlocksSent, IncTotalBatchesSent
IncTotals(n) == [metrics EXCEPT !.blocksSent = @ + n, !.batchesSent = @ + 1]

\* The batch is dropped.
Exhaust(a) == [Uncounted(a) EXCEPT !.givenUp = @ + 1]

\* ProcessChannel takes the next batch, also in the select that finds the attempt
\* cancelled; with no attempts at all sendWithRetry does not even try.
Take(a) ==
  /\ senders[a].pc = "take" /\ senders[a].from <= Last
  /\ \E to \in senders[a].from .. Last :
       /\ to < senders[a].from + MaxBatch
       /\ LET taken == [senders[a] EXCEPT !.to = to, !.tries = 0, !.since = clock]
          IN IF scenario.retryAttempts > 0
               THEN /\ senders' = [senders EXCEPT ![a] = [taken EXCEPT !.pc = "send"]]
                    /\ UNCHANGED history
               ELSE /\ senders' = [senders EXCEPT ![a] = [taken EXCEPT !.pc = "exhausted"]]
                    /\ history' = [history EXCEPT !.uncounted = @ \cup (senders[a].from .. to),
                                                  !.givenUp = @ + 1]
  /\ UNCHANGED <<scenario, cursor, manager, patches, channel, metrics>>

Leave(a) ==
  /\ senders[a].pc = "take" /\ Cancelled(a)
  /\ senders' = [senders EXCEPT ![a] = [Idle EXCEPT !.pc = "ended"]]
  /\ UNCHANGED <<scenario, cursor, manager, patches, channel, metrics, history>>

SendSucceeds(a) ==
  /\ senders[a].pc = "send" /\ ~ Cancelled(a)
  /\ KeepBatch(a, "commit")
  /\ history' = [history EXCEPT !.delivered = @ + NumBlocks(a), !.lastSentAt = clock]
  /\ UNCHANGED <<scenario, cursor, manager, patches, channel, metrics>>

\* Mutant: a batch is committed when its attempts are over.
SendFailsUnnoticed(a) ==
  /\ senders[a].pc = "send" /\ Fails(a, "sends")
  /\ IF senders[a].tries + 1 < scenario.retryAttempts
       THEN senders' = [senders EXCEPT ![a].pc = "sleep", ![a].tries = @ + 1]
       ELSE To(a, "commit")
  /\ metrics' = IncErrorsCount
  /\ UNCHANGED <<cursor, manager, patches, channel, history>>

\* A send fails, and the sender sleeps, or has no attempt left.
SendFails(a) ==
  /\ senders[a].pc = "send" /\ Fails(a, "sends")
  /\ LET tries == senders[a].tries + 1
         delay == CalculateDelay(scenario.retryStrategy, tries, scenario.retryDelay)
     IN IF tries < scenario.retryAttempts
          THEN /\ senders' = [senders EXCEPT ![a] = [@ EXCEPT !.pc = "sleep", !.tries = tries,
                                                               !.at = clock + delay]]
               /\ UNCHANGED history
          ELSE /\ To(a, "exhausted")
               /\ history' = Exhaust(a)
  /\ metrics' = IncErrorsCount
  /\ UNCHANGED <<cursor, manager, patches, channel>>

\* The sleep is over, which a cancelled attempt does not shorten.
Retry(a) ==
  /\ senders[a].pc = "sleep" /\ clock >= senders[a].at
  /\ To(a, "send")
  /\ metrics' = IncRetriesCount
  /\ UNCHANGED <<scenario, cursor, manager, patches, channel, history>>

\* process puts its error into the channel, when there is room, and returns to take
\* the next batch.
Report(a) ==
  /\ senders[a].pc \in {"exhausted", "uncommitted"}
  /\ ~ channel /\ channel' = TRUE
  /\ NextBatch(a)
  /\ UNCHANGED <<scenario, cursor, manager, patches, metrics, history>>

-----------------------------------------------------------------------------
(***************************************************************************)
(* Commit.                                                                 *)
(***************************************************************************)

\* timeDelta, in whole seconds.
TimeDelta(a) == (senders[a].at - senders[a].seen.lastCommitAt) \div TicksPerSecond

\* Mutant: the batch itself is not counted.
PayloadBeforeBatch(a) ==
  [position |-> senders[a].to,
   blocksSent |-> senders[a].seen.blocksSent,
   timeSpent |-> senders[a].seen.timeSpent + TimeDelta(a)]

NewUpdateCursorPayload(a) ==
  [position |-> senders[a].to,
   blocksSent |-> senders[a].seen.blocksSent + NumBlocks(a),
   timeSpent |-> senders[a].seen.timeSpent + TimeDelta(a)]

\* Commit reads the cursor and the clock, and makes the payload; with the attempt
\* cancelled its request fails before it is sent.
CommitBegins(a) ==
  /\ senders[a].pc = "commit"
  /\ IF Cancelled(a)
       THEN KeepBatch(a, "uncommitted") /\ history' = Uncounted(a)
       ELSE /\ senders' = [senders EXCEPT ![a] = [@ EXCEPT !.pc = "update", !.at = clock,
                                                            !.seen = cursor]]
            /\ UNCHANGED history
  /\ UNCHANGED <<scenario, cursor, manager, patches, channel, metrics>>

UpdateAnswered(a) ==
  /\ senders[a].pc = "update" /\ ~ Cancelled(a)
  /\ manager' = NewUpdateCursorPayload(a)
  /\ To(a, "store")
  /\ UNCHANGED <<scenario, cursor, patches, channel, metrics, history>>

\* The update fails: it was made and not answered, or was not made, or will be.
UpdateFails(a) ==
  /\ senders[a].pc = "update" /\ Fails(a, "commits")
  /\ \/ manager' = NewUpdateCursorPayload(a) /\ UNCHANGED patches
     \/ patches' = patches \cup {NewUpdateCursorPayload(a)} /\ UNCHANGED manager
  /\ KeepBatch(a, "uncommitted")
  /\ history' = Uncounted(a)
  /\ UNCHANGED <<cursor, channel, metrics>>

\* Mutant: the next delta starts at the answer, not at the request.
ReadSumsNow(a) ==
  /\ senders[a].pc = "store"
  /\ cursor' = [cursor EXCEPT !.lastCommitAt = clock]
  /\ senders' = [senders EXCEPT
       ![a] = [@ EXCEPT !.pc = "write",
                        !.at = clock,
                        !.sums = [position |-> senders[a].to,
                                  blocksSent |-> cursor.blocksSent + NumBlocks(a),
                                  timeSpent |-> cursor.timeSpent + TimeDelta(a)]]]
  /\ UNCHANGED <<scenario, manager, patches, channel, metrics, history>>

\* After the answer: lastCommitAt is set, and the sums are read once more.
ReadSums(a) ==
  /\ senders[a].pc = "store"
  /\ cursor' = [cursor EXCEPT !.lastCommitAt = senders[a].at]
  /\ senders' = [senders EXCEPT
       ![a] = [@ EXCEPT !.pc = "write",
                        !.sums = [position |-> senders[a].to,
                                  blocksSent |-> cursor.blocksSent + NumBlocks(a),
                                  timeSpent |-> cursor.timeSpent + TimeDelta(a)]]]
  /\ UNCHANGED <<scenario, manager, patches, channel, metrics, history>>

\* The new state is written, whole.  Nothing keeps the sender of another attempt from
\* having done the same since this one read.
Write(a) ==
  /\ senders[a].pc = "write"
  /\ cursor' = WithCommitAt(senders[a].sums, cursor.lastCommitAt)
  /\ history' = [history EXCEPT
       !.raced = @ \/ cursor # [senders[a].seen EXCEPT !.lastCommitAt = senders[a].at],
       !.commits = @ + 1]
  /\ KeepBatch(a, "count")
  /\ UNCHANGED <<scenario, manager, patches, channel, metrics>>

\* Mutant: the counters are raised last, after process has returned at the end of
\* the stream.
CountLast(a) ==
  /\ senders[a].pc = "count"
  /\ metrics' = IF senders[a].to = Last THEN metrics ELSE IncTotals(NumBlocks(a))
  /\ NextBatch(a)
  /\ UNCHANGED <<scenario, cursor, manager, patches, channel, history>>

\* Commit has returned, and the counters are raised.
Count(a) ==
  /\ senders[a].pc = "count"
  /\ metrics' = IncTotals(NumBlocks(a))
  /\ NextBatch(a)
  /\ UNCHANGED <<scenario, cursor, manager, patches, channel, history>>

SenderStep(a) ==
  /\ \/ Take(a) \/ Leave(a) \/ SendSucceeds(a) \/ SendFails(a) \/ Retry(a) \/ Report(a)
     \/ CommitBegins(a) \/ UpdateAnswered(a) \/ UpdateFails(a) \/ ReadSums(a) \/ Write(a)
     \/ Count(a)
  /\ UNCHANGED <<clock, runner>>

-----------------------------------------------------------------------------
(***************************************************************************)
(* The rest of the pipeline, the state manager, the process and time.      *)
(***************************************************************************)

\* Another goroutine reports an error.
PipelineFails ==
  /\ scenario.failures > 0 /\ ~ channel
  /\ scenario' = [scenario EXCEPT !.failures = @ - 1]
  /\ channel' = TRUE
  /\ UNCHANGED <<clock, cursor, manager, patches, senders, runner, metrics, history>>

\* Mutant: the attempts are not counted against their maximum.
TakesForEver ==
  /\ runner.pc = "run" /\ channel
  /\ channel' = FALSE
  /\ runner' = [runner EXCEPT !.pc = "backoff", !.wake = clock + Backoff]
  /\ UNCHANGED <<scenario, clock, cursor, manager, patches, senders, metrics, history>>

\* The runner takes the error, and retries unless this was the last attempt.
RunnerTakes ==
  /\ runner.pc = "run" /\ channel
  /\ channel' = FALSE
  /\ runner' = IF runner.attempt = MaxAttempts THEN [runner EXCEPT !.pc = "over"]
               ELSE [runner EXCEPT !.pc = "backoff", !.wake = clock + Backoff]
  /\ UNCHANGED <<scenario, clock, cursor, manager, patches, senders, metrics, history>>

\* The attempt is cancelled, and the next one begins behind the cursor, unless that
\* has reached the end.
RunnerRetries ==
  /\ runner.pc = "backoff" /\ clock >= runner.wake
  /\ LET next == runner.attempt + 1
     IN /\ runner' = [attempt |-> next, wake |-> 0,
                      pc |-> IF cursor.position < Last THEN "run" ELSE "over"]
        /\ senders' = IF cursor.position < Last
                        THEN [senders EXCEPT ![next] = BeginAttempt(cursor)] ELSE senders
  /\ UNCHANGED <<scenario, clock, cursor, manager, patches, channel, metrics, history>>

LatePatch ==
  /\ \E patch \in patches : manager' = patch /\ patches' = patches \ {patch}
  /\ UNCHANGED <<scenario, clock, cursor, senders, runner, channel, metrics, history>>

\* The process dies, and starts again with the state manager's cursor.
Restart ==
  /\ scenario.restarts > 0
  /\ scenario' = [scenario EXCEPT !.restarts = @ - 1]
  /\ patches' = patches \cup
       {NewUpdateCursorPayload(a) : a \in {b \in Attempts : senders[b].pc = "update"}}
  /\ Started(manager, clock)
  /\ history' = [history EXCEPT !.givenUp = 0, !.commits = 0, !.lastSentAt = clock,
                                !.born = WithCommitAt(manager, clock)]
  /\ UNCHANGED <<clock, manager>>

Tick ==
  /\ clock < scenario.ticks
  /\ clock' = clock + 1
  /\ UNCHANGED <<scenario, cursor, manager, patches, senders, runner, channel, metrics, history>>

Next ==
  \/ \E a \in Attempts : SenderStep(a)
  \/ PipelineFails
  \/ RunnerTakes
  \/ RunnerRetries
  \/ LatePatch
  \/ Restart
  \/ Tick

Spec == Init /\ [][Next]_vars

-----------------------------------------------------------------------------
(***************************************************************************)
(* Properties.                                                             *)
(***************************************************************************)

IsSums(s) ==
  s.position \in 0 .. Last /\ s.blocksSent \in Nat /\ s.timeSpent \in Nat

TypeOK ==
  /\ scenario.retryStrategy \in RetryStrategies
  /\ clock \in 0 .. scenario.ticks
  /\ IsSums(cursor) /\ cursor.lastCommitAt \in 0 .. clock
  /\ IsSums(manager) /\ \A patch \in patches : IsSums(patch)
  /\ \A a \in Attempts :
       /\ senders[a].pc \in {"idle", "take", "send", "sleep", "exhausted", "commit", "update",
                             "store", "write", "count", "uncommitted", "ended"}
       /\ Blocks(a) \subseteq 1 .. Last
       /\ senders[a].tries \in 0 .. scenario.retryAttempts
       /\ senders[a].since \in 0 .. clock
  /\ runner.attempt \in Attempts /\ runner.pc \in {"run", "backoff", "over"}
  /\ channel \in BOOLEAN
  /\ metrics.lastBlockSentAt \in 0 .. clock

\* The state manager is never told of more blocks than were delivered, whatever is
\* sent or committed again, arrives late, or is committed by two attempts at once.
NeverCountedTooMuch == manager.blocksSent <= history.delivered

\* The cursor passes no block without counting it, unless its batch was given up or
\* its commit failed; a batch delivered again after that is counted once more.
CursorIsAccounted ==
  ~ history.raced =>
    manager.position
      <= manager.blocksSent + Cardinality(history.uncounted \cap 1 .. manager.position)

\* The time spent, told with the cursor, is the time since the process started up to
\* the last commit, of which each commit loses less than a second.  That holds across
\* commits that fail, and the pauses between retries count.
TimeSpentIsReal ==
  ~ history.raced /\ (\A a \in Attempts : senders[a].pc # "write") =>
    LET told == TicksPerSecond * (cursor.timeSpent - history.born.timeSpent)
        elapsed == cursor.lastCommitAt - history.born.lastCommitAt
    IN told <= elapsed /\ elapsed <= told + (TicksPerSecond - 1) * history.commits

\* When no sender is between writing the cursor and raising the counters, the metrics
\* tell of the same blocks as the cursor.  That is so only until the cursor has changed
\* under a commit (history.raced); from then on nothing is claimed of the two.
\* Always, no failed send is lost to the metrics: each is either retried, or slept upon,
\* or was the last of a batch that was given up.
MetricsAgree ==
  /\ ~ history.raced /\ (\A a \in Attempts : senders[a].pc # "count") =>
       cursor.blocksSent = history.born.blocksSent + metrics.blocksSent
  /\ scenario.retryAttempts > 0 =>
       metrics.errors = metrics.retries + history.givenUp
                          + Cardinality({a \in Attempts : senders[a].pc = "sleep"})

\* How long a destination may fail before a batch is given up.
Window(strategy, attempts, delay) ==
  IF attempts = 0 THEN 0
  ELSE CASE strategy = "fixed" -> (attempts - 1) * delay
         [] strategy = "linear" -> delay * ((attempts * (attempts - 1)) \div 2)
         [] strategy = "exponential" -> delay * (PowerOfTwo[attempts - 1] - 1)

\* No batch is given up, by any sender, before the whole window of its retries has
\* passed: a destination that fails for less than that loses nothing.
GivenUpAfterItsWindow ==
  \A a \in Attempts :
    senders[a].pc = "exhausted" =>
      clock - senders[a].since
        >= Window(scenario.retryStrategy, scenario.retryAttempts, scenario.retryDelay)

\* "The timestamp of the last block sent" (Help of the gauge lastBlockSentAt).
LastBlockSentAtIsTold == metrics.lastBlockSentAt >= history.lastSentAt
=============================================================================
