-------------------------- MODULE AccountingProofs --------------------------
(***************************************************************************)
(* What the sink says about its work is true: the proofs about Accounting, *)
(* for every length of the stream, every size of a batch, every number of  *)
(* attempts and every scenario of failures.                                *)
(*                                                                         *)
(* Until two senders have written the cursor at once (history.raced) the   *)
(* sums tell the whole; the state manager is never told too much, even     *)
(* then, as whoever counts blocks leaves room for what all the others have *)
(* delivered and not counted yet.                                          *)
(***************************************************************************)
EXTENDS Accounting, FiniteSetTheorems, WellFoundedInduction, TLAPS

-----------------------------------------------------------------------------
(***************************************************************************)
(* Induction over sets of naturals, powers of two, and the window of the   *)
(* retries.                                                                *)
(***************************************************************************)

\* A set of natural numbers has a least element.
LEMMA Least ==
  ASSUME NEW T, T \subseteq Nat, T # {}
  PROVE  \E n \in T : \A m \in T : n <= m
<1>1. PICK R : R = OpToRel(<, Nat)
  OBVIOUS
<1>2. IsWellFoundedOn(R, Nat)
  BY <1>1, NatLessThanWellFounded
<1>3. PICK n \in T : \A m \in T : <<m, n>> \notin R
  BY <1>2, WFMin
<1>4. R = {ss \in Nat \X Nat : ss[1] < ss[2]}
  BY <1>1 DEF OpToRel
<1>5. ASSUME NEW m \in T PROVE n <= m
  <2>1. m \in Nat /\ n \in Nat
    OBVIOUS
  <2>2. m < n => <<m, n>> \in R
    BY <1>4, <2>1
  <2> QED BY <1>3, <2>1, <2>2
<1> QED BY <1>5

\* Induction over the natural numbers up to n.
LEMMA UpTo ==
  ASSUME NEW n \in Nat, NEW S, 0 \in S, \A i \in 0 .. n - 1 : i \in S => i + 1 \in S
  PROVE  \A i \in 0 .. n : i \in S
<1> SUFFICES ASSUME (0 .. n) \ S # {} PROVE FALSE
  OBVIOUS
<1>1. PICK m \in (0 .. n) \ S : \A i \in (0 .. n) \ S : m <= i
  <2>1. (0 .. n) \ S \subseteq Nat
    OBVIOUS
  <2> QED BY <2>1, Least
<1>2. m # 0 /\ m - 1 \in 0 .. n - 1 /\ (m - 1) + 1 = m
  OBVIOUS
<1>3. m - 1 \in S
  BY <1>1, <1>2
<1> QED BY <1>2, <1>3

\* The first powers of two, up to the n-th.
Powers(n) ==
  {g \in [0 .. n -> Nat] : g[0] = 1 /\ \A k \in 1 .. n : g[k] = 2 * g[k - 1]}

\* There are powers of two up to any n.
LEMMA PowersExist == \A n \in Nat : Powers(n) # {}
<1> SUFFICES ASSUME NEW n \in Nat PROVE Powers(n) # {}
  OBVIOUS
<1> DEFINE E == {k \in 0 .. n : Powers(k) # {}}
<1>1. 0 \in E
  <2>1. [k \in 0 .. 0 |-> 1] \in Powers(0)
    BY DEF Powers
  <2> QED BY <2>1
<1>2. ASSUME NEW i \in 0 .. n - 1, i \in E PROVE i + 1 \in E
  <2>1. PICK g : g \in Powers(i)
    BY <1>2
  <2> DEFINE h == [k \in 0 .. i + 1 |-> IF k = i + 1 THEN 2 * g[i] ELSE g[k]]
  <2>2. g \in [0 .. i -> Nat] /\ g[0] = 1 /\ \A k \in 1 .. i : g[k] = 2 * g[k - 1]
    BY <2>1 DEF Powers
  <2>3. h \in [0 .. i + 1 -> Nat]
    BY <2>2
  <2>4. h[0] = 1
    BY <2>2
  <2>5. ASSUME NEW k \in 1 .. i + 1 PROVE h[k] = 2 * h[k - 1]
    <3>1. CASE k = i + 1
      BY <3>1, <2>2
    <3>2. CASE k \in 1 .. i
      BY <3>2, <2>2
    <3> QED BY <3>1, <3>2
  <2>6. h \in Powers(i + 1)
    BY <2>3, <2>4, <2>5 DEF Powers
  <2> QED BY <2>6
<1> HIDE DEF E
<1>3. \A i \in 0 .. n : i \in E
  BY <1>1, <1>2, UpTo
<1> QED BY <1>3 DEF E

\* Longer ones agree with shorter ones.
LEMMA PowersAgree ==
  ASSUME NEW n \in Nat, NEW m \in Nat, NEW g \in Powers(n), NEW h \in Powers(m), n <= m
  PROVE  g[n] = h[n]
<1> DEFINE E == {k \in 0 .. n : g[k] = h[k]}
<1>1. /\ g[0] = 1 /\ \A k \in 1 .. n : g[k] = 2 * g[k - 1]
      /\ h[0] = 1 /\ \A k \in 1 .. m : h[k] = 2 * h[k - 1]
  BY DEF Powers
<1>2. 0 \in E
  BY <1>1
<1>3. ASSUME NEW i \in 0 .. n - 1, i \in E PROVE i + 1 \in E
  <2>1. i + 1 \in 1 .. n /\ i + 1 \in 1 .. m /\ (i + 1) - 1 = i
    OBVIOUS
  <2>2. g[i + 1] = 2 * g[i] /\ h[i + 1] = 2 * h[i]
    BY <2>1, <1>1
  <2> QED BY <1>3, <2>1, <2>2
<1> HIDE DEF E
<1>4. \A i \in 0 .. n : i \in E
  BY <1>2, <1>3, UpTo
<1> QED BY <1>4 DEF E

\* The recursion of PowerOfTwo is well founded.
LEMMA PowersOfTwo ==
  /\ PowerOfTwo[0] = 1
  /\ \A n \in Nat : PowerOfTwo[n] \in Nat /\ PowerOfTwo[n + 1] = 2 * PowerOfTwo[n]
<1> DEFINE G(n) == CHOOSE g : g \in Powers(n)
           F == [n \in Nat |-> G(n)[n]]
<1>1. \A n \in Nat : G(n) \in Powers(n)
  BY PowersExist
<1> HIDE DEF G
<1>2. \A n \in Nat : F[n] \in Nat
  BY <1>1 DEF Powers
<1>3. F[0] = 1
  BY <1>1 DEF Powers
<1>4. ASSUME NEW n \in Nat, n # 0 PROVE F[n] = 2 * F[n - 1]
  <2>1. n - 1 \in Nat /\ n - 1 <= n /\ n \in 1 .. n
    BY <1>4
  <2>2. G(n)[n - 1] = G(n - 1)[n - 1]
    BY <1>1, <2>1, PowersAgree
  <2>3. G(n)[n] = 2 * G(n)[n - 1]
    BY <1>1, <2>1 DEF Powers
  <2> QED BY <2>1, <2>2, <2>3
<1>5. F = [n \in Nat |-> IF n = 0 THEN 1 ELSE 2 * F[n - 1]]
  <2> DEFINE H == [n \in Nat |-> IF n = 0 THEN 1 ELSE 2 * F[n - 1]]
  <2>1. \A n \in Nat : F[n] = H[n]
    BY <1>3, <1>4
  <2> QED BY <2>1
<1> HIDE DEF F
<1>6. PowerOfTwo = [n \in Nat |-> IF n = 0 THEN 1 ELSE 2 * PowerOfTwo[n - 1]]
  BY <1>5 DEF PowerOfTwo
<1>7. PICK P : P = PowerOfTwo
  OBVIOUS
<1>8. P = [n \in Nat |-> IF n = 0 THEN 1 ELSE 2 * P[n - 1]]
  BY <1>6, <1>7
<1>9. P[0] = 1
  BY <1>8
<1>10. ASSUME NEW n \in Nat PROVE P[n + 1] = 2 * P[n]
  <2>1. n + 1 \in Nat /\ n + 1 # 0 /\ (n + 1) - 1 = n
    OBVIOUS
  <2> QED BY <1>8, <2>1
<1>11. ASSUME NEW n \in Nat PROVE P[n] \in Nat
  <2> DEFINE E == {k \in 0 .. n : P[k] \in Nat}
  <2>1. 0 \in E
    BY <1>9
  <2>2. ASSUME NEW i \in 0 .. n - 1, i \in E PROVE i + 1 \in E
    <3>1. P[i + 1] = 2 * P[i]
      BY <1>10
    <3> QED BY <2>2, <3>1
  <2> HIDE DEF E
  <2>3. \A i \in 0 .. n : i \in E
    BY <2>1, <2>2, UpTo
  <2> QED BY <2>3 DEF E
<1> QED BY <1>7, <1>9, <1>10, <1>11

-----------------------------------------------------------------------------

\* The pauses are natural numbers.
LEMMA DelayType ==
  ASSUME NEW strategy, NEW n \in Nat \ {0}, NEW delay \in Nat
  PROVE  CalculateDelay(strategy, n, delay) \in Nat
<1>1. PICK p \in Nat : p = PowerOfTwo[n - 1]
  BY PowersOfTwo
<1>2. delay \in Nat /\ delay * n \in Nat /\ delay * p \in Nat
  OBVIOUS
<1> QED BY <1>1, <1>2 DEF CalculateDelay

\* The window of one attempt is empty, and each attempt more widens it by its pause.
LEMMA WindowGrows ==
  ASSUME NEW strategy \in RetryStrategies, NEW n \in Nat \ {0}, NEW delay \in Nat
  PROVE  /\ Window(strategy, n, delay) \in Nat
         /\ Window(strategy, 1, delay) = 0
         /\ Window(strategy, n + 1, delay)
              = Window(strategy, n, delay) + CalculateDelay(strategy, n, delay)
<1>1. PICK p \in Nat : p = PowerOfTwo[n - 1]
  BY PowersOfTwo
<1>2. PowerOfTwo[0] = 1 /\ PowerOfTwo[n] = 2 * p /\ (n = 1 => p = 1) /\ p >= 1
  <2>1. (n - 1) + 1 = n /\ n - 1 \in Nat
    OBVIOUS
  <2>2. PowerOfTwo[0] = 1 /\ PowerOfTwo[n] = 2 * p
    BY <1>1, <2>1, PowersOfTwo
  <2>3. n = 1 => p = 1
    BY <1>1, <2>2
  <2>4. p >= 1
    <3> DEFINE E == {k \in 0 .. n - 1 : PowerOfTwo[k] >= 1}
    <3>1. 0 \in E
      BY PowersOfTwo
    <3>2. ASSUME NEW i \in 0 .. (n - 1) - 1, i \in E PROVE i + 1 \in E
      <4>1. PowerOfTwo[i] \in Nat /\ PowerOfTwo[i + 1] = 2 * PowerOfTwo[i]
        BY PowersOfTwo
      <4> QED BY <3>2, <4>1
    <3> HIDE DEF E
    <3>3. \A i \in 0 .. n - 1 : i \in E
      BY <2>1, <3>1, <3>2, UpTo
    <3>4. n - 1 \in E
      BY <3>3
    <3> QED BY <1>1, <3>4 DEF E
  <2> QED BY <2>2, <2>3, <2>4
<1>3. CASE strategy = "fixed"
  <2>1. /\ Window(strategy, n, delay) = (n - 1) * delay
        /\ Window(strategy, 1, delay) = 0 * delay
        /\ Window(strategy, n + 1, delay) = n * delay
    BY <1>3 DEF Window
  <2>2. CalculateDelay(strategy, n, delay) = delay
    BY <1>3 DEF CalculateDelay
  <2>3. (n - 1) * delay \in Nat /\ 0 * delay = 0 /\ n * delay = (n - 1) * delay + delay
    OBVIOUS
  <2> QED BY <2>1, <2>2, <2>3
<1>4. CASE strategy = "linear"
  <2>1. /\ Window(strategy, n, delay) = delay * ((n * (n - 1)) \div 2)
        /\ Window(strategy, 1, delay) = delay * ((1 * (1 - 1)) \div 2)
        /\ Window(strategy, n + 1, delay) = delay * (((n + 1) * ((n + 1) - 1)) \div 2)
    BY <1>4 DEF Window
  <2>2. CalculateDelay(strategy, n, delay) = delay * n
    BY <1>4 DEF CalculateDelay
  <2>3. PICK q \in Nat : q = n * (n - 1)
    OBVIOUS
  <2>4. (n + 1) * ((n + 1) - 1) = q + 2 * n
    BY <2>3
  <2>5. PICK h \in Nat : h = q \div 2
    OBVIOUS
  <2>6. (q + 2 * n) \div 2 = h + n
    BY <2>5
  <2>7. delay * h \in Nat /\ delay * (h + n) = delay * h + delay * n
    OBVIOUS
  <2>8. (1 * (1 - 1)) \div 2 = 0 /\ delay * 0 = 0
    OBVIOUS
  <2> QED BY <2>1, <2>2, <2>3, <2>4, <2>5, <2>6, <2>7, <2>8
<1>5. CASE strategy = "exponential"
  <2>1. /\ Window(strategy, n, delay) = delay * (p - 1)
        /\ Window(strategy, 1, delay) = delay * (1 - 1)
        /\ Window(strategy, n + 1, delay) = delay * (2 * p - 1)
    BY <1>1, <1>2, <1>5 DEF Window
  <2>2. CalculateDelay(strategy, n, delay) = delay * p
    BY <1>1, <1>2, <1>5 DEF CalculateDelay
  <2>3. /\ delay * (p - 1) \in Nat /\ delay * (1 - 1) = 0
        /\ delay * (2 * p - 1) = delay * (p - 1) + delay * p
    BY <1>2
  <2> QED BY <2>1, <2>2, <2>3
<1> QED BY <1>3, <1>4, <1>5 DEF RetryStrategies

-----------------------------------------------------------------------------
(***************************************************************************)
(* What the variables hold, and what the senders have to be like for it to *)
(* stay so.                                                                *)
(***************************************************************************)

SumsState == [position : 0 .. Last, blocksSent : Nat, timeSpent : Nat]

CursorState == [position : 0 .. Last, blocksSent : Nat, timeSpent : Nat, lastCommitAt : Nat]

Stages == {"idle", "take", "send", "sleep", "exhausted", "commit", "update", "store", "write",
           "count", "uncommitted", "ended"}

SenderState ==
  [pc : Stages, from : 1 .. Last + 1, to : 0 .. Last, tries : Nat, since : Nat, at : Nat,
   seen : CursorState, sums : SumsState]

RunnerState == [attempt : Attempts, pc : {"run", "backoff", "over"}, wake : Nat]

MetricsState ==
  [blocksSent : Nat, batchesSent : Nat, errors : Nat, retries : Nat, lastBlockSentAt : Nat]

HistoryState ==
  [delivered : Nat, uncounted : SUBSET (1 .. Last), givenUp : Nat, raced : BOOLEAN,
   commits : Nat, lastSentAt : Nat, born : CursorState]

\* Stages of a sender that has a batch, whose batch has been delivered and is not yet in
\* the cursor, and that is in Commit.
Busy == {"send", "sleep", "exhausted", "commit", "update", "store", "write", "count",
         "uncommitted"}

Sent == {"commit", "update", "store", "write"}

Committing == {"update", "store", "write"}

Records ==
  /\ scenario \in Scenario
  /\ clock \in Nat
  /\ cursor \in CursorState
  /\ manager \in SumsState
  /\ patches \subseteq SumsState
  /\ senders \in [Attempts -> SenderState]
  /\ runner \in RunnerState
  /\ channel \in BOOLEAN
  /\ metrics \in MetricsState
  /\ history \in HistoryState

\* What is set to the time is not in the future; the pause of a sender that sleeps may
\* end in it.
Timely(s, now) ==
  /\ s.since <= now
  /\ s.pc \in Committing => s.seen.lastCommitAt <= s.at /\ s.at <= now

\* Who has a batch has one of a block at least, and tries it as often as it may.
Batched(s, attempts) ==
  /\ s.pc \in Busy => s.from <= s.to
  /\ s.pc \notin Busy => s.to = 0
  /\ s.tries <= attempts
  /\ s.pc \in {"send", "sleep"} => s.tries < attempts

\* Attempts to come have not begun.
InTurn ==
  /\ \A a \in Attempts : a > runner.attempt => senders[a].pc = "idle"
  /\ runner.pc = "backoff" => runner.attempt < MaxAttempts

Typed ==
  /\ Records
  /\ clock <= scenario.ticks
  /\ cursor.lastCommitAt <= clock
  /\ metrics.lastBlockSentAt <= clock
  /\ \A a \in Attempts :
       Timely(senders[a], clock) /\ Batched(senders[a], scenario.retryAttempts)
  /\ InTurn

-----------------------------------------------------------------------------
(***************************************************************************)
(* What a step of a sender makes of the records, field by field: all that  *)
(* the proofs below know of the actions.                                   *)
(***************************************************************************)

\* Nobody but sender a moves.
Moves(a) ==
  /\ senders' \in [Attempts -> SenderState]
  /\ \A b \in Attempts \ {a} : senders'[b] = senders[b]

\* How the sink retries stays what it was.
SameScenario ==
  /\ scenario' \in Scenario
  /\ scenario'.retryStrategy = scenario.retryStrategy
  /\ scenario'.retryAttempts = scenario.retryAttempts
  /\ scenario'.retryDelay = scenario.retryDelay
  /\ scenario'.ticks = scenario.ticks

\* The counters are raised by so much.
Raised(blocks, batches, errors, retries) ==
  /\ metrics' \in MetricsState
  /\ metrics'.blocksSent = metrics.blocksSent + blocks
  /\ metrics'.batchesSent = metrics.batchesSent + batches
  /\ metrics'.errors = metrics.errors + errors
  /\ metrics'.retries = metrics.retries + retries
  /\ metrics'.lastBlockSentAt = metrics.lastBlockSentAt

\* The blocks stay uncounted, those of n batches as they are given up.
LeftOut(blocks, n) ==
  /\ history' \in HistoryState
  /\ history'.uncounted = history.uncounted \cup blocks
  /\ history'.givenUp = history.givenUp + n
  /\ history'.delivered = history.delivered
  /\ history'.raced = history.raced
  /\ history'.commits = history.commits
  /\ history'.born = history.born

\* The records that steps write are of their sets.
LEMMA RecordTypes ==
  ASSUME NEW sums \in SumsState, NEW time \in Nat
  PROVE  /\ Sums \in SumsState
         /\ WithCommitAt(sums, time) \in CursorState
         /\ WithCommitAt(sums, time).position = sums.position
         /\ WithCommitAt(sums, time).blocksSent = sums.blocksSent
         /\ WithCommitAt(sums, time).timeSpent = sums.timeSpent
         /\ WithCommitAt(sums, time).lastCommitAt = time
         /\ Counters(time) \in MetricsState
<1>1. Last \in Nat \ {0}
  BY AccountingAssumption
<1> QED BY <1>1 DEF SumsState, CursorState, MetricsState, Sums, WithCommitAt, Counters

\* So is a sender with none of the locals.
LEMMA IdleFields ==
  /\ Idle \in SenderState /\ Idle.pc = "idle" /\ Idle.from = 1 /\ Idle.to = 0
  /\ Idle.tries = 0 /\ Idle.since = 0
<1>1. Last \in Nat \ {0} /\ 1 \in 1 .. Last + 1 /\ 0 \in 0 .. Last
  BY AccountingAssumption
<1>2. "idle" \in Stages /\ Sums \in SumsState
  BY RecordTypes, <1>1 DEF Stages, Sums, SumsState
<1>3. PICK c \in CursorState : c = WithCommitAt(Sums, 0)
  BY <1>2, RecordTypes
<1>4. PICK sums \in SumsState : sums = Sums
  BY <1>2
<1>5. PICK idle : idle = [pc |-> "idle", from |-> 1, to |-> 0, tries |-> 0, since |-> 0,
                          at |-> 0, seen |-> c, sums |-> sums]
  OBVIOUS
<1>6. idle \in SenderState
  BY <1>5, <1>1, <1>2 DEF SenderState
<1>7. idle = Idle
  BY <1>5, <1>3, <1>4 DEF Idle
<1> QED BY <1>5, <1>6, <1>7

\* A sender is replaced.
LEMMA Replaced ==
  ASSUME Records, NEW a \in Attempts, NEW s \in SenderState, senders' = [senders EXCEPT ![a] = s]
  PROVE  Moves(a) /\ senders'[a] = s
BY DEF Records, Moves

\* ... by one that only goes to another stage.
LEMMA ToFields ==
  ASSUME Records, NEW a \in Attempts, NEW pc \in Stages, To(a, pc)
  PROVE  /\ Moves(a)
         /\ senders'[a].pc = pc
         /\ senders'[a].from = senders[a].from /\ senders'[a].to = senders[a].to
         /\ senders'[a].tries = senders[a].tries /\ senders'[a].since = senders[a].since
         /\ senders'[a].at = senders[a].at /\ senders'[a].seen = senders[a].seen
         /\ senders'[a].sums = senders[a].sums
<1>1. PICK s \in SenderState : s = senders[a]
  BY DEF Records
<1>2. PICK t : t = [s EXCEPT !.pc = pc]
  OBVIOUS
<1>3. /\ t \in SenderState /\ t.pc = pc /\ t.from = s.from /\ t.to = s.to /\ t.tries = s.tries
      /\ t.since = s.since /\ t.at = s.at /\ t.seen = s.seen /\ t.sums = s.sums
  BY ONLY s \in SenderState, pc \in Stages, <1>2 DEF SenderState
<1>4. senders' = [senders EXCEPT ![a] = t]
  BY <1>1, <1>2 DEF To, Records
<1>5. Moves(a) /\ senders'[a] = t
  BY <1>3, <1>4, Replaced
<1> QED BY <1>1, <1>3, <1>5

\* ... by one with its batch and no locals.
LEMMA KeepBatchFields ==
  ASSUME Records, NEW a \in Attempts, NEW pc \in Stages, KeepBatch(a, pc)
  PROVE  /\ Moves(a)
         /\ senders'[a].pc = pc
         /\ senders'[a].from = senders[a].from /\ senders'[a].to = senders[a].to
         /\ senders'[a].tries = 0 /\ senders'[a].since = 0
<1>1. PICK from \in 1 .. Last + 1 : from = senders[a].from
  BY DEF Records, SenderState
<1>2. PICK to \in 0 .. Last : to = senders[a].to
  BY DEF Records, SenderState
<1>3. PICK idle \in SenderState : idle = Idle /\ idle.tries = 0 /\ idle.since = 0
  BY IdleFields
<1>4. PICK t : t = [idle EXCEPT !.pc = pc, !.from = from, !.to = to]
  OBVIOUS
<1>5. /\ t \in SenderState /\ t.pc = pc /\ t.from = from /\ t.to = to /\ t.tries = 0
      /\ t.since = 0
  BY ONLY idle \in SenderState, pc \in Stages, from \in 1 .. Last + 1, to \in 0 .. Last,
          <1>3, <1>4 DEF SenderState
<1>6. senders' = [senders EXCEPT ![a] = t]
  BY ONLY KeepBatch(a, pc), <1>1, <1>2, <1>3, <1>4, idle \in SenderState DEF KeepBatch, SenderState
<1>7. Moves(a) /\ senders'[a] = t
  BY <1>5, <1>6, Replaced
<1> QED BY <1>1, <1>2, <1>5, <1>7

\* ... by one that takes the batch behind its last one.
LEMMA NextBatchFields ==
  ASSUME Records, NEW a \in Attempts, NextBatch(a)
  PROVE  /\ Moves(a)
         /\ senders'[a].pc = "take"
         /\ senders'[a].from = senders[a].to + 1 /\ senders'[a].to = 0
         /\ senders'[a].tries = 0 /\ senders'[a].since = 0
<1>1. PICK from \in 1 .. Last + 1 : from = senders[a].to + 1
  BY AccountingAssumption DEF Records, SenderState
<1>2. "take" \in Stages /\ 0 \in 0 .. Last
  BY AccountingAssumption DEF Stages
<1>3. PICK idle \in SenderState : /\ idle = Idle /\ idle.to = 0 /\ idle.tries = 0
                                  /\ idle.since = 0
  BY IdleFields
<1>4. PICK t : t = [idle EXCEPT !.pc = "take", !.from = from]
  OBVIOUS
<1>5. /\ t \in SenderState /\ t.pc = "take" /\ t.from = from /\ t.to = 0 /\ t.tries = 0
      /\ t.since = 0
  BY ONLY idle \in SenderState, from \in 1 .. Last + 1, <1>2, <1>3, <1>4 DEF SenderState
<1>6. senders' = [senders EXCEPT ![a] = t]
  BY ONLY NextBatch(a), <1>1, <1>3, <1>4, idle \in SenderState DEF NextBatch, SenderState
<1>7. Moves(a) /\ senders'[a] = t
  BY <1>5, <1>6, Replaced
<1> QED BY <1>1, <1>5, <1>7

-----------------------------------------------------------------------------

\* An error or a retry is counted, or a batch and its n blocks.
LEMMA MetricsFields ==
  ASSUME Records, NEW n \in Nat
  PROVE  /\ metrics' = IncErrorsCount => Raised(0, 0, 1, 0)
         /\ metrics' = IncRetriesCount => Raised(0, 0, 0, 1)
         /\ metrics' = IncTotals(n) => Raised(n, 1, 0, 0)
<1>1. PICK m \in MetricsState : m = metrics
  BY DEF Records
<1>2. ASSUME metrics' = [m EXCEPT !.errors = @ + 1] PROVE Raised(0, 0, 1, 0)
  BY <1>1, <1>2 DEF Raised, MetricsState
<1>3. ASSUME metrics' = [m EXCEPT !.retries = @ + 1] PROVE Raised(0, 0, 0, 1)
  BY <1>1, <1>3 DEF Raised, MetricsState
<1>4. ASSUME metrics' = [m EXCEPT !.blocksSent = @ + n, !.batchesSent = @ + 1]
      PROVE  Raised(n, 1, 0, 0)
  <2>1. PICK blocks \in Nat : blocks = m.blocksSent + n
    BY DEF MetricsState
  <2>2. PICK batches \in Nat : batches = m.batchesSent + 1
    BY DEF MetricsState
  <2>3. PICK next : next = [m EXCEPT !.blocksSent = blocks, !.batchesSent = batches]
    OBVIOUS
  <2>4. /\ next \in MetricsState /\ next.blocksSent = blocks /\ next.batchesSent = batches
        /\ next.errors = m.errors /\ next.retries = m.retries
        /\ next.lastBlockSentAt = m.lastBlockSentAt
    BY ONLY m \in MetricsState, blocks \in Nat, batches \in Nat, <2>3 DEF MetricsState
  <2>5. metrics' = next
    BY <1>4, <2>1, <2>2, <2>3
  <2>6. m.errors + 0 = m.errors /\ m.retries + 0 = m.retries
    BY DEF MetricsState
  <2> QED BY <1>1, <2>1, <2>2, <2>4, <2>5, <2>6 DEF Raised
<1> QED BY <1>1, <1>2, <1>3, <1>4 DEF IncErrorsCount, IncRetriesCount, IncTotals

\* Blocks that stay uncounted, of a batch that is given up or not.
LEMMA HistoryFields ==
  ASSUME Records, NEW blocks \in SUBSET (1 .. Last)
  PROVE  /\ history' = [history EXCEPT !.uncounted = @ \cup blocks] => LeftOut(blocks, 0)
         /\ history' = [history EXCEPT !.uncounted = @ \cup blocks, !.givenUp = @ + 1]
              => LeftOut(blocks, 1)
<1>1. PICK h \in HistoryState : h = history
  BY DEF Records
<1>2. ASSUME history' = [h EXCEPT !.uncounted = @ \cup blocks] PROVE LeftOut(blocks, 0)
  BY <1>1, <1>2 DEF LeftOut, HistoryState
<1>3. ASSUME history' = [h EXCEPT !.uncounted = @ \cup blocks, !.givenUp = @ + 1]
      PROVE  LeftOut(blocks, 1)
  <2>1. PICK left \in SUBSET (1 .. Last) : left = h.uncounted \cup blocks
    BY DEF HistoryState
  <2>2. PICK n \in Nat : n = h.givenUp + 1
    BY DEF HistoryState
  <2>3. PICK next : next = [h EXCEPT !.uncounted = left, !.givenUp = n]
    OBVIOUS
  <2>4. /\ next \in HistoryState /\ next.uncounted = left /\ next.givenUp = n
        /\ next.delivered = h.delivered /\ next.raced = h.raced /\ next.born = h.born
        /\ next.commits = h.commits
    BY ONLY h \in HistoryState, left \in SUBSET (1 .. Last), n \in Nat, <2>3 DEF HistoryState
  <2>5. history' = next
    BY <1>3, <2>1, <2>2, <2>3
  <2> QED BY <1>1, <2>1, <2>2, <2>4, <2>5 DEF LeftOut
<1> QED BY <1>1, <1>2, <1>3

\* A failure is of the scenario, or it is what comes of being cancelled.
LEMMA FailsFields ==
  ASSUME Records, NEW a \in Attempts, Fails(a, "sends") \/ Fails(a, "commits")
  PROVE  SameScenario
<1>1. PICK s \in Scenario : s = scenario
  BY DEF Records
<1>2. CASE scenario' = scenario
  BY <1>1, <1>2 DEF SameScenario
<1>3. CASE s.sends > 0 /\ scenario' = [s EXCEPT !.sends = @ - 1]
  BY <1>1, <1>3 DEF SameScenario, Scenario
<1>4. CASE s.commits > 0 /\ scenario' = [s EXCEPT !.commits = @ - 1]
  BY <1>1, <1>4 DEF SameScenario, Scenario
<1> QED BY <1>1, <1>2, <1>3, <1>4 DEF Fails

\* Who has a batch has blocks of the stream.
LEMMA BatchFields ==
  ASSUME Typed, NEW a \in Attempts
  PROVE  /\ Blocks(a) = senders[a].from .. senders[a].to
         /\ Blocks(a) \subseteq 1 .. Last
         /\ NumBlocks(a) = senders[a].to - senders[a].from + 1
         /\ senders[a].pc \in Busy => NumBlocks(a) \in Nat /\ NumBlocks(a) >= 1
<1>1. PICK s \in SenderState : s = senders[a]
  BY DEF Typed, Records
<1>2. Last \in Nat /\ s.from \in 1 .. Last + 1 /\ s.to \in 0 .. Last
  BY AccountingAssumption DEF SenderState
<1>3. s.pc \in Busy => s.from <= s.to
  BY <1>1 DEF Typed, Batched
<1> QED BY <1>1, <1>2, <1>3 DEF Blocks, NumBlocks

\* A sender takes the next batch, and tries it unless it has no tries at all.
LEMMA TakeEffect ==
  ASSUME Typed, NEW a \in Attempts, Take(a)
  PROVE  /\ Moves(a) /\ senders[a].pc = "take"
         /\ senders'[a].from = senders[a].from
         /\ senders'[a].from <= senders'[a].to
         /\ senders'[a].tries = 0 /\ senders'[a].since = clock
         /\ IF scenario.retryAttempts > 0
              THEN senders'[a].pc = "send" /\ UNCHANGED history
              ELSE /\ senders'[a].pc = "exhausted"
                   /\ LeftOut(senders'[a].from .. senders'[a].to, 1)
         /\ UNCHANGED <<scenario, cursor, manager, patches, channel, metrics>>
<1>1. PICK s \in SenderState : s = senders[a]
  BY DEF Typed, Records
<1>2. PICK to \in s.from .. Last :
        LET taken == [s EXCEPT !.to = to, !.tries = 0, !.since = clock]
        IN IF scenario.retryAttempts > 0
             THEN /\ senders' = [senders EXCEPT ![a] = [taken EXCEPT !.pc = "send"]]
                  /\ UNCHANGED history
             ELSE /\ senders' = [senders EXCEPT ![a] = [taken EXCEPT !.pc = "exhausted"]]
                  /\ history' = [history EXCEPT !.uncounted = @ \cup (s.from .. to),
                                                !.givenUp = @ + 1]
  BY <1>1 DEF Take
<1>3. /\ clock \in Nat /\ Last \in Nat /\ s.from \in Nat /\ s.from >= 1
      /\ to \in 0 .. Last /\ s.from <= to
  BY AccountingAssumption DEF Typed, Records, SenderState
<1>4. PICK taken : taken = [s EXCEPT !.to = to, !.tries = 0, !.since = clock]
  OBVIOUS
<1>5. /\ taken \in SenderState /\ taken.from = s.from /\ taken.to = to /\ taken.tries = 0
      /\ taken.since = clock
  BY ONLY s \in SenderState, <1>3, <1>4 DEF SenderState
<1>6. PICK t : t = [taken EXCEPT !.pc = IF scenario.retryAttempts > 0 THEN "send" ELSE "exhausted"]
  OBVIOUS
<1>7. /\ t \in SenderState /\ t.from = s.from /\ t.to = to /\ t.tries = 0 /\ t.since = clock
      /\ t.pc = IF scenario.retryAttempts > 0 THEN "send" ELSE "exhausted"
  BY ONLY <1>5, <1>6 DEF SenderState, Stages
<1>8. senders' = [senders EXCEPT ![a] = t]
  BY <1>2, <1>4, <1>5, <1>6
<1>9. Moves(a) /\ senders'[a] = t
  BY <1>7, <1>8, Replaced DEF Typed
<1>10. ASSUME ~ (scenario.retryAttempts > 0) PROVE LeftOut(s.from .. to, 1)
  <2>1. history' = [history EXCEPT !.uncounted = @ \cup (s.from .. to), !.givenUp = @ + 1]
    BY <1>2, <1>10
  <2>2. s.from .. to \in SUBSET (1 .. Last)
    BY <1>3
  <2> QED BY <2>1, <2>2, HistoryFields DEF Typed
<1> QED BY <1>1, <1>2, <1>3, <1>7, <1>9, <1>10 DEF Take

\* The sender of a cancelled attempt ends.
LEMMA LeaveEffect ==
  ASSUME Typed, NEW a \in Attempts, Leave(a)
  PROVE  /\ Moves(a) /\ senders[a].pc = "take" /\ senders'[a].pc = "ended"
         /\ senders'[a].to = 0 /\ senders'[a].tries = 0 /\ senders'[a].since = 0
         /\ UNCHANGED <<scenario, cursor, manager, patches, channel, metrics, history>>
<1>1. PICK idle \in SenderState : /\ idle = Idle /\ idle.to = 0 /\ idle.tries = 0
                                  /\ idle.since = 0
  BY IdleFields
<1>2. PICK t : t = [idle EXCEPT !.pc = "ended"]
  OBVIOUS
<1>3. t \in SenderState /\ t.pc = "ended" /\ t.to = 0 /\ t.tries = 0 /\ t.since = 0
  BY ONLY idle \in SenderState, <1>1, <1>2 DEF SenderState, Stages
<1>4. senders' = [senders EXCEPT ![a] = [Idle EXCEPT !.pc = "ended"]]
  BY DEF Leave
<1>5. senders' = [senders EXCEPT ![a] = t]
  BY ONLY <1>1, <1>2, <1>4, idle \in SenderState DEF SenderState
<1>6. Moves(a) /\ senders'[a] = t
  BY <1>3, <1>5, Replaced DEF Typed
<1> QED BY <1>3, <1>6 DEF Leave

\* The batch is delivered, and goes on to its commit.
LEMMA SendSucceedsEffect ==
  ASSUME Typed, NEW a \in Attempts, SendSucceeds(a)
  PROVE  /\ Moves(a) /\ senders[a].pc = "send" /\ senders'[a].pc = "commit"
         /\ senders'[a].from = senders[a].from /\ senders'[a].to = senders[a].to
         /\ senders'[a].tries = 0 /\ senders'[a].since = 0
         /\ history' \in HistoryState
         /\ history'.delivered = history.delivered + NumBlocks(a)
         /\ history'.uncounted = history.uncounted /\ history'.givenUp = history.givenUp
         /\ history'.raced = history.raced /\ history'.born = history.born
         /\ history'.commits = history.commits
         /\ UNCHANGED <<scenario, cursor, manager, patches, channel, metrics>>
<1>1. "commit" \in Stages /\ senders[a].pc \in Busy
  BY DEF Stages, SendSucceeds, Busy
<1>2. KeepBatch(a, "commit")
  BY DEF SendSucceeds
<1>3. /\ Moves(a) /\ senders'[a].pc = "commit"
      /\ senders'[a].from = senders[a].from /\ senders'[a].to = senders[a].to
      /\ senders'[a].tries = 0 /\ senders'[a].since = 0
  BY <1>1, <1>2, KeepBatchFields DEF Typed
<1>4. PICK h \in HistoryState : h = history
  BY DEF Typed, Records
<1>5. PICK n \in Nat : n = NumBlocks(a)
  BY <1>1, BatchFields
<1>6. clock \in Nat
  BY DEF Typed, Records
<1>7. PICK d \in Nat : d = h.delivered + n
  BY DEF HistoryState
<1>8. PICK next : next = [h EXCEPT !.delivered = d, !.lastSentAt = clock]
  OBVIOUS
<1>9. /\ next \in HistoryState /\ next.delivered = d
      /\ next.uncounted = h.uncounted /\ next.givenUp = h.givenUp
      /\ next.raced = h.raced /\ next.born = h.born /\ next.commits = h.commits
  BY ONLY h \in HistoryState, d \in Nat, <1>6, <1>8 DEF HistoryState
<1>10. history' = next
  BY <1>4, <1>5, <1>7, <1>8 DEF SendSucceeds
<1> QED BY <1>3, <1>4, <1>5, <1>7, <1>9, <1>10 DEF SendSucceeds

\* The send fails: the sender sleeps, or gives the batch up.
LEMMA SendFailsEffect ==
  ASSUME Typed, NEW a \in Attempts, SendFails(a)
  PROVE  /\ Moves(a) /\ senders[a].pc = "send" /\ SameScenario
         /\ senders'[a].from = senders[a].from /\ senders'[a].to = senders[a].to
         /\ senders'[a].since = senders[a].since
         /\ IF senders[a].tries + 1 < scenario.retryAttempts
              THEN /\ senders'[a].pc = "sleep" /\ senders'[a].tries = senders[a].tries + 1
                   /\ senders'[a].at = clock + CalculateDelay(scenario.retryStrategy,
                                         senders[a].tries + 1, scenario.retryDelay)
                   /\ UNCHANGED history
              ELSE /\ senders'[a].pc = "exhausted" /\ senders'[a].tries = senders[a].tries
                   /\ LeftOut(Blocks(a), 1)
         /\ Raised(0, 0, 1, 0)
         /\ UNCHANGED <<cursor, manager, patches, channel>>
<1>1. PICK s \in SenderState : s = senders[a]
  BY DEF Typed, Records
<1>2. PICK tries \in Nat \ {0} : tries = s.tries + 1
  BY DEF SenderState
<1>3. PICK delay \in Nat :
        delay = CalculateDelay(scenario.retryStrategy, tries, scenario.retryDelay)
  <2>1. scenario.retryDelay \in Nat
    BY DEF Typed, Records, Scenario
  <2> QED BY <2>1, DelayType
<1>4. Raised(0, 0, 1, 0)
  BY MetricsFields DEF SendFails, Typed
<1>5. SameScenario
  BY FailsFields DEF SendFails, Typed
<1>6. ASSUME tries < scenario.retryAttempts
      PROVE  /\ Moves(a) /\ senders'[a].pc = "sleep" /\ senders'[a].tries = tries
             /\ senders'[a].at = clock + delay
             /\ senders'[a].from = s.from /\ senders'[a].to = s.to
             /\ senders'[a].since = s.since
             /\ UNCHANGED history
  <2>1. PICK wake \in Nat : wake = clock + delay
    BY DEF Typed, Records
  <2>2. PICK t : t = [s EXCEPT !.pc = "sleep", !.tries = tries, !.at = wake]
    OBVIOUS
  <2>3. /\ t \in SenderState /\ t.pc = "sleep" /\ t.tries = tries /\ t.at = wake
        /\ t.from = s.from /\ t.to = s.to /\ t.since = s.since
    BY ONLY s \in SenderState, tries \in Nat \ {0}, wake \in Nat, <2>2 DEF SenderState, Stages
  <2>4. senders' = [senders EXCEPT ![a] = t] /\ UNCHANGED history
    BY <1>1, <1>2, <1>3, <1>6, <2>1, <2>2 DEF SendFails
  <2>5. Moves(a) /\ senders'[a] = t
    BY <2>3, <2>4, Replaced DEF Typed
  <2> QED BY <2>1, <2>3, <2>4, <2>5
<1>7. ASSUME ~ (tries < scenario.retryAttempts)
      PROVE  /\ Moves(a) /\ senders'[a].pc = "exhausted" /\ senders'[a].tries = s.tries
             /\ senders'[a].from = s.from /\ senders'[a].to = s.to
             /\ senders'[a].since = s.since
             /\ LeftOut(Blocks(a), 1)
  <2>1. To(a, "exhausted") /\ history' = Exhaust(a)
    BY <1>1, <1>2, <1>7 DEF SendFails
  <2>2. "exhausted" \in Stages
    BY DEF Stages
  <2>3. /\ Moves(a) /\ senders'[a].pc = "exhausted" /\ senders'[a].tries = s.tries
        /\ senders'[a].from = s.from /\ senders'[a].to = s.to /\ senders'[a].since = s.since
    BY <1>1, <2>1, <2>2, ToFields DEF Typed
  <2>4. Blocks(a) \in SUBSET (1 .. Last)
    BY BatchFields
  <2>5. history' = [history EXCEPT !.uncounted = @ \cup Blocks(a), !.givenUp = @ + 1]
    BY <2>1 DEF Exhaust, Uncounted, Typed, Records, HistoryState
  <2> QED BY <2>3, <2>4, <2>5, HistoryFields DEF Typed
<1> QED BY <1>1, <1>2, <1>3, <1>4, <1>5, <1>6, <1>7 DEF SendFails

\* The sleep is over, and a retry is counted.
LEMMA RetryEffect ==
  ASSUME Typed, NEW a \in Attempts, Retry(a)
  PROVE  /\ Moves(a) /\ senders[a].pc = "sleep" /\ clock >= senders[a].at
         /\ senders'[a].pc = "send"
         /\ senders'[a].from = senders[a].from /\ senders'[a].to = senders[a].to
         /\ senders'[a].tries = senders[a].tries /\ senders'[a].since = senders[a].since
         /\ Raised(0, 0, 0, 1)
         /\ UNCHANGED <<scenario, cursor, manager, patches, channel, history>>
<1>1. To(a, "send") /\ "send" \in Stages
  BY DEF Retry, Stages
<1>2. Raised(0, 0, 0, 1)
  BY MetricsFields DEF Retry, Typed
<1> QED BY <1>1, <1>2, ToFields DEF Retry, Typed

\* The error is reported, and the sender goes on behind its batch.
LEMMA ReportEffect ==
  ASSUME Typed, NEW a \in Attempts, Report(a)
  PROVE  /\ Moves(a) /\ senders[a].pc \in {"exhausted", "uncommitted"}
         /\ senders'[a].pc = "take"
         /\ senders'[a].from = senders[a].to + 1 /\ senders'[a].to = 0
         /\ senders'[a].tries = 0 /\ senders'[a].since = 0
         /\ channel' = TRUE
         /\ UNCHANGED <<scenario, cursor, manager, patches, metrics, history>>
BY NextBatchFields DEF Report, Typed

\* What a commit tells the state manager.
LEMMA PayloadFields ==
  ASSUME Typed, NEW a \in Attempts, senders[a].pc \in Committing
  PROVE  LET s == senders[a]
             patch == NewUpdateCursorPayload(a)
         IN /\ TimeDelta(a) \in Nat
            /\ TimeDelta(a) = (s.at - s.seen.lastCommitAt) \div TicksPerSecond
            /\ patch \in SumsState
            /\ patch.position = s.to
            /\ patch.blocksSent = s.seen.blocksSent + (s.to - s.from + 1)
            /\ patch.timeSpent = s.seen.timeSpent + TimeDelta(a)
<1>1. PICK s \in SenderState : s = senders[a]
  BY DEF Typed, Records
<1>2. /\ s.at \in Nat /\ s.seen.lastCommitAt \in Nat /\ s.seen.lastCommitAt <= s.at
      /\ s.seen.blocksSent \in Nat /\ s.seen.timeSpent \in Nat /\ s.to \in 0 .. Last
  BY <1>1 DEF Typed, Timely, SenderState, CursorState
<1>3. PICK delta \in Nat : delta = (s.at - s.seen.lastCommitAt) \div TicksPerSecond
  BY <1>2, AccountingAssumption
<1>4. TimeDelta(a) = delta
  BY <1>1, <1>3 DEF TimeDelta
<1>5. PICK n \in Nat : n = NumBlocks(a) /\ n = s.to - s.from + 1
  BY <1>1, BatchFields DEF Busy, Committing
<1>6. PICK blocks \in Nat : blocks = s.seen.blocksSent + n
  BY <1>2
<1>7. PICK time \in Nat : time = s.seen.timeSpent + delta
  BY <1>2
<1>8. PICK patch : patch = [position |-> s.to, blocksSent |-> blocks, timeSpent |-> time]
  OBVIOUS
<1>9. patch = NewUpdateCursorPayload(a)
  BY <1>1, <1>4, <1>5, <1>6, <1>7, <1>8 DEF NewUpdateCursorPayload
<1>10. /\ patch \in SumsState /\ patch.position = s.to /\ patch.blocksSent = blocks
       /\ patch.timeSpent = time
  BY <1>2, <1>8 DEF SumsState
<1> QED BY <1>1, <1>3, <1>4, <1>5, <1>6, <1>7, <1>9, <1>10

\* The sender reads the cursor and the clock, or its attempt is cancelled.
LEMMA CommitBeginsEffect ==
  ASSUME Typed, NEW a \in Attempts, CommitBegins(a)
  PROVE  /\ Moves(a) /\ senders[a].pc = "commit"
         /\ senders'[a].from = senders[a].from /\ senders'[a].to = senders[a].to
         /\ \/ /\ senders'[a].pc = "uncommitted"
               /\ senders'[a].tries = 0 /\ senders'[a].since = 0
               /\ LeftOut(Blocks(a), 0)
            \/ /\ senders'[a].pc = "update" /\ senders'[a].at = clock
               /\ senders'[a].seen = cursor
               /\ senders'[a].tries = senders[a].tries /\ senders'[a].since = senders[a].since
               /\ UNCHANGED history
         /\ UNCHANGED <<scenario, cursor, manager, patches, channel, metrics>>
<1>1. CASE Cancelled(a)
  <2>1. KeepBatch(a, "uncommitted") /\ history' = Uncounted(a)
    BY <1>1 DEF CommitBegins
  <2>2. "uncommitted" \in Stages /\ Blocks(a) \in SUBSET (1 .. Last)
    BY BatchFields DEF Stages
  <2>3. LeftOut(Blocks(a), 0)
    BY <2>1, <2>2, HistoryFields DEF Uncounted, Typed
  <2> QED BY <2>1, <2>2, <2>3, KeepBatchFields DEF CommitBegins, Typed
<1>2. CASE ~ Cancelled(a)
  <2>1. PICK s \in SenderState : s = senders[a]
    BY DEF Typed, Records
  <2>2. PICK seen \in CursorState : seen = cursor
    BY DEF Typed, Records
  <2>3. PICK now \in Nat : now = clock
    BY DEF Typed, Records
  <2>4. PICK t : t = [s EXCEPT !.pc = "update", !.at = now, !.seen = seen]
    OBVIOUS
  <2>5. /\ t \in SenderState /\ t.pc = "update" /\ t.at = now /\ t.seen = seen
        /\ t.from = s.from /\ t.to = s.to /\ t.tries = s.tries /\ t.since = s.since
    BY ONLY s \in SenderState, now \in Nat, seen \in CursorState, <2>4 DEF SenderState, Stages
  <2>6. senders' = [senders EXCEPT ![a] = t] /\ UNCHANGED history
    BY <1>2, <2>1, <2>2, <2>3, <2>4 DEF CommitBegins
  <2>7. Moves(a) /\ senders'[a] = t
    BY <2>5, <2>6, Replaced DEF Typed
  <2> QED BY <2>1, <2>2, <2>3, <2>5, <2>6, <2>7 DEF CommitBegins
<1> QED BY <1>1, <1>2

\* The state manager has the payload.
LEMMA UpdateAnsweredEffect ==
  ASSUME Typed, NEW a \in Attempts, UpdateAnswered(a)
  PROVE  /\ Moves(a) /\ senders[a].pc = "update" /\ senders'[a].pc = "store"
         /\ senders'[a].from = senders[a].from /\ senders'[a].to = senders[a].to
         /\ senders'[a].tries = senders[a].tries /\ senders'[a].since = senders[a].since
         /\ senders'[a].at = senders[a].at /\ senders'[a].seen = senders[a].seen
         /\ manager' = NewUpdateCursorPayload(a)
         /\ UNCHANGED <<scenario, cursor, patches, channel, metrics, history>>
<1>1. To(a, "store") /\ "store" \in Stages
  BY DEF UpdateAnswered, Stages
<1> QED BY <1>1, ToFields DEF UpdateAnswered, Typed

\* The state manager has the payload, or may have it later; the batch is not counted.
LEMMA UpdateFailsEffect ==
  ASSUME Typed, NEW a \in Attempts, UpdateFails(a)
  PROVE  /\ Moves(a) /\ senders[a].pc = "update" /\ senders'[a].pc = "uncommitted"
         /\ senders'[a].from = senders[a].from /\ senders'[a].to = senders[a].to
         /\ senders'[a].tries = 0 /\ senders'[a].since = 0
         /\ SameScenario
         /\ manager' \in {manager, NewUpdateCursorPayload(a)}
         /\ patches' \subseteq patches \cup {NewUpdateCursorPayload(a)}
         /\ LeftOut(Blocks(a), 0)
         /\ UNCHANGED <<cursor, channel, metrics>>
<1>1. KeepBatch(a, "uncommitted") /\ "uncommitted" \in Stages
  BY DEF UpdateFails, Stages
<1>2. SameScenario
  BY FailsFields DEF UpdateFails, Typed
<1>3. Blocks(a) \in SUBSET (1 .. Last) /\ history' = Uncounted(a)
  BY BatchFields DEF UpdateFails
<1>4. LeftOut(Blocks(a), 0)
  BY <1>3, HistoryFields DEF Uncounted, Typed
<1>5. /\ manager' \in {manager, NewUpdateCursorPayload(a)}
      /\ patches' \subseteq patches \cup {NewUpdateCursorPayload(a)}
  BY DEF UpdateFails
<1> QED BY <1>1, <1>2, <1>4, <1>5, KeepBatchFields DEF UpdateFails, Typed

\* The time of the commit is kept, and the sums are read.
LEMMA ReadSumsEffect ==
  ASSUME Typed, NEW a \in Attempts, ReadSums(a)
  PROVE  /\ Moves(a) /\ senders[a].pc = "store" /\ senders'[a].pc = "write"
         /\ senders'[a].from = senders[a].from /\ senders'[a].to = senders[a].to
         /\ senders'[a].tries = senders[a].tries /\ senders'[a].since = senders[a].since
         /\ senders'[a].at = senders[a].at /\ senders'[a].seen = senders[a].seen
         /\ senders'[a].sums.position = senders[a].to
         /\ senders'[a].sums.blocksSent
              = cursor.blocksSent + (senders[a].to - senders[a].from + 1)
         /\ senders'[a].sums.timeSpent = cursor.timeSpent + TimeDelta(a)
         /\ cursor' \in CursorState
         /\ cursor'.position = cursor.position /\ cursor'.blocksSent = cursor.blocksSent
         /\ cursor'.timeSpent = cursor.timeSpent /\ cursor'.lastCommitAt = senders[a].at
         /\ UNCHANGED <<scenario, manager, patches, channel, metrics, history>>
<1>1. PICK s \in SenderState : s = senders[a]
  BY DEF Typed, Records
<1>2. PICK c \in CursorState : c = cursor
  BY DEF Typed, Records
<1>3. PICK now \in Nat : now = s.at
  BY DEF SenderState
<1>4. s.pc = "store" /\ s.pc \in Committing
  BY <1>1 DEF ReadSums, Committing
<1>5. PICK n \in Nat : n = NumBlocks(a) /\ n = s.to - s.from + 1
  BY <1>1, <1>4, BatchFields DEF Busy
<1>6. PICK delta \in Nat : delta = TimeDelta(a)
  BY <1>1, <1>4, PayloadFields
<1>7. PICK blocks \in Nat : blocks = c.blocksSent + n
  BY DEF CursorState
<1>8. PICK time \in Nat : time = c.timeSpent + delta
  BY DEF CursorState
<1>9. PICK to \in 0 .. Last : to = s.to
  BY DEF SenderState
<1>10. PICK sums : sums = [position |-> to, blocksSent |-> blocks, timeSpent |-> time]
  OBVIOUS
<1>11. /\ sums \in SumsState /\ sums.position = to /\ sums.blocksSent = blocks
       /\ sums.timeSpent = time
  BY <1>10 DEF SumsState
<1>12. PICK t : t = [s EXCEPT !.pc = "write", !.sums = sums]
  OBVIOUS
<1>13. /\ t \in SenderState /\ t.pc = "write" /\ t.sums = sums /\ t.from = s.from
       /\ t.to = s.to /\ t.tries = s.tries /\ t.since = s.since /\ t.at = s.at
       /\ t.seen = s.seen
  BY ONLY s \in SenderState, <1>11, <1>12 DEF SenderState, Stages
<1>14. senders' = [senders EXCEPT ![a] = t]
  <2>1. sums = [position |-> senders[a].to, blocksSent |-> cursor.blocksSent + NumBlocks(a),
                timeSpent |-> cursor.timeSpent + TimeDelta(a)]
    BY <1>1, <1>2, <1>5, <1>6, <1>7, <1>8, <1>9, <1>10
  <2>2. senders' = [senders EXCEPT ![a] = [@ EXCEPT !.pc = "write", !.sums = sums]]
    BY <2>1 DEF ReadSums
  <2> QED BY <1>1, <1>12, <2>2
<1>15. Moves(a) /\ senders'[a] = t
  BY <1>13, <1>14, Replaced DEF Typed
<1>16. PICK d : d = [c EXCEPT !.lastCommitAt = now]
  OBVIOUS
<1>17. /\ d \in CursorState /\ d.position = c.position /\ d.blocksSent = c.blocksSent
       /\ d.timeSpent = c.timeSpent /\ d.lastCommitAt = now
  BY ONLY c \in CursorState, now \in Nat, <1>16 DEF CursorState
<1>18. cursor' = d
  BY <1>1, <1>2, <1>3, <1>16 DEF ReadSums
<1> QED
  BY <1>1, <1>2, <1>3, <1>4, <1>5, <1>6, <1>7, <1>8, <1>9, <1>11, <1>13, <1>15, <1>17, <1>18
     DEF ReadSums

\* The sums are written, whatever the cursor has become.
LEMMA WriteEffect ==
  ASSUME Typed, NEW a \in Attempts, Write(a)
  PROVE  /\ Moves(a) /\ senders[a].pc = "write" /\ senders'[a].pc = "count"
         /\ senders'[a].from = senders[a].from /\ senders'[a].to = senders[a].to
         /\ senders'[a].tries = 0 /\ senders'[a].since = 0
         /\ cursor' \in CursorState
         /\ cursor'.position = senders[a].sums.position
         /\ cursor'.blocksSent = senders[a].sums.blocksSent
         /\ cursor'.timeSpent = senders[a].sums.timeSpent
         /\ cursor'.lastCommitAt = cursor.lastCommitAt
         /\ history' \in HistoryState
         /\ ~ history'.raced =>
              /\ ~ history.raced
              /\ cursor.blocksSent = senders[a].seen.blocksSent
              /\ cursor.timeSpent = senders[a].seen.timeSpent
              /\ cursor.lastCommitAt = senders[a].at
         /\ history'.delivered = history.delivered
         /\ history'.uncounted = history.uncounted /\ history'.givenUp = history.givenUp
         /\ history'.born = history.born
         /\ history'.commits = history.commits + 1
         /\ UNCHANGED <<scenario, manager, patches, channel, metrics>>
<1>1. PICK s \in SenderState : s = senders[a]
  BY DEF Typed, Records
<1>2. s.pc = "write" /\ "count" \in Stages
  BY <1>1 DEF Write, Stages
<1>3. /\ Moves(a) /\ senders'[a].pc = "count"
      /\ senders'[a].from = s.from /\ senders'[a].to = s.to
      /\ senders'[a].tries = 0 /\ senders'[a].since = 0
  BY <1>1, <1>2, KeepBatchFields DEF Write, Typed
<1>4. PICK c \in CursorState : c = cursor
  BY DEF Typed, Records
<1>5. PICK sums \in SumsState : sums = s.sums
  BY DEF SenderState
<1>6. PICK at \in Nat : at = c.lastCommitAt
  BY DEF CursorState
<1>7. /\ cursor' \in CursorState /\ cursor'.position = sums.position
      /\ cursor'.blocksSent = sums.blocksSent /\ cursor'.timeSpent = sums.timeSpent
      /\ cursor'.lastCommitAt = at
  <2>1. cursor' = WithCommitAt(sums, at)
    BY <1>1, <1>4, <1>5, <1>6 DEF Write
  <2> QED BY <2>1, RecordTypes
<1>8. PICK h \in HistoryState : h = history
  BY DEF Typed, Records
<1>9. PICK n \in Nat : n = h.commits + 1
  BY DEF HistoryState
<1>10. PICK seen \in CursorState : seen = s.seen
  BY DEF SenderState
<1>11. PICK now \in Nat : now = s.at
  BY DEF SenderState
<1>12. PICK saw : saw = [seen EXCEPT !.lastCommitAt = now]
  OBVIOUS
<1>13. saw.blocksSent = seen.blocksSent /\ saw.timeSpent = seen.timeSpent /\ saw.lastCommitAt = now
  BY ONLY seen \in CursorState, now \in Nat, <1>12 DEF CursorState
<1>14. UNCHANGED <<scenario, manager, patches, channel, metrics>>
  BY DEF Write
<1>15. PICK raced \in BOOLEAN : raced = (h.raced \/ c # saw)
  OBVIOUS
<1>16. PICK next : next = [h EXCEPT !.raced = raced, !.commits = n]
  OBVIOUS
<1>17. /\ next \in HistoryState /\ next.raced = raced /\ next.delivered = h.delivered
       /\ next.uncounted = h.uncounted /\ next.givenUp = h.givenUp /\ next.born = h.born
       /\ next.commits = n
  BY ONLY h \in HistoryState, raced \in BOOLEAN, n \in Nat, <1>16 DEF HistoryState
<1>18. history' = next
  BY <1>1, <1>4, <1>8, <1>9, <1>10, <1>11, <1>12, <1>15, <1>16 DEF Write
<1>19. ~ raced => ~ h.raced /\ c = saw
  BY <1>15
<1> QED
  BY <1>1, <1>2, <1>3, <1>4, <1>5, <1>6, <1>7, <1>8, <1>9, <1>10, <1>11, <1>13, <1>14, <1>17,
     <1>18, <1>19

\* The counters are raised, and the sender goes on behind its batch.
LEMMA CountEffect ==
  ASSUME Typed, NEW a \in Attempts, Count(a)
  PROVE  /\ Moves(a) /\ senders[a].pc = "count" /\ senders'[a].pc = "take"
         /\ senders'[a].from = senders[a].to + 1 /\ senders'[a].to = 0
         /\ senders'[a].tries = 0 /\ senders'[a].since = 0
         /\ Raised(senders[a].to - senders[a].from + 1, 1, 0, 0)
         /\ UNCHANGED <<scenario, cursor, manager, patches, channel, history>>
<1>1. senders[a].pc = "count" /\ senders[a].pc \in Busy
  BY DEF Count, Busy
<1>2. PICK n \in Nat : n = NumBlocks(a) /\ n = senders[a].to - senders[a].from + 1
  BY <1>1, BatchFields
<1>3. Raised(n, 1, 0, 0)
  BY <1>2, MetricsFields DEF Count, Typed
<1> QED BY <1>1, <1>2, <1>3, NextBatchFields DEF Count, Typed

-----------------------------------------------------------------------------
(***************************************************************************)
(* Type correctness.                                                       *)
(***************************************************************************)

\* What a scenario that goes on, counters that are raised and blocks that are left out
\* have in common with those that are not.
LEMMA Unmoved ==
  ASSUME Typed
  PROVE  /\ scenario' = scenario => SameScenario
         /\ SameScenario => scenario' \in Scenario
         /\ metrics' = metrics => Raised(0, 0, 0, 0)
         /\ history' = history => LeftOut({}, 0)
         /\ manager' = manager => manager' \in SumsState
         /\ patches' = patches => patches' \subseteq SumsState
         /\ channel' = channel => channel' \in BOOLEAN
         /\ cursor' = cursor => cursor' \in CursorState /\ cursor'.lastCommitAt <= clock
<1>1. PICK m \in MetricsState : m = metrics
  BY DEF Typed, Records
<1>2. metrics' = metrics => Raised(0, 0, 0, 0)
  BY <1>1 DEF Raised, MetricsState
<1>3. PICK h \in HistoryState : h = history
  BY DEF Typed, Records
<1>4. history' = history => LeftOut({}, 0)
  <2>1. h.givenUp + 0 = h.givenUp /\ h.uncounted \cup {} = h.uncounted
    BY DEF HistoryState
  <2> QED BY <1>3, <2>1 DEF LeftOut
<1>5. scenario' = scenario => SameScenario
  BY DEF SameScenario, Typed, Records
<1>6. SameScenario => scenario' \in Scenario
  BY DEF SameScenario
<1> QED BY <1>2, <1>4, <1>5, <1>6 DEF Typed, Records

\* A step of a sender keeps the types when the sender keeps its own.
LEMMA StillTyped ==
  ASSUME Typed, NEW a \in Attempts, Moves(a), UNCHANGED <<clock, runner>>,
         senders[a].pc # "idle", SameScenario,
         cursor' \in CursorState, cursor'.lastCommitAt <= clock,
         manager' \in SumsState, patches' \subseteq SumsState, channel' \in BOOLEAN,
         metrics' \in MetricsState, metrics'.lastBlockSentAt = metrics.lastBlockSentAt,
         history' \in HistoryState,
         Timely(senders'[a], clock), Batched(senders'[a], scenario.retryAttempts)
  PROVE  Typed'
<1>1. Records'
  BY DEF Typed, Records, Moves, SameScenario
<1>2. /\ (clock <= scenario.ticks)' /\ (cursor.lastCommitAt <= clock)'
      /\ (metrics.lastBlockSentAt <= clock)'
  BY DEF Typed, SameScenario
<1>3. ASSUME NEW b \in Attempts
      PROVE  Timely(senders'[b], clock') /\ Batched(senders'[b], scenario'.retryAttempts)
  <2>1. b # a => senders'[b] = senders[b]
    BY DEF Moves
  <2>2. clock' = clock /\ scenario'.retryAttempts = scenario.retryAttempts
    BY DEF SameScenario
  <2>3. Timely(senders[b], clock) /\ Batched(senders[b], scenario.retryAttempts)
    BY DEF Typed
  <2>4. CASE b = a
    BY <2>2, <2>4
  <2>5. CASE b # a
    BY <2>1, <2>2, <2>3, <2>5
  <2> QED BY <2>4, <2>5
<1>4. InTurn'
  <2>1. ASSUME NEW b \in Attempts, b > runner.attempt PROVE senders'[b].pc = "idle"
    <3>1. senders[b].pc = "idle"
      BY <2>1 DEF Typed, InTurn
    <3>2. b # a
      BY <3>1
    <3> QED BY <3>1, <3>2 DEF Moves
  <2> QED BY <2>1 DEF Typed, InTurn
<1> QED BY <1>1, <1>2, <1>3, <1>4 DEF Typed

\* The numbers of a sender are numbers.
LEMMA SenderNumbers ==
  ASSUME Typed, NEW a \in Attempts
  PROVE  /\ clock \in Nat /\ scenario.retryAttempts \in Nat /\ Last \in Nat
         /\ senders[a].tries \in Nat /\ senders[a].since \in Nat /\ senders[a].at \in Nat
         /\ senders[a].from \in Nat /\ senders[a].from >= 1 /\ senders[a].to \in 0 .. Last
         /\ senders[a].since <= clock /\ senders[a].tries <= scenario.retryAttempts
BY AccountingAssumption DEF Typed, Records, SenderState, Scenario, Timely, Batched

\* A step of a sender leaves well-formed records behind.
LEMMA SenderKeepsTyped ==
  ASSUME Typed, NEW a \in Attempts, SenderStep(a)
  PROVE  Typed'
<1> DEFINE s == senders[a]
           t == senders'[a]
<1>n. /\ clock \in Nat /\ scenario.retryAttempts \in Nat /\ Last \in Nat
      /\ s.tries \in Nat /\ s.since \in Nat /\ s.at \in Nat
      /\ s.from \in Nat /\ s.from >= 1 /\ s.to \in 0 .. Last
      /\ s.since <= clock /\ s.tries <= scenario.retryAttempts
  BY SenderNumbers
<1>b. Timely(s, clock) /\ Batched(s, scenario.retryAttempts)
  BY DEF Typed
<1>u. UNCHANGED <<clock, runner>>
  BY DEF SenderStep
<1> HIDE DEF s, t
<1>1. CASE Take(a)
  <2>1. s.pc # "idle" /\ Timely(t, clock) /\ Batched(t, scenario.retryAttempts)
    BY <1>1, <1>n, TakeEffect DEF s, t, Timely, Batched, Busy, Committing
  <2> QED BY <1>1, <1>u, <2>1, TakeEffect, Unmoved, StillTyped DEF s, t, LeftOut, Raised
<1>2. CASE Leave(a)
  <2>1. s.pc # "idle" /\ Timely(t, clock) /\ Batched(t, scenario.retryAttempts)
    BY <1>2, <1>n, LeaveEffect DEF s, t, Timely, Batched, Busy, Committing
  <2> QED BY <1>2, <1>u, <2>1, LeaveEffect, Unmoved, StillTyped DEF s, t, LeftOut, Raised
<1>3. CASE SendSucceeds(a)
  <2>1. s.pc # "idle" /\ Timely(t, clock) /\ Batched(t, scenario.retryAttempts)
    BY <1>3, <1>n, <1>b, SendSucceedsEffect DEF s, t, Timely, Batched, Busy, Committing
  <2> QED BY <1>3, <1>u, <2>1, SendSucceedsEffect, Unmoved, StillTyped DEF s, t, Raised
<1>4. CASE SendFails(a)
  <2>1. s.pc # "idle" /\ Timely(t, clock) /\ Batched(t, scenario.retryAttempts)
    BY <1>4, <1>n, <1>b, SendFailsEffect DEF s, t, Timely, Batched, Busy, Committing
  <2> QED BY <1>4, <1>u, <2>1, SendFailsEffect, Unmoved, StillTyped DEF s, t, LeftOut, Raised
<1>5. CASE Retry(a)
  <2>1. s.pc # "idle" /\ Timely(t, clock) /\ Batched(t, scenario.retryAttempts)
    BY <1>5, <1>n, <1>b, RetryEffect DEF s, t, Timely, Batched, Busy, Committing
  <2> QED BY <1>5, <1>u, <2>1, RetryEffect, Unmoved, StillTyped DEF s, t, LeftOut, Raised
<1>6. CASE Report(a)
  <2>0. /\ s.pc # "idle" /\ t.pc = "take" /\ t.to = 0 /\ t.tries = 0 /\ t.since = 0
    BY <1>6, ReportEffect DEF s, t
  <2>1. s.pc # "idle" /\ Timely(t, clock) /\ Batched(t, scenario.retryAttempts)
    BY <1>n, <2>0 DEF Timely, Batched, Busy, Committing
  <2> QED BY <1>6, <1>u, <2>1, ReportEffect, Unmoved, StillTyped DEF s, t, LeftOut, Raised
<1>7. CASE CommitBegins(a)
  <2>1. s.pc # "idle" /\ Batched(t, scenario.retryAttempts)
    BY <1>7, <1>n, <1>b, CommitBeginsEffect DEF s, t, Batched, Busy
  <2>2. Timely(t, clock)
    BY <1>7, <1>n, CommitBeginsEffect DEF s, t, Timely, Committing, Typed
  <2> QED BY <1>7, <1>u, <2>1, <2>2, CommitBeginsEffect, Unmoved, StillTyped
          DEF s, t, LeftOut, Raised
<1>8. CASE UpdateAnswered(a)
  <2>1. s.pc # "idle" /\ Timely(t, clock) /\ Batched(t, scenario.retryAttempts)
    BY <1>8, <1>n, <1>b, UpdateAnsweredEffect DEF s, t, Timely, Batched, Busy, Committing
  <2>2. manager' \in SumsState
    BY <1>8, UpdateAnsweredEffect, PayloadFields DEF Committing
  <2> QED BY <1>8, <1>u, <2>1, <2>2, UpdateAnsweredEffect, Unmoved, StillTyped
          DEF s, t, LeftOut, Raised
<1>9. CASE UpdateFails(a)
  <2>1. s.pc # "idle" /\ Timely(t, clock) /\ Batched(t, scenario.retryAttempts)
    BY <1>9, <1>n, <1>b, UpdateFailsEffect DEF s, t, Timely, Batched, Busy, Committing
  <2>2. NewUpdateCursorPayload(a) \in SumsState
    BY <1>9, UpdateFailsEffect, PayloadFields DEF Committing
  <2>3. manager' \in SumsState /\ patches' \subseteq SumsState
    BY <1>9, <2>2, UpdateFailsEffect DEF Typed, Records
  <2> QED BY <1>9, <1>u, <2>1, <2>3, UpdateFailsEffect, Unmoved, StillTyped
          DEF s, t, LeftOut, Raised
<1>10. CASE ReadSums(a)
  <2>1. s.pc # "idle" /\ Timely(t, clock) /\ Batched(t, scenario.retryAttempts)
    BY <1>10, <1>n, <1>b, ReadSumsEffect DEF s, t, Timely, Batched, Busy, Committing
  <2>2. cursor'.lastCommitAt <= clock
    BY <1>10, <1>b, ReadSumsEffect DEF s, Timely, Committing
  <2> QED BY <1>10, <1>u, <2>1, <2>2, ReadSumsEffect, Unmoved, StillTyped
          DEF s, t, LeftOut, Raised
<1>11. CASE Write(a)
  <2>1. s.pc # "idle" /\ Timely(t, clock) /\ Batched(t, scenario.retryAttempts)
    BY <1>11, <1>n, <1>b, WriteEffect DEF s, t, Timely, Batched, Busy, Committing
  <2>2. cursor'.lastCommitAt <= clock
    BY <1>11, WriteEffect DEF Typed
  <2> QED BY <1>11, <1>u, <2>1, <2>2, WriteEffect, Unmoved, StillTyped DEF s, t, Raised
<1>12. CASE Count(a)
  <2>0. /\ s.pc # "idle" /\ t.pc = "take" /\ t.to = 0 /\ t.tries = 0 /\ t.since = 0
    BY <1>12, CountEffect DEF s, t
  <2>1. Timely(t, clock) /\ Batched(t, scenario.retryAttempts)
    BY <1>n, <2>0 DEF Timely, Batched, Busy, Committing
  <2> QED BY <1>12, <1>u, <2>0, <2>1, CountEffect, Unmoved, StillTyped DEF s, t, LeftOut, Raised
<1> QED
  BY <1>1, <1>2, <1>3, <1>4, <1>5, <1>6, <1>7, <1>8, <1>9, <1>10, <1>11, <1>12 DEF SenderStep

\* Restart and Init: nobody has a batch, and only the first attempt has begun.
LEMMA StartedFields ==
  ASSUME NEW sums \in SumsState, NEW time \in Nat,
         NEW all, all = [a \in Attempts |-> IF a = 1 THEN BeginAttempt(sums) ELSE Idle]
  PROVE  /\ all \in [Attempts -> SenderState]
         /\ \A a \in Attempts :
              /\ all[a].to = 0 /\ all[a].tries = 0 /\ all[a].since = 0
              /\ all[a].pc = IF a = 1 THEN "take" ELSE "idle"
         /\ \A a \in Attempts : all[a].pc = "take" => all[a].from = sums.position + 1
         /\ [attempt |-> 1, pc |-> "run", wake |-> 0] \in RunnerState
<1>1. PICK from \in 1 .. Last + 1 : from = sums.position + 1
  BY AccountingAssumption DEF SumsState
<1>2. PICK idle \in SenderState : /\ idle = Idle /\ idle.pc = "idle" /\ idle.to = 0
                                  /\ idle.tries = 0 /\ idle.since = 0
  BY IdleFields
<1>3. PICK t : t = [idle EXCEPT !.pc = "take", !.from = from]
  OBVIOUS
<1>4. /\ t \in SenderState /\ t.pc = "take" /\ t.from = from /\ t.to = 0 /\ t.tries = 0
      /\ t.since = 0
  BY ONLY idle \in SenderState, from \in 1 .. Last + 1, <1>2, <1>3 DEF SenderState, Stages
<1>5. BeginAttempt(sums) = t
  BY ONLY idle \in SenderState, <1>1, <1>2, <1>3 DEF BeginAttempt, SenderState
<1>6. \A a \in Attempts : all[a] = IF a = 1 THEN t ELSE idle
  BY <1>2, <1>5
<1>7. all \in [Attempts -> SenderState]
  BY <1>2, <1>4, <1>5
<1>8. [attempt |-> 1, pc |-> "run", wake |-> 0] \in RunnerState
  BY AccountingAssumption DEF RunnerState, Attempts
<1> QED BY <1>1, <1>2, <1>4, <1>6, <1>7, <1>8

\* The next attempt begins, or the stream has ended.
LEMMA RunnerRetriesEffect ==
  ASSUME Typed, RunnerRetries
  PROVE  LET next == runner.attempt + 1
         IN /\ next \in Attempts /\ runner' \in RunnerState
            /\ runner'.attempt = next /\ runner'.pc # "backoff"
            /\ Moves(next)
            /\ senders[next].pc = "idle"
            /\ \/ senders'[next] = senders[next]
               \/ /\ senders'[next].pc = "take"
                  /\ senders'[next].from = cursor.position + 1
                  /\ senders'[next].to = 0 /\ senders'[next].tries = 0
                  /\ senders'[next].since = 0
            /\ UNCHANGED <<scenario, clock, cursor, manager, patches, channel, metrics, history>>
<1>1. PICK next \in Attempts : next = runner.attempt + 1
  BY AccountingAssumption DEF RunnerRetries, Typed, InTurn, Records, RunnerState, Attempts
<1>2. senders[next].pc = "idle"
  BY <1>1 DEF Typed, InTurn, Records, RunnerState, Attempts
<1>3. runner' \in RunnerState /\ runner'.attempt = next /\ runner'.pc # "backoff"
  BY <1>1 DEF RunnerRetries, RunnerState
<1>4. CASE cursor.position < Last
  <2>1. PICK from \in 1 .. Last + 1 : from = cursor.position + 1
    BY AccountingAssumption DEF Typed, Records, CursorState
  <2>2. PICK idle \in SenderState : /\ idle = Idle /\ idle.to = 0 /\ idle.tries = 0
                                    /\ idle.since = 0
    BY IdleFields
  <2>3. PICK t : t = [idle EXCEPT !.pc = "take", !.from = from]
    OBVIOUS
  <2>4. /\ t \in SenderState /\ t.pc = "take" /\ t.from = from /\ t.to = 0 /\ t.tries = 0
        /\ t.since = 0
    BY ONLY idle \in SenderState, from \in 1 .. Last + 1, <2>2, <2>3 DEF SenderState, Stages
  <2>5. BeginAttempt(cursor) = t
    BY ONLY idle \in SenderState, <2>1, <2>2, <2>3 DEF BeginAttempt, SenderState
  <2>6. senders' = [senders EXCEPT ![next] = t]
    BY <1>1, <1>4, <2>5 DEF RunnerRetries
  <2>7. Moves(next) /\ senders'[next] = t
    BY <2>4, <2>6, Replaced DEF Typed
  <2> QED BY <1>1, <1>2, <1>3, <2>1, <2>4, <2>7 DEF RunnerRetries
<1>5. CASE ~ (cursor.position < Last)
  <2>1. senders' = senders
    BY <1>5 DEF RunnerRetries
  <2>2. Moves(next)
    BY <2>1 DEF Moves, Typed, Records
  <2> QED BY <1>1, <1>2, <1>3, <2>1, <2>2 DEF RunnerRetries
<1> QED BY <1>4, <1>5

\* What the process is when it starts again.
LEMMA RestartEffect ==
  ASSUME Typed, Restart
  PROVE  /\ SameScenario
         /\ cursor' \in CursorState
         /\ cursor'.position = manager.position /\ cursor'.blocksSent = manager.blocksSent
         /\ cursor'.timeSpent = manager.timeSpent /\ cursor'.lastCommitAt = clock
         /\ patches' = patches \cup
              {NewUpdateCursorPayload(a) : a \in {b \in Attempts : senders[b].pc = "update"}}
         /\ senders' \in [Attempts -> SenderState]
         /\ \A a \in Attempts :
              /\ senders'[a].to = 0 /\ senders'[a].tries = 0 /\ senders'[a].since = 0
              /\ senders'[a].pc = IF a = 1 THEN "take" ELSE "idle"
         /\ \A a \in Attempts :
              senders'[a].pc = "take" => senders'[a].from = manager.position + 1
         /\ runner' \in RunnerState /\ runner'.attempt = 1 /\ runner'.pc = "run"
         /\ channel' = FALSE
         /\ metrics' \in MetricsState
         /\ metrics'.blocksSent = 0 /\ metrics'.batchesSent = 0 /\ metrics'.errors = 0
         /\ metrics'.retries = 0 /\ metrics'.lastBlockSentAt = clock
         /\ history' \in HistoryState
         /\ history'.delivered = history.delivered /\ history'.uncounted = history.uncounted
         /\ history'.givenUp = 0 /\ history'.raced = history.raced /\ history'.commits = 0
         /\ history'.born = cursor'
         /\ UNCHANGED <<clock, manager>>
<1>1. PICK sums \in SumsState : sums = manager
  BY DEF Typed, Records
<1>2. PICK now \in Nat : now = clock
  BY DEF Typed, Records
<1>3. PICK c \in CursorState :
        /\ c = WithCommitAt(sums, now) /\ c.position = sums.position
        /\ c.blocksSent = sums.blocksSent /\ c.timeSpent = sums.timeSpent
        /\ c.lastCommitAt = now
  BY RecordTypes
<1>4. cursor' = c
  BY <1>1, <1>2, <1>3 DEF Restart, Started
<1>5. PICK all : all = [a \in Attempts |-> IF a = 1 THEN BeginAttempt(sums) ELSE Idle]
  OBVIOUS
<1>6. senders' = all /\ runner' = [attempt |-> 1, pc |-> "run", wake |-> 0]
  BY <1>1, <1>5 DEF Restart, Started
<1>7. /\ all \in [Attempts -> SenderState]
      /\ \A a \in Attempts :
           /\ all[a].to = 0 /\ all[a].tries = 0 /\ all[a].since = 0
           /\ all[a].pc = IF a = 1 THEN "take" ELSE "idle"
      /\ \A a \in Attempts : all[a].pc = "take" => all[a].from = sums.position + 1
      /\ [attempt |-> 1, pc |-> "run", wake |-> 0] \in RunnerState
  BY <1>5, StartedFields, <1>2
<1>8. PICK m : m = Counters(now)
  OBVIOUS
<1>9. /\ m \in MetricsState /\ m.blocksSent = 0 /\ m.batchesSent = 0 /\ m.errors = 0
      /\ m.retries = 0 /\ m.lastBlockSentAt = now
  BY <1>8 DEF Counters, MetricsState
<1>10. metrics' = m /\ channel' = FALSE
  BY <1>2, <1>8 DEF Restart, Started
<1>11. PICK h \in HistoryState : h = history
  BY DEF Typed, Records
<1>12. PICK next : next = [h EXCEPT !.givenUp = 0, !.commits = 0, !.lastSentAt = now,
                                      !.born = c]
  OBVIOUS
<1>13. /\ next \in HistoryState /\ next.delivered = h.delivered /\ next.uncounted = h.uncounted
       /\ next.givenUp = 0 /\ next.raced = h.raced /\ next.commits = 0 /\ next.born = c
  BY ONLY h \in HistoryState, now \in Nat, c \in CursorState, <1>12 DEF HistoryState
<1>14. history' = next
  BY <1>1, <1>2, <1>3, <1>11, <1>12 DEF Restart
<1>15. PICK s \in Scenario : s = scenario
  BY DEF Typed, Records
<1>16. SameScenario
  <2>1. s.restarts > 0 /\ scenario' = [s EXCEPT !.restarts = @ - 1]
    BY <1>15 DEF Restart
  <2> QED BY <1>15, <2>1 DEF SameScenario, Scenario
<1>17. /\ UNCHANGED <<clock, manager>>
       /\ patches' = patches \cup
            {NewUpdateCursorPayload(a) : a \in {b \in Attempts : senders[b].pc = "update"}}
  BY DEF Restart
<1>18. runner'.attempt = 1 /\ runner'.pc = "run"
  BY <1>6
<1> QED
  BY <1>1, <1>2, <1>3, <1>4, <1>6, <1>7, <1>9, <1>10, <1>11, <1>13, <1>14, <1>16, <1>17, <1>18

\* The records are well-formed at the start.
LEMMA InitTyped == Init => Typed
<1> SUFFICES ASSUME Init PROVE Typed
  OBVIOUS
<1>1. scenario \in Scenario /\ clock = 0 /\ scenario.ticks \in Nat /\ scenario.retryAttempts \in Nat
  BY AccountingAssumption DEF Init, Scenario
<1>2. /\ Sums \in SumsState /\ cursor \in CursorState /\ cursor.lastCommitAt = 0
      /\ metrics \in MetricsState
  BY RecordTypes, AccountingAssumption DEF Init, Sums, SumsState
<1>3. metrics.lastBlockSentAt = 0
  BY DEF Init, Counters
<1>4. /\ senders \in [Attempts -> SenderState]
      /\ \A a \in Attempts :
           /\ senders[a].to = 0 /\ senders[a].tries = 0 /\ senders[a].since = 0
           /\ senders[a].pc = IF a = 1 THEN "take" ELSE "idle"
      /\ runner \in RunnerState
  <2>1. senders = [a \in Attempts |-> IF a = 1 THEN BeginAttempt(Sums) ELSE Idle]
    BY DEF Init
  <2>2. runner = [attempt |-> 1, pc |-> "run", wake |-> 0]
    BY DEF Init
  <2> QED BY <1>2, <2>1, <2>2, StartedFields
<1>5. history \in HistoryState
  <2>1. PICK c \in CursorState : c = WithCommitAt(Sums, 0)
    BY <1>2, RecordTypes
  <2>2. history = [delivered |-> 0, uncounted |-> {}, givenUp |-> 0, raced |-> FALSE,
                   commits |-> 0, lastSentAt |-> 0, born |-> c]
    BY <2>1 DEF Init
  <2> QED BY <2>2 DEF HistoryState
<1>6. Records
  <2>1. manager = Sums /\ patches = {} /\ channel = FALSE
    BY DEF Init
  <2> QED BY <1>1, <1>2, <1>4, <1>5, <2>1 DEF Records
<1>7. \A a \in Attempts : Timely(senders[a], clock) /\ Batched(senders[a], scenario.retryAttempts)
  BY <1>1, <1>4 DEF Timely, Batched, Busy, Committing
<1>8. InTurn
  <2>1. runner.attempt = 1 /\ runner.pc = "run"
    BY DEF Init
  <2> QED BY <1>4, <2>1 DEF InTurn, Attempts
<1> QED BY <1>1, <1>2, <1>3, <1>6, <1>7, <1>8 DEF Typed

\* No other step does either.
LEMMA RestKeepsTyped ==
  ASSUME Typed,
         PipelineFails \/ RunnerTakes \/ RunnerRetries \/ LatePatch \/ Restart \/ Tick
           \/ UNCHANGED vars
  PROVE  Typed'
<1>1. CASE PipelineFails
  <2>1. PICK s \in Scenario : s = scenario
    BY DEF Typed, Records
  <2>2. SameScenario
    <3>1. s.failures > 0 /\ scenario' = [s EXCEPT !.failures = @ - 1]
      BY <1>1, <2>1 DEF PipelineFails
    <3> QED BY <2>1, <3>1 DEF SameScenario, Scenario
  <2>3. /\ channel' = TRUE
        /\ UNCHANGED <<clock, cursor, manager, patches, senders, runner, metrics, history>>
    BY <1>1 DEF PipelineFails
  <2>4. Records'
    BY <2>2, <2>3 DEF Typed, Records, SameScenario
  <2> QED BY <2>2, <2>3, <2>4 DEF Typed, SameScenario, InTurn
<1>2. CASE RunnerTakes
  <2>1. PICK r \in RunnerState : r = runner
    BY DEF Typed, Records
  <2>2. PICK wake \in Nat : wake = clock + Backoff
    BY AccountingAssumption DEF Typed, Records
  <2>3. /\ runner' \in RunnerState /\ runner'.attempt = r.attempt
        /\ runner'.pc = "backoff" => r.attempt < MaxAttempts
    <3>1. runner' = IF r.attempt = MaxAttempts THEN [r EXCEPT !.pc = "over"]
                    ELSE [r EXCEPT !.pc = "backoff", !.wake = wake]
      BY <1>2, <2>1, <2>2 DEF RunnerTakes
    <3>2. r.attempt \in Nat /\ r.attempt <= MaxAttempts /\ MaxAttempts \in Nat
      BY AccountingAssumption DEF RunnerState, Attempts
    <3>3. CASE r.attempt = MaxAttempts
      <4>1. PICK n : n = [r EXCEPT !.pc = "over"]
        OBVIOUS
      <4>2. n \in RunnerState /\ n.pc = "over" /\ n.attempt = r.attempt
        BY ONLY r \in RunnerState, <4>1 DEF RunnerState
      <4>3. runner' = n
        BY <3>1, <3>3, <4>1
      <4> QED BY <4>2, <4>3
    <3>4. CASE r.attempt # MaxAttempts
      <4>1. PICK n : n = [r EXCEPT !.pc = "backoff", !.wake = wake]
        OBVIOUS
      <4>2. n \in RunnerState /\ n.pc = "backoff" /\ n.attempt = r.attempt
        BY ONLY r \in RunnerState, wake \in Nat, <4>1 DEF RunnerState
      <4>3. runner' = n
        BY <3>1, <3>4, <4>1
      <4>4. r.attempt < MaxAttempts
        BY <3>2, <3>4
      <4> QED BY <4>2, <4>3, <4>4
    <3> QED BY <3>3, <3>4
  <2>4. /\ channel' = FALSE
        /\ UNCHANGED <<scenario, clock, cursor, manager, patches, senders, metrics, history>>
    BY <1>2 DEF RunnerTakes
  <2>5. Records'
    BY <2>3, <2>4 DEF Typed, Records
  <2>6. InTurn'
    BY <2>1, <2>3, <2>4 DEF Typed, InTurn
  <2> QED BY <2>4, <2>5, <2>6 DEF Typed
<1>3. CASE RunnerRetries
  <2>1. PICK next \in Attempts :
          /\ next = runner.attempt + 1 /\ runner' \in RunnerState
          /\ runner'.attempt = next /\ runner'.pc # "backoff"
          /\ Moves(next)
          /\ senders[next].pc = "idle"
          /\ \/ senders'[next] = senders[next]
             \/ /\ senders'[next].pc = "take"
                /\ senders'[next].to = 0 /\ senders'[next].tries = 0
                /\ senders'[next].since = 0
          /\ UNCHANGED <<scenario, clock, cursor, manager, patches, channel, metrics, history>>
    BY <1>3, RunnerRetriesEffect
  <2>2. Records'
    BY <2>1 DEF Typed, Records, Moves
  <2>3. ASSUME NEW b \in Attempts
        PROVE  Timely(senders'[b], clock) /\ Batched(senders'[b], scenario.retryAttempts)
    <3>1. Timely(senders[b], clock) /\ Batched(senders[b], scenario.retryAttempts)
      BY DEF Typed
    <3>2. CASE senders'[b] = senders[b]
      BY <3>1, <3>2
    <3>3. CASE senders'[b] # senders[b]
      <4>1. /\ senders'[b].pc = "take" /\ senders'[b].to = 0 /\ senders'[b].tries = 0
            /\ senders'[b].since = 0
        BY <2>1, <3>3 DEF Moves
      <4>2. clock \in Nat /\ scenario.retryAttempts \in Nat
        BY SenderNumbers
      <4> QED BY <4>1, <4>2 DEF Timely, Batched, Busy, Committing
    <3> QED BY <3>2, <3>3
  <2>4. InTurn'
    <3>1. ASSUME NEW b \in Attempts, b > next PROVE senders'[b].pc = "idle"
      <4>1. b \in Nat /\ next \in Nat /\ runner.attempt \in Nat
        BY DEF Attempts, Typed, Records, RunnerState
      <4>2. b > runner.attempt /\ b # next
        BY <2>1, <3>1, <4>1
      <4> QED BY <2>1, <4>2 DEF Typed, InTurn, Moves
    <3> QED BY <2>1, <3>1 DEF InTurn
  <2> QED BY <2>1, <2>2, <2>3, <2>4 DEF Typed
<1>4. CASE LatePatch
  <2>1. /\ manager' \in SumsState /\ patches' \subseteq SumsState
        /\ UNCHANGED <<scenario, clock, cursor, senders, runner, channel, metrics, history>>
    BY <1>4 DEF LatePatch, Typed, Records
  <2>2. Records'
    BY <2>1 DEF Typed, Records
  <2> QED BY <2>1, <2>2 DEF Typed, InTurn
<1>5. CASE Restart
  <2>1. ASSUME NEW a \in Attempts, senders[a].pc = "update"
        PROVE  NewUpdateCursorPayload(a) \in SumsState
    BY <2>1, PayloadFields DEF Committing
  <2>2. patches' \subseteq SumsState
    <3>1. patches' = patches \cup
            {NewUpdateCursorPayload(a) : a \in {b \in Attempts : senders[b].pc = "update"}}
      BY <1>5 DEF Restart
    <3>2. patches \subseteq SumsState
      BY DEF Typed, Records
    <3> QED BY <2>1, <3>1, <3>2
  <2>3. clock \in Nat /\ scenario.retryAttempts \in Nat
    BY DEF Typed, Records, Scenario
  <2>4. Records'
    BY <1>5, <2>2, <2>3, RestartEffect DEF Typed, Records, SameScenario
  <2>5. \A a \in Attempts :
          Timely(senders'[a], clock) /\ Batched(senders'[a], scenario.retryAttempts)
    BY <1>5, <2>3, RestartEffect DEF Timely, Batched, Busy, Committing
  <2>6. InTurn'
    BY <1>5, RestartEffect DEF InTurn, Attempts
  <2>7. /\ clock' = clock /\ clock <= scenario'.ticks /\ cursor'.lastCommitAt <= clock
        /\ metrics'.lastBlockSentAt <= clock /\ scenario'.retryAttempts = scenario.retryAttempts
    <3>1. /\ clock' = clock /\ SameScenario /\ cursor'.lastCommitAt = clock
          /\ metrics'.lastBlockSentAt = clock
      BY <1>5, RestartEffect
    <3>2. clock <= scenario.ticks
      BY DEF Typed
    <3> QED BY <2>3, <3>1, <3>2 DEF SameScenario
  <2> QED BY <2>4, <2>5, <2>6, <2>7 DEF Typed
<1>6. CASE Tick
  <2>1. /\ clock' = clock + 1 /\ clock < scenario.ticks
        /\ UNCHANGED <<scenario, cursor, manager, patches, senders, runner, channel, metrics,
                       history>>
    BY <1>6 DEF Tick
  <2>2. clock \in Nat /\ scenario.ticks \in Nat
    BY DEF Typed, Records, Scenario
  <2>3. Records'
    BY <2>1, <2>2 DEF Typed, Records
  <2>4. cursor.lastCommitAt <= clock' /\ metrics.lastBlockSentAt <= clock'
    BY <2>1, <2>2 DEF Typed, Records, CursorState, MetricsState
  <2>5. ASSUME NEW a \in Attempts PROVE Timely(senders[a], clock')
    <3>1. Timely(senders[a], clock) /\ senders[a].since \in Nat /\ senders[a].at \in Nat
      BY SenderNumbers DEF Typed
    <3> QED BY <2>1, <2>2, <3>1 DEF Timely
  <2> QED BY <2>1, <2>2, <2>3, <2>4, <2>5 DEF Typed, InTurn
<1>7. CASE UNCHANGED vars
  BY <1>7 DEF vars, Typed, Records, InTurn
<1> QED BY <1>1, <1>2, <1>3, <1>4, <1>5, <1>6, <1>7

\* Every step keeps the records well-formed.
LEMMA NextTyped == Typed /\ [Next]_vars => Typed'
<1> SUFFICES ASSUME Typed, [Next]_vars PROVE Typed'
  OBVIOUS
<1>1. ASSUME NEW a \in Attempts, SenderStep(a) PROVE Typed'
  BY <1>1, SenderKeepsTyped
<1> QED BY <1>1, RestKeepsTyped DEF Next

\* The records are always well-formed.
LEMMA TypedHolds == Spec => []Typed
<1> QED BY InitTyped, NextTyped, PTL DEF Spec

\* Whatever fails, is late or starts again, the sums stay sums, the time of the last commit
\* does not lie ahead, a sender's batch is of blocks of the stream, and no batch is tried
\* more often than the configuration says.
THEOREM TypeCorrect == Spec => []TypeOK
<1>1. Typed => TypeOK
  <2> SUFFICES ASSUME Typed PROVE TypeOK
    OBVIOUS
  <2>1. scenario.retryStrategy \in RetryStrategies /\ clock \in 0 .. scenario.ticks
    BY DEF Typed, Records, Scenario
  <2>2. IsSums(cursor) /\ cursor.lastCommitAt \in 0 .. clock
    BY DEF Typed, Records, CursorState, IsSums
  <2>3. IsSums(manager) /\ \A patch \in patches : IsSums(patch)
    BY DEF Typed, Records, SumsState, IsSums
  <2>4. ASSUME NEW a \in Attempts
        PROVE  /\ senders[a].pc \in Stages
               /\ Blocks(a) \subseteq 1 .. Last
               /\ senders[a].tries \in 0 .. scenario.retryAttempts
               /\ senders[a].since \in 0 .. clock
    <3>1. Blocks(a) \subseteq 1 .. Last
      BY BatchFields
    <3>2. senders[a].pc \in Stages
      BY DEF Typed, Records, SenderState
    <3> QED BY <3>1, <3>2, SenderNumbers
  <2>5. runner.attempt \in Attempts /\ runner.pc \in {"run", "backoff", "over"}
        /\ channel \in BOOLEAN /\ metrics.lastBlockSentAt \in 0 .. clock
    BY DEF Typed, Records, RunnerState, MetricsState
  <2> QED BY <2>1, <2>2, <2>3, <2>4, <2>5 DEF TypeOK, Stages
<1> QED BY <1>1, TypedHolds, PTL

-----------------------------------------------------------------------------
(***************************************************************************)
(* No batch is given up before its window has passed.                      *)
(***************************************************************************)

\* How long a sender that tries for the n-th time, or is about to, has waited.
Waited(s, now, strategy, attempts, delay) ==
  /\ s.pc = "send" => now - s.since >= Window(strategy, s.tries + 1, delay)
  /\ s.pc = "sleep" => s.at - s.since >= Window(strategy, s.tries + 1, delay)
  /\ s.pc = "exhausted" => now - s.since >= Window(strategy, attempts, delay)

WaitInv ==
  \A a \in Attempts :
    Waited(senders[a], clock, scenario.retryStrategy, scenario.retryAttempts,
           scenario.retryDelay)

\* The window is the shortest time in which so many attempts can be made.
LEMMA WaitStep ==
  ASSUME Typed, NEW a \in Attempts, SenderStep(a),
         Waited(senders[a], clock, scenario.retryStrategy, scenario.retryAttempts,
                scenario.retryDelay)
  PROVE  Waited(senders'[a], clock, scenario.retryStrategy, scenario.retryAttempts,
                scenario.retryDelay)
<1>1. PICK strategy \in RetryStrategies : strategy = scenario.retryStrategy
  BY DEF Typed, Records, Scenario
<1>2. PICK attempts \in Nat : attempts = scenario.retryAttempts
  BY DEF Typed, Records, Scenario
<1>3. PICK delay \in Nat : delay = scenario.retryDelay
  BY DEF Typed, Records, Scenario
<1>4. PICK now \in Nat : now = clock
  BY SenderNumbers
<1>5. PICK s \in SenderState : s = senders[a]
  BY DEF Typed, Records
<1>6. PICK t : t = senders'[a]
  OBVIOUS
<1>7. Waited(s, now, strategy, attempts, delay)
  BY <1>1, <1>2, <1>3, <1>4, <1>5
<1>8. /\ s.tries \in Nat /\ s.since \in Nat /\ s.since <= now /\ s.at \in Nat
      /\ s.tries <= attempts
      /\ s.pc \in {"send", "sleep"} => s.tries < attempts
  BY <1>2, <1>4, <1>5, SenderNumbers DEF Typed, Batched
<1>9. CASE Take(a)
  <2>1. /\ t.since = now /\ t.tries = 0
        /\ t.pc = IF attempts > 0 THEN "send" ELSE "exhausted"
    BY <1>2, <1>4, <1>6, <1>9, TakeEffect
  <2>2. Window(strategy, 1, delay) = 0
    BY WindowGrows
  <2>3. attempts = 0 => Window(strategy, attempts, delay) = 0
    BY DEF Window
  <2>4. Waited(t, now, strategy, attempts, delay)
    BY <2>1, <2>2, <2>3 DEF Waited
  <2> QED BY <1>1, <1>2, <1>3, <1>4, <1>6, <2>4
<1>10. CASE SendFails(a)
  <2>1. PICK n \in Nat \ {0} : n = s.tries + 1
    BY <1>8
  <2>2. PICK pause \in Nat : pause = CalculateDelay(strategy, n, delay)
    BY DelayType
  <2>3. PICK window \in Nat : window = Window(strategy, n, delay)
    BY WindowGrows
  <2>4. Window(strategy, n + 1, delay) = window + pause
    BY <2>2, <2>3, WindowGrows
  <2>5. s.pc = "send" /\ now - s.since >= window
    BY <1>5, <1>7, <1>10, <2>1, <2>3, SendFailsEffect DEF Waited
  <2>6. CASE n < attempts
    <3>1. t.pc = "sleep" /\ t.tries = n /\ t.at = now + pause /\ t.since = s.since
      BY <1>1, <1>2, <1>3, <1>4, <1>5, <1>6, <1>10, <2>1, <2>2, <2>6, SendFailsEffect
    <3>2. t.at - t.since >= Window(strategy, t.tries + 1, delay)
      BY <1>8, <2>4, <2>5, <3>1
    <3>3. Waited(t, now, strategy, attempts, delay)
      BY <3>1, <3>2 DEF Waited
    <3> QED BY <1>1, <1>2, <1>3, <1>4, <1>6, <3>3
  <2>7. CASE ~ (n < attempts)
    <3>1. t.pc = "exhausted" /\ t.since = s.since
      BY <1>2, <1>5, <1>6, <1>10, <2>1, <2>7, SendFailsEffect
    <3>2. n = attempts
      BY <1>8, <2>1, <2>5, <2>7
    <3>3. Waited(t, now, strategy, attempts, delay)
      BY <2>3, <2>5, <3>1, <3>2 DEF Waited
    <3> QED BY <1>1, <1>2, <1>3, <1>4, <1>6, <3>3
  <2> QED BY <2>6, <2>7
<1>11. CASE Retry(a)
  <2>1. /\ s.pc = "sleep" /\ now >= s.at /\ t.pc = "send" /\ t.tries = s.tries
        /\ t.since = s.since
    BY <1>4, <1>5, <1>6, <1>11, RetryEffect
  <2>2. PICK window \in Nat : window = Window(strategy, s.tries + 1, delay)
    BY <1>8, WindowGrows
  <2>3. s.at - s.since >= window
    BY <1>7, <2>1, <2>2 DEF Waited
  <2>4. Waited(t, now, strategy, attempts, delay)
    BY <1>8, <2>1, <2>2, <2>3 DEF Waited
  <2> QED BY <1>1, <1>2, <1>3, <1>4, <1>6, <2>4
<1>12. CASE Leave(a) \/ SendSucceeds(a) \/ Report(a) \/ CommitBegins(a) \/ UpdateAnswered(a)
              \/ UpdateFails(a) \/ ReadSums(a) \/ Write(a) \/ Count(a)
  <2>1. senders'[a].pc \notin {"send", "sleep", "exhausted"}
    <3>1. CASE Leave(a)
      BY <3>1, LeaveEffect
    <3>2. CASE SendSucceeds(a)
      BY <3>2, SendSucceedsEffect
    <3>3. CASE Report(a)
      <4>1. senders'[a].pc = "take"
        BY <3>3, ReportEffect
      <4> QED BY <4>1
    <3>4. CASE CommitBegins(a)
      BY <3>4, CommitBeginsEffect
    <3>5. CASE UpdateAnswered(a)
      BY <3>5, UpdateAnsweredEffect
    <3>6. CASE UpdateFails(a)
      BY <3>6, UpdateFailsEffect
    <3>7. CASE ReadSums(a)
      BY <3>7, ReadSumsEffect
    <3>8. CASE Write(a)
      BY <3>8, WriteEffect
    <3>9. CASE Count(a)
      <4>1. senders'[a].pc = "take"
        BY <3>9, CountEffect
      <4> QED BY <4>1
    <3> QED BY <1>12, <3>1, <3>2, <3>3, <3>4, <3>5, <3>6, <3>7, <3>8, <3>9
  <2> QED BY <2>1 DEF Waited
<1> QED BY <1>9, <1>10, <1>11, <1>12 DEF SenderStep

\* A step of a sender does not change how the sink retries, or the time.
LEMMA SenderStepKeeps ==
  ASSUME Typed, NEW a \in Attempts, SenderStep(a)
  PROVE  Moves(a) /\ SameScenario /\ UNCHANGED <<clock, runner>>
<1>1. scenario' = scenario => SameScenario
  BY Unmoved
<1>2. CASE Take(a) \/ Leave(a) \/ SendSucceeds(a)
  BY <1>1, <1>2, TakeEffect, LeaveEffect, SendSucceedsEffect DEF SenderStep
<1>3. CASE SendFails(a) \/ Retry(a) \/ Report(a)
  BY <1>1, <1>3, SendFailsEffect, RetryEffect, ReportEffect DEF SenderStep
<1>4. CASE CommitBegins(a) \/ UpdateAnswered(a) \/ UpdateFails(a)
  BY <1>1, <1>4, CommitBeginsEffect, UpdateAnsweredEffect, UpdateFailsEffect DEF SenderStep
<1>5. CASE ReadSums(a) \/ Write(a) \/ Count(a)
  BY <1>1, <1>5, ReadSumsEffect, WriteEffect, CountEffect DEF SenderStep
<1> QED BY <1>2, <1>3, <1>4, <1>5 DEF SenderStep

\* What the steps of the others do to the senders and the scenario: nobody goes on, but the
\* next attempt may begin, or all begin again.
LEMMA RestKeeps ==
  ASSUME Typed,
         PipelineFails \/ RunnerTakes \/ RunnerRetries \/ LatePatch \/ Restart \/ Tick
           \/ UNCHANGED vars
  PROVE  /\ SameScenario
         /\ clock' \in Nat /\ clock' >= clock
         /\ senders' \in [Attempts -> SenderState]
         /\ \A a \in Attempts :
              senders'[a] = senders[a] \/ senders'[a].pc \in {"take", "idle"}
<1>0. /\ clock \in Nat /\ senders \in [Attempts -> SenderState]
      /\ scenario' = scenario => SameScenario
  BY Unmoved DEF Typed, Records
<1>1. CASE PipelineFails
  <2>1. SameScenario
    <3>1. PICK s \in Scenario : s = scenario
      BY DEF Typed, Records
    <3>2. s.failures > 0 /\ scenario' = [s EXCEPT !.failures = @ - 1]
      BY <1>1, <3>1 DEF PipelineFails
    <3> QED BY <3>1, <3>2 DEF SameScenario, Scenario
  <2> QED BY <1>0, <1>1, <2>1 DEF PipelineFails
<1>2. CASE RunnerTakes
  BY <1>0, <1>2 DEF RunnerTakes
<1>3. CASE RunnerRetries
  BY <1>0, <1>3, RunnerRetriesEffect DEF Moves
<1>4. CASE LatePatch
  BY <1>0, <1>4 DEF LatePatch
<1>5. CASE Restart
  BY <1>0, <1>5, RestartEffect
<1>6. CASE Tick
  BY <1>0, <1>6 DEF Tick
<1>7. CASE UNCHANGED vars
  BY <1>0, <1>7 DEF vars
<1> QED BY <1>1, <1>2, <1>3, <1>4, <1>5, <1>6, <1>7

\* Every step keeps what the senders have waited for.
LEMMA NextWaits == Typed /\ WaitInv /\ [Next]_vars => WaitInv'
<1> SUFFICES ASSUME Typed, WaitInv, [Next]_vars, NEW b \in Attempts
             PROVE  Waited(senders'[b], clock', scenario'.retryStrategy,
                           scenario'.retryAttempts, scenario'.retryDelay)
  BY DEF WaitInv
<1>0. Waited(senders[b], clock, scenario.retryStrategy, scenario.retryAttempts,
             scenario.retryDelay)
  BY DEF WaitInv
<1>1. ASSUME NEW a \in Attempts, SenderStep(a)
      PROVE  Waited(senders'[b], clock', scenario'.retryStrategy, scenario'.retryAttempts,
                    scenario'.retryDelay)
  <2>1. Moves(a) /\ SameScenario /\ UNCHANGED <<clock, runner>>
    BY <1>1, SenderStepKeeps
  <2>2. Waited(senders'[b], clock, scenario.retryStrategy, scenario.retryAttempts,
               scenario.retryDelay)
    <3>1. CASE b = a
      BY <1>0, <1>1, <3>1, WaitStep
    <3>2. CASE b # a
      BY <1>0, <2>1, <3>2 DEF Moves
    <3> QED BY <3>1, <3>2
  <2> QED BY <2>1, <2>2 DEF SameScenario
<1>2. ASSUME PipelineFails \/ RunnerTakes \/ RunnerRetries \/ LatePatch \/ Restart \/ Tick
               \/ UNCHANGED vars
      PROVE  Waited(senders'[b], clock', scenario'.retryStrategy, scenario'.retryAttempts,
                    scenario'.retryDelay)
  <2>1. /\ SameScenario /\ clock' \in Nat /\ clock' >= clock
        /\ senders'[b] = senders[b] \/ senders'[b].pc \in {"take", "idle"}
    BY <1>2, RestKeeps
  <2>2. CASE senders'[b] = senders[b]
    <3>1. /\ clock \in Nat /\ senders[b].since \in Nat /\ senders[b].tries \in Nat
          /\ scenario.retryAttempts \in Nat
      BY SenderNumbers
    <3>2. \A n \in Nat : Window(scenario.retryStrategy, n, scenario.retryDelay) \in Int
      <4>1. scenario.retryStrategy \in RetryStrategies /\ scenario.retryDelay \in Nat
        BY DEF Typed, Records, Scenario
      <4>2. Window(scenario.retryStrategy, 0, scenario.retryDelay) = 0
        BY DEF Window
      <4> QED BY <4>1, <4>2, WindowGrows
    <3>3. PICK s : s = senders[b]
      OBVIOUS
    <3>4. s.tries + 1 \in Nat /\ s.since \in Nat
      BY <3>1, <3>3
    <3>5. Waited(s, clock', scenario.retryStrategy, scenario.retryAttempts, scenario.retryDelay)
      BY <1>0, <2>1, <3>1, <3>2, <3>3, <3>4 DEF Waited
    <3> QED BY <2>1, <2>2, <3>3, <3>5 DEF SameScenario
  <2>3. CASE senders'[b].pc \in {"take", "idle"}
    BY <2>3 DEF Waited
  <2> QED BY <2>1, <2>2, <2>3
<1> QED BY <1>1, <1>2 DEF Next

\* No sender of any attempt gives a batch up before the window that the configuration gives
\* it has passed, for every strategy, number of attempts and delay, however late it wakes up.
THEOREM NothingIsGivenUpEarly == Spec => []GivenUpAfterItsWindow
<1>1. Init => WaitInv
  <2> SUFFICES ASSUME Init, NEW a \in Attempts
               PROVE  Waited(senders[a], clock, scenario.retryStrategy, scenario.retryAttempts,
                             scenario.retryDelay)
    BY DEF WaitInv
  <2>1. senders = [b \in Attempts |-> IF b = 1 THEN BeginAttempt(Sums) ELSE Idle]
    BY DEF Init
  <2>2. Sums \in SumsState
    BY RecordTypes, AccountingAssumption DEF Sums, SumsState
  <2>3. senders[a].pc \in {"take", "idle"}
    BY <2>1, <2>2, StartedFields
  <2> QED BY <2>3 DEF Waited
<1>2. WaitInv => GivenUpAfterItsWindow
  BY DEF WaitInv, Waited, GivenUpAfterItsWindow
<1> QED BY <1>1, <1>2, NextWaits, TypedHolds, PTL DEF Spec

-----------------------------------------------------------------------------
(***************************************************************************)
(* The state manager is never told too much.  A sum over the senders is a  *)
(* function of running totals.                                             *)
(***************************************************************************)

\* What a sender has delivered and not brought into the cursor.
Outstanding(s) == IF s.pc \in Sent THEN s.to - s.from + 1 ELSE 0

\* ... and all of them, each for itself.
OutstandingOf(all) == [a \in Attempts |-> Outstanding(all[a])]

\* total[k] is the sum over the first k attempts.
IsTotal(total, summands) ==
  /\ total[0] = 0
  /\ \A a \in Attempts : total[a] = total[a - 1] + summands[a]

\* Whoever has counted blocks, in a payload on its way or in sums not yet written, leaves
\* room for what all have outstanding.
Covered(s, sum, delivered) ==
  /\ s.pc = "update" => s.seen.blocksSent + sum <= delivered
  /\ s.pc = "write" => s.sums.blocksSent + sum <= delivered + (s.to - s.from + 1)

\* So does the cursor, with a sum of what all have outstanding.
BudgetWith(sum) ==
  /\ cursor.blocksSent + sum <= history.delivered
  /\ \A a \in Attempts : Covered(senders[a], sum, history.delivered)

BudgetInv ==
  /\ manager.blocksSent <= history.delivered
  /\ \A patch \in patches : patch.blocksSent <= history.delivered
  /\ \E total \in [0 .. MaxAttempts -> Int] :
       IsTotal(total, OutstandingOf(senders)) /\ BudgetWith(total[MaxAttempts])

\* What a sender has outstanding is a number of blocks.
LEMMA OutstandingType ==
  ASSUME NEW s \in SenderState, NEW attempts, Batched(s, attempts)
  PROVE  Outstanding(s) \in Nat
<1>1. s.pc \in Sent => s.from <= s.to
  BY DEF Batched, Sent, Busy
<1>2. s.from \in Nat /\ s.to \in Nat
  BY AccountingAssumption DEF SenderState
<1> QED BY <1>1, <1>2 DEF Outstanding

\* When one summand is more or less, so is the sum.
LEMMA TotalShifts ==
  ASSUME NEW all \in [Attempts -> Int], NEW next \in [Attempts -> Int], NEW a \in Attempts,
         \A b \in Attempts \ {a} : next[b] = all[b],
         NEW total \in [0 .. MaxAttempts -> Int], IsTotal(total, all)
  PROVE  \E shifted \in [0 .. MaxAttempts -> Int] :
           /\ IsTotal(shifted, next)
           /\ shifted[MaxAttempts] = total[MaxAttempts] - all[a] + next[a]
<1>1. PICK old \in Int : old = all[a]
  OBVIOUS
<1>2. PICK new \in Int : new = next[a]
  OBVIOUS
<1>3. MaxAttempts \in Nat \ {0} /\ a \in 1 .. MaxAttempts
  BY AccountingAssumption DEF Attempts
<1> DEFINE shifted == [k \in 0 .. MaxAttempts |-> IF k < a THEN total[k] ELSE total[k] - old + new]
<1>4. shifted \in [0 .. MaxAttempts -> Int]
  OBVIOUS
<1>5. shifted[0] = 0
  BY <1>3 DEF IsTotal
<1>6. ASSUME NEW b \in Attempts PROVE shifted[b] = shifted[b - 1] + next[b]
  <2>1. b \in 0 .. MaxAttempts /\ b - 1 \in 0 .. MaxAttempts
    BY <1>3 DEF Attempts
  <2>2. PICK w \in Int : w = all[b]
    OBVIOUS
  <2>3. total[b] = total[b - 1] + w /\ total[b - 1] \in Int
    BY <2>1, <2>2 DEF IsTotal
  <2>4. CASE b = a
    <3>1. w = old /\ shifted[b] = total[b] - old + new /\ shifted[b - 1] = total[b - 1]
      BY <1>1, <1>3, <2>1, <2>2, <2>4
    <3> QED BY <1>2, <2>3, <2>4, <3>1
  <2>5. CASE b # a
    <3>1. next[b] = w
      BY <2>2, <2>5
    <3>2. CASE b < a
      BY <1>3, <2>1, <2>3, <3>1, <3>2
    <3>3. CASE b > a
      <4>1. ~ (b < a) /\ ~ (b - 1 < a)
        BY <1>3, <2>1, <3>3
      <4>2. shifted[b] = total[b] - old + new /\ shifted[b - 1] = total[b - 1] - old + new
        BY <2>1, <4>1
      <4>3. PICK before \in Int : before = total[b - 1]
        BY <2>3
      <4>4. before + w - old + new = before - old + new + w
        OBVIOUS
      <4> QED BY ONLY <2>3, <3>1, <4>2, <4>3, <4>4
    <3>4. b < a \/ b > a
      BY <1>3, <2>1, <2>5
    <3> QED BY ONLY <3>2, <3>3, <3>4
  <2> QED BY <2>4, <2>5
<1>7. IsTotal(shifted, next)
  BY <1>5, <1>6 DEF IsTotal
<1>8. shifted[MaxAttempts] = total[MaxAttempts] - old + new
  BY <1>3
<1> QED BY <1>1, <1>2, <1>4, <1>7, <1>8

\* The sum covers each of its summands.
LEMMA TotalCovers ==
  ASSUME NEW all \in [Attempts -> Nat],
         NEW total \in [0 .. MaxAttempts -> Int], IsTotal(total, all)
  PROVE  /\ total[MaxAttempts] \in Nat
         /\ \A a \in Attempts : all[a] <= total[MaxAttempts]
<1>1. MaxAttempts \in Nat \ {0}
  BY AccountingAssumption
<1> DEFINE E == {k \in 0 .. MaxAttempts :
                   /\ total[k] \in Nat
                   /\ \A a \in Attempts : a <= k => all[a] <= total[k]}
<1>2. 0 \in E
  BY <1>1 DEF IsTotal, Attempts
<1>3. ASSUME NEW i \in 0 .. MaxAttempts - 1, i \in E PROVE i + 1 \in E
  <2>1. i + 1 \in Attempts /\ i + 1 \in 0 .. MaxAttempts /\ (i + 1) - 1 = i
    BY <1>1 DEF Attempts
  <2>2. PICK w \in Nat : w = all[i + 1]
    BY <2>1
  <2>3. PICK n \in Nat : n = total[i]
    BY <1>3
  <2>4. total[i + 1] = n + w
    BY <2>1, <2>2, <2>3 DEF IsTotal
  <2>5. ASSUME NEW a \in Attempts, a <= i + 1 PROVE all[a] <= n + w
    <3>1. CASE a = i + 1
      BY <2>2, <3>1
    <3>2. CASE a <= i
      <4>1. all[a] <= n /\ all[a] \in Nat
        BY <1>3, <2>3, <3>2
      <4> QED BY <4>1
    <3> QED BY <2>5, <3>1, <3>2 DEF Attempts
  <2> QED BY <2>1, <2>4, <2>5
<1> HIDE DEF E
<1>4. \A i \in 0 .. MaxAttempts : i \in E
  BY <1>1, <1>2, <1>3, UpTo
<1>5. MaxAttempts \in E
  BY <1>1, <1>4
<1> QED BY <1>1, <1>5 DEF E, Attempts

\* The sum of nothing is nothing.
LEMMA TotalOfNothing ==
  ASSUME NEW all, \A a \in Attempts : all[a] = 0
  PROVE  \E total \in [0 .. MaxAttempts -> Int] : IsTotal(total, all) /\ total[MaxAttempts] = 0
<1> DEFINE total == [k \in 0 .. MaxAttempts |-> 0]
<1>1. MaxAttempts \in Nat \ {0}
  BY AccountingAssumption
<1>2. \A a \in Attempts : a \in 0 .. MaxAttempts /\ a - 1 \in 0 .. MaxAttempts
  BY <1>1 DEF Attempts
<1>3. total \in [0 .. MaxAttempts -> Int] /\ total[0] = 0 /\ total[MaxAttempts] = 0
  BY <1>1
<1>4. IsTotal(total, all)
  BY <1>2, <1>3 DEF IsTotal
<1> QED BY <1>3, <1>4

\* ... whichever way it is summed up.
LEMMA NothingInTotal ==
  ASSUME NEW all, \A a \in Attempts : all[a] = 0,
         NEW total \in [0 .. MaxAttempts -> Int], IsTotal(total, all)
  PROVE  total[MaxAttempts] = 0
<1>1. MaxAttempts \in Nat \ {0}
  BY AccountingAssumption
<1> DEFINE E == {k \in 0 .. MaxAttempts : total[k] = 0}
<1>2. 0 \in E
  BY <1>1 DEF IsTotal
<1>3. ASSUME NEW i \in 0 .. MaxAttempts - 1, i \in E PROVE i + 1 \in E
  <2>1. i + 1 \in Attempts /\ i + 1 \in 0 .. MaxAttempts /\ (i + 1) - 1 = i
    BY <1>1 DEF Attempts
  <2>2. total[i + 1] = 0 + 0
    BY <1>3, <2>1 DEF IsTotal
  <2> QED BY <2>1, <2>2
<1> HIDE DEF E
<1>4. \A i \in 0 .. MaxAttempts : i \in E
  BY <1>1, <1>2, <1>3, UpTo
<1>5. MaxAttempts \in E
  BY <1>1, <1>4
<1> QED BY <1>5 DEF E

\* What all have outstanding are numbers of blocks.
LEMMA OutstandingsType ==
  /\ Typed => /\ OutstandingOf(senders) \in [Attempts -> Nat]
              /\ \A a \in Attempts : OutstandingOf(senders)[a] = Outstanding(senders[a])
  /\ Typed' => /\ OutstandingOf(senders') \in [Attempts -> Nat]
               /\ \A a \in Attempts : OutstandingOf(senders')[a] = Outstanding(senders'[a])
<1>1. ASSUME Typed PROVE \A a \in Attempts : Outstanding(senders[a]) \in Nat
  BY <1>1, OutstandingType DEF Typed, Records
<1>2. ASSUME Typed' PROVE \A a \in Attempts : Outstanding(senders'[a]) \in Nat
  BY <1>2, OutstandingType DEF Typed, Records
<1> QED BY <1>1, <1>2 DEF OutstandingOf

\* With room for more, whoever was covered stays so.
LEMMA StillCovered ==
  ASSUME NEW s \in SenderState, NEW sum \in Nat, NEW delivered \in Nat,
         NEW next \in Nat, NEW later \in Nat,
         next - sum <= later - delivered, later >= delivered, Covered(s, sum, delivered)
  PROVE  Covered(s, next, later)
<1>1. s.from \in Nat /\ s.to \in Nat /\ s.seen.blocksSent \in Nat /\ s.sums.blocksSent \in Nat
  BY AccountingAssumption DEF SenderState, CursorState, SumsState
<1> QED BY <1>1 DEF Covered

\* A payload on its way counts no more than was delivered.
LEMMA PayloadCovered ==
  ASSUME Typed, BudgetInv, NEW a \in Attempts, senders[a].pc = "update"
  PROVE  NewUpdateCursorPayload(a).blocksSent <= history.delivered
<1>1. PICK total \in [0 .. MaxAttempts -> Int] :
        IsTotal(total, OutstandingOf(senders)) /\ BudgetWith(total[MaxAttempts])
  BY DEF BudgetInv
<1>2. PICK now \in [Attempts -> Nat] : /\ now = OutstandingOf(senders)
                                       /\ now[a] = Outstanding(senders[a])
  BY OutstandingsType
<1>3. PICK sum \in Nat : sum = total[MaxAttempts] /\ Outstanding(senders[a]) <= sum
  BY <1>1, <1>2, TotalCovers
<1>4. PICK s \in SenderState : s = senders[a]
  BY DEF Typed, Records
<1>5. PICK n \in Int : n = s.to - s.from + 1
  BY AccountingAssumption DEF SenderState
<1>6. PICK blocks \in Nat : blocks = s.seen.blocksSent
  BY DEF SenderState, CursorState
<1>7. PICK d \in Nat : d = history.delivered
  BY DEF Typed, Records, HistoryState
<1>8. blocks + sum <= d
  BY <1>1, <1>3, <1>4, <1>6, <1>7 DEF BudgetWith, Covered
<1>9. n <= sum
  BY <1>3, <1>4, <1>5 DEF Outstanding, Sent
<1>10. NewUpdateCursorPayload(a).blocksSent = blocks + n
  BY <1>4, <1>5, <1>6, PayloadFields DEF Committing
<1> QED BY <1>7, <1>8, <1>9, <1>10

\* A step of one sender keeps the budget when that sender, and the cursor, keep to it.
LEMMA BudgetKeeps ==
  ASSUME Typed, Typed', BudgetInv, NEW a \in Attempts, Moves(a),
         history'.delivered >= history.delivered,
         Outstanding(senders'[a]) - Outstanding(senders[a])
           <= history'.delivered - history.delivered,
         \A sum \in Nat :
           /\ BudgetWith(sum)
           /\ Outstanding(senders[a]) <= sum
           => LET next == sum - Outstanding(senders[a]) + Outstanding(senders'[a])
              IN /\ cursor'.blocksSent + next <= history'.delivered
                 /\ Covered(senders'[a], next, history'.delivered),
         manager'.blocksSent <= history'.delivered,
         \A patch \in patches' : patch.blocksSent <= history'.delivered
  PROVE  BudgetInv'
<1>1. PICK total \in [0 .. MaxAttempts -> Int] :
        IsTotal(total, OutstandingOf(senders)) /\ BudgetWith(total[MaxAttempts])
  BY DEF BudgetInv
<1>2. PICK now \in [Attempts -> Nat] : /\ now = OutstandingOf(senders)
                                       /\ \A b \in Attempts : now[b] = Outstanding(senders[b])
  BY OutstandingsType
<1>3. PICK later \in [Attempts -> Nat] :
        /\ later = OutstandingOf(senders')
        /\ \A b \in Attempts : later[b] = Outstanding(senders'[b])
  BY OutstandingsType
<1>4. PICK sum \in Nat : sum = total[MaxAttempts] /\ Outstanding(senders[a]) <= sum
  BY <1>1, <1>2, TotalCovers
<1>5. PICK old \in Nat : old = Outstanding(senders[a]) /\ old = now[a]
  BY <1>2
<1>6. PICK new \in Nat : new = Outstanding(senders'[a]) /\ new = later[a]
  BY <1>3
<1>7. PICK shifted \in [0 .. MaxAttempts -> Int] :
        IsTotal(shifted, OutstandingOf(senders')) /\ shifted[MaxAttempts] = sum - old + new
  <2>1. now \in [Attempts -> Int] /\ later \in [Attempts -> Int]
    OBVIOUS
  <2>2. \A b \in Attempts \ {a} : later[b] = now[b]
    BY <1>2, <1>3 DEF Moves
  <2>3. IsTotal(total, now)
    BY <1>1, <1>2
  <2>4. \E shifted \in [0 .. MaxAttempts -> Int] :
          /\ IsTotal(shifted, later)
          /\ shifted[MaxAttempts] = total[MaxAttempts] - now[a] + later[a]
    BY ONLY <2>1, <2>2, <2>3, TotalShifts, ZenonT(60), a \in Attempts,
            total \in [0 .. MaxAttempts -> Int]
  <2> QED BY <1>3, <1>4, <1>5, <1>6, <2>4
<1>8. PICK next \in Nat : next = sum - old + new
  BY <1>4, <1>5
<1>9. BudgetWith(sum)
  BY <1>1, <1>4
<1>10. /\ cursor'.blocksSent + next <= history'.delivered
       /\ Covered(senders'[a], next, history'.delivered)
  BY <1>4, <1>5, <1>6, <1>8, <1>9
<1>11. ASSUME NEW b \in Attempts PROVE Covered(senders'[b], next, history'.delivered)
  <2>1. CASE b = a
    BY <1>10, <2>1
  <2>2. CASE b # a
    <3>1. senders'[b] = senders[b] /\ senders[b] \in SenderState
      BY <2>2 DEF Moves, Typed, Records
    <3>2. Covered(senders[b], sum, history.delivered)
      BY <1>9 DEF BudgetWith
    <3>3. history.delivered \in Nat /\ history'.delivered \in Nat
      BY DEF Typed, Records, HistoryState
    <3>4. next - sum <= history'.delivered - history.delivered
      BY <1>4, <1>5, <1>6, <1>8, <3>3
    <3> QED BY <3>1, <3>2, <3>3, <3>4, StillCovered
  <2> QED BY <2>1, <2>2
<1>12. IsTotal(shifted, OutstandingOf(senders')) /\ shifted[MaxAttempts] = next
  BY <1>7, <1>8
<1> QED BY <1>10, <1>11, <1>12 DEF BudgetInv, BudgetWith

\* A step of a sender moves blocks from one place of the budget to the next, and loses some.
LEMMA SenderKeepsBudget ==
  ASSUME Typed, Typed', BudgetInv, NEW a \in Attempts, SenderStep(a)
  PROVE  BudgetInv'
<1>1. PICK s \in SenderState : s = senders[a]
  BY DEF Typed, Records
<1>2. PICK t \in SenderState : t = senders'[a]
  BY DEF Typed, Records
<1>3. PICK d \in Nat : d = history.delivered
  BY DEF Typed, Records, HistoryState
<1>4. PICK c \in Nat : c = cursor.blocksSent
  BY DEF Typed, Records, CursorState
<1>5. /\ s.from \in Nat /\ s.to \in Nat /\ s.seen.blocksSent \in Nat
      /\ s.sums.blocksSent \in Nat
      /\ s.pc \in Sent => s.from <= s.to
      /\ s.pc = "send" => s.from <= s.to
  BY <1>1, AccountingAssumption
     DEF SenderState, CursorState, SumsState, Typed, Batched, Sent, Busy
<1>6. /\ manager.blocksSent <= d
      /\ \A patch \in patches : patch.blocksSent <= d
  BY <1>3 DEF BudgetInv
<1>7. \A sum \in Nat : BudgetWith(sum) => c + sum <= d /\ Covered(s, sum, d)
  BY <1>1, <1>3, <1>4 DEF BudgetWith
<1>8. CASE Take(a) \/ Leave(a) \/ SendFails(a) \/ Retry(a) \/ Report(a) \/ Count(a)
  <2>1. /\ Moves(a) /\ s.pc \notin Sent /\ t.pc \notin Sent
        /\ history'.delivered = d
        /\ UNCHANGED <<cursor, manager, patches>>
    <3>1. CASE Take(a)
      BY <1>1, <1>2, <1>3, <3>1, TakeEffect DEF Sent, LeftOut
    <3>2. CASE Leave(a)
      BY <1>1, <1>2, <1>3, <3>2, LeaveEffect DEF Sent
    <3>3. CASE SendFails(a)
      BY <1>1, <1>2, <1>3, <3>3, SendFailsEffect DEF Sent, LeftOut
    <3>4. CASE Retry(a)
      BY <1>1, <1>2, <1>3, <3>4, RetryEffect DEF Sent
    <3>5. CASE Report(a)
      <4>1. s.pc \notin Sent
        BY <1>1, <3>5, ReportEffect DEF Sent
      <4>2. t.pc = "take"
        BY <1>2, <3>5, ReportEffect
      <4> QED BY <1>3, <3>5, <4>1, <4>2, ReportEffect DEF Sent
    <3>6. CASE Count(a)
      <4>1. s.pc \notin Sent
        BY <1>1, <3>6, CountEffect DEF Sent
      <4>2. t.pc = "take"
        BY <1>2, <3>6, CountEffect
      <4> QED BY <1>3, <3>6, <4>1, <4>2, CountEffect DEF Sent
    <3> QED BY <1>8, <3>1, <3>2, <3>3, <3>4, <3>5, <3>6
  <2>2. Outstanding(s) = 0 /\ Outstanding(t) = 0
    BY <2>1 DEF Outstanding
  <2>3. \A sum : Covered(t, sum, d)
    BY <2>1 DEF Covered, Sent
  <2>4. \A sum \in Nat : BudgetWith(sum) =>
          c + (sum - 0 + 0) <= d /\ Covered(t, sum - 0 + 0, d)
    BY <1>7, <2>3
  <2>5. cursor'.blocksSent = c /\ manager' = manager /\ patches' = patches
    BY <1>4, <2>1
  <2> QED BY <1>1, <1>2, <1>3, <1>6, <2>1, <2>2, <2>4, <2>5, BudgetKeeps
<1>9. CASE SendSucceeds(a)
  <2>1. PICK n \in Nat : n = s.to - s.from + 1
    BY <1>1, <1>5, <1>9, SendSucceedsEffect
  <2>2. /\ Moves(a) /\ s.pc = "send" /\ t.pc = "commit" /\ t.from = s.from /\ t.to = s.to
        /\ history'.delivered = d + n
        /\ UNCHANGED <<cursor, manager, patches>>
    BY <1>1, <1>2, <1>3, <1>9, <2>1, SendSucceedsEffect, BatchFields
  <2>3. Outstanding(s) = 0 /\ Outstanding(t) = n
    BY <2>1, <2>2 DEF Outstanding, Sent
  <2>4. \A sum \in Nat : BudgetWith(sum) =>
          c + (sum - 0 + n) <= d + n /\ Covered(t, sum - 0 + n, d + n)
    BY <1>7, <2>2 DEF Covered
  <2>5. manager.blocksSent <= d + n /\ \A patch \in patches : patch.blocksSent <= d + n
    BY <1>6 DEF Typed, Records, SumsState
  <2>6. cursor'.blocksSent = c /\ manager' = manager /\ patches' = patches
    BY <1>4, <2>2
  <2>7. d + n >= d /\ n - 0 <= d + n - d
    OBVIOUS
  <2> QED BY <1>1, <1>2, <1>3, <2>2, <2>3, <2>4, <2>5, <2>6, <2>7, BudgetKeeps
<1>10. CASE CommitBegins(a)
  <2>1. PICK n \in Nat : n = s.to - s.from + 1
    BY <1>1, <1>5, <1>10, CommitBeginsEffect DEF Sent
  <2>2. /\ Moves(a) /\ s.pc = "commit" /\ t.from = s.from /\ t.to = s.to
        /\ history'.delivered = d
        /\ t.pc \in {"uncommitted", "update"}
        /\ t.pc = "update" => t.seen.blocksSent = c
        /\ UNCHANGED <<cursor, manager, patches>>
    <3>1. /\ Moves(a) /\ s.pc = "commit" /\ t.from = s.from /\ t.to = s.to
          /\ UNCHANGED <<cursor, manager, patches>>
      BY <1>1, <1>2, <1>10, CommitBeginsEffect
    <3>2. history'.delivered = d
      BY <1>3, <1>10, CommitBeginsEffect DEF LeftOut
    <3>3. t.pc \in {"uncommitted", "update"} /\ (t.pc = "update" => t.seen.blocksSent = c)
      BY <1>2, <1>4, <1>10, CommitBeginsEffect
    <3> QED BY <3>1, <3>2, <3>3
  <2>3. /\ Outstanding(s) = n
        /\ Outstanding(t) = IF t.pc = "update" THEN n ELSE 0
    BY <2>1, <2>2 DEF Outstanding, Sent
  <2>4. cursor'.blocksSent = c /\ manager' = manager /\ patches' = patches
    BY <1>4, <2>2
  <2>5. CASE t.pc = "update"
    <3>1. \A sum \in Nat : BudgetWith(sum) =>
            c + (sum - n + n) <= d /\ Covered(t, sum - n + n, d)
      BY <1>7, <2>2, <2>5 DEF Covered
    <3> QED BY <1>1, <1>2, <1>3, <1>6, <2>2, <2>3, <2>4, <2>5, <3>1, BudgetKeeps
  <2>6. CASE t.pc # "update"
    <3>1. \A sum \in Nat : BudgetWith(sum) =>
            c + (sum - n + 0) <= d /\ Covered(t, sum - n + 0, d)
      BY <1>7, <2>2, <2>6 DEF Covered
    <3>2. 0 - n <= d - d
      OBVIOUS
    <3> QED BY <1>1, <1>2, <1>3, <1>6, <2>2, <2>3, <2>4, <2>6, <3>1, <3>2, BudgetKeeps
  <2> QED BY <2>5, <2>6
<1>11. CASE UpdateAnswered(a) \/ UpdateFails(a)
  <2>1. s.pc = "update"
    BY <1>1, <1>11, UpdateAnsweredEffect, UpdateFailsEffect
  <2>2. PICK n \in Nat : n = s.to - s.from + 1
    BY <1>5, <2>1 DEF Sent
  <2>3. PICK patch : patch = NewUpdateCursorPayload(a)
    OBVIOUS
  <2>4. patch.blocksSent <= d
    BY <1>1, <1>3, <2>1, <2>3, PayloadCovered
  <2>5. /\ Moves(a) /\ t.from = s.from /\ t.to = s.to
        /\ history'.delivered = d
        /\ t.pc \in {"store", "uncommitted"}
        /\ cursor' = cursor
        /\ manager' \in {manager, patch} /\ patches' \subseteq patches \cup {patch}
    <3>1. CASE UpdateAnswered(a)
      BY <1>1, <1>2, <1>3, <2>3, <3>1, UpdateAnsweredEffect
    <3>2. CASE UpdateFails(a)
      BY <1>1, <1>2, <1>3, <2>3, <3>2, UpdateFailsEffect DEF LeftOut
    <3> QED BY <1>11, <3>1, <3>2
  <2>6. manager'.blocksSent <= d /\ \A p \in patches' : p.blocksSent <= d
    BY <1>6, <2>4, <2>5
  <2>7. PICK new \in {0, n} : Outstanding(t) = new
    BY <2>2, <2>5 DEF Outstanding
  <2>8. Outstanding(s) = n
    BY <2>1, <2>2 DEF Outstanding, Sent
  <2>9. \A sum \in Nat : BudgetWith(sum) =>
          c + (sum - n + new) <= d /\ Covered(t, sum - n + new, d)
    BY <1>7, <2>5 DEF Covered
  <2>10. cursor'.blocksSent = c /\ new - n <= d - d
    BY <1>4, <2>5
  <2> QED BY <1>1, <1>2, <1>3, <2>5, <2>6, <2>7, <2>8, <2>9, <2>10, BudgetKeeps
<1>12. CASE ReadSums(a)
  <2>1. PICK n \in Nat : n = s.to - s.from + 1
    BY <1>1, <1>5, <1>12, ReadSumsEffect DEF Sent
  <2>2. /\ Moves(a) /\ s.pc = "store" /\ t.from = s.from /\ t.to = s.to
        /\ t.pc = "write" /\ t.sums.blocksSent = c + n
        /\ cursor'.blocksSent = c
        /\ UNCHANGED <<manager, patches, history>>
    BY <1>1, <1>2, <1>3, <1>4, <1>12, <2>1, ReadSumsEffect
  <2>3. Outstanding(s) = n /\ Outstanding(t) = n
    BY <2>1, <2>2 DEF Outstanding, Sent
  <2>4. \A sum \in Nat : BudgetWith(sum) =>
          c + (sum - n + n) <= d /\ Covered(t, sum - n + n, d)
    BY <1>7, <2>1, <2>2 DEF Covered
  <2>5. history'.delivered = d /\ n - n <= d - d /\ manager' = manager /\ patches' = patches
    BY <1>3, <2>2
  <2> QED BY <1>1, <1>2, <1>3, <1>6, <2>2, <2>3, <2>4, <2>5, BudgetKeeps
<1>13. CASE Write(a)
  <2>1. PICK n \in Nat : n = s.to - s.from + 1
    BY <1>1, <1>5, <1>13, WriteEffect DEF Sent
  <2>2. /\ Moves(a) /\ s.pc = "write" /\ t.pc = "count"
        /\ cursor'.blocksSent = s.sums.blocksSent
        /\ history'.delivered = d
        /\ UNCHANGED <<manager, patches>>
    BY <1>1, <1>2, <1>3, <1>13, WriteEffect
  <2>3. Outstanding(s) = n /\ Outstanding(t) = 0
    BY <2>1, <2>2 DEF Outstanding, Sent
  <2>4. \A sum \in Nat : BudgetWith(sum) =>
          s.sums.blocksSent + (sum - n + 0) <= d /\ Covered(t, sum - n + 0, d)
    BY <1>5, <1>7, <2>1, <2>2 DEF Covered
  <2>5. 0 - n <= d - d /\ manager' = manager /\ patches' = patches
    BY <2>2
  <2> QED BY <1>1, <1>2, <1>3, <1>6, <2>2, <2>3, <2>4, <2>5, BudgetKeeps
<1> QED BY <1>8, <1>9, <1>10, <1>11, <1>12, <1>13 DEF SenderStep

\* Nothing else adds to the budget; a restart turns payloads on their way into late ones.
LEMMA RestKeepsBudget ==
  ASSUME Typed, Typed', BudgetInv,
         PipelineFails \/ RunnerTakes \/ RunnerRetries \/ LatePatch \/ Restart \/ Tick
           \/ UNCHANGED vars
  PROVE  BudgetInv'
<1>1. CASE PipelineFails \/ RunnerTakes \/ Tick \/ UNCHANGED vars
  <2>1. UNCHANGED <<cursor, manager, patches, senders, history>>
    BY <1>1 DEF PipelineFails, RunnerTakes, Tick, vars
  <2> QED BY <2>1 DEF BudgetInv, BudgetWith
<1>2. CASE LatePatch
  <2>1. UNCHANGED <<cursor, senders, history>> /\ patches' \subseteq patches /\ manager' \in patches
    BY <1>2 DEF LatePatch
  <2> QED BY <2>1 DEF BudgetInv, BudgetWith
<1>3. CASE RunnerRetries
  <2>1. PICK next \in Attempts :
          /\ Moves(next) /\ senders[next].pc = "idle"
          /\ senders'[next] = senders[next] \/ senders'[next].pc = "take"
          /\ UNCHANGED <<cursor, manager, patches, history>>
    BY <1>3, RunnerRetriesEffect
  <2>2. /\ senders'[next].pc \in {"idle", "take"}
        /\ Outstanding(senders[next]) = 0 /\ Outstanding(senders'[next]) = 0
    BY <2>1 DEF Outstanding, Sent
  <2>3. PICK d \in Nat : d = history.delivered
    BY DEF Typed, Records, HistoryState
  <2>4. PICK c \in Nat : c = cursor.blocksSent
    BY DEF Typed, Records, CursorState
  <2>5. \A sum \in Nat : BudgetWith(sum) =>
          c + (sum - 0 + 0) <= d /\ Covered(senders'[next], sum - 0 + 0, d)
    BY <2>2, <2>3, <2>4 DEF BudgetWith, Covered
  <2>6. history'.delivered = d /\ cursor'.blocksSent = c /\ 0 - 0 <= d - d /\ d >= d
    BY <2>1, <2>3, <2>4
  <2>7. manager'.blocksSent <= d /\ \A patch \in patches' : patch.blocksSent <= d
    BY <2>1, <2>3 DEF BudgetInv
  <2> QED BY <2>1, <2>2, <2>3, <2>5, <2>6, <2>7, BudgetKeeps
<1>4. CASE Restart
  <2>1. PICK later : later = senders'
    OBVIOUS
  <2>2. \A a \in Attempts : later[a].pc \in {"take", "idle"}
    BY <1>4, <2>1, RestartEffect
  <2>3. \A a \in Attempts : Outstanding(later[a]) = 0
    BY <2>2 DEF Outstanding, Sent
  <2>4. PICK total \in [0 .. MaxAttempts -> Int] :
          IsTotal(total, OutstandingOf(later)) /\ total[MaxAttempts] = 0
    <3>1. \A a \in Attempts : OutstandingOf(later)[a] = 0
      BY <2>3 DEF OutstandingOf
    <3> QED BY <3>1, TotalOfNothing
  <2>5. PICK d \in Nat : d = history.delivered
    BY DEF Typed, Records, HistoryState
  <2>6. /\ history'.delivered = d /\ manager' = manager /\ cursor'.blocksSent = manager.blocksSent
        /\ manager.blocksSent \in Nat /\ manager.blocksSent <= d
    <3>1. history'.delivered = d /\ manager' = manager /\ cursor'.blocksSent = manager.blocksSent
      BY <1>4, <2>5, RestartEffect
    <3>2. manager.blocksSent \in Nat
      BY DEF Typed, Records, SumsState
    <3> QED BY <2>5, <3>1, <3>2 DEF BudgetInv
  <2>7. ASSUME NEW patch \in patches' PROVE patch.blocksSent <= d
    <3>1. patches' = patches \cup
            {NewUpdateCursorPayload(a) : a \in {b \in Attempts : senders[b].pc = "update"}}
      BY <1>4 DEF Restart
    <3>2. CASE patch \in patches
      BY <2>5, <3>2 DEF BudgetInv
    <3>3. CASE patch \notin patches
      <4>1. PICK a \in Attempts : senders[a].pc = "update" /\ patch = NewUpdateCursorPayload(a)
        BY <3>1, <3>3
      <4> QED BY <2>5, <4>1, PayloadCovered
    <3> QED BY <3>2, <3>3
  <2>8. \A a \in Attempts : Covered(later[a], 0, d)
    BY <2>2 DEF Covered
  <2>9. BudgetWith(0)'
    BY <2>1, <2>6, <2>8 DEF BudgetWith
  <2> QED BY <2>1, <2>4, <2>6, <2>7, <2>9 DEF BudgetInv
<1> QED BY <1>1, <1>2, <1>3, <1>4

\* Whatever is sent or committed again, arrives late or is committed by several attempts at
\* once, the state manager never has more blocks than were delivered.
THEOREM NothingIsCountedTwice == Spec => []NeverCountedTooMuch
<1>1. Init => BudgetInv
  <2> SUFFICES ASSUME Init PROVE BudgetInv
    OBVIOUS
  <2>1. PICK all : all = senders
    OBVIOUS
  <2>2. Sums \in SumsState
    BY RecordTypes, AccountingAssumption DEF Sums, SumsState
  <2>3. all = [a \in Attempts |-> IF a = 1 THEN BeginAttempt(Sums) ELSE Idle]
    BY <2>1 DEF Init
  <2>4. \A a \in Attempts : all[a].pc \in {"take", "idle"}
    BY <2>2, <2>3, StartedFields
  <2>5. \A a \in Attempts : Outstanding(all[a]) = 0 /\ Covered(all[a], 0, 0)
    BY <2>4 DEF Outstanding, Sent, Covered
  <2>6. PICK total \in [0 .. MaxAttempts -> Int] :
          IsTotal(total, OutstandingOf(all)) /\ total[MaxAttempts] = 0
    <3>1. \A a \in Attempts : OutstandingOf(all)[a] = 0
      BY <2>5 DEF OutstandingOf
    <3> QED BY <3>1, TotalOfNothing
  <2>7. history.delivered = 0 /\ manager = Sums /\ patches = {} /\ cursor = WithCommitAt(Sums, 0)
    BY DEF Init
  <2>8. Sums.blocksSent = 0 /\ cursor.blocksSent = 0
    BY <2>2, <2>7, RecordTypes DEF Sums
  <2>9. BudgetWith(0)
    BY <2>1, <2>5, <2>7, <2>8 DEF BudgetWith
  <2>10. manager.blocksSent <= history.delivered /\ \A patch \in patches :
                                                      patch.blocksSent <= history.delivered
    BY <2>7, <2>8
  <2>11. IsTotal(total, OutstandingOf(senders)) /\ BudgetWith(total[MaxAttempts])
    BY <2>1, <2>6, <2>9
  <2> QED BY <2>10, <2>11 DEF BudgetInv
<1>2. Typed /\ Typed' /\ BudgetInv /\ [Next]_vars => BudgetInv'
  <2> SUFFICES ASSUME Typed, Typed', BudgetInv, [Next]_vars PROVE BudgetInv'
    OBVIOUS
  <2>1. ASSUME NEW a \in Attempts, SenderStep(a) PROVE BudgetInv'
    BY <2>1, SenderKeepsBudget
  <2> QED BY <2>1, RestKeepsBudget DEF Next
<1>3. BudgetInv => NeverCountedTooMuch
  BY DEF BudgetInv, NeverCountedTooMuch
<1> QED BY <1>1, <1>2, <1>3, TypedHolds, PTL DEF Spec

-----------------------------------------------------------------------------
(***************************************************************************)
(* The metrics tell the same as the cursor.                                *)
(***************************************************************************)

Sleeping == {a \in Attempts : senders[a].pc = "sleep"}

\* No failed send is lost.
SleepInv ==
  scenario.retryAttempts > 0 =>
    metrics.errors = metrics.retries + history.givenUp + Cardinality(Sleeping)

\* One more sender sleeps when one falls asleep, and one less when one wakes up.
LEMMA SleepingChanges ==
  ASSUME Typed, NEW a \in Attempts, Moves(a)
  PROVE  /\ Cardinality(Sleeping) \in Nat
         /\ senders[a].pc # "sleep" /\ senders'[a].pc # "sleep"
              => Cardinality(Sleeping)' = Cardinality(Sleeping)
         /\ senders[a].pc # "sleep" /\ senders'[a].pc = "sleep"
              => Cardinality(Sleeping)' = Cardinality(Sleeping) + 1
         /\ senders[a].pc = "sleep" /\ senders'[a].pc # "sleep"
              => Cardinality(Sleeping)' = Cardinality(Sleeping) - 1
<1>1. IsFiniteSet(Attempts)
  BY FS_Interval, AccountingAssumption DEF Attempts
<1>2. PICK S : S = Sleeping
  OBVIOUS
<1>3. PICK T : T = Sleeping'
  OBVIOUS
<1>4. S \in SUBSET Attempts
  BY <1>2 DEF Sleeping
<1>5. IsFiniteSet(S) /\ Cardinality(S) \in Nat
  BY <1>1, <1>4, FS_Subset, FS_CardinalityType
<1>6. \A b \in Attempts : (b \in S <=> senders[b].pc = "sleep")
  BY <1>2 DEF Sleeping
<1>7. T \subseteq Attempts /\ \A b \in Attempts : (b \in T <=> senders'[b].pc = "sleep")
  BY <1>3 DEF Sleeping
<1>8. \A b \in Attempts \ {a} : (b \in T <=> b \in S)
  BY <1>6, <1>7 DEF Moves
<1>9. ASSUME senders[a].pc # "sleep", senders'[a].pc # "sleep" PROVE T = S
  BY <1>4, <1>6, <1>7, <1>8, <1>9
<1>10. ASSUME senders[a].pc # "sleep", senders'[a].pc = "sleep"
       PROVE  Cardinality(T) = Cardinality(S) + 1
  <2>1. T = S \cup {a} /\ a \notin S
    BY <1>4, <1>6, <1>7, <1>8, <1>10
  <2> QED BY <1>5, <2>1, FS_AddElement
<1>11. ASSUME senders[a].pc = "sleep", senders'[a].pc # "sleep"
       PROVE  Cardinality(T) = Cardinality(S) - 1
  <2>1. T = S \ {a} /\ a \in S
    BY <1>4, <1>6, <1>7, <1>8, <1>11
  <2> QED BY <1>5, <2>1, FS_RemoveElement
<1>12. Cardinality(Sleeping)' = Cardinality(T) /\ Cardinality(Sleeping) = Cardinality(S)
  BY <1>2, <1>3
<1> QED BY <1>5, <1>9, <1>10, <1>11, <1>12

\* A failed send is slept upon or given up, and a retry is one sleeper less.
LEMMA SenderKeepsSleep ==
  ASSUME Typed, SleepInv, NEW a \in Attempts, SenderStep(a)
  PROVE  SleepInv'
<1> SUFFICES ASSUME scenario'.retryAttempts > 0
             PROVE  metrics'.errors = metrics'.retries + history'.givenUp + Cardinality(Sleeping)'
  BY DEF SleepInv
<1>1. Moves(a) /\ scenario.retryAttempts > 0
  BY SenderStepKeeps DEF SameScenario
<1>2. PICK n \in Nat : n = Cardinality(Sleeping)
  BY <1>1, SleepingChanges
<1>3. PICK errors \in Nat : errors = metrics.errors
  BY DEF Typed, Records, MetricsState
<1>4. PICK retries \in Nat : retries = metrics.retries
  BY DEF Typed, Records, MetricsState
<1>5. PICK givenUp \in Nat : givenUp = history.givenUp
  BY DEF Typed, Records, HistoryState
<1>6. errors = retries + givenUp + n
  BY <1>1, <1>2, <1>3, <1>4, <1>5 DEF SleepInv
<1>7. CASE SendFails(a)
  <2>1. metrics'.errors = errors + 1 /\ metrics'.retries = retries + 0
    BY <1>3, <1>4, <1>7, SendFailsEffect DEF Raised
  <2>2. senders[a].pc = "send"
    BY <1>7, SendFailsEffect
  <2>3. CASE senders[a].tries + 1 < scenario.retryAttempts
    <3>1. senders'[a].pc = "sleep" /\ history'.givenUp = givenUp
      BY <1>5, <1>7, <2>3, SendFailsEffect
    <3>2. Cardinality(Sleeping)' = n + 1
      BY <1>1, <1>2, <2>2, <3>1, SleepingChanges
    <3> QED BY <1>6, <2>1, <3>1, <3>2
  <2>4. CASE ~ (senders[a].tries + 1 < scenario.retryAttempts)
    <3>1. senders'[a].pc = "exhausted" /\ history'.givenUp = givenUp + 1
      BY <1>5, <1>7, <2>4, SendFailsEffect DEF LeftOut
    <3>2. Cardinality(Sleeping)' = n
      BY <1>1, <1>2, <2>2, <3>1, SleepingChanges
    <3> QED BY <1>6, <2>1, <3>1, <3>2
  <2> QED BY <2>3, <2>4
<1>8. CASE Retry(a)
  <2>1. /\ senders[a].pc = "sleep" /\ senders'[a].pc = "send"
        /\ history' = history
        /\ metrics'.errors = errors + 0 /\ metrics'.retries = retries + 1
    BY <1>3, <1>4, <1>8, RetryEffect DEF Raised
  <2>2. Cardinality(Sleeping)' = n - 1
    BY <1>1, <1>2, <2>1, SleepingChanges
  <2>3. history'.givenUp = givenUp
    BY <1>5, <2>1
  <2>4. errors + 0 = (retries + 1) + givenUp + (n - 1)
    BY <1>6
  <2> QED BY <2>1, <2>2, <2>3, <2>4
<1>9. ASSUME ~ SendFails(a), ~ Retry(a)
      PROVE  /\ senders[a].pc # "sleep" /\ senders'[a].pc # "sleep"
             /\ metrics'.errors = errors /\ metrics'.retries = retries
             /\ history'.givenUp = givenUp
  <2>1. CASE Take(a)
    BY <1>1, <1>3, <1>4, <1>5, <2>1, TakeEffect
  <2>2. CASE Leave(a)
    BY <1>3, <1>4, <1>5, <2>2, LeaveEffect
  <2>3. CASE SendSucceeds(a)
    BY <1>3, <1>4, <1>5, <2>3, SendSucceedsEffect
  <2>4. CASE Report(a)
    <3>1. senders[a].pc # "sleep"
      BY <2>4, ReportEffect
    <3>2. senders'[a].pc = "take" /\ UNCHANGED <<metrics, history>>
      BY <2>4, ReportEffect
    <3> QED BY <1>3, <1>4, <1>5, <3>1, <3>2
  <2>5. CASE CommitBegins(a)
    <3>1. /\ senders[a].pc = "commit" /\ senders'[a].pc \in {"uncommitted", "update"}
          /\ UNCHANGED metrics
      BY <2>5, CommitBeginsEffect
    <3>2. history'.givenUp = givenUp + 0 \/ history'.givenUp = givenUp
      BY <1>5, <2>5, CommitBeginsEffect DEF LeftOut
    <3> QED BY <1>3, <1>4, <3>1, <3>2
  <2>6. CASE UpdateAnswered(a)
    BY <1>3, <1>4, <1>5, <2>6, UpdateAnsweredEffect
  <2>7. CASE UpdateFails(a)
    <3>1. history'.givenUp = givenUp + 0
      BY <1>5, <2>7, UpdateFailsEffect DEF LeftOut
    <3> QED BY <1>3, <1>4, <2>7, <3>1, UpdateFailsEffect
  <2>8. CASE ReadSums(a)
    BY <1>3, <1>4, <1>5, <2>8, ReadSumsEffect
  <2>9. CASE Write(a)
    BY <1>3, <1>4, <1>5, <2>9, WriteEffect
  <2>10. CASE Count(a)
    <3>1. metrics'.errors = errors + 0 /\ metrics'.retries = retries + 0
      BY <1>3, <1>4, <2>10, CountEffect DEF Raised
    <3>2. senders[a].pc = "count" /\ UNCHANGED history
      BY <2>10, CountEffect
    <3>3. senders'[a].pc = "take"
      BY <2>10, CountEffect
    <3> QED BY <1>5, <3>1, <3>2, <3>3
  <2> QED BY <1>9, <2>1, <2>2, <2>3, <2>4, <2>5, <2>6, <2>7, <2>8, <2>9, <2>10 DEF SenderStep
<1>10. CASE ~ SendFails(a) /\ ~ Retry(a)
  <2>1. Cardinality(Sleeping)' = n
    BY <1>1, <1>2, <1>9, <1>10, SleepingChanges
  <2> QED BY <1>6, <1>9, <1>10, <2>1
<1> QED BY <1>7, <1>8, <1>10

\* A restart forgets the counters and the sleepers at once.
LEMMA RestKeepsSleep ==
  ASSUME Typed, SleepInv,
         PipelineFails \/ RunnerTakes \/ RunnerRetries \/ LatePatch \/ Restart \/ Tick
           \/ UNCHANGED vars
  PROVE  SleepInv'
<1>1. SameScenario
  BY RestKeeps
<1>2. CASE PipelineFails \/ RunnerTakes \/ LatePatch \/ Tick \/ UNCHANGED vars
  <2>1. UNCHANGED <<senders, metrics, history>>
    BY <1>2 DEF PipelineFails, RunnerTakes, LatePatch, Tick, vars
  <2>2. Sleeping' = Sleeping
    BY <2>1 DEF Sleeping
  <2> QED BY <1>1, <2>1, <2>2 DEF SleepInv, SameScenario
<1>3. CASE RunnerRetries
  <2>1. PICK next \in Attempts :
          /\ Moves(next) /\ senders[next].pc = "idle"
          /\ senders'[next] = senders[next] \/ senders'[next].pc = "take"
          /\ UNCHANGED <<metrics, history>>
    BY <1>3, RunnerRetriesEffect
  <2>2. Cardinality(Sleeping)' = Cardinality(Sleeping)
    BY <2>1, SleepingChanges
  <2> QED BY <1>1, <2>1, <2>2 DEF SleepInv, SameScenario
<1>4. CASE Restart
  <2>1. /\ metrics'.errors = 0 /\ metrics'.retries = 0 /\ history'.givenUp = 0
        /\ \A a \in Attempts : senders'[a].pc \in {"take", "idle"}
    BY <1>4, RestartEffect
  <2>2. Sleeping' = {}
    BY <2>1 DEF Sleeping
  <2>3. Cardinality(Sleeping)' = 0
    BY <2>2, FS_EmptySet
  <2> QED BY <2>1, <2>3 DEF SleepInv
<1> QED BY <1>2, <1>3, <1>4

-----------------------------------------------------------------------------

\* What a sender in Commit saw, and then read, lies before what the cursor has now.
Reads(s, now) ==
  /\ s.pc \in Committing =>
       s.seen.blocksSent <= now.blocksSent /\ s.seen.timeSpent <= now.timeSpent
  /\ s.pc = "write" =>
       LET blocks == s.sums.blocksSent - (s.to - s.from + 1)
           time == s.sums.timeSpent - (s.at - s.seen.lastCommitAt) \div TicksPerSecond
       IN /\ s.sums.position = s.to
          /\ s.seen.blocksSent <= blocks /\ blocks <= now.blocksSent
          /\ s.seen.timeSpent <= time /\ time <= now.timeSpent

\* So it is until a store has been raced.
ReadsInv == \A a \in Attempts : Reads(senders[a], cursor)

\* A cursor that goes on stays ahead.
LEMMA ReadsStay ==
  ASSUME NEW s \in SenderState, NEW now \in CursorState, NEW later \in CursorState,
         Reads(s, now), now.blocksSent <= later.blocksSent, now.timeSpent <= later.timeSpent
  PROVE  Reads(s, later)
<1>1. /\ s.seen.blocksSent \in Nat /\ s.seen.timeSpent \in Nat
      /\ now.blocksSent \in Nat /\ now.timeSpent \in Nat
      /\ later.blocksSent \in Nat /\ later.timeSpent \in Nat
  BY DEF SenderState, CursorState
<1>2. PICK blocks \in Int : blocks = s.sums.blocksSent - (s.to - s.from + 1)
  BY AccountingAssumption DEF SenderState, SumsState
<1>3. PICK delta \in Int : delta = (s.at - s.seen.lastCommitAt) \div TicksPerSecond
  BY AccountingAssumption DEF SenderState, CursorState
<1>4. PICK time \in Int : time = s.sums.timeSpent - delta
  BY DEF SenderState, SumsState
<1>5. s.pc \in Committing =>
        s.seen.blocksSent <= now.blocksSent /\ s.seen.timeSpent <= now.timeSpent
  BY DEF Reads
<1>6. s.pc = "write" =>
        /\ s.sums.position = s.to
        /\ s.seen.blocksSent <= blocks /\ blocks <= now.blocksSent
        /\ s.seen.timeSpent <= time /\ time <= now.timeSpent
  BY <1>2, <1>3, <1>4 DEF Reads
<1>7. s.pc \in Committing =>
        s.seen.blocksSent <= later.blocksSent /\ s.seen.timeSpent <= later.timeSpent
  BY <1>1, <1>5
<1>8. s.pc = "write" =>
        /\ s.sums.position = s.to
        /\ s.seen.blocksSent <= blocks /\ blocks <= later.blocksSent
        /\ s.seen.timeSpent <= time /\ time <= later.timeSpent
  BY <1>1, <1>6
<1> QED BY <1>2, <1>3, <1>4, <1>7, <1>8 DEF Reads

\* Who writes what the cursor has not been changed for adds its batch, and the whole seconds
\* since the commit before, to what is there.
LEMMA UnracedWrite ==
  ASSUME Typed, ReadsInv, NEW a \in Attempts, Write(a), ~ history'.raced
  PROVE  \E n \in Nat \ {0}, delta \in Nat :
           /\ ~ history.raced
           /\ n = senders[a].to - senders[a].from + 1
           /\ delta = (cursor.lastCommitAt - senders[a].seen.lastCommitAt) \div TicksPerSecond
           /\ senders[a].seen.lastCommitAt <= cursor.lastCommitAt
           /\ senders[a].seen.blocksSent = cursor.blocksSent
           /\ senders[a].seen.timeSpent = cursor.timeSpent
           /\ cursor'.position = senders[a].to
           /\ cursor'.blocksSent = cursor.blocksSent + n
           /\ cursor'.timeSpent = cursor.timeSpent + delta
           /\ cursor'.lastCommitAt = cursor.lastCommitAt
           /\ history'.commits = history.commits + 1
<1>1. PICK s \in SenderState : s = senders[a]
  BY DEF Typed, Records
<1>2. /\ s.pc = "write" /\ ~ history.raced
      /\ cursor.blocksSent = s.seen.blocksSent /\ cursor.timeSpent = s.seen.timeSpent
      /\ cursor.lastCommitAt = s.at
      /\ cursor'.position = s.sums.position /\ cursor'.blocksSent = s.sums.blocksSent
      /\ cursor'.timeSpent = s.sums.timeSpent /\ cursor'.lastCommitAt = cursor.lastCommitAt
      /\ history'.commits = history.commits + 1
  BY <1>1, WriteEffect
<1>3. PICK n \in Nat \ {0} : n = s.to - s.from + 1
  BY <1>1, <1>2, BatchFields DEF Busy
<1>4. PICK delta \in Nat : delta = (s.at - s.seen.lastCommitAt) \div TicksPerSecond
  BY <1>1, <1>2, PayloadFields DEF Committing
<1>5. s.seen.lastCommitAt <= s.at
  BY <1>1, <1>2 DEF Typed, Timely, Committing
<1>6. /\ s.sums.position = s.to
      /\ s.seen.blocksSent <= s.sums.blocksSent - n
      /\ s.sums.blocksSent - n <= cursor.blocksSent
      /\ s.seen.timeSpent <= s.sums.timeSpent - delta
      /\ s.sums.timeSpent - delta <= cursor.timeSpent
  BY <1>1, <1>2, <1>3, <1>4 DEF ReadsInv, Reads
<1>7. PICK blocks \in Nat : blocks = s.sums.blocksSent
  BY DEF SenderState, SumsState
<1>8. PICK time \in Nat : time = s.sums.timeSpent
  BY DEF SenderState, SumsState
<1>9. PICK b \in Nat : b = cursor.blocksSent
  BY DEF Typed, Records, CursorState
<1>10. PICK t \in Nat : t = cursor.timeSpent
  BY DEF Typed, Records, CursorState
<1>11. blocks = b + n /\ time = t + delta
  BY <1>2, <1>6, <1>7, <1>8, <1>9, <1>10
<1> QED BY <1>1, <1>2, <1>3, <1>4, <1>5, <1>6, <1>7, <1>8, <1>9, <1>10, <1>11

\* Only a write can race, and is counted for one.
LEMMA RacedByWriting ==
  ASSUME Typed, NEW a \in Attempts, SenderStep(a), ~ history'.raced
  PROVE  /\ ~ history.raced /\ history'.born = history.born
         /\ senders[a].pc # "write" => history'.commits = history.commits
<1>1. CASE Take(a)
  BY <1>1, TakeEffect DEF LeftOut
<1>2. CASE SendFails(a)
  BY <1>2, SendFailsEffect DEF LeftOut
<1>3. CASE CommitBegins(a)
  BY <1>3, CommitBeginsEffect DEF LeftOut
<1>4. CASE UpdateFails(a)
  BY <1>4, UpdateFailsEffect DEF LeftOut
<1>5. CASE Leave(a) \/ SendSucceeds(a) \/ Retry(a) \/ UpdateAnswered(a)
  BY <1>5, LeaveEffect, SendSucceedsEffect, RetryEffect, UpdateAnsweredEffect
<1>6. CASE Report(a)
  BY <1>6, ReportEffect
<1>7. CASE ReadSums(a)
  BY <1>7, ReadSumsEffect
<1>8. CASE Write(a)
  BY <1>8, WriteEffect
<1>9. CASE Count(a)
  BY <1>9, CountEffect
<1> QED BY <1>1, <1>2, <1>3, <1>4, <1>5, <1>6, <1>7, <1>8, <1>9 DEF SenderStep

\* A step of a sender that races with nobody does not put the cursor behind what
\* another one has read of it.
LEMMA SenderKeepsReads ==
  ASSUME Typed, Typed', ReadsInv, NEW a \in Attempts, SenderStep(a), ~ history'.raced
  PROVE  ReadsInv'
<1>1. PICK s \in SenderState : s = senders[a]
  BY DEF Typed, Records
<1>2. PICK t \in SenderState : t = senders'[a]
  BY DEF Typed, Records
<1>3. PICK c \in CursorState : c = cursor
  BY DEF Typed, Records
<1>4. PICK d \in CursorState : d = cursor'
  BY DEF Typed, Records
<1>5. Reads(s, c)
  BY <1>1, <1>3 DEF ReadsInv
<1>6. Moves(a)
  BY SenderStepKeeps
<1>7. c.blocksSent \in Nat /\ c.timeSpent \in Nat
  BY <1>3 DEF CursorState
<1>10. ASSUME Reads(t, d), c.blocksSent <= d.blocksSent, c.timeSpent <= d.timeSpent
       PROVE  ReadsInv'
  <2>1. ASSUME NEW b \in Attempts PROVE Reads(senders'[b], d)
    <3>1. CASE b = a
      BY <1>2, <1>10, <3>1
    <3>2. CASE b # a
      <4>1. senders'[b] = senders[b] /\ senders[b] \in SenderState /\ Reads(senders[b], c)
        BY <1>3, <1>6, <3>2 DEF Moves, Typed, Records, ReadsInv
      <4> QED BY <1>10, <4>1, ReadsStay
    <3> QED BY <3>1, <3>2
  <2> QED BY <1>4, <2>1 DEF ReadsInv
<1>11. ASSUME t.pc \notin Committing, cursor' = cursor PROVE ReadsInv'
  <2>1. Reads(t, d)
    BY <1>11 DEF Reads, Committing
  <2> QED BY <1>3, <1>4, <1>7, <1>10, <1>11, <2>1
<1>12. CASE Take(a)
  BY <1>2, <1>11, <1>12, TakeEffect DEF Committing
<1>13. CASE Leave(a)
  BY <1>2, <1>11, <1>13, LeaveEffect DEF Committing
<1>14. CASE SendSucceeds(a)
  BY <1>2, <1>11, <1>14, SendSucceedsEffect DEF Committing
<1>15. CASE SendFails(a)
  BY <1>2, <1>11, <1>15, SendFailsEffect DEF Committing
<1>16. CASE Retry(a)
  BY <1>2, <1>11, <1>16, RetryEffect DEF Committing
<1>17. CASE Report(a)
  <2>1. t.pc = "take" /\ UNCHANGED cursor
    BY <1>2, <1>17, ReportEffect
  <2> QED BY <1>11, <2>1 DEF Committing
<1>18. CASE CommitBegins(a)
  <2>1. /\ UNCHANGED cursor /\ t.pc \in {"uncommitted", "update"}
        /\ t.pc = "update" => t.seen = c
    BY <1>2, <1>3, <1>18, CommitBeginsEffect
  <2>2. Reads(t, d)
    BY <1>3, <1>4, <1>7, <2>1 DEF Reads, Committing
  <2> QED BY <1>3, <1>4, <1>7, <1>10, <2>1, <2>2
<1>19. CASE UpdateAnswered(a)
  <2>1. /\ UNCHANGED cursor /\ s.pc = "update" /\ t.pc = "store"
        /\ t.seen = s.seen
    BY <1>1, <1>2, <1>19, UpdateAnsweredEffect
  <2>2. Reads(t, d)
    BY <1>3, <1>4, <1>5, <2>1 DEF Reads, Committing
  <2> QED BY <1>3, <1>4, <1>7, <1>10, <2>1, <2>2
<1>20. CASE UpdateFails(a)
  BY <1>2, <1>11, <1>20, UpdateFailsEffect DEF Committing
<1>21. CASE ReadSums(a)
  <2>1. s.pc = "store"
    BY <1>1, <1>21, ReadSumsEffect
  <2>2. PICK n \in Nat : n = s.to - s.from + 1
    BY <1>1, <2>1, BatchFields DEF Busy
  <2>3. PICK delta \in Nat :
          delta = TimeDelta(a) /\ delta = (s.at - s.seen.lastCommitAt) \div TicksPerSecond
    BY <1>1, <2>1, PayloadFields DEF Committing
  <2>4. /\ t.pc = "write" /\ t.from = s.from /\ t.to = s.to /\ t.at = s.at /\ t.seen = s.seen
        /\ t.sums.position = s.to /\ t.sums.blocksSent = c.blocksSent + n
        /\ t.sums.timeSpent = c.timeSpent + delta
        /\ d.blocksSent = c.blocksSent /\ d.timeSpent = c.timeSpent
    BY <1>1, <1>2, <1>3, <1>4, <1>21, <2>2, <2>3, ReadSumsEffect
  <2>5. s.seen.blocksSent <= c.blocksSent /\ s.seen.timeSpent <= c.timeSpent
    BY <1>5, <2>1 DEF Reads, Committing
  <2>6. /\ t.sums.blocksSent - (t.to - t.from + 1) = c.blocksSent
        /\ t.sums.timeSpent - (t.at - t.seen.lastCommitAt) \div TicksPerSecond = c.timeSpent
    BY <1>7, <2>2, <2>3, <2>4
  <2>7. Reads(t, d)
    BY <1>7, <2>4, <2>5, <2>6 DEF Reads
  <2> QED BY <1>7, <1>10, <2>4, <2>7
<1>22. CASE Write(a)
  <2>1. PICK n \in Nat \ {0}, delta \in Nat :
          /\ cursor'.blocksSent = cursor.blocksSent + n
          /\ cursor'.timeSpent = cursor.timeSpent + delta
    BY <1>22, UnracedWrite
  <2>2. t.pc = "count"
    BY <1>2, <1>22, WriteEffect
  <2>3. Reads(t, d)
    BY <2>2 DEF Reads, Committing
  <2>4. d.blocksSent = c.blocksSent + n /\ d.timeSpent = c.timeSpent + delta
    BY <1>3, <1>4, <2>1
  <2> QED BY <1>7, <1>10, <2>3, <2>4
<1>23. CASE Count(a)
  <2>1. t.pc = "take" /\ UNCHANGED cursor
    BY <1>2, <1>23, CountEffect
  <2> QED BY <1>11, <2>1 DEF Committing
<1> QED
  BY <1>12, <1>13, <1>14, <1>15, <1>16, <1>17, <1>18, <1>19, <1>20, <1>21, <1>22,
     <1>23 DEF SenderStep

\* Neither the rest of the pipeline nor a restart races, and who starts again has nothing
\* read.
LEMMA RestKeepsReads ==
  ASSUME Typed, Typed', ReadsInv,
         PipelineFails \/ RunnerTakes \/ RunnerRetries \/ LatePatch \/ Restart \/ Tick
           \/ UNCHANGED vars
  PROVE  ReadsInv' /\ history'.raced = history.raced
<1>1. CASE PipelineFails \/ RunnerTakes \/ LatePatch \/ Tick \/ UNCHANGED vars
  <2>1. UNCHANGED <<cursor, senders, history>>
    BY <1>1 DEF PipelineFails, RunnerTakes, LatePatch, Tick, vars
  <2> QED BY <2>1 DEF ReadsInv
<1>2. CASE RunnerRetries
  <2>1. PICK next \in Attempts :
          /\ Moves(next) /\ senders[next].pc = "idle"
          /\ senders'[next] = senders[next] \/ senders'[next].pc = "take"
          /\ UNCHANGED <<cursor, history>>
    BY <1>2, RunnerRetriesEffect
  <2>2. ASSUME NEW b \in Attempts PROVE Reads(senders'[b], cursor)
    <3>1. CASE b = next
      BY <2>1, <3>1 DEF Reads, Committing
    <3>2. CASE b # next
      BY <2>1, <3>2 DEF Moves, ReadsInv
    <3> QED BY <3>1, <3>2
  <2> QED BY <2>1, <2>2 DEF ReadsInv
<1>3. CASE Restart
  <2>1. PICK c \in CursorState : c = cursor'
    BY DEF Typed, Records
  <2>2. /\ history'.raced = history.raced
        /\ \A a \in Attempts : senders'[a].pc \in {"take", "idle"}
    BY <1>3, <2>1, RestartEffect
  <2>3. \A a \in Attempts : Reads(senders'[a], c)
    BY <2>2 DEF Reads, Committing
  <2> QED BY <2>1, <2>2, <2>3 DEF ReadsInv
<1> QED BY <1>1, <1>2, <1>3

-----------------------------------------------------------------------------

\* What a sender has written to the cursor and not to the counters.
Unraised(s) == IF s.pc = "count" THEN s.to - s.from + 1 ELSE 0

UnraisedOf(all) == [a \in Attempts |-> Unraised(all[a])]

\* Until a store has been raced, what the cursor has counted is what it had when the process
\* started, what the metrics have counted since, and what they are about to count.
CountersInv ==
  \E total \in [0 .. MaxAttempts -> Int] :
    /\ IsTotal(total, UnraisedOf(senders))
    /\ cursor.blocksSent = history.born.blocksSent + metrics.blocksSent + total[MaxAttempts]

\* What is not raised yet is a number of blocks.
LEMMA UnraisedType ==
  /\ Typed => /\ UnraisedOf(senders) \in [Attempts -> Nat]
              /\ \A a \in Attempts : UnraisedOf(senders)[a] = Unraised(senders[a])
  /\ Typed' => /\ UnraisedOf(senders') \in [Attempts -> Nat]
               /\ \A a \in Attempts : UnraisedOf(senders')[a] = Unraised(senders'[a])
<1>1. ASSUME NEW s \in SenderState, NEW attempts, Batched(s, attempts)
      PROVE  Unraised(s) \in Nat
  <2>1. s.pc = "count" => s.from <= s.to
    BY <1>1 DEF Batched, Busy
  <2>2. s.from \in Nat /\ s.to \in Nat
    BY AccountingAssumption DEF SenderState
  <2> QED BY <2>1, <2>2 DEF Unraised
<1>2. ASSUME Typed PROVE \A a \in Attempts : Unraised(senders[a]) \in Nat
  BY <1>1, <1>2 DEF Typed, Records
<1>3. ASSUME Typed' PROVE \A a \in Attempts : Unraised(senders'[a]) \in Nat
  BY <1>1, <1>3 DEF Typed, Records
<1> QED BY <1>2, <1>3 DEF UnraisedOf

\* A step of one sender keeps the counters when what the cursor gains is raised, or about to
\* be.
LEMMA CountersKeep ==
  ASSUME Typed, Typed', CountersInv, NEW a \in Attempts, Moves(a),
         history'.born = history.born,
         cursor'.blocksSent - cursor.blocksSent
           = (metrics'.blocksSent - metrics.blocksSent)
               + (Unraised(senders'[a]) - Unraised(senders[a]))
  PROVE  CountersInv'
<1>1. PICK total \in [0 .. MaxAttempts -> Int] :
        /\ IsTotal(total, UnraisedOf(senders))
        /\ cursor.blocksSent = history.born.blocksSent + metrics.blocksSent + total[MaxAttempts]
  BY DEF CountersInv
<1>2. PICK now \in [Attempts -> Nat] : /\ now = UnraisedOf(senders)
                                       /\ \A b \in Attempts : now[b] = Unraised(senders[b])
  BY UnraisedType
<1>3. PICK later \in [Attempts -> Nat] :
        /\ later = UnraisedOf(senders')
        /\ \A b \in Attempts : later[b] = Unraised(senders'[b])
  BY UnraisedType
<1>4. PICK old \in Nat : old = Unraised(senders[a]) /\ old = now[a]
  BY <1>2
<1>5. PICK new \in Nat : new = Unraised(senders'[a]) /\ new = later[a]
  BY <1>3
<1>6. PICK sum \in Int : sum = total[MaxAttempts]
  BY AccountingAssumption
<1>7. PICK shifted \in [0 .. MaxAttempts -> Int] :
        IsTotal(shifted, UnraisedOf(senders')) /\ shifted[MaxAttempts] = sum - old + new
  <2>1. now \in [Attempts -> Int] /\ later \in [Attempts -> Int]
    OBVIOUS
  <2>2. \A b \in Attempts \ {a} : later[b] = now[b]
    BY <1>2, <1>3 DEF Moves
  <2>3. IsTotal(total, now)
    BY <1>1, <1>2
  <2>4. \E shifted \in [0 .. MaxAttempts -> Int] :
          /\ IsTotal(shifted, later)
          /\ shifted[MaxAttempts] = total[MaxAttempts] - now[a] + later[a]
    BY ONLY <2>1, <2>2, <2>3, TotalShifts, ZenonT(60), a \in Attempts,
            total \in [0 .. MaxAttempts -> Int]
  <2> QED BY <1>3, <1>4, <1>5, <1>6, <2>4
<1>8. PICK c \in Nat, d \in Nat : c = cursor.blocksSent /\ d = cursor'.blocksSent
  BY DEF Typed, Records, CursorState
<1>9. PICK m \in Nat, k \in Nat : m = metrics.blocksSent /\ k = metrics'.blocksSent
  BY DEF Typed, Records, MetricsState
<1>10. PICK born \in Nat : born = history.born.blocksSent /\ born = history'.born.blocksSent
  BY DEF Typed, Records, HistoryState, CursorState
<1>11. c = born + m + sum
  BY <1>1, <1>6, <1>8, <1>9, <1>10
<1>12. d - c = (k - m) + (new - old)
  BY <1>4, <1>5, <1>8, <1>9
<1>13. d = born + k + (sum - old + new)
  BY <1>11, <1>12
<1> QED BY <1>7, <1>8, <1>9, <1>10, <1>13 DEF CountersInv

\* A sender that races with nobody raises the counters by what it has written.
LEMMA SenderKeepsCounters ==
  ASSUME Typed, Typed', ReadsInv, CountersInv, NEW a \in Attempts, SenderStep(a),
         ~ history'.raced
  PROVE  CountersInv'
<1>1. PICK s \in SenderState : s = senders[a]
  BY DEF Typed, Records
<1>2. PICK t \in SenderState : t = senders'[a]
  BY DEF Typed, Records
<1>3. Moves(a) /\ history'.born = history.born
  BY SenderStepKeeps, RacedByWriting
<1>4. PICK c \in Nat : c = cursor.blocksSent
  BY DEF Typed, Records, CursorState
<1>5. PICK m \in Nat : m = metrics.blocksSent
  BY DEF Typed, Records, MetricsState
<1>6. ASSUME s.pc # "count", t.pc # "count", cursor'.blocksSent = c, metrics'.blocksSent = m
      PROVE  CountersInv'
  <2>1. Unraised(senders[a]) = 0 /\ Unraised(senders'[a]) = 0
    BY <1>1, <1>2, <1>6 DEF Unraised
  <2>2. c - c = (m - m) + (0 - 0)
    OBVIOUS
  <2> QED BY <1>3, <1>4, <1>5, <1>6, <2>1, <2>2, CountersKeep
<1>7. CASE Take(a)
  BY <1>1, <1>2, <1>4, <1>5, <1>6, <1>7, TakeEffect
<1>8. CASE Leave(a)
  BY <1>1, <1>2, <1>4, <1>5, <1>6, <1>8, LeaveEffect
<1>9. CASE SendSucceeds(a)
  BY <1>1, <1>2, <1>4, <1>5, <1>6, <1>9, SendSucceedsEffect
<1>10. CASE SendFails(a)
  <2>1. s.pc = "send" /\ t.pc \in {"sleep", "exhausted"} /\ UNCHANGED cursor
    BY <1>1, <1>2, <1>10, SendFailsEffect
  <2>2. metrics'.blocksSent = m + 0
    BY <1>5, <1>10, SendFailsEffect DEF Raised
  <2> QED BY <1>4, <1>6, <2>1, <2>2
<1>11. CASE Retry(a)
  <2>1. s.pc = "sleep" /\ t.pc = "send" /\ UNCHANGED cursor
    BY <1>1, <1>2, <1>11, RetryEffect
  <2>2. metrics'.blocksSent = m + 0
    BY <1>5, <1>11, RetryEffect DEF Raised
  <2> QED BY <1>4, <1>6, <2>1, <2>2
<1>12. CASE Report(a)
  <2>1. s.pc \in {"exhausted", "uncommitted"}
    BY <1>1, <1>12, ReportEffect
  <2>2. t.pc = "take" /\ UNCHANGED <<metrics, cursor>>
    BY <1>2, <1>12, ReportEffect
  <2> QED BY <1>4, <1>5, <1>6, <2>1, <2>2
<1>13. CASE CommitBegins(a)
  BY <1>1, <1>2, <1>4, <1>5, <1>6, <1>13, CommitBeginsEffect
<1>14. CASE UpdateAnswered(a)
  BY <1>1, <1>2, <1>4, <1>5, <1>6, <1>14, UpdateAnsweredEffect
<1>15. CASE UpdateFails(a)
  BY <1>1, <1>2, <1>4, <1>5, <1>6, <1>15, UpdateFailsEffect
<1>16. CASE ReadSums(a)
  BY <1>1, <1>2, <1>4, <1>5, <1>6, <1>16, ReadSumsEffect
<1>17. CASE Write(a)
  <2>1. PICK n \in Nat \ {0} :
          n = s.to - s.from + 1 /\ cursor'.blocksSent = cursor.blocksSent + n
    BY <1>1, <1>17, UnracedWrite
  <2>2. /\ s.pc = "write" /\ t.pc = "count" /\ t.from = s.from /\ t.to = s.to
        /\ UNCHANGED metrics
    BY <1>1, <1>2, <1>17, WriteEffect
  <2>3. Unraised(senders[a]) = 0 /\ Unraised(senders'[a]) = n
    BY <1>1, <1>2, <2>1, <2>2 DEF Unraised
  <2>4. cursor'.blocksSent = c + n /\ metrics'.blocksSent = m
    BY <1>4, <1>5, <2>1, <2>2
  <2>5. (c + n) - c = (m - m) + (n - 0)
    OBVIOUS
  <2> QED BY <1>3, <1>4, <1>5, <2>3, <2>4, <2>5, CountersKeep
<1>18. CASE Count(a)
  <2>1. s.pc = "count" /\ UNCHANGED cursor
    BY <1>1, <1>18, CountEffect
  <2>2. t.pc = "take"
    BY <1>2, <1>18, CountEffect
  <2>3. PICK n \in Nat : n = s.to - s.from + 1
    BY <1>1, <2>1, BatchFields DEF Busy
  <2>4. metrics'.blocksSent = m + n
    BY <1>1, <1>5, <1>18, <2>3, CountEffect DEF Raised
  <2>5. Unraised(senders[a]) = n /\ Unraised(senders'[a]) = 0
    BY <1>1, <1>2, <2>1, <2>2, <2>3 DEF Unraised
  <2>6. c - c = ((m + n) - m) + (0 - n)
    OBVIOUS
  <2> QED BY <1>3, <1>4, <1>5, <2>1, <2>4, <2>5, <2>6, CountersKeep
<1> QED
  BY <1>7, <1>8, <1>9, <1>10, <1>11, <1>12, <1>13, <1>14, <1>15, <1>16, <1>17, <1>18
     DEF SenderStep

\* Nothing else counts; a process that starts has counted nothing.
LEMMA RestKeepsCounters ==
  ASSUME Typed, Typed', CountersInv,
         PipelineFails \/ RunnerTakes \/ RunnerRetries \/ LatePatch \/ Restart \/ Tick
           \/ UNCHANGED vars
  PROVE  CountersInv'
<1>1. CASE PipelineFails \/ RunnerTakes \/ LatePatch \/ Tick \/ UNCHANGED vars
  <2>1. UNCHANGED <<cursor, senders, metrics, history>>
    BY <1>1 DEF PipelineFails, RunnerTakes, LatePatch, Tick, vars
  <2> QED BY <2>1 DEF CountersInv
<1>2. CASE RunnerRetries
  <2>1. PICK next \in Attempts :
          /\ Moves(next) /\ senders[next].pc = "idle"
          /\ senders'[next] = senders[next] \/ senders'[next].pc = "take"
          /\ UNCHANGED <<cursor, metrics, history>>
    BY <1>2, RunnerRetriesEffect
  <2>2. Unraised(senders[next]) = 0 /\ Unraised(senders'[next]) = 0
    BY <2>1 DEF Unraised
  <2>3. PICK c \in Nat : c = cursor.blocksSent /\ c = cursor'.blocksSent
    BY <2>1 DEF Typed, Records, CursorState
  <2>4. PICK m \in Nat : m = metrics.blocksSent /\ m = metrics'.blocksSent
    BY <2>1 DEF Typed, Records, MetricsState
  <2>5. c - c = (m - m) + (0 - 0)
    OBVIOUS
  <2> QED BY <2>1, <2>2, <2>3, <2>4, <2>5, CountersKeep
<1>3. CASE Restart
  <2>1. PICK later : later = senders'
    OBVIOUS
  <2>2. \A a \in Attempts : later[a].pc \in {"take", "idle"}
    BY <1>3, <2>1, RestartEffect
  <2>3. \A a \in Attempts : UnraisedOf(later)[a] = 0
    BY <2>2 DEF UnraisedOf, Unraised
  <2>4. PICK total \in [0 .. MaxAttempts -> Int] :
          IsTotal(total, UnraisedOf(later)) /\ total[MaxAttempts] = 0
    BY <2>3, TotalOfNothing
  <2>5. PICK c \in CursorState : c = cursor'
    BY DEF Typed, Records
  <2>6. history'.born = c /\ metrics'.blocksSent = 0
    BY <1>3, <2>5, RestartEffect
  <2>7. c.blocksSent = c.blocksSent + 0 + 0
    BY DEF CursorState
  <2> QED BY <2>1, <2>4, <2>5, <2>6, <2>7 DEF CountersInv
<1> QED BY <1>1, <1>2, <1>3

\* What Init is.
LEMMA InitFields ==
  ASSUME Init
  PROVE  /\ cursor = history.born /\ cursor \in CursorState /\ cursor.position = 0
         /\ cursor.blocksSent = 0 /\ cursor.timeSpent = 0 /\ cursor.lastCommitAt = 0
         /\ manager.position = 0 /\ manager.blocksSent = 0 /\ patches = {}
         /\ metrics.blocksSent = 0 /\ metrics.batchesSent = 0 /\ metrics.errors = 0
         /\ metrics.retries = 0 /\ history.givenUp = 0 /\ history.commits = 0
         /\ \A a \in Attempts : senders[a].pc \in {"take", "idle"}
         /\ \A a \in Attempts : senders[a].pc = "take" => senders[a].from = 1
<1>1. Sums \in SumsState /\ 0 \in Nat
  BY RecordTypes, AccountingAssumption DEF Sums, SumsState
<1>2. Sums.position = 0 /\ Sums.blocksSent = 0 /\ Sums.timeSpent = 0
  BY DEF Sums
<1>3. PICK c \in CursorState :
        /\ c = WithCommitAt(Sums, 0) /\ c.position = 0 /\ c.blocksSent = 0
        /\ c.timeSpent = 0 /\ c.lastCommitAt = 0
  BY <1>1, <1>2, RecordTypes
<1>4. /\ cursor = c /\ history.born = c /\ history.givenUp = 0 /\ manager = Sums /\ patches = {}
      /\ history.commits = 0
  BY <1>3 DEF Init
<1>5. /\ metrics.blocksSent = 0 /\ metrics.batchesSent = 0 /\ metrics.errors = 0
      /\ metrics.retries = 0
  BY DEF Init, Counters
<1>6. PICK all : /\ all = senders
                 /\ all = [a \in Attempts |-> IF a = 1 THEN BeginAttempt(Sums) ELSE Idle]
  BY DEF Init
<1>7. /\ \A a \in Attempts : all[a].pc \in {"take", "idle"}
      /\ \A a \in Attempts : all[a].pc = "take" => all[a].from = 0 + 1
  BY <1>1, <1>2, <1>6, StartedFields
<1> QED BY <1>2, <1>3, <1>4, <1>5, <1>6, <1>7

\* So it stays until two senders have written at once.
LEMMA ReadsHold == Spec => [](~ history.raced => ReadsInv)
<1>1. Init => ReadsInv
  <2> SUFFICES ASSUME Init PROVE ReadsInv
    OBVIOUS
  <2>1. \A a \in Attempts : Reads(senders[a], cursor)
    BY InitFields DEF Reads, Committing
  <2> QED BY <2>1 DEF ReadsInv
<1>2. Typed /\ Typed' /\ (~ history.raced => ReadsInv) /\ [Next]_vars
        => (~ history.raced => ReadsInv)'
  <2> SUFFICES ASSUME Typed, Typed', ~ history.raced => ReadsInv, [Next]_vars, ~ history'.raced
               PROVE  ReadsInv'
    OBVIOUS
  <2>1. ASSUME NEW a \in Attempts, SenderStep(a) PROVE ReadsInv'
    BY <2>1, RacedByWriting, SenderKeepsReads
  <2>2. CASE PipelineFails \/ RunnerTakes \/ RunnerRetries \/ LatePatch \/ Restart \/ Tick
               \/ UNCHANGED vars
    <3>1. history'.raced = history.raced
      <4>1. CASE Restart
        BY <4>1, RestartEffect
      <4>2. CASE RunnerRetries
        BY <4>2, RunnerRetriesEffect
      <4>3. CASE PipelineFails \/ RunnerTakes \/ LatePatch \/ Tick \/ UNCHANGED vars
        BY <4>3 DEF PipelineFails, RunnerTakes, LatePatch, Tick, vars
      <4> QED BY <2>2, <4>1, <4>2, <4>3
    <3> QED BY <2>2, <3>1, RestKeepsReads
  <2> QED BY <2>1, <2>2 DEF Next
<1> QED BY <1>1, <1>2, TypedHolds, PTL DEF Spec

\* Whether two senders have written at once is told by the sender steps alone.
LEMMA RacedBefore ==
  ASSUME Typed, [Next]_vars, ~ history'.raced
  PROVE  ~ history.raced
<1>1. ASSUME NEW a \in Attempts, SenderStep(a) PROVE ~ history.raced
  BY <1>1, RacedByWriting
<1>2. CASE Restart
  BY <1>2, RestartEffect
<1>3. CASE RunnerRetries
  BY <1>3, RunnerRetriesEffect
<1>4. CASE PipelineFails \/ RunnerTakes \/ LatePatch \/ Tick \/ UNCHANGED vars
  BY <1>4 DEF PipelineFails, RunnerTakes, LatePatch, Tick, vars
<1> QED BY <1>1, <1>2, <1>3, <1>4 DEF Next

\* The counters are right until two senders have written at once.
LEMMA CountersHold == Spec => [](~ history.raced => CountersInv)
<1>1. Init => CountersInv
  <2> SUFFICES ASSUME Init PROVE CountersInv
    OBVIOUS
  <2>1. \A a \in Attempts : UnraisedOf(senders)[a] = 0
    BY InitFields DEF UnraisedOf, Unraised
  <2>2. PICK total \in [0 .. MaxAttempts -> Int] :
          IsTotal(total, UnraisedOf(senders)) /\ total[MaxAttempts] = 0
    BY <2>1, TotalOfNothing
  <2>3. cursor.blocksSent = history.born.blocksSent + metrics.blocksSent + 0
    BY InitFields
  <2> QED BY <2>2, <2>3 DEF CountersInv
<1>2. /\ Typed /\ Typed' /\ (~ history.raced => ReadsInv) /\ (~ history.raced => CountersInv)
      /\ [Next]_vars
      => (~ history.raced => CountersInv)'
  <2> SUFFICES ASSUME Typed, Typed', ~ history.raced => ReadsInv,
                      ~ history.raced => CountersInv, [Next]_vars, ~ history'.raced
               PROVE  CountersInv'
    OBVIOUS
  <2>1. ReadsInv /\ CountersInv
    BY RacedBefore
  <2>2. ASSUME NEW a \in Attempts, SenderStep(a) PROVE CountersInv'
    BY <2>1, <2>2, SenderKeepsCounters
  <2> QED BY <2>1, <2>2, RestKeepsCounters DEF Next
<1> QED BY <1>1, <1>2, TypedHolds, ReadsHold, PTL DEF Spec

\* When no sender is between the cursor and the counters, and until two senders have written
\* at once, the metrics tell of the blocks that the cursor has gained since the process
\* started; and always each failed send is accounted for by a retry, by a
\* sender that sleeps before one, or by a batch that is given up.
THEOREM MetricsTellTheSame == Spec => []MetricsAgree
<1>1. Init => SleepInv
  <2> SUFFICES ASSUME Init PROVE SleepInv
    OBVIOUS
  <2>1. Sleeping = {}
    BY InitFields DEF Sleeping
  <2>2. Cardinality(Sleeping) = 0
    BY <2>1, FS_EmptySet
  <2> QED BY <2>2, InitFields DEF SleepInv
<1>2. Typed /\ SleepInv /\ [Next]_vars => SleepInv'
  <2> SUFFICES ASSUME Typed, SleepInv, [Next]_vars PROVE SleepInv'
    OBVIOUS
  <2>1. ASSUME NEW a \in Attempts, SenderStep(a) PROVE SleepInv'
    BY <2>1, SenderKeepsSleep
  <2> QED BY <2>1, RestKeepsSleep DEF Next
<1>3. Typed /\ SleepInv /\ (~ history.raced => CountersInv) => MetricsAgree
  <2> SUFFICES ASSUME Typed, SleepInv, ~ history.raced => CountersInv PROVE MetricsAgree
    OBVIOUS
  <2>1. ASSUME ~ history.raced, \A a \in Attempts : senders[a].pc # "count"
        PROVE  cursor.blocksSent = history.born.blocksSent + metrics.blocksSent
    <3>1. PICK total \in [0 .. MaxAttempts -> Int] :
            /\ IsTotal(total, UnraisedOf(senders))
            /\ cursor.blocksSent
                 = history.born.blocksSent + metrics.blocksSent + total[MaxAttempts]
      BY <2>1 DEF CountersInv
    <3>2. \A a \in Attempts : UnraisedOf(senders)[a] = 0
      BY <2>1 DEF UnraisedOf, Unraised
    <3>3. total[MaxAttempts] = 0
      BY <3>1, <3>2, NothingInTotal
    <3>4. history.born.blocksSent \in Nat /\ metrics.blocksSent \in Nat
      BY DEF Typed, Records, HistoryState, CursorState, MetricsState
    <3> QED BY <3>1, <3>3, <3>4
  <2> QED BY <2>1 DEF SleepInv, Sleeping, MetricsAgree
<1> QED BY <1>1, <1>2, <1>3, TypedHolds, CountersHold, PTL DEF Spec

-----------------------------------------------------------------------------
(***************************************************************************)
(* The cursor passes nothing without counting it.                          *)
(***************************************************************************)

\* With these blocks uncounted, a cursor at p that counts n blocks passes none unaccounted.
Accounts(uncounted, p, n) == p <= n + Cardinality(uncounted \cap (1 .. p))

\* The batch of a sender begins behind blocks that are accounted for, by the cursor and by
\* what it saw of it; one that is not committed is left uncounted, one that has been written
\* is accounted for itself.
Begins(s, uncounted, blocks) ==
  /\ s.pc \notin {"idle", "ended"} => Accounts(uncounted, s.from - 1, blocks)
  /\ s.pc \in Committing => Accounts(uncounted, s.from - 1, s.seen.blocksSent)
  /\ s.pc \in {"exhausted", "uncommitted"} => s.from .. s.to \subseteq uncounted
  /\ s.pc = "count" => Accounts(uncounted, s.to, blocks)

AccountInv ==
  /\ Accounts(history.uncounted, manager.position, manager.blocksSent)
  /\ \A patch \in patches : Accounts(history.uncounted, patch.position, patch.blocksSent)
  /\ Accounts(history.uncounted, cursor.position, cursor.blocksSent)
  /\ \A a \in Attempts : Begins(senders[a], history.uncounted, cursor.blocksSent)

\* How many blocks are uncounted only grows, with the blocks and with the position.
LEMMA UncountedGrows ==
  ASSUME NEW U \in SUBSET (1 .. Last), NEW V \in SUBSET (1 .. Last), U \subseteq V,
         NEW p \in Nat, NEW q \in Nat, p <= q
  PROVE  /\ Cardinality(U \cap (1 .. p)) \in Nat /\ Cardinality(V \cap (1 .. q)) \in Nat
         /\ Cardinality(U \cap (1 .. p)) <= Cardinality(V \cap (1 .. q))
<1>1. IsFiniteSet(1 .. q)
  BY FS_Interval
<1>2. IsFiniteSet(V \cap (1 .. q))
  BY <1>1, FS_Subset
<1>3. U \cap (1 .. p) \in SUBSET (V \cap (1 .. q))
  OBVIOUS
<1> QED BY <1>2, <1>3, FS_Subset, FS_CardinalityType

\* Blocks that are all uncounted account for themselves.
LEMMA UncountedRun ==
  ASSUME NEW U \in SUBSET (1 .. Last), NEW from \in Nat \ {0}, NEW to \in Nat, from <= to,
         from .. to \subseteq U
  PROVE  Cardinality(U \cap (1 .. to))
           = Cardinality(U \cap (1 .. from - 1)) + (to - from + 1)
<1> DEFINE E == {k \in 0 .. to - from + 1 :
                   Cardinality(U \cap (1 .. from - 1 + k))
                     = Cardinality(U \cap (1 .. from - 1)) + k}
<1>1. \A p \in Nat : IsFiniteSet(U \cap (1 .. p)) /\ Cardinality(U \cap (1 .. p)) \in Nat
  <2> SUFFICES ASSUME NEW p \in Nat
               PROVE  IsFiniteSet(U \cap (1 .. p)) /\ Cardinality(U \cap (1 .. p)) \in Nat
    OBVIOUS
  <2>1. IsFiniteSet(1 .. p)
    BY FS_Interval
  <2> QED BY <2>1, FS_Subset, FS_CardinalityType
<1>2. 0 \in E
  <2>1. from - 1 + 0 = from - 1 /\ from - 1 \in Nat
    OBVIOUS
  <2>2. PICK n \in Nat : n = Cardinality(U \cap (1 .. from - 1))
    BY <1>1, <2>1
  <2>3. n = n + 0 /\ 0 \in 0 .. to - from + 1
    OBVIOUS
  <2> QED BY <2>1, <2>2, <2>3
<1>3. ASSUME NEW i \in 0 .. (to - from + 1) - 1, i \in E PROVE i + 1 \in E
  <2>1. PICK p \in Nat : p = from - 1 + i
    OBVIOUS
  <2>2. p + 1 \in from .. to /\ from - 1 + (i + 1) = p + 1 /\ i + 1 \in 0 .. to - from + 1
    BY <2>1
  <2>3. p + 1 \in U
    BY <2>2
  <2>4. U \cap (1 .. p + 1) = (U \cap (1 .. p)) \cup {p + 1} /\ p + 1 \notin U \cap (1 .. p)
    BY <2>3
  <2>5. Cardinality(U \cap (1 .. p + 1)) = Cardinality(U \cap (1 .. p)) + 1
    <3>1. PICK S : S = U \cap (1 .. p)
      OBVIOUS
    <3>2. IsFiniteSet(S) /\ U \cap (1 .. p + 1) = S \cup {p + 1} /\ p + 1 \notin S
      BY <1>1, <2>4, <3>1
    <3>3. Cardinality(S \cup {p + 1}) = Cardinality(S) + 1
      BY <3>2, FS_AddElement
    <3> QED BY <3>1, <3>2, <3>3
  <2>6. PICK n \in Nat : n = Cardinality(U \cap (1 .. from - 1))
    <3>1. from - 1 \in Nat
      OBVIOUS
    <3> QED BY <1>1, <3>1
  <2>7. Cardinality(U \cap (1 .. p)) = n + i
    BY <1>3, <2>1, <2>6
  <2>8. n + i + 1 = n + (i + 1)
    OBVIOUS
  <2> QED BY <2>2, <2>5, <2>6, <2>7, <2>8
<1> HIDE DEF E
<1>4. \A i \in 0 .. to - from + 1 : i \in E
  BY <1>2, <1>3, UpTo
<1>5. to - from + 1 \in E /\ from - 1 + (to - from + 1) = to
  BY <1>4
<1> QED BY <1>5 DEF E

\* What is accounted for stays so.
LEMMA AccountsStay ==
  ASSUME NEW U \in SUBSET (1 .. Last), NEW V \in SUBSET (1 .. Last), U \subseteq V,
         NEW n \in Nat, NEW m \in Nat, n <= m, NEW p \in Nat, Accounts(U, p, n)
  PROVE  Accounts(V, p, m)
<1>1. p <= p /\ U \subseteq U /\ V \subseteq V
  OBVIOUS
<1>2. PICK u \in Nat : u = Cardinality(U \cap (1 .. p))
  BY <1>1, UncountedGrows
<1>3. PICK v \in Nat : v = Cardinality(V \cap (1 .. p))
  BY <1>1, UncountedGrows
<1>4. u <= v
  BY <1>1, <1>2, <1>3, UncountedGrows
<1> QED BY <1>2, <1>3, <1>4 DEF Accounts

\* A batch that is counted accounts for itself, and so does one that is uncounted.
LEMMA AccountsBatch ==
  ASSUME NEW U \in SUBSET (1 .. Last), NEW n \in Nat,
         NEW from \in Nat \ {0}, NEW to \in Nat, from <= to, Accounts(U, from - 1, n)
  PROVE  /\ Accounts(U, to, n + (to - from + 1))
         /\ from .. to \subseteq U => Accounts(U, to, n)
<1>1. from - 1 \in Nat /\ from - 1 <= to /\ from - 1 <= from - 1 /\ to <= to /\ U \subseteq U
  OBVIOUS
<1>2. PICK u \in Nat : u = Cardinality(U \cap (1 .. from - 1))
  BY <1>1, UncountedGrows
<1>3. PICK v \in Nat : v = Cardinality(U \cap (1 .. to))
  BY <1>1, UncountedGrows
<1>4. u <= v
  BY <1>1, <1>2, <1>3, UncountedGrows
<1>5. from - 1 <= n + u
  BY <1>2 DEF Accounts
<1>6. from .. to \subseteq U => v = u + (to - from + 1)
  BY <1>2, <1>3, UncountedRun
<1>7. to <= (n + (to - from + 1)) + v
  BY <1>4, <1>5
<1>8. from .. to \subseteq U => to <= n + v
  BY <1>5, <1>6
<1> QED BY <1>3, <1>7, <1>8 DEF Accounts

\* A sender that stays where it is stays accounted for.
LEMMA BeginsStay ==
  ASSUME NEW U \in SUBSET (1 .. Last), NEW V \in SUBSET (1 .. Last), U \subseteq V,
         NEW n \in Nat, NEW m \in Nat, n <= m, NEW s \in SenderState, Begins(s, U, n)
  PROVE  Begins(s, V, m)
<1>1. PICK p \in Nat : p = s.from - 1
  BY AccountingAssumption DEF SenderState
<1>2. PICK seen \in Nat : seen = s.seen.blocksSent
  BY DEF SenderState, CursorState
<1>3. Accounts(U, p, n) => Accounts(V, p, m)
  BY AccountsStay
<1>4. Accounts(U, p, seen) => Accounts(V, p, seen)
  <2>1. seen <= seen
    OBVIOUS
  <2> QED BY <2>1, AccountsStay
<1>5. PICK to \in Nat : to = s.to
  BY AccountingAssumption DEF SenderState
<1>6. Accounts(U, to, n) => Accounts(V, to, m)
  BY AccountsStay
<1> QED BY <1>1, <1>2, <1>3, <1>4, <1>5, <1>6 DEF Begins

\* A step of one sender keeps the account when that sender, and what it tells, keeps to it.
LEMMA AccountKeeps ==
  ASSUME Typed, Typed', AccountInv, NEW a \in Attempts, Moves(a),
         NEW U, U = history.uncounted, NEW V, V = history'.uncounted, U \subseteq V,
         NEW n, n = cursor.blocksSent, NEW m, m = cursor'.blocksSent, n <= m,
         Begins(senders'[a], V, m),
         Accounts(V, cursor'.position, m),
         manager' = manager \/ Accounts(V, manager'.position, manager'.blocksSent),
         \A patch \in patches' \ patches : Accounts(V, patch.position, patch.blocksSent)
  PROVE  AccountInv'
<1>1. /\ U \in SUBSET (1 .. Last) /\ V \in SUBSET (1 .. Last) /\ n \in Nat /\ m \in Nat
  BY DEF Typed, Records, HistoryState, CursorState
<1>2. ASSUME NEW sums \in SumsState, Accounts(U, sums.position, sums.blocksSent)
      PROVE  Accounts(V, sums.position, sums.blocksSent)
  <2>1. PICK p \in Nat : p = sums.position
    BY AccountingAssumption DEF SumsState
  <2>2. PICK k \in Nat : k = sums.blocksSent
    BY DEF SumsState
  <2>3. k <= k
    OBVIOUS
  <2> QED BY <1>1, <1>2, <2>1, <2>2, <2>3, AccountsStay
<1>3. Accounts(V, manager'.position, manager'.blocksSent)
  BY <1>2 DEF AccountInv, Typed, Records
<1>4. ASSUME NEW patch \in patches' PROVE Accounts(V, patch.position, patch.blocksSent)
  BY <1>2 DEF AccountInv, Typed, Records
<1>5. ASSUME NEW b \in Attempts PROVE Begins(senders'[b], V, m)
  <2>1. CASE b = a
    BY <2>1
  <2>2. CASE b # a
    <3>1. senders'[b] = senders[b] /\ senders[b] \in SenderState /\ Begins(senders[b], U, n)
      BY <2>2 DEF Moves, Typed, Records, AccountInv
    <3> QED BY <1>1, <3>1, BeginsStay
  <2> QED BY <2>1, <2>2
<1> QED BY <1>3, <1>4, <1>5 DEF AccountInv

\* A step of a sender that races with nobody passes no block uncounted.
LEMMA SenderKeepsAccount ==
  ASSUME Typed, Typed', ReadsInv, AccountInv, NEW a \in Attempts, SenderStep(a),
         ~ history'.raced
  PROVE  AccountInv'
<1>1. PICK s \in SenderState : s = senders[a]
  BY DEF Typed, Records
<1>2. PICK t \in SenderState : t = senders'[a]
  BY DEF Typed, Records
<1>3. PICK U \in SUBSET (1 .. Last) : U = history.uncounted
  BY DEF Typed, Records, HistoryState
<1>4. PICK V \in SUBSET (1 .. Last) : V = history'.uncounted
  BY DEF Typed, Records, HistoryState
<1>5. PICK n \in Nat : n = cursor.blocksSent
  BY DEF Typed, Records, CursorState
<1>6. PICK p \in Nat : p = cursor.position
  BY AccountingAssumption DEF Typed, Records, CursorState
<1>7. PICK from \in Nat \ {0} : from = s.from
  BY AccountingAssumption DEF SenderState
<1>8. PICK to \in Nat : to = s.to
  BY AccountingAssumption DEF SenderState
<1>9. Begins(s, U, n) /\ Accounts(U, p, n)
  BY <1>1, <1>3, <1>5, <1>6 DEF AccountInv
<1>10. Moves(a)
  BY SenderStepKeeps
<1>11. n <= n
  OBVIOUS
<1>12. s.pc \in Busy => from <= to
  BY <1>1, <1>7, <1>8 DEF Typed, Batched
<1>13. ASSUME U \subseteq V, cursor'.blocksSent = n, cursor'.position = p, Begins(t, V, n),
              manager' = manager \/ Accounts(V, manager'.position, manager'.blocksSent),
              \A patch \in patches' \ patches : Accounts(V, patch.position, patch.blocksSent)
       PROVE  AccountInv'
  <2>1. Accounts(V, p, n)
    BY <1>9, <1>11, <1>13, AccountsStay
  <2> QED BY <1>2, <1>3, <1>4, <1>5, <1>10, <1>11, <1>13, <2>1, AccountKeeps
<1>14. ASSUME U \subseteq V, t.from = s.from, s.pc \notin {"idle", "ended"},
              t.pc \notin Committing, t.pc # "count",
              t.pc \in {"exhausted", "uncommitted"} => t.from .. t.to \subseteq V,
              UNCHANGED <<cursor, manager, patches>>
       PROVE  AccountInv'
  <2>1. Accounts(U, s.from - 1, n)
    BY <1>9, <1>14 DEF Begins
  <2>2. PICK q \in Nat : q = from - 1
    OBVIOUS
  <2>3. Accounts(V, q, n)
    BY <1>7, <1>11, <1>14, <2>1, <2>2, AccountsStay
  <2>4. Begins(t, V, n)
    BY <1>7, <1>14, <2>2, <2>3 DEF Begins
  <2> QED BY <1>5, <1>6, <1>13, <1>14, <2>4
<1>15. CASE Take(a)
  <2>1. /\ s.pc = "take" /\ t.from = s.from /\ t.pc \in {"send", "exhausted"}
        /\ UNCHANGED <<cursor, manager, patches>>
    BY <1>1, <1>2, <1>15, TakeEffect
  <2>2. U \subseteq V /\ (t.pc = "exhausted" => t.from .. t.to \subseteq V)
    BY <1>2, <1>3, <1>4, <1>15, TakeEffect DEF LeftOut
  <2> QED BY <1>14, <2>1, <2>2 DEF Committing
<1>16. CASE Leave(a)
  <2>1. t.pc = "ended" /\ UNCHANGED <<cursor, manager, patches, history>>
    BY <1>2, <1>16, LeaveEffect
  <2>2. Begins(t, V, n)
    BY <2>1 DEF Begins, Committing
  <2> QED BY <1>3, <1>4, <1>5, <1>6, <1>13, <2>1, <2>2
<1>17. CASE SendSucceeds(a)
  <2>1. /\ s.pc = "send" /\ t.pc = "commit" /\ t.from = s.from /\ V = U
        /\ UNCHANGED <<cursor, manager, patches>>
    BY <1>1, <1>2, <1>3, <1>4, <1>17, SendSucceedsEffect
  <2> QED BY <1>14, <2>1 DEF Committing
<1>18. CASE SendFails(a)
  <2>1. /\ s.pc = "send" /\ t.pc \in {"sleep", "exhausted"} /\ t.from = s.from /\ t.to = s.to
        /\ UNCHANGED <<cursor, manager, patches>>
    BY <1>1, <1>2, <1>18, SendFailsEffect
  <2>2. U \subseteq V /\ (t.pc = "exhausted" => s.from .. s.to \subseteq V)
    BY <1>1, <1>2, <1>3, <1>4, <1>18, SendFailsEffect, BatchFields DEF LeftOut
  <2> QED BY <1>14, <2>1, <2>2 DEF Committing
<1>19. CASE Retry(a)
  <2>1. /\ s.pc = "sleep" /\ t.pc = "send" /\ t.from = s.from /\ V = U
        /\ UNCHANGED <<cursor, manager, patches>>
    BY <1>1, <1>2, <1>3, <1>4, <1>19, RetryEffect
  <2> QED BY <1>14, <2>1 DEF Committing
<1>20. CASE Report(a)
  <2>1. /\ s.pc \in {"exhausted", "uncommitted"} /\ t.pc = "take" /\ t.from = to + 1 /\ V = U
        /\ UNCHANGED <<cursor, manager, patches>>
    <3>1. s.pc \in {"exhausted", "uncommitted"}
      BY <1>1, <1>20, ReportEffect
    <3>2. t.pc = "take" /\ t.from = to + 1 /\ UNCHANGED <<cursor, manager, patches, history>>
      BY <1>1, <1>2, <1>8, <1>20, ReportEffect
    <3> QED BY <1>3, <1>4, <3>1, <3>2
  <2>2. from <= to /\ from .. to \subseteq U /\ Accounts(U, from - 1, n)
    BY <1>7, <1>8, <1>9, <1>12, <2>1 DEF Begins, Busy
  <2>3. Accounts(U, to, n)
    BY <1>11, <2>2, AccountsBatch
  <2>4. t.from - 1 = to
    BY <2>1
  <2>5. Begins(t, V, n)
    BY <2>1, <2>3, <2>4 DEF Begins, Committing
  <2> QED BY <1>5, <1>6, <1>13, <2>1, <2>5
<1>21. CASE CommitBegins(a)
  <2>1. /\ s.pc = "commit" /\ t.from = s.from /\ t.to = s.to
        /\ t.pc \in {"uncommitted", "update"}
        /\ UNCHANGED <<cursor, manager, patches>>
    BY <1>1, <1>2, <1>21, CommitBeginsEffect
  <2>2. CASE t.pc = "uncommitted"
    <3>1. U \subseteq V /\ s.from .. s.to \subseteq V
      BY <1>1, <1>2, <1>3, <1>4, <1>21, <2>2, CommitBeginsEffect, BatchFields DEF LeftOut
    <3> QED BY <1>14, <2>1, <2>2, <3>1 DEF Committing
  <2>3. CASE t.pc = "update"
    <3>1. t.seen.blocksSent = n /\ V = U
      BY <1>2, <1>3, <1>4, <1>5, <1>21, <2>3, CommitBeginsEffect
    <3>2. Accounts(U, s.from - 1, n)
      BY <1>9, <2>1 DEF Begins
    <3>3. Begins(t, V, n)
      BY <2>1, <2>3, <3>1, <3>2 DEF Begins
    <3> QED BY <1>5, <1>6, <1>13, <2>1, <3>1, <3>3
  <2> QED BY <2>1, <2>2, <2>3
<1>22. CASE UpdateAnswered(a) \/ UpdateFails(a)
  <2>1. PICK seen \in Nat : seen = s.seen.blocksSent
    BY DEF SenderState, CursorState
  <2>2. s.pc = "update"
    BY <1>1, <1>22, UpdateAnsweredEffect, UpdateFailsEffect
  <2>3. PICK patch : patch = NewUpdateCursorPayload(a)
    OBVIOUS
  <2>4. patch.position = to /\ patch.blocksSent = seen + (to - from + 1)
    BY <1>1, <1>7, <1>8, <2>1, <2>2, <2>3, PayloadFields DEF Committing
  <2>5. from <= to /\ Accounts(U, from - 1, seen) /\ Accounts(U, from - 1, n)
    BY <1>7, <1>9, <1>12, <2>1, <2>2 DEF Begins, Committing, Busy
  <2>6. PICK k \in Nat : k = seen + (to - from + 1)
    BY <2>5
  <2>7. Accounts(U, to, k)
    BY <2>5, <2>6, AccountsBatch
  <2>8. k <= k /\ seen <= seen
    OBVIOUS
  <2>9. CASE UpdateAnswered(a)
    <3>1. /\ t.pc = "store" /\ t.from = s.from /\ t.seen = s.seen /\ V = U
          /\ manager' = patch /\ UNCHANGED <<cursor, patches>>
      BY <1>1, <1>2, <1>3, <1>4, <2>3, <2>9, UpdateAnsweredEffect
    <3>2. Begins(t, V, n)
      BY <1>7, <2>1, <2>5, <3>1 DEF Begins
    <3>3. Accounts(V, manager'.position, manager'.blocksSent)
      BY <2>4, <2>6, <2>7, <3>1
    <3> QED BY <1>5, <1>6, <1>13, <3>1, <3>2, <3>3
  <2>10. CASE UpdateFails(a)
    <3>1. /\ t.pc = "uncommitted" /\ t.from = s.from /\ t.to = s.to
          /\ manager' \in {manager, patch} /\ patches' \subseteq patches \cup {patch}
          /\ UNCHANGED cursor
      BY <1>1, <1>2, <2>3, <2>10, UpdateFailsEffect
    <3>2. U \subseteq V /\ s.from .. s.to \subseteq V
      BY <1>1, <1>3, <1>4, <2>10, UpdateFailsEffect, BatchFields DEF LeftOut
    <3>3. Accounts(V, to, k)
      BY <2>7, <2>8, <3>2, AccountsStay
    <3>4. from - 1 \in Nat
      OBVIOUS
    <3>5. Accounts(V, from - 1, n)
      BY <1>11, <2>5, <3>2, <3>4, AccountsStay
    <3>6. Begins(t, V, n)
      BY <1>7, <3>1, <3>2, <3>5 DEF Begins, Committing
    <3>7. manager' = manager \/ Accounts(V, manager'.position, manager'.blocksSent)
      BY <2>4, <2>6, <3>1, <3>3
    <3>8. \A q \in patches' \ patches : Accounts(V, q.position, q.blocksSent)
      BY <2>4, <2>6, <3>1, <3>3
    <3> QED BY <1>5, <1>6, <1>13, <3>1, <3>2, <3>6, <3>7, <3>8
  <2> QED BY <1>22, <2>9, <2>10
<1>23. CASE ReadSums(a)
  <2>1. /\ s.pc = "store" /\ t.pc = "write" /\ t.from = s.from /\ t.seen = s.seen /\ V = U
        /\ cursor'.position = p /\ cursor'.blocksSent = n /\ UNCHANGED <<manager, patches>>
    BY <1>1, <1>2, <1>3, <1>4, <1>5, <1>6, <1>23, ReadSumsEffect
  <2>2. Begins(t, V, n)
    BY <1>9, <2>1 DEF Begins, Committing
  <2> QED BY <1>13, <2>1, <2>2
<1>24. CASE Write(a)
  <2>1. PICK k \in Nat \ {0} :
          /\ k = to - from + 1
          /\ cursor'.position = to /\ cursor'.blocksSent = n + k
    BY <1>1, <1>5, <1>7, <1>8, <1>24, UnracedWrite
  <2>2. /\ s.pc = "write" /\ t.pc = "count" /\ t.from = from /\ t.to = to /\ V = U
        /\ UNCHANGED <<manager, patches>>
    BY <1>1, <1>2, <1>3, <1>4, <1>7, <1>8, <1>24, WriteEffect
  <2>3. from <= to /\ Accounts(U, from - 1, n)
    BY <1>7, <1>9, <1>12, <2>2 DEF Begins, Busy
  <2>4. PICK m \in Nat : m = n + k /\ n <= m
    OBVIOUS
  <2>5. Accounts(V, to, m)
    BY <1>11, <2>1, <2>2, <2>3, <2>4, AccountsBatch
  <2>6. Accounts(V, from - 1, m)
    <3>1. from - 1 \in Nat /\ U \subseteq V
      BY <2>2
    <3> QED BY <2>3, <2>4, <3>1, AccountsStay
  <2>7. Begins(t, V, m)
    BY <2>2, <2>5, <2>6 DEF Begins, Committing
  <2> QED BY <1>2, <1>3, <1>4, <1>5, <1>10, <2>1, <2>2, <2>4, <2>5, <2>7, AccountKeeps
<1>25. CASE Count(a)
  <2>1. s.pc = "count" /\ V = U /\ UNCHANGED <<cursor, manager, patches>>
    BY <1>1, <1>3, <1>4, <1>25, CountEffect
  <2>2. t.pc = "take" /\ t.from = to + 1
    BY <1>1, <1>2, <1>8, <1>25, CountEffect
  <2>3. Accounts(U, to, n)
    BY <1>8, <1>9, <2>1 DEF Begins
  <2>4. t.from - 1 = to
    BY <2>2
  <2>5. Begins(t, V, n)
    BY <2>1, <2>2, <2>3, <2>4 DEF Begins, Committing
  <2> QED BY <1>5, <1>6, <1>13, <2>1, <2>5
<1> QED
  BY <1>15, <1>16, <1>17, <1>18, <1>19, <1>20, <1>21, <1>22, <1>23, <1>24,
     <1>25 DEF SenderStep

\* What a sender in Commit tells the state manager is accounted for.
LEMMA PayloadAccounted ==
  ASSUME Typed, AccountInv, NEW a \in Attempts, senders[a].pc \in Committing,
         NEW patch, patch = NewUpdateCursorPayload(a)
  PROVE  Accounts(history.uncounted, patch.position, patch.blocksSent)
<1>1. PICK s \in SenderState : s = senders[a]
  BY DEF Typed, Records
<1>2. PICK U \in SUBSET (1 .. Last) : U = history.uncounted
  BY DEF Typed, Records, HistoryState
<1>3. PICK from \in Nat \ {0} : from = s.from
  BY AccountingAssumption DEF SenderState
<1>4. PICK to \in Nat : to = s.to
  BY AccountingAssumption DEF SenderState
<1>5. PICK seen \in Nat : seen = s.seen.blocksSent
  BY DEF SenderState, CursorState
<1>6. from <= to
  BY <1>1, <1>3, <1>4 DEF Typed, Batched, Busy, Committing
<1>7. Accounts(U, from - 1, seen)
  BY <1>1, <1>2, <1>3, <1>5 DEF AccountInv, Begins
<1>8. Accounts(U, to, seen + (to - from + 1))
  BY <1>6, <1>7, AccountsBatch
<1>9. patch.position = to /\ patch.blocksSent = seen + (to - from + 1)
  BY <1>1, <1>3, <1>4, <1>5, PayloadFields
<1> QED BY <1>2, <1>8, <1>9

\* Nor does anything else: a new attempt begins behind the cursor, a new process behind what
\* the state manager has.
LEMMA RestKeepsAccount ==
  ASSUME Typed, Typed', AccountInv,
         PipelineFails \/ RunnerTakes \/ RunnerRetries \/ LatePatch \/ Restart \/ Tick
           \/ UNCHANGED vars
  PROVE  AccountInv'
<1>1. CASE PipelineFails \/ RunnerTakes \/ Tick \/ UNCHANGED vars
  <2>1. UNCHANGED <<cursor, manager, patches, senders, history>>
    BY <1>1 DEF PipelineFails, RunnerTakes, Tick, vars
  <2> QED BY <2>1 DEF AccountInv
<1>2. CASE LatePatch
  <2>1. manager' \in patches /\ patches' \subseteq patches
        /\ UNCHANGED <<cursor, senders, history>>
    BY <1>2 DEF LatePatch
  <2> QED BY <2>1 DEF AccountInv
<1>3. CASE RunnerRetries
  <2>1. PICK next \in Attempts :
          /\ Moves(next)
          /\ \/ senders'[next] = senders[next]
             \/ senders'[next].pc = "take" /\ senders'[next].from = cursor.position + 1
          /\ UNCHANGED <<cursor, manager, patches, history>>
    BY <1>3, RunnerRetriesEffect
  <2>2. PICK U \in SUBSET (1 .. Last) : U = history.uncounted
    BY DEF Typed, Records, HistoryState
  <2>3. PICK n \in Nat : n = cursor.blocksSent
    BY DEF Typed, Records, CursorState
  <2>4. PICK p \in Nat : p = cursor.position
    BY AccountingAssumption DEF Typed, Records, CursorState
  <2>5. Accounts(U, p, n)
    BY <2>2, <2>3, <2>4 DEF AccountInv
  <2>6. p + 1 - 1 = p
    OBVIOUS
  <2>7. Begins(senders'[next], U, n)
    <3>1. CASE senders'[next] = senders[next]
      BY <2>2, <2>3, <3>1 DEF AccountInv
    <3>2. CASE senders'[next].pc = "take" /\ senders'[next].from = p + 1
      BY <2>5, <2>6, <3>2 DEF Begins, Committing
    <3> QED BY <2>1, <2>4, <3>1, <3>2
  <2>8. n <= n /\ U \subseteq U
    OBVIOUS
  <2> QED BY <2>1, <2>2, <2>3, <2>4, <2>5, <2>7, <2>8, AccountKeeps
<1>4. CASE Restart
  <2>1. PICK U \in SUBSET (1 .. Last) : U = history.uncounted /\ U = history'.uncounted
    BY <1>4, RestartEffect DEF Typed, Records, HistoryState
  <2>2. PICK n \in Nat : n = manager.blocksSent
    BY DEF Typed, Records, SumsState
  <2>3. PICK p \in Nat : p = manager.position
    BY AccountingAssumption DEF Typed, Records, SumsState
  <2>4. /\ manager' = manager /\ cursor'.position = p /\ cursor'.blocksSent = n
        /\ patches' = patches \cup
             {NewUpdateCursorPayload(a) : a \in {b \in Attempts : senders[b].pc = "update"}}
        /\ \A a \in Attempts : senders'[a].pc \in {"take", "idle"}
        /\ \A a \in Attempts : senders'[a].pc = "take" => senders'[a].from = p + 1
    BY <1>4, <2>2, <2>3, RestartEffect
  <2>5. Accounts(U, p, n)
    BY <2>1, <2>2, <2>3 DEF AccountInv
  <2>6. p + 1 - 1 = p
    OBVIOUS
  <2>7. ASSUME NEW patch \in patches' PROVE Accounts(U, patch.position, patch.blocksSent)
    <3>1. CASE patch \in patches
      BY <2>1, <3>1 DEF AccountInv
    <3>2. CASE patch \notin patches
      <4>1. PICK a \in Attempts :
              senders[a].pc = "update" /\ patch = NewUpdateCursorPayload(a)
        BY <2>4, <2>7, <3>2
      <4> QED BY <2>1, <4>1, PayloadAccounted DEF Committing
    <3> QED BY <3>1, <3>2
  <2>8. ASSUME NEW a \in Attempts PROVE Begins(senders'[a], U, n)
    <3>1. CASE senders'[a].pc = "take"
      BY <2>4, <2>5, <2>6, <3>1 DEF Begins, Committing
    <3>2. CASE senders'[a].pc = "idle"
      BY <3>2 DEF Begins, Committing
    <3> QED BY <2>4, <3>1, <3>2
  <2> QED BY <2>1, <2>2, <2>3, <2>4, <2>5, <2>7, <2>8 DEF AccountInv
<1> QED BY <1>1, <1>2, <1>3, <1>4

\* The account holds until two senders have written at once.
LEMMA AccountHolds == Spec => [](~ history.raced => AccountInv)
<1>1. Init => AccountInv
  <2> SUFFICES ASSUME Init PROVE AccountInv
    OBVIOUS
  <2>1. PICK U : U = history.uncounted
    OBVIOUS
  <2>2. U = {}
    BY <2>1 DEF Init
  <2>3. U \cap (1 .. 0) = {} /\ Cardinality(U \cap (1 .. 0)) = 0
    BY <2>2, FS_EmptySet
  <2>4. Accounts(U, 0, 0)
    BY <2>3 DEF Accounts
  <2>5. ASSUME NEW a \in Attempts PROVE Begins(senders[a], U, 0)
    <3>1. CASE senders[a].pc = "take"
      <4>1. senders[a].from = 1 /\ 1 - 1 = 0
        BY <3>1, InitFields
      <4> QED BY <2>4, <3>1, <4>1 DEF Begins, Committing
    <3>2. CASE senders[a].pc = "idle"
      BY <3>2 DEF Begins, Committing
    <3> QED BY <3>1, <3>2, InitFields
  <2> QED BY <2>1, <2>4, <2>5, InitFields DEF AccountInv
<1>2. /\ Typed /\ Typed' /\ (~ history.raced => ReadsInv) /\ (~ history.raced => AccountInv)
      /\ [Next]_vars
      => (~ history.raced => AccountInv)'
  <2> SUFFICES ASSUME Typed, Typed', ~ history.raced => ReadsInv,
                      ~ history.raced => AccountInv, [Next]_vars, ~ history'.raced
               PROVE  AccountInv'
    OBVIOUS
  <2>1. ReadsInv /\ AccountInv
    BY RacedBefore
  <2>2. ASSUME NEW a \in Attempts, SenderStep(a) PROVE AccountInv'
    BY <2>1, <2>2, SenderKeepsAccount
  <2> QED BY <2>1, <2>2, RestKeepsAccount DEF Next
<1> QED BY <1>1, <1>2, TypedHolds, ReadsHold, PTL DEF Spec

\* Until two senders have written at once, what the state manager has of the cursor passes no
\* block that it does not count, but those of batches that were given up or whose commit
\* failed.
THEOREM CursorCountsWhatItPasses == Spec => []CursorIsAccounted
<1>1. (~ history.raced => AccountInv) => CursorIsAccounted
  BY DEF AccountInv, Accounts, CursorIsAccounted
<1> QED BY <1>1, AccountHolds, PTL

-----------------------------------------------------------------------------
(***************************************************************************)
(* The time spent is the time since the process started.                   *)
(***************************************************************************)

\* A process that was born with a cursor has told the time up to its last commit, the n-th.
Told(born, time, commitAt, n) ==
  /\ TicksPerSecond * (time - born.timeSpent) <= commitAt - born.lastCommitAt
  /\ commitAt - born.lastCommitAt
       <= TicksPerSecond * (time - born.timeSpent) + (TicksPerSecond - 1) * n

NobodyWrites(others) == \A a \in others : senders[a].pc # "write"

\* A sender that will not find the cursor changed saw one that told the time; unless
\* somebody else writes, whom the cursor has then changed for.
Tells(a) ==
  /\ senders[a].pc \in Committing
  /\ senders[a].seen.blocksSent = cursor.blocksSent
  /\ NobodyWrites(Attempts \ {a})
  => Told(history.born, senders[a].seen.timeSpent, senders[a].seen.lastCommitAt,
          history.commits)

TimeInv ==
  /\ NobodyWrites(Attempts) =>
       Told(history.born, cursor.timeSpent, cursor.lastCommitAt, history.commits)
  /\ \A a \in Attempts : Tells(a)

\* The next commit tells the whole seconds that have passed since the last one.
LEMMA ToldStep ==
  ASSUME NEW born \in CursorState, NEW time \in Nat, NEW n \in Nat,
         NEW last \in Nat, NEW now \in Nat, last <= now,
         NEW delta \in Nat, delta = (now - last) \div TicksPerSecond,
         Told(born, time, last, n)
  PROVE  Told(born, time + delta, now, n + 1)
<1>1. PICK k \in Nat \ {0} : k = TicksPerSecond
  BY AccountingAssumption
<1>2. PICK b \in Nat : b = born.timeSpent
  BY DEF CursorState
<1>3. PICK first \in Nat : first = born.lastCommitAt
  BY DEF CursorState
<1>4. PICK d \in Nat : d = now - last
  OBVIOUS
<1>5. k * delta <= d /\ d <= k * delta + (k - 1)
  BY <1>1, <1>4
<1>6. PICK told \in Int : told = k * (time - b)
  OBVIOUS
<1>7. PICK lost \in Nat : lost = (k - 1) * n
  OBVIOUS
<1>8. PICK gained \in Nat : gained = k * delta
  OBVIOUS
<1>9. k * (time + delta - b) = told + gained
  <2>1. \A x, y \in Int : k * (x + y) = k * x + k * y
    OBVIOUS
  <2>2. time - b \in Int /\ delta \in Int /\ time + delta - b = (time - b) + delta
    OBVIOUS
  <2> QED BY <1>6, <1>8, <2>1, <2>2
<1>10. (k - 1) * (n + 1) = lost + (k - 1)
  <2>1. PICK j \in Nat : j = k - 1
    OBVIOUS
  <2>2. j * (n + 1) = j * n + j
    OBVIOUS
  <2> QED BY <1>7, <2>1, <2>2
<1>11. told <= last - first /\ last - first <= told + lost
  BY <1>1, <1>2, <1>3, <1>6, <1>7 DEF Told
<1>12. told + gained <= now - first
       /\ now - first <= (told + gained) + (lost + (k - 1))
  BY <1>4, <1>5, <1>8, <1>11
<1> QED BY <1>1, <1>2, <1>3, <1>9, <1>10, <1>12 DEF Told

\* Who starts has told the time.
LEMMA ToldAtFirst ==
  ASSUME NEW born \in CursorState
  PROVE  Told(born, born.timeSpent, born.lastCommitAt, 0)
<1>1. PICK k \in Nat \ {0} : k = TicksPerSecond
  BY AccountingAssumption
<1>2. PICK b \in Nat : b = born.timeSpent
  BY DEF CursorState
<1>3. PICK first \in Nat : first = born.lastCommitAt
  BY DEF CursorState
<1>4. PICK told \in Int : told = k * (b - b) /\ told = 0
  OBVIOUS
<1>5. PICK lost \in Int : lost = (k - 1) * 0 /\ lost = 0
  OBVIOUS
<1>6. told <= first - first /\ first - first <= told + lost
  BY <1>4, <1>5
<1> QED BY ONLY <1>1, <1>2, <1>3, <1>4, <1>5, <1>6 DEF Told

\* What changes neither the cursor nor who writes keeps the time told.
LEMMA TimeKeeps ==
  ASSUME Typed, TimeInv, NEW a \in Attempts, Moves(a),
         UNCHANGED cursor, history'.commits = history.commits,
         history'.born = history.born,
         senders[a].pc # "write", senders'[a].pc # "write", Tells(a)'
  PROVE  TimeInv'
<1>1. \A b \in Attempts : senders'[b].pc # "write" <=> senders[b].pc # "write"
  BY DEF Moves
<1>2. PICK born : born = history.born /\ born = history'.born
  OBVIOUS
<1>3. PICK n : n = history.commits /\ n = history'.commits
  OBVIOUS
<1>4. ASSUME NEW b \in Attempts PROVE Tells(b)'
  <2>1. CASE b = a
    BY <2>1
  <2>2. CASE b # a
    <3>1. PICK s : s = senders[b] /\ s = senders'[b]
      BY <2>2 DEF Moves
    <3>2. NobodyWrites(Attempts \ {b})' => NobodyWrites(Attempts \ {b})
      BY <1>1 DEF NobodyWrites
    <3>3. Tells(b)
      BY DEF TimeInv
    <3>4. PICK c : c = cursor /\ c = cursor'
      OBVIOUS
    <3>5. ASSUME s.pc \in Committing, s.seen.blocksSent = c.blocksSent,
                 NobodyWrites(Attempts \ {b})'
          PROVE  Told(born, s.seen.timeSpent, s.seen.lastCommitAt, n)
      BY <1>2, <1>3, <3>1, <3>2, <3>3, <3>4, <3>5 DEF Tells
    <3> QED BY <1>2, <1>3, <3>1, <3>4, <3>5 DEF Tells
  <2> QED BY <2>1, <2>2
<1>5. NobodyWrites(Attempts)' => NobodyWrites(Attempts)
  BY <1>1 DEF NobodyWrites
<1>6. NobodyWrites(Attempts)' => Told(born, cursor'.timeSpent, cursor'.lastCommitAt, n)
  BY <1>2, <1>3, <1>5 DEF TimeInv
<1> QED BY <1>2, <1>3, <1>4, <1>6 DEF TimeInv

\* A step of a sender that races with nobody keeps the time told.
LEMMA SenderKeepsTime ==
  ASSUME Typed, Typed', ReadsInv, TimeInv, NEW a \in Attempts, SenderStep(a), ~ history'.raced
  PROVE  TimeInv'
<1>1. PICK s \in SenderState : s = senders[a]
  BY DEF Typed, Records
<1>2. PICK t \in SenderState : t = senders'[a]
  BY DEF Typed, Records
<1>3. Moves(a)
  BY SenderStepKeeps
<1>4. PICK born \in CursorState : born = history.born /\ born = history'.born
  BY RacedByWriting DEF Typed, Records, HistoryState
<1>5. PICK n \in Nat : n = history.commits
  BY DEF Typed, Records, HistoryState
<1>c. s.pc # "write" => history'.commits = n
  BY <1>1, <1>5, RacedByWriting
<1>6. NobodyWrites(Attempts \ {a})' => NobodyWrites(Attempts \ {a})
  BY <1>3 DEF Moves, NobodyWrites
<1>7. Tells(a)
  BY DEF TimeInv
<1>8. ASSUME cursor' = cursor, s.pc # "write", t.pc \notin Committing
      PROVE  TimeInv'
  <2>1. Tells(a)'
    BY <1>2, <1>8 DEF Tells
  <2>2. t.pc # "write" /\ history'.commits = n
    BY <1>c, <1>8 DEF Committing
  <2> QED BY <1>1, <1>2, <1>3, <1>4, <1>5, <1>8, <2>1, <2>2, TimeKeeps
<1>9. CASE Take(a)
  BY <1>1, <1>2, <1>8, <1>9, TakeEffect DEF Committing
<1>10. CASE Leave(a)
  BY <1>1, <1>2, <1>8, <1>10, LeaveEffect DEF Committing
<1>11. CASE SendSucceeds(a)
  BY <1>1, <1>2, <1>8, <1>11, SendSucceedsEffect DEF Committing
<1>12. CASE SendFails(a)
  <2>1. s.pc = "send" /\ t.pc \in {"sleep", "exhausted"} /\ UNCHANGED cursor
    BY <1>1, <1>2, <1>12, SendFailsEffect
  <2> QED BY <1>8, <2>1 DEF Committing
<1>13. CASE Retry(a)
  <2>1. s.pc = "sleep" /\ t.pc = "send" /\ UNCHANGED cursor
    BY <1>1, <1>2, <1>13, RetryEffect
  <2> QED BY <1>8, <2>1 DEF Committing
<1>14. CASE Report(a)
  <2>1. s.pc \in {"exhausted", "uncommitted"}
    BY <1>1, <1>14, ReportEffect
  <2>2. t.pc = "take" /\ UNCHANGED cursor
    BY <1>2, <1>14, ReportEffect
  <2> QED BY <1>8, <2>1, <2>2 DEF Committing
<1>15. CASE CommitBegins(a)
  <2>1. /\ UNCHANGED cursor /\ s.pc = "commit" /\ t.pc \in {"uncommitted", "update"}
        /\ t.pc = "update" => t.seen = cursor
    BY <1>1, <1>2, <1>15, CommitBeginsEffect
  <2>2. CASE t.pc = "uncommitted"
    BY <1>8, <2>1, <2>2 DEF Committing
  <2>3. CASE t.pc = "update"
    <3>1. NobodyWrites(Attempts \ {a}) => NobodyWrites(Attempts)
      BY <1>1, <2>1 DEF NobodyWrites
    <3>2. NobodyWrites(Attempts \ {a})' =>
            Told(born, t.seen.timeSpent, t.seen.lastCommitAt, n)
      BY <1>4, <1>5, <1>6, <2>1, <2>3, <3>1 DEF TimeInv
    <3>3. PICK m : m = history'.commits
      OBVIOUS
    <3>4. m = n
      BY <1>c, <2>1, <3>3
    <3>5. Tells(a)'
      BY <1>2, <1>4, <3>2, <3>3, <3>4 DEF Tells
    <3> QED BY <1>1, <1>2, <1>3, <1>4, <1>5, <2>1, <2>3, <3>3, <3>4, <3>5, TimeKeeps
  <2> QED BY <2>1, <2>2, <2>3
<1>16. CASE UpdateAnswered(a)
  <2>1. /\ UNCHANGED cursor /\ s.pc = "update" /\ t.pc = "store"
        /\ t.seen = s.seen
    BY <1>1, <1>2, <1>16, UpdateAnsweredEffect
  <2>2. ASSUME s.seen.blocksSent = cursor.blocksSent, NobodyWrites(Attempts \ {a})'
        PROVE  Told(born, s.seen.timeSpent, s.seen.lastCommitAt, n)
    BY <1>1, <1>4, <1>5, <1>6, <1>7, <2>1, <2>2 DEF Tells, Committing
  <2>3. PICK m : m = history'.commits
    OBVIOUS
  <2>4. m = n
    BY <1>c, <2>1, <2>3
  <2>5. PICK later : later = cursor'.blocksSent
    OBVIOUS
  <2>6. later = cursor.blocksSent
    BY <2>1, <2>5
  <2>7. Tells(a)'
    BY <1>2, <1>4, <2>1, <2>2, <2>3, <2>4, <2>5, <2>6 DEF Tells
  <2> QED BY <1>1, <1>2, <1>3, <1>4, <1>5, <2>1, <2>3, <2>4, <2>7, TimeKeeps
<1>17. CASE UpdateFails(a)
  BY <1>1, <1>2, <1>8, <1>17, UpdateFailsEffect DEF Committing
<1>18. CASE ReadSums(a)
  <2>1. /\ s.pc = "store" /\ t.pc = "write" /\ t.seen = s.seen
        /\ cursor'.blocksSent = cursor.blocksSent
    BY <1>1, <1>2, <1>18, ReadSumsEffect
  <2>2. ~ NobodyWrites(Attempts)'
    BY <1>2, <2>1 DEF NobodyWrites
  <2>3. ASSUME NEW b \in Attempts, b # a PROVE ~ NobodyWrites(Attempts \ {b})'
    <3>1. senders'[a].pc = "write" /\ a \in Attempts \ {b}
      BY <1>2, <2>1, <2>3
    <3> QED BY <3>1 DEF NobodyWrites
  <2>4. ASSUME s.seen.blocksSent = cursor.blocksSent, NobodyWrites(Attempts \ {a})'
        PROVE  Told(born, s.seen.timeSpent, s.seen.lastCommitAt, n)
    BY <1>1, <1>4, <1>5, <1>6, <1>7, <2>1, <2>4 DEF Tells, Committing
  <2>5. PICK m : m = history'.commits
    OBVIOUS
  <2>6. m = n
    BY <1>c, <2>1, <2>5
  <2>7. PICK later : later = cursor'.blocksSent
    OBVIOUS
  <2>8. later = cursor.blocksSent
    BY <2>1, <2>7
  <2>9. Tells(a)'
    BY <1>2, <1>4, <2>1, <2>4, <2>5, <2>6, <2>7, <2>8 DEF Tells
  <2>10. ASSUME NEW b \in Attempts PROVE Tells(b)'
    <3>1. CASE b = a
      BY <2>9, <3>1
    <3>2. CASE b # a
      BY <2>3, <3>2 DEF Tells
    <3> QED BY <3>1, <3>2
  <2> QED BY <2>2, <2>10 DEF TimeInv
<1>19. CASE Write(a)
  <2>1. PICK k \in Nat \ {0}, delta \in Nat :
          /\ delta = (cursor.lastCommitAt - s.seen.lastCommitAt) \div TicksPerSecond
          /\ s.seen.lastCommitAt <= cursor.lastCommitAt
          /\ s.seen.blocksSent = cursor.blocksSent
          /\ s.seen.timeSpent = cursor.timeSpent
          /\ cursor'.blocksSent = cursor.blocksSent + k
          /\ cursor'.timeSpent = cursor.timeSpent + delta
          /\ cursor'.lastCommitAt = cursor.lastCommitAt
          /\ history'.commits = n + 1
    BY <1>1, <1>5, <1>19, UnracedWrite
  <2>2. s.pc = "write" /\ t.pc = "count"
    BY <1>1, <1>2, <1>19, WriteEffect
  <2>3. PICK time \in Nat : time = s.seen.timeSpent
    BY DEF SenderState, CursorState
  <2>4. PICK last \in Nat : last = s.seen.lastCommitAt
    BY DEF SenderState, CursorState
  <2>5. PICK now \in Nat : now = cursor.lastCommitAt
    BY DEF Typed, Records, CursorState
  <2>6. PICK sent \in Nat : sent = cursor.blocksSent
    BY DEF Typed, Records, CursorState
  <2>7. ASSUME NobodyWrites(Attempts)'
        PROVE  Told(born, cursor'.timeSpent, cursor'.lastCommitAt, n + 1)
    <3>1. NobodyWrites(Attempts \ {a})
      BY <1>6, <2>7 DEF NobodyWrites
    <3>2. Told(born, time, last, n)
      BY <1>1, <1>4, <1>5, <1>7, <2>1, <2>2, <2>3, <2>4, <3>1 DEF Tells, Committing
    <3>3. delta = (now - last) \div TicksPerSecond /\ last <= now
      BY <2>1, <2>4, <2>5
    <3>4. Told(born, time + delta, now, n + 1)
      BY <3>2, <3>3, ToldStep
    <3>5. cursor'.timeSpent = time + delta /\ cursor'.lastCommitAt = now
      BY <2>1, <2>3, <2>5
    <3> QED BY <3>4, <3>5
  <2>8. ASSUME NEW b \in Attempts PROVE Tells(b)'
    <3>1. CASE b = a
      BY <1>2, <2>2, <3>1 DEF Tells, Committing
    <3>2. CASE b # a
      <4>1. PICK q \in SenderState : q = senders[b] /\ q = senders'[b]
        BY <1>3, <3>2 DEF Moves, Typed, Records
      <4>2. PICK seen \in Nat : seen = q.seen.blocksSent
        BY DEF SenderState, CursorState
      <4>3. q.pc \in Committing => seen <= sent
        BY <2>6, <4>1, <4>2 DEF ReadsInv, Reads
      <4>4. PICK later : later = cursor'.blocksSent
        OBVIOUS
      <4>5. later = sent + k
        BY <2>1, <2>6, <4>4
      <4>6. q.pc \in Committing => seen # later
        BY <4>3, <4>5
      <4> QED BY <4>1, <4>2, <4>4, <4>6 DEF Tells
    <3> QED BY <3>1, <3>2
  <2>9. PICK m : m = history'.commits /\ m = n + 1
    BY <2>1
  <2> QED BY <1>4, <2>7, <2>8, <2>9 DEF TimeInv
<1>20. CASE Count(a)
  <2>1. s.pc = "count" /\ UNCHANGED cursor
    BY <1>1, <1>20, CountEffect
  <2>2. t.pc = "take"
    BY <1>2, <1>20, CountEffect
  <2> QED BY <1>8, <2>1, <2>2 DEF Committing
<1> QED
  BY <1>9, <1>10, <1>11, <1>12, <1>13, <1>14, <1>15, <1>16, <1>17, <1>18, <1>19, <1>20
     DEF SenderStep

\* Time alone is not told before a commit, and a restart begins to tell anew.
LEMMA RestKeepsTime ==
  ASSUME Typed, Typed', TimeInv,
         PipelineFails \/ RunnerTakes \/ RunnerRetries \/ LatePatch \/ Restart \/ Tick
           \/ UNCHANGED vars
  PROVE  TimeInv'
<1>1. CASE PipelineFails \/ RunnerTakes \/ LatePatch \/ Tick \/ UNCHANGED vars
  <2>1. UNCHANGED <<cursor, senders, history>>
    BY <1>1 DEF PipelineFails, RunnerTakes, LatePatch, Tick, vars
  <2> QED BY <2>1 DEF TimeInv, Tells, NobodyWrites
<1>2. CASE RunnerRetries
  <2>1. PICK next \in Attempts :
          /\ Moves(next) /\ senders[next].pc = "idle"
          /\ senders'[next].pc \in {"idle", "take"}
          /\ UNCHANGED <<cursor, history>>
    BY <1>2, RunnerRetriesEffect
  <2>2. Tells(next)'
    BY <2>1 DEF Tells, Committing
  <2> QED BY <2>1, <2>2, TimeKeeps
<1>3. CASE Restart
  <2>1. PICK c \in CursorState : c = cursor'
    BY DEF Typed, Records
  <2>2. /\ history'.born = c /\ history'.commits = 0
        /\ \A a \in Attempts : senders'[a].pc \in {"take", "idle"}
    BY <1>3, <2>1, RestartEffect
  <2>3. Told(c, c.timeSpent, c.lastCommitAt, 0)
    BY ToldAtFirst
  <2>4. \A a \in Attempts : Tells(a)'
    BY <2>2 DEF Tells, Committing
  <2> QED BY <2>1, <2>2, <2>3, <2>4 DEF TimeInv
<1> QED BY <1>1, <1>2, <1>3

\* Until two senders have written at once, and while no sender is about to write, the time
\* spent is the time from the start of the process to the last commit, but for less than a
\* second of each commit.
THEOREM TimeIsTold == Spec => []TimeSpentIsReal
<1>1. Init => TimeInv
  <2> SUFFICES ASSUME Init PROVE TimeInv
    OBVIOUS
  <2>1. PICK c \in CursorState : c = cursor /\ c = history.born
    BY InitFields
  <2>2. Told(c, c.timeSpent, c.lastCommitAt, 0)
    BY ToldAtFirst
  <2>3. history.commits = 0 /\ \A a \in Attempts : Tells(a)
    BY InitFields DEF Tells, Committing
  <2> QED BY <2>1, <2>2, <2>3 DEF TimeInv
<1>2. /\ Typed /\ Typed' /\ (~ history.raced => ReadsInv) /\ (~ history.raced => TimeInv)
      /\ [Next]_vars
      => (~ history.raced => TimeInv)'
  <2> SUFFICES ASSUME Typed, Typed', ~ history.raced => ReadsInv,
                      ~ history.raced => TimeInv, [Next]_vars, ~ history'.raced
               PROVE  TimeInv'
    OBVIOUS
  <2>1. ReadsInv /\ TimeInv
    BY RacedBefore
  <2>2. ASSUME NEW a \in Attempts, SenderStep(a) PROVE TimeInv'
    BY <2>1, <2>2, SenderKeepsTime
  <2> QED BY <2>1, <2>2, RestKeepsTime DEF Next
<1>3. (~ history.raced => TimeInv) => TimeSpentIsReal
  BY DEF TimeInv, NobodyWrites, Told, TimeSpentIsReal
<1> QED BY <1>1, <1>2, <1>3, TypedHolds, ReadsHold, PTL DEF Spec
=============================================================================
