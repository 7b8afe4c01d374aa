------------------------------ MODULE Delivery ------------------------------
(***************************************************************************)
(* What the sink promises, without attempts, channels and goroutines.  The *)
(* blocks of a stream are settled one batch behind the other: delivered,   *)
(* or reported as not deliverable; what was settled may be delivered       *)
(* again.  The state manager is told of a position only when everything up *)
(* to it is settled, and may learn of it late; the sink takes over only    *)
(* what the state manager has confirmed; it says that the stream was       *)
(* processed only behind a block that ends it; and it resumes from what    *)
(* the state manager knows.                                                *)
(***************************************************************************)
EXTENDS Integers

CONSTANT Streams

VARIABLES
  stream,     \* its length, and the positions of the blocks that end it
  delivered,
  abandoned,  \* reported as not deliverable
  committed,  \* what the state manager knows
  confirmed,  \* what it has confirmed and the sink has yet to take over
  late,       \* updates still on their way, given up by the sink
  cursor,     \* what the sink knows
  outcome     \* what it has said at its end

vars == <<stream, delivered, abandoned, committed, confirmed, late, cursor, outcome>>

Settled == delivered \cup abandoned

SettledUpTo(p) == 1 .. p \subseteq Settled

Resumable == {p \in 1 .. stream.length : SettledUpTo(p)}

\* The batches that begin right behind what is settled.
NextBatches ==
  {first .. last : first \in {p \in 1 .. stream.length : SettledUpTo(p - 1)},
                   last \in 1 .. stream.length}

Init ==
  /\ stream \in Streams
  /\ delivered = {} /\ abandoned = {}
  /\ committed = 0 /\ confirmed = {} /\ late = {} /\ cursor = 0
  /\ outcome = "none"

Deliver ==
  /\ \E batch \in NextBatches : delivered' = delivered \cup batch
  /\ UNCHANGED <<stream, abandoned, committed, confirmed, late, cursor, outcome>>

Abandon ==
  /\ \E batch \in NextBatches : abandoned' = abandoned \cup batch
  /\ UNCHANGED <<stream, delivered, committed, confirmed, late, cursor, outcome>>

\* The answer may be lost.
Commit ==
  /\ \E p \in Resumable :
       committed' = p /\ confirmed' \in {confirmed, confirmed \cup {p}}
  /\ UNCHANGED <<stream, delivered, abandoned, late, cursor, outcome>>

Delay ==
  /\ \E p \in Resumable : late' = late \cup {p}
  /\ UNCHANGED <<stream, delivered, abandoned, committed, confirmed, cursor, outcome>>

Arrive ==
  /\ \E p \in late : committed' = p /\ late' = late \ {p}
  /\ UNCHANGED <<stream, delivered, abandoned, confirmed, cursor, outcome>>

\* The same position may be confirmed to two senders.
TakeOver ==
  /\ \E p \in confirmed : cursor' = p /\ confirmed' \in {confirmed, confirmed \ {p}}
  /\ UNCHANGED <<stream, delivered, abandoned, committed, late, outcome>>

End ==
  /\ outcome = "none"
  /\ \/ outcome' = "success" /\ stream.ends \cap Resumable # {}
     \/ outcome' = "failure"
  /\ UNCHANGED <<stream, delivered, abandoned, committed, confirmed, late, cursor>>

\* Of the requests under way some arrive after all.
Resume ==
  /\ cursor' = committed /\ confirmed' = {} /\ outcome' = "none"
  /\ \E batches \in SUBSET NextBatches : delivered' = delivered \cup UNION batches
  /\ \E positions \in SUBSET Resumable : late' = late \cup positions
  /\ UNCHANGED <<stream, abandoned, committed>>

Next ==
  Deliver \/ Abandon \/ Commit \/ Delay \/ Arrive \/ TakeOver \/ End \/ Resume

Spec == Init /\ [][Next]_vars
=============================================================================
