---------------------------- MODULE MCPipeline ----------------------------
(***************************************************************************)
(* Model checking Pipeline: the streams of the runs.  Two blocks of one    *)
(* batch each are the least that lets one batch fail and the next go on.   *)
(***************************************************************************)
EXTENDS PipelineProperties

Forward(n) ==
  [number |-> n, direction |-> "FORWARD", isHead |-> FALSE, malformed |-> FALSE]
Backward(n) == [Forward(n) EXCEPT !.direction = "BACKWARD"]
HeadBlock(n) == [Forward(n) EXCEPT !.isHead = TRUE]

Stream(blocks, action, to, size, tries, status) ==
  [blocks |-> blocks, reorgAction |-> action, toBlock |-> to, maxBatchSize |-> size,
   retryAttempts |-> tries, status |-> status]

\* A stream that starts, one whose last block is at the head of the chain, one
\* whose second block is rolled back while it sits in a batch of two.
FaultStreams ==
  { Stream(<<Forward(1), Forward(2)>>, "IGNORE", 2, 1, 1, "starting"),
    Stream(<<Forward(1), HeadBlock(2)>>, "RESEND", 2, 2, 1, "running"),
    Stream(<<Forward(1), Backward(1)>>, "ROLLBACK_AND_RESEND", -1, 2, 1, "running") }

RestartStreams ==
  { Stream(<<Forward(1), Forward(2), Forward(3)>>, "IGNORE", 3, 2, 1, "running") }

\* A stream that starts and has an end, one without, and one with a reorg.
LiveStreams ==
  { Stream(<<Forward(1), Forward(2)>>, "IGNORE", 2, 1, 3, "starting"),
    Stream(<<Forward(1), Forward(2)>>, "IGNORE", -1, 1, 3, "running"),
    Stream(<<Forward(1), Backward(1), Forward(1), HeadBlock(2)>>,
           "ROLLBACK_AND_RESEND", 2, 1, 3, "running") }

RegularStreams ==
  { Stream(<<Forward(1), Forward(2)>>, "RESEND", 2, 1, 1, "running") }

IgnoreStreams ==
  { Stream(<<Forward(1), Forward(2)>>, "IGNORE", 2, 1, 1, "running") }

EndlessStreams ==
  { Stream(<<Forward(1)>>, "IGNORE", -1, 1, 1, "running") }

StartingStreams ==
  { Stream(<<Forward(1), Forward(2)>>, "IGNORE", 2, 2, 1, "starting") }
=============================================================================
