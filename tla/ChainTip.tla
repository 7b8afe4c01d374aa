----------------------------- MODULE ChainTip -----------------------------
(***************************************************************************)
(* What the block order check promises to the rest of the sink, without    *)
(* saying how: the blocks that pass it tell the story of one chain whose   *)
(* tip moves a block at a time.  A FORWARD block announces the new tip, a  *)
(* BACKWARD block takes the tip off.  How far the tip may move depends on  *)
(* the reorg action of the stream:                                         *)
(*   IGNORE               the tip only grows, by one block;                *)
(*   ROLLBACK_AND_RESEND  the tip grows by one block or loses one block;   *)
(*   RESEND               the tip may jump anywhere, and only by FORWARD   *)
(*                        blocks (the rolled-back blocks are not sent).    *)
(* Block numbers are uint64, so the chain is a circle.                     *)
(***************************************************************************)
EXTENDS BlockOrder

VARIABLES
  reorgAction,  \* the reorg action of the stream, chosen once
  event,        \* the last block announced, NoBlock before the first
  tip           \* the number of the block at the tip, NoTip before the first

chainVars == <<reorgAction, event, tip>>

NoTip == -1

ChainInit ==
  /\ reorgAction \in ReorgAction
  /\ event = NoBlock
  /\ tip = NoTip

Announce(direction, number) == event' = [number |-> number, direction |-> direction]

\* The first block fixes where the chain starts, whatever its direction.
Begin ==
  /\ tip = NoTip
  /\ \E n \in 0 .. MaxNumber :
       \/ Announce("FORWARD", n) /\ tip' = n
       \/ Announce("BACKWARD", n) /\ tip' = Pred(n)
  /\ UNCHANGED reorgAction

Extend ==
  /\ tip # NoTip
  /\ tip' = Succ(tip)
  /\ Announce("FORWARD", tip')
  /\ UNCHANGED reorgAction

RollBack ==
  /\ tip # NoTip
  /\ reorgAction = "ROLLBACK_AND_RESEND"
  /\ Announce("BACKWARD", tip)
  /\ tip' = Pred(tip)
  /\ UNCHANGED reorgAction

Jump ==
  /\ tip # NoTip
  /\ reorgAction = "RESEND"
  /\ tip' \in 0 .. MaxNumber
  /\ Announce("FORWARD", tip')
  /\ UNCHANGED reorgAction

ChainNext == Begin \/ Extend \/ RollBack \/ Jump

ChainSpec == ChainInit /\ [][ChainNext]_chainVars
=============================================================================
