------------------------- MODULE MCBatchProcessing -------------------------
(***************************************************************************)
(* Model checking BatchProcessing: two hundreds of blocks (of two blocks   *)
(* each, here) and one of them again after a reorg, in another file; a     *)
(* range beyond the end of the old file; a range whose end wraps around.   *)
(***************************************************************************)
EXTENDS BatchProcessing

StoredFiles ==
  [old |-> <<Member(10), Member(11)>>,
   new |-> <<Member(20), Member(21), Member(22)>>,
   next |-> <<Member(12), Member(13)>>]

BlockAt(number, url, first, last) ==
  [number |-> number, url |-> url, bytesStart |-> first, bytesEnd |-> last]

Batch(direction, blocks) == [direction |-> direction, blocks |-> blocks]

SomeBatches ==
  { Batch("FORWARD", <<BlockAt(0, "old", 0, 0), BlockAt(1, "old", 1, 1)>>),
    Batch("FORWARD",
          <<BlockAt(1, "old", 1, 1), BlockAt(2, "next", 0, 1), BlockAt(3, "next", 1, 1)>>),
    Batch("BACKWARD", <<BlockAt(1, "old", 1, 1)>>),
    Batch("FORWARD", <<BlockAt(0, "new", 0, 0), BlockAt(1, "new", 2, 2)>>),
    Batch("FORWARD", <<BlockAt(2, "next", 1, 7)>>) }
=============================================================================
