----------------------------- MODULE BlockData -----------------------------
(***************************************************************************)
(* The data of blocks.  The store serves files; a file holds the gzip      *)
(* members of a hundred blocks, and a block names its file and the range   *)
(* of its bytes in it (types/block.go).  What is cut out is transformed    *)
(* and put into the payload of its batch.                                  *)
(***************************************************************************)
EXTENDS Payload

CONSTANTS
  Batches,    \* the batches to choose from, see BatchAssumption
  Files,      \* [url -> Seq(Unit)], what the store serves
  GroupSize,  \* blocks that share a key of the cache: 100 in the code
  Word        \* byte offsets are uint64: 2^64 in the code

Directions == {"FORWARD", "BACKWARD"}

\* A range of bytes may be any; a file is shorter than the largest offset.  What the
\* store serves has not been through the block function.
Block == [number : Nat, url : DOMAIN Files, bytesStart : 0 .. Word - 1, bytesEnd : 0 .. Word - 1]

ASSUME BatchAssumption ==
  /\ GroupSize \in Nat \ {0}
  /\ Word \in Nat \ {0}
  /\ \A url \in DOMAIN Files : Files[url] \in Seq(Unit) /\ Len(Files[url]) < Word
  /\ \A url \in DOMAIN Files : \A k \in 1 .. Len(Files[url]) : ~ Files[url][k].mapped
  /\ \A batch \in Batches :
       /\ batch.direction \in Directions
       /\ batch.blocks \in Seq(Block) \ {<< >>}

\* Block.BatchNumber, the key of the cache.
BatchNumber(b) == b.number \div GroupSize

Groups == UNION {{BatchNumber(batch.blocks[i]) : i \in DOMAIN batch.blocks} : batch \in Batches}

-----------------------------------------------------------------------------

\* bytesEnd + 1, in uint64.
EndOf(b) == (b.bytesEnd + 1) % Word

InRange(b, file) == b.bytesStart <= EndOf(b) /\ EndOf(b) <= Len(file)

\* Mutant: the end of the range is taken for exclusive.
HalfOpenSlice(b, file) == SubSeq(file, b.bytesStart + 1, EndOf(b) - 1)

Slice(b, file) == SubSeq(file, b.bytesStart + 1, EndOf(b))

\* A range beyond the end of the bytes panics, or gives zeros as long as it is
\* within the capacity that io.ReadAll has allocated.
Padded(b, file) ==
  [i \in 1 .. EndOf(b) - b.bytesStart |->
    IF b.bytesStart + i <= Len(file) THEN file[b.bytesStart + i] ELSE Zero]

-----------------------------------------------------------------------------

ApplyFunction(data) == [i \in DOMAIN data |-> [data[i] EXCEPT !.mapped = TRUE]]

\* The input is gzip.  Without a function nothing is done to it when the output is
\* gzip, too.
MustDecompress(functionEnabled, encoding) == functionEnabled \/ encoding # "gzip"

Transformed(data, functionEnabled, encoding) ==
  IF functionEnabled THEN Compress(ApplyFunction(Decompress(data)), encoding)
  ELSE IF MustDecompress(functionEnabled, encoding) THEN Compress(Decompress(data), encoding)
  ELSE data

NewProcessedBatch(batch, results, encoding) ==
  LET payload == Serialize(results, batch.direction, encoding)
  IN [data |-> payload.data, size |-> payload.size, encoding |-> encoding,
      numbers |-> [i \in DOMAIN batch.blocks |-> batch.blocks[i].number]]
=============================================================================
