------------------------------ MODULE Payload ------------------------------
(***************************************************************************)
(* What happens to the bytes of blocks on their way into a payload: the    *)
(* compressors (lib/compressors), the payload builders                     *)
(* (lib/payload_builders) and the serializers (lib/serializers), as        *)
(* operators on values.                                                    *)
(*                                                                         *)
(* Bytes are a sequence of units.  A unit is a piece of text that is       *)
(* either plain or one gzip member; gzip members may stand in a row, and   *)
(* decompressing the row gives their texts in a row.                       *)
(***************************************************************************)
EXTENDS Integers, Sequences, SequencesExt

Unit == [text : Int, gz : BOOLEAN, mapped : BOOLEAN]

Plain(t) == [text |-> t, gz |-> FALSE, mapped |-> FALSE]

Member(t) == [text |-> t, gz |-> TRUE, mapped |-> FALSE]

\* What io.ReadAll leaves behind the end of the bytes it has read.
Zero == Plain(0)

-----------------------------------------------------------------------------

Readable(data) == data # << >> /\ \A i \in DOMAIN data : data[i].gz

\* gzipCompressor.Decompress of readable data.
Decompress(data) == [i \in DOMAIN data |-> [data[i] EXCEPT !.gz = FALSE]]

Encodings == {"gzip", ""}

\* Compress of the compressor with the given encoding type.
Compress(data, encoding) ==
  IF encoding = "gzip" THEN [i \in DOMAIN data |-> [data[i] EXCEPT !.gz = TRUE]]
  ELSE data

-----------------------------------------------------------------------------
(***************************************************************************)
(* The payload builders.  The JSON one writes its pieces plain, the gzip   *)
(* one as members.                                                         *)
(***************************************************************************)

Piece(t, encoding) == << IF encoding = "gzip" THEN Member(t) ELSE Plain(t) >>

StartForward == -1      \* {"direction":"->","data":[
StartBackward == -2     \* {"direction":"<-","data":[
SeparatorText == -3     \* ,
EndText == -4           \* ]}

StartOf(direction) == IF direction = "FORWARD" THEN StartForward ELSE StartBackward

\* The start is written before the first block: without blocks there is none.
combineBytes(start, blocks, encoding) ==
  FlattenSeq([i \in DOMAIN blocks |->
    (IF i = 1 THEN start ELSE Piece(SeparatorText, encoding)) \o blocks[i]])
    \o Piece(EndText, encoding)

Build(blocks, direction, encoding) ==
  combineBytes(Piece(StartOf(direction), encoding), blocks, encoding)

LengthOf(seqs) == FoldLeft(LAMBDA n, s : n + Len(s), 0, seqs)

\* Mutant: the separators are not counted.
OffsetsWithoutSeparators(blocks, direction, encoding) ==
  [i \in DOMAIN blocks |->
    Len(Piece(StartOf(direction), encoding)) + LengthOf(SubSeq(blocks, 1, i - 1))]

\* Where in the payload each block begins.
CalculateOffsets(blocks, direction, encoding) ==
  [i \in DOMAIN blocks |->
    Len(Piece(StartOf(direction), encoding)) + LengthOf(SubSeq(blocks, 1, i - 1))
      + (i - 1) * Len(Piece(SeparatorText, encoding))]

\* Mutant: what the payload wraps around the blocks is taken off their size.
SerializeNet(blocks, direction, encoding) ==
  [data |-> Build(blocks, direction, encoding), size |-> LengthOf(blocks) - Len(blocks) - 1]

\* Serialize: the payload, and the size that is billed.
Serialize(blocks, direction, encoding) ==
  [data |-> Build(blocks, direction, encoding), size |-> LengthOf(blocks)]
=============================================================================
