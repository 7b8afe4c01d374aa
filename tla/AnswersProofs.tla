---------------------------- MODULE AnswersProofs ----------------------------
(***************************************************************************)
(* Proofs about the payloads of BatchProcessing, for any number of         *)
(* processors, any batches and any files: what a processor hands over is   *)
(* the payload of its batch, and the processors implement BatchAnswers.    *)
(*                                                                         *)
(* A payload is right because of what happened before: each block's bytes  *)
(* were cut out of the file that was kept for it, and stay what they were  *)
(* while other processors fill the cache; each result is the transformed   *)
(* bytes of the block of the same index, whichever task ended first; and a *)
(* batch of which a task failed gets no payload.  The inductive invariant  *)
(* says so of each processor, at each stage of its batch.                  *)
(***************************************************************************)
EXTENDS BatchProcessingProofs, PayloadProofs

Stages == {"idle", "download", "fetch", "wait", "ready", "failed", "closed"}

Errors == {"none", "download", "task"}

\* p, the record of a processor, has fields of the right types.
Typed(p) ==
  /\ p.pc \in Stages
  /\ p.batch \in Batches \cup {None}
  /\ p.data \in Seq(Seq(Unit))
  /\ p.tasks \in Seq(Tasks)
  /\ p.results \in Seq(Seq(Unit))
  /\ p.err \in Errors
  /\ p.result = None \/ p.result \in Results

\* The bytes of a block in the file kept for it.
CutOut(b, kept) ==
  LET file == Files[kept[BatchNumber(b)]]
  IN IF InRange(b, file) THEN Slice(b, file) ELSE Padded(b, file)

\* The first blocks of the batch have their bytes, of files that are kept.
Cutting(p, kept) ==
  /\ p.pc \in Working \cup {"wait", "ready"} => p.batch \in Batches
  /\ Len(p.data) > 0 => p.batch \in Batches
  /\ \A i \in 1 .. Len(p.data) :
       LET b == p.batch.blocks[i] IN
       /\ i <= Len(p.batch.blocks)
       /\ kept[BatchNumber(b)] # None
       /\ b.bytesStart <= EndOf(b)
       /\ p.data[i] = CutOut(b, kept)

\* There are tasks when all blocks have their bytes, one for each.
Staged(p) ==
  /\ p.pc \in Working => Len(p.tasks) = 0 /\ Len(p.data) < Len(p.batch.blocks)
  /\ p.pc \in {"wait", "ready"} =>
       Len(p.tasks) = Len(p.data) /\ Len(p.data) = Len(p.batch.blocks)
  /\ Len(p.results) = Len(p.tasks)
  /\ Len(p.tasks) <= Len(p.data)

\* Tasks that are done have left their result in its place.
Transforming(p, enabled, type) ==
  \A i \in 1 .. Len(p.tasks) :
    /\ p.tasks[i] = "failed" => p.err # "none"
    /\ p.tasks[i] = "done" =>
         /\ MustDecompress(enabled, type) => Readable(p.data[i])
         /\ p.results[i] = Transformed(p.data[i], enabled, type)

\* Only a batch whose tasks are all done has a payload, and it is that of the results.
Answered(p, type) ==
  /\ p.pc = "ready" =>
       /\ \A i \in 1 .. Len(p.tasks) : p.tasks[i] = "done"
       /\ p.result = NewProcessedBatch(p.batch, p.results, type)
  /\ p.pc # "ready" => p.result = None

Sound(p, kept, enabled, type) ==
  /\ Typed(p)
  /\ Cutting(p, kept)
  /\ Staged(p)
  /\ Transforming(p, enabled, type)
  /\ Answered(p, type)

Counters ==
  /\ functionEnabled \in BOOLEAN
  /\ encoding \in Encodings
  /\ lock \in Processors \cup {None}
  /\ down \in BOOLEAN
  /\ processed \in [Processors -> 0 .. MaxBatches]
  /\ faults \in 0 .. MaxFaults

AnswerInv ==
  /\ Counters
  /\ \A c \in Processors : Sound(processor[c], cache, functionEnabled, encoding)
-----------------------------------------------------------------------------
(***************************************************************************)
(* The bytes of a block and their transformation.                          *)
(***************************************************************************)

\* What is cut out of a file is units that have not been through the function.
LEMMA CutOutIsRaw ==
  ASSUME NEW b \in Block, NEW kept, kept[BatchNumber(b)] \in DOMAIN Files,
         b.bytesStart <= EndOf(b)
  PROVE  /\ CutOut(b, kept) \in Seq(Unit)
         /\ \A k \in 1 .. Len(CutOut(b, kept)) : ~ CutOut(b, kept)[k].mapped
<1>1. PICK url \in DOMAIN Files : url = kept[BatchNumber(b)]
  OBVIOUS
<1>2. PICK file \in Seq(Unit) :
        /\ file = Files[url]
        /\ \A k \in 1 .. Len(file) : ~ file[k].mapped
  BY BatchAssumption
<1>3. b.bytesStart \in Nat /\ EndOf(b) \in Nat
  BY BatchAssumption DEF Block, EndOf
<1>4. PICK m \in Nat : m = b.bytesStart
  BY <1>3
<1>5. PICK n \in Nat : n = EndOf(b) /\ m <= n /\ n - m \in Nat
  BY <1>3, <1>4
<1>6. PICK l \in Nat : l = Len(file)
  OBVIOUS
<1>7. CASE InRange(b, file)
  <2>1. n <= l
    BY <1>5, <1>6, <1>7 DEF InRange
  <2>2. /\ SubSeq(file, m + 1, n) \in Seq(Unit)
        /\ Len(SubSeq(file, m + 1, n)) = n - m
        /\ \A k \in 1 .. n - m : SubSeq(file, m + 1, n)[k] = file[m + k]
    <3>1. PICK a \in Int : a = m + 1
      OBVIOUS
    <3>2. \A k \in a .. n : file[k] \in Unit
      BY <1>6, <2>1, <3>1
    <3>3. /\ SubSeq(file, a, n) \in Seq(Unit)
          /\ Len(SubSeq(file, a, n)) = IF a <= n THEN n - a + 1 ELSE 0
          /\ \A k \in 1 .. n - a + 1 : SubSeq(file, a, n)[k] = file[a + k - 1]
      BY <3>2, SubSeqProperties, SMTT(30)
    <3>4. n - a + 1 = n - m /\ (~ a <= n => n - m = 0)
      BY <1>5, <3>1
    <3>5. \A k \in 1 .. n - m : a + k - 1 = m + k
      BY <3>1
    <3>6. Len(SubSeq(file, a, n)) = n - m
      BY <3>3, <3>4
    <3>7. \A k \in 1 .. n - m : SubSeq(file, a, n)[k] = file[m + k]
      BY <3>3, <3>4, <3>5
    <3> QED BY <3>1, <3>3, <3>6, <3>7
  <2>3. CutOut(b, kept) = SubSeq(file, m + 1, n)
    BY <1>1, <1>2, <1>4, <1>5, <1>7 DEF CutOut, Slice
  <2>4. \A k \in 1 .. n - m : m + k \in 1 .. Len(file)
    BY <1>6, <2>1
  <2> QED BY <1>2, <2>2, <2>3, <2>4
<1>8. CASE ~ InRange(b, file)
  <2> DEFINE at(k) == IF b.bytesStart + k <= Len(file) THEN file[b.bytesStart + k] ELSE Zero
  <2>1. Zero \in Unit /\ ~ Zero.mapped
    BY DEF Zero, Plain, Unit
  <2>2. ASSUME NEW k \in 1 .. n - m
        PROVE  at(k) \in Unit /\ ~ at(k).mapped
    <3>1. CASE b.bytesStart + k <= Len(file)
      <4>1. m + k \in 1 .. Len(file)
        BY <1>4, <1>6, <3>1
      <4> QED BY <1>2, <1>4, <3>1, <4>1
    <3>2. CASE ~ (b.bytesStart + k <= Len(file))
      BY <2>1, <3>2
    <3> QED BY <3>1, <3>2
  <2>3. CutOut(b, kept) = [k \in 1 .. n - m |-> at(k)]
    BY <1>1, <1>2, <1>4, <1>5, <1>8 DEF CutOut, Padded
  <2>4. PICK f : f = [k \in 1 .. n - m |-> at(k)]
    OBVIOUS
  <2>5. f \in [1 .. n - m -> Unit] /\ \A k \in 1 .. n - m : ~ f[k].mapped
    BY <2>2, <2>4
  <2>6. f \in Seq(Unit) /\ Len(f) = n - m
    BY <1>5, <2>5, FunctionIsSeq
  <2> QED BY <2>3, <2>4, <2>5, <2>6
<1> QED BY <1>7, <1>8

\* A unit with its member and its mark replaced.
Reworked(u, gz, mapped) == [text |-> u.text, gz |-> gz, mapped |-> mapped]

\* What the steps of the transformation do to a unit.
LEMMA ReworkedUnit ==
  ASSUME NEW u \in Unit
  PROVE  /\ [u EXCEPT !.gz = TRUE] = Reworked(u, TRUE, u.mapped)
         /\ [u EXCEPT !.gz = FALSE] = Reworked(u, FALSE, u.mapped)
         /\ [u EXCEPT !.mapped = TRUE] = Reworked(u, u.gz, TRUE)
         /\ \A m \in BOOLEAN : [u EXCEPT !.gz = FALSE, !.mapped = m] = Reworked(u, FALSE, m)
<1>1. \A r \in Unit : r = [text |-> r.text, gz |-> r.gz, mapped |-> r.mapped]
  BY DEF Unit
<1>2. [u EXCEPT !.gz = TRUE] = Reworked(u, TRUE, u.mapped)
  <2>1. PICK r \in Unit : r = [u EXCEPT !.gz = TRUE]
    BY DEF Unit
  <2>2. r.text = u.text /\ r.gz = TRUE /\ r.mapped = u.mapped
    BY <2>1 DEF Unit
  <2> QED BY <1>1, <2>1, <2>2 DEF Reworked
<1>3. [u EXCEPT !.gz = FALSE] = Reworked(u, FALSE, u.mapped)
  <2>1. PICK r \in Unit : r = [u EXCEPT !.gz = FALSE]
    BY DEF Unit
  <2>2. r.text = u.text /\ r.gz = FALSE /\ r.mapped = u.mapped
    BY <2>1 DEF Unit
  <2> QED BY <1>1, <2>1, <2>2 DEF Reworked
<1>4. [u EXCEPT !.mapped = TRUE] = Reworked(u, u.gz, TRUE)
  <2>1. PICK r \in Unit : r = [u EXCEPT !.mapped = TRUE]
    BY DEF Unit
  <2>2. r.text = u.text /\ r.gz = u.gz /\ r.mapped = TRUE
    BY <2>1 DEF Unit
  <2> QED BY <1>1, <2>1, <2>2 DEF Reworked
<1>5. ASSUME NEW m \in BOOLEAN
      PROVE  [u EXCEPT !.gz = FALSE, !.mapped = m] = Reworked(u, FALSE, m)
  <2>1. PICK r \in Unit : r = [u EXCEPT !.gz = FALSE, !.mapped = m]
    BY DEF Unit
  <2>2. r.text = u.text /\ r.gz = FALSE /\ r.mapped = m
    BY <2>1 DEF Unit
  <2> QED BY <1>1, <2>1, <2>2 DEF Reworked
<1> QED BY <1>2, <1>3, <1>4, <1>5

\* A unit reworked is a unit, of the same text.
LEMMA ReworkedIsUnit ==
  ASSUME NEW u \in Unit, NEW gz \in BOOLEAN, NEW mapped \in BOOLEAN
  PROVE  /\ Reworked(u, gz, mapped) \in Unit
         /\ Reworked(u, gz, mapped).text = u.text
         /\ Reworked(u, gz, mapped).gz = gz
         /\ Reworked(u, gz, mapped).mapped = mapped
         /\ u.gz \in BOOLEAN /\ u.mapped \in BOOLEAN
BY DEF Reworked, Unit

\* Decompress, ApplyFunction and Compress, unit by unit.
LEMMA ReworkedUnits ==
  ASSUME NEW s \in Seq(Unit)
  PROVE  /\ Decompress(s) \in Seq(Unit) /\ Len(Decompress(s)) = Len(s)
         /\ ApplyFunction(s) \in Seq(Unit) /\ Len(ApplyFunction(s)) = Len(s)
         /\ Compress(s, "gzip") \in Seq(Unit) /\ Len(Compress(s, "gzip")) = Len(s)
         /\ \A k \in 1 .. Len(s) :
              /\ Decompress(s)[k] = Reworked(s[k], FALSE, s[k].mapped)
              /\ ApplyFunction(s)[k] = Reworked(s[k], s[k].gz, TRUE)
              /\ Compress(s, "gzip")[k] = Reworked(s[k], TRUE, s[k].mapped)
<1>1. Len(s) \in Nat /\ DOMAIN s = 1 .. Len(s) /\ \A k \in 1 .. Len(s) : s[k] \in Unit
  OBVIOUS
<1>2. Decompress(s) = [k \in 1 .. Len(s) |-> Reworked(s[k], FALSE, s[k].mapped)]
  BY <1>1, ReworkedUnit DEF Decompress
<1>3. ApplyFunction(s) = [k \in 1 .. Len(s) |-> Reworked(s[k], s[k].gz, TRUE)]
  BY <1>1, ReworkedUnit DEF ApplyFunction
<1>4. Compress(s, "gzip") = [k \in 1 .. Len(s) |-> Reworked(s[k], TRUE, s[k].mapped)]
  BY <1>1, ReworkedUnit DEF Compress
<1>5. /\ Decompress(s) \in [1 .. Len(s) -> Unit]
      /\ ApplyFunction(s) \in [1 .. Len(s) -> Unit]
      /\ Compress(s, "gzip") \in [1 .. Len(s) -> Unit]
  <2>1. \A k \in 1 .. Len(s) :
          /\ Reworked(s[k], FALSE, s[k].mapped) \in Unit
          /\ Reworked(s[k], s[k].gz, TRUE) \in Unit
          /\ Reworked(s[k], TRUE, s[k].mapped) \in Unit
    BY <1>1, ReworkedIsUnit
  <2> QED BY <1>2, <1>3, <1>4, <2>1
<1> QED BY <1>1, <1>2, <1>3, <1>4, <1>5, FunctionIsSeq

\* The result of a task is units; and what a destination reads of it, after
\* decompression if the output is compressed, is the text of the block, marked if there
\* is a block function.
LEMMA TransformedText ==
  ASSUME NEW data \in Seq(Unit), NEW enabled \in BOOLEAN, NEW type \in Encodings
  PROVE  /\ Transformed(data, enabled, type) \in Seq(Unit)
         /\ (\A k \in 1 .. Len(data) : ~ data[k].mapped) =>
              (IF type = "gzip" THEN Decompress(Transformed(data, enabled, type))
               ELSE Transformed(data, enabled, type))
                = [k \in DOMAIN data |-> [data[k] EXCEPT !.gz = FALSE, !.mapped = enabled]]
<1>1. PICK n \in Nat : n = Len(data) /\ DOMAIN data = 1 .. n /\ \A k \in 1 .. n : data[k] \in Unit
  OBVIOUS
<1>2. PICK text :
        text = [k \in DOMAIN data |-> [data[k] EXCEPT !.gz = FALSE, !.mapped = enabled]]
  OBVIOUS
<1>3. text = [k \in 1 .. n |-> Reworked(data[k], FALSE, enabled)]
  BY <1>1, <1>2, ReworkedUnit
<1>4. text \in Seq(Unit) /\ Len(text) = n
  <2>1. \A k \in 1 .. n : Reworked(data[k], FALSE, enabled) \in Unit
    BY <1>1, ReworkedIsUnit
  <2>2. text \in [1 .. n -> Unit]
    BY <1>3, <2>1
  <2> QED BY <2>2, FunctionIsSeq
<1>5. PICK d \in Seq(Unit) :
        /\ d = Decompress(data) /\ Len(d) = n
        /\ \A k \in 1 .. n : d[k] = Reworked(data[k], FALSE, data[k].mapped)
  <2>1. /\ Decompress(data) \in Seq(Unit) /\ Len(Decompress(data)) = Len(data)
        /\ \A k \in 1 .. Len(data) : Decompress(data)[k] = Reworked(data[k], FALSE, data[k].mapped)
    BY ReworkedUnits
  <2> QED BY <1>1, <2>1
<1>6. \A k \in 1 .. n : d[k].gz = FALSE /\ d[k].mapped = data[k].mapped /\ d[k].text = data[k].text
  BY <1>5 DEF Reworked
<1>7. CASE enabled
  <2>1. PICK m \in Seq(Unit) :
          /\ m = ApplyFunction(d) /\ Len(m) = n
          /\ \A k \in 1 .. n : m[k] = Reworked(d[k], d[k].gz, TRUE)
    <3>1. /\ ApplyFunction(d) \in Seq(Unit) /\ Len(ApplyFunction(d)) = Len(d)
          /\ \A k \in 1 .. Len(d) : ApplyFunction(d)[k] = Reworked(d[k], d[k].gz, TRUE)
      BY ReworkedUnits
    <3> QED BY <1>5, <3>1
  <2>2. \A k \in 1 .. n : m[k] = Reworked(data[k], FALSE, TRUE)
    BY <1>6, <2>1 DEF Reworked
  <2>3. \A k \in 1 .. n : m[k].gz = FALSE /\ m[k].mapped = TRUE /\ m[k].text = data[k].text
    <3> SUFFICES ASSUME NEW k \in 1 .. n
                 PROVE  m[k].gz = FALSE /\ m[k].mapped = TRUE /\ m[k].text = data[k].text
      OBVIOUS
    <3>1. PICK e : e = m[k]
      OBVIOUS
    <3>2. PICK u : u = data[k]
      OBVIOUS
    <3>3. e = Reworked(u, FALSE, TRUE)
      BY <2>2, <3>1, <3>2
    <3>4. e.gz = FALSE /\ e.mapped = TRUE /\ e.text = u.text
      BY <3>3 DEF Reworked
    <3> QED BY <3>1, <3>2, <3>4
  <2>4. m = text
    <3>1. \A k \in 1 .. n : m[k] = text[k]
      BY <1>3, <1>7, <2>2
    <3> QED BY <1>4, <2>1, <3>1, SeqEqual
  <2>5. CASE type = "gzip"
    <3>1. PICK z \in Seq(Unit) :
            /\ z = Compress(m, "gzip") /\ Len(z) = n
            /\ \A k \in 1 .. n : z[k] = Reworked(m[k], TRUE, m[k].mapped)
      <4>1. /\ Compress(m, "gzip") \in Seq(Unit) /\ Len(Compress(m, "gzip")) = Len(m)
            /\ \A k \in 1 .. Len(m) : Compress(m, "gzip")[k] = Reworked(m[k], TRUE, m[k].mapped)
        BY ReworkedUnits
      <4> QED BY <2>1, <4>1
    <3>2. \A k \in 1 .. n : z[k].mapped = TRUE /\ z[k].text = data[k].text
      <4> SUFFICES ASSUME NEW k \in 1 .. n
                   PROVE  z[k].mapped = TRUE /\ z[k].text = data[k].text
        OBVIOUS
      <4>1. PICK e : e = z[k]
        OBVIOUS
      <4>2. PICK u : u = m[k]
        OBVIOUS
      <4>3. e = Reworked(u, TRUE, u.mapped)
        BY <3>1, <4>1, <4>2
      <4>4. e.mapped = u.mapped /\ e.text = u.text
        BY <4>3 DEF Reworked
      <4>5. u.mapped = TRUE /\ u.text = data[k].text
        BY <2>3, <4>2
      <4> QED BY <4>1, <4>4, <4>5
    <3>3. Transformed(data, enabled, type) = z
      BY <1>5, <1>7, <2>1, <2>5, <3>1 DEF Transformed
    <3>4. PICK o \in Seq(Unit) :
            /\ o = Decompress(z) /\ Len(o) = n
            /\ \A k \in 1 .. n : o[k] = Reworked(z[k], FALSE, z[k].mapped)
      <4>1. /\ Decompress(z) \in Seq(Unit) /\ Len(Decompress(z)) = Len(z)
            /\ \A k \in 1 .. Len(z) : Decompress(z)[k] = Reworked(z[k], FALSE, z[k].mapped)
        BY ReworkedUnits
      <4> QED BY <3>1, <4>1
    <3>5. \A k \in 1 .. n : o[k] = text[k]
      BY <1>3, <1>7, <3>2, <3>4 DEF Reworked
    <3>6. o = text
      BY <1>4, <3>4, <3>5, SeqEqual
    <3> QED BY <1>2, <2>5, <3>3, <3>4, <3>6
  <2>6. CASE type # "gzip"
    <3>1. Transformed(data, enabled, type) = m
      BY <1>5, <1>7, <2>1, <2>6 DEF Transformed, Compress
    <3> QED BY <1>2, <2>4, <2>6, <3>1
  <2> QED BY <2>5, <2>6
<1>8. CASE ~ enabled
  <2>1. (\A k \in 1 .. n : ~ data[k].mapped) => d = text
    <3> SUFFICES ASSUME \A k \in 1 .. n : ~ data[k].mapped PROVE d = text
      OBVIOUS
    <3>1. \A k \in 1 .. n : data[k].mapped = FALSE
      BY <1>1, ReworkedIsUnit
    <3>2. \A k \in 1 .. n : d[k] = text[k]
      BY <1>3, <1>5, <1>8, <3>1
    <3> QED BY <1>4, <1>5, <3>2, SeqEqual
  <2>2. CASE type = "gzip"
    <3>1. Transformed(data, enabled, type) = data
      BY <1>8, <2>2 DEF Transformed, MustDecompress
    <3> QED BY <1>1, <1>2, <1>5, <2>1, <2>2, <3>1
  <2>3. CASE type # "gzip"
    <3>1. Transformed(data, enabled, type) = d
      BY <1>5, <1>8, <2>3 DEF Transformed, MustDecompress, Compress
    <3> QED BY <1>1, <1>2, <2>1, <2>3, <3>1
  <2> QED BY <2>2, <2>3
<1> QED BY <1>7, <1>8

-----------------------------------------------------------------------------
(***************************************************************************)
(* The record of one processor, from p to q.  Each lemma names the fields  *)
(* that a step changes.                                                    *)
(***************************************************************************)

\* Entries are never replaced.
Grows(kept, later) == \A g \in Groups : kept[g] # None => later[g] = kept[g]

\* What has been cut out is still what it would be when more files are kept.
LEMMA StillSound ==
  ASSUME NEW p, NEW kept, NEW later, NEW enabled, NEW type,
         Sound(p, kept, enabled, type), Grows(kept, later)
  PROVE  Sound(p, later, enabled, type)
<1>1. Len(p.data) \in Nat
  BY DEF Sound, Typed
<1>2. ASSUME NEW i \in 1 .. Len(p.data)
      PROVE  LET b == p.batch.blocks[i] IN
             /\ i <= Len(p.batch.blocks)
             /\ later[BatchNumber(b)] # None
             /\ b.bytesStart <= EndOf(b)
             /\ p.data[i] = CutOut(b, later)
  <2>1. PICK b : b = p.batch.blocks[i]
    OBVIOUS
  <2>2. /\ i <= Len(p.batch.blocks)
        /\ kept[BatchNumber(b)] # None
        /\ b.bytesStart <= EndOf(b)
        /\ p.data[i] = CutOut(b, kept)
    BY <2>1 DEF Sound, Cutting
  <2>3. p.batch \in Batches
    BY <1>1 DEF Sound, Cutting
  <2>4. i \in 1 .. Len(p.batch.blocks)
    <3>1. p.batch.blocks \in Seq(Block)
      BY <2>3, BatchAssumption
    <3> QED BY <1>1, <2>2, <3>1
  <2>5. BatchNumber(b) \in Groups
    BY <2>1, <2>3, <2>4, BlocksHaveKeys
  <2>6. later[BatchNumber(b)] = kept[BatchNumber(b)]
    BY <2>2, <2>5 DEF Grows
  <2>7. CutOut(b, later) = CutOut(b, kept)
    BY <2>6 DEF CutOut
  <2> QED BY <2>1, <2>2, <2>6, <2>7
<1>3. Cutting(p, later)
  BY <1>2 DEF Sound, Cutting
<1> QED BY <1>3 DEF Sound

\* Nothing of an earlier batch is left when a processor turns to another, or to none.
LEMMA FreshIsSound ==
  ASSUME NEW q, NEW kept, NEW enabled, NEW type,
         \/ q.pc = "idle" /\ q.batch = None
         \/ q.pc = "download" /\ q.batch \in Batches,
         q.data = << >>, q.tasks = << >>, q.results = << >>, q.err = "none", q.result = None
  PROVE  Sound(q, kept, enabled, type)
<1>1. /\ q.data \in Seq(Seq(Unit)) /\ Len(q.data) = 0
      /\ q.tasks \in Seq(Tasks) /\ Len(q.tasks) = 0
      /\ q.results \in Seq(Seq(Unit)) /\ Len(q.results) = 0
  OBVIOUS
<1>2. Typed(q)
  BY <1>1 DEF Typed, Stages, Errors
<1>3. Cutting(q, kept)
  BY <1>1 DEF Cutting, Working
<1>4. Staged(q)
  <2>1. q.batch \in Batches => Len(q.batch.blocks) \in Nat /\ Len(q.batch.blocks) # 0
    BY BatchAssumption
  <2> QED BY <1>1, <2>1 DEF Staged, Working
<1>5. Transforming(q, enabled, type)
  BY <1>1 DEF Transforming
<1>6. Answered(q, type)
  BY DEF Answered
<1> QED BY <1>2, <1>3, <1>4, <1>5, <1>6 DEF Sound

\* The next block gets its bytes: there are more to get, or one task for each.
LEMMA GatheredIsSound ==
  ASSUME NEW p, NEW q, NEW kept, NEW enabled, NEW type,
         Sound(p, kept, enabled, type), p.pc \in Working,
         NEW b, b = p.batch.blocks[Len(p.data) + 1],
         kept[BatchNumber(b)] # None, b.bytesStart <= EndOf(b),
         CutOut(b, kept) \in Seq(Unit),
         q.data = Append(p.data, CutOut(b, kept)),
         q.batch = p.batch, q.err = p.err, q.result = p.result,
         \/ /\ q.pc = "download" /\ Len(q.data) < Len(p.batch.blocks)
            /\ q.tasks = p.tasks /\ q.results = p.results
         \/ /\ q.pc = "wait" /\ ~ (Len(q.data) < Len(p.batch.blocks))
            /\ q.tasks = [i \in DOMAIN q.data |-> "queued"]
            /\ q.results = [i \in DOMAIN q.data |-> << >>]
  PROVE  Sound(q, kept, enabled, type)
<1>1. /\ p.batch \in Batches /\ Len(p.data) < Len(p.batch.blocks)
      /\ Len(p.tasks) = 0 /\ Len(p.results) = 0
      /\ p.data \in Seq(Seq(Unit)) /\ p.tasks \in Seq(Tasks) /\ p.results \in Seq(Seq(Unit))
      /\ p.batch \in Batches \cup {None} /\ p.err \in Errors /\ p.result = None
  BY DEF Sound, Typed, Cutting, Staged, Answered, Working
<1>2. PICK m \in Nat : m = Len(p.batch.blocks)
  BY <1>1, BatchAssumption
<1>3. PICK n \in Nat : n = Len(p.data) /\ n < m
  BY <1>1, <1>2
<1>4. /\ q.data \in Seq(Seq(Unit)) /\ Len(q.data) = n + 1 /\ DOMAIN q.data = 1 .. n + 1
      /\ \A i \in 1 .. n : q.data[i] = p.data[i]
      /\ q.data[n + 1] = CutOut(b, kept)
  BY <1>1, <1>3
<1>5. Cutting(q, kept)
  <2>1. ASSUME NEW i \in 1 .. Len(q.data)
        PROVE  LET c == q.batch.blocks[i] IN
               /\ i <= Len(q.batch.blocks)
               /\ kept[BatchNumber(c)] # None
               /\ c.bytesStart <= EndOf(c)
               /\ q.data[i] = CutOut(c, kept)
    <3>1. CASE i = n + 1
      BY <1>2, <1>3, <1>4, <3>1
    <3>2. CASE i # n + 1
      <4>1. i \in 1 .. Len(p.data)
        BY <1>3, <1>4, <3>2
      <4> QED BY <1>3, <1>4, <4>1 DEF Sound, Cutting
    <3> QED BY <3>1, <3>2
  <2> QED BY <1>1, <2>1 DEF Cutting
<1>6. CASE q.pc = "download"
  <2>1. q.tasks = p.tasks /\ q.results = p.results /\ n + 1 < m
    BY <1>2, <1>4, <1>6
  <2>2. Typed(q)
    BY <1>1, <1>4, <1>6, <2>1 DEF Typed, Stages
  <2>3. Staged(q)
    BY <1>1, <1>2, <1>4, <1>6, <2>1 DEF Staged
  <2>4. Transforming(q, enabled, type)
    BY <1>1, <2>1 DEF Transforming
  <2>5. Answered(q, type)
    BY <1>1, <1>6 DEF Answered
  <2> QED BY <1>5, <2>2, <2>3, <2>4, <2>5 DEF Sound
<1>7. CASE q.pc = "wait"
  <2>1. /\ q.tasks = [i \in 1 .. n + 1 |-> "queued"]
        /\ q.results = [i \in 1 .. n + 1 |-> << >>]
        /\ n + 1 = m
    BY <1>2, <1>3, <1>4, <1>7
  <2>2. /\ q.tasks \in Seq(Tasks) /\ Len(q.tasks) = n + 1
        /\ \A i \in 1 .. n + 1 : q.tasks[i] = "queued"
        /\ q.results \in Seq(Seq(Unit)) /\ Len(q.results) = n + 1
    <3>1. q.tasks \in [1 .. n + 1 -> Tasks] /\ q.results \in [1 .. n + 1 -> Seq(Unit)]
      BY <2>1 DEF Tasks
    <3>2. n + 1 \in Nat
      OBVIOUS
    <3> QED BY <2>1, <3>1, <3>2, FunctionIsSeq
  <2>3. Typed(q)
    BY <1>1, <1>4, <1>7, <2>2 DEF Typed, Stages
  <2>4. Staged(q)
    BY <1>2, <1>4, <1>7, <2>1, <2>2 DEF Staged, Working
  <2>5. Transforming(q, enabled, type)
    BY <2>2 DEF Transforming
  <2>6. Answered(q, type)
    BY <1>1, <1>7 DEF Answered
  <2> QED BY <1>5, <2>3, <2>4, <2>5, <2>6 DEF Sound
<1> QED BY <1>6, <1>7

\* The processor goes on to fetch a file, or gives the batch up.
LEMMA MovedIsSound ==
  ASSUME NEW p, NEW q, NEW kept, NEW enabled, NEW type,
         Sound(p, kept, enabled, type),
         \/ p.pc = "download" /\ q.pc = "fetch"
         \/ p.pc # "ready" /\ q.pc \in {"failed", "closed"},
         q.err = p.err \/ q.err = "download",
         q.batch = p.batch, q.data = p.data, q.tasks = p.tasks, q.results = p.results,
         q.result = p.result
  PROVE  Sound(q, kept, enabled, type)
<1>1. Typed(q)
  BY DEF Sound, Typed, Stages, Errors
<1>2. Cutting(q, kept)
  BY DEF Sound, Cutting, Working
<1>3. Staged(q)
  BY DEF Sound, Staged, Working
<1>4. Transforming(q, enabled, type)
  BY DEF Sound, Transforming
<1>5. Answered(q, type)
  BY DEF Sound, Answered
<1> QED BY <1>1, <1>2, <1>3, <1>4, <1>5 DEF Sound

\* A task leaves its result in the place of its block.
LEMMA DoneIsSound ==
  ASSUME NEW p, NEW q, NEW kept, NEW enabled \in BOOLEAN, NEW type \in Encodings,
         Sound(p, kept, enabled, type),
         NEW i \in DOMAIN p.tasks, p.tasks[i] = "queued",
         MustDecompress(enabled, type) => Readable(p.data[i]),
         q.tasks = [p.tasks EXCEPT ![i] = "done"],
         q.results = [p.results EXCEPT ![i] = Transformed(p.data[i], enabled, type)],
         q.pc = p.pc, q.batch = p.batch, q.data = p.data, q.err = p.err, q.result = p.result
  PROVE  Sound(q, kept, enabled, type)
<1>1. /\ p.data \in Seq(Seq(Unit)) /\ p.tasks \in Seq(Tasks) /\ p.results \in Seq(Seq(Unit))
      /\ Len(p.results) = Len(p.tasks) /\ Len(p.tasks) <= Len(p.data)
  BY DEF Sound, Typed, Staged
<1>2. PICK n \in Nat : n = Len(p.tasks) /\ i \in 1 .. n /\ i \in 1 .. Len(p.data)
  <2>1. Len(p.tasks) \in Nat /\ Len(p.data) \in Nat /\ i \in 1 .. Len(p.tasks)
    BY <1>1
  <2> QED BY <1>1, <2>1
<1>3. p.data[i] \in Seq(Unit)
  BY <1>1, <1>2
<1>4. PICK result \in Seq(Unit) : result = Transformed(p.data[i], enabled, type)
  BY <1>3, TransformedText
<1>5. /\ q.tasks \in Seq(Tasks) /\ Len(q.tasks) = n /\ q.tasks[i] = "done"
      /\ q.results \in Seq(Seq(Unit)) /\ Len(q.results) = n /\ q.results[i] = result
      /\ \A j \in 1 .. n : j # i => q.tasks[j] = p.tasks[j] /\ q.results[j] = p.results[j]
  BY <1>1, <1>2, <1>4 DEF Tasks
<1>6. Typed(q)
  BY <1>5 DEF Sound, Typed
<1>7. Cutting(q, kept)
  BY DEF Sound, Cutting
<1>8. Staged(q)
  BY <1>2, <1>5 DEF Sound, Staged
<1>9. Transforming(q, enabled, type)
  <2>1. ASSUME NEW j \in 1 .. Len(q.tasks)
        PROVE  /\ q.tasks[j] = "failed" => q.err # "none"
               /\ q.tasks[j] = "done" =>
                    /\ MustDecompress(enabled, type) => Readable(q.data[j])
                    /\ q.results[j] = Transformed(q.data[j], enabled, type)
    <3>1. CASE j = i
      BY <1>4, <1>5, <3>1
    <3>2. CASE j # i
      <4>1. j \in 1 .. Len(p.tasks)
        BY <1>2, <1>5
      <4> QED BY <1>2, <1>5, <3>2, <4>1 DEF Sound, Transforming
    <3> QED BY <3>1, <3>2
  <2> QED BY <2>1 DEF Transforming
<1>10. Answered(q, type)
  <2>1. q.pc # "ready"
    BY <1>2 DEF Sound, Answered
  <2> QED BY <2>1 DEF Sound, Answered
<1> QED BY <1>6, <1>7, <1>8, <1>9, <1>10 DEF Sound

\* A task that fails is remembered.
LEMMA FailedIsSound ==
  ASSUME NEW p, NEW q, NEW kept, NEW enabled, NEW type,
         Sound(p, kept, enabled, type),
         NEW i \in DOMAIN p.tasks, p.tasks[i] = "queued",
         q.tasks = [p.tasks EXCEPT ![i] = "failed"], q.err = "task",
         q.pc = p.pc, q.batch = p.batch, q.data = p.data, q.results = p.results,
         q.result = p.result
  PROVE  Sound(q, kept, enabled, type)
<1>1. /\ p.tasks \in Seq(Tasks) /\ Len(p.tasks) \in Nat /\ i \in 1 .. Len(p.tasks)
  BY DEF Sound, Typed
<1>2. /\ q.tasks \in Seq(Tasks) /\ Len(q.tasks) = Len(p.tasks)
      /\ q.tasks[i] = "failed"
      /\ \A j \in 1 .. Len(p.tasks) : j # i => q.tasks[j] = p.tasks[j]
  BY <1>1 DEF Tasks
<1>3. Typed(q)
  BY <1>2 DEF Sound, Typed, Errors
<1>4. Cutting(q, kept)
  BY DEF Sound, Cutting
<1>5. Staged(q)
  BY <1>2 DEF Sound, Staged
<1>6. Transforming(q, enabled, type)
  BY <1>2 DEF Sound, Transforming
<1>7. Answered(q, type)
  <2>1. q.pc # "ready"
    BY <1>1 DEF Sound, Answered
  <2> QED BY <2>1 DEF Sound, Answered
<1> QED BY <1>3, <1>4, <1>5, <1>6, <1>7 DEF Sound

\* A payload is a payload.
LEMMA ResultIsTyped ==
  ASSUME NEW batch \in Batches, NEW results \in Seq(Seq(Unit)), NEW type \in Encodings
  PROVE  NewProcessedBatch(batch, results, type) \in Results
<1>1. /\ Build(results, batch.direction, type) \in Seq(Unit)
      /\ LengthOf(results) \in Nat
  BY PayloadLength
<1>2. PICK numbers : numbers = [i \in DOMAIN batch.blocks |-> batch.blocks[i].number]
  OBVIOUS
<1>3. numbers \in Seq(Nat)
  <2>1. PICK blocks \in Seq(Block) : blocks = batch.blocks
    BY BatchAssumption
  <2>2. PICK n \in Nat : n = Len(blocks) /\ DOMAIN blocks = 1 .. n
    OBVIOUS
  <2>3. \A i \in 1 .. n : blocks[i].number \in Nat
    <3>1. \A i \in 1 .. n : blocks[i] \in Block
      BY <2>2
    <3>2. \A b \in Block : b.number \in Nat
      BY DEF Block
    <3> QED BY <3>1, <3>2
  <2>4. numbers \in [1 .. n -> Nat]
    BY <1>2, <2>1, <2>2, <2>3
  <2> QED BY <2>4, FunctionIsSeq
<1>4. NewProcessedBatch(batch, results, type) =
        [data |-> Build(results, batch.direction, type), size |-> LengthOf(results),
         encoding |-> type, numbers |-> numbers]
  BY <1>2 DEF NewProcessedBatch, Serialize
<1> QED BY <1>1, <1>3, <1>4 DEF Results

\* When all tasks have ended and none has failed, the batch gets its payload.
LEMMA FinishedIsSound ==
  ASSUME NEW p, NEW q, NEW kept, NEW enabled, NEW type \in Encodings,
         Sound(p, kept, enabled, type),
         p.pc = "wait", p.err = "none", \A i \in DOMAIN p.tasks : p.tasks[i] # "queued",
         q.pc = "ready", q.result = NewProcessedBatch(p.batch, p.results, type),
         q.batch = p.batch, q.data = p.data, q.tasks = p.tasks, q.results = p.results,
         q.err = p.err
  PROVE  Sound(q, kept, enabled, type)
<1>1. /\ p.batch \in Batches /\ p.results \in Seq(Seq(Unit))
      /\ p.tasks \in Seq(Tasks) /\ DOMAIN p.tasks = 1 .. Len(p.tasks)
  BY DEF Sound, Cutting, Typed
<1>2. NewProcessedBatch(p.batch, p.results, type) \in Results
  BY <1>1, ResultIsTyped
<1>3. Typed(q)
  BY <1>2 DEF Sound, Typed, Stages
<1>4. Cutting(q, kept)
  BY DEF Sound, Cutting, Working
<1>5. Staged(q)
  BY DEF Sound, Staged, Working
<1>6. Transforming(q, enabled, type)
  BY DEF Sound, Transforming
<1>7. Answered(q, type)
  <2>1. \A i \in 1 .. Len(p.tasks) : p.tasks[i] = "done"
    <3>1. \A i \in 1 .. Len(p.tasks) : p.tasks[i] \in Tasks /\ p.tasks[i] # "queued"
      BY <1>1
    <3>2. \A i \in 1 .. Len(p.tasks) : p.tasks[i] # "failed"
      BY DEF Sound, Transforming
    <3> QED BY <3>1, <3>2 DEF Tasks
  <2> QED BY <2>1 DEF Answered
<1> QED BY <1>3, <1>4, <1>5, <1>6, <1>7 DEF Sound

-----------------------------------------------------------------------------
(***************************************************************************)
(* What each step does to the processor that takes it.                     *)
(***************************************************************************)

SoundAt(c) == Sound(processor[c], cache, functionEnabled, encoding)

\* The other processors are where they were.
Alone(c) ==
  /\ DOMAIN processor' = Processors
  /\ \A d \in Processors \ {c} : processor'[d] = processor[d]

\* A batch is taken.
LEMMA TakeEffect ==
  ASSUME Shape, NEW c \in Processors, Take(c)
  PROVE  /\ Alone(c) /\ SoundAt(c)'
         /\ processor[c].pc = "idle" /\ processor'[c].pc = "download"
         /\ processor'[c].batch \in Batches
         /\ processor'[c].result = None
<1>1. PICK batch \in Batches :
        processor' = [processor EXCEPT ![c] = [Idle EXCEPT !.pc = "download", !.batch = batch]]
  BY DEF Take
<1>2. PICK q : q = [Idle EXCEPT !.pc = "download", !.batch = batch]
  OBVIOUS
<1>3. /\ q.pc = "download" /\ q.batch = batch /\ q.data = << >> /\ q.tasks = << >>
      /\ q.results = << >> /\ q.err = "none" /\ q.result = None
  BY <1>2 DEF Idle
<1>4. processor' = [processor EXCEPT ![c] = q]
  BY <1>1, <1>2
<1>5. Alone(c) /\ processor'[c] = q
  BY <1>4 DEF Alone, Shape
<1>6. \A kept, enabled, type : Sound(q, kept, enabled, type)
  BY <1>3, FreshIsSound
<1> QED BY <1>3, <1>5, <1>6 DEF Take, SoundAt

\* A payload is handed over.
LEMMA DeliverEffect ==
  ASSUME Shape, NEW c \in Processors, Deliver(c)
  PROVE  /\ Alone(c) /\ SoundAt(c)'
         /\ processor[c].pc = "ready" /\ processor'[c].pc = "idle"
         /\ processor'[c].batch = None
         /\ processor'[c].result = None
<1>1. processor' = [processor EXCEPT ![c] = Idle]
  BY DEF Deliver
<1>2. PICK q : q = Idle
  OBVIOUS
<1>3. /\ q.pc = "idle" /\ q.batch = None /\ q.data = << >> /\ q.tasks = << >>
      /\ q.results = << >> /\ q.err = "none" /\ q.result = None
  BY <1>2 DEF Idle
<1>4. Alone(c) /\ processor'[c] = q
  BY <1>1, <1>2 DEF Alone, Shape
<1>5. \A kept, enabled, type : Sound(q, kept, enabled, type)
  BY <1>3, FreshIsSound
<1> QED BY <1>3, <1>4, <1>5 DEF Deliver, SoundAt

\* The processor is somewhere else with the batch, or has given it up.
LEMMA MoveEffect ==
  ASSUME Shape, NEW c \in Processors, SoundAt(c),
         CacheMiss(c) \/ DownloadFails(c) \/ TasksFail(c) \/ Report(c)
  PROVE  /\ Alone(c) /\ SoundAt(c)'
         /\ processor'[c].batch = processor[c].batch
         /\ processor'[c].result = processor[c].result
         /\ CacheMiss(c) => processor[c].pc = "download" /\ processor'[c].pc = "fetch"
         /\ DownloadFails(c) => processor[c].pc = "fetch" /\ processor'[c].pc = "failed"
         /\ TasksFail(c) => processor[c].pc = "wait" /\ processor'[c].pc = "failed"
         /\ Report(c) => processor[c].pc = "failed" /\ processor'[c].pc = "closed"
<1>1. /\ Alone(c)
      /\ processor'[c].batch = processor[c].batch
      /\ processor'[c].data = processor[c].data
      /\ processor'[c].tasks = processor[c].tasks
      /\ processor'[c].results = processor[c].results
      /\ processor'[c].result = processor[c].result
      /\ processor'[c].err = processor[c].err \/ processor'[c].err = "download"
      /\ CacheMiss(c) => processor[c].pc = "download" /\ processor'[c].pc = "fetch"
      /\ DownloadFails(c) => processor[c].pc = "fetch" /\ processor'[c].pc = "failed"
      /\ TasksFail(c) => processor[c].pc = "wait" /\ processor'[c].pc = "failed"
      /\ Report(c) => processor[c].pc = "failed" /\ processor'[c].pc = "closed"
  <2>1. CASE CacheMiss(c)
    BY <2>1 DEF CacheMiss, DownloadFails, TasksFail, Report, Alone, Shape
  <2>2. CASE DownloadFails(c)
    BY <2>2 DEF CacheMiss, DownloadFails, TasksFail, Report, Alone, Shape
  <2>3. CASE TasksFail(c)
    BY <2>3 DEF CacheMiss, DownloadFails, TasksFail, Report, Alone, Shape
  <2>4. CASE Report(c)
    BY <2>4 DEF CacheMiss, DownloadFails, TasksFail, Report, Alone, Shape
  <2> QED BY <2>1, <2>2, <2>3, <2>4
<1>2. UNCHANGED <<cache, functionEnabled, encoding>>
  BY DEF CacheMiss, DownloadFails, TasksFail, Report, config
<1>3. PICK p : p = processor[c]
  OBVIOUS
<1>4. PICK q : q = processor'[c]
  OBVIOUS
<1>5. Sound(q, cache, functionEnabled, encoding)
  <2>1. Sound(p, cache, functionEnabled, encoding)
    BY <1>3 DEF SoundAt
  <2>2. \/ p.pc = "download" /\ q.pc = "fetch"
        \/ p.pc # "ready" /\ q.pc \in {"failed", "closed"}
    BY <1>1, <1>3, <1>4
  <2>3. /\ q.err = p.err \/ q.err = "download"
        /\ q.batch = p.batch /\ q.data = p.data /\ q.tasks = p.tasks /\ q.results = p.results
        /\ q.result = p.result
    BY <1>1, <1>3, <1>4
  <2> QED BY <2>1, <2>2, <2>3, MovedIsSound
<1> QED BY <1>1, <1>2, <1>4, <1>5 DEF SoundAt

\* A task ends.
LEMMA TaskEffect ==
  ASSUME Shape, NEW c \in Processors, SoundAt(c), Counters,
         NEW i \in DOMAIN processor[c].tasks, TaskSucceeds(c, i) \/ TaskFails(c, i)
  PROVE  /\ Alone(c) /\ SoundAt(c)'
         /\ processor'[c].pc = processor[c].pc
         /\ processor'[c].batch = processor[c].batch
         /\ processor'[c].result = processor[c].result
<1>1. PICK p : p = processor[c]
  OBVIOUS
<1>2. PICK q : q = processor'[c]
  OBVIOUS
<1>3. Sound(p, cache, functionEnabled, encoding)
  BY <1>1 DEF SoundAt
<1>4. CASE TaskSucceeds(c, i)
  <2>1. PICK data : data = Transformed(processor[c].data[i], functionEnabled, encoding)
    OBVIOUS
  <2>2. processor' = [processor EXCEPT ![c].tasks[i] = "done", ![c].results[i] = data]
    BY <1>4, <2>1 DEF TaskSucceeds, Store
  <2>3. /\ Alone(c)
        /\ processor'[c].tasks = [processor[c].tasks EXCEPT ![i] = "done"]
        /\ processor'[c].results = [processor[c].results EXCEPT ![i] = data]
        /\ processor'[c].pc = processor[c].pc /\ processor'[c].batch = processor[c].batch
        /\ processor'[c].data = processor[c].data /\ processor'[c].err = processor[c].err
        /\ processor'[c].result = processor[c].result
    BY <2>2 DEF Alone, Shape
  <2>4. /\ i \in DOMAIN p.tasks /\ p.tasks[i] = "queued"
        /\ MustDecompress(functionEnabled, encoding) => Readable(p.data[i])
        /\ UNCHANGED <<cache, functionEnabled, encoding>>
    BY <1>1, <1>4 DEF TaskSucceeds, config
  <2>5. /\ q.tasks = [p.tasks EXCEPT ![i] = "done"]
        /\ q.results =
             [p.results EXCEPT ![i] = Transformed(p.data[i], functionEnabled, encoding)]
        /\ q.pc = p.pc /\ q.batch = p.batch /\ q.data = p.data /\ q.err = p.err
        /\ q.result = p.result
    BY <1>1, <1>2, <2>1, <2>3
  <2>6. functionEnabled \in BOOLEAN /\ encoding \in Encodings
    BY DEF Counters
  <2>7. Sound(q, cache, functionEnabled, encoding)
    BY <1>3, <2>4, <2>5, <2>6, DoneIsSound
  <2> QED BY <1>2, <2>3, <2>4, <2>7 DEF SoundAt
<1>5. CASE TaskFails(c, i)
  <2>1. processor' = [processor EXCEPT ![c].tasks[i] = "failed", ![c].err = "task"]
    BY <1>5 DEF TaskFails
  <2>2. /\ Alone(c)
        /\ processor'[c].tasks = [processor[c].tasks EXCEPT ![i] = "failed"]
        /\ processor'[c].err = "task"
        /\ processor'[c].results = processor[c].results
        /\ processor'[c].pc = processor[c].pc /\ processor'[c].batch = processor[c].batch
        /\ processor'[c].data = processor[c].data /\ processor'[c].result = processor[c].result
    BY <2>1 DEF Alone, Shape
  <2>3. /\ i \in DOMAIN p.tasks /\ p.tasks[i] = "queued"
        /\ UNCHANGED <<cache, functionEnabled, encoding>>
    BY <1>1, <1>5 DEF TaskFails, config
  <2>4. /\ q.tasks = [p.tasks EXCEPT ![i] = "failed"] /\ q.err = "task"
        /\ q.results = p.results /\ q.pc = p.pc /\ q.batch = p.batch /\ q.data = p.data
        /\ q.result = p.result
    BY <1>1, <1>2, <2>2
  <2>5. Sound(q, cache, functionEnabled, encoding)
    BY <1>3, <2>3, <2>4, FailedIsSound
  <2> QED BY <1>2, <2>2, <2>3, <2>5 DEF SoundAt
<1> QED BY <1>4, <1>5

\* The batch gets its payload.
LEMMA FinishEffect ==
  ASSUME Shape, NEW c \in Processors, SoundAt(c), Counters, Finish(c)
  PROVE  /\ Alone(c) /\ SoundAt(c)'
         /\ processor[c].pc = "wait" /\ processor'[c].pc = "ready"
         /\ processor'[c].batch = processor[c].batch
         /\ processor'[c].result =
              NewProcessedBatch(processor[c].batch, processor[c].results, encoding)
         /\ \A i \in 1 .. Len(processor[c].tasks) : processor[c].tasks[i] = "done"
<1>1. PICK p : p = processor[c]
  OBVIOUS
<1>2. PICK q : q = processor'[c]
  OBVIOUS
<1>3. PICK result : result = NewProcessedBatch(p.batch, p.results, encoding)
  OBVIOUS
<1>4. processor' = [processor EXCEPT ![c].pc = "ready", ![c].result = result]
  BY <1>1, <1>3 DEF Finish
<1>5. /\ Alone(c)
      /\ processor'[c].pc = "ready" /\ processor'[c].result = result
      /\ processor'[c].tasks = processor[c].tasks /\ processor'[c].results = processor[c].results
      /\ processor'[c].err = processor[c].err /\ processor'[c].batch = processor[c].batch
      /\ processor'[c].data = processor[c].data
  BY <1>4 DEF Alone, Shape
<1>6. /\ p.pc = "wait" /\ p.err = "none"
      /\ UNCHANGED <<cache, functionEnabled, encoding>>
  BY <1>1 DEF Finish, config
<1>7. \A i \in DOMAIN p.tasks : p.tasks[i] # "queued"
  BY <1>1 DEF Finish, AllEnded, Ended
<1>8. /\ q.pc = "ready" /\ q.result = NewProcessedBatch(p.batch, p.results, encoding)
      /\ q.batch = p.batch /\ q.data = p.data /\ q.tasks = p.tasks /\ q.results = p.results
      /\ q.err = p.err
  BY <1>1, <1>2, <1>3, <1>5
<1>9. encoding \in Encodings /\ Sound(p, cache, functionEnabled, encoding)
  BY <1>1 DEF Counters, SoundAt
<1>10. Sound(q, cache, functionEnabled, encoding)
  BY <1>6, <1>7, <1>8, <1>9, FinishedIsSound
<1>11. \A i \in 1 .. Len(q.tasks) : q.tasks[i] = "done"
  BY <1>8, <1>10 DEF Sound, Answered
<1> QED BY <1>1, <1>2, <1>3, <1>5, <1>6, <1>8, <1>10, <1>11 DEF SoundAt

\* The block wanted gets its bytes, or the process panics.
LEMMA GatherEffect ==
  ASSUME Inv, NEW c \in Processors, SoundAt(c), processor[c].pc \in Working,
         CacheGrows, NEW url \in DOMAIN Files, cache'[BatchNumber(Wanted(c))] = url,
         Gather(c, Files[url]), UNCHANGED <<functionEnabled, encoding>>
  PROVE  \/ /\ Alone(c) /\ SoundAt(c)'
            /\ processor'[c].pc \in {"download", "wait"}
            /\ processor'[c].batch = processor[c].batch
            /\ processor'[c].result = processor[c].result
            /\ down' = down
         \/ /\ ~ InRange(Wanted(c), Files[url])
            /\ down' = TRUE /\ UNCHANGED processor
<1>1. PICK b : b = Wanted(c)
  OBVIOUS
<1>2. PICK file : file = Files[url]
  OBVIOUS
<1>3. PICK p : p = processor[c]
  OBVIOUS
<1>4. PICK q : q = processor'[c]
  OBVIOUS
<1>5. /\ p.batch \in Batches /\ p.data \in Seq(Seq(Unit))
      /\ Len(p.data) < Len(p.batch.blocks)
      /\ b = p.batch.blocks[Len(p.data) + 1]
  BY <1>1, <1>3 DEF Inv, Gathered, Blocks, Wanted
<1>6. b \in Block /\ BatchNumber(b) \in Groups
  <2>1. Len(p.data) + 1 \in 1 .. Len(p.batch.blocks)
    BY <1>5, BatchAssumption
  <2> QED BY <1>5, <2>1, BlocksHaveKeys
<1>7. url # None /\ cache'[BatchNumber(b)] = url
  BY <1>1, NoneAssumption
<1>8. Sound(p, cache', functionEnabled, encoding)
  <2>1. PICK later : later = cache'
    OBVIOUS
  <2>2. Grows(cache, later)
    BY <2>1 DEF CacheGrows, Grows
  <2>3. Sound(p, cache, functionEnabled, encoding)
    BY <1>3 DEF SoundAt
  <2> QED BY <2>1, <2>2, <2>3, StillSound
<1> DEFINE Got(bytes) ==
             LET data == Append(processor[c].data, bytes) IN
             processor' =
               IF Len(data) < Len(Blocks(c))
                 THEN [processor EXCEPT ![c].pc = "download", ![c].data = data]
                 ELSE [processor EXCEPT ![c] =
                        [@ EXCEPT !.pc = "wait", !.data = data,
                                  !.tasks = [i \in DOMAIN data |-> "queued"],
                                  !.results = [i \in DOMAIN data |-> << >>]]]
<1>9. ASSUME NEW bytes, bytes = CutOut(b, cache'), b.bytesStart <= EndOf(b), Got(bytes),
             UNCHANGED down
      PROVE  /\ Alone(c) /\ SoundAt(c)'
             /\ processor'[c].pc \in {"download", "wait"}
             /\ processor'[c].batch = processor[c].batch
             /\ processor'[c].result = processor[c].result
             /\ down' = down
  <2>1. PICK data : data = Append(processor[c].data, bytes)
    OBVIOUS
  <2>2. PICK tasks : tasks = [i \in DOMAIN data |-> "queued"]
    OBVIOUS
  <2>3. PICK results : results = [i \in DOMAIN data |-> << >>]
    OBVIOUS
  <2>4. bytes \in Seq(Unit)
    BY <1>6, <1>7, <1>9, CutOutIsRaw
  <2>5. /\ Alone(c) /\ q.data = data
        /\ q.batch = p.batch /\ q.err = p.err /\ q.result = p.result
        /\ \/ /\ q.pc = "download" /\ Len(data) < Len(p.batch.blocks)
              /\ q.tasks = p.tasks /\ q.results = p.results
           \/ /\ q.pc = "wait" /\ ~ (Len(data) < Len(p.batch.blocks))
              /\ q.tasks = tasks /\ q.results = results
    <3>1. CASE Len(data) < Len(Blocks(c))
      <4>1. processor' = [processor EXCEPT ![c].pc = "download", ![c].data = data]
        BY <1>9, <2>1, <3>1
      <4> QED BY <1>3, <1>4, <3>1, <4>1 DEF Alone, Inv, Shape, Blocks
    <3>2. CASE ~ (Len(data) < Len(Blocks(c)))
      <4>1. processor' = [processor EXCEPT ![c] =
                           [@ EXCEPT !.pc = "wait", !.data = data,
                                     !.tasks = tasks, !.results = results]]
        BY <1>9, <2>1, <2>2, <2>3, <3>2
      <4> QED BY <1>3, <1>4, <3>2, <4>1 DEF Alone, Inv, Shape, Blocks
    <3> QED BY <3>1, <3>2
  <2>6. PICK later : later = cache'
    OBVIOUS
  <2>7. Sound(q, later, functionEnabled, encoding)
    <3>1. /\ Sound(p, later, functionEnabled, encoding) /\ p.pc \in Working
          /\ b = p.batch.blocks[Len(p.data) + 1]
          /\ later[BatchNumber(b)] # None /\ b.bytesStart <= EndOf(b)
          /\ CutOut(b, later) \in Seq(Unit)
      BY <1>3, <1>5, <1>7, <1>8, <1>9, <2>4, <2>6
    <3>2. /\ q.data = Append(p.data, CutOut(b, later))
          /\ q.batch = p.batch /\ q.err = p.err /\ q.result = p.result
          /\ \/ /\ q.pc = "download" /\ Len(q.data) < Len(p.batch.blocks)
                /\ q.tasks = p.tasks /\ q.results = p.results
             \/ /\ q.pc = "wait" /\ ~ (Len(q.data) < Len(p.batch.blocks))
                /\ q.tasks = [i \in DOMAIN q.data |-> "queued"]
                /\ q.results = [i \in DOMAIN q.data |-> << >>]
      BY <1>3, <1>9, <2>1, <2>2, <2>3, <2>5, <2>6
    <3> QED BY <3>1, <3>2, GatheredIsSound
  <2>8. SoundAt(c)'
    BY <1>4, <2>6, <2>7 DEF SoundAt
  <2> QED BY <1>3, <1>4, <1>9, <2>5, <2>8
<1>10. \/ InRange(b, file) /\ Got(Slice(b, file)) /\ UNCHANGED down
       \/ /\ b.bytesStart <= EndOf(b) /\ EndOf(b) > Len(file) /\ Got(Padded(b, file))
          /\ UNCHANGED down
       \/ ~ InRange(b, file) /\ down' = TRUE /\ UNCHANGED processor
  BY <1>1, <1>2 DEF Gather
<1>11. CASE InRange(b, file) /\ Got(Slice(b, file)) /\ UNCHANGED down
  <2>1. Slice(b, file) = CutOut(b, cache') /\ b.bytesStart <= EndOf(b)
    BY <1>2, <1>7, <1>11 DEF CutOut, InRange
  <2> HIDE DEF Got
  <2> QED BY <1>9, <1>11, <2>1
<1>12. CASE /\ b.bytesStart <= EndOf(b) /\ EndOf(b) > Len(file) /\ Got(Padded(b, file))
            /\ UNCHANGED down
  <2>1. EndOf(b) \in Nat /\ Len(file) \in Nat
    BY <1>2, <1>6, BatchAssumption DEF Block, EndOf
  <2>2. ~ InRange(b, file)
    BY <1>12, <2>1 DEF InRange
  <2>3. Padded(b, file) = CutOut(b, cache')
    BY <1>2, <1>7, <2>2 DEF CutOut
  <2> HIDE DEF Got
  <2> QED BY <1>9, <1>12, <2>3
<1>13. CASE ~ InRange(b, file) /\ down' = TRUE /\ UNCHANGED processor
  BY <1>1, <1>2, <1>13
<1> HIDE DEF Got
<1> QED BY <1>10, <1>11, <1>12, <1>13

\* The block that processor c gets next is a block of its batch.
LEMMA WantedBlock ==
  ASSUME Inv, NEW c \in Processors, processor[c].pc \in Working
  PROVE  /\ processor[c].batch \in Batches
         /\ Wanted(c) \in Block /\ Wanted(c).url \in DOMAIN Files
         /\ BatchNumber(Wanted(c)) \in Groups
         /\ \E i \in DOMAIN processor[c].batch.blocks : Wanted(c) = processor[c].batch.blocks[i]
<1>1. /\ processor[c].batch \in Batches /\ processor[c].data \in Seq(Seq(Unit))
      /\ Len(processor[c].data) < Len(Blocks(c))
  BY DEF Inv, Gathered
<1>2. /\ Len(processor[c].data) + 1 \in 1 .. Len(Blocks(c))
      /\ Len(processor[c].data) + 1 \in DOMAIN processor[c].batch.blocks
  BY <1>1, BatchAssumption DEF Blocks
<1>3. Wanted(c) \in Block /\ BatchNumber(Wanted(c)) \in Groups
  BY <1>1, <1>2, BlocksHaveKeys DEF Wanted, Blocks
<1>4. Wanted(c).url \in DOMAIN Files
  BY <1>3 DEF Block
<1> QED BY <1>1, <1>2, <1>3, <1>4 DEF Wanted, Blocks

\* A block is cut out of the file that is there.
LEMMA CacheHitEffect ==
  ASSUME Inv, NEW c \in Processors, SoundAt(c), CacheHit(c)
  PROVE  /\ processor[c].pc = "download"
         /\ \/ /\ Alone(c) /\ SoundAt(c)'
               /\ processor'[c].pc \in {"download", "wait"}
               /\ processor'[c].batch = processor[c].batch
               /\ processor'[c].result = processor[c].result
               /\ down' = down
            \/ /\ cache[BatchNumber(Wanted(c))] # None
               /\ ~ InRange(Wanted(c), Files[cache[BatchNumber(Wanted(c))]])
               /\ down' = TRUE /\ UNCHANGED processor
<1>1. /\ processor[c].pc = "download" /\ processor[c].pc \in Working
      /\ cache[BatchNumber(Wanted(c))] # None
      /\ Gather(c, Files[cache[BatchNumber(Wanted(c))]])
      /\ UNCHANGED <<cache, functionEnabled, encoding>>
  BY DEF CacheHit, Working, config
<1>2. PICK url : url = cache[BatchNumber(Wanted(c))]
  OBVIOUS
<1>3. url \in DOMAIN Files
  BY <1>1, <1>2, WantedBlock DEF Inv, CacheTyped
<1>4. CacheGrows
  BY <1>1 DEF CacheGrows
<1>5. cache'[BatchNumber(Wanted(c))] = url /\ Gather(c, Files[url])
  BY <1>1, <1>2
<1> QED BY <1>1, <1>2, <1>3, <1>4, <1>5, GatherEffect

\* The file is kept where there was none, and a block is cut out of it.
LEMMA DownloadedEffect ==
  ASSUME Inv, ~ down, NEW c \in Processors, SoundAt(c), Downloaded(c)
  PROVE  /\ processor[c].pc = "fetch"
         /\ cache[BatchNumber(Wanted(c))] = None
         /\ cache' = [cache EXCEPT ![BatchNumber(Wanted(c))] = Wanted(c).url]
         /\ CacheGrows
         /\ \/ /\ Alone(c) /\ SoundAt(c)'
               /\ processor'[c].pc \in {"download", "wait"}
               /\ processor'[c].batch = processor[c].batch
               /\ processor'[c].result = processor[c].result
               /\ down' = down
            \/ /\ ~ InRange(Wanted(c), Files[Wanted(c).url])
               /\ down' = TRUE /\ UNCHANGED processor
<1>1. /\ processor[c].pc = "fetch" /\ processor[c].pc \in Working
      /\ cache' = [cache EXCEPT ![BatchNumber(Wanted(c))] = Wanted(c).url]
      /\ Gather(c, Files[Wanted(c).url])
      /\ UNCHANGED <<functionEnabled, encoding>>
  BY DEF Downloaded, Working, config
<1>2. cache[BatchNumber(Wanted(c))] = None
  BY <1>1 DEF Inv, Locked
<1>3. PICK url : url = Wanted(c).url
  OBVIOUS
<1>4. url \in DOMAIN Files /\ BatchNumber(Wanted(c)) \in Groups
  BY <1>1, <1>3, WantedBlock
<1>5. CacheGrows /\ cache'[BatchNumber(Wanted(c))] = url
  BY <1>1, <1>2, <1>3, <1>4 DEF CacheGrows, Inv, CacheTyped
<1>6. Gather(c, Files[url])
  BY <1>1, <1>3
<1> QED BY <1>1, <1>2, <1>3, <1>4, <1>5, <1>6, GatherEffect

\* The others stay sound when one processor steps.
LEMMA AllSound ==
  ASSUME NEW c \in Processors, \A d \in Processors : SoundAt(d), Alone(c), SoundAt(c)',
         CacheGrows, UNCHANGED <<functionEnabled, encoding>>
  PROVE  \A d \in Processors : SoundAt(d)'
<1> SUFFICES ASSUME NEW d \in Processors PROVE SoundAt(d)'
  OBVIOUS
<1>1. CASE d = c
  BY <1>1
<1>2. CASE d # c
  <2>1. PICK p : p = processor[d]
    OBVIOUS
  <2>2. PICK later : later = cache'
    OBVIOUS
  <2>3. Sound(p, cache, functionEnabled, encoding) /\ Grows(cache, later)
    BY <2>1, <2>2 DEF SoundAt, CacheGrows, Grows
  <2>4. Sound(p, later, functionEnabled, encoding)
    BY <2>3, StillSound
  <2>5. processor'[d] = p
    BY <1>2, <2>1 DEF Alone
  <2> QED BY <2>2, <2>4, <2>5 DEF SoundAt
<1> QED BY <1>1, <1>2

\* So they do when a panic ends the process.
LEMMA PanicSound ==
  ASSUME \A d \in Processors : SoundAt(d), UNCHANGED <<processor, functionEnabled, encoding>>,
         CacheGrows
  PROVE  \A d \in Processors : SoundAt(d)'
<1> SUFFICES ASSUME NEW d \in Processors PROVE SoundAt(d)'
  OBVIOUS
<1>1. PICK p : p = processor[d]
  OBVIOUS
<1>2. PICK later : later = cache'
  OBVIOUS
<1>3. Sound(p, cache, functionEnabled, encoding) /\ Grows(cache, later)
  BY <1>1, <1>2 DEF SoundAt, CacheGrows, Grows
<1>4. Sound(p, later, functionEnabled, encoding)
  BY <1>3, StillSound
<1> QED BY <1>1, <1>2, <1>4 DEF SoundAt

\* The counters stay within their bounds, and the lock is somebody's or nobody's.
LEMMA CountersKept ==
  ASSUME Counters, NEW c \in Processors, Take(c) \/ ProcessorStep(c) \/ TaskStep(c)
  PROVE  Counters'
<1>1. CASE Take(c)
  <2>1. /\ processed[c] < MaxBatches /\ processed' = [processed EXCEPT ![c] = @ + 1]
        /\ UNCHANGED <<functionEnabled, encoding, lock, down, faults>>
    BY <1>1 DEF Take, config
  <2>2. processed[c] + 1 \in 0 .. MaxBatches
    BY <2>1, BoundAssumption DEF Counters
  <2>3. processed' \in [Processors -> 0 .. MaxBatches]
    BY <2>1, <2>2 DEF Counters
  <2> QED BY <2>1, <2>3 DEF Counters
<1>2. CASE CacheHit(c)
  <2>1. UNCHANGED down \/ down' = TRUE
    BY <1>2 DEF CacheHit, Gather
  <2> QED BY <1>2, <2>1 DEF CacheHit, Counters, config, bounds
<1>3. CASE CacheMiss(c)
  BY <1>3 DEF CacheMiss, Counters, config, bounds
<1>4. CASE Downloaded(c)
  <2>1. UNCHANGED down \/ down' = TRUE
    BY <1>4 DEF Downloaded, Gather
  <2> QED BY <1>4, <2>1 DEF Downloaded, Counters, config, bounds, Unlock
<1>5. CASE DownloadFails(c)
  BY <1>5, BoundAssumption DEF DownloadFails, Counters, config, Fault, Unlock
<1>6. CASE TasksFail(c) \/ Finish(c) \/ Deliver(c) \/ Report(c)
  BY <1>6 DEF TasksFail, Finish, Deliver, Report, Counters, config, bounds
<1>7. CASE TaskStep(c)
  <2>1. PICK i \in DOMAIN processor[c].tasks : TaskSucceeds(c, i) \/ TaskFails(c, i)
    BY <1>7 DEF TaskStep
  <2> QED BY <2>1, BoundAssumption DEF TaskSucceeds, TaskFails, Counters, config, bounds, Fault
<1> QED BY <1>1, <1>2, <1>3, <1>4, <1>5, <1>6, <1>7 DEF ProcessorStep

-----------------------------------------------------------------------------

\* Every step keeps all processors sound; what is kept stays.
LEMMA StepIsSound ==
  ASSUME Inv, AnswerInv, ~ down,
         NEW c \in Processors, Take(c) \/ ProcessorStep(c) \/ TaskStep(c)
  PROVE  AnswerInv' /\ CacheGrows
<1>1. /\ Shape /\ Counters /\ SoundAt(c)
      /\ \A d \in Processors : SoundAt(d)
  BY DEF Inv, AnswerInv, SoundAt
<1>2. Counters'
  BY <1>1, CountersKept
<1>3. ASSUME UNCHANGED cache PROVE CacheGrows
  BY <1>3 DEF CacheGrows
<1>4. /\ CacheGrows /\ UNCHANGED <<functionEnabled, encoding>>
      /\ \/ Alone(c) /\ SoundAt(c)'
         \/ UNCHANGED processor
  <2>1. CASE Take(c)
    <3>1. UNCHANGED <<cache, functionEnabled, encoding>>
      BY <2>1 DEF Take, config
    <3> QED BY <1>1, <1>3, <2>1, <3>1, TakeEffect
  <2>2. CASE CacheHit(c)
    <3>1. UNCHANGED <<cache, functionEnabled, encoding>>
      BY <2>2 DEF CacheHit, config
    <3> QED BY <1>1, <1>3, <2>2, <3>1, CacheHitEffect
  <2>3. CASE Downloaded(c)
    <3>1. UNCHANGED <<functionEnabled, encoding>>
      BY <2>3 DEF Downloaded, config
    <3> QED BY <1>1, <2>3, <3>1, DownloadedEffect
  <2>4. CASE CacheMiss(c) \/ DownloadFails(c) \/ TasksFail(c) \/ Report(c)
    <3>1. UNCHANGED <<cache, functionEnabled, encoding>>
      BY <2>4 DEF CacheMiss, DownloadFails, TasksFail, Report, config
    <3> QED BY <1>1, <1>3, <2>4, <3>1, MoveEffect
  <2>5. CASE Finish(c)
    <3>1. UNCHANGED <<cache, functionEnabled, encoding>>
      BY <2>5 DEF Finish, config
    <3> QED BY <1>1, <1>3, <2>5, <3>1, FinishEffect
  <2>6. CASE Deliver(c)
    <3>1. UNCHANGED <<cache, functionEnabled, encoding>>
      BY <2>6 DEF Deliver, config
    <3> QED BY <1>1, <1>3, <2>6, <3>1, DeliverEffect
  <2>7. CASE TaskStep(c)
    <3>1. PICK i \in DOMAIN processor[c].tasks : TaskSucceeds(c, i) \/ TaskFails(c, i)
      BY <2>7 DEF TaskStep
    <3>2. UNCHANGED <<cache, functionEnabled, encoding>>
      BY <3>1 DEF TaskSucceeds, TaskFails, config
    <3> QED BY <1>1, <1>3, <3>1, <3>2, TaskEffect
  <2> QED BY <2>1, <2>2, <2>3, <2>4, <2>5, <2>6, <2>7 DEF ProcessorStep
<1>5. \A d \in Processors : SoundAt(d)'
  <2>1. CASE Alone(c) /\ SoundAt(c)'
    BY <1>1, <1>4, <2>1, AllSound
  <2>2. CASE UNCHANGED processor
    BY <1>1, <1>4, <2>2, PanicSound
  <2> QED BY <1>4, <2>1, <2>2
<1> QED BY <1>2, <1>4, <1>5 DEF AnswerInv, SoundAt

\* The inductive invariant: where each batch is, and what it has got so far.
THEOREM AnswerInvHolds == Spec => []AnswerInv
<1>1. Init => AnswerInv
  <2> SUFFICES ASSUME Init PROVE AnswerInv
    OBVIOUS
  <2>1. Counters
    <3>1. 0 \in 0 .. MaxBatches /\ 0 \in 0 .. MaxFaults
      BY BoundAssumption
    <3>2. processed \in [Processors -> 0 .. MaxBatches]
      BY <3>1 DEF Init
    <3> QED BY <3>1, <3>2 DEF Init, Counters
  <2>2. ASSUME NEW c \in Processors PROVE Sound(processor[c], cache, functionEnabled, encoding)
    <3>1. PICK q : q = processor[c]
      OBVIOUS
    <3>2. /\ q.pc = "idle" /\ q.batch = None /\ q.data = << >> /\ q.tasks = << >>
          /\ q.results = << >> /\ q.err = "none" /\ q.result = None
      BY <3>1 DEF Init, Idle
    <3>3. Sound(q, cache, functionEnabled, encoding)
      BY <3>2, FreshIsSound
    <3> QED BY <3>1, <3>3
  <2> QED BY <2>1, <2>2 DEF AnswerInv
<1>2. Inv /\ AnswerInv /\ [Next]_vars => AnswerInv'
  <2> SUFFICES ASSUME Inv, AnswerInv, [Next]_vars PROVE AnswerInv'
    OBVIOUS
  <2>1. CASE Next
    <3>1. PICK c \in Processors : Take(c) \/ ProcessorStep(c) \/ TaskStep(c)
      BY <2>1 DEF Next
    <3>2. ~ down
      BY <2>1 DEF Next
    <3> QED BY <3>1, <3>2, StepIsSound
  <2>2. CASE UNCHANGED vars
    BY <2>2 DEF vars, AnswerInv, Counters
  <2> QED BY <2>1, <2>2
<1> QED BY <1>1, <1>2, InvHolds, PTL DEF Spec

\* Cache, lock and every processor's record keep their types: what the pool writes is
\* units, and what is handed over is a payload with its size and the numbers of its blocks.
THEOREM TypeCorrect == Spec => []TypeOK
<1>1. Inv /\ AnswerInv => TypeOK
  BY DEF Inv, CacheTyped, AnswerInv, Counters, Sound, Typed, Stages, Errors, TypeOK
<1> QED BY <1>1, InvHolds, AnswerInvHolds, PTL

-----------------------------------------------------------------------------
(***************************************************************************)
(* The payload of a processor that is ready.                               *)
(***************************************************************************)

\* What is known of a processor that has its payload.
LEMMA ReadyFacts ==
  ASSUME Inv, AnswerInv, NEW c \in Processors, processor[c].pc = "ready",
         NEW p, p = processor[c]
  PROVE  /\ p.batch \in Batches
         /\ p.data \in Seq(Seq(Unit)) /\ Len(p.data) # 0
         /\ p.results \in Seq(Seq(Unit)) /\ Len(p.results) = Len(p.data)
         /\ \A i \in DOMAIN p.tasks : p.tasks[i] = "done"
         /\ p.result = NewProcessedBatch(p.batch, p.results, encoding)
         /\ \A i \in 1 .. Len(p.data) :
              /\ p.data[i] \in Seq(Unit)
              /\ \A k \in 1 .. Len(p.data[i]) : ~ p.data[i][k].mapped
              /\ p.results[i] = Transformed(p.data[i], functionEnabled, encoding)
              /\ MustDecompress(functionEnabled, encoding) => Readable(p.data[i])
<1>1. Sound(p, cache, functionEnabled, encoding)
  BY DEF AnswerInv
<1>2. /\ p.batch \in Batches
      /\ p.data \in Seq(Seq(Unit)) /\ p.results \in Seq(Seq(Unit)) /\ p.tasks \in Seq(Tasks)
      /\ Len(p.results) = Len(p.data) /\ Len(p.tasks) = Len(p.data)
      /\ Len(p.data) = Len(p.batch.blocks)
      /\ p.result = NewProcessedBatch(p.batch, p.results, encoding)
      /\ \A i \in 1 .. Len(p.tasks) : p.tasks[i] = "done"
  BY <1>1 DEF Sound, Typed, Cutting, Staged, Answered
<1>3. p.batch.blocks \in Seq(Block) \ {<< >>} /\ Len(p.batch.blocks) # 0
  BY <1>2, BatchAssumption
<1>4. ASSUME NEW i \in 1 .. Len(p.data)
      PROVE  /\ p.data[i] \in Seq(Unit)
             /\ \A k \in 1 .. Len(p.data[i]) : ~ p.data[i][k].mapped
             /\ p.results[i] = Transformed(p.data[i], functionEnabled, encoding)
             /\ MustDecompress(functionEnabled, encoding) => Readable(p.data[i])
  <2>1. PICK b : b = p.batch.blocks[i]
    OBVIOUS
  <2>3. /\ cache[BatchNumber(b)] # None /\ b.bytesStart <= EndOf(b)
        /\ p.data[i] = CutOut(b, cache)
    BY <1>1, <2>1 DEF Sound, Cutting
  <2>4. b \in Block /\ BatchNumber(b) \in Groups
    <3>1. i \in 1 .. Len(p.batch.blocks)
      BY <1>2
    <3> QED BY <1>2, <2>1, <3>1, BlocksHaveKeys
  <2>5. cache[BatchNumber(b)] \in DOMAIN Files
    BY <2>3, <2>4 DEF Inv, CacheTyped
  <2>6. PICK kept : kept = cache
    OBVIOUS
  <2>7. /\ CutOut(b, kept) \in Seq(Unit)
        /\ \A k \in 1 .. Len(CutOut(b, kept)) : ~ CutOut(b, kept)[k].mapped
    BY <2>3, <2>4, <2>5, <2>6, CutOutIsRaw
  <2>8. /\ p.results[i] = Transformed(p.data[i], functionEnabled, encoding)
        /\ MustDecompress(functionEnabled, encoding) => Readable(p.data[i])
    <3>1. i \in 1 .. Len(p.tasks) /\ p.tasks[i] = "done"
      BY <1>2
    <3>2. Transforming(p, functionEnabled, encoding)
      BY <1>1 DEF Sound
    <3> QED BY <3>1, <3>2 DEF Transforming
  <2> QED BY <2>3, <2>6, <2>7, <2>8
<1>5. \A i \in DOMAIN p.tasks : p.tasks[i] = "done"
  <2>1. DOMAIN p.tasks = 1 .. Len(p.tasks)
    BY <1>2
  <2> QED BY <1>2, <2>1
<1>6. Len(p.results) = Len(p.data) /\ Len(p.data) # 0
  BY <1>2, <1>3
<1>7. \A i \in 1 .. Len(p.data) :
        /\ p.data[i] \in Seq(Unit)
        /\ \A k \in 1 .. Len(p.data[i]) : ~ p.data[i][k].mapped
        /\ p.results[i] = Transformed(p.data[i], functionEnabled, encoding)
        /\ MustDecompress(functionEnabled, encoding) => Readable(p.data[i])
  BY <1>4
<1> QED BY ONLY <1>2, <1>5, <1>6, <1>7

\* Whatever the order in which the tasks ended, a destination reads the blocks of the
\* batch in their order in what is handed over.
THEOREM PayloadHasItsBlocks == Spec => []PayloadIsTheBatch
<1>1. ASSUME Inv, AnswerInv, NEW c \in Processors, processor[c].pc = "ready"
      PROVE  Read(processor[c].result) = Wrapped(c)
  <2>1. PICK p : p = processor[c]
    OBVIOUS
  <2>2. functionEnabled \in BOOLEAN /\ encoding \in Encodings
    BY <1>1 DEF AnswerInv, Counters
  <2>3. PICK enabled \in BOOLEAN : enabled = functionEnabled
    BY <2>2
  <2>4. PICK type \in Encodings : type = encoding
    BY <2>2
  <2>5. PICK data \in Seq(Seq(Unit)) : data = p.data /\ Len(data) # 0
    BY <1>1, <2>1, ReadyFacts
  <2>6. PICK n \in Nat : n = Len(data) /\ n # 0 /\ DOMAIN data = 1 .. n
    BY <2>5
  <2>7. PICK results \in Seq(Seq(Unit)) :
          /\ results = p.results /\ Len(results) = n
          /\ \A i \in 1 .. n :
               /\ data[i] \in Seq(Unit)
               /\ \A k \in 1 .. Len(data[i]) : ~ data[i][k].mapped
               /\ results[i] = Transformed(data[i], enabled, type)
    BY <1>1, <2>1, <2>3, <2>4, <2>5, <2>6, ReadyFacts
  <2>8. p.result = NewProcessedBatch(p.batch, results, type)
    BY <1>1, <2>1, <2>4, <2>7, ReadyFacts
  <2> DEFINE contents(i) ==
               [k \in DOMAIN data[i] |-> [data[i][k] EXCEPT !.gz = FALSE, !.mapped = enabled]]
  <2>9. PICK texts : texts = [i \in 1 .. n |-> contents(i)]
    OBVIOUS
  <2>10. ASSUME NEW i \in 1 .. n
         PROVE  /\ texts[i] = contents(i)
                /\ type = "gzip" => texts[i] = Decompress(results[i])
                /\ type # "gzip" => texts[i] = results[i]
                /\ texts[i] \in Seq(Unit)
    <3>1. PICK d \in Seq(Unit) : d = data[i] /\ \A k \in 1 .. Len(d) : ~ d[k].mapped
      BY <2>7
    <3>2. /\ Transformed(d, enabled, type) \in Seq(Unit)
          /\ (IF type = "gzip" THEN Decompress(Transformed(d, enabled, type))
              ELSE Transformed(d, enabled, type))
               = [k \in DOMAIN d |-> [d[k] EXCEPT !.gz = FALSE, !.mapped = enabled]]
      <4>1. /\ Transformed(d, enabled, type) \in Seq(Unit)
            /\ (\A k \in 1 .. Len(d) : ~ d[k].mapped) =>
                 (IF type = "gzip" THEN Decompress(Transformed(d, enabled, type))
                  ELSE Transformed(d, enabled, type))
                   = [k \in DOMAIN d |-> [d[k] EXCEPT !.gz = FALSE, !.mapped = enabled]]
        BY TransformedText
      <4> QED BY <3>1, <4>1
    <3>3. PICK r \in Seq(Unit) : r = Transformed(d, enabled, type)
      BY <3>2
    <3>4. Decompress(r) \in Seq(Unit)
      BY DecompressUnits
    <3>5. results[i] = r
      BY <2>7, <3>1, <3>3
    <3>6. texts[i] = contents(i)
      BY <2>9
    <3>7. contents(i) = [k \in DOMAIN d |-> [d[k] EXCEPT !.gz = FALSE, !.mapped = enabled]]
      BY <3>1
    <3> HIDE DEF contents
    <3>8. (IF type = "gzip" THEN Decompress(r) ELSE r) = contents(i)
      BY <3>2, <3>3, <3>7
    <3> QED BY <3>3, <3>4, <3>5, <3>6, <3>8
  <2>11. texts \in Seq(Seq(Unit)) /\ Len(texts) = n
    <3>1. texts \in [1 .. n -> Seq(Unit)]
      <4>1. \A i \in 1 .. n : texts[i] \in Seq(Unit)
        BY <2>10
      <4> HIDE DEF contents
      <4> QED BY <2>9, <4>1
    <3> QED BY <3>1, FunctionIsSeq
  <2>12. PICK direction : direction = p.batch.direction
    OBVIOUS
  <2>13. PICK payload \in Seq(Unit) :
           payload = Build(results, direction, type)
    <3>1. Build(results, direction, type) \in Seq(Unit)
      BY PayloadLength
    <3> QED BY <3>1
  <2>14. (IF type = "gzip" THEN Decompress(payload) ELSE payload) = Build(texts, direction, "")
    <3>1. CASE type = "gzip"
      <4>1. texts = [i \in DOMAIN results |-> Decompress(results[i])]
        <5>1. DOMAIN results = 1 .. n
          BY <2>7
        <5>2. \A i \in 1 .. n : texts[i] = Decompress(results[i])
          BY <2>10, <3>1
        <5>3. texts = [i \in 1 .. n |-> texts[i]]
          BY <2>9
        <5> HIDE DEF contents
        <5> QED BY <5>1, <5>2, <5>3
      <4>2. Decompress(Build(results, direction, type)) = Build(texts, direction, "")
        <5> HIDE DEF contents
        <5> QED BY <4>1, DecompressPayload
      <4> QED BY <2>13, <3>1, <4>2
    <3>2. CASE type # "gzip"
      <4>1. results = texts
        <5>1. \A i \in 1 .. n : results[i] = texts[i]
          BY <2>10, <3>2
        <5> QED BY <2>7, <2>11, <5>1, SeqEqual
      <4>2. type = ""
        BY <3>2 DEF Encodings
      <4> QED BY <2>13, <3>2, <4>1, <4>2
    <3> QED BY <3>1, <3>2
  <2>15. p.result.encoding = type /\ p.result.data = payload
    BY <2>8, <2>12, <2>13 DEF NewProcessedBatch, Serialize
  <2>16. PICK plain \in Seq(Unit) : plain = Build(texts, direction, "")
    BY <2>11, PayloadLength
  <2>17. Read(p.result) = plain
    <3>1. plain = [k \in DOMAIN plain |-> plain[k]]
      OBVIOUS
    <3> QED BY <2>14, <2>15, <2>16, <3>1 DEF Read
  <2>18. PICK rest :
           /\ rest = [i \in 1 .. n - 1 |-> <<Plain(SeparatorText)>> \o texts[i + 1]]
           /\ plain = <<Plain(StartOf(direction))>> \o texts[1]
                        \o FlattenSeq(rest) \o <<Plain(EndText)>>
    BY <2>6, <2>11, <2>16, BuiltText
  <2>19. Wrapped(c) = <<Plain(StartOf(direction))>> \o texts[1]
                        \o FlattenSeq(rest) \o <<Plain(EndText)>>
    <3>1. contents(1) = texts[1]
      <4>1. 1 \in 1 .. n
        BY <2>6
      <4> QED BY <2>10, <4>1
    <3>2. rest = [i \in 1 .. n - 1 |-> <<Plain(SeparatorText)>> \o contents(i + 1)]
      <4>1. \A i \in 1 .. n - 1 : i + 1 \in 1 .. n
        BY <2>6
      <4>2. \A i \in 1 .. n - 1 : texts[i + 1] = contents(i + 1)
        BY <2>10, <4>1
      <4> HIDE DEF contents
      <4> QED BY <2>18, <4>2
    <3> QED BY <2>1, <2>3, <2>5, <2>6, <2>12, <3>1, <3>2 DEF Wrapped
  <2> QED BY <2>1, <2>17, <2>18, <2>19
<1>2. Inv /\ AnswerInv => PayloadIsTheBatch
  <2> SUFFICES ASSUME Inv, AnswerInv, NEW c \in Processors, processor[c].pc = "ready"
               PROVE  /\ \A i \in DOMAIN processor[c].tasks : processor[c].tasks[i] = "done"
                      /\ Read(processor[c].result) = Wrapped(c)
    BY DEF PayloadIsTheBatch
  <2> QED BY <1>1, ReadyFacts
<1> QED BY <1>2, InvHolds, AnswerInvHolds, PTL

\* Each block is where CalculateOffsets says, and the size billed is right.
THEOREM BlocksAreFound == Spec => []OffsetsFindBlocks
<1>1. ASSUME Inv, AnswerInv, NEW c \in Processors, processor[c].pc = "ready"
      PROVE  LET results == processor[c].results
                 payload == processor[c].result.data
                 offsets == CalculateOffsets(results, processor[c].batch.direction, encoding)
             IN /\ \A i \in DOMAIN results :
                     SubSeq(payload, offsets[i] + 1, offsets[i] + Len(results[i])) = results[i]
                /\ processor[c].result.size = Len(payload) - (Len(results) + 1)
  <2>1. PICK p : p = processor[c]
    OBVIOUS
  <2>2. PICK results \in Seq(Seq(Unit)) : results = p.results
    BY <1>1, <2>1, ReadyFacts
  <2>3. PICK direction : direction = p.batch.direction
    OBVIOUS
  <2>4. PICK type : type = encoding
    OBVIOUS
  <2>5. PICK payload \in Seq(Unit) : payload = Build(results, direction, type)
    BY PayloadLength
  <2>6. p.result.data = payload /\ p.result.size = LengthOf(results)
    <3>1. p.result = NewProcessedBatch(p.batch, results, type)
      BY <1>1, <2>1, <2>2, <2>4, ReadyFacts
    <3> QED BY <2>3, <2>5, <3>1 DEF NewProcessedBatch, Serialize
  <2>7. LengthOf(results) = Len(payload) - (Len(results) + 1)
    BY <2>5, PayloadLength
  <2>8. PICK offsets : offsets = CalculateOffsets(results, direction, type)
    OBVIOUS
  <2>9. \A i \in DOMAIN results :
          SubSeq(payload, offsets[i] + 1, offsets[i] + Len(results[i])) = results[i]
    <3> SUFFICES ASSUME NEW i \in 1 .. Len(results)
                 PROVE  SubSeq(payload, offsets[i] + 1, offsets[i] + Len(results[i])) = results[i]
      <4>1. DOMAIN results = 1 .. Len(results)
        OBVIOUS
      <4> QED BY <4>1
    <3>1. PICK offset : offset = CalculateOffsets(results, direction, type)[i]
      OBVIOUS
    <3>2. SubSeq(Build(results, direction, type), offset + 1, offset + Len(results[i])) = results[i]
      BY <3>1, OffsetsAreRight
    <3> QED BY <2>5, <2>8, <3>1, <3>2
  <2> QED BY <2>1, <2>2, <2>3, <2>4, <2>6, <2>7, <2>8, <2>9
<1>2. Inv /\ AnswerInv => OffsetsFindBlocks
  BY <1>1 DEF OffsetsFindBlocks
<1> QED BY <1>2, InvHolds, AnswerInvHolds, PTL

-----------------------------------------------------------------------------
(***************************************************************************)
(* The processors implement BatchAnswers.                                  *)
(***************************************************************************)

\* What BatchAnswers sees of the processors.
States == [c \in Processors |-> StateOf(c)]

BatchesTaken == [c \in Processors |-> processor[c].batch]

Payloads == [c \in Processors |-> processor[c].result]

\* A step of one processor changes what is seen of that one.
LEMMA SeenOfOne ==
  ASSUME Shape, NEW c \in Processors, Alone(c)
  PROVE  /\ States' = [States EXCEPT ![c] = StateOf(c)']
         /\ BatchesTaken' = [BatchesTaken EXCEPT ![c] = processor'[c].batch]
         /\ Payloads' = [Payloads EXCEPT ![c] = processor'[c].result]
<1>1. ASSUME NEW d \in Processors \ {c}
      PROVE  /\ StateOf(d)' = StateOf(d)
             /\ processor'[d].batch = processor[d].batch
             /\ processor'[d].result = processor[d].result
  BY DEF Alone, StateOf
<1>2. States' = [States EXCEPT ![c] = StateOf(c)']
  <2>1. States' = [d \in Processors |-> StateOf(d)']
    BY DEF States
  <2> QED BY <1>1, <2>1 DEF States
<1>3. BatchesTaken' = [BatchesTaken EXCEPT ![c] = processor'[c].batch]
  BY <1>1 DEF BatchesTaken
<1>4. Payloads' = [Payloads EXCEPT ![c] = processor'[c].result]
  BY <1>1 DEF Payloads
<1> QED BY <1>2, <1>3, <1>4

\* A step that leaves batch and payload of the one processor that moves as they are.
LEMMA OnlyStateSeen ==
  ASSUME Shape, NEW c \in Processors, Alone(c),
         processor'[c].batch = processor[c].batch,
         processor'[c].result = processor[c].result
  PROVE  /\ States' = [States EXCEPT ![c] = StateOf(c)']
         /\ BatchesTaken' = BatchesTaken
         /\ Payloads' = Payloads
<1>1. [BatchesTaken EXCEPT ![c] = processor[c].batch] = BatchesTaken
  BY DEF BatchesTaken
<1>2. [Payloads EXCEPT ![c] = processor[c].result] = Payloads
  BY DEF Payloads
<1> QED BY <1>1, <1>2, SeenOfOne

\* A step that is not seen at all.
LEMMA NotSeen ==
  ASSUME Shape, NEW c \in Processors, Alone(c),
         processor'[c].batch = processor[c].batch,
         processor'[c].result = processor[c].result,
         StateOf(c)' = StateOf(c)
  PROVE  /\ States' = States
         /\ BatchesTaken' = BatchesTaken
         /\ Payloads' = Payloads
<1>1. [States EXCEPT ![c] = StateOf(c)] = States
  BY DEF States
<1> QED BY <1>1, OnlyStateSeen

\* The state BatchAnswers sees, from the stage of a processor.
LEMMA StateSeen ==
  ASSUME NEW c \in Processors
  PROVE  /\ States[c] = StateOf(c)
         /\ processor[c].pc \in {"download", "fetch", "wait"} => StateOf(c) = "inHand"
         /\ processor[c].pc = "ready" => StateOf(c) = "answered"
         /\ processor[c].pc = "failed" => StateOf(c) = "refused"
         /\ processor[c].pc = "idle" => StateOf(c) = "idle"
         /\ processor[c].pc = "closed" => StateOf(c) = "closed"
BY DEF States, StateOf

\* The same after a step.
LEMMA StateSeenAfter ==
  ASSUME NEW c \in Processors
  PROVE  /\ processor'[c].pc \in {"download", "fetch", "wait"} => StateOf(c)' = "inHand"
         /\ processor'[c].pc = "ready" => StateOf(c)' = "answered"
         /\ processor'[c].pc = "failed" => StateOf(c)' = "refused"
         /\ processor'[c].pc = "idle" => StateOf(c)' = "idle"
         /\ processor'[c].pc = "closed" => StateOf(c)' = "closed"
BY DEF StateOf

\* A batch is taken in one step.
LEMMA TakeImplements ==
  ASSUME Shape, ~ down, NEW c \in Processors, SoundAt(c), Take(c)
  PROVE  Answers!Take(c)
<1>1. /\ Alone(c) /\ processor[c].pc = "idle" /\ processor'[c].pc = "download"
      /\ processor'[c].batch \in Batches /\ processor'[c].result = None
  BY TakeEffect
<1>2. processor[c].result = None
  BY <1>1 DEF SoundAt, Sound, Answered
<1>3. /\ States' = [States EXCEPT ![c] = "inHand"]
      /\ BatchesTaken' = [BatchesTaken EXCEPT ![c] = processor'[c].batch]
      /\ Payloads' = [Payloads EXCEPT ![c] = processor[c].result]
  BY <1>1, <1>2, SeenOfOne, StateSeenAfter
<1>4. Payloads' = Payloads
  BY <1>3 DEF Payloads
<1>5. States[c] = "idle"
  BY <1>1, StateSeen
<1>6. UNCHANGED <<functionEnabled, encoding, cache, down>>
  BY DEF Take, config
<1> QED BY <1>1, <1>3, <1>4, <1>5, <1>6 DEF Answers!Take, States, BatchesTaken, Payloads
\* A payload is handed over.
LEMMA DeliverImplements ==
  ASSUME Shape, ~ down, NEW c \in Processors, Deliver(c)
  PROVE  Answers!HandOver(c)
<1>1. /\ Alone(c) /\ processor[c].pc = "ready" /\ processor'[c].pc = "idle"
      /\ processor'[c].batch = None /\ processor'[c].result = None
  BY DeliverEffect
<1>2. /\ States' = [States EXCEPT ![c] = "idle"]
      /\ BatchesTaken' = [BatchesTaken EXCEPT ![c] = None]
      /\ Payloads' = [Payloads EXCEPT ![c] = None]
  BY <1>1, SeenOfOne, StateSeenAfter
<1>3. States[c] = "answered"
  BY <1>1, StateSeen
<1>4. UNCHANGED <<functionEnabled, encoding, cache, down>>
  BY DEF Deliver, config
<1> QED BY <1>2, <1>3, <1>4 DEF Answers!HandOver, States, BatchesTaken, Payloads

\* A download or a task that failed is a refusal, the report of it closes the
\* processor, and waiting for a file is not seen.
LEMMA MoveImplements ==
  ASSUME Shape, ~ down, NEW c \in Processors, SoundAt(c),
         CacheMiss(c) \/ DownloadFails(c) \/ TasksFail(c) \/ Report(c)
  PROVE  Answers!Refuse(c) \/ Answers!Close(c) \/ UNCHANGED Answers!answerVars
<1>1. /\ Alone(c)
      /\ processor'[c].batch = processor[c].batch
      /\ processor'[c].result = processor[c].result
      /\ CacheMiss(c) => processor[c].pc = "download" /\ processor'[c].pc = "fetch"
      /\ DownloadFails(c) => processor[c].pc = "fetch" /\ processor'[c].pc = "failed"
      /\ TasksFail(c) => processor[c].pc = "wait" /\ processor'[c].pc = "failed"
      /\ Report(c) => processor[c].pc = "failed" /\ processor'[c].pc = "closed"
  BY MoveEffect
<1>2. /\ States' = [States EXCEPT ![c] = StateOf(c)']
      /\ BatchesTaken' = BatchesTaken
      /\ Payloads' = Payloads
  BY <1>1, OnlyStateSeen
<1>3. UNCHANGED <<functionEnabled, encoding, cache, down>>
  BY DEF CacheMiss, DownloadFails, TasksFail, Report, config
<1>4. CASE DownloadFails(c) \/ TasksFail(c)
  <2>1. States[c] = "inHand" /\ StateOf(c)' = "refused"
    BY <1>1, <1>4, StateSeen, StateSeenAfter
  <2> QED BY <1>2, <1>3, <2>1
        DEF Answers!Refuse, Answers!InHand, States, BatchesTaken, Payloads
<1>5. CASE Report(c)
  <2>1. States[c] = "refused" /\ StateOf(c)' = "closed"
    BY <1>1, <1>5, StateSeen, StateSeenAfter
  <2> QED BY <1>2, <1>3, <2>1 DEF Answers!Close, States, BatchesTaken, Payloads
<1>6. CASE CacheMiss(c)
  <2>1. StateOf(c)' = StateOf(c)
    BY <1>1, <1>6, StateSeen, StateSeenAfter
  <2>2. States' = States
    BY <1>1, <2>1, NotSeen
  <2> QED BY <1>2, <1>3, <2>2 DEF Answers!answerVars, States, BatchesTaken, Payloads
<1> QED BY <1>4, <1>5, <1>6

\* The work of the pool is not seen.
LEMMA TaskImplements ==
  ASSUME Shape, NEW c \in Processors, SoundAt(c), Counters, TaskStep(c)
  PROVE  UNCHANGED Answers!answerVars
<1>1. PICK i \in DOMAIN processor[c].tasks : TaskSucceeds(c, i) \/ TaskFails(c, i)
  BY DEF TaskStep
<1>2. /\ Alone(c) /\ processor'[c].pc = processor[c].pc
      /\ processor'[c].batch = processor[c].batch
      /\ processor'[c].result = processor[c].result
  BY <1>1, TaskEffect
<1>3. StateOf(c)' = StateOf(c)
  BY <1>2 DEF StateOf
<1>4. UNCHANGED <<functionEnabled, encoding, cache, down>>
  BY <1>1 DEF TaskSucceeds, TaskFails, config
<1>5. States' = States /\ BatchesTaken' = BatchesTaken /\ Payloads' = Payloads
  BY <1>2, <1>3, NotSeen
<1> QED BY <1>4, <1>5 DEF Answers!answerVars, States, BatchesTaken, Payloads

\* BatchAnswers and BatchProcessing speak of blocks and ranges in the same terms,
LEMMA SameRanges ==
  ASSUME NEW b
  PROVE  /\ Answers!BatchNumber(b) = BatchNumber(b)
         /\ Answers!EndOf(b) = EndOf(b)
         /\ \A file : /\ Answers!InRange(b, file) = InRange(b, file)
                      /\ Answers!Slice(b, file) = Slice(b, file)
                      /\ Answers!Padded(b, file) = Padded(b, file)
<1>1. Answers!EndOf(b) = EndOf(b)
  BY DEF Answers!EndOf, EndOf
<1>2. Answers!Zero = Zero
  BY DEF Answers!Zero, Zero, Answers!Plain, Plain
<1> QED BY <1>1, <1>2 DEF Answers!BatchNumber, BatchNumber, Answers!InRange, InRange,
          Answers!Slice, Slice, Answers!Padded, Padded

\* and of what is done with the bytes.
LEMMA SameTransformation ==
  ASSUME NEW data, NEW enabled, NEW type
  PROVE  /\ Answers!Transformed(data, enabled, type) = Transformed(data, enabled, type)
         /\ Answers!MustDecompress(enabled, type) = MustDecompress(enabled, type)
         /\ Answers!Readable(data) = Readable(data)
BY DEF Answers!Transformed, Transformed, Answers!Compress, Compress,
       Answers!Decompress, Decompress, Answers!ApplyFunction, ApplyFunction,
       Answers!MustDecompress, MustDecompress, Answers!Readable, Readable

\* A payload is the same thing to both.
LEMMA SamePayload ==
  ASSUME NEW batch, NEW results, NEW type
  PROVE  Answers!NewProcessedBatch(batch, results, type)
           = NewProcessedBatch(batch, results, type)
<1>1. Answers!LengthOf(results) = LengthOf(results)
  BY DEF Answers!LengthOf, LengthOf, Answers!FoldLeft, FoldLeft,
         Answers!MapThenFoldSet, MapThenFoldSet, Answers!Max, Max
<1> QED BY <1>1
      DEF Answers!NewProcessedBatch, NewProcessedBatch, Answers!Serialize, Serialize,
          Answers!Build, Build, Answers!combineBytes, combineBytes, Answers!Piece, Piece,
          Answers!FlattenSeq, FlattenSeq, Answers!Member, Member, Answers!Plain, Plain,
          Answers!StartOf, StartOf, Answers!StartForward, StartForward,
          Answers!StartBackward, StartBackward, Answers!SeparatorText, SeparatorText,
          Answers!EndText, EndText

\* The bytes of a block in the file kept for it.
LEMMA SameBytes ==
  ASSUME NEW b
  PROVE  Answers!Bytes(b) = CutOut(b, cache)
<1>1. Answers!KeptFile(b) = Files[cache[BatchNumber(b)]]
  BY SameRanges DEF Answers!KeptFile
<1> QED BY <1>1, SameRanges DEF Answers!Bytes, CutOut
\* The results of a processor whose tasks are all done are those of the blocks of its
\* batch, cut out of the files kept.
LEMMA ResultsOfTheBatch ==
  ASSUME Inv, NEW c \in Processors, SoundAt(c), processor[c].pc = "wait",
         \A i \in 1 .. Len(processor[c].tasks) : processor[c].tasks[i] = "done"
  PROVE  /\ processor[c].batch \in Batches
         /\ \A i \in DOMAIN processor[c].batch.blocks :
              LET b == processor[c].batch.blocks[i] IN
              /\ cache[BatchNumber(b)] # None
              /\ b.bytesStart <= EndOf(b)
              /\ MustDecompress(functionEnabled, encoding) => Readable(CutOut(b, cache))
         /\ processor[c].results =
              [i \in DOMAIN processor[c].batch.blocks |->
                 Transformed(CutOut(processor[c].batch.blocks[i], cache),
                             functionEnabled, encoding)]
<1>1. PICK p : p = processor[c]
  OBVIOUS
<1>2. Sound(p, cache, functionEnabled, encoding)
  BY <1>1 DEF SoundAt
<1>3. /\ p.batch \in Batches
      /\ p.results \in Seq(Seq(Unit))
      /\ Len(p.results) = Len(p.tasks) /\ Len(p.tasks) = Len(p.data)
      /\ Len(p.data) = Len(p.batch.blocks)
  BY <1>1, <1>2 DEF Sound, Typed, Cutting, Staged
<1>4. PICK n \in Nat : n = Len(p.batch.blocks) /\ DOMAIN p.batch.blocks = 1 .. n
  <2>1. p.batch.blocks \in Seq(Block)
    BY <1>3, BatchAssumption
  <2> QED BY <2>1
<1>5. ASSUME NEW i \in 1 .. n
      PROVE  /\ cache[BatchNumber(p.batch.blocks[i])] # None
             /\ p.batch.blocks[i].bytesStart <= EndOf(p.batch.blocks[i])
             /\ p.data[i] = CutOut(p.batch.blocks[i], cache)
  BY <1>2, <1>3, <1>4 DEF Sound, Cutting
<1>6. ASSUME NEW i \in 1 .. n
      PROVE  /\ MustDecompress(functionEnabled, encoding) => Readable(p.data[i])
             /\ p.results[i] = Transformed(p.data[i], functionEnabled, encoding)
  <2>1. i \in 1 .. Len(p.tasks) /\ p.tasks[i] = "done"
    BY <1>1, <1>3, <1>4
  <2> QED BY <1>2, <2>1 DEF Sound, Transforming
<1>7. p.results = [i \in 1 .. n |->
                     Transformed(CutOut(p.batch.blocks[i], cache), functionEnabled, encoding)]
  <2>1. PICK r : r = p.results
    OBVIOUS
  <2>2. r = [i \in 1 .. n |-> r[i]]
    BY <1>3, <1>4, <2>1
  <2>3. \A i \in 1 .. n :
          r[i] = Transformed(CutOut(p.batch.blocks[i], cache), functionEnabled, encoding)
    BY <1>5, <1>6, <2>1
  <2> QED BY <2>1, <2>2, <2>3
<1>8. \A i \in 1 .. n :
        LET b == p.batch.blocks[i] IN
        /\ cache[BatchNumber(b)] # None
        /\ b.bytesStart <= EndOf(b)
        /\ MustDecompress(functionEnabled, encoding) => Readable(CutOut(b, cache))
  BY <1>5, <1>6
<1> QED BY <1>1, <1>3, <1>4, <1>7, <1>8

\* A batch whose tasks are all done is answered.
LEMMA FinishImplements ==
  ASSUME Inv, ~ down, NEW c \in Processors, SoundAt(c), Counters, Finish(c)
  PROVE  Answers!Answer(c)
<1>1. /\ Alone(c) /\ processor[c].pc = "wait" /\ processor'[c].pc = "ready"
      /\ processor'[c].batch = processor[c].batch
      /\ processor'[c].result =
           NewProcessedBatch(processor[c].batch, processor[c].results, encoding)
      /\ \A i \in 1 .. Len(processor[c].tasks) : processor[c].tasks[i] = "done"
  BY FinishEffect DEF Inv
<1>2. PICK batch : batch = processor[c].batch
  OBVIOUS
<1>3. /\ \A i \in DOMAIN batch.blocks :
           LET b == batch.blocks[i] IN
           /\ cache[BatchNumber(b)] # None
           /\ b.bytesStart <= EndOf(b)
           /\ MustDecompress(functionEnabled, encoding) => Readable(CutOut(b, cache))
      /\ processor[c].results =
           [i \in DOMAIN batch.blocks |->
              Transformed(CutOut(batch.blocks[i], cache), functionEnabled, encoding)]
  BY <1>1, <1>2, ResultsOfTheBatch
<1>4. \A i \in DOMAIN batch.blocks :
        LET b == batch.blocks[i] IN
        /\ cache[Answers!BatchNumber(b)] # None
        /\ b.bytesStart <= Answers!EndOf(b)
        /\ Answers!MustDecompress(functionEnabled, encoding) =>
             Answers!Readable(Answers!Bytes(b))
  BY <1>3, SameRanges, SameTransformation, SameBytes
<1>5. PICK results : results = processor[c].results
  OBVIOUS
<1>6. results = [i \in DOMAIN batch.blocks |->
                   Answers!Transformed(Answers!Bytes(batch.blocks[i]), functionEnabled, encoding)]
  <2>1. \A i : Answers!Transformed(Answers!Bytes(batch.blocks[i]), functionEnabled, encoding)
                 = Transformed(CutOut(batch.blocks[i], cache), functionEnabled, encoding)
    BY SameTransformation, SameBytes
  <2> QED BY <1>3, <1>5, <2>1
<1>7. processor'[c].result = Answers!NewProcessedBatch(batch, results, encoding)
  BY <1>1, <1>2, <1>5, SamePayload
<1>8. Payloads' = [Payloads EXCEPT ![c] = Answers!NewProcessedBatch(batch,
                     [i \in DOMAIN batch.blocks |->
                        Answers!Transformed(Answers!Bytes(batch.blocks[i]),
                                            functionEnabled, encoding)],
                     encoding)]
  <2>1. Payloads' = [Payloads EXCEPT ![c] = processor'[c].result]
    BY <1>1, SeenOfOne DEF Inv
  <2> QED BY <1>6, <1>7, <2>1
<1>9. States' = [States EXCEPT ![c] = "answered"] /\ States[c] = "inHand"
  BY <1>1, SeenOfOne, StateSeen, StateSeenAfter DEF Inv
<1>10. BatchesTaken' = BatchesTaken /\ BatchesTaken[c] = batch
  <2>1. BatchesTaken' = [BatchesTaken EXCEPT ![c] = processor[c].batch]
    BY <1>1, SeenOfOne DEF Inv
  <2> QED BY <1>2, <2>1 DEF BatchesTaken
<1>11. UNCHANGED <<functionEnabled, encoding, cache, down>>
  BY DEF Finish, config
<1> QED BY <1>4, <1>8, <1>9, <1>10, <1>11
        DEF Answers!Answer, Answers!InHand, States, BatchesTaken, Payloads

\* A range that is not in the file kept for it is a reason to panic.
LEMMA PanicSeen ==
  ASSUME NEW c \in Processors, NEW i \in DOMAIN processor[c].batch.blocks,
         NEW b, b = processor[c].batch.blocks[i],
         cache[BatchNumber(b)] # None, ~ InRange(b, Files[cache[BatchNumber(b)]])
  PROVE  Answers!MayPanic(c)
<1>1. cache[Answers!BatchNumber(b)] # None /\ ~ Answers!InRange(b, Answers!KeptFile(b))
  BY SameRanges DEF Answers!KeptFile
<1>2. BatchesTaken[c] = processor[c].batch
  BY DEF BatchesTaken
<1> QED BY <1>1, <1>2 DEF Answers!MayPanic, BatchesTaken

\* Bytes of a file that is kept are not seen, unless their range is not in the file.
LEMMA CacheHitImplements ==
  ASSUME Inv, ~ down, NEW c \in Processors, SoundAt(c), CacheHit(c)
  PROVE  Answers!Panic(c) \/ UNCHANGED Answers!answerVars
<1>1. /\ processor[c].pc = "download"
      /\ \/ /\ Alone(c)
            /\ processor'[c].pc \in {"download", "wait"}
            /\ processor'[c].batch = processor[c].batch
            /\ processor'[c].result = processor[c].result
            /\ down' = down
         \/ /\ cache[BatchNumber(Wanted(c))] # None
            /\ ~ InRange(Wanted(c), Files[cache[BatchNumber(Wanted(c))]])
            /\ down' = TRUE /\ UNCHANGED processor
  BY CacheHitEffect
<1>2. UNCHANGED <<functionEnabled, encoding, cache>>
  BY DEF CacheHit, config
<1>3. CASE /\ Alone(c)
           /\ processor'[c].pc \in {"download", "wait"}
           /\ processor'[c].batch = processor[c].batch
           /\ processor'[c].result = processor[c].result
           /\ down' = down
  <2>1. StateOf(c)' = StateOf(c)
    BY <1>1, <1>3, StateSeen, StateSeenAfter
  <2>2. States' = States /\ BatchesTaken' = BatchesTaken /\ Payloads' = Payloads
    BY <1>3, <2>1, NotSeen DEF Inv
  <2> QED BY <1>2, <1>3, <2>2 DEF Answers!answerVars, States, BatchesTaken, Payloads
<1>4. CASE /\ cache[BatchNumber(Wanted(c))] # None
           /\ ~ InRange(Wanted(c), Files[cache[BatchNumber(Wanted(c))]])
           /\ down' = TRUE /\ UNCHANGED processor
  <2>1. PICK i \in DOMAIN processor[c].batch.blocks : Wanted(c) = processor[c].batch.blocks[i]
    BY <1>1, WantedBlock DEF Working
  <2>2. Answers!MayPanic(c)
    BY <1>4, <2>1, PanicSeen
  <2>3. States' = States /\ BatchesTaken' = BatchesTaken /\ Payloads' = Payloads
    BY <1>4 DEF States, StateOf, BatchesTaken, Payloads
  <2>4. States[c] = "inHand"
    BY <1>1, StateSeen
  <2> QED BY <1>2, <1>4, <2>2, <2>3, <2>4
          DEF Answers!Panic, Answers!InHand, States, BatchesTaken, Payloads
<1> QED BY <1>1, <1>3, <1>4
\* The file downloaded is kept; when the range of the block is not in it, that may end
\* the process in the same step.
LEMMA DownloadedImplements ==
  ASSUME Inv, ~ down, NEW c \in Processors, SoundAt(c), Downloaded(c)
  PROVE  Answers!Keep(c)
<1>1. PICK b : b = Wanted(c)
  OBVIOUS
<1>2. /\ processor[c].pc = "fetch"
      /\ cache[BatchNumber(b)] = None
      /\ cache' = [cache EXCEPT ![BatchNumber(b)] = b.url]
      /\ \/ /\ Alone(c)
            /\ processor'[c].pc \in {"download", "wait"}
            /\ processor'[c].batch = processor[c].batch
            /\ processor'[c].result = processor[c].result
            /\ down' = down
         \/ /\ ~ InRange(b, Files[b.url])
            /\ down' = TRUE /\ UNCHANGED processor
  BY <1>1, DownloadedEffect
<1>3. /\ b.url \in DOMAIN Files /\ BatchNumber(b) \in Groups
      /\ \E i \in DOMAIN processor[c].batch.blocks : b = processor[c].batch.blocks[i]
  BY <1>1, <1>2, WantedBlock DEF Working
<1>4. PICK i \in DOMAIN processor[c].batch.blocks : b = processor[c].batch.blocks[i]
  BY <1>3
<1>5. UNCHANGED <<functionEnabled, encoding>>
  BY DEF Downloaded, config
<1>6. BatchesTaken[c] = processor[c].batch /\ States[c] = "inHand"
  BY <1>2, StateSeen DEF BatchesTaken
<1>7. /\ States' = States /\ BatchesTaken' = BatchesTaken /\ Payloads' = Payloads
      /\ down' = FALSE \/ (~ InRange(b, Files[b.url]) /\ down' = TRUE)
  <2>1. CASE /\ Alone(c)
             /\ processor'[c].pc \in {"download", "wait"}
             /\ processor'[c].batch = processor[c].batch
             /\ processor'[c].result = processor[c].result
             /\ down' = down
    <3>1. StateOf(c)' = StateOf(c)
      BY <1>2, <2>1, StateSeen, StateSeenAfter
    <3>2. down' = FALSE
      BY <2>1 DEF Inv
    <3> QED BY <2>1, <3>1, <3>2, NotSeen DEF Inv
  <2>2. CASE /\ ~ InRange(b, Files[b.url])
             /\ down' = TRUE /\ UNCHANGED processor
    BY <2>2 DEF States, StateOf, BatchesTaken, Payloads
  <2> QED BY <1>2, <2>1, <2>2
<1>8. /\ cache[Answers!BatchNumber(b)] = None
      /\ cache' = [cache EXCEPT ![Answers!BatchNumber(b)] = b.url]
  BY <1>2, SameRanges
<1>9. ASSUME ~ InRange(b, Files[b.url])
      PROVE  Answers!MayPanic(c)'
  <2>1. PICK later : later = cache'
    OBVIOUS
  <2>2. later[BatchNumber(b)] = b.url
    BY <1>2, <1>3, <2>1 DEF Inv, CacheTyped
  <2>3. later[Answers!BatchNumber(b)] # None
    BY <1>3, <2>2, NoneAssumption, SameRanges
  <2>4. ~ Answers!InRange(b, Files[later[Answers!BatchNumber(b)]])
    BY <1>9, <2>2, SameRanges
  <2>5. BatchesTaken'[c] = processor[c].batch
    BY <1>6, <1>7
  <2> QED BY <1>4, <2>1, <2>3, <2>4, <2>5
          DEF Answers!MayPanic, Answers!KeptFile, BatchesTaken
<1>10. down' = FALSE \/ (Answers!MayPanic(c)' /\ down' = TRUE)
  BY <1>7, <1>9
<1>11. \E k \in DOMAIN BatchesTaken[c].blocks :
         LET d == BatchesTaken[c].blocks[k] IN
         /\ cache[Answers!BatchNumber(d)] = None
         /\ cache' = [cache EXCEPT ![Answers!BatchNumber(d)] = d.url]
  BY <1>4, <1>6, <1>8
<1> QED BY <1>5, <1>6, <1>7, <1>10, <1>11
        DEF Answers!Keep, Answers!InHand, States, BatchesTaken, Payloads

\* The processors implement BatchAnswers: with their lock, their pool and the order in
\* which their steps happen, each batch is answered as if at one moment, with the payload
\* that its blocks have in the files kept by then, or it is refused.
THEOREM ProcessorsImplementAnswers == Spec => ProcessorsAnswerBatches
<1>1. Init => Answers!AnswersInit
  <2> SUFFICES ASSUME Init PROVE Answers!AnswersInit
    OBVIOUS
  <2>1. Answers!Groups = Groups
    BY SameRanges DEF Answers!Groups, Groups
  <2>2. Answers!Encodings = Encodings
    BY DEF Answers!Encodings, Encodings
  <2>3. \A c \in Processors :
          StateOf(c) = "idle" /\ processor[c].batch = None /\ processor[c].result = None
    BY DEF Init, Idle, StateOf
  <2> QED BY <2>1, <2>2, <2>3 DEF Init, Answers!AnswersInit
<1>2. Inv /\ AnswerInv /\ [Next]_vars => [Answers!AnswersNext]_Answers!answerVars
  <2> SUFFICES ASSUME Inv, AnswerInv, [Next]_vars
               PROVE  Answers!AnswersNext \/ UNCHANGED Answers!answerVars
    OBVIOUS
  <2>1. CASE Next
    <3>1. PICK c \in Processors : Take(c) \/ ProcessorStep(c) \/ TaskStep(c)
      BY <2>1 DEF Next
    <3>2. ~ down /\ Shape /\ Counters /\ SoundAt(c)
      BY <2>1 DEF Next, Inv, AnswerInv, SoundAt
    <3>3. \/ Answers!Take(c) \/ Answers!Keep(c) \/ Answers!Panic(c) \/ Answers!Answer(c)
          \/ Answers!HandOver(c) \/ Answers!Refuse(c) \/ Answers!Close(c)
          \/ UNCHANGED Answers!answerVars
      BY <3>1, <3>2, TakeImplements, CacheHitImplements, DownloadedImplements, MoveImplements,
         FinishImplements, DeliverImplements, TaskImplements DEF ProcessorStep
    <3> QED BY <3>3 DEF Answers!AnswersNext
  <2>2. CASE UNCHANGED vars
    BY <2>2 DEF vars, Answers!answerVars, StateOf
  <2> QED BY <2>1, <2>2
<1> QED BY <1>1, <1>2, InvHolds, AnswerInvHolds, PTL
        DEF Spec, ProcessorsAnswerBatches, Answers!AnswersSpec
=============================================================================
