----------------------- MODULE BatchProcessingProofs -----------------------
(***************************************************************************)
(* Proofs about BatchProcessing, for any number of processors, any set of  *)
(* batches and any files: a file is downloaded once for its hundred of     *)
(* blocks, and every block gets the bytes of its own range.                *)
(*                                                                         *)
(* Neither property is inductive.  That a file is not downloaded twice     *)
(* rests on the lock: who downloads holds it, and nobody has filled the    *)
(* cache since the lock was taken.  That the bytes a processor has cut out *)
(* stay right while others fill the cache rests on the cache: an entry is  *)
(* there before a block is cut out of it, and is never replaced.           *)
(***************************************************************************)
EXTENDS BatchProcessing, SequenceTheorems, TLAPS

Working == {"download", "fetch"}

\* processor is a function to records with the fields of Idle.
Shape ==
  /\ DOMAIN processor = Processors
  /\ \A c \in Processors :
       DOMAIN processor[c] = {"pc", "batch", "data", "tasks", "results", "err", "result"}

CacheTyped ==
  /\ cache \in [Groups -> DOMAIN Files \cup {None}]
  /\ downloads \in [Groups -> Nat]

Counted == \A g \in Groups : downloads[g] = IF cache[g] = None THEN 0 ELSE 1

Locked ==
  \A c \in Processors : processor[c].pc = "fetch" =>
    lock = c /\ cache[BatchNumber(Wanted(c))] = None

\* What must be true of the bytes cut out of a file for a block.
Cut(b, url, bytes) ==
  url = b.url /\ b.bytesStart <= b.bytesEnd /\ b.bytesEnd < Len(Files[url]) =>
    /\ Len(bytes) = b.bytesEnd - b.bytesStart + 1
    /\ \A k \in DOMAIN bytes : bytes[k] = Files[url][b.bytesStart + k]

Gathered(c) ==
  /\ processor[c].data \in Seq(Seq(Unit))
  /\ processor[c].pc \in Working =>
       processor[c].batch \in Batches /\ Len(processor[c].data) < Len(Blocks(c))
  /\ \A i \in 1 .. Len(processor[c].data) :
       /\ processor[c].batch \in Batches
       /\ i \in 1 .. Len(Blocks(c))
       /\ cache[BatchNumber(Blocks(c)[i])] # None
       /\ Cut(Blocks(c)[i], cache[BatchNumber(Blocks(c)[i])], processor[c].data[i])

Inv ==
  /\ Shape
  /\ CacheTyped
  /\ Counted
  /\ ~ down => Locked
  /\ \A c \in Processors : Gathered(c)

-----------------------------------------------------------------------------

\* The blocks of a batch are blocks, and the cache has a key for each.
LEMMA BlocksHaveKeys ==
  ASSUME NEW batch \in Batches, NEW i \in 1 .. Len(batch.blocks)
  PROVE  batch.blocks[i] \in Block /\ BatchNumber(batch.blocks[i]) \in Groups
<1>1. batch.blocks \in Seq(Block)
  BY BatchAssumption
<1>2. i \in DOMAIN batch.blocks /\ batch.blocks[i] \in Block
  BY <1>1
<1>3. BatchNumber(batch.blocks[i]) \in Groups
  BY <1>2 DEF Groups
<1> QED
  BY <1>2, <1>3

\* What is cut out of a file is a sequence of units, and where the range lies in
\* the file it is the range: the end plus one does not wrap around there.
LEMMA SliceCutsTheRange ==
  ASSUME NEW b \in Block, NEW url \in DOMAIN Files, InRange(b, Files[url])
  PROVE  /\ Slice(b, Files[url]) \in Seq(Unit)
         /\ Cut(b, url, Slice(b, Files[url]))
<1> DEFINE file == Files[url]
<1>1. file \in Seq(Unit) /\ Len(file) < Word /\ Word \in Nat \ {0}
  BY BatchAssumption
<1>2. b.bytesStart \in 0 .. Word - 1 /\ b.bytesEnd \in 0 .. Word - 1
  BY DEF Block
<1>3. EndOf(b) \in Nat
  BY <1>1, <1>2 DEF EndOf
<1>4. /\ b.bytesStart \in Nat /\ b.bytesEnd \in Nat
      /\ b.bytesStart <= EndOf(b) /\ EndOf(b) <= Len(file)
  BY <1>1, <1>2 DEF InRange
<1>5. /\ b.bytesStart + 1 \in Int /\ EndOf(b) \in Int
      /\ \A k \in b.bytesStart + 1 .. EndOf(b) : file[k] \in Unit
  BY <1>1, <1>3, <1>4
<1>6. /\ Slice(b, file) \in Seq(Unit)
      /\ Len(Slice(b, file)) = EndOf(b) - b.bytesStart
      /\ \A k \in 1 .. EndOf(b) - b.bytesStart : Slice(b, file)[k] = file[b.bytesStart + k]
  <2> DEFINE m == b.bytesStart + 1
             n == EndOf(b)
  <2>1. /\ SubSeq(file, m, n) \in Seq(Unit)
        /\ Len(SubSeq(file, m, n)) = IF m <= n THEN n - m + 1 ELSE 0
        /\ \A k \in 1 .. n - m + 1 : SubSeq(file, m, n)[k] = file[m + k - 1]
    <3> HIDE DEF m, n, file
    <3> QED
      BY <1>5, SubSeqProperties DEF m, n
  <2> QED
    BY <1>3, <1>4, <2>1, SMTT(30) DEF Slice
<1>7. DOMAIN Slice(b, file) = 1 .. EndOf(b) - b.bytesStart
  BY <1>6
<1>8. ASSUME b.bytesEnd < Len(file)
      PROVE  EndOf(b) = b.bytesEnd + 1
  BY <1>1, <1>2, <1>8, SMTT(30) DEF EndOf
<1> QED
  BY <1>2, <1>6, <1>7, <1>8 DEF Cut

\* Beyond the end of a file there are zeros: the range does not lie in the file.
LEMMA PaddingIsUnits ==
  ASSUME NEW b \in Block, NEW url \in DOMAIN Files,
         b.bytesStart <= EndOf(b), EndOf(b) > Len(Files[url])
  PROVE  /\ Padded(b, Files[url]) \in Seq(Unit)
         /\ Cut(b, url, Padded(b, Files[url]))
<1> DEFINE file == Files[url]
<1>1. file \in Seq(Unit) /\ Len(file) < Word /\ Word \in Nat \ {0}
  BY BatchAssumption
<1>2. b.bytesStart \in 0 .. Word - 1 /\ b.bytesEnd \in 0 .. Word - 1
  BY DEF Block
<1>3. EndOf(b) \in Nat
  BY <1>1, <1>2 DEF EndOf
<1>4. Zero \in Unit
  BY DEF Zero, Plain, Unit
<1>5. \A k \in 1 .. EndOf(b) - b.bytesStart :
        b.bytesStart + k <= Len(file) => file[b.bytesStart + k] \in Unit
  BY <1>1, <1>2
<1>6. Padded(b, file) \in [1 .. EndOf(b) - b.bytesStart -> Unit]
  BY <1>4, <1>5 DEF Padded
<1>7. EndOf(b) - b.bytesStart \in Nat
  BY <1>2, <1>3
<1>8. Padded(b, file) \in Seq(Unit)
  BY <1>6, <1>7, IsASeq
<1>9. ~ b.bytesEnd < Len(file)
  BY <1>1, <1>2 DEF EndOf
<1> QED
  BY <1>8, <1>9 DEF Cut

-----------------------------------------------------------------------------

\* Processor c has got the bytes of the block it wanted, out of the file at url, and
\* nothing else has happened to the processors.
Gains(c, url) ==
  \E bytes \in Seq(Unit) :
    /\ Cut(Wanted(c), url, bytes)
    /\ processor'[c].data = Append(processor[c].data, bytes)
    /\ processor'[c].batch = processor[c].batch
    /\ processor'[c].pc \in {"download", "wait"}
    /\ processor'[c].pc = "download" => Len(processor[c].data) + 1 < Len(Blocks(c))
    /\ \A d \in Processors \ {c} : processor'[d] = processor[d]

\* Gather, however the range lies in the file: a panic, or bytes for the block wanted.
LEMMA GatherGains ==
  ASSUME Shape, NEW c \in Processors, NEW url \in DOMAIN Files,
         Wanted(c) \in Block, processor[c].data \in Seq(Seq(Unit)),
         Gather(c, Files[url])
  PROVE  /\ Shape'
         /\ Gains(c, url) \/ (down' /\ UNCHANGED processor)
<1> DEFINE b == Wanted(c)
           file == Files[url]
           Got(bytes) ==
             LET data == Append(processor[c].data, bytes) IN
             processor' =
               IF Len(data) < Len(Blocks(c))
                 THEN [processor EXCEPT ![c].pc = "download", ![c].data = data]
                 ELSE [processor EXCEPT ![c] =
                        [@ EXCEPT !.pc = "wait", !.data = data,
                                  !.tasks = [i \in DOMAIN data |-> "queued"],
                                  !.results = [i \in DOMAIN data |-> << >>]]]
<1>1. ASSUME NEW bytes \in Seq(Unit), Cut(b, url, bytes), Got(bytes)
      PROVE  Shape' /\ Gains(c, url)
  <2> DEFINE data == Append(processor[c].data, bytes)
  <2>1. Len(data) = Len(processor[c].data) + 1
    OBVIOUS
  <2>2. CASE Len(data) < Len(Blocks(c))
    <3>1. processor' = [processor EXCEPT ![c].pc = "download", ![c].data = data]
      BY <1>1, <2>2
    <3> HIDE DEF data
    <3>2. Shape'
      BY <3>1 DEF Shape
    <3>3. /\ processor'[c].data = data
          /\ processor'[c].batch = processor[c].batch
          /\ processor'[c].pc = "download"
          /\ \A d \in Processors \ {c} : processor'[d] = processor[d]
      BY <3>1 DEF Shape
    <3> QED
      BY <1>1, <2>1, <2>2, <3>2, <3>3 DEF Gains, data
  <2>3. CASE ~ Len(data) < Len(Blocks(c))
    <3> DEFINE tasks == [i \in DOMAIN data |-> "queued"]
               results == [i \in DOMAIN data |-> << >>]
    <3>1. processor' = [processor EXCEPT ![c] =
                         [@ EXCEPT !.pc = "wait", !.data = data,
                                   !.tasks = tasks, !.results = results]]
      BY <1>1, <2>3
    <3> HIDE DEF data, tasks, results
    <3>2. Shape'
      BY <3>1 DEF Shape
    <3>3. /\ processor'[c].data = data
          /\ processor'[c].batch = processor[c].batch
          /\ processor'[c].pc = "wait"
          /\ \A d \in Processors \ {c} : processor'[d] = processor[d]
      BY <3>1 DEF Shape
    <3> QED
      BY <1>1, <3>2, <3>3 DEF Gains, data
  <2> QED
    BY <2>2, <2>3
<1>2. CASE InRange(b, file) /\ Got(Slice(b, file))
  BY <1>1, <1>2, SliceCutsTheRange
<1>3. CASE b.bytesStart <= EndOf(b) /\ EndOf(b) > Len(file) /\ Got(Padded(b, file))
  BY <1>1, <1>3, PaddingIsUnits
<1>4. CASE down' /\ UNCHANGED processor
  BY <1>4 DEF Shape
<1>5. \/ InRange(b, file) /\ Got(Slice(b, file))
      \/ b.bytesStart <= EndOf(b) /\ EndOf(b) > Len(file) /\ Got(Padded(b, file))
      \/ down' /\ UNCHANGED processor
  BY DEF Gather
<1> QED
  BY <1>2, <1>3, <1>4, <1>5

\* An entry of the cache is never replaced.
CacheGrows == \A g \in Groups : cache[g] # None => cache'[g] = cache[g]

\* What processor d has gathered stays right while the cache grows, as long as d
\* does not begin to download again.
LEMMA GatheredStays ==
  ASSUME CacheGrows, NEW d \in Processors, Gathered(d),
         processor'[d].data = processor[d].data,
         processor'[d].batch = processor[d].batch,
         processor'[d].pc \in Working => processor[d].pc \in Working
  PROVE  Gathered(d)'
<1>1. Blocks(d)' = Blocks(d)
  BY DEF Blocks
<1>2. ASSUME NEW i \in 1 .. Len(processor[d].data)
      PROVE  cache'[BatchNumber(Blocks(d)[i])] = cache[BatchNumber(Blocks(d)[i])]
  <2>1. processor[d].batch \in Batches /\ i \in 1 .. Len(Blocks(d))
        /\ cache[BatchNumber(Blocks(d)[i])] # None
    BY DEF Gathered
  <2>2. BatchNumber(Blocks(d)[i]) \in Groups
    BY <2>1, BlocksHaveKeys DEF Blocks
  <2> QED
    BY <2>1, <2>2 DEF CacheGrows
<1> QED
  BY <1>1, <1>2 DEF Gathered

\* The same for the processor that gets the bytes of one more block.
LEMMA GatheredGrows ==
  ASSUME CacheGrows, NEW c \in Processors, Gathered(c),
         processor[c].pc \in Working,
         NEW url \in DOMAIN Files, Gains(c, url),
         cache'[BatchNumber(Wanted(c))] = url
  PROVE  Gathered(c)'
<1> DEFINE n == Len(processor[c].data)
<1>1. /\ processor[c].data \in Seq(Seq(Unit))
      /\ processor[c].batch \in Batches
      /\ n < Len(Blocks(c))
  BY DEF Gathered
<1>2. PICK bytes \in Seq(Unit) :
        /\ Cut(Wanted(c), url, bytes)
        /\ processor'[c].data = Append(processor[c].data, bytes)
        /\ processor'[c].batch = processor[c].batch
        /\ processor'[c].pc \in {"download", "wait"}
        /\ processor'[c].pc = "download" => n + 1 < Len(Blocks(c))
  BY DEF Gains
<1>3. Blocks(c)' = Blocks(c)
  BY <1>2 DEF Blocks
<1>4. /\ processor'[c].data \in Seq(Seq(Unit))
      /\ n \in Nat
      /\ Len(processor'[c].data) = n + 1
      /\ \A i \in 1 .. n : processor'[c].data[i] = processor[c].data[i]
      /\ processor'[c].data[n + 1] = bytes
  BY <1>1, <1>2
<1>5. Blocks(c) \in Seq(Block)
  BY <1>1, BatchAssumption DEF Blocks
<1>6. ASSUME NEW i \in 1 .. n + 1
      PROVE  /\ i \in 1 .. Len(Blocks(c))
             /\ cache'[BatchNumber(Blocks(c)[i])] # None
             /\ Cut(Blocks(c)[i], cache'[BatchNumber(Blocks(c)[i])], processor'[c].data[i])
  <2>1. i \in 1 .. Len(Blocks(c))
    BY <1>1, <1>4, <1>5
  <2>2. CASE i \in 1 .. n
    <3>1. /\ cache[BatchNumber(Blocks(c)[i])] # None
          /\ Cut(Blocks(c)[i], cache[BatchNumber(Blocks(c)[i])], processor[c].data[i])
      BY <2>2 DEF Gathered
    <3>2. BatchNumber(Blocks(c)[i]) \in Groups
      BY <1>1, <2>1, BlocksHaveKeys DEF Blocks
    <3> QED
      BY <1>4, <2>1, <2>2, <3>1, <3>2 DEF CacheGrows
  <2>3. CASE i = n + 1
    <3>1. Blocks(c)[i] = Wanted(c)
      BY <2>3 DEF Wanted
    <3> QED
      BY <1>2, <1>4, <2>1, <2>3, <3>1, NoneAssumption
  <2>4. i \in 1 .. n \/ i = n + 1
    <3> HIDE DEF n
    <3> QED
      BY <1>4
  <2> QED
    BY <2>2, <2>3, <2>4
<1>7. processor'[c].pc \in Working => n + 1 < Len(Blocks(c))
  BY <1>2 DEF Working
<1> QED
  BY <1>1, <1>2, <1>3, <1>4, <1>6, <1>7 DEF Gathered

\* A step that leaves cache, lock and gathered bytes alone, and lets nobody begin to
\* download, keeps the invariant.
LEMMA QuietStep ==
  ASSUME Inv, Shape', UNCHANGED <<cache, lock, downloads, down>>,
         \A d \in Processors :
           /\ processor'[d].data = processor[d].data
           /\ processor'[d].batch = processor[d].batch
           /\ processor'[d].pc = processor[d].pc \/ processor'[d].pc \notin Working
  PROVE  Inv'
<1>1. CacheTyped' /\ Counted' /\ CacheGrows
  BY DEF Inv, CacheTyped, Counted, CacheGrows
<1>2. \A d \in Processors : Gathered(d)'
  BY <1>1, GatheredStays DEF Inv
<1>3. ~ down' => Locked'
  BY DEF Inv, Locked, Working, Wanted, Blocks
<1> QED
  BY <1>1, <1>2, <1>3 DEF Inv

\* A processor that returns to its loop, with or without a new batch.
LEMMA FreshStep ==
  ASSUME Inv, UNCHANGED <<cache, lock, downloads, down>>, NEW c \in Processors,
         NEW fresh, processor' = [processor EXCEPT ![c] = fresh],
         DOMAIN fresh = {"pc", "batch", "data", "tasks", "results", "err", "result"},
         fresh.data = << >>,
         \/ fresh.pc = "idle"
         \/ fresh.pc = "download" /\ fresh.batch \in Batches
  PROVE  Inv'
<1>1. CacheTyped' /\ Counted' /\ CacheGrows
  BY DEF Inv, CacheTyped, Counted, CacheGrows
<1>2. /\ processor'[c] = fresh
      /\ \A d \in Processors \ {c} : processor'[d] = processor[d]
      /\ Shape'
  BY DEF Inv, Shape
<1>3. Gathered(c)'
  <2>1. fresh.batch \in Batches => Len(fresh.batch.blocks) > 0
    BY BatchAssumption
  <2>2. << >> \in Seq(Seq(Unit)) /\ Len(<< >>) = 0
    OBVIOUS
  <2>3. processor'[c].data \in Seq(Seq(Unit)) /\ Len(processor'[c].data) = 0
    <3>1. processor'[c].data = << >>
      BY <1>2
    <3> QED
      BY <2>2, <3>1
  <2> QED
    BY <1>2, <2>1, <2>3 DEF Gathered, Working, Blocks
<1>4. \A d \in Processors \ {c} : Gathered(d)'
  BY <1>1, <1>2, GatheredStays DEF Inv
<1>5. ~ down' => Locked'
  BY <1>2 DEF Inv, Locked, Wanted, Blocks
<1> QED
  BY <1>1, <1>2, <1>3, <1>4, <1>5 DEF Inv

\* A block cut out of a file that is already there.
LEMMA CacheHitKeeps ==
  ASSUME Inv, ~ down, NEW c \in Processors, CacheHit(c)
  PROVE  Inv'
<1> DEFINE g == BatchNumber(Wanted(c))
           url == cache[g]
<1>1. /\ processor[c].pc \in Working
      /\ processor[c].batch \in Batches
      /\ processor[c].data \in Seq(Seq(Unit))
      /\ Len(processor[c].data) < Len(Blocks(c))
  BY DEF CacheHit, Inv, Gathered, Working
<1>2. Wanted(c) \in Block /\ g \in Groups
  <2>1. Len(processor[c].data) + 1 \in 1 .. Len(Blocks(c))
    BY <1>1, BatchAssumption DEF Blocks
  <2> QED
    BY <1>1, <2>1, BlocksHaveKeys DEF Wanted, Blocks
<1>3. url \in DOMAIN Files
  BY <1>2 DEF CacheHit, Inv, CacheTyped
<1>4. UNCHANGED <<cache, lock, downloads>> /\ lock = None
  BY DEF CacheHit, LockFree
<1>5. Shape' /\ (Gains(c, url) \/ (down' /\ UNCHANGED processor))
  BY <1>1, <1>2, <1>3, GatherGains DEF CacheHit, Inv
<1>6. CacheTyped' /\ Counted' /\ CacheGrows
  BY <1>4 DEF Inv, CacheTyped, Counted, CacheGrows
<1>7. CASE Gains(c, url)
  <2>1. Gathered(c)'
    BY <1>1, <1>3, <1>4, <1>6, <1>7, GatheredGrows DEF Inv
  <2>2. \A d \in Processors \ {c} : Gathered(d)'
    BY <1>6, <1>7, GatheredStays DEF Inv, Gains
  <2>3. \A d \in Processors : processor'[d].pc # "fetch"
    BY <1>4, <1>7, NoneAssumption DEF Gains, Inv, Locked
  <2> QED
    BY <1>5, <1>6, <2>1, <2>2, <2>3 DEF Inv, Locked
<1>8. CASE down' /\ UNCHANGED processor
  <2>1. \A d \in Processors : Gathered(d)'
    BY <1>6, <1>8, GatheredStays DEF Inv
  <2> QED
    BY <1>5, <1>6, <1>8, <2>1 DEF Inv
<1> QED
  BY <1>5, <1>7, <1>8

\* The lock is taken when nobody holds it, hence nobody is downloading.
LEMMA CacheMissKeeps ==
  ASSUME Inv, ~ down, NEW c \in Processors, CacheMiss(c)
  PROVE  Inv'
<1>1. CacheTyped' /\ Counted' /\ CacheGrows
  BY DEF CacheMiss, Inv, CacheTyped, Counted, CacheGrows
<1>2. /\ Shape'
      /\ processor'[c].pc = "fetch" /\ processor[c].pc = "download"
      /\ processor'[c].data = processor[c].data /\ processor'[c].batch = processor[c].batch
      /\ \A d \in Processors \ {c} : processor'[d] = processor[d]
  BY DEF CacheMiss, Inv, Shape
<1>3. \A d \in Processors : Gathered(d)'
  BY <1>1, <1>2, GatheredStays DEF Inv, Working
<1>4. Locked'
  <2>1. \A d \in Processors : processor[d].pc # "fetch"
    BY NoneAssumption DEF CacheMiss, LockFree, Inv, Locked
  <2>2. Wanted(c)' = Wanted(c)
    BY <1>2 DEF Wanted, Blocks
  <2> QED
    BY <1>2, <2>1, <2>2 DEF Locked, CacheMiss
<1> QED
  BY <1>1, <1>2, <1>3, <1>4 DEF Inv

\* The file goes into an empty entry of the cache, which the lock has kept empty.
LEMMA DownloadedKeeps ==
  ASSUME Inv, ~ down, NEW c \in Processors, Downloaded(c)
  PROVE  Inv'
<1> DEFINE b == Wanted(c)
           g == BatchNumber(b)
<1>1. /\ processor[c].pc = "fetch"
      /\ cache' = [cache EXCEPT ![g] = b.url]
      /\ downloads' = [downloads EXCEPT ![g] = @ + 1]
      /\ Gather(c, Files[b.url])
      /\ lock' = None
  BY DEF Downloaded, Unlock
<1>2. /\ processor[c].pc \in Working
      /\ processor[c].batch \in Batches
      /\ processor[c].data \in Seq(Seq(Unit))
      /\ Len(processor[c].data) < Len(Blocks(c))
  BY <1>1 DEF Inv, Gathered, Working
<1>3. b \in Block /\ g \in Groups /\ b.url \in DOMAIN Files
  <2>1. Len(processor[c].data) + 1 \in 1 .. Len(Blocks(c))
    BY <1>2, BatchAssumption DEF Blocks
  <2>2. b \in Block /\ g \in Groups
    BY <1>2, <2>1, BlocksHaveKeys DEF Wanted, Blocks
  <2> QED
    BY <2>2 DEF Block
<1>4. lock = c /\ cache[g] = None
  BY <1>1 DEF Inv, Locked
<1>5. CacheTyped' /\ CacheGrows /\ cache'[g] = b.url
  BY <1>1, <1>3, <1>4 DEF Inv, CacheTyped, CacheGrows
<1>6. Counted'
  BY <1>1, <1>3, <1>4, NoneAssumption DEF Inv, CacheTyped, Counted
<1>7. Shape' /\ (Gains(c, b.url) \/ (down' /\ UNCHANGED processor))
  BY <1>1, <1>2, <1>3, GatherGains DEF Inv
<1>8. CASE Gains(c, b.url)
  <2>1. Gathered(c)'
    BY <1>2, <1>3, <1>5, <1>8, GatheredGrows DEF Inv
  <2>2. \A d \in Processors \ {c} : Gathered(d)'
    BY <1>5, <1>8, GatheredStays DEF Inv, Gains
  <2>3. \A d \in Processors : processor'[d].pc # "fetch"
    BY <1>4, <1>8 DEF Gains, Inv, Locked
  <2> QED
    BY <1>5, <1>6, <1>7, <2>1, <2>2, <2>3 DEF Inv, Locked
<1>9. CASE down' /\ UNCHANGED processor
  <2>1. \A d \in Processors : Gathered(d)'
    BY <1>5, <1>9, GatheredStays DEF Inv
  <2> QED
    BY <1>5, <1>6, <1>7, <1>9, <2>1 DEF Inv
<1> QED
  BY <1>7, <1>8, <1>9

\* The lock is given back with the entry still empty.
LEMMA DownloadFailsKeeps ==
  ASSUME Inv, ~ down, NEW c \in Processors, DownloadFails(c)
  PROVE  Inv'
<1>1. CacheTyped' /\ Counted' /\ CacheGrows
  BY DEF DownloadFails, Inv, CacheTyped, Counted, CacheGrows
<1>2. /\ Shape'
      /\ processor'[c].pc = "failed"
      /\ processor'[c].data = processor[c].data /\ processor'[c].batch = processor[c].batch
      /\ \A d \in Processors \ {c} : processor'[d] = processor[d]
  BY DEF DownloadFails, Inv, Shape
<1>3. \A d \in Processors : Gathered(d)'
  BY <1>1, <1>2, GatheredStays DEF Inv, Working
<1>4. \A d \in Processors : processor'[d].pc # "fetch"
  BY <1>2 DEF DownloadFails, Inv, Locked
<1> QED
  BY <1>1, <1>2, <1>3, <1>4 DEF Inv, Locked

\* The steps of the tasks, and those behind the last task.
LEMMA TransformingKeeps ==
  ASSUME Inv, NEW c \in Processors,
         \/ \E i \in DOMAIN processor[c].tasks : TaskSucceeds(c, i) \/ TaskFails(c, i)
         \/ TasksFail(c) \/ Finish(c) \/ Report(c)
  PROVE  Inv'
<1>1. UNCHANGED <<cache, lock, downloads, down>>
  BY DEF TaskSucceeds, TaskFails, TasksFail, Finish, Report, bounds
<1> DEFINE Quiet == /\ Shape'
                    /\ \A d \in Processors :
                         /\ processor'[d].data = processor[d].data
                         /\ processor'[d].batch = processor[d].batch
                         /\ processor'[d].pc = processor[d].pc \/ processor'[d].pc \notin Working
<1>2. ASSUME NEW i \in DOMAIN processor[c].tasks, TaskSucceeds(c, i)
      PROVE  Quiet
  <2>1. PICK data : processor' = [processor EXCEPT ![c].tasks[i] = "done", ![c].results[i] = data]
    BY <1>2 DEF TaskSucceeds, Store
  <2> QED
    BY <2>1 DEF Inv, Shape
<1>3. ASSUME NEW i \in DOMAIN processor[c].tasks, TaskFails(c, i)
      PROVE  Quiet
  BY <1>3 DEF TaskFails, Inv, Shape
<1>4. ASSUME TasksFail(c)
      PROVE  Quiet
  BY <1>4 DEF TasksFail, Inv, Shape, Working
<1>5. ASSUME Finish(c)
      PROVE  Quiet
  <2>1. PICK result : processor' = [processor EXCEPT ![c].pc = "ready", ![c].result = result]
    BY <1>5 DEF Finish
  <2> QED
    BY <2>1 DEF Inv, Shape, Working
<1>6. ASSUME Report(c)
      PROVE  Quiet
  BY <1>6 DEF Report, Inv, Shape, Working
<1>7. Quiet
  BY <1>2, <1>3, <1>4, <1>5, <1>6
<1> QED
  BY <1>1, <1>7, QuietStep

\* The steps that begin or end a batch.
LEMMA LoopingKeeps ==
  ASSUME Inv, NEW c \in Processors, Take(c) \/ Deliver(c)
  PROVE  Inv'
<1>1. /\ DOMAIN Idle = {"pc", "batch", "data", "tasks", "results", "err", "result"}
      /\ Idle.data = << >> /\ Idle.pc = "idle"
  BY DEF Idle
<1>2. CASE Take(c)
  <2>1. PICK batch \in Batches :
          processor' = [processor EXCEPT ![c] = [Idle EXCEPT !.pc = "download", !.batch = batch]]
    BY <1>2 DEF Take
  <2> DEFINE fresh == [Idle EXCEPT !.pc = "download", !.batch = batch]
  <2>2. /\ DOMAIN fresh = {"pc", "batch", "data", "tasks", "results", "err", "result"}
        /\ fresh.data = << >> /\ fresh.pc = "download" /\ fresh.batch = batch
    BY <1>1
  <2>3. UNCHANGED <<cache, lock, downloads, down>>
    BY <1>2 DEF Take
  <2> HIDE DEF fresh
  <2> QED
    BY <2>1, <2>2, <2>3, FreshStep DEF fresh
<1>3. CASE Deliver(c)
  <2>1. UNCHANGED <<cache, lock, downloads, down>> /\ processor' = [processor EXCEPT ![c] = Idle]
    BY <1>3 DEF Deliver, bounds
  <2> QED
    BY <1>1, <2>1, FreshStep
<1> QED
  BY <1>2, <1>3

-----------------------------------------------------------------------------

\* The inductive invariant: the lock and the cache, as described above.
THEOREM InvHolds == Spec => []Inv
<1>1. Init => Inv
  <2> SUFFICES ASSUME Init PROVE Inv
    OBVIOUS
  <2>1. Shape /\ \A c \in Processors : processor[c].pc = "idle" /\ processor[c].data = << >>
    BY DEF Init, Shape, Idle
  <2>2. CacheTyped /\ Counted
    BY DEF Init, CacheTyped, Counted
  <2>3. << >> \in Seq(Seq(Unit)) /\ Len(<< >>) = 0
    OBVIOUS
  <2>4. \A c \in Processors : Gathered(c)
    <3> SUFFICES ASSUME NEW c \in Processors PROVE Gathered(c)
      OBVIOUS
    <3>1. processor[c].data \in Seq(Seq(Unit)) /\ Len(processor[c].data) = 0
      BY <2>1, <2>3
    <3> QED
      BY <2>1, <3>1 DEF Gathered, Working
  <2> QED
    BY <2>1, <2>2, <2>4 DEF Inv, Locked
<1>2. Inv /\ [Next]_vars => Inv'
  <2> SUFFICES ASSUME Inv, [Next]_vars PROVE Inv'
    OBVIOUS
  <2>1. CASE Next
    <3>1. ~ down
      BY <2>1 DEF Next
    <3>2. PICK c \in Processors : Take(c) \/ ProcessorStep(c) \/ TaskStep(c)
      BY <2>1 DEF Next
    <3>3. CASE Take(c) \/ Deliver(c)
      BY <3>3, LoopingKeeps
    <3>4. CASE CacheHit(c)
      BY <3>1, <3>4, CacheHitKeeps
    <3>5. CASE CacheMiss(c)
      BY <3>1, <3>5, CacheMissKeeps
    <3>6. CASE Downloaded(c)
      BY <3>1, <3>6, DownloadedKeeps
    <3>7. CASE DownloadFails(c)
      BY <3>1, <3>7, DownloadFailsKeeps
    <3>8. CASE TaskStep(c) \/ TasksFail(c) \/ Finish(c) \/ Report(c)
      BY <3>8, TransformingKeeps DEF TaskStep
    <3> QED
      BY <3>2, <3>3, <3>4, <3>5, <3>6, <3>7, <3>8 DEF ProcessorStep
  <2>2. CASE UNCHANGED vars
    BY <2>2 DEF vars, Inv, Shape, CacheTyped, Counted, Locked, Gathered, Wanted, Blocks
  <2> QED
    BY <2>1, <2>2
<1> QED
  BY <1>1, <1>2, PTL DEF Spec

\* However many processors run, no file is downloaded twice for its hundred of blocks.
THEOREM FilesAreDownloadedOnce == Spec => []DownloadedOnce
<1>1. Inv => DownloadedOnce
  BY DEF Inv, Counted, DownloadedOnce
<1> QED
  BY <1>1, InvHolds, PTL

\* Every block a processor holds has the bytes of its range in its file, when the file
\* that is kept for its hundred is the one it names; of a block whose hundred was
\* downloaded from another file it says nothing.
THEOREM BlocksKeepTheirBytes == Spec => []BlocksHaveTheirBytes
<1>1. Inv => BlocksHaveTheirBytes
  <2> SUFFICES ASSUME Inv, NEW c \in Processors, NEW i \in DOMAIN processor[c].data
               PROVE  OwnBytes(Blocks(c)[i], processor[c].data[i])
    BY DEF BlocksHaveTheirBytes
  <2>1. i \in 1 .. Len(processor[c].data)
    BY DEF Inv, Gathered
  <2>2. Cut(Blocks(c)[i], cache[BatchNumber(Blocks(c)[i])], processor[c].data[i])
    BY <2>1 DEF Inv, Gathered
  <2> QED
    BY <2>2 DEF Cut, OwnBytes
<1> QED
  BY <1>1, InvHolds, PTL
=============================================================================
