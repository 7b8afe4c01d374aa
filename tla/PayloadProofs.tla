---------------------------- MODULE PayloadProofs ----------------------------
(***************************************************************************)
(* What the operators of Payload compute, for any blocks of any number and *)
(* length: how long a payload is, where in it each block is found, and     *)
(* what a destination reads in it.                                         *)
(*                                                                         *)
(* Payloads and lengths are computed by recursion on the sequence of       *)
(* blocks (FlattenSeq, FoldLeft), so there is induction to do.  A theorem  *)
(* of induction over an operator is of no use to the provers; one about    *)
(* sets is, and it follows from the least element of a set of naturals.    *)
(***************************************************************************)
EXTENDS Payload, SequenceTheorems, WellFoundedInduction, TLAPS

-----------------------------------------------------------------------------
(***************************************************************************)
(* Induction.                                                              *)
(***************************************************************************)

\* A set of natural numbers has a least element.
LEMMA Least ==
  ASSUME NEW T, T \subseteq Nat, T # {}
  PROVE  \E n \in T : \A m \in T : n <= m
<1>1. PICK R : R = OpToRel(<, Nat)
  OBVIOUS
<1>2. IsWellFoundedOn(R, Nat)
  BY <1>1, NatLessThanWellFounded
<1>3. PICK n \in T : \A m \in T : <<m, n>> \notin R
  BY <1>2, WFMin
<1>4. R = {ss \in Nat \X Nat : ss[1] < ss[2]}
  BY <1>1 DEF OpToRel
<1>5. ASSUME NEW m \in T PROVE n <= m
  <2>1. m \in Nat /\ n \in Nat
    OBVIOUS
  <2>2. m < n => <<m, n>> \in R
    BY <1>4, <2>1
  <2> QED BY <1>3, <2>1, <2>2
<1> QED BY <1>5

\* Induction over the natural numbers up to n.
LEMMA UpTo ==
  ASSUME NEW n \in Nat, NEW S, 0 \in S, \A i \in 0 .. n - 1 : i \in S => i + 1 \in S
  PROVE  \A i \in 0 .. n : i \in S
<1> SUFFICES ASSUME (0 .. n) \ S # {} PROVE FALSE
  OBVIOUS
<1>1. PICK m \in (0 .. n) \ S : \A i \in (0 .. n) \ S : m <= i
  <2>1. (0 .. n) \ S \subseteq Nat
    OBVIOUS
  <2> QED BY <2>1, Least
<1>2. m # 0 /\ m - 1 \in 0 .. n - 1 /\ (m - 1) + 1 = m
  OBVIOUS
<1>3. m - 1 \in S
  BY <1>1, <1>2
<1> QED BY <1>2, <1>3

\* What stands where in two sequences that are put together.
LEMMA Joined ==
  ASSUME NEW S, NEW s \in Seq(S), NEW t \in Seq(S)
  PROVE  /\ s \o t \in Seq(S) /\ Len(s) \in Nat /\ Len(t) \in Nat
         /\ Len(s \o t) = Len(s) + Len(t)
         /\ \A j \in 1 .. Len(s) : (s \o t)[j] = s[j]
         /\ \A j \in 1 .. Len(t) : (s \o t)[Len(s) + j] = t[j]
<1>1. Len(s) \in Nat /\ Len(t) \in Nat
  OBVIOUS
<1>2. /\ s \o t \in Seq(S) /\ Len(s \o t) = Len(s) + Len(t)
      /\ \A i \in 1 .. Len(s) + Len(t) :
           (s \o t)[i] = IF i <= Len(s) THEN s[i] ELSE t[i - Len(s)]
  BY ConcatProperties
<1>3. ASSUME NEW j \in 1 .. Len(t) PROVE (s \o t)[Len(s) + j] = t[j]
  <2>1. Len(s) + j \in 1 .. Len(s) + Len(t) /\ ~ (Len(s) + j <= Len(s)) /\ (Len(s) + j) - Len(s) = j
    BY <1>1
  <2> QED BY <1>2, <2>1
<1>4. ASSUME NEW j \in 1 .. Len(s) PROVE (s \o t)[j] = s[j]
  <2>1. j \in 1 .. Len(s) + Len(t) /\ j <= Len(s)
    BY <1>1
  <2> QED BY <1>2, <2>1
<1> QED BY <1>1, <1>2, <1>3, <1>4

\* A function on the first n numbers is a sequence.
LEMMA FunctionIsSeq ==
  ASSUME NEW n \in Nat, NEW S, NEW f \in [1 .. n -> S]
  PROVE  f \in Seq(S) /\ Len(f) = n
OBVIOUS

-----------------------------------------------------------------------------
(***************************************************************************)
(* FlattenSeq.                                                             *)
(***************************************************************************)

\* f has what the first 0, 1, 2 ... of the sequences are in a row.
IsRow(f, S, seqs) ==
  /\ f \in [0 .. Len(seqs) -> Seq(S)]
  /\ f[0] = << >>
  /\ \A k \in 0 .. Len(seqs) - 1 : f[k + 1] = f[k] \o seqs[k + 1]

\* The function FlattenSeq is defined with, up to the n-th sequence.
Row(seqs, n, f) ==
  f = [i \in 1 .. n |-> IF i = 1 THEN seqs[i] ELSE f[i - 1] \o seqs[i]]

\* There is such a function.
LEMMA RowExists ==
  ASSUME NEW seqs, NEW n \in Nat
  PROVE  \E f : Row(seqs, n, f)
<1> DEFINE E == {k \in 0 .. n : \E f : Row(seqs, k, f)}
<1>1. 0 \in E
  <2>1. Row(seqs, 0, [i \in 1 .. 0 |-> 0])
    BY DEF Row
  <2> QED BY <2>1
<1>2. ASSUME NEW k \in 0 .. n - 1, k \in E
      PROVE  k + 1 \in E
  <2>1. PICK f : Row(seqs, k, f)
    BY <1>2
  <2>2. PICK next : next = IF k = 0 THEN seqs[1] ELSE f[k] \o seqs[k + 1]
    OBVIOUS
  <2>3. PICK g : g = [i \in 1 .. k + 1 |-> IF i = k + 1 THEN next ELSE f[i]]
    OBVIOUS
  <2>4. \A i \in 1 .. k + 1 : g[i] = IF i = 1 THEN seqs[i] ELSE g[i - 1] \o seqs[i]
    <3> SUFFICES ASSUME NEW i \in 1 .. k + 1
                 PROVE  g[i] = IF i = 1 THEN seqs[i] ELSE g[i - 1] \o seqs[i]
      OBVIOUS
    <3>1. CASE i = k + 1
      <4>1. g[i] = next
        BY <2>3, <3>1
      <4>2. i # 1 => i - 1 \in 1 .. k + 1 /\ i - 1 = k /\ g[i - 1] = f[k]
        BY <2>3, <3>1
      <4>3. i = 1 => k = 0
        BY <3>1
      <4> QED BY <2>2, <3>1, <4>1, <4>2, <4>3
    <3>2. CASE i # k + 1
      <4>1. i \in 1 .. k /\ g[i] = f[i]
        BY <2>3, <3>2
      <4>2. f[i] = IF i = 1 THEN seqs[i] ELSE f[i - 1] \o seqs[i]
        BY <2>1, <4>1 DEF Row
      <4>3. i # 1 => i - 1 \in 1 .. k + 1 /\ i - 1 # k + 1 /\ g[i - 1] = f[i - 1]
        BY <2>3, <4>1
      <4> QED BY <4>1, <4>2, <4>3
    <3> QED BY <3>1, <3>2
  <2>5. Row(seqs, k + 1, g)
    <3>1. g = [i \in 1 .. k + 1 |-> g[i]]
      BY <2>3
    <3> QED BY <2>4, <3>1 DEF Row
  <2> QED BY <2>5
<1>3. n \in E
  <2> HIDE DEF E
  <2> QED BY <1>1, <1>2, UpTo
<1> QED BY <1>3

\* FlattenSeq puts the sequences in a row.
LEMMA FlattenSeqIsRow ==
  ASSUME NEW S, NEW seqs \in Seq(Seq(S))
  PROVE  \E f : IsRow(f, S, seqs) /\ FlattenSeq(seqs) = f[Len(seqs)]
<1> DEFINE n == Len(seqs)
<1>1. n \in Nat
  OBVIOUS
<1>2. CASE n = 0
  <2>1. seqs = << >>
    BY <1>2
  <2>2. PICK f : f = [i \in 0 .. n |-> << >>]
    OBVIOUS
  <2>3. IsRow(f, S, seqs)
    BY <1>2, <2>2 DEF IsRow
  <2> QED BY <1>2, <2>1, <2>2, <2>3 DEF FlattenSeq
<1>3. CASE n # 0
  <2>1. PICK f : f = CHOOSE g : Row(seqs, n, g)
    OBVIOUS
  <2>2. FlattenSeq(seqs) = f[n]
    BY <1>3, <2>1 DEF FlattenSeq, Row
  <2>3. Row(seqs, n, f)
    BY <1>1, <2>1, RowExists
  <2>4. PICK r : r = [i \in 0 .. n |-> IF i = 0 THEN << >> ELSE f[i]]
    OBVIOUS
  <2>5. r[0] = << >> /\ r[n] = f[n] /\ \A i \in 1 .. n : r[i] = f[i] /\ seqs[i] \in Seq(S)
    BY <1>1, <1>3, <2>4
  <2>6. ASSUME NEW k \in 0 .. n - 1
        PROVE  k + 1 \in 1 .. n /\ r[k + 1] = r[k] \o seqs[k + 1]
    <3>1. k + 1 \in 1 .. n /\ r[k + 1] = f[k + 1] /\ seqs[k + 1] \in Seq(S)
      BY <1>1, <2>5
    <3>2. f[k + 1] = IF k + 1 = 1 THEN seqs[k + 1] ELSE f[(k + 1) - 1] \o seqs[k + 1]
      BY <2>3, <3>1 DEF Row
    <3>3. CASE k = 0
      <4>1. r[k] = << >> /\ r[k + 1] = seqs[k + 1]
        BY <2>5, <3>1, <3>2, <3>3
      <4> QED BY <3>1, <4>1, ConcatEmptySeq
    <3>4. CASE k # 0
      <4>1. (k + 1) - 1 = k /\ k + 1 # 1 /\ r[k] = f[k]
        BY <1>1, <2>5, <3>4
      <4> QED BY <3>1, <3>2, <4>1
    <3> QED BY <3>3, <3>4
  <2>7. \A i \in 0 .. n : r[i] \in Seq(S)
    <3> DEFINE E == {k \in 0 .. n : r[k] \in Seq(S)}
    <3>1. 0 \in E
      <4>1. << >> \in Seq(S) /\ 0 \in 0 .. n
        BY <1>1
      <4> QED BY <2>5, <4>1
    <3>2. ASSUME NEW k \in 0 .. n - 1, k \in E
          PROVE  k + 1 \in E
      <4>1. k + 1 \in 0 .. n /\ r[k] \in Seq(S) /\ seqs[k + 1] \in Seq(S)
        BY <1>1, <2>5, <2>6, <3>2
      <4>2. r[k] \o seqs[k + 1] \in Seq(S)
        BY <4>1, ConcatProperties
      <4> QED BY <2>6, <4>1, <4>2
    <3>3. \A k \in 0 .. n : k \in E
      <4> HIDE DEF E, n
      <4> QED BY <1>1, <3>1, <3>2, UpTo
    <3> QED BY <3>3
  <2>8. IsRow(r, S, seqs)
    BY <2>4, <2>5, <2>6, <2>7 DEF IsRow
  <2> QED BY <2>2, <2>5, <2>8
<1> QED BY <1>2, <1>3
-----------------------------------------------------------------------------
(***************************************************************************)
(* LengthOf.                                                               *)
(***************************************************************************)

\* g has how long the first 0, 1, 2 ... of the sequences are together.
IsSum(g, seqs) ==
  /\ g \in [0 .. Len(seqs) -> Nat]
  /\ g[0] = 0
  /\ \A k \in 0 .. Len(seqs) - 1 : g[k + 1] = g[k] + Len(seqs[k + 1])

\* The function FoldLeft is defined with: of any places up to the n-th, the last one
\* is added last.
Sums(seqs, n, h) ==
  h = [s \in SUBSET (1 .. n) |->
         IF s = {} THEN 0 ELSE h[s \ {Max(s)}] + Len(seqs[Max(s)])]

\* The last place up to k that there is, is k.
LEMMA MaxIsLast ==
  ASSUME NEW k \in Nat, NEW s \in SUBSET (1 .. k), k \in s
  PROVE  Max(s) = k
<1>1. PICK m : m = Max(s)
  OBVIOUS
<1>2. \A y \in s : k >= y
  OBVIOUS
<1>3. m \in s /\ \A y \in s : m >= y
  BY <1>1, <1>2 DEF Max
<1> QED BY <1>1, <1>3

\* There is such a function.
LEMMA SumsExist ==
  ASSUME NEW seqs, NEW n \in Nat
  PROVE  \E h : Sums(seqs, n, h)
<1> DEFINE E == {k \in 0 .. n : \E h : Sums(seqs, k, h)}
<1>1. 0 \in E
  <2>1. PICK h : h = [s \in SUBSET (1 .. 0) |-> 0]
    OBVIOUS
  <2>2. SUBSET (1 .. 0) = {{}}
    OBVIOUS
  <2>3. Sums(seqs, 0, h)
    BY <2>1, <2>2 DEF Sums
  <2> QED BY <2>3
<1>2. ASSUME NEW k \in 0 .. n - 1, k \in E
      PROVE  k + 1 \in E
  <2>1. PICK h : Sums(seqs, k, h)
    BY <1>2
  <2>2. PICK g : g = [s \in SUBSET (1 .. k + 1) |->
                        IF k + 1 \in s THEN h[s \ {k + 1}] + Len(seqs[k + 1]) ELSE h[s]]
    OBVIOUS
  <2>3. \A s \in SUBSET (1 .. k) : s \in SUBSET (1 .. k + 1) /\ g[s] = h[s]
    <3> SUFFICES ASSUME NEW s \in SUBSET (1 .. k)
                 PROVE  s \in SUBSET (1 .. k + 1) /\ g[s] = h[s]
      OBVIOUS
    <3>1. s \in SUBSET (1 .. k + 1) /\ k + 1 \notin s
      OBVIOUS
    <3> QED BY <2>2, <3>1
  <2>4. ASSUME NEW s \in SUBSET (1 .. k + 1)
        PROVE  g[s] = IF s = {} THEN 0 ELSE g[s \ {Max(s)}] + Len(seqs[Max(s)])
    <3>1. CASE k + 1 \in s
      <4>1. Max(s) = k + 1 /\ s # {} /\ s \ {k + 1} \in SUBSET (1 .. k)
        BY <3>1, MaxIsLast
      <4>2. g[s] = h[s \ {k + 1}] + Len(seqs[k + 1])
        BY <2>2, <3>1
      <4> QED BY <2>3, <4>1, <4>2
    <3>2. CASE k + 1 \notin s
      <4>1. s \in SUBSET (1 .. k) /\ s \ {Max(s)} \in SUBSET (1 .. k)
        <5>1. \A i \in s : i \in 1 .. k + 1 /\ i # k + 1
          BY <3>2
        <5>2. \A i \in s : i \in 1 .. k
          BY <5>1
        <5> QED BY <5>2
      <4>2. h[s] = IF s = {} THEN 0 ELSE h[s \ {Max(s)}] + Len(seqs[Max(s)])
        BY <2>1, <4>1 DEF Sums
      <4> QED BY <2>3, <4>1, <4>2
    <3> QED BY <3>1, <3>2
  <2>5. Sums(seqs, k + 1, g)
    <3>1. g = [s \in SUBSET (1 .. k + 1) |-> g[s]]
      BY <2>2
    <3> QED BY <2>4, <3>1 DEF Sums
  <2> QED BY <2>5
<1>3. n \in E
  <2> HIDE DEF E
  <2> QED BY <1>1, <1>2, UpTo
<1> QED BY <1>3

\* LengthOf adds up the lengths of the sequences.
LEMMA LengthOfIsSum ==
  ASSUME NEW S, NEW seqs \in Seq(Seq(S))
  PROVE  \E g : IsSum(g, seqs) /\ LengthOf(seqs) = g[Len(seqs)]
<1> DEFINE n == Len(seqs)
<1>1. n \in Nat /\ DOMAIN seqs = 1 .. n
  OBVIOUS
<1>2. PICK h : h = CHOOSE iter : Sums(seqs, n, iter)
  OBVIOUS
<1>3. LengthOf(seqs) = h[1 .. n]
  <2>1. LengthOf(seqs) =
          (CHOOSE iter : iter = [s \in SUBSET DOMAIN seqs |->
             IF s = {} THEN 0 ELSE iter[s \ {Max(s)}] + Len(seqs[Max(s)])])[DOMAIN seqs]
    BY DEF LengthOf, FoldLeft, MapThenFoldSet
  <2> QED BY <1>1, <1>2, <2>1 DEF Sums
<1>4. Sums(seqs, n, h)
  BY <1>1, <1>2, SumsExist
<1>5. PICK g : g = [i \in 0 .. n |-> h[1 .. i]]
  OBVIOUS
<1>6. g[0] = 0
  <2>1. 1 .. 0 = {}
    OBVIOUS
  <2> QED BY <1>1, <1>4, <1>5, <2>1 DEF Sums
<1>7. ASSUME NEW k \in 0 .. n - 1
      PROVE  g[k + 1] = g[k] + Len(seqs[k + 1])
  <2>1. /\ 1 .. k + 1 \in SUBSET (1 .. n) /\ 1 .. k + 1 # {} /\ k + 1 \in 1 .. k + 1
        /\ (1 .. k + 1) \ {k + 1} = 1 .. k /\ k \in 0 .. n /\ k + 1 \in 0 .. n
    <3>1. k \in Nat /\ k + 1 <= n /\ k + 1 \in 1 .. k + 1 /\ k \in 0 .. n /\ k + 1 \in 0 .. n
      BY <1>1
    <3>2. \A i \in 1 .. k + 1 : i \in 1 .. n
      BY <1>1, <3>1
    <3>3. \A i : i \in (1 .. k + 1) \ {k + 1} <=> i \in 1 .. k
      BY <3>1
    <3> QED BY <3>1, <3>2, <3>3
  <2>2. Max(1 .. k + 1) = k + 1
    BY <2>1, MaxIsLast
  <2>3. h[1 .. k + 1] = h[1 .. k] + Len(seqs[k + 1])
    BY <1>4, <2>1, <2>2 DEF Sums
  <2> QED BY <1>5, <2>1, <2>3
<1>8. \A i \in 0 .. n : g[i] \in Nat
  <2> DEFINE E == {k \in 0 .. n : g[k] \in Nat}
  <2>1. 0 \in E
    BY <1>1, <1>6
  <2>2. ASSUME NEW k \in 0 .. n - 1, k \in E
        PROVE  k + 1 \in E
    <3>1. k + 1 \in 0 .. n /\ g[k] \in Nat /\ Len(seqs[k + 1]) \in Nat
      BY <1>1, <2>2
    <3> QED BY <1>7, <3>1
  <2>3. \A k \in 0 .. n : k \in E
    <3> HIDE DEF E, n
    <3> QED BY <1>1, <2>1, <2>2, UpTo
  <2> QED BY <2>3
<1>9. IsSum(g, seqs)
  BY <1>5, <1>6, <1>7, <1>8 DEF IsSum
<1>10. LengthOf(seqs) = g[n]
  BY <1>1, <1>3, <1>5
<1> QED BY <1>9, <1>10
\* The first k sequences are as long as the sum of all of them is at k.
LEMMA LengthOfPrefix ==
  ASSUME NEW S, NEW seqs \in Seq(Seq(S)), NEW g, IsSum(g, seqs), NEW k \in 0 .. Len(seqs)
  PROVE  LengthOf(SubSeq(seqs, 1, k)) = g[k]
<1> DEFINE first == SubSeq(seqs, 1, k)
<1>1. Len(seqs) \in Nat /\ k \in Nat /\ 1 \in Int /\ k \in Int
  OBVIOUS
<1>2. first \in Seq(Seq(S)) /\ Len(first) = k /\ \A i \in 1 .. k : first[i] = seqs[i]
  <2>1. \A i \in 1 .. k : seqs[i] \in Seq(S)
    BY <1>1
  <2>2. /\ SubSeq(seqs, 1, k) \in Seq(Seq(S))
        /\ Len(SubSeq(seqs, 1, k)) = IF 1 <= k THEN k - 1 + 1 ELSE 0
        /\ \A i \in 1 .. k - 1 + 1 : SubSeq(seqs, 1, k)[i] = seqs[1 + i - 1]
    BY <1>1, <2>1, SubSeqProperties
  <2> QED BY <1>1, <2>2
<1> HIDE DEF first
<1>3. PICK h : IsSum(h, first) /\ LengthOf(first) = h[k]
  BY <1>2, LengthOfIsSum
<1> DEFINE E == {j \in 0 .. k : h[j] = g[j]}
<1>4. 0 \in E
  BY <1>1, <1>3 DEF IsSum
<1>5. ASSUME NEW j \in 0 .. k - 1, j \in E
      PROVE  j + 1 \in E
  <2>1. j \in 0 .. Len(seqs) - 1 /\ j + 1 \in 1 .. k
    BY <1>1
  <2>2. h[j + 1] = h[j] + Len(first[j + 1])
    BY <1>2, <1>3 DEF IsSum
  <2>3. g[j + 1] = g[j] + Len(seqs[j + 1])
    BY <2>1 DEF IsSum
  <2> QED BY <1>2, <1>5, <2>1, <2>2, <2>3
<1>6. \A j \in 0 .. k : j \in E
  <2> HIDE DEF E
  <2> QED BY <1>1, <1>4, <1>5, UpTo
<1>7. h[k] = g[k]
  BY <1>1, <1>6, SMTT(30)
<1> QED BY <1>3, <1>7 DEF first

-----------------------------------------------------------------------------
(***************************************************************************)
(* The payload.                                                            *)
(***************************************************************************)

\* What combineBytes puts in a row.
Pieces(blocks, start, encoding) ==
  [i \in DOMAIN blocks |->
    (IF i = 1 THEN start ELSE Piece(SeparatorText, encoding)) \o blocks[i]]

\* A piece of the payload builder is one unit.
LEMMA PieceIsUnit ==
  ASSUME NEW t \in Int, NEW encoding
  PROVE  Piece(t, encoding) \in Seq(Unit) /\ Len(Piece(t, encoding)) = 1
<1>1. Member(t) \in Unit /\ Plain(t) \in Unit
  BY DEF Member, Plain, Unit
<1> QED BY <1>1 DEF Piece

\* The start, the separator and the end.
LEMMA PiecesOfPayload ==
  ASSUME NEW direction, NEW encoding
  PROVE  /\ Piece(StartOf(direction), encoding) \in Seq(Unit)
         /\ Len(Piece(StartOf(direction), encoding)) = 1
         /\ Piece(SeparatorText, encoding) \in Seq(Unit)
         /\ Len(Piece(SeparatorText, encoding)) = 1
         /\ Piece(EndText, encoding) \in Seq(Unit)
         /\ Len(Piece(EndText, encoding)) = 1
<1>1. StartOf(direction) \in Int /\ SeparatorText \in Int /\ EndText \in Int
  BY DEF StartOf, StartForward, StartBackward, SeparatorText, EndText
<1> QED BY <1>1, PieceIsUnit

\* A block with what goes before it.
LEMMA PiecesAreSequences ==
  ASSUME NEW blocks \in Seq(Seq(Unit)), NEW direction, NEW encoding,
         NEW pieces, pieces = Pieces(blocks, Piece(StartOf(direction), encoding), encoding)
  PROVE  /\ pieces \in Seq(Seq(Unit)) /\ Len(pieces) = Len(blocks)
         /\ \A i \in 1 .. Len(blocks) :
              /\ pieces[i] \in Seq(Unit)
              /\ Len(pieces[i]) = 1 + Len(blocks[i])
              /\ \A j \in 1 .. Len(blocks[i]) : pieces[i][1 + j] = blocks[i][j]
<1>1. Len(blocks) \in Nat /\ DOMAIN blocks = 1 .. Len(blocks)
  OBVIOUS
<1>2. ASSUME NEW i \in 1 .. Len(blocks)
      PROVE  /\ pieces[i] \in Seq(Unit)
             /\ Len(pieces[i]) = 1 + Len(blocks[i])
             /\ \A j \in 1 .. Len(blocks[i]) : pieces[i][1 + j] = blocks[i][j]
  <2>1. PICK first \in Seq(Unit) :
          /\ Len(first) = 1
          /\ first = IF i = 1 THEN Piece(StartOf(direction), encoding)
                     ELSE Piece(SeparatorText, encoding)
    <3>1. CASE i = 1
      BY <3>1, PiecesOfPayload
    <3>2. CASE i # 1
      BY <3>2, PiecesOfPayload
    <3> QED BY <3>1, <3>2
  <2>2. pieces[i] = first \o blocks[i]
    BY <1>1, <2>1 DEF Pieces
  <2>3. PICK block \in Seq(Unit) : block = blocks[i]
    BY <1>1
  <2>4. /\ first \o block \in Seq(Unit) /\ Len(first \o block) = Len(first) + Len(block)
        /\ \A j \in 1 .. Len(block) : (first \o block)[Len(first) + j] = block[j]
    BY Joined
  <2> QED BY <2>1, <2>2, <2>3, <2>4
<1>3. pieces \in [1 .. Len(blocks) -> Seq(Unit)]
  <2>1. pieces = [i \in 1 .. Len(blocks) |-> pieces[i]]
    BY <1>1 DEF Pieces
  <2> QED BY <1>2, <2>1
<1>4. pieces \in Seq(Seq(Unit)) /\ Len(pieces) = Len(blocks)
  BY <1>1, <1>3, FunctionIsSeq
<1> QED BY <1>2, <1>4

\* What stands in a row stays where it is when more is put behind it.
LEMMA RowGrows ==
  ASSUME NEW S, NEW seqs \in Seq(Seq(S)), NEW f, IsRow(f, S, seqs), NEW k \in 0 .. Len(seqs)
  PROVE  \A i \in k .. Len(seqs) :
           Len(f[k]) <= Len(f[i]) /\ \A j \in 1 .. Len(f[k]) : f[i][j] = f[k][j]
<1> DEFINE n == Len(seqs)
           Kept(i) == Len(f[k]) <= Len(f[i]) /\ \A j \in 1 .. Len(f[k]) : f[i][j] = f[k][j]
           E == {i \in 0 .. n : i >= k => Kept(i)}
<1>1. n \in Nat /\ f \in [0 .. n -> Seq(S)] /\ f[k] \in Seq(S) /\ Len(f[k]) \in Nat
  BY SMTT(30) DEF IsRow
<1>2. 0 \in E
  BY <1>1
<1>3. ASSUME NEW i \in 0 .. n - 1, i \in E
      PROVE  i + 1 \in E
  <2>1. i + 1 \in 0 .. n /\ (i + 1 >= k => i + 1 = k \/ i >= k)
    BY <1>1
  <2>2. CASE i >= k
    <3>1. Kept(i)
      BY <1>3, <2>2
    <3>2. /\ f[i + 1] = f[i] \o seqs[i + 1]
          /\ \E s \in Seq(S) : s = f[i]
          /\ \E t \in Seq(S) : t = seqs[i + 1]
      <4>1. i \in 0 .. n /\ i + 1 \in 1 .. n /\ i \in 0 .. Len(seqs) - 1
        BY <1>1
      <4>2. f[i + 1] = f[i] \o seqs[i + 1]
        BY <4>1 DEF IsRow
      <4>3. f[i] \in Seq(S)
        BY <1>1, <4>1
      <4>4. seqs[i + 1] \in Seq(S)
        BY <4>1
      <4> QED BY <4>2, <4>3, <4>4
    <3>3. /\ Len(f[i + 1]) = Len(f[i]) + Len(seqs[i + 1])
          /\ Len(f[i]) \in Nat /\ Len(seqs[i + 1]) \in Nat
          /\ \A j \in 1 .. Len(f[i]) : f[i + 1][j] = f[i][j]
      <4>1. PICK s \in Seq(S) : s = f[i]
        BY <3>2
      <4>2. PICK t \in Seq(S) : t = seqs[i + 1]
        BY <3>2
      <4>3. /\ Len(s) \in Nat /\ Len(t) \in Nat /\ Len(s \o t) = Len(s) + Len(t)
            /\ \A j \in 1 .. Len(s) : (s \o t)[j] = s[j]
        BY Joined
      <4>4. f[i + 1] = s \o t
        BY <3>2, <4>1, <4>2
      <4> QED BY <4>1, <4>2, <4>3, <4>4
    <3>4. Kept(i + 1)
      <4>1. Len(f[k]) <= Len(f[i + 1])
        <5>1. PICK a \in Nat : a = Len(f[i])
          BY <3>3
        <5>2. PICK b \in Nat : b = Len(seqs[i + 1])
          BY <3>3
        <5>3. PICK c \in Nat : c = Len(f[k])
          BY <1>1
        <5>4. c <= a /\ Len(f[i + 1]) = a + b
          BY <3>1, <3>3, <5>1, <5>2, <5>3
        <5> QED BY <5>3, <5>4
      <4>2. ASSUME NEW j \in 1 .. Len(f[k]) PROVE f[i + 1][j] = f[k][j]
        <5>1. j \in 1 .. Len(f[i])
          BY <1>1, <3>1, <3>3
        <5> QED BY <3>1, <3>3, <5>1
      <4> QED BY <4>1, <4>2
    <3> QED BY <2>1, <3>4
  <2>3. CASE i + 1 = k
    <3>1. Kept(k)
      BY <1>1
    <3> QED BY <2>1, <2>3, <3>1
  <2>4. CASE ~ (i + 1 >= k)
    BY <2>1, <2>4
  <2> QED BY <2>1, <2>2, <2>3, <2>4
<1>4. \A i \in 0 .. n : i \in E
  <2> HIDE DEF E, n
  <2> QED BY <1>1, <1>2, <1>3, UpTo
<1> QED BY <1>1, <1>4
\* The payload is a row f of pieces with the end behind it; up to the k-th block it is
\* as long as the blocks and k more.
LaidOut(blocks, direction, encoding, f, g) ==
  /\ IsRow(f, Unit, Pieces(blocks, Piece(StartOf(direction), encoding), encoding))
  /\ IsSum(g, blocks)
  /\ LengthOf(blocks) = g[Len(blocks)]
  /\ Build(blocks, direction, encoding) = f[Len(blocks)] \o Piece(EndText, encoding)
  /\ \A k \in 0 .. Len(blocks) : f[k] \in Seq(Unit) /\ g[k] \in Nat /\ Len(f[k]) = g[k] + k

\* Every payload is.
LEMMA PayloadIsRow ==
  ASSUME NEW blocks \in Seq(Seq(Unit)), NEW direction, NEW encoding
  PROVE  \E f, g : LaidOut(blocks, direction, encoding, f, g)
<1> DEFINE n == Len(blocks)
<1>1. n \in Nat
  OBVIOUS
<1>2. PICK pieces \in Seq(Seq(Unit)) :
        /\ pieces = Pieces(blocks, Piece(StartOf(direction), encoding), encoding)
        /\ Len(pieces) = n
        /\ \A i \in 1 .. n : pieces[i] \in Seq(Unit) /\ Len(pieces[i]) = 1 + Len(blocks[i])
  BY PiecesAreSequences
<1>3. PICK f : IsRow(f, Unit, pieces) /\ FlattenSeq(pieces) = f[n]
  BY <1>2, FlattenSeqIsRow
<1>4. PICK g : IsSum(g, blocks) /\ LengthOf(blocks) = g[n]
  BY LengthOfIsSum
<1>5. Build(blocks, direction, encoding) = f[n] \o Piece(EndText, encoding)
  BY <1>2, <1>3 DEF Build, combineBytes, Pieces
<1>6. f \in [0 .. n -> Seq(Unit)] /\ f[0] = << >> /\ g \in [0 .. n -> Nat] /\ g[0] = 0
  BY <1>2, <1>3, <1>4 DEF IsRow, IsSum
<1> DEFINE E == {k \in 0 .. n : Len(f[k]) = g[k] + k}
<1>7. 0 \in E
  BY <1>1, <1>6
<1>8. ASSUME NEW k \in 0 .. n - 1, k \in E
      PROVE  k + 1 \in E
  <2>1. k \in 0 .. n /\ k + 1 \in 1 .. n /\ k + 1 \in 0 .. n /\ Len(f[k]) = g[k] + k
    BY <1>1, <1>8
  <2>2. f[k + 1] = f[k] \o pieces[k + 1] /\ g[k + 1] = g[k] + Len(blocks[k + 1])
    BY <1>2, <1>3, <1>4 DEF IsRow, IsSum
  <2>3. PICK s \in Seq(Unit) : s = f[k]
    BY <1>6, <2>1
  <2>4. PICK t \in Seq(Unit) : t = pieces[k + 1]
    BY <1>2, <2>1
  <2>5. Len(s \o t) = Len(s) + Len(t)
    OBVIOUS
  <2>6. PICK a \in Nat : a = Len(blocks[k + 1])
    BY <2>1
  <2>7. PICK b \in Nat : b = g[k]
    BY <1>6, <2>1
  <2>8. Len(t) = 1 + a /\ Len(s) = b + k /\ g[k + 1] = b + a /\ f[k + 1] = s \o t
    BY <1>2, <2>1, <2>2, <2>3, <2>4, <2>6, <2>7
  <2>9. Len(f[k + 1]) = g[k + 1] + (k + 1)
    BY <2>5, <2>8
  <2> QED BY <2>1, <2>9
<1>9. \A k \in 0 .. n : k \in E
  <2> HIDE DEF E, n
  <2> QED BY <1>1, <1>7, <1>8, UpTo
<1>10. \A k \in 0 .. n : f[k] \in Seq(Unit) /\ g[k] \in Nat /\ Len(f[k]) = g[k] + k
  BY <1>6, <1>9
<1>11. LaidOut(blocks, direction, encoding, f, g)
  BY <1>2, <1>3, <1>4, <1>5, <1>10 DEF LaidOut
<1> QED BY <1>11

\* A payload is as long as its blocks, one unit before each, and the end: what is
\* billed is the payload without what it wraps around the blocks.
THEOREM PayloadLength ==
  ASSUME NEW blocks \in Seq(Seq(Unit)), NEW direction, NEW encoding
  PROVE  /\ Build(blocks, direction, encoding) \in Seq(Unit)
         /\ LengthOf(blocks) \in Nat
         /\ LengthOf(blocks) = Len(Build(blocks, direction, encoding)) - (Len(blocks) + 1)
<1>1. PICK f, g : LaidOut(blocks, direction, encoding, f, g)
  BY PayloadIsRow
<1>2. PICK n \in Nat : n = Len(blocks)
  OBVIOUS
<1>3. PICK sum \in Nat : sum = LengthOf(blocks) /\ sum = g[n]
  BY <1>1, <1>2 DEF LaidOut
<1>4. PICK row \in Seq(Unit) : row = f[n] /\ Len(row) = sum + n
  BY <1>1, <1>2, <1>3 DEF LaidOut
<1>5. PICK end \in Seq(Unit) : end = Piece(EndText, encoding) /\ Len(end) = 1
  BY PiecesOfPayload
<1>6. row \o end \in Seq(Unit) /\ Len(row \o end) = Len(row) + Len(end)
  BY Joined
<1>7. Build(blocks, direction, encoding) = row \o end
  BY <1>1, <1>2, <1>4, <1>5 DEF LaidOut
<1> QED BY <1>2, <1>3, <1>4, <1>5, <1>6, <1>7

\* Each block is in the payload where CalculateOffsets says.
THEOREM OffsetsAreRight ==
  ASSUME NEW blocks \in Seq(Seq(Unit)), NEW direction, NEW encoding,
         NEW i \in 1 .. Len(blocks)
  PROVE  LET offset == CalculateOffsets(blocks, direction, encoding)[i]
         IN SubSeq(Build(blocks, direction, encoding), offset + 1, offset + Len(blocks[i]))
              = blocks[i]
<1> DEFINE n == Len(blocks)
           payload == Build(blocks, direction, encoding)
<1>1. n \in Nat /\ i - 1 \in 0 .. n /\ i \in 0 .. n /\ i - 1 \in 0 .. n - 1 /\ (i - 1) + 1 = i
  OBVIOUS
<1>2. PICK pieces \in Seq(Seq(Unit)) :
        /\ pieces = Pieces(blocks, Piece(StartOf(direction), encoding), encoding)
        /\ Len(pieces) = n
        /\ pieces[i] \in Seq(Unit) /\ Len(pieces[i]) = 1 + Len(blocks[i])
        /\ \A j \in 1 .. Len(blocks[i]) : pieces[i][1 + j] = blocks[i][j]
  BY PiecesAreSequences, SMTT(30)
<1>3. PICK f, g : LaidOut(blocks, direction, encoding, f, g)
  BY PayloadIsRow
<1>4. /\ IsRow(f, Unit, pieces) /\ IsSum(g, blocks)
      /\ payload = f[n] \o Piece(EndText, encoding)
      /\ \A k \in 0 .. n : f[k] \in Seq(Unit) /\ g[k] \in Nat /\ Len(f[k]) = g[k] + k
  BY <1>2, <1>3 DEF LaidOut
<1>5. PICK p \in Seq(Unit) : p = pieces[i]
  BY <1>2
<1>6. PICK block \in Seq(Unit) :
        /\ block = blocks[i] /\ Len(p) = 1 + Len(block)
        /\ \A j \in 1 .. Len(block) : p[1 + j] = block[j]
  <2>1. blocks[i] \in Seq(Unit)
    OBVIOUS
  <2> QED BY <1>2, <1>5, <2>1
<1>7. PICK sum \in Nat : sum = g[i - 1]
  BY <1>1, <1>4
<1>8. CalculateOffsets(blocks, direction, encoding)[i] = 1 + sum + (i - 1)
  <2>1. LengthOf(SubSeq(blocks, 1, i - 1)) = sum
    BY <1>1, <1>4, <1>7, LengthOfPrefix
  <2>2. i \in DOMAIN blocks
    OBVIOUS
  <2>3. CalculateOffsets(blocks, direction, encoding)[i] =
          Len(Piece(StartOf(direction), encoding)) + LengthOf(SubSeq(blocks, 1, i - 1))
            + (i - 1) * Len(Piece(SeparatorText, encoding))
    BY <2>2 DEF CalculateOffsets
  <2>4. /\ Len(Piece(StartOf(direction), encoding)) = 1
        /\ Len(Piece(SeparatorText, encoding)) = 1
    BY PiecesOfPayload
  <2> QED BY <2>1, <2>3, <2>4
<1>9. PICK before \in Seq(Unit) : before = f[i - 1] /\ Len(before) = sum + (i - 1)
  BY <1>1, <1>4, <1>7
<1>10. PICK row \in Seq(Unit) : row = f[i]
  BY <1>1, <1>4
<1>11. row = before \o p
  <2>1. i - 1 \in 0 .. Len(pieces) - 1
    BY <1>1, <1>2
  <2>2. f[(i - 1) + 1] = f[i - 1] \o pieces[(i - 1) + 1]
    BY <1>4, <2>1 DEF IsRow
  <2> QED BY <1>1, <1>5, <1>9, <1>10, <2>2
<1>12. PICK all \in Seq(Unit) :
         /\ all = f[n] /\ Len(row) <= Len(all)
         /\ \A j \in 1 .. Len(row) : all[j] = row[j]
  <2>1. f[n] \in Seq(Unit)
    BY <1>1, <1>4
  <2>2. i \in 0 .. Len(pieces) /\ n \in i .. Len(pieces)
    BY <1>1, <1>2
  <2>3. IsRow(f, Unit, pieces)
    BY <1>4
  <2>4. Len(f[i]) <= Len(f[n]) /\ \A j \in 1 .. Len(f[i]) : f[n][j] = f[i][j]
    <3> HIDE DEF n
    <3> QED BY <2>2, <2>3, RowGrows
  <2> QED BY <1>10, <2>1, <2>4
<1>13. PICK end \in Seq(Unit) : end = Piece(EndText, encoding)
  BY PiecesOfPayload
<1>14. /\ payload = all \o end /\ all \o end \in Seq(Unit)
       /\ Len(all \o end) = Len(all) + Len(end) /\ Len(end) \in Nat /\ Len(all) \in Nat
       /\ \A j \in 1 .. Len(all) : (all \o end)[j] = all[j]
  <2>1. payload = all \o end
    BY <1>4, <1>12, <1>13
  <2> QED BY <2>1, Joined
<1>15. /\ Len(row) = Len(before) + Len(p) /\ Len(before) \in Nat /\ Len(p) \in Nat
       /\ \A j \in 1 .. Len(p) : row[Len(before) + j] = p[j]
  BY <1>11, Joined
<1> DEFINE offset == Len(before) + 1
           len == Len(block)
<1>16. offset \in Nat /\ len \in Nat /\ Len(p) = 1 + len
  BY <1>6, <1>15
<1>17. \A j \in 1 .. len : payload[offset + j] = block[j] /\ offset + j \in 1 .. Len(payload)
  <2> SUFFICES ASSUME NEW j \in 1 .. len
               PROVE  payload[offset + j] = block[j] /\ offset + j \in 1 .. Len(payload)
    OBVIOUS
  <2>1. 1 + j \in 1 .. Len(p) /\ offset + j = Len(before) + (1 + j)
    BY <1>15, <1>16
  <2>2. row[offset + j] = block[j]
    BY <1>6, <1>15, <2>1
  <2>3. offset + j \in 1 .. Len(row) /\ offset + j \in 1 .. Len(all)
    <3>1. PICK a \in Nat : a = Len(before)
      BY <1>15
    <3>2. PICK c \in Nat : c = Len(all)
      BY <1>14
    <3>3. Len(row) = a + 1 + len /\ a + 1 + len <= c /\ offset + j = a + 1 + j
      BY <1>12, <1>15, <1>16, <3>1, <3>2
    <3> HIDE DEF offset, len
    <3> QED BY <1>16, <3>1, <3>2, <3>3
  <2>4. offset + j \in 1 .. Len(payload)
    BY <1>14, <2>3
  <2> QED BY <1>12, <1>14, <2>2, <2>3, <2>4
<1>18. SubSeq(payload, offset + 1, offset + len) = block
  <2> DEFINE cut == SubSeq(payload, offset + 1, offset + len)
  <2>1. payload \in Seq(Unit) /\ \A j \in offset + 1 .. offset + len : payload[j] \in Unit
    <3>1. payload \in Seq(Unit)
      BY <1>14
    <3>2. ASSUME NEW j \in offset + 1 .. offset + len
          PROVE  payload[j] \in Unit
      <4>1. j - offset \in 1 .. len /\ offset + (j - offset) = j
        BY <1>16
      <4>2. j \in 1 .. Len(payload)
        BY <1>17, <4>1
      <4> QED BY <3>1, <4>2, ElementOfSeq
    <3> QED BY <3>1, <3>2
  <2>2. /\ cut \in Seq(Unit)
        /\ Len(cut) = IF offset + 1 <= offset + len THEN offset + len - (offset + 1) + 1 ELSE 0
        /\ \A j \in 1 .. offset + len - (offset + 1) + 1 : cut[j] = payload[offset + 1 + j - 1]
    <3>1. PICK a \in Int : a = offset + 1
      BY <1>16
    <3>2. PICK b \in Int : b = offset + len
      BY <1>16
    <3>3. /\ SubSeq(payload, a, b) \in Seq(Unit)
          /\ Len(SubSeq(payload, a, b)) = IF a <= b THEN b - a + 1 ELSE 0
          /\ \A j \in 1 .. b - a + 1 : SubSeq(payload, a, b)[j] = payload[a + j - 1]
      <4>1. \A j \in a .. b : payload[j] \in Unit
        BY <2>1, <3>1, <3>2
      <4> HIDE DEF payload
      <4> QED BY <4>1, SubSeqProperties, SMTT(30)
    <3> QED BY <3>1, <3>2, <3>3
  <2>3. Len(cut) = len
    <3>1. PICK a \in Nat : a = offset
      BY <1>16
    <3>2. PICK c \in Nat : c = len
      BY <1>16
    <3>3. Len(cut) = IF a + 1 <= a + c THEN a + c - (a + 1) + 1 ELSE 0
      <4> HIDE DEF cut, offset, len
      <4> QED BY <2>2, <3>1, <3>2
    <3> HIDE DEF cut, offset, len
    <3> QED BY <3>2, <3>3
  <2>4. \A j \in 1 .. len : cut[j] = block[j]
    <3> SUFFICES ASSUME NEW j \in 1 .. len PROVE cut[j] = block[j]
      OBVIOUS
    <3>1. offset + 1 + j - 1 = offset + j /\ j \in 1 .. offset + len - (offset + 1) + 1
      BY <1>16
    <3> QED BY <1>17, <2>2, <3>1
  <2> HIDE DEF cut
  <2> QED BY <2>2, <2>3, <2>4, SeqEqual DEF cut
<1>19. CalculateOffsets(blocks, direction, encoding)[i] = offset
  BY <1>1, <1>7, <1>8, <1>9, SMTT(30)
<1> QED BY <1>6, <1>18, <1>19
-----------------------------------------------------------------------------
(***************************************************************************)
(* What a destination reads.                                               *)
(***************************************************************************)

\* A unit, decompressed.
Opened(u) == [u EXCEPT !.gz = FALSE]

\* Decompressing keeps the number of units.
LEMMA DecompressUnits ==
  ASSUME NEW s \in Seq(Unit)
  PROVE  /\ Decompress(s) \in Seq(Unit) /\ Len(Decompress(s)) = Len(s) /\ Len(s) \in Nat
         /\ \A k \in 1 .. Len(s) : Decompress(s)[k] = Opened(s[k])
<1>1. Len(s) \in Nat /\ DOMAIN s = 1 .. Len(s)
  OBVIOUS
<1>2. \A k \in 1 .. Len(s) : Decompress(s)[k] = Opened(s[k])
  BY <1>1 DEF Decompress, Opened
<1>3. \A u \in Unit : Opened(u) \in Unit
  BY DEF Unit, Opened
<1>4. Decompress(s) \in [1 .. Len(s) -> Unit]
  <2>1. \A k \in 1 .. Len(s) : Opened(s[k]) \in Unit
    BY <1>3
  <2>2. Decompress(s) = [k \in 1 .. Len(s) |-> Opened(s[k])]
    BY <1>1 DEF Decompress, Opened
  <2> QED BY <2>1, <2>2
<1> QED BY <1>1, <1>2, <1>4, FunctionIsSeq

\* Members in a row decompress to their texts in a row.
LEMMA DecompressJoined ==
  ASSUME NEW s \in Seq(Unit), NEW t \in Seq(Unit)
  PROVE  Decompress(s \o t) = Decompress(s) \o Decompress(t)
<1>1. /\ s \o t \in Seq(Unit) /\ Len(s \o t) = Len(s) + Len(t)
      /\ Len(s) \in Nat /\ Len(t) \in Nat
      /\ \A j \in 1 .. Len(s) : (s \o t)[j] = s[j]
      /\ \A j \in 1 .. Len(t) : (s \o t)[Len(s) + j] = t[j]
  BY Joined
<1>2. PICK u \in Seq(Unit) : u = s \o t
  BY <1>1
<1>3. /\ Decompress(u) \in Seq(Unit) /\ Len(Decompress(u)) = Len(u)
      /\ \A k \in 1 .. Len(u) : Decompress(u)[k] = Opened(u[k])
  BY DecompressUnits
<1>4. /\ Decompress(s) \in Seq(Unit) /\ Len(Decompress(s)) = Len(s)
      /\ \A k \in 1 .. Len(s) : Decompress(s)[k] = Opened(s[k])
  BY DecompressUnits
<1>5. /\ Decompress(t) \in Seq(Unit) /\ Len(Decompress(t)) = Len(t)
      /\ \A k \in 1 .. Len(t) : Decompress(t)[k] = Opened(t[k])
  BY DecompressUnits
<1>6. PICK d \in Seq(Unit) : d = Decompress(u)
  BY <1>3
<1>7. PICK a \in Seq(Unit) : a = Decompress(s)
  BY <1>4
<1>8. PICK b \in Seq(Unit) : b = Decompress(t)
  BY <1>5
<1>9. /\ a \o b \in Seq(Unit) /\ Len(a \o b) = Len(a) + Len(b)
      /\ \A j \in 1 .. Len(a) : (a \o b)[j] = a[j]
      /\ \A j \in 1 .. Len(b) : (a \o b)[Len(a) + j] = b[j]
  BY Joined
<1>10. PICK c \in Seq(Unit) : c = a \o b
  BY <1>9
<1>11. PICK m \in Nat : m = Len(s)
  BY <1>1
<1>12. PICK n \in Nat : n = Len(t)
  BY <1>1
<1>13. /\ Len(d) = m + n /\ Len(c) = m + n
       /\ \A k \in 1 .. m + n : d[k] = Opened(u[k])
       /\ \A k \in 1 .. m : u[k] = s[k] /\ c[k] = Opened(s[k])
       /\ \A k \in 1 .. n : u[m + k] = t[k] /\ c[m + k] = Opened(t[k])
  <2>1. Len(u) = m + n /\ Len(a) = m /\ Len(b) = n
    BY <1>1, <1>2, <1>4, <1>5, <1>7, <1>8, <1>11, <1>12
  <2>2. Len(d) = m + n /\ Len(c) = m + n
    BY <1>3, <1>6, <1>9, <1>10, <2>1
  <2>3. \A k \in 1 .. m + n : d[k] = Opened(u[k])
    BY <1>3, <1>6, <2>1
  <2>4. \A k \in 1 .. m : u[k] = s[k]
    BY <1>1, <1>2, <1>11
  <2>5. \A k \in 1 .. n : u[m + k] = t[k]
    BY <1>1, <1>2, <1>11, <1>12
  <2>6. \A k \in 1 .. m : c[k] = a[k] /\ a[k] = Opened(s[k])
    BY <1>4, <1>7, <1>9, <1>10, <1>11, <2>1
  <2>7. \A k \in 1 .. n : c[m + k] = b[k] /\ b[k] = Opened(t[k])
    BY <1>5, <1>8, <1>9, <1>10, <1>12, <2>1
  <2> QED BY <2>2, <2>3, <2>4, <2>5, <2>6, <2>7
<1>14. ASSUME NEW k \in 1 .. m + n PROVE d[k] = c[k]
  <2>1. CASE k <= m
    <3>1. k \in 1 .. m
      BY <2>1
    <3> QED BY <1>13, <3>1
  <2>2. CASE ~ (k <= m)
    <3>1. k - m \in 1 .. n /\ m + (k - m) = k
      BY <2>2
    <3>2. PICK j \in 1 .. n : k = m + j
      BY <3>1
    <3>3. d[k] = Opened(u[k]) /\ u[k] = t[j] /\ c[k] = Opened(t[j])
      BY <1>13, <3>2
    <3> QED BY <3>3
  <2> QED BY <2>1, <2>2
<1>15. d = c
  BY <1>13, <1>14, SeqEqual
<1> QED BY <1>2, <1>6, <1>7, <1>8, <1>10, <1>15

\* Only the member is opened: its text is kept, and whether the function has seen it.
LEMMA OpenedUnit ==
  ASSUME NEW u \in Unit
  PROVE  Opened(u) \in Unit /\ Opened(u) = [text |-> u.text, gz |-> FALSE, mapped |-> u.mapped]
<1>1. Opened(u) \in Unit
  BY DEF Unit, Opened
<1>2. Opened(u).text = u.text
  BY DEF Opened, Unit
<1>3. Opened(u).gz = FALSE
  BY DEF Opened, Unit
<1>4. Opened(u).mapped = u.mapped
  BY DEF Opened, Unit
<1>5. PICK o \in Unit : o = Opened(u)
  BY <1>1
<1>6. o = [text |-> o.text, gz |-> o.gz, mapped |-> o.mapped]
  BY DEF Unit
<1> QED BY <1>2, <1>3, <1>4, <1>5, <1>6

\* A piece of the payload builder decompresses to the piece that is written plain.
LEMMA DecompressPiece ==
  ASSUME NEW t \in Int, NEW encoding
  PROVE  Decompress(Piece(t, encoding)) = Piece(t, "")
<1>1. Opened(Member(t)) = Plain(t)
  <2>1. Member(t) \in Unit
    BY DEF Member, Unit
  <2>2. Member(t).text = t /\ Member(t).mapped = FALSE
    BY DEF Member
  <2>3. Opened(Member(t)) = [text |-> t, gz |-> FALSE, mapped |-> FALSE]
    BY <2>1, <2>2, OpenedUnit
  <2> QED BY <2>3 DEF Plain
<1>2. Opened(Plain(t)) = Plain(t)
  <2>1. Plain(t) \in Unit
    BY DEF Plain, Unit
  <2>2. Plain(t).text = t /\ Plain(t).mapped = FALSE
    BY DEF Plain
  <2>3. Opened(Plain(t)) = [text |-> t, gz |-> FALSE, mapped |-> FALSE]
    BY <2>1, <2>2, OpenedUnit
  <2> QED BY <2>3 DEF Plain
<1>3. Piece(t, encoding) = << Member(t) >> \/ Piece(t, encoding) = << Plain(t) >>
  BY DEF Piece
<1>4. Piece(t, "") = << Plain(t) >>
  BY DEF Piece
<1>5. ASSUME NEW u PROVE Decompress(<< u >>) = << Opened(u) >>
  <2>1. Decompress(<< u >>) = [i \in 1 .. 1 |-> Opened(<< u >>[i])]
    BY DEF Decompress, Opened
  <2>2. << Opened(u) >> = [i \in 1 .. 1 |-> Opened(u)]
    OBVIOUS
  <2> QED BY <2>1, <2>2
<1> QED BY <1>1, <1>2, <1>3, <1>4, <1>5

\* A payload decompresses to the payload of the decompressed blocks.
THEOREM DecompressPayload ==
  ASSUME NEW blocks \in Seq(Seq(Unit)), NEW direction, NEW encoding
  PROVE  Decompress(Build(blocks, direction, encoding))
           = Build([i \in DOMAIN blocks |-> Decompress(blocks[i])], direction, "")
<1> DEFINE opened == [i \in DOMAIN blocks |-> Decompress(blocks[i])]
<1>0. PICK texts \in Seq(Seq(Unit)) :
        /\ texts = opened /\ Len(texts) = Len(blocks)
        /\ \A i \in 1 .. Len(blocks) : texts[i] = Decompress(blocks[i])
  <2>1. PICK n \in Nat : n = Len(blocks) /\ DOMAIN blocks = 1 .. n
    OBVIOUS
  <2>2. \A i \in 1 .. n : Decompress(blocks[i]) \in Seq(Unit)
    <3>1. \A i \in 1 .. n : blocks[i] \in Seq(Unit)
      BY <2>1
    <3> QED BY <3>1, DecompressUnits
  <2>3. opened \in [1 .. n -> Seq(Unit)]
    BY <2>1, <2>2
  <2>4. opened \in Seq(Seq(Unit)) /\ Len(opened) = n
    <3> HIDE DEF opened
    <3> QED BY <2>3, FunctionIsSeq
  <2>5. \A i \in 1 .. n : opened[i] = Decompress(blocks[i])
    BY <2>1
  <2> HIDE DEF opened
  <2> QED BY <2>1, <2>4, <2>5
<1> HIDE DEF opened
<1>1. PICK n \in Nat : n = Len(blocks) /\ DOMAIN blocks = 1 .. n /\ DOMAIN texts = 1 .. n
  BY <1>0
<1>2. PICK f, g : LaidOut(blocks, direction, encoding, f, g)
  BY PayloadIsRow
<1>3. PICK ft, gt : LaidOut(texts, direction, "", ft, gt)
  BY PayloadIsRow
<1>4. PICK pieces \in Seq(Seq(Unit)) :
        /\ pieces = Pieces(blocks, Piece(StartOf(direction), encoding), encoding)
        /\ Len(pieces) = n
  <2>1. PICK pieces : pieces = Pieces(blocks, Piece(StartOf(direction), encoding), encoding)
    OBVIOUS
  <2>2. pieces \in Seq(Seq(Unit)) /\ Len(pieces) = Len(blocks)
    BY <2>1, PiecesAreSequences
  <2> QED BY <1>1, <2>1, <2>2
<1>5. PICK plain \in Seq(Seq(Unit)) :
        plain = Pieces(texts, Piece(StartOf(direction), ""), "") /\ Len(plain) = n
  <2> DEFINE first == Piece(StartOf(direction), "")
  <2>1. PICK plain : plain = Pieces(texts, first, "")
    OBVIOUS
  <2>2. \A enc : plain = Pieces(texts, Piece(StartOf(direction), enc), enc)
                   => plain \in Seq(Seq(Unit)) /\ Len(plain) = Len(texts)
    BY PiecesAreSequences
  <2>3. plain \in Seq(Seq(Unit)) /\ Len(plain) = Len(texts)
    BY <2>1, <2>2
  <2> QED BY <1>0, <1>1, <2>1, <2>3
<1>6. /\ StartOf(direction) \in Int /\ SeparatorText \in Int /\ EndText \in Int
  BY DEF StartOf, StartForward, StartBackward, SeparatorText, EndText
<1>7. ASSUME NEW i \in 1 .. n
      PROVE  plain[i] = Decompress(pieces[i])
  <2>1. PICK t \in Int : t = IF i = 1 THEN StartOf(direction) ELSE SeparatorText
    BY <1>6
  <2>2. pieces[i] = Piece(t, encoding) \o blocks[i]
    BY <1>1, <1>4, <2>1 DEF Pieces
  <2>3. plain[i] = Piece(t, "") \o texts[i]
    BY <1>1, <1>5, <2>1 DEF Pieces
  <2>4. PICK b \in Seq(Unit) : b = blocks[i]
    BY <1>1
  <2>5. PICK p \in Seq(Unit) : p = Piece(t, encoding)
    BY PieceIsUnit
  <2>6. Decompress(p \o b) = Decompress(p) \o Decompress(b)
    BY DecompressJoined
  <2>7. Decompress(p) = Piece(t, "")
    BY <2>5, DecompressPiece
  <2> QED BY <1>0, <1>1, <2>2, <2>3, <2>4, <2>5, <2>6, <2>7
<1>8. /\ f \in [0 .. n -> Seq(Unit)] /\ f[0] = << >>
      /\ ft \in [0 .. n -> Seq(Unit)] /\ ft[0] = << >>
      /\ \A k \in 0 .. n - 1 : f[k + 1] = f[k] \o pieces[k + 1]
      /\ \A k \in 0 .. n - 1 : ft[k + 1] = ft[k] \o plain[k + 1]
  <2>1. IsRow(f, Unit, pieces) /\ IsRow(ft, Unit, plain)
    BY <1>2, <1>3, <1>4, <1>5 DEF LaidOut
  <2> QED BY <1>4, <1>5, <2>1 DEF IsRow
<1> DEFINE E == {k \in 0 .. n : ft[k] = Decompress(f[k])}
<1>9. 0 \in E
  <2>1. Decompress(<< >>) = << >>
    <3>1. << >> \in Seq(Unit) /\ Len(<< >>) = 0
      OBVIOUS
    <3>2. Decompress(<< >>) \in Seq(Unit) /\ Len(Decompress(<< >>)) = 0
      BY <3>1, DecompressUnits
    <3> QED BY <3>2, EmptySeq
  <2> QED BY <1>8, <2>1
<1>10. ASSUME NEW k \in 0 .. n - 1, k \in E
       PROVE  k + 1 \in E
  <2>1. k \in 0 .. n /\ k + 1 \in 1 .. n /\ k + 1 \in 0 .. n
    OBVIOUS
  <2>2. PICK r \in Seq(Unit) : r = f[k]
    BY <1>8, <2>1
  <2>3. PICK p \in Seq(Unit) : p = pieces[k + 1]
    BY <1>4, <2>1
  <2>4. Decompress(r \o p) = Decompress(r) \o Decompress(p)
    BY DecompressJoined
  <2>5. ft[k] = Decompress(r)
    BY <1>10, <2>2
  <2>6. plain[k + 1] = Decompress(p)
    BY <1>7, <2>1, <2>3
  <2>7. f[k + 1] = r \o p /\ ft[k + 1] = ft[k] \o plain[k + 1]
    BY <1>8, <2>2, <2>3
  <2> QED BY <2>1, <2>4, <2>5, <2>6, <2>7
<1>11. \A k \in 0 .. n : k \in E
  <2> HIDE DEF E
  <2> QED BY <1>9, <1>10, UpTo
<1>12. PICK r \in Seq(Unit) : r = f[n] /\ ft[n] = Decompress(r)
  BY <1>8, <1>11
<1>13. PICK end \in Seq(Unit) :
         end = Piece(EndText, encoding) /\ Decompress(end) = Piece(EndText, "")
  BY <1>6, PieceIsUnit, DecompressPiece
<1>14. Decompress(r \o end) = Decompress(r) \o Decompress(end)
  BY DecompressJoined
<1>15. /\ Build(blocks, direction, encoding) = f[n] \o Piece(EndText, encoding)
       /\ Build(texts, direction, "") = ft[n] \o Piece(EndText, "")
  BY <1>0, <1>1, <1>2, <1>3 DEF LaidOut
<1> QED BY <1>0, <1>12, <1>13, <1>14, <1>15 DEF opened

\* Sequences of units are put together from either end.
LEMMA Regrouped == \A a, b, c \in Seq(Unit) : (a \o b) \o c = a \o (b \o c)
<1>1. ASSUME NEW S, NEW a \in Seq(S), NEW b \in Seq(S), NEW c \in Seq(S)
      PROVE  (a \o b) \o c = a \o (b \o c)
  OBVIOUS
<1> QED BY <1>1

\* Written plain, a payload is its start, the first block, the separator and the next
\* block in turn, and its end.
LEMMA BuiltText ==
  ASSUME NEW texts \in Seq(Seq(Unit)), Len(texts) # 0, NEW direction
  PROVE  Build(texts, direction, "") =
           <<Plain(StartOf(direction))>> \o texts[1]
             \o FlattenSeq([i \in 1 .. Len(texts) - 1 |->
                              <<Plain(SeparatorText)>> \o texts[i + 1]])
             \o <<Plain(EndText)>>
<1>1. PICK n \in Nat : n = Len(texts) /\ n # 0 /\ DOMAIN texts = 1 .. n
  OBVIOUS
<1>2. \A t : Piece(t, "") = <<Plain(t)>>
  BY DEF Piece
<1>3. PICK start \in Seq(Unit) : start = Piece(StartOf(direction), "")
  BY PiecesOfPayload
<1>4. PICK sep \in Seq(Unit) : sep = Piece(SeparatorText, "")
  BY PiecesOfPayload
<1>5. PICK rest : rest = [i \in 1 .. n - 1 |-> sep \o texts[i + 1]]
  OBVIOUS
<1>6. rest \in Seq(Seq(Unit)) /\ Len(rest) = n - 1
  <2>1. \A i \in 1 .. n - 1 : sep \o texts[i + 1] \in Seq(Unit)
    <3> SUFFICES ASSUME NEW i \in 1 .. n - 1 PROVE sep \o texts[i + 1] \in Seq(Unit)
      OBVIOUS
    <3>1. i + 1 \in 1 .. n
      BY <1>1
    <3>2. PICK t \in Seq(Unit) : t = texts[i + 1]
      BY <1>1, <3>1
    <3>3. sep \o t \in Seq(Unit)
      BY ConcatProperties
    <3> QED BY <3>2, <3>3
  <2>2. rest \in [1 .. n - 1 -> Seq(Unit)]
    BY <1>5, <2>1
  <2>3. n - 1 \in Nat
    BY <1>1
  <2> QED BY <2>2, <2>3, FunctionIsSeq
<1>7. PICK pieces : pieces = Pieces(texts, start, "")
  OBVIOUS
<1>8. /\ pieces \in Seq(Seq(Unit)) /\ Len(pieces) = n
      /\ pieces[1] = start \o texts[1]
      /\ \A k \in 1 .. n - 1 : pieces[k + 1] = rest[k]
  <2>1. \A enc : pieces = Pieces(texts, Piece(StartOf(direction), enc), enc)
                   => pieces \in Seq(Seq(Unit)) /\ Len(pieces) = Len(texts)
    BY PiecesAreSequences
  <2>2. pieces \in Seq(Seq(Unit)) /\ Len(pieces) = n
    BY <1>1, <1>3, <1>7, <2>1
  <2>3. \A k \in 1 .. n : pieces[k] = (IF k = 1 THEN start ELSE sep) \o texts[k]
    BY <1>1, <1>4, <1>7 DEF Pieces
  <2>4. 1 \in 1 .. n /\ \A k \in 1 .. n - 1 : k + 1 \in 1 .. n /\ k + 1 # 1
    BY <1>1
  <2>5. \A k \in 1 .. n - 1 : pieces[k + 1] = rest[k]
    BY <1>5, <2>3, <2>4
  <2> QED BY <2>2, <2>3, <2>4, <2>5
<1>9. PICK f : IsRow(f, Unit, pieces) /\ FlattenSeq(pieces) = f[n]
  BY <1>8, FlattenSeqIsRow
<1>10. PICK g : IsRow(g, Unit, rest) /\ FlattenSeq(rest) = g[n - 1]
  BY <1>6, FlattenSeqIsRow
<1>11. PICK first \in Seq(Unit) : first = pieces[1]
  <2>1. 1 \in 1 .. Len(pieces)
    BY <1>1, <1>8
  <2>2. pieces[1] \in Seq(Unit)
    BY <1>8, <2>1, ElementOfSeq
  <2> QED BY <2>2
<1>12. /\ f[0] = << >> /\ \A k \in 0 .. n - 1 : f[k + 1] = f[k] \o pieces[k + 1]
       /\ g \in [0 .. n - 1 -> Seq(Unit)]
       /\ g[0] = << >> /\ \A k \in 0 .. n - 2 : g[k + 1] = g[k] \o rest[k + 1]
  <2>1. Len(rest) - 1 = n - 2
    BY <1>1, <1>6
  <2> QED BY <1>6, <1>8, <1>9, <1>10, <2>1 DEF IsRow
<1> DEFINE m == n - 1
           E == {k \in 0 .. m : f[k + 1] = first \o g[k]}
<1>13. 0 \in E
  <2>1. << >> \o first = first /\ first \o << >> = first
    BY ConcatEmptySeq
  <2>2. 0 \in 0 .. n - 1 /\ 0 + 1 = 1
    BY <1>1
  <2>3. f[0 + 1] = << >> \o pieces[1]
    BY <1>12, <2>2
  <2> QED BY <1>11, <1>12, <2>1, <2>2, <2>3
<1>14. ASSUME NEW k \in 0 .. m - 1, k \in E
       PROVE  k + 1 \in E
  <2>1. /\ k \in 0 .. n - 1 /\ k \in 0 .. n - 2 /\ k + 1 \in 0 .. n - 1 /\ k + 1 \in 1 .. n - 1
    BY <1>1
  <2>2. PICK r \in Seq(Unit) : r = g[k]
    BY <1>12, <2>1
  <2>3. PICK p \in Seq(Unit) : p = rest[k + 1]
    BY <1>6, <2>1
  <2>4. (first \o r) \o p = first \o (r \o p)
    BY Regrouped, SMTT(30)
  <2>5. f[k + 1] = first \o r /\ g[k + 1] = r \o p
    BY <1>12, <1>14, <2>1, <2>2, <2>3
  <2>6. f[(k + 1) + 1] = f[k + 1] \o pieces[(k + 1) + 1]
    BY <1>12, <2>1
  <2>7. pieces[(k + 1) + 1] = p
    BY <1>8, <2>1, <2>3
  <2> QED BY <2>1, <2>4, <2>5, <2>6, <2>7
<1>15. \A k \in 0 .. m : k \in E
  <2>1. m \in Nat
    BY <1>1
  <2> HIDE DEF E, m
  <2> QED BY <1>13, <1>14, <2>1, UpTo
<1>16. f[n] = first \o g[n - 1]
  <2>1. n - 1 \in 0 .. m /\ (n - 1) + 1 = n
    BY <1>1
  <2>2. f[(n - 1) + 1] = first \o g[n - 1]
    BY <1>15, <2>1
  <2> QED BY <2>1, <2>2
<1>17. Build(texts, direction, "") = f[n] \o Piece(EndText, "")
  BY <1>3, <1>7, <1>9 DEF Build, combineBytes, Pieces
<1>18. /\ start = <<Plain(StartOf(direction))>>
       /\ sep = <<Plain(SeparatorText)>>
       /\ Piece(EndText, "") = <<Plain(EndText)>>
  BY <1>2, <1>3, <1>4
<1> QED BY <1>1, <1>5, <1>8, <1>10, <1>11, <1>16, <1>17, <1>18
=============================================================================
