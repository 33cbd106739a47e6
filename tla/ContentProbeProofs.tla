------------------------- MODULE ContentProbeProofs -------------------------
(***************************************************************************)
(* Theorems about ContentProbe for every content, every length of chunks   *)
(* and whatever hosts claim.                                               *)
(***************************************************************************)
EXTENDS ContentProbe, NaturalRecursion

----------------------------------------------------------------------------
(* Chunks *)

LEMMA FullChunksFacts ==
    ASSUME NEW size \in Nat
    PROVE  /\ FullChunks(size) \in Nat /\ Chunks(size) \in Nat
           /\ FullChunks(size) <= Chunks(size)
           /\ FullChunks(size) = 0 => size < ChunkLen
           /\ Chunks(size) = 0 => size = 0
<1>1. ChunkLen \in Nat /\ ChunkLen > 0
  BY ContentAssumption
<1> QED  BY <1>1, Z3 DEF FullChunks, Chunks

LEMMA ChildChunks ==
    ASSUME NEW cs \in Seq(Nat), NEW i \in 1 .. Len(cs)
    PROVE  cs[i] \in Nat /\ FullChunks(cs[i]) \in Nat
<1>1. cs[i] \in Nat
  OBVIOUS
<1> QED  BY <1>1, FullChunksFacts

----------------------------------------------------------------------------
(* The sum of the full chunks *)

SumIs(sum, cs) == sum = [i \in 0 .. Len(cs) |->
    IF i = 0 THEN 0 ELSE sum[i - 1] + FullChunks(cs[i])]

Sums(cs) == CHOOSE sum : SumIs(sum, cs)

LEMMA SumsExist ==
    ASSUME NEW cs \in Seq(Nat)
    PROVE  \E sum \in [0 .. Len(cs) -> Nat] : SumIs(sum, cs)
<1> DEFINE n == Len(cs)
           chunks == [i \in 1 .. n |-> FullChunks(cs[i])]
           step == [i \in 1 .. n |-> [x \in Nat |-> x + chunks[i]]]
<1>1. n \in Nat /\ chunks \in [1 .. n -> Nat]
  BY ChildChunks
<1> HIDE DEF n, chunks
<1>2. 0 \in Nat /\ step \in [1 .. n -> [Nat -> Nat]]
  BY <1>1
<1>3. \A i \in 1 .. n : \A x \in Nat : step[i][x] = x + chunks[i]
  OBVIOUS
<1> HIDE DEF step
<1>4. PICK f \in [0 .. n -> Nat] : Runs(f, 0, n, step)
  BY <1>1, <1>2, Recursion
<1>5. \A i \in 1 .. n : f[i] = f[i - 1] + chunks[i]
  <2> TAKE i \in 1 .. n
  <2>1. i - 1 \in 0 .. n
    BY <1>1
  <2> QED  BY <1>3, <1>4, <2>1 DEF Runs
<1>6. f = [i \in 0 .. n |-> f[i]]
  OBVIOUS
<1>7. \A i \in 0 .. n : f[i] = IF i = 0 THEN 0 ELSE f[i - 1] + chunks[i]
  BY <1>1, <1>4, <1>5 DEF Runs
<1>8. \A i \in 0 .. n : f[i] = IF i = 0 THEN 0 ELSE f[i - 1] + FullChunks(cs[i])
  <2> TAKE i \in 0 .. n
  <2>1. CASE i = 0
    BY <1>7, <2>1
  <2>2. CASE i # 0
    <3>1. chunks[i] = FullChunks(cs[i])
      BY <1>1, <2>2 DEF chunks
    <3> QED  BY <1>7, <2>2, <3>1
  <2> QED  BY <2>1, <2>2
<1>9. SumIs(f, cs)
  BY <1>6, <1>8 DEF SumIs, n
<1> QED  BY <1>9 DEF n

LEMMA SumFacts ==
    ASSUME NEW cs \in Seq(Nat)
    PROVE  /\ Sums(cs) \in [0 .. Len(cs) -> Nat]
           /\ Sums(cs)[0] = 0
           /\ \A i \in 1 .. Len(cs) :
                  Sums(cs)[i] = Sums(cs)[i - 1] + FullChunks(cs[i])
           /\ TotalChunks(cs) = Sums(cs)[Len(cs)]
<1>1. Len(cs) \in Nat
  OBVIOUS
<1>2. SumIs(Sums(cs), cs)
  BY SumsExist DEF Sums
<1>3. /\ Sums(cs)[0] = 0
      /\ \A i \in 1 .. Len(cs) : Sums(cs)[i] = Sums(cs)[i - 1] + FullChunks(cs[i])
  <2> DEFINE sum == Sums(cs)
  <2>1. sum = [i \in 0 .. Len(cs) |-> IF i = 0 THEN 0 ELSE sum[i - 1] + FullChunks(cs[i])]
    BY <1>2 DEF SumIs
  <2> HIDE DEF sum
  <2>2. sum[0] = 0 /\ \A i \in 1 .. Len(cs) : sum[i] = sum[i - 1] + FullChunks(cs[i])
    BY <1>1, <2>1
  <2> QED  BY <2>2 DEF sum
<1>4. TotalChunks(cs) = Sums(cs)[Len(cs)]
  BY DEF TotalChunks, Sums, SumIs
<1>5. Sums(cs) \in [0 .. Len(cs) -> Nat]
  <2> DEFINE sum == Sums(cs)
             P == {i \in 0 .. Len(cs) : sum[i] \in Nat}
  <2>1. sum = [i \in 0 .. Len(cs) |-> sum[i]]
    BY <1>2 DEF SumIs
  <2>2. sum[0] = 0 /\ \A i \in 1 .. Len(cs) : sum[i] = sum[i - 1] + FullChunks(cs[i])
    BY <1>3
  <2>3. \A i \in 1 .. Len(cs) : FullChunks(cs[i]) \in Nat
    BY ChildChunks
  <2> HIDE DEF sum
  <2>4. 0 \in P /\ P \in SUBSET (0 .. Len(cs))
    BY <1>1, <2>2
  <2>5. \A i \in 1 .. Len(cs) : i - 1 \in P => i \in P
    BY <1>1, <2>2, <2>3
  <2> HIDE DEF P
  <2>6. P = 0 .. Len(cs)
    BY <1>1, <2>4, <2>5, InductionUpTo
  <2>7. \A i \in 0 .. Len(cs) : sum[i] \in Nat
    BY <2>6 DEF P
  <2>8. sum \in [0 .. Len(cs) -> Nat]
    BY <2>1, <2>7
  <2> QED  BY <2>8 DEF sum
<1> QED  BY <1>3, <1>4, <1>5

LEMMA SumsGrow ==
    ASSUME NEW cs \in Seq(Nat), NEW i \in 0 .. Len(cs), NEW j \in i .. Len(cs)
    PROVE  Sums(cs)[i] <= Sums(cs)[j]
<1> DEFINE sum == Sums(cs)
           P == {k \in 0 .. Len(cs) : i <= k => sum[i] <= sum[k]}
<1>1. Len(cs) \in Nat /\ sum \in [0 .. Len(cs) -> Nat]
  BY SumFacts
<1>2. \A k \in 1 .. Len(cs) : sum[k] = sum[k - 1] + FullChunks(cs[k])
  BY SumFacts
<1>3. \A k \in 1 .. Len(cs) : FullChunks(cs[k]) \in Nat
  BY ChildChunks
<1> HIDE DEF sum
<1>4. 0 \in P /\ P \in SUBSET (0 .. Len(cs))
  BY <1>1
<1>5. \A k \in 1 .. Len(cs) : k - 1 \in P => k \in P
  <2> SUFFICES ASSUME NEW k \in 1 .. Len(cs), k - 1 \in P, i <= k
               PROVE  sum[i] <= sum[k]
    OBVIOUS
  <2>1. CASE i = k
    BY <1>1, <2>1
  <2>2. CASE i <= k - 1
    <3>1. sum[i] <= sum[k - 1] /\ k - 1 \in 0 .. Len(cs)
      BY <1>1, <2>2
    <3>2. sum[i] \in Nat /\ sum[k - 1] \in Nat /\ sum[k] = sum[k - 1] + FullChunks(cs[k])
      BY <1>1, <1>2, <3>1
    <3> QED  BY <1>3, <3>1, <3>2
  <2> QED  BY <1>1, <2>1, <2>2
<1> HIDE DEF P
<1>6. P = 0 .. Len(cs)
  BY <1>1, <1>4, <1>5, InductionUpTo
<1>7. j \in P /\ i <= j
  BY <1>1, <1>6
<1>8. sum[i] <= sum[j]
  BY <1>7 DEF P
<1> QED  BY <1>8 DEF sum

LEMMA TotalBounds ==
    ASSUME NEW cs \in Seq(Nat), NEW i \in 1 .. Len(cs)
    PROVE  /\ Len(cs) \in Nat /\ FullChunks(cs[i]) \in Nat
           /\ TotalChunks(cs) \in Nat /\ Sums(cs)[i - 1] \in Nat /\ Sums(cs)[i] \in Nat
           /\ Sums(cs)[i] = Sums(cs)[i - 1] + FullChunks(cs[i])
           /\ Sums(cs)[i - 1] + FullChunks(cs[i]) <= TotalChunks(cs)
<1>1. Len(cs) \in Nat /\ Sums(cs) \in [0 .. Len(cs) -> Nat]
  BY SumFacts
<1>2. /\ i \in 0 .. Len(cs) /\ i - 1 \in 0 .. Len(cs)
      /\ Len(cs) \in 0 .. Len(cs) /\ Len(cs) \in i .. Len(cs)
  BY <1>1
<1>3. Sums(cs)[i] <= Sums(cs)[Len(cs)]
  BY <1>2, SumsGrow
<1>4. Sums(cs)[i] = Sums(cs)[i - 1] + FullChunks(cs[i])
  BY SumFacts
<1> QED  BY <1>1, <1>2, <1>3, <1>4, SumFacts, ChildChunks

----------------------------------------------------------------------------
(* The loop of the draw *)

LoopIs(after, cs, n) == after = [i \in 0 .. Len(cs) |->
    IF i = 0 THEN [child |-> 0, chunk |-> n]
    ELSE AtChild(after[i - 1], i, FullChunks(cs[i]))]

Loop(cs, n) == CHOOSE after : LoopIs(after, cs, n)

Place == [child : Nat, chunk : Nat]

LEMMA AtChildType ==
    ASSUME NEW at \in Place, NEW i \in Nat, NEW chunks \in Nat
    PROVE  AtChild(at, i, chunks) \in Place
BY DEF AtChild, Place

LEMMA LoopExists ==
    ASSUME NEW cs \in Seq(Nat), NEW n \in Nat
    PROVE  \E after : LoopIs(after, cs, n)
<1> DEFINE len == Len(cs)
           start == [child |-> 0, chunk |-> n]
           chunks == [i \in 1 .. len |-> FullChunks(cs[i])]
           step == [i \in 1 .. len |-> [at \in Place |-> AtChild(at, i, chunks[i])]]
<1>1. len \in Nat /\ chunks \in [1 .. len -> Nat] /\ start \in Place
  BY ChildChunks DEF Place
<1> HIDE DEF len, chunks, start
<1>2. step \in [1 .. len -> [Place -> Place]]
  <2>1. \A i \in 1 .. len : chunks[i] \in Nat /\ i \in Nat
    BY <1>1
  <2> QED  BY <2>1, AtChildType
<1>3. \A i \in 1 .. len : \A at \in Place : step[i][at] = AtChild(at, i, chunks[i])
  OBVIOUS
<1> HIDE DEF step
<1>4. PICK after \in [0 .. len -> Place] : Runs(after, start, len, step)
  BY <1>1, <1>2, Recursion
<1>5. \A i \in 1 .. len : after[i] = AtChild(after[i - 1], i, chunks[i])
  <2> TAKE i \in 1 .. len
  <2>1. i - 1 \in 0 .. len
    BY <1>1
  <2> QED  BY <1>3, <1>4, <2>1 DEF Runs
<1>6. after = [i \in 0 .. len |-> after[i]]
  OBVIOUS
<1>7. \A i \in 0 .. len : after[i] = IF i = 0 THEN start
                                     ELSE AtChild(after[i - 1], i, FullChunks(cs[i]))
  <2> TAKE i \in 0 .. len
  <2>1. CASE i = 0
    BY <1>4, <2>1 DEF Runs
  <2>2. CASE i # 0
    <3>1. i \in 1 .. len
      BY <1>1, <2>2
    <3>2. chunks[i] = FullChunks(cs[i])
      BY <3>1 DEF chunks
    <3> QED  BY <1>5, <2>2, <3>1, <3>2
  <2> QED  BY <2>1, <2>2
<1>8. LoopIs(after, cs, n)
  BY <1>6, <1>7 DEF LoopIs, len, start
<1> QED  BY <1>8

LEMMA LoopFacts ==
    ASSUME NEW cs \in Seq(Nat), NEW n \in Nat
    PROVE  /\ Loop(cs, n)[0] = [child |-> 0, chunk |-> n]
           /\ \A i \in 1 .. Len(cs) :
                  Loop(cs, n)[i] = AtChild(Loop(cs, n)[i - 1], i, FullChunks(cs[i]))
           /\ RandomHashSeqRanges(cs, n) = Loop(cs, n)[Len(cs)]
<1>1. LoopIs(Loop(cs, n), cs, n)
  BY LoopExists DEF Loop
<1>2. Len(cs) \in Nat
  OBVIOUS
<1>3. RandomHashSeqRanges(cs, n) = Loop(cs, n)[Len(cs)]
  BY DEF RandomHashSeqRanges, Loop, LoopIs
<1> DEFINE after == Loop(cs, n)
<1>4. after = [i \in 0 .. Len(cs) |->
                  IF i = 0 THEN [child |-> 0, chunk |-> n]
                  ELSE AtChild(after[i - 1], i, FullChunks(cs[i]))]
  BY <1>1 DEF LoopIs
<1> HIDE DEF after
<1>5. /\ after[0] = [child |-> 0, chunk |-> n]
      /\ \A i \in 1 .. Len(cs) : after[i] = AtChild(after[i - 1], i, FullChunks(cs[i]))
  BY <1>2, <1>4
<1> QED  BY <1>3, <1>5 DEF after

(* Child k holds the n-th full chunk, and it is chunk c of the child. *)
HeldBy(cs, n, k, c) ==
    /\ k \in 1 .. Len(cs) /\ c \in 0 .. FullChunks(cs[k]) - 1
    /\ n = Sums(cs)[k - 1] + c

(* The loop's invariant. *)
LoopInv(cs, n, i, at) ==
    \/ at = [child |-> 0, chunk |-> n - Sums(cs)[i]] /\ Sums(cs)[i] <= n
    \/ \E k \in 1 .. i, c \in Nat : at = [child |-> k, chunk |-> c] /\ HeldBy(cs, n, k, c)

LEMMA LoopStep ==
    ASSUME NEW cs \in Seq(Nat), NEW n \in Nat, NEW i \in 1 .. Len(cs), NEW at,
           LoopInv(cs, n, i - 1, at)
    PROVE  LoopInv(cs, n, i, AtChild(at, i, FullChunks(cs[i])))
<1>1. /\ Len(cs) \in Nat /\ FullChunks(cs[i]) \in Nat
      /\ Sums(cs)[i] \in Nat /\ Sums(cs)[i - 1] \in Nat
      /\ Sums(cs)[i] = Sums(cs)[i - 1] + FullChunks(cs[i])
  BY TotalBounds
<1> DEFINE chunks == FullChunks(cs[i])
           before == Sums(cs)[i - 1]
<1>2. CASE at = [child |-> 0, chunk |-> n - before] /\ before <= n
  <2>1. CASE n - before < chunks
    <3>1. AtChild(at, i, chunks) = [child |-> i, chunk |-> n - before]
      BY <1>2, <2>1 DEF AtChild
    <3>2. HeldBy(cs, n, i, n - before) /\ n - before \in Nat /\ i \in 1 .. i
      BY <1>1, <1>2, <2>1 DEF HeldBy
    <3> QED  BY <3>1, <3>2 DEF LoopInv
  <2>2. CASE ~(n - before < chunks)
    <3>1. AtChild(at, i, chunks) = [child |-> 0, chunk |-> n - before - chunks]
      BY <1>2, <2>2 DEF AtChild
    <3>2. n - before - chunks = n - Sums(cs)[i] /\ Sums(cs)[i] <= n
      BY <1>1, <1>2, <2>2
    <3> QED  BY <3>1, <3>2 DEF LoopInv
  <2> QED  BY <2>1, <2>2
<1>3. ASSUME NEW k \in 1 .. i - 1, NEW c \in Nat,
             at = [child |-> k, chunk |-> c], HeldBy(cs, n, k, c)
      PROVE  LoopInv(cs, n, i, AtChild(at, i, FullChunks(cs[i])))
  <2>1. AtChild(at, i, FullChunks(cs[i])) = at /\ k \in 1 .. i
    BY <1>1, <1>3 DEF AtChild
  <2> QED  BY <1>3, <2>1 DEF LoopInv
<1> QED  BY <1>2, <1>3 DEF LoopInv

(* A number in range is found. *)
LEMMA DrawnIsHeld ==
    ASSUME NEW cs \in Seq(Nat), NEW n \in 0 .. TotalChunks(cs) - 1
    PROVE  \E k \in 1 .. Len(cs), c \in Nat :
               /\ RandomHashSeqRanges(cs, n) = [child |-> k, chunk |-> c]
               /\ HeldBy(cs, n, k, c)
<1> DEFINE P == {i \in 0 .. Len(cs) : LoopInv(cs, n, i, Loop(cs, n)[i])}
<1>1. /\ Len(cs) \in Nat /\ n \in Nat /\ n < Sums(cs)[Len(cs)]
      /\ Sums(cs) \in [0 .. Len(cs) -> Nat] /\ Sums(cs)[0] = 0
  BY SumFacts
<1>2. LoopInv(cs, n, 0, Loop(cs, n)[0])
  BY <1>1, LoopFacts DEF LoopInv
<1>3. 0 \in P /\ P \in SUBSET (0 .. Len(cs))
  BY <1>1, <1>2
<1>4. ASSUME NEW i \in 1 .. Len(cs), i - 1 \in P
      PROVE  i \in P
  <2>1. LoopInv(cs, n, i - 1, Loop(cs, n)[i - 1])
    BY <1>4
  <2>2. LoopInv(cs, n, i, AtChild(Loop(cs, n)[i - 1], i, FullChunks(cs[i])))
    BY <1>1, <2>1, LoopStep
  <2>3. LoopInv(cs, n, i, Loop(cs, n)[i])
    BY <1>1, <2>2, LoopFacts
  <2> QED  BY <1>1, <2>3
<1> HIDE DEF P
<1>5. P = 0 .. Len(cs)
  BY <1>1, <1>3, <1>4, InductionUpTo
<1>6. LoopInv(cs, n, Len(cs), RandomHashSeqRanges(cs, n))
  BY <1>1, <1>5, LoopFacts DEF P
<1> QED  BY <1>1, <1>6 DEF LoopInv

LEMMA HeldBounds ==
    ASSUME NEW cs \in Seq(Nat), NEW n \in Nat, NEW k, NEW c, HeldBy(cs, n, k, c)
    PROVE  /\ k \in 1 .. Len(cs) /\ c \in Nat
           /\ Sums(cs)[k - 1] \in Nat /\ Sums(cs)[k] \in Nat
           /\ Sums(cs)[k - 1] <= n /\ n < Sums(cs)[k] /\ c = n - Sums(cs)[k - 1]
<1>1. k \in 1 .. Len(cs)
  BY DEF HeldBy
<1>2. /\ Sums(cs)[k - 1] \in Nat /\ Sums(cs)[k] \in Nat /\ FullChunks(cs[k]) \in Nat
      /\ Sums(cs)[k] = Sums(cs)[k - 1] + FullChunks(cs[k])
  BY <1>1, TotalBounds
<1> QED  BY <1>1, <1>2 DEF HeldBy

(* One child holds it. *)
LEMMA HeldOnce ==
    ASSUME NEW cs \in Seq(Nat), NEW n \in Nat, NEW j, NEW d, NEW k, NEW c,
           HeldBy(cs, n, j, d), HeldBy(cs, n, k, c)
    PROVE  j = k /\ d = c
<1>1. /\ Len(cs) \in Nat /\ j \in 1 .. Len(cs) /\ k \in 1 .. Len(cs)
      /\ d = n - Sums(cs)[j - 1] /\ c = n - Sums(cs)[k - 1]
      /\ Sums(cs)[j - 1] \in Nat /\ Sums(cs)[j - 1] <= n
      /\ Sums(cs)[k - 1] \in Nat /\ Sums(cs)[k - 1] <= n
      /\ Sums(cs)[j] \in Nat /\ n < Sums(cs)[j] /\ Sums(cs)[k] \in Nat /\ n < Sums(cs)[k]
  BY HeldBounds
<1>2. ASSUME NEW x \in 1 .. Len(cs), NEW y \in 1 .. Len(cs), x < y,
             Sums(cs)[x] \in Nat, Sums(cs)[y - 1] \in Nat,
             n < Sums(cs)[x], Sums(cs)[y - 1] <= n
      PROVE  FALSE
  <2>1. x \in 0 .. Len(cs) /\ y - 1 \in x .. Len(cs)
    BY <1>1, <1>2
  <2>2. Sums(cs)[x] <= Sums(cs)[y - 1]
    BY <2>1, SumsGrow
  <2> QED  BY <1>2, <2>2
<1>3. ~(j < k) /\ ~(k < j)
  BY <1>1, <1>2
<1>4. j = k
  BY <1>1, <1>3
<1> QED  BY <1>1, <1>4

(* Among children of any sizes, the random numbers in range and the full   *)
(* chunks correspond one to one: no full chunk is left out or favoured.    *)
(* (random_hash_seq_ranges)                                                *)
THEOREM FullChunksHaveOneNumber ==
    \A childSizes \in Seq(Nat) : OneNumberPerFullChunk(childSizes)
<1> SUFFICES ASSUME NEW cs \in Seq(Nat) PROVE OneNumberPerFullChunk(cs)
  OBVIOUS
<1> DEFINE range == 0 .. TotalChunks(cs) - 1
           drawn == [n \in range |-> RandomHashSeqRanges(cs, n)]
<1>1. \A n \in range : \E k \in 1 .. Len(cs), c \in Nat :
          drawn[n] = [child |-> k, chunk |-> c] /\ HeldBy(cs, n, k, c)
  BY DrawnIsHeld
<1>2. \A n \in range : FullChunkOf(cs, drawn[n])
  BY <1>1 DEF FullChunkOf, HeldBy
<1>3. ASSUME NEW n \in range, NEW k \in range, drawn[n] = drawn[k]
      PROVE  n = k
  BY <1>1, <1>3 DEF HeldBy
<1>4. ASSUME NEW i \in DOMAIN cs, NEW c \in 0 .. FullChunks(cs[i]) - 1
      PROVE  \E n \in range : drawn[n] = [child |-> i, chunk |-> c]
  <2>0. i \in 1 .. Len(cs) /\ FullChunks(cs[i]) \in Nat
    BY ChildChunks
  <2> DEFINE n == Sums(cs)[i - 1] + c
  <2>1. n \in range /\ n \in Nat /\ HeldBy(cs, n, i, c)
    BY <2>0, TotalBounds DEF HeldBy
  <2> HIDE DEF n, drawn
  <2>2. PICK k \in 1 .. Len(cs), d \in Nat :
            drawn[n] = [child |-> k, chunk |-> d] /\ HeldBy(cs, n, k, d)
    BY <1>1, <2>1
  <2>3. k = i /\ d = c
    BY <2>1, <2>2, HeldOnce
  <2> QED  BY <2>1, <2>2, <2>3
<1>5. DOMAIN drawn = range
  OBVIOUS
<1> QED  BY <1>2, <1>3, <1>4, <1>5 DEF OneNumberPerFullChunk

----------------------------------------------------------------------------
(* Probes *)

LEMMA SizesAreSequences ==
    ASSUME NEW s \in Seqs
    PROVE  /\ SizesOf(s) \in Seq(Nat) /\ DOMAIN SizesOf(s) = DOMAIN Children[s]
           /\ DOMAIN Children[s] = 1 .. Len(SizesOf(s))
<1>1. Children[s] \in Seq(Blobs)
  BY ContentAssumption
<1>2. Len(Children[s]) \in Nat /\ DOMAIN Children[s] = 1 .. Len(Children[s])
      /\ \A i \in 1 .. Len(Children[s]) : Size[Children[s][i]] \in Nat
  BY <1>1, ContentAssumption
<1>3. SizesOf(s) \in [1 .. Len(Children[s]) -> Nat]
  BY <1>2 DEF SizesOf
<1>4. SizesOf(s) \in Seq(Nat)
  BY <1>2, <1>3
<1> QED  BY <1>2, <1>3, <1>4

TrueSizes(content) == IF content \in Blobs THEN Size[content] ELSE SizesOf(content)

LEMMA TrueSizesType ==
    ASSUME NEW content \in Contents
    PROVE  /\ TrueSizes(content) # Unknown
           /\ content \in Blobs => TrueSizes(content) \in Nat
           /\ content \notin Blobs => content \in Seqs /\ TrueSizes(content) \in Seq(Nat)
BY ContentAssumption, SizesAreSequences DEF TrueSizes, Contents

Pcs == {"idle", "any_size", "look_up", "ask_size", "set_size", "children", "draw", "ask_chunk",
        "answered", "failed", "panicked"}
Draft == {Nothing} \cup Nat \cup Seq(Nat) \cup Place
Records == [pc : Pcs, content : Contents \cup {Nothing}, drawn : Draft]

(* The inductive invariant: what is cached is true, and so is what a task  *)
(* is about to cache, of a hash sequence the sizes of the children it has  *)
(* read so far; a task that draws knows the true sizes, which it keeps     *)
(* whatever becomes of the cache; a task that asks has drawn from them;    *)
(* and one that panicked had nothing to draw from.                         *)
TaskInv(at) ==
    /\ at.pc # "idle" => at.content \in Contents
    /\ at.pc = "idle" => at = Idle
    /\ at.pc = "set_size" => at.content \in Blobs /\ at.drawn = Size[at.content]
    /\ at.pc = "children" =>
           /\ at.content \in Seqs /\ at.drawn \in Seq(Nat)
           /\ Len(at.drawn) <= Len(Children[at.content])
           /\ \A i \in 1 .. Len(at.drawn) : at.drawn[i] = Size[Children[at.content][i]]
    /\ at.pc = "draw" => at.drawn = TrueSizes(at.content)
    /\ at.pc = "ask_chunk" =>
           \E draw \in Draws(at.content, TrueSizes(at.content)) :
               at.drawn = Request(at.content, TrueSizes(at.content), draw)
    /\ at.pc = "panicked" => Draws(at.content, TrueSizes(at.content)) = {}

CachedSizesAreTrue ==
    \A content \in Contents : Cached(content) \in {Unknown, TrueSizes(content)}

CacheInv ==
    /\ sizes \in [Blobs -> Nat \cup {Unknown}]
    /\ collections \in [Seqs -> Seq(Nat) \cup {Unknown}]
    /\ CachedSizesAreTrue

TasksInv ==
    /\ task \in [Tasks -> Records]
    /\ \A t \in Tasks : TaskInv(task[t])

ProbeInv == CacheInv /\ TasksInv

LEMMA DrawsAreNumbers ==
    ASSUME NEW content \in Contents, NEW draw \in Draws(content, TrueSizes(content))
    PROVE  /\ draw \in Nat
           /\ content \in Blobs =>
                /\ Request(content, TrueSizes(content), draw) = [child |-> 0, chunk |-> draw]
                /\ draw < Chunks(Size[content])
           /\ content \notin Blobs =>
                \E k \in 1 .. Len(SizesOf(content)), c \in Nat :
                    /\ Request(content, TrueSizes(content), draw) = [child |-> k, chunk |-> c]
                    /\ c < FullChunks(SizesOf(content)[k])
<1>1. CASE content \in Blobs
  <2>1. Size[content] \in Nat /\ Chunks(Size[content]) \in Nat
    BY <1>1, ContentAssumption, FullChunksFacts
  <2>2. draw \in 0 .. Chunks(Size[content]) - 1
    BY <1>1 DEF Draws, TrueSizes
  <2> QED  BY <1>1, <2>1, <2>2 DEF Request, TrueSizes
<1>2. CASE content \notin Blobs
  <2>1. content \in Seqs /\ SizesOf(content) \in Seq(Nat)
    BY <1>2, SizesAreSequences DEF Contents
  <2>2. /\ draw \in 0 .. TotalChunks(SizesOf(content)) - 1
        /\ Request(content, TrueSizes(content), draw)
               = RandomHashSeqRanges(SizesOf(content), draw)
    BY <1>2 DEF Draws, TrueSizes, Request
  <2>3. PICK k \in 1 .. Len(SizesOf(content)), c \in Nat :
            /\ RandomHashSeqRanges(SizesOf(content), draw) = [child |-> k, chunk |-> c]
            /\ HeldBy(SizesOf(content), draw, k, c)
    BY <2>1, <2>2, DrawnIsHeld
  <2>4. FullChunks(SizesOf(content)[k]) \in Nat
    BY <2>1, ChildChunks
  <2>5. c < FullChunks(SizesOf(content)[k])
    BY <2>3, <2>4 DEF HeldBy
  <2>6. draw \in Nat
    BY <2>2
  <2> QED  BY <1>2, <2>2, <2>3, <2>5, <2>6
<1> QED  BY <1>1, <1>2

LEMMA RequestType ==
    ASSUME NEW content \in Contents, NEW draw \in Draws(content, TrueSizes(content))
    PROVE  Request(content, TrueSizes(content), draw) \in Place
BY DrawsAreNumbers DEF Place

(* What all steps of a task but the first and the last do to it. *)
LEMMA BecomesKeeps ==
    ASSUME TasksInv, NEW t \in Tasks, NEW pc \in Pcs \ {"idle"}, NEW drawn \in Draft,
           task[t].pc # "idle", Becomes(t, pc, drawn),
           pc = "set_size" => task[t].content \in Blobs /\ drawn = Size[task[t].content],
           pc = "children" =>
               /\ task[t].content \in Seqs /\ drawn \in Seq(Nat)
               /\ Len(drawn) <= Len(Children[task[t].content])
               /\ \A i \in 1 .. Len(drawn) : drawn[i] = Size[Children[task[t].content][i]],
           pc = "draw" => drawn = TrueSizes(task[t].content),
           pc = "ask_chunk" =>
               \E draw \in Draws(task[t].content, TrueSizes(task[t].content)) :
                   drawn = Request(task[t].content, TrueSizes(task[t].content), draw),
           pc = "panicked" => Draws(task[t].content, TrueSizes(task[t].content)) = {}
    PROVE  TasksInv'
<1> DEFINE new == [task[t] EXCEPT !.pc = pc, !.drawn = drawn]
<1>1. task[t] \in Records /\ task[t].content \in Contents
  BY DEF TasksInv, TaskInv
<1>2. /\ new \in Records /\ new.pc = pc /\ new.drawn = drawn
      /\ new.content = task[t].content
  BY <1>1 DEF Records
<1>3. task' = [task EXCEPT ![t] = new]
  BY DEF Becomes
<1> HIDE DEF new
<1>4. TaskInv(new)
  BY <1>1, <1>2 DEF TaskInv
<1>5. task' \in [Tasks -> Records]
  BY <1>2, <1>3 DEF TasksInv
<1>6. \A u \in Tasks : task'[u] = IF u = t THEN new ELSE task[u]
  BY <1>3 DEF TasksInv
<1>7. \A u \in Tasks : TaskInv(task'[u])
  BY <1>4, <1>6 DEF TasksInv
<1> QED  BY <1>5, <1>7 DEF TasksInv

LEMMA CacheKept ==
    ASSUME CacheInv, UNCHANGED <<sizes, collections>>
    PROVE  CacheInv'
BY DEF CacheInv, CachedSizesAreTrue, Cached

LEMMA ProbeKeeps ==
    ASSUME ProbeInv, NEW t \in Tasks, NEW content \in Contents, Probe(t, content)
    PROVE  ProbeInv'
<1>1. PICK pc \in {"any_size", "look_up"} :
          task' = [task EXCEPT ![t] = [@ EXCEPT !.pc = pc, !.content = content]]
  BY DEF Probe
<1> DEFINE new == [task[t] EXCEPT !.pc = pc, !.content = content]
<1>2. /\ new \in Records /\ new.pc = pc /\ new.content = content
  BY DEF ProbeInv, TasksInv, Records, Pcs
<1>3. task' = [task EXCEPT ![t] = new]
  BY <1>1
<1> HIDE DEF new
<1>4. TaskInv(new)
  BY <1>2 DEF TaskInv
<1>5. TasksInv'
  BY <1>2, <1>3, <1>4 DEF ProbeInv, TasksInv
<1> QED  BY <1>5, CacheKept DEF ProbeInv, Probe

LEMMA LookUpKeeps ==
    ASSUME ProbeInv, NEW t \in Tasks, LookUp(t)
    PROVE  ProbeInv'
<1>1. task[t].pc = "look_up" /\ task[t].content \in Contents
  BY DEF LookUp, ProbeInv, TasksInv, TaskInv
<1>2. CASE Cached(task[t].content) = Unknown
  <2>1. Becomes(t, "ask_size", Nothing)
    BY <1>2 DEF LookUp
  <2>2. Nothing \in Draft /\ "ask_size" \in Pcs \ {"idle"}
    BY DEF Draft, Pcs
  <2>3. TasksInv'
    BY <1>1, <2>1, <2>2, BecomesKeeps DEF ProbeInv
  <2> QED  BY <2>3, CacheKept DEF ProbeInv, LookUp
<1>3. CASE Cached(task[t].content) # Unknown
  <2>1. Cached(task[t].content) = TrueSizes(task[t].content)
    BY <1>1, <1>3 DEF ProbeInv, CacheInv, CachedSizesAreTrue
  <2>2. Becomes(t, "draw", TrueSizes(task[t].content))
    BY <1>3, <2>1 DEF LookUp
  <2>3. TrueSizes(task[t].content) \in Draft /\ "draw" \in Pcs \ {"idle"}
    BY <1>1, TrueSizesType DEF Draft, Pcs
  <2>4. TasksInv'
    BY <1>1, <2>2, <2>3, BecomesKeeps DEF ProbeInv
  <2> QED  BY <2>4, CacheKept DEF ProbeInv, LookUp
<1> QED  BY <1>2, <1>3

LEMMA VerifiedSizeKeeps ==
    ASSUME ProbeInv, NEW t \in Tasks, VerifiedSize(t)
    PROVE  ProbeInv'
<1> DEFINE blob == task[t].content
<1>1. task[t].pc = "ask_size" /\ blob \in Blobs
  BY DEF VerifiedSize
<1>2. Becomes(t, "set_size", Size[blob])
  BY DEF VerifiedSize
<1>3. Size[blob] \in Draft /\ "set_size" \in Pcs \ {"idle"}
  BY <1>1, ContentAssumption DEF Draft, Pcs
<1>4. TasksInv'
  BY <1>1, <1>2, <1>3, BecomesKeeps DEF ProbeInv
<1> QED  BY <1>4, CacheKept DEF ProbeInv, VerifiedSize

LEMMA SetSizeKeeps ==
    ASSUME ProbeInv, NEW t \in Tasks, SetSize(t)
    PROVE  ProbeInv'
<1> DEFINE blob == task[t].content
<1>1. task[t].pc = "set_size" /\ blob \in Blobs /\ task[t].drawn = Size[blob]
  BY DEF SetSize, ProbeInv, TasksInv, TaskInv
<1>2. /\ sizes' = [sizes EXCEPT ![blob] = Size[blob]] /\ UNCHANGED collections
      /\ Becomes(t, "draw", Size[blob])
  BY <1>1 DEF SetSize
<1>3. TrueSizes(blob) = Size[blob] /\ Size[blob] \in Nat /\ blob \in Contents
  BY <1>1, ContentAssumption DEF TrueSizes, Contents
<1>4. TasksInv'
  <2>1. Size[blob] \in Draft /\ "draw" \in Pcs \ {"idle"}
    BY <1>3 DEF Draft, Pcs
  <2> QED  BY <1>1, <1>2, <1>3, <2>1, BecomesKeeps DEF ProbeInv
<1>5. CacheInv'
  BY <1>1, <1>2, <1>3 DEF ProbeInv, CacheInv, CachedSizesAreTrue, Cached, TrueSizes
<1> QED  BY <1>4, <1>5 DEF ProbeInv

LEMMA GetHashSeqKeeps ==
    ASSUME ProbeInv, NEW t \in Tasks, GetHashSeq(t)
    PROVE  ProbeInv'
<1> DEFINE seq == task[t].content
           none == <<>>
<1>1. task[t].pc = "ask_size" /\ seq \in Seqs /\ Becomes(t, "children", none)
  BY DEF GetHashSeq
<1>2. /\ none \in Seq(Nat) /\ Len(none) = 0 /\ Len(Children[seq]) \in Nat
      /\ none \in Draft /\ "children" \in Pcs \ {"idle"}
  BY <1>1, ContentAssumption DEF Draft, Pcs
<1> HIDE DEF none
<1>3. /\ Len(none) <= Len(Children[seq])
      /\ \A i \in 1 .. Len(none) : none[i] = Size[Children[seq][i]]
  BY <1>2
<1>4. TasksInv'
  BY <1>1, <1>2, <1>3, BecomesKeeps DEF ProbeInv
<1> QED  BY <1>4, CacheKept DEF ProbeInv, GetHashSeq

LEMMA GetChildSizeKeeps ==
    ASSUME ProbeInv, NEW t \in Tasks, GetChildSize(t)
    PROVE  ProbeInv'
<1> DEFINE seq == task[t].content
           read == task[t].drawn
           more == Append(read, Size[Child(t)])
<1>1. /\ task[t].pc = "children" /\ Len(read) < Len(Children[seq])
      /\ Becomes(t, "children", more)
  BY DEF GetChildSize, MoreChildren
<1>2. /\ seq \in Seqs /\ read \in Seq(Nat)
      /\ \A i \in 1 .. Len(read) : read[i] = Size[Children[seq][i]]
  BY <1>1 DEF ProbeInv, TasksInv, TaskInv
<1>3. Children[seq] \in Seq(Blobs) /\ Len(Children[seq]) \in Nat /\ Len(read) \in Nat
  BY <1>2, ContentAssumption
<1>4. Child(t) \in Blobs /\ Size[Child(t)] \in Nat
  BY <1>1, <1>3, ContentAssumption DEF Child
<1>5. /\ more \in Seq(Nat) /\ Len(more) = Len(read) + 1
      /\ \A i \in 1 .. Len(read) : more[i] = read[i]
      /\ more[Len(read) + 1] = Size[Children[seq][Len(read) + 1]]
  BY <1>2, <1>3, <1>4 DEF Child
<1> HIDE DEF more
<1>6. \A i \in 1 .. Len(more) : more[i] = Size[Children[seq][i]]
  <2> TAKE i \in 1 .. Len(more)
  <2>1. i \in 1 .. Len(read) \/ i = Len(read) + 1
    BY <1>3, <1>5
  <2> QED  BY <1>2, <1>5, <2>1
<1>7. Len(more) <= Len(Children[seq])
  BY <1>1, <1>3, <1>5
<1>8. more \in Draft /\ "children" \in Pcs \ {"idle"}
  BY <1>5 DEF Draft, Pcs
<1>9. TasksInv'
  BY <1>1, <1>2, <1>5, <1>6, <1>7, <1>8, BecomesKeeps DEF ProbeInv
<1> QED  BY <1>9, CacheKept DEF ProbeInv, GetChildSize

LEMMA SetSizesKeeps ==
    ASSUME ProbeInv, NEW t \in Tasks, SetSizes(t)
    PROVE  ProbeInv'
<1> DEFINE seq == task[t].content
           read == task[t].drawn
<1>1. /\ task[t].pc = "children" /\ ~(Len(read) < Len(Children[seq]))
      /\ collections' = [collections EXCEPT ![seq] = read] /\ UNCHANGED sizes
      /\ Becomes(t, "draw", read)
  BY DEF SetSizes, MoreChildren
<1>2. /\ seq \in Seqs /\ read \in Seq(Nat) /\ Len(read) <= Len(Children[seq])
      /\ \A i \in 1 .. Len(read) : read[i] = Size[Children[seq][i]]
  BY <1>1 DEF ProbeInv, TasksInv, TaskInv
<1>3. /\ seq \in Contents /\ seq \notin Blobs
      /\ TrueSizes(seq) = SizesOf(seq) /\ SizesOf(seq) \in Seq(Nat)
      /\ Len(Children[seq]) \in Nat /\ DOMAIN Children[seq] = 1 .. Len(Children[seq])
  BY <1>2, ContentAssumption, SizesAreSequences DEF TrueSizes, Contents
<1>4. Len(read) = Len(Children[seq])
  BY <1>1, <1>2, <1>3
<1>5. read = SizesOf(seq)
  <2>1. read = [i \in 1 .. Len(read) |-> read[i]]
    BY <1>2
  <2>2. SizesOf(seq) = [i \in 1 .. Len(read) |-> Size[Children[seq][i]]]
    BY <1>3, <1>4 DEF SizesOf
  <2> QED  BY <1>2, <2>1, <2>2
<1>6. TasksInv'
  <2>1. SizesOf(seq) \in Draft /\ "draw" \in Pcs \ {"idle"}
    BY <1>3 DEF Draft, Pcs
  <2> QED  BY <1>1, <1>3, <1>5, <2>1, BecomesKeeps DEF ProbeInv
<1>7. CacheInv'
  <2>1. /\ sizes' \in [Blobs -> Nat \cup {Unknown}]
        /\ collections' \in [Seqs -> Seq(Nat) \cup {Unknown}]
    BY <1>1, <1>2 DEF ProbeInv, CacheInv
  <2>2. \A s \in Seqs : collections'[s] = IF s = seq THEN SizesOf(seq) ELSE collections[s]
    BY <1>1, <1>5 DEF ProbeInv, CacheInv
  <2>3. CachedSizesAreTrue'
    BY <1>1, <1>3, <2>2 DEF ProbeInv, CacheInv, CachedSizesAreTrue, Cached, Contents, TrueSizes
  <2> QED  BY <2>1, <2>3 DEF CacheInv
<1> QED  BY <1>6, <1>7 DEF ProbeInv

LEMMA DrawKeeps ==
    ASSUME ProbeInv, NEW t \in Tasks, Draw(t)
    PROVE  ProbeInv'
<1> DEFINE content == task[t].content
<1>1. /\ task[t].pc = "draw" /\ content \in Contents
      /\ task[t].drawn = TrueSizes(content)
  BY DEF Draw, ProbeInv, TasksInv, TaskInv
<1>2. CASE Draws(content, TrueSizes(content)) = {}
  <2>1. Becomes(t, "panicked", Nothing)
    BY <1>1, <1>2 DEF Draw
  <2>2. Nothing \in Draft /\ "panicked" \in Pcs \ {"idle"}
    BY DEF Draft, Pcs
  <2>3. TasksInv'
    BY <1>1, <1>2, <2>1, <2>2, BecomesKeeps DEF ProbeInv
  <2> QED  BY <2>3, CacheKept DEF ProbeInv, Draw
<1>3. CASE Draws(content, TrueSizes(content)) # {}
  <2>1. PICK draw \in Draws(content, TrueSizes(content)) :
            Becomes(t, "ask_chunk", Request(content, TrueSizes(content), draw))
    BY <1>1, <1>3 DEF Draw
  <2>2. /\ Request(content, TrueSizes(content), draw) \in Draft
        /\ "ask_chunk" \in Pcs \ {"idle"}
    BY <1>1, RequestType DEF Draft, Pcs
  <2>3. TasksInv'
    BY <1>1, <2>1, <2>2, BecomesKeeps DEF ProbeInv
  <2> QED  BY <2>3, CacheKept DEF ProbeInv, Draw
<1> QED  BY <1>2, <1>3

LEMMA IdleIsFine == Idle \in Records /\ TaskInv(Idle)
BY DEF Idle, Records, Pcs, Draft, TaskInv

(* Steps that neither draw nor learn a size. *)
LEMMA EndKeeps ==
    ASSUME ProbeInv, NEW t \in Tasks,
           UnverifiedSize(t) \/ SizeFails(t) \/ AskChunk(t) \/ NextProbe(t)
    PROVE  ProbeInv'
<1>1. UNCHANGED <<sizes, collections>>
  BY DEF UnverifiedSize, SizeFails, AskChunk, NextProbe
<1>2. TasksInv'
  <2>1. CASE UnverifiedSize(t) \/ SizeFails(t) \/ AskChunk(t)
    <3>1. PICK pc \in {"answered", "failed"}, drawn \in {Nothing, task[t].drawn} :
              Becomes(t, pc, drawn)
      BY <2>1 DEF UnverifiedSize, SizeFails, AskChunk
    <3>2. drawn \in Draft /\ pc \in Pcs \ {"idle"} /\ task[t].pc # "idle"
      BY <2>1 DEF ProbeInv, TasksInv, Records, Draft, Pcs, UnverifiedSize, SizeFails, MoreChildren, AskChunk
    <3> QED  BY <3>1, <3>2, BecomesKeeps DEF ProbeInv
  <2>2. CASE NextProbe(t)
    BY <2>2, IdleIsFine DEF NextProbe, ProbeInv, TasksInv
  <2> QED  BY <2>1, <2>2
<1> QED  BY <1>1, <1>2, CacheKept DEF ProbeInv

LEMMA ProbeInit == Init => ProbeInv
<1>1. Init => TasksInv
  BY IdleIsFine DEF Init, TasksInv
<1>2. Init => CacheInv
  BY DEF Init, CacheInv, CachedSizesAreTrue, Cached, Contents
<1> QED  BY <1>1, <1>2 DEF ProbeInv

LEMMA RestartKeeps ==
    ASSUME Restart
    PROVE  ProbeInv'
<1>1. TasksInv'
  BY IdleIsFine DEF Restart, TasksInv
<1>2. CacheInv'
  BY DEF Restart, CacheInv, CachedSizesAreTrue, Cached, Contents
<1> QED  BY <1>1, <1>2 DEF ProbeInv

LEMMA ProbeStep == ProbeInv /\ [Next]_vars => ProbeInv'
<1> SUFFICES ASSUME ProbeInv, [Next]_vars PROVE ProbeInv'
  OBVIOUS
<1>1. CASE UNCHANGED vars
  BY <1>1, CacheKept DEF vars, ProbeInv, TasksInv
<1>2. CASE Restart
  BY <1>2, RestartKeeps
<1>3. CASE Next /\ ~Restart
  BY <1>3, ProbeKeeps, LookUpKeeps, VerifiedSizeKeeps, SetSizeKeeps, GetHashSeqKeeps,
     GetChildSizeKeeps, SetSizesKeeps, DrawKeeps, EndKeeps DEF Next
<1> QED  BY <1>1, <1>2, <1>3

LEMMA ProbeInvariant == Spec => []ProbeInv
BY ProbeInit, ProbeStep, PTL DEF Spec

(* A host is only asked for chunks that exist, and only content without a  *)
(* full chunk makes a probe panic.                                         *)
THEOREM RequestsAreForRealChunks == Spec => []ProbesAskForRealChunks
<1>1. ProbeInv => ProbesAskForRealChunks
  <2> SUFFICES ASSUME ProbeInv, NEW t \in Tasks
               PROVE  LET content == task[t].content
                          request == task[t].drawn
                      IN /\ task[t].pc = "ask_chunk" =>
                              IF content \in Blobs THEN request.chunk < Chunks(Size[content])
                              ELSE /\ request.child \in DOMAIN Children[content]
                                   /\ request.chunk < Chunks(SizesOf(content)[request.child])
                         /\ task[t].pc = "panicked" =>
                              IF content \in Blobs THEN Size[content] = 0
                              ELSE \A i \in DOMAIN Children[content] :
                                       SizesOf(content)[i] < ChunkLen
    BY DEF ProbesAskForRealChunks
  <2> DEFINE content == task[t].content
             request == task[t].drawn
  <2>1. TaskInv(task[t])
    BY DEF ProbeInv, TasksInv
  <2>2. ASSUME task[t].pc = "ask_chunk"
        PROVE  IF content \in Blobs THEN request.chunk < Chunks(Size[content])
               ELSE /\ request.child \in DOMAIN Children[content]
                    /\ request.chunk < Chunks(SizesOf(content)[request.child])
    <3>1. PICK draw \in Draws(content, TrueSizes(content)) :
              request = Request(content, TrueSizes(content), draw)
      BY <2>1, <2>2 DEF TaskInv
    <3>2. content \in Contents
      BY <2>1, <2>2 DEF TaskInv
    <3>3. CASE content \in Blobs
      BY <3>1, <3>2, <3>3, DrawsAreNumbers
    <3>4. CASE content \notin Blobs
      <4>1. PICK k \in 1 .. Len(SizesOf(content)), c \in Nat :
                request = [child |-> k, chunk |-> c] /\ c < FullChunks(SizesOf(content)[k])
        BY <3>1, <3>2, <3>4, DrawsAreNumbers
      <4>2. content \in Seqs /\ SizesOf(content) \in Seq(Nat)
            /\ DOMAIN Children[content] = 1 .. Len(SizesOf(content))
        BY <3>2, <3>4, SizesAreSequences DEF Contents
      <4>3. /\ SizesOf(content)[k] \in Nat
            /\ FullChunks(SizesOf(content)[k]) \in Nat /\ Chunks(SizesOf(content)[k]) \in Nat
            /\ FullChunks(SizesOf(content)[k]) <= Chunks(SizesOf(content)[k])
        BY <4>2, ChildChunks, FullChunksFacts
      <4>4. c < Chunks(SizesOf(content)[k])
        BY <4>1, <4>3
      <4> QED  BY <3>4, <4>1, <4>2, <4>4
    <3> QED  BY <3>3, <3>4
  <2>3. ASSUME task[t].pc = "panicked"
        PROVE  IF content \in Blobs THEN Size[content] = 0
               ELSE \A i \in DOMAIN Children[content] : SizesOf(content)[i] < ChunkLen
    <3>1. content \in Contents /\ Draws(content, TrueSizes(content)) = {}
      BY <2>1, <2>3 DEF TaskInv
    <3>2. CASE content \in Blobs
      <4>1. Size[content] \in Nat /\ Chunks(Size[content]) \in Nat
        BY <3>2, ContentAssumption, FullChunksFacts
      <4>2. 0 .. Chunks(Size[content]) - 1 = {}
        BY <3>1, <3>2 DEF Draws, TrueSizes
      <4>3. Chunks(Size[content]) = 0
        BY <4>1, <4>2
      <4> QED  BY <3>2, <4>1, <4>3, FullChunksFacts
    <3>3. ASSUME content \notin Blobs, NEW i \in DOMAIN Children[content]
          PROVE  SizesOf(content)[i] < ChunkLen
      <4>1. content \in Seqs /\ SizesOf(content) \in Seq(Nat)
            /\ i \in 1 .. Len(SizesOf(content))
        BY <3>1, <3>3, SizesAreSequences DEF Contents
      <4>2. 0 .. TotalChunks(SizesOf(content)) - 1 = {}
        BY <3>1, <3>3 DEF Draws, TrueSizes
      <4>3. /\ TotalChunks(SizesOf(content)) \in Nat
            /\ FullChunks(SizesOf(content)[i]) \in Nat /\ SizesOf(content)[i] \in Nat
            /\ FullChunks(SizesOf(content)[i]) <= TotalChunks(SizesOf(content))
        BY <4>1, TotalBounds, ChildChunks
      <4>4. FullChunks(SizesOf(content)[i]) = 0
        BY <4>2, <4>3
      <4> QED  BY <4>3, <4>4, FullChunksFacts
    <3> QED  BY <3>2, <3>3
  <2> QED  BY <2>2, <2>3
<1> QED  BY <1>1, ProbeInvariant, PTL

(* The sizes the tasks share stay well formed, so this holds of whatever   *)
(* is drawn for a probe, at all times.                                     *)
THEOREM ProbesDrawFullChunksOnce == Spec => []FullChunksAreDrawnOnce
<1>1. ProbeInv => FullChunksAreDrawnOnce
  BY FullChunksHaveOneNumber DEF ProbeInv, CacheInv, FullChunksAreDrawnOnce
<1> QED  BY <1>1, ProbeInvariant, PTL
=============================================================================
