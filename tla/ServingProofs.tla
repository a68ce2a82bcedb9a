---------------------------- MODULE ServingProofs ----------------------------
(***************************************************************************)
(* The serving engine keeps the invariant SInv, whatever its constants are *)
(* and whatever an iteration of the main loop raises, and what follows.    *)
(***************************************************************************)
EXTENDS ServingInvariant, SublistTheorems, SequenceTheorems

-----------------------------------------------------------------------------
(* Constants.                                                              *)

LEMMA Constants ==
  /\ NumRequests \in Nat /\ MaxSeqs \in Nat /\ MaxBatchSize \in Nat /\ MaxBatchSize <= MaxSeqs
  /\ NumGpuBlocks \in Nat \ {0} /\ BlockSize \in Nat \ {0} /\ MaxTokensInBatch \in Nat
  /\ NumCpuBlocks \in Nat /\ ForwardFaults \in Nat
  /\ NumLayers \in Nat \ {0} /\ NumLayersToQuantize \in Nat \ {0} /\ LentBlocks \in Nat \ {0}
  /\ NumLayersToQuantize <= NumLayers /\ AwqLayers \in 0 .. NumLayers
  /\ PromptLens \subseteq Nat \ {0} /\ OutputLens \subseteq Nat \ {0}
BY SchedulerAssumption, ReplacementAssumption, EngineAssumption

(* A group more or less keeps the pool within MaxGpuBlocks. *)
LEMMA PoolSizes ==
  ASSUME NEW m \in Nat, m <= NumLayers
  PROVE  /\ NumGpuBlocks + m * LentBlocks \in NumGpuBlocks .. MaxGpuBlocks
         /\ MaxGpuBlocks \in Nat
<1>1. NumLayers \in Nat /\ LentBlocks \in Nat /\ NumGpuBlocks \in Nat
  BY Constants
<1> DEFINE p == m * LentBlocks
           q == NumLayers * LentBlocks
<1>2. p \in Nat /\ q \in Nat /\ p <= q
  BY <1>1
<1> HIDE DEF p, q
<1>3. NumGpuBlocks + p \in NumGpuBlocks .. NumGpuBlocks + q /\ NumGpuBlocks + q \in Nat
  BY <1>1, <1>2
<1> QED BY <1>3 DEF MaxGpuBlocks, p, q

LEMMA PoolGrows ==
  ASSUME NEW m \in Nat, NEW n \in Int
  PROVE  /\ NumGpuBlocks + (m + n) * LentBlocks = NumGpuBlocks + m * LentBlocks + n * LentBlocks
         /\ n * LentBlocks \in Int /\ m * LentBlocks \in Nat
BY Constants

LEMMA CeilDivNat ==
  ASSUME NEW a \in Nat, NEW b \in Nat \ {0}
  PROVE  CeilDiv(a, b) \in Nat
BY DEF CeilDiv

-----------------------------------------------------------------------------
(* Queues.                                                                 *)

LEMMA ElementsOf ==
  ASSUME NEW s
  PROVE  /\ \A i \in DOMAIN s : s[i] \in Elements(s)
         /\ \A x \in Elements(s) : \E i \in DOMAIN s : s[i] = x
         /\ ToSet(s) = Elements(s)
BY DEF Elements, ToSet

LEMMA ContainsElements ==
  ASSUME NEW X, NEW s \in Seq(X), NEW x
  PROVE  Contains(s, x) <=> x \in Elements(s)
<1>1. DOMAIN s = 1 .. Len(s)
  OBVIOUS
<1> QED BY <1>1 DEF Contains, Elements

LEMMA MapList ==
  ASSUME NEW X, NEW Y, NEW s \in Seq(X), NEW f, \A x \in Elements(s) : f[x] \in Y
  PROVE  /\ Map(s, f) \in Seq(Y) /\ Len(Map(s, f)) = Len(s) /\ DOMAIN Map(s, f) = DOMAIN s
         /\ \A i \in DOMAIN s : Map(s, f)[i] = f[s[i]]
         /\ Elements(Map(s, f)) = {f[x] : x \in Elements(s)}
<1>1. Len(s) \in Nat /\ DOMAIN s = 1 .. Len(s)
  OBVIOUS
<1>2. Map(s, f) \in [1 .. Len(s) -> Y]
  BY <1>1, ElementsOf DEF Map
<1>3. Map(s, f) \in Seq(Y) /\ Len(Map(s, f)) = Len(s)
  BY <1>1, <1>2, FunctionList, Zenon
<1> QED BY <1>1, <1>2, <1>3 DEF Map, Elements

LEMMA MapInjective ==
  ASSUME NEW X, NEW s \in Seq(X), NEW f, IsInjective(s),
         \A x, y \in Elements(s) : f[x] = f[y] => x = y
  PROVE  IsInjective(Map(s, f))
<1> SUFFICES ASSUME NEW i \in DOMAIN s, NEW j \in DOMAIN s, f[s[i]] = f[s[j]] PROVE i = j
  BY DEF Map, IsInjective
<1>1. s[i] \in Elements(s) /\ s[j] \in Elements(s)
  BY ElementsOf
<1>2. s[i] = s[j]
  BY <1>1
<1> QED BY <1>2 DEF IsInjective

(* The first n of a queue and the rest of it. *)
LEMMA FirstAndRest ==
  ASSUME NEW X, NEW s \in Seq(X), NEW n \in 0 .. Len(s)
  PROVE  /\ First(s, n) \in Seq(X) /\ Rest(s, n) \in Seq(X)
         /\ Len(First(s, n)) = n /\ Len(Rest(s, n)) = Len(s) - n
         /\ DOMAIN First(s, n) = 1 .. n /\ DOMAIN Rest(s, n) = 1 .. Len(s) - n
         /\ \A i \in 1 .. n : First(s, n)[i] = s[i]
         /\ \A i \in 1 .. Len(s) - n : Rest(s, n)[i] = s[n + i]
<1>1. Len(s) \in Nat /\ n \in Nat /\ n <= Len(s) /\ Len(s) - n \in Nat /\ n + (Len(s) - n) = Len(s)
  OBVIOUS
<1>2. /\ SubSeq(s, 1, n) \in Seq(X) /\ Len(SubSeq(s, 1, n)) = n
      /\ \A i \in 1 .. n : SubSeq(s, 1, n)[i] = s[i]
  BY FirstOfList, Zenon
<1> DEFINE r == SubSeq(s, n + 1, n + (Len(s) - n))
           l == Len(s) - n
<1>3. l \in Nat /\ n + l <= Len(s) /\ r = SubSeq(s, n + 1, n + l)
  BY <1>1
<1> HIDE DEF l, r
<1>4. /\ r \in Seq(X) /\ Len(r) = l /\ DOMAIN r = 1 .. l
      /\ \A m \in 1 .. l : r[m] = s[n + m]
  <2> DEFINE sl == SubSeq(s, n + 1, n + l)
  <2>1. /\ sl \in Seq(X) /\ Len(sl) = l /\ DOMAIN sl = 1 .. l
        /\ \A m \in 1 .. l : n + m \in DOMAIN s /\ sl[m] = s[n + m]
    BY <1>1, <1>3, SlicePlaces, SMTT(30)
  <2> HIDE DEF sl
  <2> QED BY <1>3, <2>1 DEF sl
<1>5. Rest(s, n) = r
  BY <1>1 DEF Rest, r
<1> QED BY <1>2, <1>4, <1>5 DEF First, l

(* What a slice up to n is, alone. *)
LEMMA FirstFacts ==
  ASSUME NEW X, NEW s \in Seq(X), NEW n \in 0 .. Len(s)
  PROVE  /\ First(s, n) \in Seq(X) /\ Len(First(s, n)) = n /\ DOMAIN First(s, n) = 1 .. n
         /\ \A i \in 1 .. n : First(s, n)[i] = s[i]
BY FirstAndRest, SMTT(60)

LEMMA FirstAndRestElements ==
  ASSUME NEW X, NEW s \in Seq(X), NEW n \in 0 .. Len(s)
  PROVE  /\ Elements(First(s, n)) \cup Elements(Rest(s, n)) = Elements(s)
         /\ IsInjective(s) => /\ IsInjective(First(s, n)) /\ IsInjective(Rest(s, n))
                              /\ Elements(First(s, n)) \cap Elements(Rest(s, n)) = {}
<1> DEFINE a == First(s, n)
           b == Rest(s, n)
           l == Len(s) - n
<1>1. /\ DOMAIN a = 1 .. n /\ DOMAIN b = 1 .. l
      /\ \A i \in 1 .. n : a[i] = s[i]
      /\ \A i \in 1 .. l : b[i] = s[n + i]
  BY FirstAndRest, SMTT(60)
<1>2. /\ DOMAIN s = 1 .. Len(s) /\ n \in Nat /\ Len(s) \in Nat
      /\ \A i \in 1 .. n : i \in DOMAIN s
      /\ \A i \in 1 .. l : n + i \in DOMAIN s
      /\ \A i \in DOMAIN s : i \in 1 .. n \/ (i - n \in 1 .. l /\ n + (i - n) = i)
  OBVIOUS
<1> HIDE DEF a, b, l
<1>3. Elements(a) \cup Elements(b) = Elements(s)
  BY <1>1, <1>2 DEF Elements
<1>4. ASSUME IsInjective(s)
      PROVE  IsInjective(a) /\ IsInjective(b) /\ Elements(a) \cap Elements(b) = {}
  <2>1. \A i, j \in DOMAIN s : s[i] = s[j] => i = j
    BY <1>4 DEF IsInjective
  <2>2. IsInjective(a)
    BY <1>1, <1>2, <2>1 DEF IsInjective
  <2>3. IsInjective(b)
    <3> SUFFICES ASSUME NEW i \in 1 .. l, NEW j \in 1 .. l, b[i] = b[j] PROVE i = j
      BY <1>1 DEF IsInjective
    <3>1. n + i = n + j
      BY <1>1, <1>2, <2>1
    <3> QED BY <1>2, <3>1 DEF l
  <2>4. Elements(a) \cap Elements(b) = {}
    <3> SUFFICES ASSUME NEW i \in 1 .. n, NEW j \in 1 .. l, a[i] = b[j] PROVE FALSE
      BY <1>1 DEF Elements
    <3>1. i = n + j
      BY <1>1, <1>2, <2>1
    <3> QED BY <1>2, <3>1 DEF l
  <2> QED BY <2>2, <2>3, <2>4
<1> QED BY <1>3, <1>4 DEF a, b

LEMMA ReverseList ==
  ASSUME NEW X, NEW s \in Seq(X)
  PROVE  /\ Reverse(s) \in Seq(X) /\ Len(Reverse(s)) = Len(s)
         /\ Elements(Reverse(s)) = Elements(s)
         /\ IsInjective(s) => IsInjective(Reverse(s))
         /\ Reverse(Reverse(s)) = s
<1> DEFINE n == Len(s)
           r == Reverse(s)
<1>1. n \in Nat /\ DOMAIN s = 1 .. n /\ \A i \in 1 .. n : (n - i) + 1 \in 1 .. n /\ (n - ((n - i) + 1)) + 1 = i
  OBVIOUS
<1>2. r \in [1 .. n -> X] /\ \A i \in 1 .. n : r[i] = s[(n - i) + 1]
  BY <1>1 DEF Reverse
<1>3. r \in Seq(X) /\ Len(r) = n
  <2> HIDE DEF n, r
  <2> QED BY <1>1, <1>2, FunctionList, Zenon
<1> HIDE DEF r
<1>4. Elements(r) = Elements(s)
  <2>1. \A i \in 1 .. n : s[i] = r[(n - i) + 1]
    BY <1>1, <1>2
  <2>2. DOMAIN r = 1 .. n
    BY <1>2
  <2> QED BY <1>1, <1>2, <2>1, <2>2 DEF Elements
<1>5. ASSUME IsInjective(s) PROVE IsInjective(r)
  <2> SUFFICES ASSUME NEW i \in 1 .. n, NEW j \in 1 .. n, r[i] = r[j] PROVE i = j
    BY <1>2 DEF IsInjective
  <2>1. (n - i) + 1 = (n - j) + 1
    BY <1>1, <1>2, <1>5 DEF IsInjective
  <2> QED BY <1>1, <2>1
<1>6. Reverse(r) = s
  BY <1>1, <1>2, <1>3 DEF Reverse
<1> QED BY <1>3, <1>4, <1>5, <1>6 DEF r

-----------------------------------------------------------------------------
(* The two instances of BlockManager, in the terms of SublistTheorems.     *)

LEMMA GpuSum ==
  ASSUME NEW f
  PROVE  GPU!SumFunction(f) = SumFunctionOnSet(f, DOMAIN f)
BY DEF GPU!SumFunction, GPU!SumFunctionOnSet, SumFunctionOnSet, GPU!FoldFunctionOnSet,
       FoldFunctionOnSet, GPU!MapThenFoldSet, MapThenFoldSet

LEMMA GpuSliceStart ==
  ASSUME NEW f, NEW i
  PROVE  GPU!Before(f, i) = SliceStart(f, i)
BY DEF GPU!Before, SliceStart, GPU!SumFunctionOnSet, SumFunctionOnSet, GPU!FoldFunctionOnSet,
       FoldFunctionOnSet, GPU!MapThenFoldSet, MapThenFoldSet

LEMMA GpuSelected ==
  ASSUME NEW n
  PROVE  GPU!Selected(n) = SelectedFrom(gpu_free, n)
BY DEF GPU!Selected, SelectedFrom, GPU!Cardinality, Cardinality

LEMMA GpuExtended ==
  ASSUME NEW ids, NEW targets, NEW lens, lens = GPU!Missing(ids, targets), DOMAIN lens = DOMAIN ids,
         DOMAIN gpu_table = RequestIds, GPU!AllocateForSeqs(ids, targets)
  PROVE  LET total == SumFunctionOnSet(lens, DOMAIN ids)
             sel == SelectedFrom(gpu_free, total)
         IN  /\ gpu_free' = gpu_free \ Elements(sel)
             /\ gpu_num_free' = gpu_num_free - total
             /\ gpu_table' = Extended(gpu_table, ids, lens, sel)
<1> DEFINE total == SumFunctionOnSet(lens, DOMAIN ids)
           sel == SelectedFrom(gpu_free, total)
<1>1. GPU!SumFunction(lens) = total /\ GPU!Selected(total) = sel
  BY GpuSum, GpuSelected
<1>2. /\ gpu_free' = gpu_free \ GPU!ToSet(GPU!Selected(GPU!SumFunction(lens)))
      /\ gpu_num_free' = gpu_num_free - GPU!SumFunction(lens)
      /\ gpu_table' = [s \in RequestIds |->
           IF \E i \in DOMAIN ids : ids[i] = s
             THEN LET i == CHOOSE j \in DOMAIN ids : ids[j] = s
                  IN  gpu_table[s] \o GPU!NewBlocksOf(ids, targets, i)
             ELSE gpu_table[s]]
  BY Zenon DEF GPU!AllocateForSeqs
<1>3. gpu_free' = gpu_free \ Elements(sel)
  BY <1>1, <1>2 DEF GPU!ToSet, Elements
<1>4. \A i \in DOMAIN ids :
        GPU!NewBlocksOf(ids, targets, i) = SubSeq(sel, SliceStart(lens, i) + 1, SliceStart(lens, i) + lens[i])
  BY <1>1, GpuSliceStart, Zenon DEF GPU!NewBlocksOf
<1> HIDE DEF sel, total
<1>5. gpu_table' = Extended(gpu_table, ids, lens, sel)
  BY <1>2, <1>4, Zenon DEF Extended
<1> QED BY <1>1, <1>2, <1>3, <1>5, Zenon DEF sel, total

LEMMA GpuGathered ==
  ASSUME NEW ids
  PROVE  /\ GPU!Lengths(ids) = RowLengths(gpu_table, ids)
         /\ GPU!Gathered(ids) = GatheredFrom(gpu_table, ids)
BY DEF GPU!Gathered, GatheredFrom, GPU!Lengths, RowLengths, GPU!Before, SliceStart,
       GPU!SumFunction, GPU!SumFunctionOnSet, SumFunctionOnSet, GPU!FoldFunctionOnSet,
       FoldFunctionOnSet, GPU!MapThenFoldSet, MapThenFoldSet

GpuPool(pool) == DeviceTells(RequestIds, MaxGpuBlocks, pool, gpu_free, gpu_num_free, gpu_table)

(* An allocation that finds enough free blocks. *)
LEMMA GpuAllocates ==
  ASSUME NEW pool, GpuPool(pool), NEW ids \in Seq(RequestIds), IsInjective(ids),
         NEW targets, \A i \in DOMAIN ids : targets[i] \in Nat /\ Len(gpu_table[ids[i]]) <= targets[i],
         GPU!EnoughFree(ids, targets), GPU!AllocateForSeqs(ids, targets)
  PROVE  /\ GpuPool(pool)'
         /\ \A s \in RequestIds : ~(s \in Elements(ids)) => gpu_table'[s] = gpu_table[s]
         /\ \A i \in DOMAIN ids : Len(gpu_table'[ids[i]]) = targets[i]
<1> DEFINE lens == GPU!Missing(ids, targets)
           total == SumFunctionOnSet(lens, DOMAIN ids)
           sel == SelectedFrom(gpu_free, total)
<1>1. MaxGpuBlocks \in Nat
  BY PoolSizes, Constants
<1>2. gpu_table \in [RequestIds -> Seq(1 .. MaxGpuBlocks)]
  BY Zenon DEF GpuPool, DeviceTells
<1>3. /\ \A i \in DOMAIN ids : ids[i] \in RequestIds /\ Len(gpu_table[ids[i]]) \in Nat
      /\ lens = [i \in DOMAIN ids |-> targets[i] - Len(gpu_table[ids[i]])]
  BY <1>2 DEF GPU!Missing
<1>4. lens \in [DOMAIN ids -> Nat] /\ \A i \in DOMAIN ids : Len(gpu_table[ids[i]]) + lens[i] = targets[i]
  BY <1>3
<1>5. total <= gpu_num_free
  <2>1. DOMAIN lens = DOMAIN ids
    BY <1>3
  <2>2. GPU!SumFunction(lens) <= gpu_num_free
    BY Zenon DEF GPU!EnoughFree
  <2>3. GPU!SumFunction(lens) = SumFunctionOnSet(lens, DOMAIN lens)
    BY GpuSum, Zenon
  <2> QED BY <2>1, <2>2, <2>3
<1>6. /\ gpu_free' = gpu_free \ Elements(sel)
      /\ gpu_num_free' = gpu_num_free - total
      /\ gpu_table' = Extended(gpu_table, ids, lens, sel)
  <2>1. DOMAIN lens = DOMAIN ids /\ DOMAIN gpu_table = RequestIds
    BY <1>2, <1>3
  <2> QED BY <2>1, GpuExtended
<1> HIDE DEF lens
<1>7. AfterAllocation(RequestIds, MaxGpuBlocks, pool, gpu_free, gpu_num_free, gpu_table, ids, lens)
  <2>1. DeviceTells(RequestIds, MaxGpuBlocks, pool, gpu_free, gpu_num_free, gpu_table)
    BY Zenon DEF GpuPool
  <2> QED BY <1>1, <1>4, <1>5, <2>1, AllocationOnDevice, Zenon
<1>8. /\ DeviceTells(RequestIds, MaxGpuBlocks, pool, gpu_free', gpu_num_free', gpu_table')
      /\ \A s \in RequestIds : ~(s \in Elements(ids)) => gpu_table'[s] = gpu_table[s]
      /\ \A i \in DOMAIN ids : Len(gpu_table'[ids[i]]) = Len(gpu_table[ids[i]]) + lens[i]
  BY <1>6, <1>7, Zenon DEF AfterAllocation
<1> QED BY <1>4, <1>8 DEF GpuPool

(* A release. *)
LEMMA GpuReleases ==
  ASSUME NEW pool, GpuPool(pool), NEW ids \in Seq(RequestIds), IsInjective(ids),
         GPU!FreeForSeqs(ids)
  PROVE  /\ GpuPool(pool)'
         /\ \A s \in RequestIds : gpu_table'[s] = IF s \in Elements(ids) THEN <<>> ELSE gpu_table[s]
         /\ GPU!Gathered(ids) \in Seq(1 .. MaxGpuBlocks)
         /\ IsInjective(GPU!Gathered(ids))
<1> DEFINE g == GatheredFrom(gpu_table, ids)
<1>1. MaxGpuBlocks \in Nat
  BY PoolSizes, Constants
<1>2. DOMAIN gpu_table = RequestIds
  <2>1. gpu_table \in [RequestIds -> Seq(1 .. MaxGpuBlocks)]
    BY Zenon DEF GpuPool, DeviceTells
  <2> QED BY <2>1
<1>3. GPU!Gathered(ids) = g
  BY GpuGathered, Zenon
<1> HIDE DEF g
<1>4. /\ gpu_free' = gpu_free \cup Elements(g) /\ gpu_num_free' = gpu_num_free + Len(g)
      /\ gpu_table' = RowsReleased(gpu_table, ids)
  <2>1. GPU!ToSet(g) = Elements(g) /\ GPU!ToSet(ids) = Elements(ids)
    BY DEF GPU!ToSet, Elements
  <2>2. /\ gpu_free' = gpu_free \cup GPU!ToSet(GPU!Gathered(ids))
        /\ gpu_num_free' = gpu_num_free + Len(GPU!Gathered(ids))
        /\ gpu_table' = [s \in RequestIds |-> IF s \in GPU!ToSet(ids) THEN <<>> ELSE gpu_table[s]]
    BY Zenon DEF GPU!FreeForSeqs
  <2>3. gpu_table' = RowsReleased(gpu_table, ids)
    BY <1>2, <2>1, <2>2 DEF RowsReleased
  <2> QED BY <1>3, <2>1, <2>2, <2>3
<1>5. AfterRelease(RequestIds, MaxGpuBlocks, pool, gpu_free, gpu_num_free, gpu_table, ids)
  <2>1. DeviceTells(RequestIds, MaxGpuBlocks, pool, gpu_free, gpu_num_free, gpu_table)
    BY Zenon DEF GpuPool
  <2> QED BY <1>1, <2>1, ReleaseOnDevice, Zenon
<1>6. /\ DeviceTells(RequestIds, MaxGpuBlocks, pool, gpu_free', gpu_num_free', gpu_table')
      /\ \A s \in RequestIds : gpu_table'[s] = IF s \in Elements(ids) THEN <<>> ELSE gpu_table[s]
      /\ g \in Seq(1 .. MaxGpuBlocks) /\ IsInjective(g)
  BY <1>4, <1>5, Zenon DEF AfterRelease, g
<1> QED BY <1>3, <1>6 DEF GpuPool

(* What the tables tell is what EveryBlockHasOnePlace says. *)
LEMMA GpuPlaces ==
  ASSUME NEW pool
  PROVE  GPU!EveryBlockHasOnePlace(pool) <=>
           OnePlaceEach(RequestIds, pool, gpu_free, gpu_num_free, gpu_table)
<1> DEFINE block == BlockAt(RequestIds, gpu_table)
<1>1. GPU!Cardinality(gpu_free) = Cardinality(gpu_free)
  BY DEF GPU!Cardinality, Cardinality
<1>2. GPU!EveryBlockHasOnePlace(pool) <=>
         /\ gpu_num_free = GPU!Cardinality(gpu_free)
         /\ GPU!IsInjective(block) /\ GPU!Range(block) = pool \ gpu_free
         /\ gpu_free \subseteq pool
  BY Zenon DEF GPU!EveryBlockHasOnePlace, BlockAt, PlacesOf
<1> HIDE DEF block
<1>3. GPU!IsInjective(block) <=> \A p, q \in DOMAIN block : block[p] = block[q] => p = q
  BY Zenon DEF GPU!IsInjective
<1>4. GPU!Range(block) = {block[p] : p \in DOMAIN block}
  BY Zenon DEF GPU!Range
<1>5. GPU!EveryBlockHasOnePlace(pool) <=> PlacedOnce(pool, gpu_free, gpu_num_free, block)
  BY <1>1, <1>2, <1>3, <1>4, Zenon DEF PlacedOnce
<1> QED BY <1>5, PlacesApart, Zenon DEF block

-----------------------------------------------------------------------------
(* The same of the CPU.                                                    *)

LEMMA CpuSum ==
  ASSUME NEW f
  PROVE  CPU!SumFunction(f) = SumFunctionOnSet(f, DOMAIN f)
BY DEF CPU!SumFunction, CPU!SumFunctionOnSet, SumFunctionOnSet, CPU!FoldFunctionOnSet,
       FoldFunctionOnSet, CPU!MapThenFoldSet, MapThenFoldSet

LEMMA CpuSliceStart ==
  ASSUME NEW f, NEW i
  PROVE  CPU!Before(f, i) = SliceStart(f, i)
BY DEF CPU!Before, SliceStart, CPU!SumFunctionOnSet, SumFunctionOnSet, CPU!FoldFunctionOnSet,
       FoldFunctionOnSet, CPU!MapThenFoldSet, MapThenFoldSet

LEMMA CpuSelected ==
  ASSUME NEW n
  PROVE  CPU!Selected(n) = SelectedFrom(cpu_free, n)
BY DEF CPU!Selected, SelectedFrom, CPU!Cardinality, Cardinality

LEMMA CpuExtended ==
  ASSUME NEW ids, NEW targets, NEW lens, lens = CPU!Missing(ids, targets), DOMAIN lens = DOMAIN ids,
         DOMAIN cpu_table = RequestIds, CPU!AllocateForSeqs(ids, targets)
  PROVE  LET total == SumFunctionOnSet(lens, DOMAIN ids)
             sel == SelectedFrom(cpu_free, total)
         IN  /\ cpu_free' = cpu_free \ Elements(sel)
             /\ cpu_num_free' = cpu_num_free - total
             /\ cpu_table' = Extended(cpu_table, ids, lens, sel)
<1> DEFINE total == SumFunctionOnSet(lens, DOMAIN ids)
           sel == SelectedFrom(cpu_free, total)
<1>1. CPU!SumFunction(lens) = total /\ CPU!Selected(total) = sel
  BY CpuSum, CpuSelected
<1>2. /\ cpu_free' = cpu_free \ CPU!ToSet(CPU!Selected(CPU!SumFunction(lens)))
      /\ cpu_num_free' = cpu_num_free - CPU!SumFunction(lens)
      /\ cpu_table' = [s \in RequestIds |->
           IF \E i \in DOMAIN ids : ids[i] = s
             THEN LET i == CHOOSE j \in DOMAIN ids : ids[j] = s
                  IN  cpu_table[s] \o CPU!NewBlocksOf(ids, targets, i)
             ELSE cpu_table[s]]
  BY Zenon DEF CPU!AllocateForSeqs
<1>3. cpu_free' = cpu_free \ Elements(sel)
  BY <1>1, <1>2 DEF CPU!ToSet, Elements
<1>4. \A i \in DOMAIN ids :
        CPU!NewBlocksOf(ids, targets, i) = SubSeq(sel, SliceStart(lens, i) + 1, SliceStart(lens, i) + lens[i])
  BY <1>1, CpuSliceStart, Zenon DEF CPU!NewBlocksOf
<1> HIDE DEF sel, total
<1>5. cpu_table' = Extended(cpu_table, ids, lens, sel)
  BY <1>2, <1>4, Zenon DEF Extended
<1> QED BY <1>1, <1>2, <1>3, <1>5, Zenon DEF sel, total

LEMMA CpuGathered ==
  ASSUME NEW ids
  PROVE  /\ CPU!Lengths(ids) = RowLengths(cpu_table, ids)
         /\ CPU!Gathered(ids) = GatheredFrom(cpu_table, ids)
BY DEF CPU!Gathered, GatheredFrom, CPU!Lengths, RowLengths, CPU!Before, SliceStart,
       CPU!SumFunction, CPU!SumFunctionOnSet, SumFunctionOnSet, CPU!FoldFunctionOnSet,
       FoldFunctionOnSet, CPU!MapThenFoldSet, MapThenFoldSet

CpuPool(pool) == DeviceTells(RequestIds, NumCpuBlocks, pool, cpu_free, cpu_num_free, cpu_table)

(* An allocation that finds enough free blocks. *)
LEMMA CpuAllocates ==
  ASSUME NEW pool, CpuPool(pool), NEW ids \in Seq(RequestIds), IsInjective(ids),
         NEW targets, \A i \in DOMAIN ids : targets[i] \in Nat /\ Len(cpu_table[ids[i]]) <= targets[i],
         CPU!EnoughFree(ids, targets), CPU!AllocateForSeqs(ids, targets)
  PROVE  /\ CpuPool(pool)'
         /\ \A s \in RequestIds : ~(s \in Elements(ids)) => cpu_table'[s] = cpu_table[s]
         /\ \A i \in DOMAIN ids : Len(cpu_table'[ids[i]]) = targets[i]
<1> DEFINE lens == CPU!Missing(ids, targets)
           total == SumFunctionOnSet(lens, DOMAIN ids)
           sel == SelectedFrom(cpu_free, total)
<1>1. NumCpuBlocks \in Nat
  BY Constants
<1>2. cpu_table \in [RequestIds -> Seq(1 .. NumCpuBlocks)]
  BY Zenon DEF CpuPool, DeviceTells
<1>3. /\ \A i \in DOMAIN ids : ids[i] \in RequestIds /\ Len(cpu_table[ids[i]]) \in Nat
      /\ lens = [i \in DOMAIN ids |-> targets[i] - Len(cpu_table[ids[i]])]
  BY <1>2 DEF CPU!Missing
<1>4. lens \in [DOMAIN ids -> Nat] /\ \A i \in DOMAIN ids : Len(cpu_table[ids[i]]) + lens[i] = targets[i]
  BY <1>3
<1>5. total <= cpu_num_free
  <2>1. DOMAIN lens = DOMAIN ids
    BY <1>3
  <2>2. CPU!SumFunction(lens) <= cpu_num_free
    BY Zenon DEF CPU!EnoughFree
  <2>3. CPU!SumFunction(lens) = SumFunctionOnSet(lens, DOMAIN lens)
    BY CpuSum, Zenon
  <2> QED BY <2>1, <2>2, <2>3
<1>6. /\ cpu_free' = cpu_free \ Elements(sel)
      /\ cpu_num_free' = cpu_num_free - total
      /\ cpu_table' = Extended(cpu_table, ids, lens, sel)
  <2>1. DOMAIN lens = DOMAIN ids /\ DOMAIN cpu_table = RequestIds
    BY <1>2, <1>3
  <2> QED BY <2>1, CpuExtended
<1> HIDE DEF lens
<1>7. AfterAllocation(RequestIds, NumCpuBlocks, pool, cpu_free, cpu_num_free, cpu_table, ids, lens)
  <2>1. DeviceTells(RequestIds, NumCpuBlocks, pool, cpu_free, cpu_num_free, cpu_table)
    BY Zenon DEF CpuPool
  <2> QED BY <1>1, <1>4, <1>5, <2>1, AllocationOnDevice, Zenon
<1>8. /\ DeviceTells(RequestIds, NumCpuBlocks, pool, cpu_free', cpu_num_free', cpu_table')
      /\ \A s \in RequestIds : ~(s \in Elements(ids)) => cpu_table'[s] = cpu_table[s]
      /\ \A i \in DOMAIN ids : Len(cpu_table'[ids[i]]) = Len(cpu_table[ids[i]]) + lens[i]
  BY <1>6, <1>7, Zenon DEF AfterAllocation
<1> QED BY <1>4, <1>8 DEF CpuPool

(* A release. *)
LEMMA CpuReleases ==
  ASSUME NEW pool, CpuPool(pool), NEW ids \in Seq(RequestIds), IsInjective(ids),
         CPU!FreeForSeqs(ids)
  PROVE  /\ CpuPool(pool)'
         /\ \A s \in RequestIds : cpu_table'[s] = IF s \in Elements(ids) THEN <<>> ELSE cpu_table[s]
         /\ CPU!Gathered(ids) \in Seq(1 .. NumCpuBlocks)
         /\ IsInjective(CPU!Gathered(ids))
<1> DEFINE g == GatheredFrom(cpu_table, ids)
<1>1. NumCpuBlocks \in Nat
  BY Constants
<1>2. DOMAIN cpu_table = RequestIds
  <2>1. cpu_table \in [RequestIds -> Seq(1 .. NumCpuBlocks)]
    BY Zenon DEF CpuPool, DeviceTells
  <2> QED BY <2>1
<1>3. CPU!Gathered(ids) = g
  BY CpuGathered, Zenon
<1> HIDE DEF g
<1>4. /\ cpu_free' = cpu_free \cup Elements(g) /\ cpu_num_free' = cpu_num_free + Len(g)
      /\ cpu_table' = RowsReleased(cpu_table, ids)
  <2>1. CPU!ToSet(g) = Elements(g) /\ CPU!ToSet(ids) = Elements(ids)
    BY DEF CPU!ToSet, Elements
  <2>2. /\ cpu_free' = cpu_free \cup CPU!ToSet(CPU!Gathered(ids))
        /\ cpu_num_free' = cpu_num_free + Len(CPU!Gathered(ids))
        /\ cpu_table' = [s \in RequestIds |-> IF s \in CPU!ToSet(ids) THEN <<>> ELSE cpu_table[s]]
    BY Zenon DEF CPU!FreeForSeqs
  <2>3. cpu_table' = RowsReleased(cpu_table, ids)
    BY <1>2, <2>1, <2>2 DEF RowsReleased
  <2> QED BY <1>3, <2>1, <2>2, <2>3
<1>5. AfterRelease(RequestIds, NumCpuBlocks, pool, cpu_free, cpu_num_free, cpu_table, ids)
  <2>1. DeviceTells(RequestIds, NumCpuBlocks, pool, cpu_free, cpu_num_free, cpu_table)
    BY Zenon DEF CpuPool
  <2> QED BY <1>1, <2>1, ReleaseOnDevice, Zenon
<1>6. /\ DeviceTells(RequestIds, NumCpuBlocks, pool, cpu_free', cpu_num_free', cpu_table')
      /\ \A s \in RequestIds : cpu_table'[s] = IF s \in Elements(ids) THEN <<>> ELSE cpu_table[s]
      /\ g \in Seq(1 .. NumCpuBlocks) /\ IsInjective(g)
  BY <1>4, <1>5, Zenon DEF AfterRelease, g
<1> QED BY <1>3, <1>6 DEF CpuPool

(* What the tables tell is what EveryBlockHasOnePlace says. *)
LEMMA CpuPlaces ==
  ASSUME NEW pool
  PROVE  CPU!EveryBlockHasOnePlace(pool) <=>
           OnePlaceEach(RequestIds, pool, cpu_free, cpu_num_free, cpu_table)
<1> DEFINE block == BlockAt(RequestIds, cpu_table)
<1>1. CPU!Cardinality(cpu_free) = Cardinality(cpu_free)
  BY DEF CPU!Cardinality, Cardinality
<1>2. CPU!EveryBlockHasOnePlace(pool) <=>
         /\ cpu_num_free = CPU!Cardinality(cpu_free)
         /\ CPU!IsInjective(block) /\ CPU!Range(block) = pool \ cpu_free
         /\ cpu_free \subseteq pool
  BY Zenon DEF CPU!EveryBlockHasOnePlace, BlockAt, PlacesOf
<1> HIDE DEF block
<1>3. CPU!IsInjective(block) <=> \A p, q \in DOMAIN block : block[p] = block[q] => p = q
  BY Zenon DEF CPU!IsInjective
<1>4. CPU!Range(block) = {block[p] : p \in DOMAIN block}
  BY Zenon DEF CPU!Range
<1>5. CPU!EveryBlockHasOnePlace(pool) <=> PlacedOnce(pool, cpu_free, cpu_num_free, block)
  BY <1>1, <1>2, <1>3, <1>4, Zenon DEF PlacedOnce
<1> QED BY <1>5, PlacesApart, Zenon DEF block

-----------------------------------------------------------------------------
(* The invariant, in the parts a step can disturb.                         *)

GpuTells == GpuPool(1 .. gpu_num_blocks)
CpuTells == CpuPool(1 .. NumCpuBlocks)

LayerSide ==
  /\ LayersTypeOK /\ LayersTell
  /\ num_gpu_blocks \in Nat
  /\ upset \in {"none", "batch", "engine"}

QueueTypes ==
  /\ prompt_len \in [Requests -> PromptLens]
  /\ output_len \in [Requests -> OutputLens]
  /\ num_outputs \in [Requests -> Nat]
  /\ request_id \in [Requests -> RequestIds \cup {-1}]
  /\ available_ids \in Seq(RequestIds)
  /\ waiting_q \in Seq(Requests) /\ running_q \in Seq(Requests) /\ swapped_q \in Seq(Requests)
  /\ num_decoding_gpu_blocks \in Nat
  /\ untokenized \in Seq(Requests) /\ tokenizing \in Seq(Requests)
  /\ cur_batch \in Seq(Requests) /\ cur_swap_in \in Seq(Requests) /\ cur_swap_out \in Seq(Requests)
  /\ arrived \in Nat /\ stage \in Stages /\ faults \in 0 .. ForwardFaults

QueueSide == QueueTypes /\ PendingInOrder /\ FlightTells /\ BatchTells /\ IdsTell

KvSide ==
  /\ gpu_kv \in [1 .. MaxGpuBlocks -> KvContents]
  /\ cpu_kv \in [1 .. NumCpuBlocks -> KvContents]

IInv == LayerSide /\ QueueSide /\ KvSide /\ DevicesTell /\ GpuTells /\ CpuTells

LEMMA PartsMakeInvariant == IInv => SInv
<1> SUFFICES ASSUME IInv PROVE SInv
  OBVIOUS
<1>1. LayerSide /\ QueueSide /\ KvSide /\ DevicesTell /\ GpuTells /\ CpuTells
  BY Zenon DEF IInv
<1>2. SchedulerTypeOK /\ LayersTypeOK
  BY <1>1 DEF LayerSide, QueueSide, QueueTypes, SchedulerTypeOK
<1>3. GPU!BmTypeOK
  BY <1>1 DEF GPU!BmTypeOK, GPU!Blocks, GpuTells, GpuPool, DeviceTells
<1>4. CPU!BmTypeOK
  BY <1>1 DEF CPU!BmTypeOK, CPU!Blocks, CpuTells, CpuPool, DeviceTells
<1>5. /\ {untokenized, tokenizing, cur_batch, cur_swap_in, cur_swap_out} \subseteq Seq(Requests)
      /\ arrived \in Nat /\ stage \in Stages /\ faults \in 0 .. ForwardFaults
      /\ upset \in {"none", "batch", "engine"}
  BY <1>1 DEF LayerSide, QueueSide, QueueTypes
<1>6. TypeOK
  BY <1>1, <1>2, <1>3, <1>4, <1>5, Zenon DEF TypeOK, KvSide
<1>7. GPU!EveryBlockHasOnePlace(1 .. gpu_num_blocks)
  BY <1>1, GpuPlaces, Zenon DEF GpuTells, GpuPool, DeviceTells
<1>8. CPU!EveryBlockHasOnePlace(1 .. NumCpuBlocks)
  BY <1>1, CpuPlaces, Zenon DEF CpuTells, CpuPool, DeviceTells
<1> QED BY <1>1, <1>6, <1>7, <1>8, Zenon DEF SInv, LayerSide, QueueSide

-----------------------------------------------------------------------------
(* Layers.                                                                 *)

(* The longest run that keeps a bound keeps it all the way, and the next   *)
(* longer one does not.                                                    *)
LEMMA LongestRun ==
  ASSUME NEW bound \in Nat, NEW fitting \in SUBSET (1 .. bound)
  PROVE  /\ Longest(fitting) \in 0 .. bound
         /\ \A n \in 1 .. Longest(fitting) : n \in fitting
         /\ ~(Longest(fitting) + 1 \in fitting)
<1> DEFINE K == {n \in fitting \cup {0} : 1 .. n \subseteq fitting}
<1>1. K \in SUBSET Nat /\ 0 \in K /\ \A n \in K : n <= bound
  <2>1. 1 .. 0 \subseteq fitting /\ 0 \in Nat /\ 0 <= bound
    OBVIOUS
  <2>2. \A n \in fitting : n \in Nat /\ n <= bound
    OBVIOUS
  <2> QED BY <2>1, <2>2
<1>2. \E x \in K : \A y \in K : x >= y
  <2>1. K # {}
    BY <1>1
  <2>2. PICK m \in K : \A i \in K : i <= m
    <3> HIDE DEF K
    <3> QED BY <1>1, <2>1, Largest, Zenon
  <2> QED BY <1>1, <2>2
<1>3. Longest(fitting) = Max(K)
  BY Zenon DEF Longest
<1>4. Longest(fitting) \in K /\ \A n \in K : Longest(fitting) >= n
  <2> HIDE DEF K
  <2> QED BY <1>2, <1>3, Zenon DEF Max
<1> DEFINE l == Longest(fitting)
<1>5. l \in 0 .. bound /\ 1 .. l \subseteq fitting
  BY <1>1, <1>4
<1>6. ~(l + 1 \in fitting)
  <2> SUFFICES ASSUME l + 1 \in fitting PROVE FALSE
    OBVIOUS
  <2>1. \A n \in 1 .. l + 1 : n \in 1 .. l \/ n = l + 1
    BY <1>5
  <2>2. l + 1 \in K
    BY <1>5, <2>1
  <2> QED BY <1>4, <1>5, <2>2
<1> QED BY <1>5, <1>6

LEMMA LayerFacts ==
  ASSUME LayerSide
  PROVE  LET m == Len(layer_quant_list) IN
         /\ m \in 0 .. NumLayers
         /\ layer_quant_list = [i \in 1 .. m |-> NumLayers - i]
         /\ k_cache_new = layer_quant_list
         /\ is_layer_quant_list = [l \in Layers |-> l >= NumLayers - m]
         /\ next_unquantized_layer = NumLayers - 1 - m
         /\ gpu_num_blocks = NumGpuBlocks + m * LentBlocks
         /\ num_gpu_blocks = gpu_num_blocks
         /\ gpu_num_blocks \in Nat
<1>1. Len(layer_quant_list) \in Nat
  BY DEF LayerSide, LayersTypeOK
<1>2. gpu_num_blocks \in Nat
  BY DEF LayerSide, LayersTell
<1> QED BY <1>1, <1>2, Constants DEF LayerSide, LayersTell

(* The layers of a list this long, and the pool that goes with it. *)
LEMMA LayersSet ==
  ASSUME NEW m \in 0 .. NumLayers,
         layer_quant_list' = [i \in 1 .. m |-> NumLayers - i],
         k_cache_new' = [i \in 1 .. m |-> NumLayers - i],
         is_layer_quant_list' = [l \in Layers |-> l >= NumLayers - m],
         next_unquantized_layer' = NumLayers - 1 - m,
         gpu_num_blocks' = NumGpuBlocks + m * LentBlocks,
         num_gpu_blocks' = gpu_num_blocks',
         upset' \in {"none", "batch", "engine"}
  PROVE  LayerSide' /\ gpu_num_blocks' \in 0 .. MaxGpuBlocks
<1> DEFINE list == [i \in 1 .. m |-> NumLayers - i]
<1>1. NumLayers \in Nat \ {0} /\ m \in Nat /\ m <= NumLayers
  BY Constants
<1>2. list \in Seq(Layers) /\ Len(list) = m
  <2>1. list \in [1 .. m -> Layers]
    BY <1>1 DEF Layers
  <2> HIDE DEF list
  <2> QED BY <1>1, <2>1, FunctionList, Zenon
<1> HIDE DEF list
<1>3. gpu_num_blocks' \in NumGpuBlocks .. MaxGpuBlocks
  BY <1>1, PoolSizes
<1>4. gpu_num_blocks' \in Nat /\ gpu_num_blocks' \in 0 .. MaxGpuBlocks
  BY <1>3, Constants
<1>5. next_unquantized_layer' \in Layers \cup {-1}
  BY <1>1 DEF Layers
<1>6. is_layer_quant_list' \in [Layers -> BOOLEAN]
  OBVIOUS
<1>7. layer_quant_list' = list /\ k_cache_new' = list
  BY DEF list
<1>8. LayersTypeOK'
  BY <1>2, <1>3, <1>5, <1>6, <1>7 DEF LayersTypeOK
<1>9. LayersTell'
  BY <1>1, <1>2, <1>7 DEF LayersTell
<1> QED BY <1>4, <1>8, <1>9 DEF LayerSide

LEMMA LayersReplaced ==
  ASSUME LayerSide, GpuTells, KvSide, NEW n \in Nat, n <= next_unquantized_layer + 1,
         ReplaceLayers(n), gpu_table' = gpu_table
  PROVE  LayerSide' /\ GpuTells' /\ gpu_kv' \in [1 .. MaxGpuBlocks -> KvContents]
<1> DEFINE m == Len(layer_quant_list)
<1>1. /\ m \in 0 .. NumLayers
      /\ layer_quant_list = [i \in 1 .. m |-> NumLayers - i]
      /\ k_cache_new = layer_quant_list
      /\ is_layer_quant_list = [l \in Layers |-> l >= NumLayers - m]
      /\ next_unquantized_layer = NumLayers - 1 - m
      /\ gpu_num_blocks = NumGpuBlocks + m * LentBlocks
      /\ num_gpu_blocks = gpu_num_blocks
      /\ gpu_num_blocks \in Nat
  BY LayerFacts, Zenon
<1>2. /\ layer_quant_list' = layer_quant_list \o NextLayers(n)
      /\ is_layer_quant_list' = [l \in Layers |-> is_layer_quant_list[l] \/ Contains(NextLayers(n), l)]
      /\ next_unquantized_layer' = next_unquantized_layer - n
      /\ k_cache_new' = k_cache_new \o NextLayers(n)
      /\ gpu_num_blocks' = gpu_num_blocks + n * LentBlocks
      /\ gpu_num_free' = gpu_num_free + n * LentBlocks
      /\ gpu_free' = gpu_free \cup (gpu_num_blocks + 1 .. gpu_num_blocks')
      /\ num_gpu_blocks' = num_gpu_blocks + n * LentBlocks
      /\ gpu_kv' = [b \in DOMAIN gpu_kv |-> IF b > gpu_num_blocks /\ b <= gpu_num_blocks'
                                              THEN NoKv ELSE gpu_kv[b]]
      /\ upset' = upset
  BY Zenon DEF ReplaceLayers, Org2Quant
<1> HIDE DEF m
<1>3. /\ m \in Nat /\ n \in Nat /\ m + n \in 0 .. NumLayers /\ NumLayers \in Nat /\ LentBlocks \in Nat
      /\ next_unquantized_layer - n = NumLayers - 1 - (m + n)
  BY <1>1, Constants
<1>4. layer_quant_list' = [i \in 1 .. m + n |-> NumLayers - i] /\ k_cache_new' = layer_quant_list'
  BY <1>1, <1>2, <1>3 DEF NextLayers
<1>5. is_layer_quant_list' = [l \in Layers |-> l >= NumLayers - (m + n)]
  <2>1. ASSUME NEW l \in Layers
        PROVE  (l >= NumLayers - m \/ Contains(NextLayers(n), l)) <=> l >= NumLayers - (m + n)
    <3>1. l \in Int /\ l >= 0
      BY <1>3 DEF Layers
    <3>2. Contains(NextLayers(n), l) <=> \E i \in 1 .. n : NumLayers - 1 - m - i + 1 = l
      BY <1>1, <1>3 DEF Contains, NextLayers
    <3>3. l < NumLayers - m /\ l >= NumLayers - (m + n) =>
            NumLayers - m - l \in 1 .. n /\ NumLayers - 1 - m - (NumLayers - m - l) + 1 = l
      BY <1>3, <3>1
    <3>4. \A i \in 1 .. n : NumLayers - 1 - m - i + 1 = l => l >= NumLayers - (m + n)
      BY <1>3, <3>1
    <3> QED BY <1>3, <3>1, <3>2, <3>3, <3>4
  <2>2. \A l \in Layers : is_layer_quant_list[l] <=> l >= NumLayers - m
    BY <1>1, Zenon
  <2>3. \A l \in Layers : (is_layer_quant_list[l] \/ Contains(NextLayers(n), l)) <=> l >= NumLayers - (m + n)
    BY <2>1, <2>2, Zenon
  <2> QED BY <1>2, <2>3, SMT
<1> DEFINE d == n * LentBlocks
<1>6. /\ gpu_num_blocks' = NumGpuBlocks + (m + n) * LentBlocks /\ d \in Nat
      /\ gpu_num_blocks' = gpu_num_blocks + d
  <2>1. NumGpuBlocks + (m + n) * LentBlocks = NumGpuBlocks + m * LentBlocks + n * LentBlocks
    BY <1>3, PoolGrows
  <2> QED BY <1>1, <1>2, <1>3, <2>1
<1>7. LayerSide' /\ gpu_num_blocks' \in 0 .. MaxGpuBlocks
  <2>1. upset' \in {"none", "batch", "engine"}
    BY <1>2 DEF LayerSide
  <2>2. num_gpu_blocks' = gpu_num_blocks'
    BY <1>1, <1>2
  <2>3. next_unquantized_layer' = NumLayers - 1 - (m + n)
    BY <1>2, <1>3
  <2> DEFINE mn == m + n
  <2>4. mn \in 0 .. NumLayers
    BY <1>3
  <2> HIDE DEF mn, d
  <2>5. /\ layer_quant_list' = [i \in 1 .. mn |-> NumLayers - i]
        /\ k_cache_new' = [i \in 1 .. mn |-> NumLayers - i]
        /\ is_layer_quant_list' = [l \in Layers |-> l >= NumLayers - mn]
        /\ next_unquantized_layer' = NumLayers - 1 - mn
        /\ gpu_num_blocks' = NumGpuBlocks + mn * LentBlocks
    BY <1>4, <1>5, <1>6, <2>3 DEF mn
  <2> QED BY <2>1, <2>2, <2>4, <2>5, LayersSet, Zenon
<1> HIDE DEF d
<1>8. GpuTells'
  <2>1. DeviceTells(RequestIds, MaxGpuBlocks, 1 .. gpu_num_blocks, gpu_free, gpu_num_free, gpu_table)
    BY Zenon DEF GpuTells, GpuPool
  <2>2. MaxGpuBlocks \in Nat
    BY PoolSizes, Constants
  <2>3. gpu_num_blocks + d <= MaxGpuBlocks
    BY <1>6, <1>7, <2>2
  <2>4. DeviceTells(RequestIds, MaxGpuBlocks, 1 .. gpu_num_blocks + d,
                    gpu_free \cup (gpu_num_blocks + 1 .. gpu_num_blocks + d), gpu_num_free + d, gpu_table)
    BY <1>1, <1>6, <2>1, <2>2, <2>3, DeviceGrows
  <2>5. gpu_num_free' = gpu_num_free + d
    BY <1>2 DEF d
  <2> QED BY <1>2, <1>6, <2>4, <2>5 DEF GpuTells, GpuPool
<1>9. gpu_kv' \in [1 .. MaxGpuBlocks -> KvContents]
  <2>1. NoKv \in KvContents
    BY DEF KvContents
  <2> QED BY <1>2, <2>1 DEF KvSide
<1> QED BY <1>7, <1>8, <1>9

(* The blocks of the newest n groups, when none of the groups is in use. *)
LEMMA GroupsUnused ==
  ASSUME NEW m \in Nat, NEW n \in 0 .. m,
         \A i \in 1 .. n : KvCacheUnused(m - i + 1),
         NEW b \in Int, b > NumGpuBlocks + (m - n) * LentBlocks, b <= NumGpuBlocks + m * LentBlocks
  PROVE  b \in gpu_free
<1> DEFINE x == b - NumGpuBlocks - 1
           q == x \div LentBlocks
<1>1. LentBlocks \in Nat \ {0} /\ NumGpuBlocks \in Nat /\ m - n \in Nat
  BY Constants
<1>2. x \in Int /\ (m - n) * LentBlocks <= x /\ x < m * LentBlocks
  <2>1. (m - n) * LentBlocks \in Int /\ m * LentBlocks \in Int
    BY <1>1
  <2> QED BY <1>1, <2>1
<1> HIDE DEF x
<1>3. q \in Int /\ q * LentBlocks <= x /\ x < (q + 1) * LentBlocks
  BY <1>1, <1>2
<1> HIDE DEF q
<1>4. q < m
  <2> SUFFICES ASSUME q >= m PROVE FALSE
    BY <1>3
  <2>1. m * LentBlocks <= q * LentBlocks
    BY <1>1, <1>3
  <2>2. q * LentBlocks \in Int /\ m * LentBlocks \in Int
    BY <1>1, <1>3
  <2> QED BY <1>2, <1>3, <2>1, <2>2
<1>5. m - n <= q
  <2> SUFFICES ASSUME q + 1 <= m - n PROVE FALSE
    BY <1>1, <1>3
  <2>1. (q + 1) * LentBlocks <= (m - n) * LentBlocks
    BY <1>1, <1>3
  <2>2. (q + 1) * LentBlocks \in Int /\ (m - n) * LentBlocks \in Int
    BY <1>1, <1>3
  <2> QED BY <1>2, <1>3, <2>1, <2>2
<1>6. m - q \in 1 .. n /\ m - (m - q) + 1 = q + 1 /\ q + 1 - 1 = q
  BY <1>3, <1>4, <1>5
<1>7. KvCacheUnused(q + 1)
  BY <1>6
<1>8. NumGpuBlocks + LentBlocks * q + 1 .. NumGpuBlocks + LentBlocks * q + LentBlocks \subseteq gpu_free
  <2>1. q + 1 - 1 = q
    BY <1>6
  <2> DEFINE start(g) == NumGpuBlocks + LentBlocks * (g - 1)
  <2>2. start(q + 1) + 1 .. start(q + 1) + LentBlocks \subseteq gpu_free
    BY <1>7, Zenon DEF KvCacheUnused
  <2>3. start(q + 1) = NumGpuBlocks + LentBlocks * q
    BY <1>1, <1>3, <2>1
  <2> HIDE DEF start
  <2> QED BY <2>2, <2>3
<1>9. b \in NumGpuBlocks + LentBlocks * q + 1 .. NumGpuBlocks + LentBlocks * q + LentBlocks
  <2> DEFINE p == q * LentBlocks
  <2>1. LentBlocks * q = p /\ (q + 1) * LentBlocks = p + LentBlocks /\ p \in Int
    BY <1>1, <1>3
  <2>2. p <= x /\ x < p + LentBlocks
    BY <1>3, <2>1
  <2> HIDE DEF p
  <2> QED BY <1>1, <2>1, <2>2 DEF x
<1> QED BY <1>8, <1>9

LEMMA LayersRestored ==
  ASSUME LayerSide, GpuTells, KvSide, NEW n \in 0 .. Len(layer_quant_list),
         \A i \in 1 .. n : KvCacheUnused(Len(k_cache_new) - i + 1),
         RestoreLayers(n), gpu_table' = gpu_table
  PROVE  LayerSide' /\ GpuTells' /\ gpu_kv' = gpu_kv
<1> DEFINE m == Len(layer_quant_list)
           restored == {next_unquantized_layer + i : i \in 1 .. n}
           d == n * LentBlocks
           k == m - n
<1>1. /\ m \in 0 .. NumLayers
      /\ layer_quant_list = [i \in 1 .. m |-> NumLayers - i]
      /\ k_cache_new = layer_quant_list
      /\ is_layer_quant_list = [l \in Layers |-> l >= NumLayers - m]
      /\ next_unquantized_layer = NumLayers - 1 - m
      /\ gpu_num_blocks = NumGpuBlocks + m * LentBlocks
      /\ num_gpu_blocks = gpu_num_blocks
      /\ gpu_num_blocks \in Nat
  BY LayerFacts, Zenon
<1>2. /\ layer_quant_list' = Keep(layer_quant_list, Layers \ restored)
      /\ is_layer_quant_list' = [l \in Layers |-> is_layer_quant_list[l] /\ l \notin restored]
      /\ next_unquantized_layer' = next_unquantized_layer + n
      /\ k_cache_new' = First(k_cache_new, Len(k_cache_new) - n)
      /\ gpu_num_blocks' = gpu_num_blocks - n * LentBlocks
      /\ gpu_num_free' = gpu_num_free - n * LentBlocks
      /\ gpu_free' = gpu_free \cap (1 .. gpu_num_blocks')
      /\ num_gpu_blocks' = num_gpu_blocks - n * LentBlocks
      /\ upset' = IF n > 0 /\ upset = "none" THEN "batch" ELSE upset
      /\ gpu_kv' = gpu_kv
  BY Zenon DEF RestoreLayers, Quant2Org
<1>3. n \in 0 .. m /\ Len(k_cache_new) = m
  BY <1>1
<1> HIDE DEF m, d, k, restored
<1>4. /\ m \in Nat /\ n \in Nat /\ n <= m /\ NumLayers \in Nat /\ LentBlocks \in Nat
      /\ m <= NumLayers /\ k \in 0 .. NumLayers /\ k \in Nat /\ k <= m /\ m = k + n
      /\ next_unquantized_layer + n = NumLayers - 1 - k
  BY <1>1, <1>3, Constants DEF k
<1>5. \A l \in Layers : l \in restored <=> l >= NumLayers - m /\ l < NumLayers - k
  <2> SUFFICES ASSUME NEW l \in Layers
               PROVE  l \in restored <=> l >= NumLayers - m /\ l < NumLayers - k
    OBVIOUS
  <2>1. l \in Int
    BY <1>4 DEF Layers
  <2>2. \A i \in 1 .. n : next_unquantized_layer + i = l => l >= NumLayers - m /\ l < NumLayers - k
    BY <1>1, <1>4, <2>1
  <2>3. l >= NumLayers - m /\ l < NumLayers - k =>
          l - next_unquantized_layer \in 1 .. n /\ next_unquantized_layer + (l - next_unquantized_layer) = l
    BY <1>1, <1>4, <2>1
  <2> QED BY <2>2, <2>3 DEF restored
<1>6. layer_quant_list' = [i \in 1 .. k |-> NumLayers - i]
  <2> DEFINE s == layer_quant_list
             S == Layers \ restored
  <2>1. DOMAIN s = 1 .. m /\ \A i \in 1 .. m : s[i] = NumLayers - i /\ s[i] \in Layers
    BY <1>1, <1>4 DEF Layers
  <2>2. \A i \in 1 .. m : s[i] \in S <=> i <= k
    BY <1>4, <1>5, <2>1
  <2>3. {i \in DOMAIN s : s[i] \in S} = 1 .. k
    BY <1>4, <2>1, <2>2
  <2> HIDE DEF s, S
  <2>4. Keep(s, S) = [i \in 1 .. k - 1 + 1 |-> s[1 + i - 1]]
    <3> DEFINE lo == 1
    <3>1. lo \in Nat /\ lo >= 1 /\ k \in Nat /\ k >= lo - 1 /\ {i \in DOMAIN s : s[i] \in S} = lo .. k
      BY <1>4, <2>3
    <3> HIDE DEF lo
    <3>2. Keep(s, S) = [i \in 1 .. k - lo + 1 |-> s[lo + i - 1]]
      BY <3>1, KeepRun, SMTT(30)
    <3> QED BY <3>2 DEF lo
  <2>5. k - 1 + 1 = k /\ \A i \in 1 .. k : i \in 1 .. m /\ 1 + i - 1 = i
    BY <1>4
  <2> QED BY <1>2, <2>1, <2>4, <2>5 DEF s, S
<1>7. k_cache_new' = [i \in 1 .. k |-> NumLayers - i]
  <2>1. k_cache_new \in Seq(Int)
    <3>1. [i \in 1 .. m |-> NumLayers - i] \in [1 .. m -> Int]
      BY <1>4
    <3> QED BY <1>1, <1>4, <3>1, FunctionList, Zenon
  <2>2. k \in 0 .. Len(k_cache_new) /\ Len(k_cache_new) - n = k
    BY <1>3, <1>4
  <2>3. /\ First(k_cache_new, k) \in Seq(Int) /\ DOMAIN First(k_cache_new, k) = 1 .. k
        /\ \A i \in 1 .. k : First(k_cache_new, k)[i] = k_cache_new[i]
    BY <2>1, <2>2, FirstFacts, SMTT(30)
  <2>4. \A i \in 1 .. k : k_cache_new[i] = NumLayers - i
    BY <1>1, <1>4
  <2> DEFINE f == First(k_cache_new, k)
  <2>5. f = [i \in 1 .. k |-> f[i]] /\ \A i \in 1 .. k : f[i] = NumLayers - i
    BY <2>3, <2>4
  <2> QED BY <1>2, <2>2, <2>5
<1>8. is_layer_quant_list' = [l \in Layers |-> l >= NumLayers - k]
  <2>1. \A l \in Layers : is_layer_quant_list[l] <=> l >= NumLayers - m
    BY <1>1, Zenon
  <2>2. \A l \in Layers : l >= NumLayers - m /\ ~(l >= NumLayers - m /\ l < NumLayers - k) <=> l >= NumLayers - k
    BY <1>4 DEF Layers
  <2>3. \A l \in Layers : (is_layer_quant_list[l] /\ l \notin restored) <=> l >= NumLayers - k
    BY <1>5, <2>1, <2>2, Zenon
  <2> QED BY <1>2, <2>3, SMT
<1>9. /\ d \in Nat /\ m * LentBlocks \in Nat /\ k * LentBlocks \in Nat
      /\ m * LentBlocks = k * LentBlocks + d /\ NumGpuBlocks \in Nat
  BY <1>4, Constants DEF d
<1>10. gpu_num_blocks' = NumGpuBlocks + k * LentBlocks /\ gpu_num_blocks' = gpu_num_blocks - d
       /\ d \in 0 .. gpu_num_blocks
  <2>1. gpu_num_blocks' = gpu_num_blocks - d
    BY <1>2 DEF d
  <2> DEFINE a == m * LentBlocks
             b == k * LentBlocks
  <2>2. gpu_num_blocks = NumGpuBlocks + a /\ a = b + d /\ a \in Nat /\ b \in Nat
    BY <1>1, <1>9, Zenon
  <2> HIDE DEF a, b
  <2>3. gpu_num_blocks' = NumGpuBlocks + b /\ d \in 0 .. gpu_num_blocks
    BY <1>9, <2>1, <2>2
  <2> QED BY <2>1, <2>3 DEF b
<1>11. LayerSide'
  <2>1. upset' \in {"none", "batch", "engine"}
    BY <1>2 DEF LayerSide
  <2>2. num_gpu_blocks' = gpu_num_blocks'
    BY <1>1, <1>2
  <2>3. next_unquantized_layer' = NumLayers - 1 - k
    BY <1>2, <1>4
  <2> QED BY <1>4, <1>6, <1>7, <1>8, <1>10, <2>1, <2>2, <2>3, LayersSet, Zenon
<1>12. GpuTells'
  <2>1. DeviceTells(RequestIds, MaxGpuBlocks, 1 .. gpu_num_blocks, gpu_free, gpu_num_free, gpu_table)
    BY Zenon DEF GpuTells, GpuPool
  <2>2. MaxGpuBlocks \in Nat
    BY PoolSizes, Constants
  <2>3. gpu_num_blocks - d + 1 .. gpu_num_blocks \subseteq gpu_free
    <3> SUFFICES ASSUME NEW b \in gpu_num_blocks - d + 1 .. gpu_num_blocks PROVE b \in gpu_free
      OBVIOUS
    <3>1. b \in Int /\ b > NumGpuBlocks + k * LentBlocks /\ b <= NumGpuBlocks + m * LentBlocks
      BY <1>1, <1>9, <1>10
    <3>2. m - n = k /\ \A i \in 1 .. n : KvCacheUnused(m - i + 1)
      BY <1>3, <1>4
    <3>3. b > NumGpuBlocks + (m - n) * LentBlocks
      BY <3>1, <3>2
    <3> QED BY <1>3, <1>4, <3>1, <3>2, <3>3, GroupsUnused
  <2>4. DeviceTells(RequestIds, MaxGpuBlocks, 1 .. gpu_num_blocks - d,
                    gpu_free \cap (1 .. gpu_num_blocks - d), gpu_num_free - d, gpu_table)
    BY <1>1, <1>10, <2>1, <2>2, <2>3, DeviceShrinks
  <2>5. gpu_num_free' = gpu_num_free - d
    BY <1>2 DEF d
  <2> QED BY <1>2, <1>10, <2>4, <2>5 DEF GpuTells, GpuPool
<1> QED BY <1>2, <1>11, <1>12

(* try_quant2org only takes groups of which no block is in use. *)
LEMMA RestorableUnused ==
  ASSUME LayerSide, NEW w
  PROVE  /\ Restorable(w) \in 0 .. Len(layer_quant_list) /\ Restorable(w) <= NumLayersToQuantize
         /\ \A i \in 1 .. Restorable(w) : KvCacheUnused(Len(k_cache_new) - i + 1)
<1> DEFINE fitting == {n \in 1 .. NumLayersToQuantize :
             /\ n <= Len(layer_quant_list)
             /\ gpu_num_free - (n - 1) * LentBlocks > LentBlocks * (NumLayersToQuantize \div 2)
             /\ KvCacheUnused(Len(k_cache_new) - n + 1)}
<1>1. Len(layer_quant_list) \in Nat
  BY DEF LayerSide, LayersTypeOK
<1>2. Restorable(w) = Longest(fitting) \/ Restorable(w) = 0
  BY Zenon DEF Restorable
<1>3. fitting \in SUBSET (1 .. NumLayersToQuantize) /\ NumLayersToQuantize \in Nat
  BY Constants
<1>4. \A n \in fitting : n <= Len(layer_quant_list) /\ KvCacheUnused(Len(k_cache_new) - n + 1)
  OBVIOUS
<1> HIDE DEF fitting
<1>5. Longest(fitting) \in 0 .. NumLayersToQuantize /\ \A n \in 1 .. Longest(fitting) : n \in fitting
  BY <1>3, LongestRun, Zenon
<1>6. Longest(fitting) \in 0 .. Len(layer_quant_list)
  <2>1. Longest(fitting) = 0 \/ Longest(fitting) \in 1 .. Longest(fitting)
    BY <1>3, <1>5
  <2> QED BY <1>1, <1>3, <1>4, <1>5, <2>1
<1> QED BY <1>1, <1>2, <1>3, <1>4, <1>5, <1>6

(* There are as many layers left as the decoding branch replaces. *)
LEMMA ReplacedBounds ==
  ASSUME LayerSide
  PROVE  /\ ReplacedToDecode \in Nat /\ ReplacedToDecode <= next_unquantized_layer + 1
         /\ ReplacedToDecode <= NumLayersToQuantize
<1>1. next_unquantized_layer + 1 \in Nat /\ NumLayersToQuantize \in Nat
  BY LayerFacts, Constants
<1> DEFINE left == next_unquantized_layer + 1
           most == Min({NumLayersToQuantize, left})
<1>2. most \in Nat /\ most <= left /\ most <= NumLayersToQuantize
  <2> DEFINE P == {NumLayersToQuantize, left}
  <2>1. \E x \in P : \A y \in P : x <= y
    BY <1>1
  <2>2. Min(P) \in P /\ \A y \in P : Min(P) <= y
    <3> HIDE DEF P
    <3> QED BY <2>1, Zenon DEF Min
  <2> QED BY <1>1, <2>2
<1> HIDE DEF left
<1>3. CASE QuantServe
  <2> DEFINE K == {n \in 0 .. most : BlocksOf(running_q) <= PoolWith(n)} \cup {most}
  <2>1. ReplacedToDecode = Min(K)
    BY <1>3, Zenon DEF ReplacedToDecode, left
  <2> HIDE DEF most
  <2>2. K \in SUBSET Nat /\ K # {} /\ \A n \in K : n <= most
    BY <1>2
  <2>3. Min(K) \in K
    <3> HIDE DEF K
    <3>1. \E x \in K : \A y \in K : x <= y
      BY <2>2, Smallest, Zenon
    <3> QED BY <3>1, Zenon DEF Min
  <2>4. ReplacedToDecode \in Nat /\ ReplacedToDecode <= most
    <3> HIDE DEF K
    <3> QED BY <2>1, <2>2, <2>3
  <2> QED BY <1>1, <1>2, <2>4 DEF left
<1>4. CASE ~QuantServe
  <2>1. ReplacedToDecode = 0
    BY <1>4 DEF ReplacedToDecode
  <2> QED BY <1>1, <2>1
<1> QED BY <1>3, <1>4

-----------------------------------------------------------------------------
(* The bounds of the scheduling loops.                                     *)

LEMMA NeededNat ==
  ASSUME QueueTypes
  PROVE  \A r \in Requests : BlocksNeeded[r] \in Nat
<1> SUFFICES ASSUME NEW r \in Requests PROVE BlocksNeeded[r] \in Nat
  OBVIOUS
<1>1. prompt_len[r] + num_outputs[r] \in Nat /\ BlockSize \in Nat \ {0}
  <2>1. prompt_len[r] \in PromptLens /\ num_outputs[r] \in Nat
    BY DEF QueueTypes
  <2>2. prompt_len[r] \in Nat
    BY <2>1, Constants
  <2> QED BY <2>1, <2>2, Constants
<1>2. CeilDiv(prompt_len[r] + num_outputs[r], BlockSize) \in Nat
  BY <1>1, CeilDivNat
<1> QED BY <1>2 DEF BlocksNeeded

LEMMA BlocksOfNat ==
  ASSUME QueueTypes, NEW q \in Seq(Requests)
  PROVE  BlocksOf(q) \in Nat
<1> DEFINE f == Map(q, BlocksNeeded)
           n == Len(q)
<1>1. n \in Nat /\ DOMAIN q = 1 .. n
  OBVIOUS
<1>2. DOMAIN f = 1 .. n /\ \A i \in 1 .. n : f[i] \in Nat
  <2>1. \A i \in 1 .. n : q[i] \in Requests
    BY <1>1
  <2>2. DOMAIN f = 1 .. n /\ \A i \in 1 .. n : f[i] = BlocksNeeded[q[i]]
    BY <1>1 DEF Map
  <2> QED BY <2>1, <2>2, NeededNat
<1>3. BlocksOf(q) = SumFunctionOnSet(f, DOMAIN f)
  BY Zenon DEF BlocksOf, SumFunction
<1> HIDE DEF f, n
<1>4. IsFiniteSet(1 .. n)
  <2>1. 1 \in Int /\ n \in Int
    BY <1>1
  <2> QED BY <2>1, FS_Interval, Zenon
<1>5. SumFunctionOnSet(f, 1 .. n) \in Nat
  BY <1>2, <1>4, SumNat, Zenon
<1> QED BY <1>2, <1>3, <1>5

LEMMA AdmissibleBounds ==
  ASSUME QueueTypes, NEW pool
  PROVE  /\ AdmissibleIn(pool) \in 0 .. Len(waiting_q)
         /\ \A n \in 1 .. AdmissibleIn(pool) : WithinLimits(n) /\ BlocksWith(n) <= pool
         /\ AdmissibleIn(pool) + 1 \in DOMAIN waiting_q =>
              ~(WithinLimits(AdmissibleIn(pool) + 1) /\ BlocksWith(AdmissibleIn(pool) + 1) <= pool)
<1> DEFINE fitting == {n \in DOMAIN waiting_q : WithinLimits(n) /\ BlocksWith(n) <= pool}
<1>1. Len(waiting_q) \in Nat /\ fitting \in SUBSET (1 .. Len(waiting_q))
  BY DEF QueueTypes
<1>2. AdmissibleIn(pool) = Longest(fitting)
  BY Zenon DEF AdmissibleIn
<1>3. \A n : n \in fitting <=> n \in DOMAIN waiting_q /\ WithinLimits(n) /\ BlocksWith(n) <= pool
  OBVIOUS
<1> HIDE DEF fitting
<1>4. /\ Longest(fitting) \in 0 .. Len(waiting_q)
      /\ \A n \in 1 .. Longest(fitting) : n \in fitting
      /\ ~(Longest(fitting) + 1 \in fitting)
  BY <1>1, LongestRun, Zenon
<1> QED BY <1>2, <1>3, <1>4, Zenon

LEMMA KeptBounds ==
  ASSUME QueueTypes, NEW pool
  PROVE  /\ Kept(pool) \in 0 .. Len(running_q)
         /\ \A n \in 1 .. Kept(pool) : BlocksOf(First(running_q, n)) <= pool
<1> DEFINE fitting == {n \in DOMAIN running_q : BlocksOf(First(running_q, n)) <= pool}
<1>1. Len(running_q) \in Nat /\ fitting \in SUBSET (1 .. Len(running_q))
  BY DEF QueueTypes
<1>2. Kept(pool) = Longest(fitting)
  BY Zenon DEF Kept
<1>3. \A n : n \in fitting => BlocksOf(First(running_q, n)) <= pool
  OBVIOUS
<1> HIDE DEF fitting
<1>4. Longest(fitting) \in 0 .. Len(running_q) /\ \A n \in 1 .. Longest(fitting) : n \in fitting
  BY <1>1, LongestRun, Zenon
<1> QED BY <1>2, <1>3, <1>4, Zenon

LEMMA ReturningBounds ==
  ASSUME QueueTypes, NEW pool
  PROVE  /\ Returning(pool) \in 0 .. Len(swapped_q)
         /\ \A n \in 1 .. Returning(pool) : FitsSwapped(n, pool)
<1> DEFINE fitting == {n \in DOMAIN swapped_q : FitsSwapped(n, pool)}
<1>1. Len(swapped_q) \in Nat /\ fitting \in SUBSET (1 .. Len(swapped_q))
  BY DEF QueueTypes
<1>2. Returning(pool) = Longest(fitting)
  BY Zenon DEF Returning
<1>3. \A n : n \in fitting => FitsSwapped(n, pool)
  OBVIOUS
<1> HIDE DEF fitting
<1>4. Longest(fitting) \in 0 .. Len(swapped_q) /\ \A n \in 1 .. Longest(fitting) : n \in fitting
  BY <1>1, LongestRun, Zenon
<1> QED BY <1>2, <1>3, <1>4, Zenon

-----------------------------------------------------------------------------
(* Arrival and tokenization: the pending requests stay as they are.        *)

LEMMA ConcatThree ==
  ASSUME NEW X, NEW s \in Seq(X), NEW t \in Seq(X), NEW u \in Seq(X)
  PROVE  /\ s \o t \o u \in Seq(X) /\ Len(s \o t \o u) = Len(s) + Len(t) + Len(u)
         /\ (s \o t) \o u = s \o (t \o u)
         /\ s \o <<>> = s /\ <<>> \o s = s
         /\ \A x \in X : s \o Append(t, x) = Append(s \o t, x)
<1> DEFINE st == s \o t
<1>1. st \in Seq(X) /\ Len(st) = Len(s) + Len(t)
  BY ConcatProperties, Zenon
<1>2. (s \o t) \o u = s \o (t \o u)
  <2> HIDE DEF st
  <2> QED BY SMTT(30)
<1>3. s \o <<>> = s /\ <<>> \o s = s
  BY ConcatEmptySeq, Zenon
<1>4. ASSUME NEW x \in X PROVE s \o Append(t, x) = Append(st, x)
  <2> HIDE DEF st
  <2>0. <<x>> \in Seq(X)
    OBVIOUS
  <2>1. Append(t, x) = t \o <<x>>
    BY AppendIsConcat
  <2>2. (s \o t) \o <<x>> = s \o (t \o <<x>>)
    BY <2>0, ConcatAssociative
  <2>3. Append(st, x) = st \o <<x>>
    BY <1>1, AppendIsConcat
  <2> QED BY <2>1, <2>2, <2>3, Zenon DEF st
<1> HIDE DEF st
<1>5. st \o u \in Seq(X) /\ Len(st \o u) = Len(st) + Len(u)
  BY <1>1, ConcatProperties, Zenon
<1>6. Len(st \o u) = Len(s) + Len(t) + Len(u)
  BY <1>1, <1>5, Zenon
<1> QED BY <1>2, <1>3, <1>4, <1>5, <1>6, Zenon DEF st

LEMMA PendingShape ==
  ASSUME QueueTypes
  PROVE  /\ Pending \in Seq(Requests)
         /\ Len(Pending) = Len(waiting_q) + Len(tokenizing) + Len(untokenized)
         /\ Len(waiting_q) \in Nat /\ Len(tokenizing) \in Nat /\ Len(untokenized) \in Nat
<1>1. waiting_q \in Seq(Requests) /\ tokenizing \in Seq(Requests) /\ untokenized \in Seq(Requests)
  BY DEF QueueTypes
<1>2. /\ waiting_q \o tokenizing \o untokenized \in Seq(Requests)
      /\ Len(waiting_q \o tokenizing \o untokenized) = Len(waiting_q) + Len(tokenizing) + Len(untokenized)
  BY <1>1, ConcatThree
<1> QED BY <1>1, <1>2 DEF Pending

(* Only the pending requests change. *)
ServingUnchanged ==
  /\ UNCHANGED <<prompt_len, output_len, num_outputs, request_id, available_ids,
                 running_q, swapped_q, num_decoding_gpu_blocks, stage,
                 cur_batch, cur_swap_in, cur_swap_out, faults>>
  /\ UNCHANGED <<layer_quant_list, is_layer_quant_list, next_unquantized_layer, k_cache_new,
                 gpu_num_blocks, num_gpu_blocks, upset>>
  /\ UNCHANGED <<gpu_free, gpu_num_free, gpu_table, gpu_kv, cpu_free, cpu_num_free, cpu_table, cpu_kv>>

LEMMA MainLoopStays ==
  ASSUME MainLoopUnchanged
  PROVE  ServingUnchanged
BY DEF MainLoopUnchanged, ServingUnchanged, requestVars, idVars, planVars, layerVars, gpuVars, cpuVars, batchVars

LEMMA OthersKept ==
  ASSUME IInv, ServingUnchanged,
         waiting_q' \in Seq(Requests), tokenizing' \in Seq(Requests), untokenized' \in Seq(Requests),
         arrived' \in Nat, PendingInOrder', NumAdmitted' = NumAdmitted
  PROVE  IInv'
<1>1. LayerSide /\ QueueSide /\ KvSide /\ DevicesTell /\ GpuTells /\ CpuTells
  BY Zenon DEF IInv
<1>2. LayerSide'
  BY <1>1 DEF ServingUnchanged, LayerSide, LayersTypeOK, LayersTell
<1>3. KvSide'
  BY <1>1 DEF ServingUnchanged, KvSide
<1>4. GpuTells'
  BY <1>1 DEF ServingUnchanged, GpuTells, GpuPool
<1>5. CpuTells'
  BY <1>1 DEF ServingUnchanged, CpuTells, CpuPool
<1>6. Running' = Running /\ Swapped' = Swapped /\ Flying' = Flying
  BY DEF ServingUnchanged, Running, Swapped, Flying
<1>7. DevicesTell'
  <2>1. \A r : OnGpuNow(r)' <=> OnGpuNow(r)
    BY <1>6 DEF ServingUnchanged, OnGpuNow
  <2> QED BY <1>1, <1>6, <2>1 DEF ServingUnchanged, DevicesTell
<1>8. QueueTypes'
  BY <1>1 DEF ServingUnchanged, QueueSide, QueueTypes
<1>9. FlightTells'
  <2>1. \A r : IsFinished(r)' <=> IsFinished(r)
    BY DEF ServingUnchanged, IsFinished
  <2> QED BY <1>1, <1>6, <2>1 DEF ServingUnchanged, QueueSide, FlightTells
<1>10. BatchTells'
  BY <1>1, <1>6 DEF ServingUnchanged, QueueSide, BatchTells, Planned
<1>11. IdsTell'
  BY <1>1, <1>6 DEF ServingUnchanged, QueueSide, IdsTell
<1> QED BY <1>2, <1>3, <1>4, <1>5, <1>7, <1>8, <1>9, <1>10, <1>11, Zenon DEF IInv, QueueSide

(* No request changes its place among the pending ones. *)
LEMMA PendingStays ==
  ASSUME IInv, ServingUnchanged,
         waiting_q' \in Seq(Requests), tokenizing' \in Seq(Requests), untokenized' \in Seq(Requests),
         arrived' = arrived, Pending' = Pending
  PROVE  IInv'
<1>1. QueueTypes /\ PendingInOrder
  BY Zenon DEF IInv, QueueSide
<1>2. NumAdmitted' = NumAdmitted
  BY DEF NumAdmitted
<1>3. PendingInOrder' /\ arrived' \in Nat
  BY <1>1, <1>2 DEF PendingInOrder, QueueTypes
<1> QED BY <1>2, <1>3, OthersKept, Zenon

LEMMA AddRequestKeeps == ASSUME IInv, AddRequest PROVE IInv'
<1>1. QueueTypes /\ PendingInOrder
  BY Zenon DEF IInv, QueueSide
<1>2. /\ ServingUnchanged
      /\ arrived + 1 \in Requests /\ arrived' = arrived + 1
      /\ untokenized' = Append(untokenized, arrived + 1)
      /\ tokenizing' = tokenizing /\ waiting_q' = waiting_q
  BY MainLoopStays DEF AddRequest
<1>3. /\ waiting_q' \in Seq(Requests) /\ tokenizing' \in Seq(Requests) /\ untokenized' \in Seq(Requests)
      /\ arrived \in Nat /\ arrived' \in Nat
  BY <1>1, <1>2 DEF QueueTypes
<1>4. Pending' = Append(Pending, arrived + 1)
  <2>1. waiting_q \in Seq(Requests) /\ tokenizing \in Seq(Requests) /\ untokenized \in Seq(Requests)
    BY <1>1 DEF QueueTypes
  <2> DEFINE w == waiting_q \o tokenizing
  <2>2. w \in Seq(Requests)
    BY <2>1
  <2> HIDE DEF w
  <2>3. w \o Append(untokenized, arrived + 1) = Append(w \o untokenized, arrived + 1)
    <3>1. arrived + 1 \in Requests
      BY <1>2
    <3> QED BY <2>1, <2>2, <3>1, ConcatThree
  <2> QED BY <1>2, <2>3 DEF Pending, w
<1>5. Pending \in Seq(Requests) /\ Len(Pending) \in Nat
  BY <1>1, PendingShape
<1>6. /\ Len(Pending') = Len(Pending) + 1
      /\ DOMAIN Pending' = 1 .. Len(Pending) + 1
      /\ \A i \in 1 .. Len(Pending) : Pending'[i] = Pending[i]
      /\ Pending'[Len(Pending) + 1] = arrived + 1
      /\ Pending' \in Seq(Requests)
  BY <1>2, <1>4, <1>5
<1>7. NumAdmitted' = NumAdmitted /\ NumAdmitted \in Int /\ arrived + 1 = NumAdmitted + (Len(Pending) + 1)
  BY <1>2, <1>3, <1>5, <1>6 DEF NumAdmitted
<1>8. PendingInOrder'
  <2>1. \A i \in 1 .. Len(Pending) : Pending[i] = NumAdmitted + i
    BY <1>1, <1>5 DEF PendingInOrder
  <2>2. \A i \in 1 .. Len(Pending) + 1 : i \in 1 .. Len(Pending) \/ i = Len(Pending) + 1
    BY <1>5
  <2>3. \A i \in 1 .. Len(Pending) + 1 : Pending'[i] = NumAdmitted + i
    BY <1>6, <1>7, <2>1, <2>2
  <2>4. Pending' = [i \in 1 .. Len(Pending') |-> NumAdmitted' + i]
    BY <1>6, <1>7, <2>3
  <2>5. arrived' <= NumRequests /\ NumAdmitted' >= 0
    BY <1>1, <1>2, <1>7, Constants DEF PendingInOrder, Requests
  <2> QED BY <2>4, <2>5, Zenon DEF PendingInOrder
<1> QED BY <1>2, <1>3, <1>7, <1>8, OthersKept, Zenon

LEMMA TokenizationKeeps == ASSUME IInv, TokenizationLoop PROVE IInv'
<1>1. waiting_q \in Seq(Requests) /\ tokenizing \in Seq(Requests) /\ untokenized \in Seq(Requests)
  BY Zenon DEF IInv, QueueSide, QueueTypes
<1>2. <<>> \in Seq(Requests)
  OBVIOUS
<1>3. CASE TakeTokenized
  <2>1. /\ ServingUnchanged /\ tokenizing = <<>> /\ tokenizing' = <<>> /\ arrived' = arrived
        /\ waiting_q' = waiting_q \o untokenized /\ untokenized' = <<>>
    BY <1>3, MainLoopStays DEF TakeTokenized, OnRequestsArrival
  <2>2. waiting_q' \in Seq(Requests)
    BY <1>1, <2>1
  <2>3. Pending' = Pending
    BY <1>1, <2>1, <2>2, ConcatThree DEF Pending
  <2> QED BY <1>2, <2>1, <2>2, <2>3, PendingStays
<1>4. CASE TakeUntokenized
  <2>1. /\ ServingUnchanged /\ tokenizing = <<>> /\ tokenizing' = untokenized /\ arrived' = arrived
        /\ waiting_q' = waiting_q /\ untokenized' = <<>>
    BY <1>4, MainLoopStays DEF TakeUntokenized
  <2>2. waiting_q \o untokenized \in Seq(Requests)
    BY <1>1
  <2>3. Pending' = Pending
    BY <1>1, <2>1, <2>2, ConcatThree DEF Pending
  <2> QED BY <1>1, <1>2, <2>1, <2>3, PendingStays
<1>5. CASE Tokenized
  <2>1. /\ ServingUnchanged /\ tokenizing' = <<>> /\ arrived' = arrived
        /\ waiting_q' = waiting_q \o tokenizing /\ untokenized' = untokenized
    BY <1>5, MainLoopStays DEF Tokenized, OnRequestsArrival
  <2>2. waiting_q' \in Seq(Requests)
    BY <1>1, <2>1
  <2>3. Pending' = Pending
    BY <1>1, <2>1, <2>2, ConcatThree DEF Pending
  <2> QED BY <1>1, <1>2, <2>1, <2>2, <2>3, PendingStays
<1> QED BY <1>3, <1>4, <1>5 DEF TokenizationLoop

-----------------------------------------------------------------------------
(* Scheduling moves requests between the queues, and ids to new ones.      *)

(* Between two plans: who is in flight, and on which device. *)
LEMMA AtSchedule ==
  ASSUME IInv, stage = "schedule"
  PROVE  /\ \A r \in Requests : r \in Flying <=> r <= NumAdmitted /\ ~IsFinished(r)
         /\ \A r \in Running : cpu_table[request_id[r]] = <<>>
         /\ \A r \in Swapped : gpu_table[request_id[r]] = <<>>
<1>1. FlightTells /\ DevicesTell
  BY Zenon DEF IInv, QueueSide
<1>2. \A r : OnGpuNow(r) <=> r \in Running
  BY DEF OnGpuNow
<1>3. \A r \in Requests : r \in Flying <=> r <= NumAdmitted /\ ~IsFinished(r)
  BY <1>1 DEF FlightTells
<1>4. Running \cap Swapped = {}
  BY <1>1, Zenon DEF FlightTells
<1> QED BY <1>1, <1>2, <1>3, <1>4, Zenon DEF DevicesTell, Flying

(* What a plan does to the stage. *)
LEMMA Started ==
  ASSUME NEW batch \in Seq(Requests), NEW in \in Seq(Requests), NEW out \in Seq(Requests),
         Start(batch, in, out)
  PROVE  /\ cur_batch' = batch /\ cur_swap_in' = in /\ cur_swap_out' = out
         /\ stage' \in {"swap_out", "swap_in", "forward", "schedule"} /\ stage' \in Stages
         /\ stage' = "swap_out" <=> out # <<>>
         /\ stage' = "swap_in" <=> out = <<>> /\ in # <<>>
<1>1. CASE out # <<>>
  BY <1>1 DEF Start, Stages
<1>2. CASE out = <<>> /\ in # <<>>
  BY <1>2 DEF Start, Stages
<1>3. CASE out = <<>> /\ in = <<>> /\ batch # <<>>
  BY <1>3 DEF Start, Stages
<1>4. CASE out = <<>> /\ in = <<>> /\ batch = <<>>
  BY <1>4 DEF Start, Stages
<1> QED BY <1>1, <1>2, <1>3, <1>4

LEMMA SchedulerKeepsTypes ==
  ASSUME QueueTypes, OutsideSchedulerUnchanged
  PROVE  /\ prompt_len' = prompt_len /\ output_len' = output_len /\ num_outputs' = num_outputs
         /\ untokenized' = untokenized /\ tokenizing' = tokenizing /\ arrived' = arrived
         /\ faults' = faults /\ gpu_table' = gpu_table /\ cpu_table' = cpu_table
         /\ cpu_free' = cpu_free /\ cpu_num_free' = cpu_num_free /\ cpu_kv' = cpu_kv
         /\ \A r : IsFinished(r)' <=> IsFinished(r)
BY DEF OutsideSchedulerUnchanged, requestVars, arrivalVars, cpuVars, IsFinished

(* The requests in flight only change their queue. *)
LEMMA FlightMoved ==
  ASSUME IInv, stage = "schedule", OutsideSchedulerUnchanged, UNCHANGED <<waiting_q, idVars>>,
         running_q' \in Seq(Requests), swapped_q' \in Seq(Requests), num_decoding_gpu_blocks' \in Nat,
         IsInjective(running_q'), IsInjective(swapped_q'),
         Elements(running_q') \cap Elements(swapped_q') = {},
         Elements(running_q') \cup Elements(swapped_q') = Flying,
         Len(running_q') <= MaxBatchSize,
         cur_batch' \in Seq(Requests), cur_swap_in' \in Seq(Requests), cur_swap_out' \in Seq(Requests),
         stage' \in Stages, stage' # "finish", BatchTells',
         \A r \in Flying : OnGpuNow(r)' <=> r \in Running
  PROVE  QueueSide' /\ DevicesTell'
<1>1. QueueTypes /\ PendingInOrder /\ FlightTells /\ IdsTell /\ DevicesTell
  BY Zenon DEF IInv, QueueSide
<1>2. /\ prompt_len' = prompt_len /\ output_len' = output_len /\ num_outputs' = num_outputs
      /\ untokenized' = untokenized /\ tokenizing' = tokenizing /\ arrived' = arrived
      /\ faults' = faults /\ gpu_table' = gpu_table /\ cpu_table' = cpu_table
      /\ waiting_q' = waiting_q /\ request_id' = request_id /\ available_ids' = available_ids
      /\ \A r : IsFinished(r)' <=> IsFinished(r)
  BY <1>1, SchedulerKeepsTypes DEF idVars
<1>3. /\ Flying' = Flying /\ Pending' = Pending /\ NumAdmitted' = NumAdmitted
  BY <1>2 DEF Flying, Running, Swapped, Pending, NumAdmitted
<1>4. QueueTypes'
  BY <1>1, <1>2 DEF QueueTypes
<1>5. PendingInOrder'
  BY <1>1, <1>2, <1>3 DEF PendingInOrder
<1>6. FlightTells'
  <2>1. \A r \in Requests : r \in Flying <=> r <= NumAdmitted /\ ~IsFinished(r)
    BY AtSchedule, Zenon
  <2>2. \A r \in Requests : num_outputs[r] <= output_len[r] /\ (r > NumAdmitted => num_outputs[r] = 0)
    BY <1>1, Zenon DEF FlightTells
  <2>3. \A r \in Requests :
          /\ r \in Flying' <=> r <= NumAdmitted' /\ (IsFinished(r)' => stage' = "finish" /\ r \in Elements(cur_batch'))
          /\ num_outputs'[r] <= output_len'[r]
          /\ r > NumAdmitted' => num_outputs'[r] = 0
    BY <1>2, <1>3, <2>1, <2>2
  <2>4. IsInjective(running_q') /\ IsInjective(swapped_q') /\ Running' \cap Swapped' = {} /\ Len(running_q') <= MaxBatchSize
    BY DEF Running, Swapped
  <2> QED BY <2>3, <2>4, Zenon DEF FlightTells
<1>7. IdsTell'
  BY <1>1, <1>2, <1>3 DEF IdsTell
<1>8. DevicesTell'
  <2>1. \A r \in Flying : IF r \in Running THEN cpu_table[request_id[r]] = <<>> ELSE gpu_table[request_id[r]] = <<>>
    BY AtSchedule, Zenon DEF Flying
  <2>2. \A id \in Elements(available_ids) : gpu_table[id] = <<>> /\ cpu_table[id] = <<>>
    BY <1>1, Zenon DEF DevicesTell
  <2>3. \A r \in Flying' : IF OnGpuNow(r)' THEN cpu_table'[request_id'[r]] = <<>> ELSE gpu_table'[request_id'[r]] = <<>>
    BY <1>2, <1>3, <2>1
  <2>4. \A id \in Elements(available_ids') : gpu_table'[id] = <<>> /\ cpu_table'[id] = <<>>
    BY <1>2, <2>2
  <2> QED BY <2>3, <2>4 DEF DevicesTell
<1> QED BY <1>4, <1>5, <1>6, <1>7, <1>8, Zenon DEF QueueSide

(* The requests in flight, with their ids and their blocks, are the same,  *)
(* and all who run then are the batch.                                     *)
Moves ==
  /\ Flying' = Flying /\ request_id' = request_id
  /\ cur_batch' = running_q'
  /\ \A r \in Flying : OnGpuNow(r)' <=> r \in Running

(* These come back beside the running requests.                            *)
Returns(back) ==
  /\ back \in Seq(Requests) /\ IsInjective(back)
  /\ Running \cap Elements(back) = {}
  /\ Running' = Running \cup Elements(back)

(* Preempting puts the end of running_q before swapped_q. *)
LEMMA PreemptKept ==
  ASSUME IInv, stage = "schedule", OutsideSchedulerUnchanged, NEW pool,
         Kept(pool) < Len(running_q), PreemptBatch(pool),
         Start(First(running_q, Kept(pool)), <<>>, NewlySwappedOut(pool))
  PROVE  QueueSide' /\ DevicesTell' /\ Moves /\ stage' = "swap_out"
<1> DEFINE k == Kept(pool)
           head == First(running_q, k)
           tail == Rest(running_q, k)
<1>1. QueueTypes /\ FlightTells
  BY Zenon DEF IInv, QueueSide
<1>2. /\ running_q \in Seq(Requests) /\ swapped_q \in Seq(Requests) /\ Len(running_q) \in Nat
      /\ IsInjective(running_q) /\ IsInjective(swapped_q) /\ Running \cap Swapped = {}
      /\ Len(running_q) <= MaxBatchSize
  BY <1>1 DEF QueueTypes, FlightTells
<1>3. k \in 0 .. Len(running_q) /\ k < Len(running_q)
  BY <1>1, KeptBounds, Zenon
<1> HIDE DEF k
<1>4. head \in Seq(Requests) /\ tail \in Seq(Requests) /\ Len(head) = k /\ Len(tail) = Len(running_q) - k
  BY <1>2, <1>3, FirstAndRest, SMTT(60)
<1>5. /\ Elements(head) \cup Elements(tail) = Running
      /\ IsInjective(head) /\ IsInjective(tail) /\ Elements(head) \cap Elements(tail) = {}
  BY <1>2, <1>3, FirstAndRestElements, Zenon DEF Running
<1> HIDE DEF head, tail
<1>6. /\ Reverse(tail) \in Seq(Requests) /\ Elements(Reverse(tail)) = Elements(tail)
      /\ IsInjective(Reverse(tail)) /\ Reverse(Reverse(tail)) = tail
  BY <1>4, <1>5, ReverseList
<1>7. NewlySwappedOut(pool) = tail
  BY <1>6, Zenon DEF NewlySwappedOut, Victims, tail, k
<1>8. /\ running_q' = head /\ swapped_q' = Reverse(tail) \o swapped_q
      /\ num_decoding_gpu_blocks' = BlocksOf(head) /\ UNCHANGED <<waiting_q, idVars>>
  <2>1. running_q' = head /\ num_decoding_gpu_blocks' = BlocksOf(head) /\ UNCHANGED <<waiting_q, idVars>>
    BY Zenon DEF PreemptBatch, head, k
  <2>2. swapped_q' = Reverse(NewlySwappedOut(pool)) \o swapped_q
    BY Zenon DEF PreemptBatch, ExtendLeft
  <2> QED BY <1>7, <2>1, <2>2, Zenon
<1>9. num_decoding_gpu_blocks' \in Nat
  BY <1>1, <1>4, <1>8, BlocksOfNat, Zenon
<1>10. /\ swapped_q' \in Seq(Requests) /\ Elements(swapped_q') = Elements(tail) \cup Swapped
       /\ IsInjective(swapped_q')
  <2>1. Elements(Reverse(tail)) \cap Elements(swapped_q) = {}
    BY <1>2, <1>5, <1>6, Zenon DEF Swapped
  <2>2. /\ Reverse(tail) \o swapped_q \in Seq(Requests)
        /\ Elements(Reverse(tail) \o swapped_q) = Elements(Reverse(tail)) \cup Elements(swapped_q)
        /\ IsInjective(Reverse(tail) \o swapped_q)
    BY <1>2, <1>6, <2>1, ConcatList
  <2> QED BY <1>6, <1>8, <2>2, Zenon DEF Swapped
<1>11. /\ cur_batch' = head /\ cur_swap_in' = <<>> /\ cur_swap_out' = tail
       /\ stage' = "swap_out" /\ stage' \in Stages
  <2>1. Start(head, <<>>, tail)
    BY <1>7, Zenon DEF head, k
  <2>2. <<>> \in Seq(Requests) /\ tail # <<>>
    BY <1>2, <1>3, <1>4
  <2> QED BY <1>4, <2>1, <2>2, Started
<1>12. BatchTells'
  BY <1>5, <1>8, <1>10, <1>11 DEF BatchTells, Planned, Running, Swapped
<1>13. \A r : OnGpuNow(r)' <=> r \in Running
  BY <1>5, <1>8, <1>11 DEF OnGpuNow, Running
<1>14. /\ Elements(running_q') \cap Elements(swapped_q') = {}
       /\ Elements(running_q') \cup Elements(swapped_q') = Flying
  BY <1>2, <1>5, <1>8, <1>10, Zenon DEF Flying
<1>15. Len(running_q') <= MaxBatchSize /\ <<>> \in Seq(Requests)
  BY <1>2, <1>3, <1>4, <1>8, Constants
<1>16. stage' # "finish" /\ running_q' \in Seq(Requests) /\ IsInjective(running_q')
  BY <1>4, <1>5, <1>8, <1>11
<1>17. cur_batch' \in Seq(Requests) /\ cur_swap_in' \in Seq(Requests) /\ cur_swap_out' \in Seq(Requests)
  BY <1>4, <1>11, <1>15, Zenon
<1>18. stage' \in Stages /\ \A r \in Flying : OnGpuNow(r)' <=> r \in Running
  BY <1>11, <1>13, Zenon
<1>19. Moves
  <2>1. Flying' = Flying
    BY <1>14, Zenon DEF Flying, Running, Swapped
  <2>2. cur_batch' = running_q' /\ request_id' = request_id
    BY <1>8, <1>11 DEF idVars
  <2> QED BY <1>18, <2>1, <2>2, Zenon DEF Moves
<1>20. QueueSide' /\ DevicesTell'
  BY <1>8, <1>9, <1>10, <1>12, <1>14, <1>15, <1>16, <1>17, <1>18, FlightMoved
<1> QED BY <1>11, <1>19, <1>20, Zenon

(* Decoding takes the head of swapped_q back. *)
LEMMA DecodeKept ==
  ASSUME IInv, stage = "schedule", OutsideSchedulerUnchanged, NEW pool,
         DecodeBatch(pool), Start(running_q', First(swapped_q, Returning(pool)), <<>>)
  PROVE  QueueSide' /\ DevicesTell' /\ Moves /\ Returns(First(swapped_q, Returning(pool)))
<1> DEFINE n == Returning(pool)
           back == First(swapped_q, n)
           stay == Rest(swapped_q, n)
<1>1. QueueTypes /\ FlightTells
  BY Zenon DEF IInv, QueueSide
<1>2. /\ running_q \in Seq(Requests) /\ swapped_q \in Seq(Requests) /\ Len(running_q) \in Nat
      /\ IsInjective(running_q) /\ IsInjective(swapped_q) /\ Running \cap Swapped = {}
      /\ Len(running_q) <= MaxBatchSize /\ Len(swapped_q) \in Nat
  BY <1>1 DEF QueueTypes, FlightTells
<1>3. n \in 0 .. Len(swapped_q) /\ (n > 0 => Len(running_q) + n <= MaxBatchSize)
  <2>1. n \in 0 .. Len(swapped_q) /\ \A k \in 1 .. n : FitsSwapped(k, pool)
    BY <1>1, ReturningBounds, Zenon
  <2> HIDE DEF n
  <2>2. n > 0 => n \in 1 .. n
    BY <2>1
  <2> QED BY <2>1, <2>2, Zenon DEF FitsSwapped
<1> HIDE DEF n
<1>4. back \in Seq(Requests) /\ stay \in Seq(Requests) /\ Len(back) = n
  BY <1>2, <1>3, FirstAndRest, SMTT(60)
<1>5. /\ Elements(back) \cup Elements(stay) = Swapped
      /\ IsInjective(back) /\ IsInjective(stay) /\ Elements(back) \cap Elements(stay) = {}
  BY <1>2, <1>3, FirstAndRestElements, Zenon DEF Swapped
<1> HIDE DEF back, stay
<1>6. /\ running_q' = running_q \o back /\ swapped_q' = stay
      /\ num_decoding_gpu_blocks' = BlocksOf(running_q) + BlocksOf(back) /\ UNCHANGED <<waiting_q, idVars>>
  BY Zenon DEF DecodeBatch, back, stay, n
<1>7. num_decoding_gpu_blocks' \in Nat
  <2>1. BlocksOf(running_q) \in Nat /\ BlocksOf(back) \in Nat
    BY <1>1, <1>2, <1>4, BlocksOfNat, Zenon
  <2> QED BY <1>6, <2>1
<1>8. /\ running_q' \in Seq(Requests) /\ Len(running_q') = Len(running_q) + n
      /\ Elements(running_q') = Running \cup Elements(back) /\ IsInjective(running_q')
  <2>1. Elements(running_q) \cap Elements(back) = {}
    BY <1>2, <1>5, Zenon DEF Running
  <2>2. /\ running_q \o back \in Seq(Requests)
        /\ Elements(running_q \o back) = Elements(running_q) \cup Elements(back)
        /\ IsInjective(running_q \o back)
    BY <1>2, <1>4, <1>5, <2>1, ConcatList
  <2>3. back \in Seq(Requests) /\ running_q \in Seq(Requests)
    BY <1>2, <1>4
  <2>4. Len(running_q \o back) = Len(running_q) + Len(back)
    BY <2>3, ConcatProperties, Zenon
  <2>5. running_q' = running_q \o back /\ Elements(running_q) = Running /\ Len(back) = n
    BY <1>4, <1>6, Zenon DEF Running
  <2> QED BY <2>2, <2>4, <2>5, Zenon
<1>9. <<>> \in Seq(Requests)
  OBVIOUS
<1>10. /\ cur_batch' = running_q' /\ cur_swap_in' = back /\ cur_swap_out' = <<>>
       /\ stage' \in {"swap_in", "forward", "schedule"} /\ stage' \in Stages
       /\ stage' = "swap_in" <=> back # <<>>
  <2>1. Start(running_q', back, <<>>)
    BY Zenon DEF back, n
  <2> QED BY <1>4, <1>8, <1>9, <2>1, Started
<1>11. stage' # "swap_in" => Elements(back) = {}
  BY <1>10 DEF Elements
<1>12. BatchTells'
  BY <1>5, <1>6, <1>8, <1>10 DEF BatchTells, Planned, Running, Swapped
<1>13. \A r : OnGpuNow(r)' <=> r \in Running
  <2>1. Running \cap Elements(back) = {}
    BY <1>2, <1>5
  <2> QED BY <1>8, <1>10, <1>11, <2>1 DEF OnGpuNow, Running
<1>14. /\ Elements(running_q') \cap Elements(swapped_q') = {}
       /\ Elements(running_q') \cup Elements(swapped_q') = Flying
  BY <1>2, <1>5, <1>6, <1>8 DEF Flying
<1>15. Len(running_q') <= MaxBatchSize
  BY <1>2, <1>3, <1>8, Constants
<1>16. stage' # "finish" /\ stage' \in Stages /\ swapped_q' \in Seq(Requests) /\ IsInjective(swapped_q')
  BY <1>4, <1>5, <1>6, <1>10
<1>17. cur_batch' \in Seq(Requests) /\ cur_swap_in' \in Seq(Requests) /\ cur_swap_out' \in Seq(Requests)
  BY <1>4, <1>8, <1>9, <1>10, Zenon
<1>18. Moves
  <2>1. Flying' = Flying
    BY <1>14, Zenon DEF Flying, Running, Swapped
  <2>2. cur_batch' = running_q' /\ request_id' = request_id
    BY <1>6, <1>10 DEF idVars
  <2> QED BY <1>13, <2>1, <2>2, Zenon DEF Moves
<1>19. Returns(back)
  <2>1. Running \cap Elements(back) = {}
    BY <1>2, <1>5
  <2>2. Running' = Running \cup Elements(back)
    BY <1>8, Zenon DEF Running
  <2> QED BY <1>4, <1>5, <2>1, <2>2, Zenon DEF Returns
<1>20. QueueSide' /\ DevicesTell'
  BY <1>6, <1>7, <1>8, <1>12, <1>13, <1>14, <1>15, <1>16, <1>17, FlightMoved
<1> QED BY <1>18, <1>19, <1>20, Zenon DEF back, n

(* Every id outside available_ids is one of a running request, so there    *)
(* are enough for a batch.                                                 *)
LEMMA EnoughIds ==
  ASSUME QueueTypes, FlightTells, IdsTell, swapped_q = <<>>
  PROVE  MaxSeqs <= Len(available_ids) + Len(running_q)
<1> DEFINE la == Len(available_ids)
           lr == Len(running_q)
           id == [i \in 1 .. la + lr |->
                    IF i <= la THEN available_ids[i] ELSE request_id[running_q[i - la]]]
<1>1. /\ available_ids \in Seq(RequestIds) /\ running_q \in Seq(Requests)
      /\ la \in Nat /\ lr \in Nat /\ MaxSeqs \in Nat
  BY Constants DEF QueueTypes
<1>2. \A r \in Flying : request_id[r] \in RequestIds
  BY DEF IdsTell
<1>3. Flying = Running /\ Running = {running_q[i] : i \in DOMAIN running_q}
  BY DEF Flying, Running, Swapped, Elements
<1>4. \A i \in 1 .. lr : running_q[i] \in Running
  BY <1>1, <1>3
<1>5. id \in [1 .. la + lr -> RequestIds]
  <2>1. \A i \in 1 .. la + lr : i <= la => available_ids[i] \in RequestIds
    BY <1>1
  <2>2. \A i \in 1 .. la + lr : ~(i <= la) => request_id[running_q[i - la]] \in RequestIds
    BY <1>1, <1>2, <1>3, <1>4
  <2> QED BY <2>1, <2>2
<1>6. \A x \in RequestIds : \E i \in 1 .. la + lr : id[i] = x
  <2> TAKE x \in RequestIds
  <2>1. CASE x \in Elements(available_ids)
    <3>1. PICK i \in 1 .. la : available_ids[i] = x
      BY <1>1, <2>1 DEF Elements
    <3>2. i \in 1 .. la + lr /\ id[i] = x
      BY <1>1, <3>1
    <3> QED BY <3>2
  <2>2. CASE ~(x \in Elements(available_ids))
    <3>1. PICK r \in Running : request_id[r] = x
      BY <1>3, <2>2, Zenon DEF IdsTell
    <3>2. PICK j \in 1 .. lr : running_q[j] = r
      BY <1>1, <1>3, <3>1
    <3>3. la + j \in 1 .. la + lr /\ ~(la + j <= la) /\ (la + j) - la = j
      BY <1>1, <3>2
    <3>4. id[la + j] = x
      BY <3>1, <3>2, <3>3
    <3> QED BY <3>3, <3>4
  <2> QED BY <2>1, <2>2
<1> HIDE DEF id
<1>7. id \in Surjection(1 .. la + lr, RequestIds)
  BY <1>5, <1>6, Zenon DEF Surjection
<1>8. IsFiniteSet(1 .. la + lr) /\ Cardinality(1 .. la + lr) = la + lr
  <2>1. 1 \in Int /\ la + lr \in Int /\ (~(1 > la + lr) \/ la + lr = 0)
    BY <1>1
  <2> HIDE DEF la, lr
  <2> QED BY <1>1, <2>1, FS_Interval
<1>9. Cardinality(RequestIds) = MaxSeqs
  <2>1. 0 \in Int /\ MaxSeqs - 1 \in Int
    BY <1>1
  <2> QED BY <1>1, <2>1, FS_Interval DEF RequestIds
<1>10. Cardinality(RequestIds) <= Cardinality(1 .. la + lr)
  BY <1>7, <1>8, FS_Surjection, Zenon
<1> QED BY <1>8, <1>9, <1>10

(* The first of the pending requests are admitted. *)
LEMMA PendingAdvances ==
  ASSUME QueueTypes, PendingInOrder, NEW n \in 0 .. Len(waiting_q), waiting_q' = Rest(waiting_q, n),
         tokenizing' = tokenizing, untokenized' = untokenized, arrived' = arrived
  PROVE  /\ PendingInOrder' /\ NumAdmitted \in Nat
         /\ NumAdmitted' = NumAdmitted + n /\ NumAdmitted + n <= NumRequests
         /\ \A i \in 1 .. n : waiting_q[i] = NumAdmitted + i
<1> DEFINE t == tokenizing \o untokenized
           lt == Len(t)
           lw == Len(waiting_q)
<1>1. /\ waiting_q \in Seq(Requests) /\ tokenizing \in Seq(Requests) /\ untokenized \in Seq(Requests)
      /\ arrived \in Nat
  BY DEF QueueTypes
<1>2. t \in Seq(Requests)
  BY <1>1
<1>3. Pending = waiting_q \o t
  BY <1>1, SMTT(30) DEF Pending, t
<1>4. Rest(waiting_q, n) \in Seq(Requests)
  BY <1>1, FirstAndRest, Zenon
<1>5. Pending' = Rest(waiting_q, n) \o t
  <2>1. Rest(waiting_q, n) \o tokenizing \o untokenized = Rest(waiting_q, n) \o t
    BY <1>1, <1>4, SMTT(30) DEF t
  <2> QED BY <2>1, Zenon DEF Pending
<1> HIDE DEF t
<1>6. lw \in Nat /\ lt \in Nat /\ n \in Nat /\ n <= lw
  BY <1>1, <1>2
<1>7. /\ Len(Rest(waiting_q, n)) = lw - n
      /\ \A i \in 1 .. lw - n : Rest(waiting_q, n)[i] = waiting_q[n + i]
  BY <1>1, FirstAndRest, Zenon
<1>8. /\ Len(Pending) = lw + lt /\ DOMAIN Pending = 1 .. lw + lt
      /\ \A i \in 1 .. lw : Pending[i] = waiting_q[i]
      /\ \A m \in 1 .. lt : Pending[lw + m] = t[m]
  BY <1>1, <1>2, <1>3, SMTT(30)
<1> DEFINE rest == Rest(waiting_q, n)
<1> HIDE DEF rest
<1>9. /\ Len(Pending') = (lw - n) + lt /\ DOMAIN Pending' = 1 .. (lw - n) + lt
      /\ \A i \in 1 .. lw - n : Pending'[i] = rest[i]
      /\ \A m \in 1 .. lt : Pending'[(lw - n) + m] = t[m]
      /\ Pending' \in Seq(Requests)
  <2>1. /\ Len(rest \o t) = Len(rest) + Len(t)
        /\ DOMAIN (rest \o t) = 1 .. Len(rest) + Len(t)
        /\ \A k \in 1 .. Len(rest) : (rest \o t)[k] = rest[k]
        /\ \A m \in 1 .. Len(t) : (rest \o t)[Len(rest) + m] = t[m]
        /\ rest \o t \in Seq(Requests)
    <3>1. rest \in Seq(Requests)
      BY <1>4 DEF rest
    <3> QED BY <1>2, <3>1, SMTT(30)
  <2>2. Len(rest) = lw - n /\ Pending' = rest \o t
    BY <1>5, <1>7, Zenon DEF rest
  <2> QED BY <2>1, <2>2, Zenon
<1> HIDE DEF lw, lt
<1>10. /\ arrived <= NumRequests /\ NumAdmitted >= 0 /\ NumAdmitted = arrived - (lw + lt)
       /\ \A i \in 1 .. lw + lt : Pending[i] = NumAdmitted + i
  <2>1. \A i \in 1 .. Len(Pending) : Pending[i] = NumAdmitted + i
    BY DEF PendingInOrder
  <2> QED BY <1>8, <2>1 DEF PendingInOrder, NumAdmitted
<1>11. /\ NumAdmitted \in Nat /\ NumAdmitted' = NumAdmitted + n /\ NumAdmitted + n <= NumRequests
  <2>1. NumAdmitted' = arrived - ((lw - n) + lt)
    BY <1>9 DEF NumAdmitted
  <2> QED BY <1>1, <1>6, <1>10, <2>1, Constants
<1>12. \A i \in 1 .. lw : waiting_q[i] = NumAdmitted + i
  BY <1>6, <1>8, <1>10
<1>13. \A i \in 1 .. (lw - n) + lt : Pending'[i] = NumAdmitted' + i
  <2> TAKE i \in 1 .. (lw - n) + lt
  <2>1. CASE i \in 1 .. lw - n
    <3>1. n + i \in 1 .. lw
      BY <1>6, <2>1
    <3>2. Pending'[i] = NumAdmitted + (n + i)
      BY <1>7, <1>9, <1>12, <2>1, <3>1 DEF rest, lw
    <3> QED BY <1>6, <1>11, <3>2
  <2>2. CASE ~(i \in 1 .. lw - n)
    <3> DEFINE m == i - (lw - n)
    <3>1. m \in 1 .. lt /\ i = (lw - n) + m /\ lw + m \in 1 .. lw + lt
      BY <1>6, <2>2
    <3>2. Pending'[i] = t[m] /\ t[m] = Pending[lw + m] /\ Pending[lw + m] = NumAdmitted + (lw + m)
      BY <1>8, <1>9, <1>10, <3>1 DEF lw, lt
    <3> QED BY <1>6, <1>11, <3>1, <3>2
  <2> QED BY <2>1, <2>2
<1>14. PendingInOrder'
  <2>1. Pending' = [i \in 1 .. Len(Pending') |-> NumAdmitted' + i]
    BY <1>9, <1>13
  <2>2. arrived' <= NumRequests /\ NumAdmitted' >= 0
    BY <1>6, <1>10, <1>11
  <2> QED BY <2>1, <2>2, Zenon DEF PendingInOrder
<1>15. \A i \in 1 .. n : waiting_q[i] = NumAdmitted + i
  BY <1>6, <1>12
<1> QED BY <1>11, <1>14, <1>15

(* The next n requests get the last n of available_ids. *)
Handed(n) ==
  /\ request_id' = [r \in Requests |->
       IF r > NumAdmitted /\ r <= NumAdmitted + n
         THEN available_ids[Len(available_ids) + 1 - (r - NumAdmitted)] ELSE request_id[r]]
  /\ available_ids' = First(available_ids, Len(available_ids) - n)

LEMMA HandedOut ==
  ASSUME QueueTypes, NEW n \in 0 .. Len(waiting_q), NumAdmitted \in Nat,
         \A i \in 1 .. n : waiting_q[i] = NumAdmitted + i, HandOutIds(First(waiting_q, n))
  PROVE  /\ Handed(n)
         /\ \A r \in Requests : r \in Elements(First(waiting_q, n)) <=> r > NumAdmitted /\ r <= NumAdmitted + n
         /\ IsInjective(First(waiting_q, n)) /\ First(waiting_q, n) \in Seq(Requests)
         /\ Len(First(waiting_q, n)) = n
<1> DEFINE batch == First(waiting_q, n)
           a == NumAdmitted
           la == Len(available_ids)
<1>1. waiting_q \in Seq(Requests) /\ la \in Nat /\ a \in Nat /\ n \in Nat /\ Requests \subseteq Int
  BY Constants DEF QueueTypes, Requests
<1>2. batch \in Seq(Requests) /\ Len(batch) = n /\ DOMAIN batch = 1 .. n
      /\ \A i \in 1 .. n : batch[i] = waiting_q[i]
  BY <1>1, FirstFacts, SMTT(30)
<1>3. HandOutIds(batch)
  OBVIOUS
<1> HIDE DEF batch, a, la
<1>4. \A i \in 1 .. n : batch[i] = a + i
  BY <1>2 DEF a
<1>5. \A r \in Requests : r \in Elements(batch) <=> r > a /\ r <= a + n
  <2> TAKE r \in Requests
  <2>1. r \in Elements(batch) <=> \E i \in 1 .. n : batch[i] = r
    BY <1>2 DEF Elements
  <2>2. (\E i \in 1 .. n : a + i = r) <=> r > a /\ r <= a + n
    <3>1. r > a /\ r <= a + n => r - a \in 1 .. n /\ a + (r - a) = r
      BY <1>1
    <3>2. \A i \in 1 .. n : a + i = r => r > a /\ r <= a + n
      BY <1>1
    <3> QED BY <3>1, <3>2, Zenon
  <2> QED BY <1>4, <2>1, <2>2
<1>6. IsInjective(batch)
  BY <1>1, <1>2, <1>4 DEF IsInjective
<1>7. \A r \in Requests : r > a /\ r <= a + n => (CHOOSE i \in DOMAIN batch : batch[i] = r) = r - a
  <2> TAKE r \in Requests
  <2> HAVE r > a /\ r <= a + n
  <2>1. r - a \in DOMAIN batch /\ batch[r - a] = r
    BY <1>1, <1>2, <1>4
  <2>2. \A i \in DOMAIN batch : batch[i] = r => i = r - a
    BY <1>1, <1>2, <1>4
  <2>3. (CHOOSE i \in DOMAIN batch : batch[i] = r) \in DOMAIN batch
        /\ batch[CHOOSE i \in DOMAIN batch : batch[i] = r] = r
    BY <2>1, Zenon
  <2> QED BY <2>2, <2>3, Zenon
<1>8. \A r : Contains(batch, r) <=> r \in Elements(batch)
  BY <1>2, ContainsElements, Zenon
<1>9. request_id' = [r \in Requests |->
        IF r > a /\ r <= a + n THEN available_ids[la + 1 - (r - a)] ELSE request_id[r]]
  <2>1. request_id' = [r \in Requests |->
          IF Contains(batch, r) THEN available_ids[la + 1 - (CHOOSE i \in DOMAIN batch : batch[i] = r)]
                                ELSE request_id[r]]
    BY <1>3, Zenon DEF HandOutIds, la
  <2>2. \A r \in Requests : Contains(batch, r) <=> r > a /\ r <= a + n
    BY <1>5, <1>8, Zenon
  <2>3. \A r \in Requests :
          (IF Contains(batch, r) THEN available_ids[la + 1 - (CHOOSE i \in DOMAIN batch : batch[i] = r)]
                                 ELSE request_id[r])
          = IF r > a /\ r <= a + n THEN available_ids[la + 1 - (r - a)] ELSE request_id[r]
    <3> TAKE r \in Requests
    <3>1. CASE r > a /\ r <= a + n
      <4> DEFINE chosen == CHOOSE i \in DOMAIN batch : batch[i] = r
      <4>1. chosen = r - a /\ Contains(batch, r)
        BY <1>7, <2>2, <3>1, Zenon
      <4> HIDE DEF chosen
      <4>2. available_ids[la + 1 - chosen] = available_ids[la + 1 - (r - a)]
        BY <4>1, Zenon
      <4> QED BY <3>1, <4>1, <4>2, Zenon DEF chosen
    <3>2. CASE ~(r > a /\ r <= a + n)
      BY <2>2, <3>2
    <3> QED BY <3>1, <3>2, Zenon
  <2> QED BY <2>1, <2>3
<1>10. available_ids' = First(available_ids, la - n)
  BY <1>2, <1>3, Zenon DEF HandOutIds, la
<1> QED BY <1>2, <1>5, <1>6, <1>9, <1>10, Zenon DEF Handed, a, la, batch

LEMMA HandedIdsTell ==
  ASSUME QueueTypes, IdsTell, NEW n \in Nat, n <= Len(available_ids), Handed(n),
         NumAdmitted \in Nat, NumAdmitted + n <= NumRequests, NumAdmitted' = NumAdmitted + n,
         \A r \in Flying : r \in Requests /\ r <= NumAdmitted,
         \A r \in Requests : r \in Flying' <=> r \in Flying \/ (r > NumAdmitted /\ r <= NumAdmitted + n),
         Flying' \subseteq Requests
  PROVE  /\ IdsTell' /\ available_ids' \in Seq(RequestIds) /\ request_id' \in [Requests -> RequestIds \cup {-1}]
         /\ Elements(available_ids') \subseteq Elements(available_ids)
         /\ \A r \in Flying : request_id'[r] = request_id[r]
         /\ \A r \in Flying' : ~(r \in Flying) => request_id'[r] \in Elements(available_ids)
<1> DEFINE a == NumAdmitted
           la == Len(available_ids)
           New(r) == r > a /\ r <= a + n
           at(r) == la + 1 - (r - a)
<1>1. /\ available_ids \in Seq(RequestIds) /\ la \in Nat /\ DOMAIN available_ids = 1 .. la /\ a \in Nat
      /\ request_id \in [Requests -> RequestIds \cup {-1}] /\ Requests \subseteq Int /\ n <= la
      /\ \A i, j \in 1 .. la : available_ids[i] = available_ids[j] => i = j
  BY Constants DEF QueueTypes, Requests, IdsTell, IsInjective
<1>2. \A r \in Requests : request_id'[r] = IF New(r) THEN available_ids[at(r)] ELSE request_id[r]
  BY Zenon DEF Handed
<1>3. \A r \in Requests : New(r) => at(r) \in 1 .. la /\ at(r) > la - n
  BY <1>1
<1>4. la - n \in 0 .. la
  BY <1>1
<1>5. /\ available_ids' \in Seq(RequestIds)
      /\ \A i \in 1 .. la - n : available_ids'[i] = available_ids[i]
      /\ DOMAIN available_ids' = 1 .. la - n
  <2>1. available_ids' = First(available_ids, la - n)
    BY Zenon DEF Handed
  <2> DEFINE k == la - n
  <2>2. k \in 0 .. Len(available_ids)
    BY <1>4
  <2> HIDE DEF k
  <2>3. /\ First(available_ids, k) \in Seq(RequestIds) /\ DOMAIN First(available_ids, k) = 1 .. k
        /\ \A i \in 1 .. k : First(available_ids, k)[i] = available_ids[i]
    <3>1. available_ids \in Seq(RequestIds)
      BY <1>1
    <3> QED BY <2>2, <3>1, FirstFacts, Zenon
  <2> QED BY <2>1, <2>3, Zenon DEF k
<1>6. /\ \A x \in Elements(available_ids) : \E i \in 1 .. la : available_ids[i] = x
      /\ \A i \in 1 .. la : available_ids[i] \in Elements(available_ids) /\ available_ids[i] \in RequestIds
      /\ \A i \in 1 .. la - n : available_ids[i] \in Elements(available_ids')
      /\ \A x \in Elements(available_ids') : \E i \in 1 .. la - n : available_ids[i] = x
  <2>1. /\ \A x \in Elements(available_ids) : \E i \in 1 .. la : available_ids[i] = x
        /\ \A i \in 1 .. la : available_ids[i] \in Elements(available_ids)
    BY <1>1, Zenon DEF Elements
  <2>2. \A i \in 1 .. la : available_ids[i] \in RequestIds
    BY <1>1
  <2>3. /\ \A x \in Elements(available_ids') : \E i \in 1 .. la - n : available_ids'[i] = x
        /\ \A i \in 1 .. la - n : available_ids'[i] \in Elements(available_ids')
    BY <1>5, Zenon DEF Elements
  <2> QED BY <1>5, <2>1, <2>2, <2>3, Zenon
<1>7. 1 .. la - n \subseteq 1 .. la /\ \A i \in 1 .. la - n : ~(i > la - n)
  BY <1>1, <1>4
<1>8. Elements(available_ids') \subseteq Elements(available_ids)
  BY <1>6, <1>7
<1>9. request_id' \in [Requests -> RequestIds \cup {-1}]
  <2>1. \A r \in Requests : request_id'[r] \in RequestIds \cup {-1}
    BY <1>1, <1>2, <1>3, <1>6
  <2>2. request_id' = [r \in Requests |-> request_id'[r]]
    BY Zenon DEF Handed
  <2> QED BY <2>1, <2>2
<1>10. \A r \in Flying : request_id'[r] = request_id[r]
  <2> TAKE r \in Flying
  <2>1. r \in Requests /\ r <= a
    OBVIOUS
  <2>2. ~New(r)
    BY <1>1, <2>1
  <2> HIDE DEF New
  <2> QED BY <1>2, <2>1, <2>2
<1>11. \A r \in Flying' : r \in Requests /\ (r \in Flying \/ New(r)) /\ (r \in Flying => ~New(r))
  BY <1>1
<1>12. \A r \in Requests : New(r) => request_id'[r] = available_ids[at(r)]
  BY <1>2, Zenon
<1>13. \A r, s \in Requests : New(r) /\ New(s) /\ at(r) = at(s) => r = s
  BY <1>1
<1>14. /\ \A r \in Flying : request_id[r] \in RequestIds \ Elements(available_ids)
       /\ \A r, s \in Flying : request_id[r] = request_id[s] => r = s
       /\ \A id \in RequestIds \ Elements(available_ids) : \E r \in Flying : request_id[r] = id
       /\ \A r \in Requests : request_id[r] = -1 <=> r > a
  BY Zenon DEF IdsTell
<1> HIDE DEF at
<1>15. \A r \in Flying' : New(r) => /\ request_id'[r] = available_ids[at(r)] /\ at(r) \in 1 .. la /\ at(r) > la - n
                                    /\ request_id'[r] \in Elements(available_ids)
                                    /\ ~(request_id'[r] \in Elements(available_ids'))
  <2> TAKE r \in Flying'
  <2> HAVE New(r)
  <2>1. request_id'[r] = available_ids[at(r)] /\ at(r) \in 1 .. la /\ at(r) > la - n
    BY <1>3, <1>11, <1>12, Zenon
  <2>2. ASSUME available_ids[at(r)] \in Elements(available_ids') PROVE FALSE
    <3>1. PICK i \in 1 .. la - n : available_ids[i] = available_ids[at(r)]
      BY <1>6, <2>2
    <3>2. i = at(r)
      BY <1>1, <1>7, <2>1, <3>1
    <3> QED BY <1>7, <2>1, <3>1, <3>2
  <2> QED BY <1>6, <2>1, <2>2
<1> HIDE DEF New
<1>16. IsInjective(available_ids')
  BY <1>1, <1>5, <1>7 DEF IsInjective
<1>17. \A r \in Flying' : request_id'[r] \in RequestIds \ Elements(available_ids')
  BY <1>6, <1>8, <1>10, <1>11, <1>14, <1>15
<1>18. \A r, s \in Flying' : request_id'[r] = request_id'[s] => r = s
  <2> TAKE r, s \in Flying'
  <2> HAVE request_id'[r] = request_id'[s]
  <2>1. CASE r \in Flying /\ s \in Flying
    BY <1>10, <1>14, <2>1, Zenon
  <2>2. CASE New(r) /\ New(s)
    <3>1. at(r) = at(s)
      BY <1>1, <1>15, <2>2
    <3> QED BY <1>11, <1>13, <2>2, <3>1, Zenon
  <2>3. CASE New(r) /\ s \in Flying
    <3>1. request_id'[r] \in Elements(available_ids) /\ ~(request_id'[s] \in Elements(available_ids))
      BY <1>10, <1>14, <1>15, <2>3
    <3> QED BY <3>1
  <2>4. CASE New(s) /\ r \in Flying
    <3>1. request_id'[s] \in Elements(available_ids) /\ ~(request_id'[r] \in Elements(available_ids))
      BY <1>10, <1>14, <1>15, <2>4
    <3> QED BY <3>1
  <2> QED BY <1>11, <2>1, <2>2, <2>3, <2>4, Zenon
<1>19. \A id \in RequestIds \ Elements(available_ids') : \E r \in Flying' : request_id'[r] = id
  <2> TAKE id \in RequestIds \ Elements(available_ids')
  <2>1. CASE id \in Elements(available_ids)
    <3>1. PICK i \in 1 .. la : available_ids[i] = id
      BY <1>6, <2>1
    <3>2. ~(i \in 1 .. la - n)
      BY <1>6, <3>1
    <3> DEFINE r == a + (la + 1 - i)
    <3>3. i \in Int /\ i > la - n /\ i <= la
      BY <1>1, <3>2
    <3>4. r \in Requests /\ New(r) /\ at(r) = i
      BY <1>1, <3>3, Constants DEF New, at, Requests
    <3> HIDE DEF r
    <3>5. r \in Flying'
      BY <3>4 DEF New
    <3> QED BY <1>12, <3>1, <3>4, <3>5
  <2>2. CASE ~(id \in Elements(available_ids))
    <3>1. PICK r \in Flying : request_id[r] = id
      BY <1>14, <2>2
    <3>2. r \in Flying'
      BY <3>1
    <3> QED BY <1>10, <3>1, <3>2
  <2> QED BY <2>1, <2>2
<1>20. \A r \in Requests : request_id'[r] = -1 <=> r > NumAdmitted'
  <2> TAKE r \in Requests
  <2>1. CASE New(r)
    <3>1. request_id'[r] \in RequestIds /\ ~(r > NumAdmitted')
      BY <1>1, <1>3, <1>6, <1>12, <2>1 DEF New
    <3>2. ~(-1 \in RequestIds)
      BY Constants DEF RequestIds
    <3> QED BY <3>1, <3>2
  <2>2. CASE ~New(r)
    <3>1. request_id'[r] = request_id[r]
      BY <1>2, <2>2
    <3>2. r > a <=> r > NumAdmitted'
      BY <1>1, <2>2 DEF New
    <3> QED BY <1>14, <3>1, <3>2
  <2> QED BY <2>1, <2>2
<1>21. IdsTell'
  BY <1>16, <1>17, <1>18, <1>19, <1>20, Zenon DEF IdsTell
<1>22. \A r \in Flying' : ~(r \in Flying) => request_id'[r] \in Elements(available_ids)
  BY <1>11, <1>15, Zenon
<1> QED BY <1>5, <1>8, <1>9, <1>10, <1>21, <1>22, Zenon

(* The batch joins the running requests; it has no tokens yet, and ids     *)
(* that were available.                                                    *)
Joins(batch) ==
  /\ batch \in Seq(Requests) /\ IsInjective(batch)
  /\ Running \cap Elements(batch) = {} /\ Swapped = {}
  /\ Running' = Running \cup Elements(batch) /\ Swapped' = {}
  /\ \A r \in Elements(batch) : num_outputs[r] = 0 /\ request_id'[r] \in Elements(available_ids)
  /\ \A r \in Running : request_id'[r] = request_id[r]

(* Admitting takes the head of waiting_q. *)
LEMMA PrefillKept ==
  ASSUME IInv, stage = "schedule", OutsideSchedulerUnchanged, swapped_q = <<>>,
         NEW n \in 0 .. Len(waiting_q), Len(running_q) + n <= MaxBatchSize,
         PrefillBatch(n), Start(First(waiting_q, n), <<>>, <<>>)
  PROVE  QueueSide' /\ DevicesTell' /\ Joins(First(waiting_q, n))
<1> DEFINE batch == First(waiting_q, n)
           New(r) == r > NumAdmitted /\ r <= NumAdmitted + n
<1>1. QueueTypes /\ PendingInOrder /\ FlightTells /\ IdsTell /\ DevicesTell
  BY Zenon DEF IInv, QueueSide
<1>2. /\ running_q \in Seq(Requests) /\ waiting_q \in Seq(Requests) /\ Len(running_q) \in Nat
      /\ IsInjective(running_q) /\ Requests \subseteq Int /\ n \in Nat /\ Len(waiting_q) \in Nat
      /\ num_decoding_gpu_blocks \in Nat
  BY <1>1, Constants DEF QueueTypes, FlightTells, Requests
<1>3. /\ HandOutIds(batch) /\ waiting_q' = Rest(waiting_q, n) /\ running_q' = running_q \o batch
      /\ num_decoding_gpu_blocks' = num_decoding_gpu_blocks + BlocksOf(batch)
      /\ swapped_q' = <<>>
  BY Zenon DEF PrefillBatch
<1>4. /\ prompt_len' = prompt_len /\ output_len' = output_len /\ num_outputs' = num_outputs
      /\ untokenized' = untokenized /\ tokenizing' = tokenizing /\ arrived' = arrived
      /\ faults' = faults /\ gpu_table' = gpu_table /\ cpu_table' = cpu_table
      /\ \A r : IsFinished(r)' <=> IsFinished(r)
  BY <1>1, SchedulerKeepsTypes
<1>5. /\ PendingInOrder' /\ NumAdmitted \in Nat
      /\ NumAdmitted' = NumAdmitted + n /\ NumAdmitted + n <= NumRequests
      /\ \A i \in 1 .. n : waiting_q[i] = NumAdmitted + i
  BY <1>1, <1>3, <1>4, PendingAdvances, Zenon
<1>6. /\ Handed(n)
      /\ \A r \in Requests : r \in Elements(batch) <=> New(r)
      /\ IsInjective(batch) /\ batch \in Seq(Requests) /\ Len(batch) = n
  BY <1>1, <1>3, <1>5, HandedOut, Zenon
<1> HIDE DEF batch
<1>7. n <= Len(available_ids)
  <2>1. MaxSeqs <= Len(available_ids) + Len(running_q)
    BY <1>1, EnoughIds, Zenon
  <2>2. Len(available_ids) \in Nat
    BY <1>1 DEF QueueTypes
  <2> QED BY <1>2, <2>1, <2>2, Constants
<1>8. /\ Swapped = {} /\ Flying = Running /\ Running \subseteq Requests /\ Elements(batch) \subseteq Requests
  BY <1>2, <1>6 DEF Swapped, Flying, Running, Elements
<1>9. \A r \in Requests : r \in Running <=> r <= NumAdmitted /\ ~IsFinished(r)
  BY <1>8, AtSchedule, Zenon
<1>10. Elements(running_q) \cap Elements(batch) = {}
  <2>1. \A r \in Requests : ~(r <= NumAdmitted /\ New(r))
    BY <1>2, <1>5
  <2> QED BY <1>6, <1>8, <1>9, <2>1, Zenon DEF Running
<1>11. /\ running_q' \in Seq(Requests) /\ Elements(running_q') = Running \cup Elements(batch)
       /\ IsInjective(running_q')
  <2>1. /\ running_q \o batch \in Seq(Requests)
        /\ Elements(running_q \o batch) = Elements(running_q) \cup Elements(batch)
        /\ IsInjective(running_q \o batch)
    BY <1>2, <1>6, <1>10, ConcatList
  <2> QED BY <1>3, <2>1, Zenon DEF Running
<1>12. Len(running_q') = Len(running_q) + n
  BY <1>2, <1>3, <1>6, ConcatProperties, SMTT(30)
<1>13. Running' = Running \cup Elements(batch) /\ Swapped' = {} /\ Flying' = Running \cup Elements(batch)
  <2>1. Running' = Running \cup Elements(batch)
    BY <1>11, Zenon DEF Running
  <2>2. Swapped' = {}
    BY <1>3 DEF Swapped, Elements
  <2> QED BY <2>1, <2>2 DEF Flying
<1>14. \A r \in Requests : r \in Flying' <=> r \in Flying \/ New(r)
  BY <1>6, <1>8, <1>13, Zenon
<1>15. /\ IdsTell' /\ available_ids' \in Seq(RequestIds) /\ request_id' \in [Requests -> RequestIds \cup {-1}]
       /\ Elements(available_ids') \subseteq Elements(available_ids)
       /\ \A r \in Flying : request_id'[r] = request_id[r]
       /\ \A r \in Flying' : ~(r \in Flying) => request_id'[r] \in Elements(available_ids)
  <2>1. \A r \in Flying : r \in Requests /\ r <= NumAdmitted
    BY <1>8, <1>9, Zenon
  <2>2. Flying' \subseteq Requests
    BY <1>8, <1>13
  <2> QED BY <1>1, <1>2, <1>5, <1>6, <1>7, <1>14, <2>1, <2>2, HandedIdsTell, Zenon
<1>16. <<>> \in Seq(Requests) /\ Elements(<<>>) = {}
  BY DEF Elements
<1>17. /\ cur_batch' = batch /\ cur_swap_in' = <<>> /\ cur_swap_out' = <<>>
       /\ stage' \in {"forward", "schedule"} /\ stage' \in Stages
  <2>1. Start(batch, <<>>, <<>>)
    BY DEF batch
  <2> QED BY <1>6, <1>16, <2>1, Started
<1>18. QueueTypes'
  <2>1. BlocksOf(batch) \in Nat
    BY <1>1, <1>6, BlocksOfNat, Zenon
  <2>2. Rest(waiting_q, n) \in Seq(Requests)
    BY <1>2, FirstAndRest, Zenon
  <2>3. num_decoding_gpu_blocks' \in Nat
    BY <1>2, <1>3, <2>1
  <2>4. /\ waiting_q' \in Seq(Requests) /\ swapped_q' \in Seq(Requests) /\ cur_batch' \in Seq(Requests)
        /\ cur_swap_in' \in Seq(Requests) /\ cur_swap_out' \in Seq(Requests)
    BY <1>3, <1>6, <1>16, <1>17, <2>2, Zenon
  <2> QED BY <1>1, <1>4, <1>11, <1>15, <1>17, <2>3, <2>4, Zenon DEF QueueTypes
<1>19. FlightTells'
  <2>1. \A r \in Requests : num_outputs[r] <= output_len[r] /\ (r > NumAdmitted => num_outputs[r] = 0)
    BY <1>1, Zenon DEF FlightTells
  <2>2. \A r \in Requests : num_outputs[r] = 0 => ~IsFinished(r)
    BY <1>1, Constants DEF QueueTypes, IsFinished
  <2>3. \A r \in Requests : r \in Flying' <=> r <= NumAdmitted' /\ ~IsFinished(r)
    <3> TAKE r \in Requests
    <3>1. r \in Int /\ NumAdmitted \in Nat /\ n \in Nat
      BY <1>2, <1>5
    <3>2. CASE New(r)
      BY <1>5, <1>14, <2>1, <2>2, <3>1, <3>2
    <3>3. CASE ~New(r)
      <4>1. r <= NumAdmitted' <=> r <= NumAdmitted
        BY <1>5, <3>1, <3>3
      <4> QED BY <1>8, <1>9, <1>14, <3>3, <4>1, Zenon
    <3> QED BY <3>2, <3>3
  <2>4. \A r \in Requests : r > NumAdmitted' => r > NumAdmitted
    BY <1>2, <1>5
  <2>5. \A r \in Requests :
          /\ r \in Flying' <=> r <= NumAdmitted' /\ (IsFinished(r)' => stage' = "finish" /\ r \in Elements(cur_batch'))
          /\ num_outputs'[r] <= output_len'[r]
          /\ r > NumAdmitted' => num_outputs'[r] = 0
    BY <1>4, <1>17, <2>1, <2>3, <2>4
  <2>6. IsInjective(swapped_q')
    BY <1>3 DEF IsInjective
  <2>7. Len(running_q') <= MaxBatchSize /\ Running' \cap Swapped' = {}
    BY <1>12, <1>13
  <2> QED BY <1>11, <2>5, <2>6, <2>7, Zenon DEF FlightTells
<1>20. BatchTells'
  BY <1>6, <1>13, <1>17 DEF BatchTells, Planned
<1>21. DevicesTell'
  <2>1. \A r \in Flying' : r \in Running'
    BY <1>13
  <2>2. \A r \in Flying' : OnGpuNow(r)'
    BY <1>17, <2>1 DEF OnGpuNow
  <2>3. \A id \in Elements(available_ids) : gpu_table[id] = <<>> /\ cpu_table[id] = <<>>
    BY <1>1, Zenon DEF DevicesTell
  <2>4. \A r \in Flying : cpu_table[request_id[r]] = <<>>
    BY <1>8, AtSchedule, Zenon
  <2>5. \A r \in Flying' : cpu_table'[request_id'[r]] = <<>>
    <3> TAKE r \in Flying'
    <3>1. CASE r \in Flying
      BY <1>4, <1>15, <2>4, <3>1, Zenon
    <3>2. CASE ~(r \in Flying)
      BY <1>4, <1>15, <2>3, <3>2, Zenon
    <3> QED BY <3>1, <3>2
  <2>6. \A id \in Elements(available_ids') : gpu_table'[id] = <<>> /\ cpu_table'[id] = <<>>
    BY <1>4, <1>15, <2>3
  <2> QED BY <2>2, <2>5, <2>6, Zenon DEF DevicesTell
<1>22. Joins(batch)
  <2>1. \A r \in Requests : r > NumAdmitted => num_outputs[r] = 0
    BY <1>1, Zenon DEF FlightTells
  <2>2. \A r \in Elements(batch) : r \in Requests /\ r > NumAdmitted /\ r \in Flying' /\ ~(r \in Flying)
    BY <1>6, <1>8, <1>10, <1>13, Zenon DEF Running
  <2>3. \A r \in Elements(batch) : num_outputs[r] = 0 /\ request_id'[r] \in Elements(available_ids)
    BY <1>15, <2>1, <2>2, Zenon
  <2>4. Running \cap Elements(batch) = {}
    BY <1>10, Zenon DEF Running
  <2>5. \A r \in Running : request_id'[r] = request_id[r]
    BY <1>8, <1>15, Zenon
  <2> QED BY <1>6, <1>8, <1>13, <2>3, <2>4, <2>5, Zenon DEF Joins
<1> QED BY <1>5, <1>15, <1>18, <1>19, <1>20, <1>21, <1>22, Zenon DEF QueueSide, batch

-----------------------------------------------------------------------------
(* The scheduling steps, with what they do to the layers.                  *)

LEMMA ScheduledKeeps ==
  ASSUME IInv, OutsideSchedulerUnchanged, QueueSide', DevicesTell',
         LayerSide', GpuTells', gpu_kv' \in [1 .. MaxGpuBlocks -> KvContents]
  PROVE  IInv'
<1>1. /\ cpu_free' = cpu_free /\ cpu_num_free' = cpu_num_free /\ cpu_table' = cpu_table /\ cpu_kv' = cpu_kv
  BY DEF OutsideSchedulerUnchanged, cpuVars
<1>2. CpuTells' /\ KvSide'
  BY <1>1 DEF IInv, CpuTells, CpuPool, KvSide
<1> QED BY <1>2, Zenon DEF IInv

LEMMA ReplacingKeeps ==
  ASSUME IInv, OutsideSchedulerUnchanged, QueueSide', DevicesTell',
         NEW n \in Nat, n <= next_unquantized_layer + 1, ReplaceLayers(n)
  PROVE  IInv'
<1>1. gpu_table' = gpu_table /\ LayerSide /\ GpuTells /\ KvSide
  BY Zenon DEF OutsideSchedulerUnchanged, IInv
<1> QED BY <1>1, LayersReplaced, ScheduledKeeps, Zenon

LEMMA RestoringKeeps ==
  ASSUME IInv, OutsideSchedulerUnchanged, QueueSide', DevicesTell',
         NEW w, RestoreLayers(Restorable(w))
  PROVE  IInv'
<1>1. gpu_table' = gpu_table /\ LayerSide /\ GpuTells /\ KvSide
  BY Zenon DEF OutsideSchedulerUnchanged, IInv
<1>2. /\ Restorable(w) \in 0 .. Len(layer_quant_list)
      /\ \A i \in 1 .. Restorable(w) : KvCacheUnused(Len(k_cache_new) - i + 1)
  BY <1>1, RestorableUnused, Zenon
<1>3. LayerSide' /\ GpuTells' /\ gpu_kv' = gpu_kv
  BY <1>1, <1>2, LayersRestored, Zenon
<1> QED BY <1>1, <1>3, ScheduledKeeps, Zenon DEF KvSide

(* An admission stays within a batch. *)
LEMMA AdmissionBounds ==
  ASSUME QueueTypes, FlightTells, NEW pool
  PROVE  AdmissibleIn(pool) \in 0 .. Len(waiting_q) /\ Len(running_q) + AdmissibleIn(pool) <= MaxBatchSize
<1> DEFINE n == AdmissibleIn(pool)
<1>1. n \in 0 .. Len(waiting_q) /\ \A k \in 1 .. n : WithinLimits(k)
  BY AdmissibleBounds, Zenon
<1>2. Len(running_q) \in Nat /\ Len(running_q) <= MaxBatchSize
  BY DEF QueueTypes, FlightTells
<1> HIDE DEF n
<1>3. n \in 1 .. n \/ n = 0
  BY <1>1
<1>4. n \in 1 .. n => Len(running_q) + n <= MaxBatchSize
  BY <1>1, Zenon DEF WithinLimits
<1> QED BY <1>1, <1>2, <1>3, <1>4 DEF n

LEMMA SchedulePrefillKeeps == ASSUME IInv, SchedulePrefill PROVE IInv'
<1>1. QueueTypes /\ FlightTells
  BY Zenon DEF IInv, QueueSide
<1>2. /\ stage = "schedule" /\ PrefillBatch(Admissible) /\ OutsideSchedulerUnchanged
      /\ Start(First(waiting_q, Admissible), <<>>, <<>>)
      /\ RestoreLayers(Restorable(Rest(waiting_q, Admissible)))
  BY Zenon DEF SchedulePrefill
<1>3. swapped_q = <<>> /\ Admissible = AdmissibleIn(num_gpu_blocks)
  BY DEF SchedulePrefill, Admissible
<1>4. Admissible \in 0 .. Len(waiting_q) /\ Len(running_q) + Admissible <= MaxBatchSize
  BY <1>1, <1>3, AdmissionBounds, Zenon
<1>5. QueueSide' /\ DevicesTell'
  BY <1>2, <1>3, <1>4, PrefillKept, Zenon
<1> QED BY <1>2, <1>5, RestoringKeeps, Zenon

LEMMA ScheduleReplacingKeeps == ASSUME IInv, ScheduleReplacing PROVE IInv'
<1> DEFINE n == AdmissibleIn(PoolWith(NumLayersToQuantize))
<1>1. QueueTypes /\ FlightTells /\ LayerSide
  BY Zenon DEF IInv, QueueSide
<1>2. /\ stage = "schedule" /\ PrefillBatch(n) /\ OutsideSchedulerUnchanged
      /\ Start(First(waiting_q, n), <<>>, <<>>)
      /\ ReplaceLayers(NumLayersToQuantize) /\ AdmitsByReplacing /\ ~RunsOutOfLayers
  BY Zenon DEF ScheduleReplacing
<1>3. swapped_q = <<>>
  BY <1>2, Zenon DEF AdmitsByReplacing
<1>4. n \in 0 .. Len(waiting_q) /\ Len(running_q) + n <= MaxBatchSize
  BY <1>1, AdmissionBounds, Zenon
<1>5. QueueSide' /\ DevicesTell'
  BY <1>2, <1>3, <1>4, PrefillKept, Zenon
<1>6. NumLayersToQuantize \in Nat /\ NumLayersToQuantize <= next_unquantized_layer + 1
  <2>1. next_unquantized_layer \in Int
    BY <1>1, Constants DEF LayerSide, LayersTypeOK, Layers
  <2> QED BY <1>2, <2>1, Constants DEF RunsOutOfLayers
<1> QED BY <1>2, <1>5, <1>6, ReplacingKeeps, Zenon

LEMMA SchedulePreemptingKeeps == ASSUME IInv, SchedulePreempting PROVE IInv'
<1> DEFINE pool == PoolWith(ReplacedToDecode)
<1>1. LayerSide
  BY Zenon DEF IInv
<1>2. /\ stage = "schedule" /\ Kept(pool) < Len(running_q) /\ OutsideSchedulerUnchanged
      /\ PreemptBatch(pool) /\ Start(First(running_q, Kept(pool)), <<>>, NewlySwappedOut(pool))
      /\ ReplaceLayers(ReplacedToDecode) \/ RestoreLayers(Restorable(waiting_q))
  BY Zenon DEF SchedulePreempting, Decoding
<1>3. QueueSide' /\ DevicesTell'
  BY <1>2, PreemptKept, Zenon
<1>4. ReplacedToDecode \in Nat /\ ReplacedToDecode <= next_unquantized_layer + 1
  BY <1>1, ReplacedBounds, Zenon
<1> QED BY <1>2, <1>3, <1>4, ReplacingKeeps, RestoringKeeps, Zenon

LEMMA ScheduleDecodeKeeps == ASSUME IInv, ScheduleDecode PROVE IInv'
<1> DEFINE pool == PoolWith(ReplacedToDecode)
<1>1. LayerSide
  BY Zenon DEF IInv
<1>2. /\ stage = "schedule" /\ OutsideSchedulerUnchanged
      /\ DecodeBatch(pool) /\ Start(running_q', First(swapped_q, Returning(pool)), <<>>)
      /\ ReplaceLayers(ReplacedToDecode) \/ RestoreLayers(Restorable(waiting_q))
  BY Zenon DEF ScheduleDecode, Decoding
<1>3. QueueSide' /\ DevicesTell'
  BY <1>2, DecodeKept, Zenon
<1>4. ReplacedToDecode \in Nat /\ ReplacedToDecode <= next_unquantized_layer + 1
  BY <1>1, ReplacedBounds, Zenon
<1> QED BY <1>2, <1>3, <1>4, ReplacingKeeps, RestoringKeeps, Zenon

LEMMA ScheduleExitsKeeps == ASSUME IInv, ScheduleExits PROVE IInv'
<1>1. /\ LayerSide /\ QueueTypes /\ PendingInOrder /\ FlightTells /\ IdsTell /\ DevicesTell
      /\ KvSide /\ GpuTells /\ CpuTells
  BY Zenon DEF IInv, QueueSide
<1>2. /\ stage = "schedule" /\ stage' = "exited" /\ stage' \in Stages
      /\ UNCHANGED <<request_id, available_ids, waiting_q, running_q, swapped_q, num_decoding_gpu_blocks>>
      /\ UNCHANGED <<layer_quant_list, is_layer_quant_list, next_unquantized_layer, k_cache_new,
                     num_gpu_blocks, upset, gpu_free, gpu_num_free, gpu_num_blocks, gpu_kv>>
      /\ UNCHANGED <<cur_batch, cur_swap_in, cur_swap_out>> /\ OutsideSchedulerUnchanged
  BY DEF ScheduleExits, Stages, idVars, queueVars, planVars, layerVars, batchVars
<1>3. gpu_table' = gpu_table
  BY <1>2, Zenon DEF OutsideSchedulerUnchanged
<1>4. LayerSide'
  BY <1>1, <1>2 DEF LayerSide, LayersTypeOK, LayersTell
<1>5. GpuTells' /\ gpu_kv' \in [1 .. MaxGpuBlocks -> KvContents]
  BY <1>1, <1>2, <1>3 DEF GpuTells, GpuPool, KvSide
<1>6. Running' = Running /\ Swapped' = Swapped /\ Flying = Running \cup Swapped
  BY <1>2 DEF Running, Swapped, Flying
<1>7. BatchTells' /\ \A r : OnGpuNow(r)' <=> r \in Running
  BY <1>2, <1>6 DEF BatchTells, Planned, OnGpuNow
<1>8. QueueSide' /\ DevicesTell'
  <2>1. /\ running_q' \in Seq(Requests) /\ swapped_q' \in Seq(Requests) /\ num_decoding_gpu_blocks' \in Nat
        /\ cur_batch' \in Seq(Requests) /\ cur_swap_in' \in Seq(Requests) /\ cur_swap_out' \in Seq(Requests)
    BY <1>1, <1>2 DEF QueueTypes
  <2>2. /\ IsInjective(running_q') /\ IsInjective(swapped_q') /\ Len(running_q') <= MaxBatchSize
        /\ Elements(running_q') \cap Elements(swapped_q') = {}
        /\ Elements(running_q') \cup Elements(swapped_q') = Flying
    BY <1>1, <1>2 DEF FlightTells, Running, Swapped, Flying
  <2>3. UNCHANGED <<waiting_q, idVars>> /\ stage' # "finish"
    BY <1>2 DEF idVars
  <2> QED BY <1>2, <1>7, <2>1, <2>2, <2>3, FlightMoved
<1> QED BY <1>2, <1>4, <1>5, <1>8, ScheduledKeeps, Zenon

-----------------------------------------------------------------------------
(* Swapping moves the rows of some ids from one table to the other.        *)

LEMMA FlyingIds ==
  ASSUME QueueTypes, IdsTell, NEW q \in Seq(Requests), IsInjective(q), Elements(q) \subseteq Flying
  PROVE  /\ IdsOf(q) \in Seq(RequestIds) /\ IsInjective(IdsOf(q))
         /\ DOMAIN IdsOf(q) = DOMAIN q /\ \A i \in DOMAIN q : IdsOf(q)[i] = request_id[q[i]]
         /\ Elements(IdsOf(q)) = {request_id[r] : r \in Elements(q)}
         /\ \A r \in Flying : request_id[r] \in Elements(IdsOf(q)) <=> r \in Elements(q)
         /\ \A id \in Elements(available_ids) : ~(id \in Elements(IdsOf(q)))
<1>1. /\ \A r \in Flying : request_id[r] \in RequestIds /\ ~(request_id[r] \in Elements(available_ids))
      /\ \A r, s \in Flying : request_id[r] = request_id[s] => r = s
  BY DEF IdsTell
<1>2. \A x \in Elements(q) : request_id[x] \in RequestIds
  BY <1>1
<1>3. /\ IdsOf(q) \in Seq(RequestIds) /\ DOMAIN IdsOf(q) = DOMAIN q
      /\ \A i \in DOMAIN q : IdsOf(q)[i] = request_id[q[i]]
      /\ Elements(IdsOf(q)) = {request_id[r] : r \in Elements(q)}
  <2> DEFINE m == Map(q, request_id)
  <2>1. m \in Seq(RequestIds) /\ DOMAIN m = DOMAIN q
    BY <1>2, MapList
  <2>2. \A i \in DOMAIN q : m[i] = request_id[q[i]]
    BY DEF Map
  <2> HIDE DEF m
  <2>3. Elements(m) = {request_id[r] : r \in Elements(q)}
    BY <2>1, <2>2 DEF Elements
  <2> QED BY <2>1, <2>2, <2>3, Zenon DEF IdsOf, m
<1>4. IsInjective(IdsOf(q))
  <2>1. \A x, y \in Elements(q) : request_id[x] = request_id[y] => x = y
    BY <1>1
  <2> QED BY <2>1, MapInjective, Zenon DEF IdsOf
<1>5. \A r \in Flying : request_id[r] \in Elements(IdsOf(q)) <=> r \in Elements(q)
  BY <1>1, <1>3
<1>6. \A id \in Elements(available_ids) : ~(id \in Elements(IdsOf(q)))
  BY <1>1, <1>3
<1> QED BY <1>3, <1>4, <1>5, <1>6, Zenon

(* Who is planned is in flight. *)
LEMMA BatchFlies ==
  ASSUME QueueSide
  PROVE  /\ Planned \/ stage = "finish" =>
              cur_batch \in Seq(Requests) /\ IsInjective(cur_batch) /\ Elements(cur_batch) \subseteq Flying
         /\ stage = "swap_out" =>
              cur_swap_out \in Seq(Requests) /\ IsInjective(cur_swap_out) /\ Elements(cur_swap_out) \subseteq Flying
         /\ stage = "swap_in" =>
              cur_swap_in \in Seq(Requests) /\ IsInjective(cur_swap_in) /\ Elements(cur_swap_in) \subseteq Flying
<1>1. /\ cur_batch \in Seq(Requests) /\ cur_swap_out \in Seq(Requests) /\ cur_swap_in \in Seq(Requests)
  BY DEF QueueSide, QueueTypes
<1> QED BY <1>1 DEF QueueSide, BatchTells, Flying

LEMMA CopiedTyped ==
  ASSUME NEW A, NEW B, NEW C, NEW from \in [A -> C], NEW to \in [B -> C],
         NEW src \in Seq(A), NEW dst, DOMAIN dst = 1 .. Len(src), Len(dst) = Len(src)
  PROVE  Copied(src, dst, from, to) \in [B -> C]
<1>1. ASSUME NEW b \in B, Contains(dst, b)
      PROVE  from[src[CHOOSE i \in DOMAIN dst : dst[i] = b]] \in C
  <2>1. \E i \in DOMAIN dst : dst[i] = b
    BY <1>1 DEF Contains
  <2> DEFINE j == CHOOSE i \in DOMAIN dst : dst[i] = b
  <2>2. j \in DOMAIN dst
    BY <2>1, Zenon
  <2> HIDE DEF j
  <2>3. src[j] \in A
    BY <2>2
  <2> QED BY <2>3 DEF j
<1>2. \A b \in B : (IF Contains(dst, b) THEN from[src[CHOOSE i \in DOMAIN dst : dst[i] = b]] ELSE to[b]) \in C
  <2> TAKE b \in B
  <2>1. to[b] \in C
    OBVIOUS
  <2> QED BY <1>1, <2>1, Zenon
<1>3. DOMAIN to = B
  OBVIOUS
<1>4. Copied(src, dst, from, to) = [b \in B |->
         IF Contains(dst, b) THEN from[src[CHOOSE i \in DOMAIN dst : dst[i] = b]] ELSE to[b]]
  BY <1>3, Zenon DEF Copied
<1> QED BY <1>2, <1>4, Zenon

LEMMA SelectedShape ==
  ASSUME NEW free, NEW n \in Nat
  PROVE  DOMAIN SelectedFrom(free, n) = 1 .. n /\ Len(SelectedFrom(free, n)) = n
<1> DEFINE f == SelectedFrom(free, n)
           X == {f[i] : i \in 1 .. n}
           g(i) == CHOOSE b \in free : Cardinality({c \in free : c <= b}) = i
<1>0. f = [i \in 1 .. n |-> g(i)]
  BY Zenon DEF SelectedFrom
<1> HIDE DEF f, g
<1>1. DOMAIN f = 1 .. n /\ f = [i \in 1 .. n |-> f[i]]
  BY <1>0
<1>2. f \in [1 .. n -> X]
  BY <1>1
<1> HIDE DEF X
<1>3. Len(f) = n
  BY <1>2, FunctionList, Zenon
<1> QED BY <1>1, <1>3 DEF f

(* What a step of the model leaves alone, when no pass is over. *)
LEMMA ModelStep ==
  ASSUME IInv, OutsideModelUnchanged, num_outputs' = num_outputs, stage # "finish", stage' # "finish",
         faults' \in 0 .. ForwardFaults, upset' \in {"none", "batch", "engine"}, stage' \in Stages,
         cur_batch' \in Seq(Requests), cur_swap_in' \in Seq(Requests), cur_swap_out' \in Seq(Requests),
         BatchTells', DevicesTell', GpuTells', CpuTells', KvSide'
  PROVE  IInv'
<1>1. LayerSide /\ QueueTypes /\ PendingInOrder /\ FlightTells /\ IdsTell
  BY Zenon DEF IInv, QueueSide
<1>2. /\ UNCHANGED <<prompt_len, output_len, request_id, available_ids,
                     waiting_q, running_q, swapped_q, num_decoding_gpu_blocks>>
      /\ UNCHANGED <<untokenized, tokenizing, arrived, layer_quant_list, is_layer_quant_list,
                     next_unquantized_layer, k_cache_new, num_gpu_blocks, gpu_num_blocks>>
  BY DEF OutsideModelUnchanged, requestVars, idVars, queueVars, arrivalVars, layerVars
<1>3. LayerSide'
  BY <1>1, <1>2 DEF LayerSide, LayersTypeOK, LayersTell
<1>4. QueueTypes'
  BY <1>1, <1>2 DEF QueueTypes
<1>5. /\ Flying' = Flying /\ Running' = Running /\ Swapped' = Swapped
      /\ Pending' = Pending /\ NumAdmitted' = NumAdmitted
  BY <1>2 DEF Flying, Running, Swapped, Pending, NumAdmitted
<1>6. PendingInOrder' /\ IdsTell'
  BY <1>1, <1>2, <1>5 DEF PendingInOrder, IdsTell
<1>7. FlightTells'
  <2>1. \A r : IsFinished(r)' <=> IsFinished(r)
    BY <1>2 DEF IsFinished
  <2> QED BY <1>1, <1>2, <1>5, <2>1 DEF FlightTells
<1> QED BY <1>3, <1>4, <1>6, <1>7, Zenon DEF IInv, QueueSide

(* Rows are moved with all their blocks, unless the iteration raises.      *)
Carried(q, from, to, from2, to2) ==
  \A r \in Flying :
    IF r \in Elements(q) THEN Len(to2[request_id[r]]) = Len(from[request_id[r]])
    ELSE from2[request_id[r]] = from[request_id[r]] /\ to2[request_id[r]] = to[request_id[r]]
ForwardNext == stage' = "forward" /\ cur_batch' = cur_batch /\ upset' = upset

LEMMA SwapOutKeeps ==
  ASSUME IInv, SwapOut
  PROVE  /\ IInv'
         /\ upset' # "engine" =>
              ForwardNext /\ Carried(cur_swap_out, gpu_table, cpu_table, gpu_table', cpu_table')
<1> DEFINE q == cur_swap_out
           ids == IdsOf(q)
           src == GPU!Gathered(ids)
           dst == CPU!Selected(Len(src))
           targets == GPU!Lengths(ids)
<1>1. /\ QueueTypes /\ IdsTell /\ BatchTells /\ DevicesTell /\ GpuTells /\ CpuTells /\ KvSide /\ QueueSide
      /\ FlightTells /\ LayerSide
  BY Zenon DEF IInv, QueueSide
<1>2. /\ stage = "swap_out" /\ GPU!FreeForSeqs(ids) /\ OutsideModelUnchanged
      /\ gpu_kv' = gpu_kv /\ num_outputs' = num_outputs /\ faults' = faults
      /\ \/ /\ CPU!EnoughFree(ids, targets) /\ CPU!AllocateForSeqs(ids, targets)
         \/ cpu_free' = cpu_free /\ cpu_num_free' = cpu_num_free /\ cpu_table' = cpu_table
      /\ \/ /\ cpu_kv' = Copied(src, dst, gpu_kv, cpu_kv) /\ stage' = "forward"
            /\ UNCHANGED <<cur_batch, cur_swap_in, cur_swap_out, upset>>
         \/ IterationRaises /\ cpu_kv' = cpu_kv
      /\ upset' # "engine" =>
           ForwardNext /\ CPU!EnoughFree(ids, targets) /\ CPU!AllocateForSeqs(ids, targets)
  BY DEF SwapOut, batchVars, IterationRaises, ForwardNext
<1>3. /\ ids \in Seq(RequestIds) /\ IsInjective(ids)
      /\ DOMAIN ids = DOMAIN q /\ \A i \in DOMAIN q : ids[i] = request_id[q[i]]
      /\ \A r \in Flying : request_id[r] \in Elements(ids) <=> r \in Elements(q)
      /\ \A id \in Elements(available_ids) : ~(id \in Elements(ids))
      /\ Elements(q) \subseteq Flying
  BY <1>1, <1>2, BatchFlies, FlyingIds
<1> HIDE DEF ids
<1>4. /\ GpuTells' /\ src \in Seq(1 .. MaxGpuBlocks)
      /\ \A s \in RequestIds : gpu_table'[s] = IF s \in Elements(ids) THEN <<>> ELSE gpu_table[s]
  <2>1. gpu_num_blocks' = gpu_num_blocks
    BY <1>2 DEF OutsideModelUnchanged
  <2>2. GpuPool(1 .. gpu_num_blocks)
    BY <1>1 DEF GpuTells
  <2>3. ASSUME NEW pool, pool = 1 .. gpu_num_blocks
        PROVE  /\ GpuPool(pool)' /\ src \in Seq(1 .. MaxGpuBlocks)
               /\ \A s \in RequestIds : gpu_table'[s] = IF s \in Elements(ids) THEN <<>> ELSE gpu_table[s]
    <3>1. GpuPool(pool)
      BY <2>2, <2>3, Zenon
    <3> QED BY <1>2, <1>3, <3>1, GpuReleases, Zenon
  <2> HIDE DEF src
  <2>4. \A pool : pool = 1 .. gpu_num_blocks' => GpuPool(pool)'
    BY <2>1, <2>3
  <2> QED BY <2>3, <2>4, Zenon DEF GpuTells
<1>5. \A i \in DOMAIN ids : /\ targets[i] \in Nat /\ cpu_table[ids[i]] = <<>>
                             /\ targets[i] = Len(gpu_table[ids[i]])
  <2>1. targets = RowLengths(gpu_table, ids)
    BY GpuGathered, Zenon
  <2>2. gpu_table \in [RequestIds -> Seq(1 .. MaxGpuBlocks)]
    BY <1>1 DEF GpuTells, GpuPool, DeviceTells
  <2> TAKE i \in DOMAIN ids
  <2>3. ids[i] \in RequestIds /\ ids[i] = request_id[q[i]] /\ q[i] \in Elements(q)
    BY <1>3, ElementsOf
  <2>4. OnGpuNow(q[i]) /\ q[i] \in Flying
    BY <1>2, <1>3, <2>3 DEF OnGpuNow
  <2>5. cpu_table[ids[i]] = <<>>
    BY <1>1, <2>3, <2>4, Zenon DEF DevicesTell
  <2>6. targets[i] = Len(gpu_table[ids[i]])
    BY <2>1, Zenon DEF RowLengths
  <2> HIDE DEF targets
  <2>7. Len(gpu_table[ids[i]]) \in Nat
    BY <2>2, <2>3
  <2> QED BY <2>5, <2>6, <2>7
<1>6. /\ CpuTells'
      /\ \A s \in RequestIds : ~(s \in Elements(ids)) => cpu_table'[s] = cpu_table[s]
      /\ upset' # "engine" => \A i \in DOMAIN ids : Len(cpu_table'[ids[i]]) = targets[i]
  <2>1. CASE CPU!EnoughFree(ids, targets) /\ CPU!AllocateForSeqs(ids, targets)
    <3>1. CpuPool(1 .. NumCpuBlocks)
      BY <1>1 DEF CpuTells
    <3> HIDE DEF targets
    <3>2. \A i \in DOMAIN ids : targets[i] \in Nat /\ Len(cpu_table[ids[i]]) <= targets[i]
      BY <1>5
    <3>3. /\ CpuPool(1 .. NumCpuBlocks)'
          /\ \A s \in RequestIds : ~(s \in Elements(ids)) => cpu_table'[s] = cpu_table[s]
          /\ \A i \in DOMAIN ids : Len(cpu_table'[ids[i]]) = targets[i]
      BY <1>3, <2>1, <3>1, <3>2, CpuAllocates, SMTT(60)
    <3> QED BY <3>3, Zenon DEF CpuTells
  <2>2. CASE /\ cpu_free' = cpu_free /\ cpu_num_free' = cpu_num_free /\ cpu_table' = cpu_table
             /\ ~(CPU!EnoughFree(ids, targets) /\ CPU!AllocateForSeqs(ids, targets))
    <3> HIDE DEF targets
    <3> QED BY <1>1, <1>2, <2>2 DEF CpuTells, CpuPool
  <2> QED BY <1>2, <2>1, <2>2, Zenon
<1>7. KvSide'
  <2>1. Len(src) \in Nat
    BY <1>4
  <2>2. DOMAIN dst = 1 .. Len(src) /\ Len(dst) = Len(src)
    BY <2>1, CpuSelected, SelectedShape, Zenon
  <2> HIDE DEF src, dst
  <2>3. /\ gpu_kv \in [1 .. MaxGpuBlocks -> KvContents] /\ cpu_kv \in [1 .. NumCpuBlocks -> KvContents]
    BY <1>1, Zenon DEF KvSide
  <2>4. Copied(src, dst, gpu_kv, cpu_kv) \in [1 .. NumCpuBlocks -> KvContents]
    BY <1>4, <2>2, <2>3, CopiedTyped, Zenon
  <2> QED BY <1>2, <2>3, <2>4, Zenon DEF KvSide
<1>8. stage' \in {"forward", "schedule"} /\ stage' \in Stages /\ upset' \in {"none", "batch", "engine"}
      /\ (stage' = "forward" => cur_batch' = cur_batch)
      /\ cur_batch' \in Seq(Requests) /\ cur_swap_in' \in Seq(Requests) /\ cur_swap_out' \in Seq(Requests)
  <2>1. /\ cur_batch \in Seq(Requests) /\ cur_swap_in \in Seq(Requests) /\ cur_swap_out \in Seq(Requests)
        /\ <<>> \in Seq(Requests) /\ upset \in {"none", "batch", "engine"}
    BY <1>1 DEF LayerSide, QueueTypes
  <2>2. CASE stage' = "forward" /\ UNCHANGED <<cur_batch, cur_swap_in, cur_swap_out, upset>>
    BY <2>1, <2>2 DEF Stages
  <2>3. CASE IterationRaises
    BY <2>1, <2>3 DEF IterationRaises, EndIteration, Stages
  <2> QED BY <1>2, <2>2, <2>3, Zenon
<1>9. /\ Flying' = Flying /\ Running' = Running /\ Swapped' = Swapped
      /\ request_id' = request_id /\ available_ids' = available_ids
  BY <1>2 DEF OutsideModelUnchanged, idVars, queueVars, Flying, Running, Swapped
<1>10. BatchTells'
  BY <1>1, <1>2, <1>8, <1>9 DEF BatchTells, Planned
<1>11. DevicesTell'
  <2>1. \A r : OnGpuNow(r)' <=> r \in Running
    BY <1>8, <1>9 DEF OnGpuNow
  <2>2. \A id \in Elements(available_ids) :
          id \in RequestIds /\ ~(id \in Elements(ids)) /\ gpu_table[id] = <<>> /\ cpu_table[id] = <<>>
    <3>1. \A id \in Elements(available_ids) : id \in RequestIds
      BY <1>1 DEF QueueTypes, Elements
    <3> QED BY <1>1, <1>3, <3>1, Zenon DEF DevicesTell
  <2>3. \A id \in Elements(available_ids') : gpu_table'[id] = <<>> /\ cpu_table'[id] = <<>>
    BY <1>4, <1>6, <1>9, <2>2, Zenon
  <2>4. \A r \in Flying : request_id[r] \in RequestIds
    BY <1>1 DEF IdsTell
  <2>5. \A r \in Flying : r \in Running => ~(r \in Elements(q)) /\ cpu_table[request_id[r]] = <<>>
    BY <1>1, <1>2 DEF DevicesTell, OnGpuNow, BatchTells, FlightTells
  <2>6. \A r \in Flying : ~(r \in Running) => r \in Elements(q) \/ gpu_table[request_id[r]] = <<>>
    BY <1>1, <1>2 DEF DevicesTell, OnGpuNow
  <2>7. \A r \in Flying : IF r \in Running THEN cpu_table'[request_id[r]] = <<>> ELSE gpu_table'[request_id[r]] = <<>>
    BY <1>3, <1>4, <1>6, <2>4, <2>5, <2>6
  <2> QED BY <1>9, <2>1, <2>3, <2>7 DEF DevicesTell
<1>12. faults' \in 0 .. ForwardFaults /\ stage # "finish" /\ stage' # "finish"
  BY <1>1, <1>2, <1>8 DEF QueueTypes
<1>13. IInv'
  BY <1>2, <1>4, <1>6, <1>7, <1>8, <1>10, <1>11, <1>12, ModelStep
<1>14. upset' # "engine" => Carried(q, gpu_table, cpu_table, gpu_table', cpu_table')
  <2> SUFFICES ASSUME upset' # "engine" PROVE Carried(q, gpu_table, cpu_table, gpu_table', cpu_table')
    OBVIOUS
  <2>1. ASSUME NEW r \in Flying, r \in Elements(q)
        PROVE  Len(cpu_table'[request_id[r]]) = Len(gpu_table[request_id[r]])
    <3>1. PICK i \in DOMAIN q : q[i] = r
      BY <2>1, ElementsOf
    <3>2. i \in DOMAIN ids /\ ids[i] = request_id[r]
      BY <1>3, <3>1
    <3> HIDE DEF targets
    <3> QED BY <1>5, <1>6, <3>2
  <2>2. ASSUME NEW r \in Flying, ~(r \in Elements(q))
        PROVE  gpu_table'[request_id[r]] = gpu_table[request_id[r]] /\ cpu_table'[request_id[r]] = cpu_table[request_id[r]]
    <3>1. request_id[r] \in RequestIds
      BY <1>1 DEF IdsTell
    <3> QED BY <1>3, <1>4, <1>6, <2>2, <3>1
  <2> QED BY <2>1, <2>2, Zenon DEF Carried
<1> QED BY <1>2, <1>13, <1>14, Zenon

(* The GPU blocks of some rows are allocated between two morphings. *)
LEMMA GpuAllocatesNow ==
  ASSUME GpuTells, gpu_num_blocks' = gpu_num_blocks, NEW ids \in Seq(RequestIds), IsInjective(ids),
         NEW targets, \A i \in DOMAIN ids : targets[i] \in Nat /\ Len(gpu_table[ids[i]]) <= targets[i],
         GPU!EnoughFree(ids, targets), GPU!AllocateForSeqs(ids, targets)
  PROVE  /\ GpuTells' /\ \A s \in RequestIds : ~(s \in Elements(ids)) => gpu_table'[s] = gpu_table[s]
         /\ \A i \in DOMAIN ids : Len(gpu_table'[ids[i]]) = targets[i]
<1>1. ASSUME NEW pool, pool = 1 .. gpu_num_blocks
      PROVE  /\ GpuPool(pool)'
             /\ \A s \in RequestIds : ~(s \in Elements(ids)) => gpu_table'[s] = gpu_table[s]
             /\ \A i \in DOMAIN ids : Len(gpu_table'[ids[i]]) = targets[i]
  <2>1. GpuPool(pool)
    BY <1>1, Zenon DEF GpuTells
  <2> QED BY <2>1, GpuAllocates, Zenon
<1>2. \A pool : pool = 1 .. gpu_num_blocks' => GpuPool(pool)'
  BY <1>1
<1> QED BY <1>1, <1>2, Zenon DEF GpuTells

LEMMA SwapInKeeps ==
  ASSUME IInv, SwapIn
  PROVE  /\ IInv'
         /\ upset' # "engine" =>
              ForwardNext /\ Carried(cur_swap_in, cpu_table, gpu_table, cpu_table', gpu_table')
<1> DEFINE q == cur_swap_in
           ids == IdsOf(q)
           src == CPU!Gathered(ids)
           dst == GPU!Selected(Len(src))
           targets == CPU!Lengths(ids)
<1>1. /\ QueueTypes /\ IdsTell /\ BatchTells /\ DevicesTell /\ GpuTells /\ CpuTells /\ KvSide /\ QueueSide
      /\ FlightTells /\ LayerSide
  BY Zenon DEF IInv, QueueSide
<1>2. /\ stage = "swap_in" /\ CPU!FreeForSeqs(ids) /\ OutsideModelUnchanged
      /\ cpu_kv' = cpu_kv /\ num_outputs' = num_outputs /\ faults' = faults
      /\ \/ /\ GPU!EnoughFree(ids, targets) /\ GPU!AllocateForSeqs(ids, targets)
         \/ gpu_free' = gpu_free /\ gpu_num_free' = gpu_num_free /\ gpu_table' = gpu_table
      /\ \/ /\ gpu_kv' = CopiedIn(src, dst) /\ stage' = "forward"
            /\ UNCHANGED <<cur_batch, cur_swap_in, cur_swap_out, upset>>
         \/ IterationRaises /\ gpu_kv' = gpu_kv
      /\ upset' # "engine" =>
           ForwardNext /\ GPU!EnoughFree(ids, targets) /\ GPU!AllocateForSeqs(ids, targets)
  BY DEF SwapIn, batchVars, IterationRaises, ForwardNext
<1>3. /\ ids \in Seq(RequestIds) /\ IsInjective(ids)
      /\ DOMAIN ids = DOMAIN q /\ \A i \in DOMAIN q : ids[i] = request_id[q[i]]
      /\ \A r \in Flying : request_id[r] \in Elements(ids) <=> r \in Elements(q)
      /\ \A id \in Elements(available_ids) : ~(id \in Elements(ids))
      /\ Elements(q) \subseteq Flying
  BY <1>1, <1>2, BatchFlies, FlyingIds
<1> HIDE DEF ids
<1>4. /\ CpuTells' /\ src \in Seq(1 .. NumCpuBlocks)
      /\ \A s \in RequestIds : cpu_table'[s] = IF s \in Elements(ids) THEN <<>> ELSE cpu_table[s]
  <2>1. CpuPool(1 .. NumCpuBlocks)
    BY <1>1 DEF CpuTells
  <2>2. /\ CpuPool(1 .. NumCpuBlocks)' /\ src \in Seq(1 .. NumCpuBlocks)
        /\ \A s \in RequestIds : cpu_table'[s] = IF s \in Elements(ids) THEN <<>> ELSE cpu_table[s]
    BY <1>2, <1>3, <2>1, CpuReleases, Zenon
  <2> QED BY <2>2, Zenon DEF CpuTells
<1>5. \A i \in DOMAIN ids : /\ targets[i] \in Nat /\ gpu_table[ids[i]] = <<>>
                             /\ targets[i] = Len(cpu_table[ids[i]])
  <2>1. targets = RowLengths(cpu_table, ids)
    BY CpuGathered, Zenon
  <2>2. cpu_table \in [RequestIds -> Seq(1 .. NumCpuBlocks)]
    BY <1>1 DEF CpuTells, CpuPool, DeviceTells
  <2> TAKE i \in DOMAIN ids
  <2>3. ids[i] \in RequestIds /\ ids[i] = request_id[q[i]] /\ q[i] \in Elements(q)
    BY <1>3, ElementsOf
  <2>4. ~OnGpuNow(q[i]) /\ q[i] \in Flying
    BY <1>2, <1>3, <2>3 DEF OnGpuNow
  <2>5. gpu_table[ids[i]] = <<>>
    BY <1>1, <2>3, <2>4, Zenon DEF DevicesTell
  <2>6. targets[i] = Len(cpu_table[ids[i]])
    BY <2>1, Zenon DEF RowLengths
  <2> HIDE DEF targets
  <2>7. Len(cpu_table[ids[i]]) \in Nat
    BY <2>2, <2>3
  <2> QED BY <2>5, <2>6, <2>7
<1>6. /\ GpuTells'
      /\ \A s \in RequestIds : ~(s \in Elements(ids)) => gpu_table'[s] = gpu_table[s]
      /\ upset' # "engine" => \A i \in DOMAIN ids : Len(gpu_table'[ids[i]]) = targets[i]
  <2>0. gpu_num_blocks' = gpu_num_blocks
    BY <1>2 DEF OutsideModelUnchanged
  <2>1. CASE GPU!EnoughFree(ids, targets) /\ GPU!AllocateForSeqs(ids, targets)
    <3> HIDE DEF targets
    <3>1. \A i \in DOMAIN ids : targets[i] \in Nat /\ Len(gpu_table[ids[i]]) <= targets[i]
      BY <1>5
    <3>2. /\ GpuTells' /\ \A s \in RequestIds : ~(s \in Elements(ids)) => gpu_table'[s] = gpu_table[s]
          /\ \A i \in DOMAIN ids : Len(gpu_table'[ids[i]]) = targets[i]
      BY <1>1, <1>3, <2>0, <2>1, <3>1, GpuAllocatesNow, SMTT(60)
    <3> QED BY <3>2, Zenon
  <2>2. CASE /\ gpu_free' = gpu_free /\ gpu_num_free' = gpu_num_free /\ gpu_table' = gpu_table
             /\ ~(GPU!EnoughFree(ids, targets) /\ GPU!AllocateForSeqs(ids, targets))
    <3> HIDE DEF targets
    <3> QED BY <1>1, <1>2, <2>0, <2>2 DEF GpuTells, GpuPool
  <2> QED BY <1>2, <2>1, <2>2, Zenon
<1>7. KvSide'
  <2>1. Len(src) \in Nat /\ DOMAIN src = 1 .. Len(src)
    BY <1>4
  <2>2. DOMAIN dst = 1 .. Len(src) /\ Len(dst) = Len(src)
    BY <2>1, GpuSelected, SelectedShape, Zenon
  <2> HIDE DEF src, dst
  <2>3. /\ gpu_kv \in [1 .. MaxGpuBlocks -> KvContents] /\ cpu_kv \in [1 .. NumCpuBlocks -> KvContents]
    BY <1>1, Zenon DEF KvSide
  <2>4. Copied(src, dst, cpu_kv, gpu_kv) \in [1 .. MaxGpuBlocks -> KvContents]
    BY <1>4, <2>2, <2>3, CopiedTyped, Zenon
  <2>5. Copied(src, src, cpu_kv, gpu_kv) \in [1 .. MaxGpuBlocks -> KvContents]
    BY <1>4, <2>1, <2>3, CopiedTyped, Zenon
  <2>6. CopiedIn(src, dst) \in [1 .. MaxGpuBlocks -> KvContents]
    BY <2>4, <2>5, Zenon DEF CopiedIn
  <2> QED BY <1>2, <2>3, <2>6, Zenon DEF KvSide
<1>8. stage' \in {"forward", "schedule"} /\ stage' \in Stages /\ upset' \in {"none", "batch", "engine"}
      /\ (stage' = "forward" => cur_batch' = cur_batch)
      /\ cur_batch' \in Seq(Requests) /\ cur_swap_in' \in Seq(Requests) /\ cur_swap_out' \in Seq(Requests)
  <2>1. /\ cur_batch \in Seq(Requests) /\ cur_swap_in \in Seq(Requests) /\ cur_swap_out \in Seq(Requests)
        /\ <<>> \in Seq(Requests) /\ upset \in {"none", "batch", "engine"}
    BY <1>1 DEF LayerSide, QueueTypes
  <2>2. CASE stage' = "forward" /\ UNCHANGED <<cur_batch, cur_swap_in, cur_swap_out, upset>>
    BY <2>1, <2>2 DEF Stages
  <2>3. CASE IterationRaises
    BY <2>1, <2>3 DEF IterationRaises, EndIteration, Stages
  <2> QED BY <1>2, <2>2, <2>3, Zenon
<1>9. /\ Flying' = Flying /\ Running' = Running /\ Swapped' = Swapped
      /\ request_id' = request_id /\ available_ids' = available_ids
  BY <1>2 DEF OutsideModelUnchanged, idVars, queueVars, Flying, Running, Swapped
<1>10. BatchTells'
  BY <1>1, <1>2, <1>8, <1>9 DEF BatchTells, Planned
<1>11. DevicesTell'
  <2>1. \A r : OnGpuNow(r)' <=> r \in Running
    BY <1>8, <1>9 DEF OnGpuNow
  <2>2. \A id \in Elements(available_ids) :
          id \in RequestIds /\ ~(id \in Elements(ids)) /\ gpu_table[id] = <<>> /\ cpu_table[id] = <<>>
    <3>1. \A id \in Elements(available_ids) : id \in RequestIds
      BY <1>1 DEF QueueTypes, Elements
    <3> QED BY <1>1, <1>3, <3>1, Zenon DEF DevicesTell
  <2>3. \A id \in Elements(available_ids') : gpu_table'[id] = <<>> /\ cpu_table'[id] = <<>>
    BY <1>4, <1>6, <1>9, <2>2, Zenon
  <2>4. \A r \in Flying : request_id[r] \in RequestIds
    BY <1>1 DEF IdsTell
  <2>5. \A r \in Flying : r \in Running => r \in Elements(q) \/ cpu_table[request_id[r]] = <<>>
    BY <1>1, <1>2 DEF DevicesTell, OnGpuNow
  <2>6. \A r \in Flying : ~(r \in Running) => ~(r \in Elements(q)) /\ gpu_table[request_id[r]] = <<>>
    BY <1>1, <1>2 DEF DevicesTell, OnGpuNow, BatchTells
  <2>7. \A r \in Flying : IF r \in Running THEN cpu_table'[request_id[r]] = <<>> ELSE gpu_table'[request_id[r]] = <<>>
    BY <1>3, <1>4, <1>6, <2>4, <2>5, <2>6
  <2> QED BY <1>9, <2>1, <2>3, <2>7 DEF DevicesTell
<1>12. faults' \in 0 .. ForwardFaults /\ stage # "finish" /\ stage' # "finish"
  BY <1>1, <1>2, <1>8 DEF QueueTypes
<1>13. IInv'
  BY <1>2, <1>4, <1>6, <1>7, <1>8, <1>10, <1>11, <1>12, ModelStep
<1>14. upset' # "engine" => Carried(q, cpu_table, gpu_table, cpu_table', gpu_table')
  <2> SUFFICES ASSUME upset' # "engine" PROVE Carried(q, cpu_table, gpu_table, cpu_table', gpu_table')
    OBVIOUS
  <2>1. ASSUME NEW r \in Flying, r \in Elements(q)
        PROVE  Len(gpu_table'[request_id[r]]) = Len(cpu_table[request_id[r]])
    <3>1. PICK i \in DOMAIN q : q[i] = r
      BY <2>1, ElementsOf
    <3>2. i \in DOMAIN ids /\ ids[i] = request_id[r]
      BY <1>3, <3>1
    <3> HIDE DEF targets
    <3> QED BY <1>5, <1>6, <3>2
  <2>2. ASSUME NEW r \in Flying, ~(r \in Elements(q))
        PROVE  cpu_table'[request_id[r]] = cpu_table[request_id[r]] /\ gpu_table'[request_id[r]] = gpu_table[request_id[r]]
    <3>1. request_id[r] \in RequestIds
      BY <1>1 DEF IdsTell
    <3> QED BY <1>3, <1>4, <1>6, <2>2, <3>1
  <2> QED BY <2>1, <2>2, Zenon DEF Carried
<1> QED BY <1>2, <1>13, <1>14, Zenon

-----------------------------------------------------------------------------
(* The forward pass gives the batch its blocks and its tokens.             *)

(* A target is a number of blocks: each sequence of the batch has a length,*)
(* as the prefills and the decodes make up the batch.                      *)
LEMMA TargetsNat ==
  ASSUME QueueTypes
  PROVE  \A i \in DOMAIN cur_batch : Targets[i] \in Nat
<1> DEFINE D == {r \in Requests : ~IsPrefillStage(r)}
           decoding == Keep(cur_batch, D)
           P == {i \in DOMAIN cur_batch : IsPrefillStage(cur_batch[i])}
<1>1. /\ cur_batch \in Seq(Requests) /\ prompt_len \in [Requests -> PromptLens]
      /\ num_outputs \in [Requests -> Nat] /\ PromptLens \subseteq Nat
      /\ Len(cur_batch) \in Nat /\ DOMAIN cur_batch = 1 .. Len(cur_batch)
      /\ \A i \in DOMAIN cur_batch : cur_batch[i] \in Requests
  BY Constants DEF QueueTypes
<1>2. /\ decoding \in Seq(Requests) /\ Len(decoding) = Cardinality(KeptIn(cur_batch, D))
  <2>1. decoding \in Seq(Requests)
    BY <1>1, KeepList, Zenon
  <2> DEFINE c == Cardinality(KeptIn(cur_batch, D))
             f == [a \in 1 .. c |-> cur_batch[KeptAt(cur_batch, D)[a]]]
  <2>2. decoding = f /\ c \in 0 .. Len(cur_batch)
    <3> HIDE DEF D
    <3>1. decoding = f
      BY <1>1, KeepPositions, SMTT(30)
    <3>2. c \in 0 .. Len(cur_batch)
      BY <1>1, KeepPositions, Zenon
    <3> QED BY <3>1, <3>2, Zenon
  <2>3. DOMAIN f = 1 .. c
    OBVIOUS
  <2> HIDE DEF f, c, decoding
  <2>4. DOMAIN decoding = 1 .. c /\ c \in Nat
    BY <2>2, <2>3
  <2>5. Len(decoding) = c
    BY <2>1, <2>4
  <2> QED BY <2>1, <2>5 DEF c
<1>3. KeptIn(cur_batch, D) = (DOMAIN cur_batch) \ P
  BY <1>1 DEF KeptIn
<1> HIDE DEF D, P
<1>4. Cardinality(KeptIn(cur_batch, D)) = Len(cur_batch) - NumPrefills
      /\ NumPrefills \in Nat /\ NumPrefills <= Len(cur_batch)
  <2>1. 1 \in Int /\ Len(cur_batch) \in Int /\ P \in SUBSET (DOMAIN cur_batch)
        /\ P \cap DOMAIN cur_batch = P /\ (DOMAIN cur_batch) \cap P = P
    BY <1>1 DEF P
  <2>2. IsFiniteSet(DOMAIN cur_batch) /\ Cardinality(DOMAIN cur_batch) = Len(cur_batch)
    <3>1. /\ IsFiniteSet(1 .. Len(cur_batch))
          /\ Cardinality(1 .. Len(cur_batch)) = IF 1 > Len(cur_batch) THEN 0 ELSE Len(cur_batch) - 1 + 1
      BY <2>1, FS_Interval, Zenon
    <3> QED BY <1>1, <3>1
  <2>3. /\ IsFiniteSet(P) /\ Cardinality(P) <= Cardinality(DOMAIN cur_batch)
    BY <2>1, <2>2, FS_Subset, Zenon
  <2>4. Cardinality((DOMAIN cur_batch) \ P) = Cardinality(DOMAIN cur_batch) - Cardinality((DOMAIN cur_batch) \cap P)
    BY <2>2, FS_Difference, Zenon
  <2>5. Cardinality(P) \in Nat
    BY <2>3, FS_CardinalityType, Zenon
  <2>6. NumPrefills = Cardinality(P)
    BY Zenon DEF NumPrefills, P
  <2> QED BY <1>1, <1>3, <2>1, <2>2, <2>3, <2>4, <2>5, <2>6
<1>5. DecodingLens = [i \in DOMAIN decoding |-> prompt_len[decoding[i]] + num_outputs[decoding[i]]]
  BY Zenon DEF DecodingLens, D
<1> HIDE DEF decoding
<1>6. \A i \in DOMAIN decoding : DecodingLens[i] \in Nat
  <2> TAKE i \in DOMAIN decoding
  <2>1. decoding[i] \in Requests
    BY <1>2
  <2>2. prompt_len[decoding[i]] \in Nat /\ num_outputs[decoding[i]] \in Nat
    BY <1>1, <2>1
  <2>3. DecodingLens[i] = prompt_len[decoding[i]] + num_outputs[decoding[i]]
    BY <1>5
  <2> QED BY <2>2, <2>3
<1>7. \A i \in DOMAIN cur_batch : SeqLen(i) \in Nat
  <2> TAKE i \in DOMAIN cur_batch
  <2>1. CASE i <= NumPrefills
    <3>1. prompt_len[cur_batch[i]] \in Nat
      BY <1>1
    <3> QED BY <2>1, <3>1 DEF SeqLen, InputLen
  <2>2. CASE ~(i <= NumPrefills)
    <3>1. i - NumPrefills \in DOMAIN decoding
      BY <1>1, <1>2, <1>4, <2>2
    <3> QED BY <1>6, <2>2, <3>1 DEF SeqLen
  <2> QED BY <2>1, <2>2
<1> QED BY <1>7, CeilDivNat, Constants DEF Targets

(* What the allocation of a pass does to both tables. *)
RunningOnGpu(table, other) ==
  /\ \A id \in Elements(available_ids) : table[id] = <<>> /\ other[id] = <<>>
  /\ \A r \in Flying : IF r \in Running THEN other[request_id[r]] = <<>> ELSE table[request_id[r]] = <<>>

LEMMA AtForward ==
  ASSUME DevicesTell, stage \in {"forward", "finish"}
  PROVE  RunningOnGpu(gpu_table, cpu_table)
BY DEF DevicesTell, OnGpuNow, RunningOnGpu

LEMMA ForwardAllocates ==
  ASSUME IInv, stage = "forward", AllocationSucceeds,
         GPU!AllocateForSeqs(IdsOf(cur_batch), Targets), OutsideModelUnchanged
  PROVE  /\ GpuTells' /\ RunningOnGpu(gpu_table', cpu_table)
         /\ \A i \in DOMAIN cur_batch : Len(gpu_table'[request_id[cur_batch[i]]]) = Targets[i]
         /\ \A r \in Flying : ~(r \in Elements(cur_batch)) => gpu_table'[request_id[r]] = gpu_table[request_id[r]]
<1> DEFINE ids == IdsOf(cur_batch)
<1>1. /\ QueueTypes /\ IdsTell /\ BatchTells /\ DevicesTell /\ GpuTells /\ QueueSide /\ FlightTells
  BY Zenon DEF IInv, QueueSide
<1>2. /\ ids \in Seq(RequestIds) /\ IsInjective(ids) /\ DOMAIN ids = DOMAIN cur_batch
      /\ \A i \in DOMAIN cur_batch : ids[i] = request_id[cur_batch[i]]
      /\ \A r \in Flying : request_id[r] \in Elements(ids) <=> r \in Elements(cur_batch)
      /\ \A id \in Elements(available_ids) : ~(id \in Elements(ids))
  BY <1>1, BatchFlies, FlyingIds DEF Planned
<1>3. GPU!TargetsMakeSense(ids, Targets) /\ GPU!EnoughFree(ids, Targets) /\ GPU!AllocateForSeqs(ids, Targets)
  BY Zenon DEF AllocationSucceeds
<1>4. gpu_num_blocks' = gpu_num_blocks
  BY DEF OutsideModelUnchanged
<1> HIDE DEF ids
<1>5. \A i \in DOMAIN ids : Len(gpu_table[ids[i]]) <= Targets[i]
  BY <1>3, Zenon DEF GPU!TargetsMakeSense
<1>6. \A i \in DOMAIN ids : Targets[i] \in Nat
  BY <1>1, <1>2, TargetsNat, Zenon
<1>7. /\ GpuTells' /\ \A s \in RequestIds : ~(s \in Elements(ids)) => gpu_table'[s] = gpu_table[s]
      /\ \A i \in DOMAIN ids : Len(gpu_table'[ids[i]]) = Targets[i]
  BY <1>1, <1>2, <1>3, <1>4, <1>5, <1>6, GpuAllocatesNow, SMTT(60)
<1>8. RunningOnGpu(gpu_table, cpu_table)
  BY <1>1, AtForward
<1>9. Elements(cur_batch) \subseteq Running
  BY <1>1 DEF BatchTells, Planned
<1>10. \A id \in Elements(available_ids) : id \in RequestIds
  BY <1>1 DEF QueueTypes, Elements
<1>11. \A r \in Flying : request_id[r] \in RequestIds
  BY <1>1 DEF IdsTell
<1>12. \A id \in Elements(available_ids) : gpu_table'[id] = <<>> /\ cpu_table[id] = <<>>
  BY <1>2, <1>7, <1>8, <1>10, Zenon DEF RunningOnGpu
<1>13. \A r \in Flying : IF r \in Running THEN cpu_table[request_id[r]] = <<>> ELSE gpu_table'[request_id[r]] = <<>>
  <2> TAKE r \in Flying
  <2>1. CASE r \in Running
    BY <1>8, <2>1, Zenon DEF RunningOnGpu
  <2>2. CASE ~(r \in Running)
    BY <1>2, <1>7, <1>8, <1>9, <1>11, <2>2 DEF RunningOnGpu
  <2> QED BY <2>1, <2>2, Zenon
<1>14. \A i \in DOMAIN cur_batch : Len(gpu_table'[request_id[cur_batch[i]]]) = Targets[i]
  BY <1>2, <1>7
<1>15. \A r \in Flying : ~(r \in Elements(cur_batch)) => gpu_table'[request_id[r]] = gpu_table[request_id[r]]
  BY <1>2, <1>7, <1>11, Zenon
<1>16. RunningOnGpu(gpu_table', cpu_table)
  BY <1>12, <1>13, Zenon DEF RunningOnGpu
<1> QED BY <1>7, <1>14, <1>15, <1>16, Zenon

LEMMA SameQueues ==
  ASSUME OutsideModelUnchanged
  PROVE  /\ UNCHANGED <<prompt_len, output_len, request_id, available_ids,
                        waiting_q, running_q, swapped_q, num_decoding_gpu_blocks>>
         /\ UNCHANGED <<untokenized, tokenizing, arrived, layer_quant_list, is_layer_quant_list,
                        next_unquantized_layer, k_cache_new, num_gpu_blocks, gpu_num_blocks>>
         /\ Flying' = Flying /\ Running' = Running /\ Swapped' = Swapped
         /\ Pending' = Pending /\ NumAdmitted' = NumAdmitted
BY DEF OutsideModelUnchanged, requestVars, idVars, queueVars, arrivalVars, layerVars,
       Flying, Running, Swapped, Pending, NumAdmitted

(* Both ways in which a pass ends without tokens. *)
LEMMA PassRaises ==
  ASSUME IInv, stage = "forward", OutsideModelUnchanged, IterationRaises, num_outputs' = num_outputs,
         UNCHANGED <<gpu_kv, cpuVars>>, faults' \in 0 .. ForwardFaults,
         GpuTells', RunningOnGpu(gpu_table', cpu_table)
  PROVE  IInv'
<1>1. /\ QueueTypes /\ CpuTells /\ KvSide
  BY Zenon DEF IInv, QueueSide
<1>2. /\ stage' = "schedule" /\ upset' = "engine" /\ stage' \in Stages
      /\ cur_batch' = <<>> /\ cur_swap_in' = <<>> /\ cur_swap_out' = <<>>
      /\ <<>> \in Seq(Requests)
  BY DEF IterationRaises, EndIteration, Stages
<1>3. /\ cpu_free' = cpu_free /\ cpu_num_free' = cpu_num_free /\ cpu_table' = cpu_table
      /\ cpu_kv' = cpu_kv /\ gpu_kv' = gpu_kv
  BY DEF cpuVars
<1>4. CpuTells' /\ KvSide'
  BY <1>1, <1>3 DEF CpuTells, CpuPool, KvSide
<1>5. BatchTells'
  BY <1>2 DEF BatchTells, Planned
<1>6. DevicesTell'
  <2>1. \A r : OnGpuNow(r)' <=> r \in Running
    BY <1>2, SameQueues DEF OnGpuNow
  <2> QED BY <1>3, <2>1, SameQueues DEF DevicesTell, RunningOnGpu
<1> QED BY <1>2, <1>4, <1>5, <1>6, ModelStep

LEMMA ForwardRaisesKeeps == ASSUME IInv, ForwardRaises PROVE IInv'
<1>1. /\ stage = "forward" /\ AllocationSucceeds /\ GPU!AllocateForSeqs(IdsOf(cur_batch), Targets)
      /\ OutsideModelUnchanged /\ IterationRaises /\ num_outputs' = num_outputs
      /\ UNCHANGED <<gpu_kv, cpuVars>> /\ faults' = faults + 1 /\ faults < ForwardFaults
  BY Zenon DEF ForwardRaises
<1>2. faults' \in 0 .. ForwardFaults
  BY <1>1, Constants DEF IInv, QueueSide, QueueTypes
<1>3. GpuTells' /\ RunningOnGpu(gpu_table', cpu_table)
  BY <1>1, ForwardAllocates, Zenon
<1> QED BY <1>1, <1>2, <1>3, PassRaises, Zenon

LEMMA ForwardNotAllocatedKeeps == ASSUME IInv, ForwardNotAllocated PROVE IInv'
<1>1. /\ stage = "forward" /\ OutsideModelUnchanged /\ IterationRaises /\ num_outputs' = num_outputs
      /\ UNCHANGED <<gpu_kv, cpuVars>> /\ faults' = faults
      /\ gpu_free' = gpu_free /\ gpu_num_free' = gpu_num_free /\ gpu_table' = gpu_table
  BY Zenon DEF ForwardNotAllocated
<1>2. faults' \in 0 .. ForwardFaults
  BY <1>1 DEF IInv, QueueSide, QueueTypes
<1>3. GpuTells'
  BY <1>1, SameQueues DEF IInv, GpuTells, GpuPool
<1>4. RunningOnGpu(gpu_table', cpu_table)
  BY <1>1, AtForward DEF IInv
<1> QED BY <1>1, <1>2, <1>3, <1>4, PassRaises, Zenon

LEMMA WrittenTyped ==
  ASSUME QueueTypes, WriteKv, gpu_kv \in [1 .. MaxGpuBlocks -> KvContents]
  PROVE  gpu_kv' \in [1 .. MaxGpuBlocks -> KvContents]
<1> DEFINE slots(b) == {s \in (DOMAIN cur_batch) \X (1 .. MaxGpuBlocks) :
                    LET row == gpu_table'[request_id[cur_batch[s[1]]]] IN
                    /\ s[2] <= Len(row) /\ row[s[2]] = b
                    /\ s[2] <= Targets[s[1]] /\ Written(s[1], s[2])}
           slot(b) == CHOOSE s \in slots(b) : TRUE
<1>1. gpu_kv' = [b \in 1 .. MaxGpuBlocks |->
          IF slots(b) = {} THEN gpu_kv[b]
          ELSE IF Aligned THEN <<cur_batch[slot(b)[1]], slot(b)[2]>> ELSE NoKv]
  BY Zenon DEF WriteKv
<1>2. \A b : slots(b) # {} => slot(b) \in slots(b)
  BY Zenon
<1>3. \A b : slots(b) \subseteq (DOMAIN cur_batch) \X (1 .. MaxGpuBlocks)
  OBVIOUS
<1> HIDE DEF slots, slot
<1>4. \A b : slots(b) # {} => <<cur_batch[slot(b)[1]], slot(b)[2]>> \in KvContents
  <2> TAKE b
  <2> HAVE slots(b) # {}
  <2>1. slot(b) \in (DOMAIN cur_batch) \X (1 .. MaxGpuBlocks)
    BY <1>2, <1>3
  <2>2. slot(b)[1] \in DOMAIN cur_batch /\ slot(b)[2] \in 1 .. MaxGpuBlocks
    BY <2>1
  <2>3. cur_batch \in Seq(Requests)
    BY DEF QueueTypes
  <2>4. cur_batch[slot(b)[1]] \in Requests
    BY <2>2, <2>3
  <2> QED BY <2>2, <2>4 DEF KvContents
<1>5. NoKv \in KvContents
  BY DEF KvContents
<1> QED BY <1>1, <1>4, <1>5

(* A pass is over: its requests have one token more. *)
LEMMA ForwardKeeps == ASSUME IInv, Forward PROVE IInv'
<1>1. /\ LayerSide /\ QueueSide /\ QueueTypes /\ PendingInOrder /\ FlightTells /\ IdsTell /\ BatchTells
      /\ DevicesTell /\ CpuTells /\ KvSide
  BY Zenon DEF IInv, QueueSide
<1>2. /\ stage = "forward" /\ stage' = "finish" /\ stage' \in Stages /\ WriteKv /\ OutsideModelUnchanged
      /\ num_outputs' = [r \in Requests |-> num_outputs[r] + IF Contains(cur_batch, r) THEN 1 ELSE 0]
      /\ upset' = IF upset = "batch" THEN "none" ELSE upset
      /\ UNCHANGED <<cpu_free, cpu_num_free, cpu_table, cpu_kv>>
      /\ UNCHANGED <<cur_batch, cur_swap_in, cur_swap_out, faults>>
  BY DEF Forward, Stages, cpuVars, batchVars
<1>3. GpuTells' /\ RunningOnGpu(gpu_table', cpu_table)
  <2>1. AllocationSucceeds /\ GPU!AllocateForSeqs(IdsOf(cur_batch), Targets)
    BY Zenon DEF Forward
  <2> QED BY <1>2, <2>1, ForwardAllocates, Zenon
<1>4. /\ UNCHANGED <<prompt_len, output_len, request_id, available_ids,
                     waiting_q, running_q, swapped_q, num_decoding_gpu_blocks>>
      /\ UNCHANGED <<untokenized, tokenizing, arrived, layer_quant_list, is_layer_quant_list,
                     next_unquantized_layer, k_cache_new, num_gpu_blocks, gpu_num_blocks>>
      /\ Flying' = Flying /\ Running' = Running /\ Swapped' = Swapped
      /\ Pending' = Pending /\ NumAdmitted' = NumAdmitted
  BY <1>2, SameQueues
<1>5. LayerSide'
  <2>1. upset' \in {"none", "batch", "engine"}
    BY <1>1, <1>2 DEF LayerSide
  <2> QED BY <1>1, <1>4, <2>1 DEF LayerSide, LayersTypeOK, LayersTell
<1>6. KvSide'
  <2>1. gpu_kv' \in [1 .. MaxGpuBlocks -> KvContents]
    BY <1>1, <1>2, WrittenTyped DEF KvSide
  <2> QED BY <1>1, <1>2, <2>1 DEF KvSide
<1>7. CpuTells'
  BY <1>1, <1>2 DEF CpuTells, CpuPool
<1>8. DevicesTell'
  <2>1. \A r : OnGpuNow(r)' <=> r \in Running
    BY <1>2, <1>4 DEF OnGpuNow
  <2> QED BY <1>2, <1>3, <1>4, <2>1 DEF DevicesTell, RunningOnGpu
<1>9. /\ cur_batch \in Seq(Requests) /\ \A r : Contains(cur_batch, r) <=> r \in Elements(cur_batch)
  BY <1>1, ContainsElements DEF QueueTypes
<1>10. \A r \in Requests :
         /\ num_outputs[r] \in Nat /\ output_len[r] \in Nat
         /\ num_outputs'[r] = IF r \in Elements(cur_batch) THEN num_outputs[r] + 1 ELSE num_outputs[r]
  <2>1. /\ num_outputs \in [Requests -> Nat] /\ output_len \in [Requests -> OutputLens]
        /\ OutputLens \subseteq Nat
    BY <1>1, Constants DEF QueueTypes
  <2> TAKE r \in Requests
  <2>2. num_outputs[r] \in Nat /\ output_len[r] \in Nat
    BY <2>1
  <2>3. num_outputs'[r] = num_outputs[r] + IF r \in Elements(cur_batch) THEN 1 ELSE 0
    BY <1>2, <1>9, Zenon
  <2> QED BY <2>2, <2>3
<1>11. QueueTypes'
  <2>1. num_outputs' \in [Requests -> Nat]
    <3>1. \A r \in Requests : num_outputs'[r] \in Nat
      BY <1>10
    <3>2. num_outputs' = [r \in Requests |-> num_outputs'[r]]
      BY <1>2
    <3> QED BY <3>1, <3>2, Zenon
  <2> QED BY <1>1, <1>2, <1>4, <2>1 DEF QueueTypes
<1>12. BatchTells'
  BY <1>1, <1>2, <1>4 DEF BatchTells, Planned
<1>13. PendingInOrder' /\ IdsTell'
  BY <1>1, <1>4 DEF PendingInOrder, IdsTell
<1>14. FlightTells'
  <2>1. \A r \in Requests : r \in Flying <=> r <= NumAdmitted /\ ~IsFinished(r)
    BY <1>1, <1>2 DEF FlightTells
  <2>2. \A r \in Requests : num_outputs[r] <= output_len[r] /\ (r > NumAdmitted => num_outputs[r] = 0)
    BY <1>1, Zenon DEF FlightTells
  <2>3. \A r \in Elements(cur_batch) : r \in Flying /\ r \in Requests
    BY <1>1, <1>2, <1>9 DEF BatchTells, Planned, Flying, Elements
  <2>4. Requests \subseteq Int /\ NumAdmitted \in Int
    <3>1. Len(Pending) \in Nat /\ arrived \in Nat
      BY <1>1, PendingShape DEF QueueTypes
    <3> QED BY <3>1 DEF Requests, NumAdmitted
  <2>5. \A r \in Requests :
          /\ r \in Flying' <=> r <= NumAdmitted' /\ (IsFinished(r)' => stage' = "finish" /\ r \in Elements(cur_batch'))
          /\ num_outputs'[r] <= output_len'[r]
          /\ r > NumAdmitted' => num_outputs'[r] = 0
    <3> TAKE r \in Requests
    <3>1. IsFinished(r)' <=> num_outputs'[r] = output_len[r]
      BY <1>4 DEF IsFinished
    <3>2. IsFinished(r) <=> num_outputs[r] = output_len[r]
      BY DEF IsFinished
    <3>3. CASE r \in Elements(cur_batch)
      <4>1. r <= NumAdmitted /\ num_outputs[r] # output_len[r] /\ r \in Flying
        BY <2>1, <2>3, <3>2, <3>3
      <4>2. num_outputs'[r] <= output_len[r] /\ ~(r > NumAdmitted)
        BY <1>10, <2>2, <2>4, <3>3, <4>1
      <4> QED BY <1>2, <1>4, <3>3, <4>1, <4>2
    <3>4. CASE ~(r \in Elements(cur_batch))
      BY <1>2, <1>4, <1>10, <2>1, <2>2, <3>1, <3>2, <3>4
    <3> QED BY <3>3, <3>4
  <2>6. /\ IsInjective(running_q') /\ IsInjective(swapped_q') /\ Running' \cap Swapped' = {}
        /\ Len(running_q') <= MaxBatchSize
    BY <1>1, <1>4 DEF FlightTells
  <2> QED BY <2>5, <2>6, Zenon DEF FlightTells
<1> QED BY <1>3, <1>5, <1>6, <1>7, <1>8, <1>11, <1>12, <1>13, <1>14, Zenon DEF IInv, QueueSide

-----------------------------------------------------------------------------
(* The end of a batch gives the ids and the blocks of the finished back.   *)

(* The finished leave, with nothing of anybody else's. *)
FinishedLeave ==
  /\ Running' \subseteq Running /\ Swapped' = Swapped /\ Flying' \subseteq Flying
  /\ \A r \in Flying' : /\ gpu_table'[request_id[r]] = gpu_table[request_id[r]]
                       /\ cpu_table'[request_id[r]] = cpu_table[request_id[r]]

LEMMA FinishBatchKeeps ==
  ASSUME IInv, FinishBatch
  PROVE  IInv' /\ FinishedLeave
<1> DEFINE q == Keep(cur_batch, Finished)
           ids == IdsOf(q)
           stay == Keep(running_q, Requests \ Finished)
<1>1. /\ LayerSide /\ QueueSide /\ QueueTypes /\ PendingInOrder /\ FlightTells /\ IdsTell /\ BatchTells
      /\ DevicesTell /\ GpuTells /\ CpuTells /\ KvSide
  BY Zenon DEF IInv, QueueSide
<1>2. /\ stage = "finish" /\ stage' = "schedule" /\ stage' \in Stages
      /\ GPU!FreeForSeqs(ids) /\ CPU!FreeForSeqs(ids)
      /\ cur_batch' = <<>> /\ cur_swap_in' = <<>> /\ cur_swap_out' = <<>>
      /\ available_ids' = available_ids \o ids /\ running_q' = stay
      /\ UNCHANGED <<prompt_len, output_len, num_outputs, request_id, waiting_q, swapped_q,
                     num_decoding_gpu_blocks>>
      /\ UNCHANGED <<untokenized, tokenizing, arrived, layer_quant_list, is_layer_quant_list,
                     next_unquantized_layer, k_cache_new, num_gpu_blocks, gpu_num_blocks,
                     upset, gpu_kv, cpu_kv, faults>>
  BY DEF FinishBatch, OnBatchFinish, EndIteration, IdsOf, Stages, requestVars, planVars, layerVars, arrivalVars
<1>3. /\ cur_batch \in Seq(Requests) /\ IsInjective(cur_batch) /\ Elements(cur_batch) \subseteq Running
      /\ running_q \in Seq(Requests) /\ IsInjective(running_q) /\ Len(running_q) \in Nat
      /\ Len(running_q) <= MaxBatchSize /\ Running \cap Swapped = {} /\ IsInjective(swapped_q)
      /\ swapped_q \in Seq(Requests) /\ available_ids \in Seq(RequestIds)
  BY <1>1, <1>2 DEF QueueTypes, FlightTells, BatchTells
<1>4. /\ q \in Seq(Requests) /\ Elements(q) = Elements(cur_batch) \cap Finished /\ IsInjective(q)
  BY <1>3, KeepList, Zenon
<1>5. /\ stay \in Seq(Requests) /\ Elements(stay) = Running \cap (Requests \ Finished) /\ IsInjective(stay)
      /\ Len(stay) \in 0 .. Len(running_q)
  BY <1>3, KeepList, Zenon DEF Running
<1> HIDE DEF q, stay
<1>6. /\ ids \in Seq(RequestIds) /\ IsInjective(ids)
      /\ Elements(ids) = {request_id[r] : r \in Elements(q)}
      /\ \A r \in Flying : request_id[r] \in Elements(ids) <=> r \in Elements(q)
      /\ \A id \in Elements(available_ids) : ~(id \in Elements(ids))
  <2>1. Elements(q) \subseteq Flying
    BY <1>3, <1>4 DEF Flying
  <2> QED BY <1>1, <1>4, <2>1, FlyingIds
<1> HIDE DEF ids
<1>7. \A r \in Requests : r \in Finished <=> IsFinished(r)
  BY DEF Finished
<1>8. \A r \in Requests : r \in Flying <=> r <= NumAdmitted /\ (IsFinished(r) => r \in Elements(cur_batch))
  BY <1>1, <1>2 DEF FlightTells
<1>9. /\ Running \subseteq Requests /\ Swapped \subseteq Requests /\ Flying = Running \cup Swapped
      /\ \A id \in Elements(available_ids) : id \in RequestIds
  BY <1>3 DEF Running, Swapped, Flying, Elements
<1>10. \A r \in Swapped : ~IsFinished(r)
  BY <1>3, <1>8, <1>9
<1>11. /\ Running' = Running \cap (Requests \ Finished) /\ Swapped' = Swapped
       /\ Flying' = Running' \cup Swapped' /\ Pending' = Pending /\ NumAdmitted' = NumAdmitted
  BY <1>2, <1>5 DEF Running, Swapped, Flying, Pending, NumAdmitted
<1>12. /\ \A r \in Requests : r \in Flying' <=> r <= NumAdmitted /\ ~IsFinished(r)
       /\ Flying' \subseteq Flying /\ \A r \in Flying' : ~(r \in Elements(q))
       /\ \A r \in Flying : r \in Flying' \/ r \in Elements(q)
  <2>1. \A r \in Requests : r \in Flying' <=> (r \in Running /\ ~IsFinished(r)) \/ r \in Swapped
    BY <1>7, <1>11
  <2>2. \A r \in Requests : r \in Flying' <=> r \in Flying /\ ~IsFinished(r)
    BY <1>9, <1>10, <2>1, Zenon
  <2>3. Flying' \subseteq Requests
    BY <1>9, <1>11
  <2>4. \A r \in Elements(q) : r \in Requests /\ IsFinished(r)
    BY <1>3, <1>4, <1>7, <1>9
  <2>5. \A r \in Flying : IsFinished(r) => r \in Elements(q)
    BY <1>4, <1>7, <1>8, <1>9
  <2> QED BY <1>8, <1>9, <2>2, <2>3, <2>4, <2>5
<1>13. /\ available_ids' \in Seq(RequestIds) /\ IsInjective(available_ids')
       /\ Elements(available_ids') = Elements(available_ids) \cup Elements(ids)
  <2>1. Elements(available_ids) \cap Elements(ids) = {} /\ IsInjective(available_ids)
    BY <1>1, <1>6 DEF IdsTell
  <2>2. /\ available_ids \o ids \in Seq(RequestIds) /\ IsInjective(available_ids \o ids)
        /\ Elements(available_ids \o ids) = Elements(available_ids) \cup Elements(ids)
    BY <1>3, <1>6, <2>1, ConcatList
  <2> QED BY <1>2, <2>2, Zenon
<1>14. <<>> \in Seq(Requests)
  OBVIOUS
<1>15. QueueTypes'
  BY <1>1, <1>2, <1>5, <1>13, <1>14 DEF QueueTypes
<1>16. PendingInOrder' /\ LayerSide' /\ KvSide'
  BY <1>1, <1>2, <1>11 DEF PendingInOrder, LayerSide, LayersTypeOK, LayersTell, KvSide
<1>17. FlightTells'
  <2>1. \A r \in Requests : num_outputs[r] <= output_len[r] /\ (r > NumAdmitted => num_outputs[r] = 0)
    BY <1>1, Zenon DEF FlightTells
  <2>2. \A r : IsFinished(r)' <=> IsFinished(r)
    BY <1>2 DEF IsFinished
  <2>3. \A r \in Requests :
          /\ r \in Flying' <=> r <= NumAdmitted' /\ (IsFinished(r)' => stage' = "finish" /\ r \in Elements(cur_batch'))
          /\ num_outputs'[r] <= output_len'[r]
          /\ r > NumAdmitted' => num_outputs'[r] = 0
    BY <1>2, <1>11, <1>12, <2>1, <2>2
  <2>4. /\ IsInjective(running_q') /\ IsInjective(swapped_q') /\ Running' \cap Swapped' = {}
        /\ Len(running_q') <= MaxBatchSize
    BY <1>2, <1>3, <1>5, <1>11, Constants
  <2> QED BY <2>3, <2>4, Zenon DEF FlightTells
<1>18. BatchTells'
  BY <1>2 DEF BatchTells, Planned
<1>19. IdsTell'
  <2>1. /\ \A r \in Flying : request_id[r] \in RequestIds \ Elements(available_ids)
        /\ \A r, s \in Flying : request_id[r] = request_id[s] => r = s
        /\ \A id \in RequestIds \ Elements(available_ids) : \E r \in Flying : request_id[r] = id
        /\ \A r \in Requests : request_id[r] = -1 <=> r > NumAdmitted
    BY <1>1, Zenon DEF IdsTell
  <2>2. \A r \in Flying' : request_id'[r] \in RequestIds \ Elements(available_ids')
    BY <1>2, <1>6, <1>12, <1>13, <2>1
  <2>3. \A r, s \in Flying' : request_id'[r] = request_id'[s] => r = s
    BY <1>2, <1>12, <2>1
  <2>4. \A id \in RequestIds \ Elements(available_ids') : \E r \in Flying' : request_id'[r] = id
    <3> TAKE id \in RequestIds \ Elements(available_ids')
    <3>1. PICK r \in Flying : request_id[r] = id
      BY <1>13, <2>1
    <3>2. ~(r \in Elements(q))
      BY <1>6, <1>13, <3>1
    <3>3. r \in Flying' /\ request_id'[r] = id
      BY <1>2, <1>12, <3>1, <3>2
    <3> QED BY <3>3
  <2>5. \A r \in Requests : request_id'[r] = -1 <=> r > NumAdmitted'
    BY <1>2, <1>11, <2>1
  <2> QED BY <1>13, <2>2, <2>3, <2>4, <2>5, Zenon DEF IdsTell
<1>20. /\ CpuTells' /\ \A s \in RequestIds : cpu_table'[s] = IF s \in Elements(ids) THEN <<>> ELSE cpu_table[s]
  <2>1. CpuPool(1 .. NumCpuBlocks)
    BY <1>1 DEF CpuTells
  <2>2. /\ CpuPool(1 .. NumCpuBlocks)'
        /\ \A s \in RequestIds : cpu_table'[s] = IF s \in Elements(ids) THEN <<>> ELSE cpu_table[s]
    BY <1>2, <1>6, <2>1, CpuReleases, Zenon
  <2> QED BY <2>2, Zenon DEF CpuTells
<1>21. /\ GpuTells' /\ \A s \in RequestIds : gpu_table'[s] = IF s \in Elements(ids) THEN <<>> ELSE gpu_table[s]
  <2>1. gpu_num_blocks' = gpu_num_blocks
    BY <1>2
  <2>2. ASSUME NEW pool, pool = 1 .. gpu_num_blocks
        PROVE  /\ GpuPool(pool)'
               /\ \A s \in RequestIds : gpu_table'[s] = IF s \in Elements(ids) THEN <<>> ELSE gpu_table[s]
    <3>1. GpuPool(pool)
      BY <1>1, <2>2, Zenon DEF GpuTells
    <3> QED BY <1>2, <1>6, <3>1, GpuReleases, Zenon
  <2>3. \A pool : pool = 1 .. gpu_num_blocks' => GpuPool(pool)'
    BY <2>1, <2>2
  <2> QED BY <2>2, <2>3, Zenon DEF GpuTells
<1>22. DevicesTell'
  <2>1. RunningOnGpu(gpu_table, cpu_table)
    BY <1>1, <1>2, AtForward
  <2>2. \A id \in Elements(available_ids') : gpu_table'[id] = <<>> /\ cpu_table'[id] = <<>>
    <3> TAKE id \in Elements(available_ids')
    <3>1. CASE id \in Elements(ids)
      <4>1. id \in RequestIds
        BY <1>6, <3>1 DEF Elements
      <4> QED BY <1>20, <1>21, <3>1, <4>1, Zenon
    <3>2. CASE id \in Elements(available_ids)
      BY <1>6, <1>9, <1>20, <1>21, <2>1, <3>2, Zenon DEF RunningOnGpu
    <3> QED BY <1>13, <3>1, <3>2, Zenon
  <2>3. \A r : OnGpuNow(r)' <=> r \in Running'
    BY <1>2 DEF OnGpuNow
  <2>4. \A r \in Flying' : r \in Flying /\ request_id[r] \in RequestIds /\ (r \in Running' <=> r \in Running)
    BY <1>1, <1>3, <1>11, <1>12 DEF IdsTell
  <2>5. \A r \in Flying' : IF r \in Running' THEN cpu_table'[request_id[r]] = <<>> ELSE gpu_table'[request_id[r]] = <<>>
    <3> TAKE r \in Flying'
    <3>1. IF r \in Running THEN cpu_table[request_id[r]] = <<>> ELSE gpu_table[request_id[r]] = <<>>
      BY <2>1, <2>4, Zenon DEF RunningOnGpu
    <3>2. /\ cpu_table[request_id[r]] = <<>> => cpu_table'[request_id[r]] = <<>>
          /\ gpu_table[request_id[r]] = <<>> => gpu_table'[request_id[r]] = <<>>
      BY <1>20, <1>21, <2>4
    <3> QED BY <2>4, <3>1, <3>2
  <2> QED BY <1>2, <2>2, <2>3, <2>5 DEF DevicesTell
<1>23. FinishedLeave
  <2>1. \A r \in Flying' : r \in Flying /\ ~(request_id[r] \in Elements(ids)) /\ request_id[r] \in RequestIds
    BY <1>1, <1>6, <1>12 DEF IdsTell
  <2>2. \A r \in Flying' : /\ gpu_table'[request_id[r]] = gpu_table[request_id[r]]
                         /\ cpu_table'[request_id[r]] = cpu_table[request_id[r]]
    BY <1>20, <1>21, <2>1
  <2> QED BY <1>11, <1>12, <2>2 DEF FinishedLeave
<1>24. IInv'
  BY <1>15, <1>16, <1>17, <1>18, <1>19, <1>20, <1>21, <1>22, Zenon DEF IInv, QueueSide
<1> QED BY <1>23, <1>24, Zenon

-----------------------------------------------------------------------------
(* The start of the engine.                                                *)

(* All blocks of a pool are free. *)
LEMMA AllFree ==
  ASSUME NEW size \in Nat, NEW a \in Nat, a <= size
  PROVE  DeviceTells(RequestIds, size, 1 .. a, 1 .. a, a, [i \in RequestIds |-> <<>>])
<1> DEFINE table == [i \in RequestIds |-> <<>>]
<1>1. 1 .. a \in SUBSET (1 .. size)
  OBVIOUS
<1>2. Cardinality(1 .. a) = a
  <2>1. 1 \in Int /\ a \in Int
    OBVIOUS
  <2>2. Cardinality(1 .. a) = IF 1 > a THEN 0 ELSE a - 1 + 1
    BY <2>1, FS_Interval, Zenon
  <2> QED BY <2>2
<1>3. table \in [RequestIds -> Seq(1 .. size)]
  OBVIOUS
<1>4. \A s \in RequestIds : table[s] = <<>> /\ DOMAIN table[s] = {}
  OBVIOUS
<1> HIDE DEF table
<1>5. OnePlaceEach(RequestIds, 1 .. a, 1 .. a, a, table)
  BY <1>2, <1>4 DEF OnePlaceEach
<1>6. DeviceTells(RequestIds, size, 1 .. a, 1 .. a, a, table)
  BY <1>1, <1>3, <1>5, DeviceCounts, Zenon
<1> QED BY <1>6, Zenon DEF table

(* Every id is available once. *)
LEMMA AllIdsThere ==
  /\ AllIds \in Seq(RequestIds) /\ IsInjective(AllIds)
  /\ \A id \in RequestIds : id \in Elements(AllIds)
<1>1. MaxSeqs \in Nat
  BY Constants
<1>2. DOMAIN AllIds = 1 .. MaxSeqs /\ \A i \in 1 .. MaxSeqs : AllIds[i] = MaxSeqs - i
  BY DEF AllIds
<1>3. AllIds \in [1 .. MaxSeqs -> RequestIds]
  BY <1>1 DEF AllIds, RequestIds
<1>4. AllIds \in Seq(RequestIds)
  BY <1>1, <1>3
<1>5. IsInjective(AllIds)
  BY <1>1, <1>2 DEF IsInjective
<1>6. ASSUME NEW id \in RequestIds PROVE id \in Elements(AllIds)
  <2>1. MaxSeqs - id \in 1 .. MaxSeqs /\ MaxSeqs - (MaxSeqs - id) = id
    BY <1>1 DEF RequestIds
  <2>2. AllIds[MaxSeqs - id] = id
    BY <1>2, <2>1
  <2> QED BY <1>2, <2>1, <2>2 DEF Elements
<1> QED BY <1>4, <1>5, <1>6

LEMMA InitIInv == ASSUME Init PROVE IInv
<1> DEFINE none == [i \in RequestIds |-> <<>>]
<1>1. /\ prompt_len \in [Requests -> PromptLens] /\ output_len \in [Requests -> OutputLens]
      /\ num_outputs = [r \in Requests |-> 0] /\ request_id = [r \in Requests |-> -1]
      /\ available_ids = AllIds
      /\ waiting_q = <<>> /\ running_q = <<>> /\ swapped_q = <<>> /\ num_decoding_gpu_blocks = 0
      /\ layer_quant_list = [i \in 1 .. AwqLayers |-> NumLayers - i]
      /\ is_layer_quant_list = [l \in Layers |-> l >= NumLayers - AwqLayers]
      /\ next_unquantized_layer = NumLayers - 1 - AwqLayers
      /\ k_cache_new = layer_quant_list
      /\ gpu_num_blocks = NumGpuBlocks + AwqLayers * LentBlocks
      /\ num_gpu_blocks = gpu_num_blocks
  BY DEF Init, SchedulerInit, LayersInit
<1>2. /\ gpu_free = 1 .. gpu_num_blocks /\ gpu_num_free = gpu_num_blocks /\ gpu_table = none
      /\ CPU!BmInit
      /\ gpu_kv = [b \in 1 .. MaxGpuBlocks |-> NoKv] /\ cpu_kv = [b \in 1 .. NumCpuBlocks |-> NoKv]
      /\ untokenized = <<>> /\ tokenizing = <<>> /\ arrived = 0 /\ stage = "schedule"
      /\ cur_batch = <<>> /\ cur_swap_in = <<>> /\ cur_swap_out = <<>>
      /\ faults = 0 /\ upset = "none"
  BY DEF Init
<1>3. cpu_free = 1 .. NumCpuBlocks /\ cpu_num_free = NumCpuBlocks /\ cpu_table = none
  BY <1>2 DEF CPU!BmInit, CPU!Blocks
<1>4. /\ AwqLayers \in Nat /\ AwqLayers <= NumLayers /\ NumLayers \in Nat \ {0} /\ NumCpuBlocks \in Nat
      /\ ForwardFaults \in Nat /\ MaxBatchSize \in Nat /\ NumRequests \in Nat
      /\ gpu_num_blocks \in NumGpuBlocks .. MaxGpuBlocks /\ MaxGpuBlocks \in Nat
      /\ NumGpuBlocks \in Nat
  BY <1>1, Constants, PoolSizes
<1>5. GpuTells
  <2>1. gpu_num_blocks \in Nat /\ gpu_num_blocks <= MaxGpuBlocks
    BY <1>4
  <2>2. DeviceTells(RequestIds, MaxGpuBlocks, 1 .. gpu_num_blocks, 1 .. gpu_num_blocks, gpu_num_blocks, none)
    BY <1>4, <2>1, AllFree, Zenon
  <2> QED BY <1>2, <2>2, Zenon DEF GpuTells, GpuPool
<1>6. CpuTells
  <2>1. NumCpuBlocks <= NumCpuBlocks
    BY <1>4
  <2>2. DeviceTells(RequestIds, NumCpuBlocks, 1 .. NumCpuBlocks, 1 .. NumCpuBlocks, NumCpuBlocks, none)
    BY <1>4, <2>1, AllFree, Zenon
  <2> QED BY <1>3, <2>2, Zenon DEF CpuTells, CpuPool
<1>7. KvSide
  BY <1>2 DEF KvSide, KvContents
<1>8. LayerSide
  <2>1. /\ DOMAIN layer_quant_list = 1 .. AwqLayers
        /\ \A i \in 1 .. AwqLayers : layer_quant_list[i] = NumLayers - i /\ NumLayers - i \in Layers
    BY <1>1, <1>4 DEF Layers
  <2>2. layer_quant_list \in [1 .. AwqLayers -> Layers]
    BY <1>1, <2>1
  <2>3. layer_quant_list \in Seq(Layers) /\ Len(layer_quant_list) = AwqLayers
    BY <1>4, <2>2
  <2>4. LayersTypeOK
    BY <1>1, <1>4, <2>3 DEF LayersTypeOK, Layers
  <2>5. LayersTell
    BY <1>1, <1>4, <2>3, Zenon DEF LayersTell
  <2>6. num_gpu_blocks \in Nat
    BY <1>1, <1>4
  <2> QED BY <1>2, <2>4, <2>5, <2>6 DEF LayerSide
<1>9. Running = {} /\ Swapped = {} /\ Flying = {}
  BY <1>1 DEF Running, Swapped, Flying, Elements
<1>10. QueueTypes
  <2>1. /\ num_outputs \in [Requests -> Nat] /\ request_id \in [Requests -> RequestIds \cup {-1}]
        /\ available_ids \in Seq(RequestIds) /\ num_decoding_gpu_blocks \in Nat
    BY <1>1, AllIdsThere
  <2>2. stage \in Stages /\ faults \in 0 .. ForwardFaults /\ arrived \in Nat
    BY <1>2, <1>4 DEF Stages
  <2>3. <<>> \in Seq(Requests)
    OBVIOUS
  <2> QED BY <1>1, <1>2, <2>1, <2>2, <2>3 DEF QueueTypes
<1>11. Pending = <<>> /\ Len(Pending) = 0 /\ NumAdmitted = 0
  <2>1. <<>> \in Seq(Requests)
    OBVIOUS
  <2>2. Pending = <<>>
    BY <1>1, <1>2, <2>1, ConcatThree DEF Pending
  <2>3. Len(<<>>) = 0 /\ arrived = 0
    BY <1>2
  <2>4. Len(Pending) = 0
    BY <2>2, <2>3, Zenon
  <2>5. NumAdmitted = 0
    BY <2>3, <2>4 DEF NumAdmitted
  <2> QED BY <2>2, <2>4, <2>5
<1>12. PendingInOrder
  BY <1>2, <1>4, <1>11 DEF PendingInOrder
<1>13. \A r \in Requests : ~(r <= NumAdmitted) /\ r > NumAdmitted
  BY <1>4, <1>11 DEF Requests
<1>14. FlightTells
  <2>1. OutputLens \subseteq Nat
    BY Constants
  <2>2. \A r \in Requests : num_outputs[r] = 0 /\ num_outputs[r] <= output_len[r]
    <3> TAKE r \in Requests
    <3>1. output_len[r] \in OutputLens /\ num_outputs[r] = 0
      BY <1>1
    <3>2. output_len[r] \in Nat
      BY <2>1, <3>1
    <3> QED BY <3>1, <3>2
  <2>3. IsInjective(running_q) /\ IsInjective(swapped_q) /\ Len(running_q) <= MaxBatchSize
    BY <1>1, <1>4 DEF IsInjective
  <2> QED BY <1>9, <1>13, <2>2, <2>3 DEF FlightTells
<1>15. BatchTells
  BY <1>2 DEF BatchTells, Planned
<1>16. IdsTell
  BY <1>1, <1>9, <1>13, AllIdsThere DEF IdsTell
<1>17. DevicesTell
  <2>1. \A id \in Elements(available_ids) : id \in RequestIds
    BY <1>10 DEF QueueTypes, Elements
  <2> QED BY <1>2, <1>3, <1>9, <2>1 DEF DevicesTell
<1> QED BY <1>5, <1>6, <1>7, <1>8, <1>10, <1>12, <1>14, <1>15, <1>16, <1>17, Zenon DEF IInv, QueueSide

-----------------------------------------------------------------------------
(* Every step keeps the invariant.                                         *)

LEMMA StutterKeeps == ASSUME IInv, UNCHANGED vars PROVE IInv'
<1>1. ServingUnchanged /\ UNCHANGED <<waiting_q, untokenized, tokenizing, arrived>>
  BY DEF vars, ServingUnchanged
<1>2. QueueTypes
  BY Zenon DEF IInv, QueueSide
<1>3. /\ waiting_q' \in Seq(Requests) /\ tokenizing' \in Seq(Requests) /\ untokenized' \in Seq(Requests)
      /\ Pending' = Pending
  BY <1>1, <1>2 DEF QueueTypes, Pending
<1> QED BY <1>1, <1>3, PendingStays, Zenon

LEMMA NextKeeps == ASSUME IInv, [Next]_vars PROVE IInv'
<1>1. CASE AddRequest
  BY <1>1, AddRequestKeeps, Zenon
<1>2. CASE TokenizationLoop
  BY <1>2, TokenizationKeeps, Zenon
<1>3. CASE MainLoop
  <2>1. CASE SchedulePrefill
    BY <2>1, SchedulePrefillKeeps, Zenon
  <2>2. CASE ScheduleReplacing
    BY <2>2, ScheduleReplacingKeeps, Zenon
  <2>3. CASE ScheduleExits
    BY <2>3, ScheduleExitsKeeps, Zenon
  <2>4. CASE SchedulePreempting
    BY <2>4, SchedulePreemptingKeeps, Zenon
  <2>5. CASE ScheduleDecode
    BY <2>5, ScheduleDecodeKeeps, Zenon
  <2>6. CASE SwapOut
    BY <2>6, SwapOutKeeps, Zenon
  <2>7. CASE SwapIn
    BY <2>7, SwapInKeeps, Zenon
  <2>8. CASE Forward
    BY <2>8, ForwardKeeps, Zenon
  <2>9. CASE ForwardNotAllocated
    BY <2>9, ForwardNotAllocatedKeeps, Zenon
  <2>10. CASE ForwardRaises
    BY <2>10, ForwardRaisesKeeps, Zenon
  <2>11. CASE FinishBatch
    BY <2>11, FinishBatchKeeps, Zenon
  <2> QED BY <1>3, <2>1, <2>2, <2>3, <2>4, <2>5, <2>6, <2>7, <2>8, <2>9, <2>10, <2>11, Zenon DEF MainLoop
<1>4. CASE UNCHANGED vars
  BY <1>4, StutterKeeps, Zenon
<1> QED BY <1>1, <1>2, <1>3, <1>4, Zenon DEF Next

LEMMA SpecIInv == Spec => []IInv
<1>1. Init => IInv
  BY InitIInv
<1>2. IInv /\ [Next]_vars => IInv'
  BY NextKeeps
<1> QED BY <1>1, <1>2, PTL DEF Spec

(* What the queues, the ids, the block tables, the layers and the stage of *)
(* the main loop tell of each other: the invariant behind all the others.  *)
THEOREM ServingInvariantHolds == Spec => []SInv
<1>1. IInv => SInv
  BY PartsMakeInvariant
<1> QED BY <1>1, SpecIInv, PTL

(* Every variable stays within its type.                                   *)
THEOREM ServingTypeOK == Spec => []TypeOK
<1>1. SInv => TypeOK
  BY Zenon DEF SInv
<1> QED BY <1>1, ServingInvariantHolds, PTL

(* No block is leaked, given to two sequences or counted wrongly, and the  *)
(* scheduler plans with the pool that is there.                            *)
THEOREM ServingBlocksAccounted == Spec => []BlocksAccounted
<1>1. SInv => BlocksAccounted
  BY Zenon DEF SInv, LayersTell, BlocksAccounted
<1> QED BY <1>1, ServingInvariantHolds, PTL

-----------------------------------------------------------------------------
(* The ids.                                                                *)

LEMMA InvariantAccountsIds == IInv => IdsAccounted
<1> SUFFICES ASSUME IInv PROVE IdsAccounted
  OBVIOUS
<1> DEFINE ids == IdsOf(InFlight)
<1>1. QueueTypes /\ FlightTells /\ IdsTell /\ DevicesTell
  BY Zenon DEF IInv, QueueSide
<1>2. /\ InFlight \in Seq(Requests) /\ Elements(InFlight) = Flying /\ IsInjective(InFlight)
  <2>1. running_q \in Seq(Requests) /\ swapped_q \in Seq(Requests)
    BY <1>1, Zenon DEF QueueTypes
  <2>2. IsInjective(running_q) /\ IsInjective(swapped_q) /\ Elements(running_q) \cap Elements(swapped_q) = {}
    BY <1>1, Zenon DEF FlightTells, Running, Swapped
  <2> QED BY <2>1, <2>2, ConcatList DEF InFlight, Flying, Running, Swapped
<1>3. \A r \in Flying : request_id[r] \in RequestIds
  BY <1>1, Zenon DEF IdsTell
<1>4. ids \in Seq(RequestIds) /\ Elements(ids) = {request_id[r] : r \in Flying}
  BY <1>2, <1>3, MapList DEF IdsOf
<1>5. IsInjective(ids)
  <2>1. \A r, s \in Elements(InFlight) : request_id[r] = request_id[s] => r = s
    BY <1>1, <1>2, Zenon DEF IdsTell
  <2> QED BY <1>2, <2>1, MapInjective, Zenon DEF IdsOf
<1> HIDE DEF ids
<1>6. available_ids \in Seq(RequestIds) /\ IsInjective(available_ids)
  BY <1>1, Zenon DEF QueueTypes, IdsTell
<1>7. Elements(available_ids) \cap Elements(ids) = {}
  BY <1>1, <1>4 DEF IdsTell
<1>8. Elements(available_ids) \cup Elements(ids) = RequestIds
  <2>1. Elements(available_ids) \subseteq RequestIds
    BY <1>6 DEF Elements
  <2> QED BY <1>1, <1>3, <1>4, <2>1 DEF IdsTell
<1>9. IsInjective(available_ids \o ids) /\ Elements(available_ids \o ids) = RequestIds
  <2>1. Elements(available_ids \o ids) = Elements(available_ids) \cup Elements(ids)
    BY <1>4, <1>6, ConcatList, SMTT(30)
  <2>2. IsInjective(available_ids \o ids)
    BY <1>4, <1>5, <1>6, <1>7, ConcatList, SMTT(30)
  <2> QED BY <1>8, <2>1, <2>2, Zenon
<1>10. ToSet(available_ids \o ids) = RequestIds /\ ToSet(available_ids) = Elements(available_ids)
  BY <1>9, ElementsOf, Zenon
<1> QED BY <1>1, <1>9, <1>10, Zenon DEF IdsAccounted, DevicesTell, ids

(* The ids in flight are distinct, the others are available once each and  *)
(* own no block on either device.                                          *)
THEOREM ServingIdsAccounted == Spec => []IdsAccounted
BY InvariantAccountsIds, SpecIInv, PTL

-----------------------------------------------------------------------------
(* The requests.                                                           *)

LEMMA UpInjective ==
  ASSUME NEW c \in Int, NEW n \in Nat
  PROVE  IsInjective(Up(c, n))
BY DEF Up, IsInjective

(* The parts of a list that counts on from c count on from each other. *)
CountsOn(s, c) == \A i \in 1 .. Len(s) : s[i] = c + i

LEMMA UpSplits ==
  ASSUME NEW X, NEW s \in Seq(X), NEW t \in Seq(X), NEW u \in Seq(X), NEW c \in Int,
         CountsOn(s \o t \o u, c)
  PROVE  s = Up(c, Len(s)) /\ t = Up(c + Len(s), Len(t)) /\ u = Up(c + Len(s) + Len(t), Len(u))
<1>1. /\ Len(s) \in Nat /\ Len(t) \in Nat /\ Len(u) \in Nat
      /\ s = [i \in 1 .. Len(s) |-> s[i]] /\ t = [i \in 1 .. Len(t) |-> t[i]]
      /\ u = [i \in 1 .. Len(u) |-> u[i]]
  OBVIOUS
<1> DEFINE st == s \o t
           all == s \o t \o u
<1>2. /\ st \in Seq(X) /\ Len(st) = Len(s) + Len(t)
      /\ \A i \in 1 .. Len(s) : st[i] = s[i] /\ i \in 1 .. Len(st)
      /\ \A i \in 1 .. Len(t) : st[Len(s) + i] = t[i] /\ Len(s) + i \in 1 .. Len(st)
  BY SMTT(30)
<1>3. Len(all) = Len(s) + Len(t) + Len(u)
  BY ConcatThree, SMTT(30)
<1> HIDE DEF st
<1>4. /\ \A i \in 1 .. Len(st) : (st \o u)[i] = st[i] /\ i \in 1 .. Len(st) + Len(u)
      /\ \A i \in 1 .. Len(u) : (st \o u)[Len(st) + i] = u[i] /\ Len(st) + i \in 1 .. Len(st) + Len(u)
  BY <1>2, SMTT(30)
<1>5. all = st \o u /\ \A i \in 1 .. Len(all) : all[i] = c + i
  BY DEF st, CountsOn
<1> HIDE DEF all
<1>6. \A i \in 1 .. Len(s) : s[i] = c + i
  BY <1>1, <1>2, <1>3, <1>4, <1>5
<1>7. \A i \in 1 .. Len(t) : t[i] = c + Len(s) + i
  <2> TAKE i \in 1 .. Len(t)
  <2>1. st[Len(s) + i] = t[i] /\ Len(s) + i \in 1 .. Len(st) /\ i \in Nat
    BY <1>2
  <2>2. all[Len(s) + i] = t[i] /\ Len(s) + i \in 1 .. Len(all)
    BY <1>1, <1>2, <1>3, <1>4, <1>5, <2>1, SMTT(60)
  <2>3. all[Len(s) + i] = c + (Len(s) + i)
    BY <1>5, <2>2, Zenon
  <2> QED BY <1>1, <2>1, <2>2, <2>3
<1>8. \A i \in 1 .. Len(u) : u[i] = c + Len(s) + Len(t) + i
  <2> TAKE i \in 1 .. Len(u)
  <2>1. all[Len(st) + i] = u[i] /\ Len(st) + i \in 1 .. Len(all) /\ i \in Nat
    BY <1>1, <1>2, <1>3, <1>4, <1>5, SMTT(60)
  <2>2. all[Len(st) + i] = c + (Len(st) + i)
    BY <1>5, <2>1, Zenon
  <2> QED BY <1>1, <1>2, <2>1, <2>2
<1>9. s = Up(c, Len(s))
  BY <1>1, <1>6, Zenon DEF Up
<1>10. t = Up(c + Len(s), Len(t))
  BY <1>1, <1>7, Zenon DEF Up
<1>11. u = Up(c + Len(s) + Len(t), Len(u))
  BY <1>1, <1>8, Zenon DEF Up
<1> QED BY <1>9, <1>10, <1>11, Zenon

(* The queues before the scheduler hold the last requests to arrive, each once. *)
LEMMA PendingOnce ==
  ASSUME QueueTypes, PendingInOrder
  PROVE  /\ NumAdmitted \in Nat /\ NumAdmitted <= arrived /\ arrived \in Nat
         /\ IsInjective(waiting_q) /\ IsInjective(tokenizing) /\ IsInjective(untokenized)
         /\ Elements(waiting_q) \cap Elements(tokenizing) = {}
         /\ Elements(untokenized) \cap Elements(tokenizing) = {}
         /\ Elements(untokenized) \cap Elements(waiting_q) = {}
         /\ Elements(untokenized) \cup Elements(tokenizing) \cup Elements(waiting_q)
              = NumAdmitted + 1 .. arrived
<1> DEFINE a == NumAdmitted
           w == Len(waiting_q)
           t == Len(tokenizing)
           u == Len(untokenized)
<1>1. w \in Nat /\ t \in Nat /\ u \in Nat /\ Len(Pending) = w + t + u
  BY PendingShape
<1>2. a \in Nat /\ arrived \in Nat /\ arrived = a + w + t + u
  BY <1>1 DEF PendingInOrder, QueueTypes, NumAdmitted
<1>3. /\ waiting_q \in Seq(Requests) /\ tokenizing \in Seq(Requests) /\ untokenized \in Seq(Requests)
      /\ CountsOn(waiting_q \o tokenizing \o untokenized, a)
  <2>1. CountsOn(Pending, a)
    BY DEF PendingInOrder, CountsOn
  <2> QED BY <2>1, Zenon DEF QueueTypes, Pending
<1>4. a \in Int /\ a + w \in Int /\ a + w + t \in Int
  BY <1>1, <1>2
<1> HIDE DEF a
<1>5. waiting_q = Up(a, w) /\ tokenizing = Up(a + w, t) /\ untokenized = Up(a + w + t, u)
  <2>1. waiting_q = Up(a, w)
    BY <1>3, <1>4, UpSplits, SMTT(30)
  <2>2. tokenizing = Up(a + w, t)
    BY <1>3, <1>4, UpSplits, SMTT(30)
  <2>3. untokenized = Up(a + w + t, u)
    BY <1>3, <1>4, UpSplits, SMTT(30)
  <2> QED BY <2>1, <2>2, <2>3
<1> HIDE DEF w, t, u
<1>6. IsInjective(waiting_q) /\ IsInjective(tokenizing) /\ IsInjective(untokenized)
  BY <1>1, <1>4, <1>5, UpInjective, Zenon
<1>7. /\ Elements(waiting_q) = a + 1 .. a + w
      /\ Elements(tokenizing) = a + w + 1 .. a + w + t
      /\ Elements(untokenized) = a + w + t + 1 .. a + w + t + u
  BY <1>1, <1>4, <1>5, ListElements, Zenon
<1> QED BY <1>1, <1>2, <1>6, <1>7 DEF a

LEMMA InvariantLosesNone == IInv => NoRequestLost
<1> SUFFICES ASSUME IInv PROVE NoRequestLost
  OBVIOUS
<1>1. QueueTypes /\ PendingInOrder /\ FlightTells
  BY Zenon DEF IInv, QueueSide
<1>2. /\ untokenized \in Seq(Requests) /\ tokenizing \in Seq(Requests) /\ waiting_q \in Seq(Requests)
      /\ running_q \in Seq(Requests) /\ swapped_q \in Seq(Requests) /\ cur_batch \in Seq(Requests)
  BY <1>1, Zenon DEF QueueTypes
<1>3. /\ NumAdmitted \in Nat /\ NumAdmitted <= arrived /\ arrived \in Nat /\ arrived <= NumRequests
      /\ NumRequests \in Nat
  BY <1>1, PendingOnce, Constants DEF PendingInOrder
<1> DEFINE pending == untokenized \o tokenizing \o waiting_q
<1>4. /\ pending \in Seq(Requests) /\ IsInjective(pending)
      /\ Elements(pending) = NumAdmitted + 1 .. arrived
  <2> DEFINE ut == untokenized \o tokenizing
  <2>1. /\ ut \in Seq(Requests) /\ Elements(ut) = Elements(untokenized) \cup Elements(tokenizing)
        /\ IsInjective(ut)
    BY <1>1, <1>2, PendingOnce, ConcatList
  <2> HIDE DEF ut
  <2>2. Elements(ut) \cap Elements(waiting_q) = {} /\ IsInjective(waiting_q)
    BY <1>1, <2>1, PendingOnce
  <2>3. /\ ut \o waiting_q \in Seq(Requests) /\ IsInjective(ut \o waiting_q)
        /\ Elements(ut \o waiting_q) = Elements(ut) \cup Elements(waiting_q)
    BY <1>2, <2>1, <2>2, ConcatList
  <2>4. Elements(ut) \cup Elements(waiting_q) = NumAdmitted + 1 .. arrived
    BY <1>1, <2>1, PendingOnce, Zenon
  <2> QED BY <2>3, <2>4, Zenon DEF ut
<1>5. \A r \in Flying : r \in Requests /\ r <= NumAdmitted
  <2>1. Flying \subseteq Requests
    BY <1>2 DEF Flying, Running, Swapped, Elements
  <2> QED BY <1>1, <2>1, Zenon DEF FlightTells
<1>6. Elements(pending) \cap Flying = {}
  BY <1>3, <1>4, <1>5 DEF Requests
<1> HIDE DEF pending
<1>7. IsInjective(AllQueues) /\ Elements(AllQueues) = Elements(pending) \cup Flying
  <2> DEFINE pr == pending \o running_q
  <2>1. /\ IsInjective(running_q) /\ IsInjective(swapped_q) /\ Elements(running_q) = Running
        /\ Elements(swapped_q) = Swapped /\ Running \cap Swapped = {}
    BY <1>1, Zenon DEF FlightTells, Running, Swapped
  <2>2. Elements(pending) \cap Running = {} /\ Elements(pending) \cap Swapped = {}
    BY <1>6 DEF Flying
  <2>3. /\ pr \in Seq(Requests) /\ IsInjective(pr) /\ Elements(pr) = Elements(pending) \cup Running
    <3>0. pending \in Seq(Requests) /\ running_q \in Seq(Requests) /\ IsInjective(pending)
      BY <1>2, <1>4
    <3>1. pr \in Seq(Requests) /\ Elements(pr) = Elements(pending) \cup Elements(running_q)
      BY <3>0, ConcatList, SMTT(30)
    <3>2. Elements(pending) \cap Elements(running_q) = {}
      BY <2>1, <2>2, Zenon
    <3>3. IsInjective(pr)
      BY <2>1, <3>0, <3>2, ConcatList, SMTT(30)
    <3> QED BY <2>1, <3>1, <3>3, Zenon
  <2> HIDE DEF pr
  <2>4. Elements(pr) \cap Elements(swapped_q) = {}
    BY <2>1, <2>2, <2>3
  <2>5. /\ IsInjective(pr \o swapped_q) /\ Elements(pr \o swapped_q) = Elements(pr) \cup Swapped
    BY <1>2, <2>1, <2>3, <2>4, ConcatList
  <2>6. AllQueues = pr \o swapped_q
    BY Zenon DEF AllQueues, pr, pending
  <2> QED BY <2>3, <2>5, <2>6 DEF Flying
<1> DEFINE there == {r \in 1 .. arrived : IsFinished(r) => stage = "finish" /\ Contains(cur_batch, r)}
<1>8. \A r \in Requests : r > NumAdmitted => ~IsFinished(r)
  <2> TAKE r \in Requests
  <2>1. output_len[r] \in OutputLens
    BY <1>1 DEF QueueTypes
  <2>2. output_len[r] # 0
    BY <2>1, Constants
  <2> QED BY <1>1, <2>2 DEF FlightTells, IsFinished
<1>9. ASSUME NEW r \in Elements(pending) PROVE r \in there
  <2>1. r \in Requests /\ r \in 1 .. arrived /\ r > NumAdmitted
    BY <1>3, <1>4, <1>9 DEF Requests
  <2> QED BY <1>8, <2>1
<1>10. ASSUME NEW r \in 1 .. arrived PROVE r \in there <=> r \in Elements(pending) \cup Flying
  <2>1. r \in Requests
    BY <1>3 DEF Requests
  <2>2. CASE r > NumAdmitted
    BY <1>3, <1>4, <1>9, <2>2
  <2>3. CASE ~(r > NumAdmitted)
    <3>1. r <= NumAdmitted /\ ~(r \in Elements(pending))
      BY <1>3, <1>4, <2>3
    <3>2. Contains(cur_batch, r) <=> r \in Elements(cur_batch)
      BY <1>2, ContainsElements
    <3>3. r \in Flying <=> (IsFinished(r) => stage = "finish" /\ r \in Elements(cur_batch))
      BY <1>1, <2>1, <3>1, Zenon DEF FlightTells
    <3> QED BY <3>1, <3>2, <3>3
  <2> QED BY <2>2, <2>3
<1>11. Elements(pending) \cup Flying \subseteq 1 .. arrived
  BY <1>3, <1>4, <1>5 DEF Requests
<1>12. Elements(AllQueues) = there
  <2>1. there \subseteq 1 .. arrived
    OBVIOUS
  <2> HIDE DEF there
  <2> QED BY <1>7, <1>10, <1>11, <2>1
<1>13. ToSet(AllQueues) = there
  BY <1>12, ElementsOf, Zenon
<1> QED BY <1>7, <1>13, Zenon DEF NoRequestLost

(* Whatever raises, a request that has arrived and is not finished is in   *)
(* exactly one queue, once, and a finished one is in none.                 *)
THEOREM ServingLosesNoRequest == Spec => []NoRequestLost
BY InvariantLosesNone, SpecIInv, PTL

-----------------------------------------------------------------------------
(* The engine does not exit.                                               *)

LEMMA CeilDivPositive ==
  ASSUME NEW d \in Nat \ {0}, NEW b \in Nat \ {0}
  PROVE  CeilDiv(d, b) \in Nat \ {0}
<1>1. d + b - 1 \in Nat /\ d + b - 1 >= b
  OBVIOUS
<1> DEFINE n == d + b - 1
<1>2. n \in Nat /\ n >= b /\ b \in Nat \ {0}
  BY <1>1
<1> HIDE DEF n
<1>3. n \div b \in Nat \ {0}
  BY <1>2
<1> QED BY <1>3 DEF CeilDiv, n

(* Layers are replaced for a request that finds no room without: it needs one at least. *)
LEMMA ReplacingNeedsOne ==
  ASSUME IInv, AdmitsByReplacing
  PROVE  next_unquantized_layer \in Nat \ {0} /\ next_unquantized_layer >= NumLayersToQuantizeMax
<1> DEFINE n == AdmissibleIn(num_gpu_blocks) + 1
<1>1. QueueTypes /\ LayerSide
  BY Zenon DEF IInv, QueueSide
<1>2. /\ n \in DOMAIN waiting_q /\ WithinLimits(n)
      /\ next_unquantized_layer >= NumLayersToQuantizeMax
      /\ next_unquantized_layer - ReplacementNeeded(n) >= 0
  BY Zenon DEF AdmitsByReplacing
<1>3. ~(BlocksWith(n) <= num_gpu_blocks)
  BY <1>1, <1>2, AdmissibleBounds
<1>4. BlocksWith(n) \in Nat
  <2>1. waiting_q \in Seq(Requests) /\ num_decoding_gpu_blocks \in Nat
    BY <1>1, Zenon DEF QueueTypes
  <2>2. n \in 0 .. Len(waiting_q)
    BY <1>2, <2>1
  <2> HIDE DEF n
  <2>3. First(waiting_q, n) \in Seq(Requests)
    BY <2>1, <2>2, FirstFacts, SMTT(30)
  <2>4. BlocksOf(First(waiting_q, n)) \in Nat
    BY <1>1, <2>3, BlocksOfNat, Zenon
  <2> QED BY <2>1, <2>4 DEF BlocksWith
<1> HIDE DEF n
<1>5. BlocksWith(n) - num_gpu_blocks \in Nat \ {0}
  BY <1>1, <1>3, <1>4 DEF LayerSide
<1>6. ReplacementNeeded(n) \in Nat \ {0}
  BY <1>5, Constants, CeilDivPositive, Zenon DEF ReplacementNeeded
<1>7. next_unquantized_layer \in Int
  BY <1>1, Constants DEF LayerSide, LayersTypeOK, Layers
<1> QED BY <1>2, <1>6, <1>7

LEMMA StartedGoesOn ==
  ASSUME NEW batch, NEW swapped_in, NEW swapped_out, Start(batch, swapped_in, swapped_out)
  PROVE  stage' # "exited"
<1>1. stage' \in {"swap_out", "swap_in", "forward", "schedule"}
  BY DEF Start
<1> QED BY <1>1

(* Only exit() ends the loop. *)
LEMMA OthersGoOn ==
  ASSUME stage # "exited", [Next]_vars, ~ScheduleExits
  PROVE  stage' # "exited"
<1>1. CASE AddRequest \/ TokenizationLoop
  BY <1>1 DEF AddRequest, TokenizationLoop, TakeTokenized, TakeUntokenized, Tokenized, MainLoopUnchanged
<1>2. CASE MainLoop
  <2>1. CASE SchedulePrefill \/ ScheduleReplacing
    BY <2>1, StartedGoesOn, Zenon DEF SchedulePrefill, ScheduleReplacing
  <2>2. CASE SchedulePreempting \/ ScheduleDecode
    BY <2>2, StartedGoesOn, Zenon DEF SchedulePreempting, ScheduleDecode
  <2>3. CASE SwapOut
    BY <2>3 DEF SwapOut, IterationRaises, EndIteration
  <2>4. CASE SwapIn
    BY <2>4 DEF SwapIn, IterationRaises, EndIteration
  <2>5. CASE Forward \/ ForwardNotAllocated \/ ForwardRaises
    BY <2>5 DEF Forward, ForwardNotAllocated, ForwardRaises, IterationRaises, EndIteration
  <2>6. CASE FinishBatch
    BY <2>6 DEF FinishBatch, EndIteration
  <2> QED BY <1>2, <2>1, <2>2, <2>3, <2>4, <2>5, <2>6, Zenon DEF MainLoop
<1>3. CASE UNCHANGED vars
  BY <1>3 DEF vars
<1> QED BY <1>1, <1>2, <1>3, Zenon DEF Next

(* The layers left suffice whenever layers are replaced for a request.     *)
NeverOneTooMany ==
  NumLayersToQuantize <= 2 \/ NumLayersToQuantize <= NumLayersToQuantizeMax + 1

LEMMA ExitsNever ==
  ASSUME IInv, NeverOneTooMany
  PROVE  ~ScheduleExits
<1> SUFFICES ASSUME ScheduleExits PROVE FALSE
  OBVIOUS
<1>1. AdmitsByReplacing /\ RunsOutOfLayers
  BY Zenon DEF ScheduleExits
<1>2. next_unquantized_layer \in Nat \ {0} /\ next_unquantized_layer >= NumLayersToQuantizeMax
  BY <1>1, ReplacingNeedsOne, Zenon
<1>3. next_unquantized_layer + 1 < NumLayersToQuantize
  BY <1>1, Zenon DEF RunsOutOfLayers
<1> QED BY <1>2, <1>3, Constants, ReplacementAssumption DEF NeverOneTooMany

(* The process ends itself only when more than two layers are replaced at  *)
(* a time and the reserve of layers left alone is smaller than that.       *)
THEOREM ServingKeepsRunning ==
  ASSUME NeverOneTooMany
  PROVE  Spec => []KeepsRunning
<1> DEFINE Going == stage # "exited"
<1>1. Init => Going
  BY DEF Init
<1>2. IInv /\ Going /\ [Next]_vars => Going'
  BY ExitsNever, OthersGoOn, Zenon
<1>3. IInv /\ Going => KeepsRunning
  <2> SUFFICES ASSUME IInv, Going PROVE KeepsRunning
    OBVIOUS
  <2>1. Len(running_q) <= MaxBatchSize
    BY Zenon DEF IInv, QueueSide, FlightTells
  <2> QED BY <2>1 DEF KeepsRunning
<1> HIDE DEF Going
<1> QED BY <1>1, <1>2, <1>3, SpecIInv, PTL DEF Spec

-----------------------------------------------------------------------------
(* The scheduler's layer replacement is atomic morphing.                   *)

ServedW4 == Position(layer_quant_list)
ServedLent == Position(k_cache_new)
UsedBlocks == UNION {ToSet(gpu_table[i]) : i \in RequestIds}
NumReplaced == Len(layer_quant_list)

(* The replaced layers are the first positions, each lends its group, and the requests
   use blocks of the pool that results. *)
LayersMapped ==
  /\ NumReplaced \in 0 .. NumLayers
  /\ ServedW4 = Prefix(NumReplaced) /\ ServedLent = Prefix(NumReplaced)
  /\ UsedBlocks \subseteq Morphing!Blocks(NumReplaced)
  /\ next_unquantized_layer = NumLayers - 1 - NumReplaced

LEMMA ServedMapped == ASSUME IInv PROVE LayersMapped
<1> DEFINE m == NumReplaced
<1>1. LayerSide /\ GpuTells
  BY Zenon DEF IInv
<1>2. /\ m \in 0 .. NumLayers
      /\ layer_quant_list = [i \in 1 .. m |-> NumLayers - i]
      /\ k_cache_new = layer_quant_list
      /\ next_unquantized_layer = NumLayers - 1 - m
      /\ gpu_num_blocks = NumGpuBlocks + m * LentBlocks
  BY <1>1, LayerFacts, Zenon DEF NumReplaced
<1> HIDE DEF m
<1>3. Position(layer_quant_list) = Prefix(m)
  <2>1. DOMAIN layer_quant_list = 1 .. m /\ \A i \in 1 .. m : NumLayers - layer_quant_list[i] = i
    BY <1>2, Constants
  <2> QED BY <2>1 DEF Position, Prefix
<1>4. UsedBlocks \subseteq 1 .. gpu_num_blocks
  <2>1. OnePlaceEach(RequestIds, 1 .. gpu_num_blocks, gpu_free, gpu_num_free, gpu_table)
    BY <1>1, Zenon DEF GpuTells, GpuPool, DeviceTells
  <2>2. \A s \in RequestIds : \A i \in DOMAIN gpu_table[s] : gpu_table[s][i] \in 1 .. gpu_num_blocks
    BY <2>1, Zenon DEF OnePlaceEach
  <2>3. \A s \in RequestIds : ToSet(gpu_table[s]) \subseteq 1 .. gpu_num_blocks
    BY <2>2, Zenon DEF ToSet
  <2> QED BY <2>3 DEF UsedBlocks
<1> QED BY <1>2, <1>3, <1>4 DEF LayersMapped, Morphing!Blocks, ServedW4, ServedLent, m

(* A step that replaces or restores layers does nothing to the block table. *)
LEMMA LayersMoveAlone ==
  ASSUME IInv, [Next]_vars
  PROVE  \/ next_unquantized_layer' = next_unquantized_layer
         \/ /\ gpu_table' = gpu_table
            /\ next_unquantized_layer' - next_unquantized_layer \in -NumLayersToQuantize .. NumLayersToQuantize
<1>1. LayerSide /\ NumLayersToQuantize \in Nat
  BY Constants, Zenon DEF IInv
<1>2. next_unquantized_layer \in Int
  BY <1>1, Constants DEF LayerSide, LayersTypeOK, Layers
<1>3. ASSUME NEW n \in Nat, n <= NumLayersToQuantize, ReplaceLayers(n) \/ RestoreLayers(n)
      PROVE  next_unquantized_layer' - next_unquantized_layer \in -NumLayersToQuantize .. NumLayersToQuantize
  <2>1. next_unquantized_layer' = next_unquantized_layer - n \/ next_unquantized_layer' = next_unquantized_layer + n
    BY <1>3, Zenon DEF ReplaceLayers, RestoreLayers, Org2Quant, Quant2Org
  <2> QED BY <1>1, <1>2, <1>3, <2>1
<1>4. ASSUME NEW w PROVE Restorable(w) \in Nat /\ Restorable(w) <= NumLayersToQuantize
  BY <1>1, RestorableUnused
<1>5. ReplacedToDecode \in Nat /\ ReplacedToDecode <= NumLayersToQuantize
  BY <1>1, ReplacedBounds, Zenon
<1>6. CASE AddRequest \/ TokenizationLoop
  BY <1>6 DEF AddRequest, TokenizationLoop, TakeTokenized, TakeUntokenized, Tokenized, MainLoopUnchanged,
              planVars, layerVars
<1>7. CASE MainLoop
  <2>1. CASE SchedulePrefill
    <3>1. RestoreLayers(Restorable(Rest(waiting_q, Admissible))) /\ gpu_table' = gpu_table
      BY <2>1, Zenon DEF SchedulePrefill, OutsideSchedulerUnchanged
    <3> QED BY <1>3, <1>4, <3>1, Zenon
  <2>2. CASE ScheduleReplacing
    <3>1. ReplaceLayers(NumLayersToQuantize) /\ gpu_table' = gpu_table
      BY <2>2, Zenon DEF ScheduleReplacing, OutsideSchedulerUnchanged
    <3>2. NumLayersToQuantize <= NumLayersToQuantize
      BY <1>1
    <3> QED BY <1>1, <1>3, <3>1, <3>2, Zenon
  <2>3. CASE SchedulePreempting \/ ScheduleDecode
    <3>1. /\ ReplaceLayers(ReplacedToDecode) \/ RestoreLayers(Restorable(waiting_q))
          /\ gpu_table' = gpu_table
      BY <2>3, Zenon DEF SchedulePreempting, ScheduleDecode, OutsideSchedulerUnchanged
    <3> QED BY <1>3, <1>4, <1>5, <3>1, Zenon
  <2>4. CASE ScheduleExits \/ FinishBatch
    BY <2>4 DEF ScheduleExits, FinishBatch, planVars, layerVars
  <2>5. CASE SwapOut \/ SwapIn \/ Forward \/ ForwardNotAllocated \/ ForwardRaises
    <3>1. OutsideModelUnchanged
      BY <2>5, Zenon DEF SwapOut, SwapIn, Forward, ForwardNotAllocated, ForwardRaises
    <3> QED BY <3>1 DEF OutsideModelUnchanged, layerVars
  <2> QED BY <1>7, <2>1, <2>2, <2>3, <2>4, <2>5, Zenon DEF MainLoop
<1>8. CASE UNCHANGED vars
  BY <1>8 DEF vars
<1> QED BY <1>6, <1>7, <1>8, Zenon DEF Next

(* Every step replaces a run of layers, restores one, or serves. *)
LEMMA ServingStepRefines ==
  ASSUME IInv, LayersMapped, LayersMapped', [Next]_vars
  PROVE  Morphing!Next
<1> DEFINE m == NumReplaced
           n == NumReplaced'
           L == NumLayersToQuantize
<1>1. /\ m \in 0 .. NumLayers /\ n \in 0 .. NumLayers /\ L \in Nat /\ NumLayers \in Nat
      /\ ServedW4 = Prefix(m) /\ ServedLent = Prefix(m) /\ ServedW4' = Prefix(n) /\ ServedLent' = Prefix(n)
      /\ UsedBlocks' \subseteq Morphing!Blocks(n)
      /\ next_unquantized_layer = NumLayers - 1 - m
      /\ next_unquantized_layer' = NumLayers - 1 - n
  BY Constants DEF LayersMapped
<1>2. n = m \/ (gpu_table' = gpu_table /\ n - m \in -L .. L)
  <2>1. \/ next_unquantized_layer' = next_unquantized_layer
        \/ gpu_table' = gpu_table /\ next_unquantized_layer' - next_unquantized_layer \in -L .. L
    BY LayersMoveAlone, Zenon
  <2> HIDE DEF m, n
  <2> QED BY <1>1, <2>1
<1>3. gpu_table' = gpu_table => UsedBlocks' = UsedBlocks
  BY DEF UsedBlocks
<1>4. Len(ServedW4) = m /\ Len(ServedLent) = m
  BY <1>1 DEF Prefix
<1> HIDE DEF m, n
<1>5. CASE n = m
  <2>1. Morphing!Serve
    BY <1>1, <1>4, <1>5 DEF Morphing!Serve, ServedW4, ServedLent, UsedBlocks
  <2> QED BY <2>1 DEF Morphing!Next
<1>6. CASE n > m
  <2> DEFINE d == n - m
  <2>1. d \in 1 .. L /\ m + d = n /\ n <= NumLayers /\ UsedBlocks' = UsedBlocks
    BY <1>1, <1>2, <1>3, <1>6
  <2> HIDE DEF d
  <2>2. Prefix(n) = [i \in 1 .. m + d |-> IF i <= m THEN Prefix(m)[i] ELSE i]
    BY <1>1, <2>1 DEF Prefix
  <2>3. Morphing!Commit(d)
    BY <1>1, <1>4, <2>1, <2>2, Zenon DEF Morphing!Commit, ServedW4, ServedLent, UsedBlocks
  <2> QED BY <2>1, <2>3 DEF Morphing!Next
<1>7. CASE n < m
  <2> DEFINE d == m - n
  <2>1. d \in 1 .. L /\ m - d = n /\ n >= 0 /\ UsedBlocks' = UsedBlocks
    BY <1>1, <1>2, <1>3, <1>7
  <2> HIDE DEF d
  <2>2. Prefix(n) = SubSeq(Prefix(m), 1, n)
    BY <1>1, <1>7, ListLengths DEF Prefix
  <2>3. Morphing!Release(d)
    BY <1>1, <1>4, <2>1, <2>2, Zenon DEF Morphing!Release, ServedW4, ServedLent, UsedBlocks
  <2> QED BY <2>1, <2>3 DEF Morphing!Next
<1> QED BY <1>1, <1>5, <1>6, <1>7

LEMMA ServingInitRefines == ASSUME AwqLayers = 0, Init PROVE Morphing!Init
<1>1. /\ layer_quant_list = [i \in 1 .. AwqLayers |-> NumLayers - i]
      /\ k_cache_new = layer_quant_list
      /\ gpu_table = [i \in RequestIds |-> <<>>]
  BY DEF Init, LayersInit
<1>2. Position(layer_quant_list) = <<>> /\ Position(k_cache_new) = <<>>
  BY <1>1 DEF Position
<1>3. UsedBlocks = {}
  BY <1>1 DEF UsedBlocks, ToSet
<1> QED BY <1>2, <1>3 DEF Morphing!Init, UsedBlocks

(* Without awq_mode, which replaces layers for good, every step of the     *)
(* engine adds the memory of a whole run of replaced layers to the pool,   *)
(* takes the newest groups back while none of their blocks is in use, or   *)
(* leaves the layers alone.                                                *)
THEOREM ServingImplementsAtomicMorphing ==
  ASSUME AwqLayers = 0
  PROVE  Spec => ImplementsAtomicMorphing
<1>1. Init => Morphing!Init
  BY ServingInitRefines
<1>2. IInv => LayersMapped
  BY ServedMapped
<1>3. IInv /\ LayersMapped /\ LayersMapped' /\ [Next]_vars => [Morphing!Next]_(Morphing!vars)
  BY ServingStepRefines
<1> QED BY <1>1, <1>2, <1>3, SpecIInv, PTL DEF Spec, ImplementsAtomicMorphing, Morphing!Spec
=============================================================================
