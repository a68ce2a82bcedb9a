-------------------------- MODULE LentMemoryProofs --------------------------
(***************************************************************************)
(* For every layout of the memory: where groups lie, which address a slot  *)
(* of the pool has, and what the cells hold: weights as they were          *)
(* installed, keys and values as they were stored; and that attention      *)
(* gives the softmax over them that it is defined to give.                 *)
(***************************************************************************)
EXTENDS LentInvariant, SublistTheorems

-----------------------------------------------------------------------------
(* Arithmetic                                                              *)

(* Division by a positive number, as the solvers need it.                  *)
LEMMA Division ==
  ASSUME NEW x \in Nat, NEW d \in Nat \ {0}
  PROVE  /\ x \div d \in Nat
         /\ (x \div d) * d <= x
         /\ x < (x \div d) * d + d
  OBVIOUS

(* Dividing an index of n runs of d gives the number of its run.           *)
LEMMA RunOfIndex ==
  ASSUME NEW n \in Nat, NEW d \in Nat \ {0}, NEW x \in 0 .. n * d - 1
  PROVE  x \div d \in 0 .. n - 1
  <1>1. /\ x \div d \in Nat
        /\ (x \div d) * d <= x
    BY Division
  <1>2. ASSUME x \div d >= n PROVE FALSE
    BY <1>1, <1>2
  <1> QED
    BY <1>1, <1>2

(* The sizes of layers and blocks are numbers, and a packed layer fits its *)
(* region.                                                                 *)
LEMMA Sizes ==
  /\ LayerSize \in Nat \ {0} /\ PackedLayerSize \in Nat \ {0}
  /\ PackedLayerSize <= LayerSize
  /\ HalfBlock \in Nat \ {0}
  /\ Align \in Nat \ {0} /\ TopLevelSize \in Nat
  BY LayoutAssumption, PackedFits DEF LayerSize, PackedLayerSize, HalfBlock

(* The region of a layer ends before the next one begins.                  *)
LEMMA RegionsInOrder ==
  ASSUME NEW l \in Layers, NEW m \in Layers, l < m
  PROVE  /\ RegionOf(l) \in Nat /\ RegionOf(m) \in Nat
         /\ RegionOf(l) + LayerSize <= RegionOf(m)
  BY Sizes, LayoutAssumption DEF RegionOf, Layers

(* Rounding up to the alignment never goes down.                           *)
LEMMA AlignsUpwards ==
  ASSUME NEW a \in Nat
  PROVE  Aligned(a) \in Nat /\ a <= Aligned(a)
  BY Sizes, Division DEF Aligned

-----------------------------------------------------------------------------
(* One tail                                                                *)

(* What acquire_new_kvcache hands out: at least one block, and nothing     *)
(* outside of the region or on the packed weights.                         *)
LEMMA TailFits ==
  ASSUME NEW l \in Layers, ~LendsNothing(l)
  PROVE  LET g == AcquireNewKvCache(l) IN
         /\ g.layer = l
         /\ g.blocks \in Nat \ {0} /\ g.k \in Nat /\ g.v \in Nat
         /\ g.v = g.k + g.blocks * HalfBlock
         /\ RegionOf(l) \in Nat
         /\ RegionOf(l) + PackedLayerSize <= g.k
         /\ g.v + g.blocks * HalfBlock <= RegionOf(l) + LayerSize
  <1> DEFINE start == TailStart(l) - RegionOf(l)
             left == LayerSize - start
             n == TailBlocks(l)
  <1>1. RegionOf(l) \in Nat
    BY Sizes DEF RegionOf, Layers
  <1>2. TailStart(l) \in Nat /\ RegionOf(l) + PackedLayerSize <= TailStart(l)
    BY <1>1, Sizes, AlignsUpwards DEF TailStart
  <1>3. left \in Nat /\ 2 * HalfBlock \in Nat \ {0}
    BY <1>1, <1>2, Sizes DEF LendsNothing
  <1>4. n = left \div (2 * HalfBlock)
    BY DEF TailBlocks
  <1>5. n \in Nat /\ n * (2 * HalfBlock) <= left
    <2> HIDE DEF left, n
    <2> QED
      BY <1>3, <1>4, Division
  <1>6. n # 0
    BY DEF LendsNothing
  <1>7. n * HalfBlock \in Nat /\ n * (2 * HalfBlock) = n * HalfBlock + n * HalfBlock
    BY <1>5, Sizes
  <1> QED
    <2> HIDE DEF n
    <2>1. AcquireNewKvCache(l) = [layer |-> l, blocks |-> n, k |-> TailStart(l), v |-> TailStart(l) + n * HalfBlock]
      BY DEF AcquireNewKvCache, n
    <2> QED
      BY <1>1, <1>2, <1>5, <1>6, <1>7, <2>1, Sizes

-----------------------------------------------------------------------------
(* The groups                                                              *)

(* A group is what acquire_new_kvcache makes of its own layer.             *)
LEMMA GroupFacts ==
  ASSUME NEW g \in LentGroups
  PROVE  /\ g = AcquireNewKvCache(g.layer)
         /\ g.layer \in Layers /\ ~LendsNothing(g.layer)
  <1>1. PICK l \in Layers : ~LendsNothing(l) /\ g = AcquireNewKvCache(l)
    BY DEF LentGroups
  <1>2. g.layer = l
    BY <1>1, TailFits
  <1> QED
    BY <1>1, <1>2

(* The invariant is stronger than LentTailsApart.                          *)
LEMMA GroupsInvImplies ==
  ASSUME GroupsInv
  PROVE  LentTailsApart
  <1> SUFFICES ASSUME NEW i \in DOMAIN kv_groups
               PROVE  CellsOf(kv_groups[i]) \subseteq
                        RegionOf(kv_groups[i].layer) + PackedLayerSize
                          .. RegionOf(kv_groups[i].layer) + LayerSize - 1
    BY DEF GroupsInv, LentTailsApart
  <1> DEFINE g == kv_groups[i]
  <1>1. g \in LentGroups
    BY DEF GroupsInv
  <1>2. g.layer \in Layers /\ ~LendsNothing(g.layer) /\ g = AcquireNewKvCache(g.layer)
    BY <1>1, GroupFacts
  <1>3. /\ g.k \in Nat /\ g.v \in Nat /\ g.blocks \in Nat
        /\ RegionOf(g.layer) \in Nat
        /\ RegionOf(g.layer) + PackedLayerSize <= g.k
        /\ g.v + g.blocks * HalfBlock <= RegionOf(g.layer) + LayerSize
    BY <1>2, TailFits
  <1> HIDE DEF g
  <1>4. CellsOf(g) \subseteq RegionOf(g.layer) + PackedLayerSize .. RegionOf(g.layer) + LayerSize - 1
    BY <1>3, Sizes DEF CellsOf
  <1> QED
    BY <1>4 DEF g

-----------------------------------------------------------------------------
(* The steps                                                               *)

(* At the start no layer lends memory.                                     *)
LEMMA GroupsInit ==
  ASSUME Init
  PROVE  GroupsInv
  <1>1. kv_groups = <<>> /\ explicit_kv_regions = FALSE /\ precision = [l \in Layers |-> "fp16"]
    BY DEF Init
  <1>2. ExplicitNeeded(kv_groups) = FALSE
    BY <1>1 DEF ExplicitNeeded
  <1>3. kv_groups \in Seq(LentGroups) /\ DOMAIN kv_groups = {}
    BY <1>1
  <1> QED
    BY <1>1, <1>2, <1>3 DEF GroupsInv

(* Replacing a layer keeps the invariant.                                  *)
LEMMA MorphKeepsGroups ==
  ASSUME GroupsInv, NEW l \in Layers, MorphToW4(l)
  PROVE  GroupsInv'
  BY DEF GroupsInv, MorphToW4, GroupSize

(* A layer that is restored lends nothing.                                 *)
LEMMA RestoreKeepsGroups ==
  ASSUME GroupsInv, NEW l \in Layers, RestoreFp16(l)
  PROVE  GroupsInv'
  <1>1. \A i \in DOMAIN kv_groups : kv_groups[i].layer # l
    BY DEF RestoreFp16, Grouped
  <1>2. \A i \in DOMAIN kv_groups : kv_groups[i].layer \in Layers
    BY GroupFacts DEF GroupsInv
  <1> QED
    BY <1>1, <1>2 DEF GroupsInv, RestoreFp16, GroupSize

(* Lending adds a group of the common size of a layer not yet lending.     *)
LEMMA ExpandKeepsGroups ==
  ASSUME GroupsInv, NEW l \in Layers, ExpandKv(l)
  PROVE  GroupsInv'
  <1> DEFINE g == AcquireNewKvCache(l)
             n == Len(kv_groups)
  <1>1. /\ g \in LentGroups /\ g.layer = l
        /\ precision[l] = "w4"
        /\ \A i \in DOMAIN kv_groups : kv_groups[i].layer # l
        /\ kv_groups # <<>> => g.blocks = GroupSize
        /\ kv_groups' = Append(kv_groups, g)
        /\ explicit_kv_regions' = ExplicitNeeded(kv_groups')
        /\ precision' = precision
    BY TailFits DEF ExpandKv, LentGroups, Grouped
  <1>2. kv_groups \in Seq(LentGroups)
    BY DEF GroupsInv
  <1> HIDE DEF g
  <1>3. /\ kv_groups' \in Seq(LentGroups)
        /\ DOMAIN kv_groups = 1 .. n /\ n \in Nat
        /\ DOMAIN kv_groups' = 1 .. n + 1
        /\ \A i \in 1 .. n : kv_groups'[i] = kv_groups[i]
        /\ kv_groups'[n + 1] = g
    BY <1>1, <1>2
  <1>4. kv_groups' # <<>>
    BY <1>3
  <1>5. GroupSize' = g.blocks
    <2>1. CASE kv_groups = <<>>
      BY <1>3, <1>4, <2>1 DEF GroupSize
    <2>2. CASE kv_groups # <<>>
      <3>1. n >= 1
        BY <1>3, <2>2
      <3> QED
        BY <1>1, <1>3, <1>4, <2>2, <3>1 DEF GroupSize
    <2> QED
      BY <2>1, <2>2
  <1>6. \A i \in 1 .. n : kv_groups[i].blocks = g.blocks
    <2> SUFFICES ASSUME NEW i \in 1 .. n PROVE kv_groups[i].blocks = g.blocks
      OBVIOUS
    <2>1. kv_groups # <<>>
      BY <1>3
    <2> QED
      BY <1>1, <1>3, <2>1 DEF GroupsInv
  <1>7. ASSUME NEW i \in DOMAIN kv_groups'
        PROVE  /\ kv_groups'[i].blocks = GroupSize'
               /\ precision'[kv_groups'[i].layer] = "w4"
               /\ \A j \in DOMAIN kv_groups' \ {i} : kv_groups'[j].layer # kv_groups'[i].layer
    <2>1. CASE i \in 1 .. n
      BY <1>1, <1>3, <1>5, <1>6, <2>1 DEF GroupsInv
    <2>2. CASE i = n + 1
      BY <1>1, <1>3, <1>5, <2>2
    <2> QED
      BY <1>3, <1>7, <2>1, <2>2
  <1> QED
    BY <1>1, <1>3, <1>7 DEF GroupsInv

(* Taking the newest group back keeps the invariant of the others.         *)
LEMMA ShrinkKeepsGroups ==
  ASSUME GroupsInv, ShrinkKv
  PROVE  GroupsInv'
  <1> DEFINE n == Len(kv_groups)
  <1>1. /\ kv_groups # <<>>
        /\ kv_groups' = SubSeq(kv_groups, 1, n - 1)
        /\ explicit_kv_regions' = ExplicitNeeded(kv_groups')
        /\ precision' = precision
    BY DEF ShrinkKv, Front
  <1>2. kv_groups \in Seq(LentGroups)
    BY DEF GroupsInv
  <1>3. /\ kv_groups' \in Seq(LentGroups)
        /\ DOMAIN kv_groups = 1 .. n /\ n \in Nat \ {0}
        /\ DOMAIN kv_groups' = 1 .. n - 1
        /\ \A i \in 1 .. n - 1 : kv_groups'[i] = kv_groups[i]
    BY <1>1, <1>2
  <1>4. ASSUME NEW i \in DOMAIN kv_groups'
        PROVE  kv_groups'[i].blocks = GroupSize'
    <2>1. 1 \in DOMAIN kv_groups /\ kv_groups'[1] = kv_groups[1] /\ kv_groups' # <<>>
      BY <1>3, <1>4
    <2>2. GroupSize' = GroupSize
      BY <1>1, <2>1 DEF GroupSize
    <2> QED
      BY <1>3, <1>4, <2>2 DEF GroupsInv
  <1> QED
    BY <1>1, <1>3, <1>4 DEF GroupsInv

(* Every step keeps the invariant; passes leave the groups alone.          *)
LEMMA GroupsStep ==
  ASSUME GroupsInv, [Next]_vars
  PROVE  GroupsInv'
  <1>1. CASE UNCHANGED layerVars
    BY <1>1 DEF layerVars, GroupsInv, GroupSize
  <1>2. CASE ChangeLayers
    BY <1>2, MorphKeepsGroups, RestoreKeepsGroups, ExpandKeepsGroups, ShrinkKeepsGroups
      DEF ChangeLayers
  <1>3. CASE StartPrefill \/ StartDecoding
    BY <1>1, <1>3 DEF StartPrefill, StartDecoding, StartPass
  <1>4. CASE StoreKv \/ Attend \/ FinishLayer
    BY <1>1, <1>4 DEF StoreKv, Attend, FinishLayer
  <1>5. CASE \E r \in Requests : FreeSeq(r)
    BY <1>1, <1>5 DEF FreeSeq
  <1>6. CASE UNCHANGED vars
    BY <1>1, <1>6 DEF vars, layerVars
  <1> QED
    BY <1>2, <1>3, <1>4, <1>5, <1>6 DEF Next

(* GroupsInv holds in every reachable state.                               *)
THEOREM SpecGroupsInv == Spec => []GroupsInv
  <1>1. Init => GroupsInv
    BY GroupsInit
  <1>2. GroupsInv /\ [Next]_vars => GroupsInv'
    BY GroupsStep
  <1> QED
    BY <1>1, <1>2, PTL DEF Spec

(* The group of every lending layer lies behind the packed weights of that *)
(* layer and within its region, for every layout and order of lending.     *)
THEOREM SpecLentTailsApart == Spec => []LentTailsApart
  <1>1. GroupsInv => LentTailsApart
    BY GroupsInvImplies
  <1> QED
    BY <1>1, SpecGroupsInv, PTL

-----------------------------------------------------------------------------
(* Addresses                                                               *)

(* What ~explicit_kv_regions means: the groups follow each other           *)
(* downwards, one layer apart, and their values lie as their keys do.      *)
LEMMA GroupsStride ==
  ASSUME GroupsInv, ~explicit_kv_regions, NEW g \in DOMAIN kv_groups, NEW kv \in KV
  PROVE  kv_groups[g][kv] = kv_groups[1][kv] - (g - 1) * LayerSize
  <1> DEFINE n == Len(kv_groups)
  <1>1. /\ kv_groups \in Seq(LentGroups)
        /\ DOMAIN kv_groups = 1 .. n /\ n \in Nat /\ g \in 1 .. n /\ 1 \in DOMAIN kv_groups
    BY DEF GroupsInv
  <1>2. ASSUME NEW i \in {1, g}
        PROVE  /\ kv_groups[i].k \in Nat /\ GroupSize \in Nat
               /\ kv_groups[i].v = kv_groups[i].k + GroupSize * HalfBlock
    <2>1. kv_groups[i] \in LentGroups /\ kv_groups[i].blocks = GroupSize
      BY <1>1 DEF GroupsInv
    <2> QED
      BY <2>1, GroupFacts, TailFits
  <1>3. kv_groups[g].k = kv_groups[1].k - (g - 1) * LayerSize
    <2>1. CASE n >= 2
      BY <1>1, <2>1 DEF GroupsInv, ExplicitNeeded
    <2>2. CASE n < 2
      <3>1. g = 1
        BY <1>1, <2>2
      <3> QED
        BY <1>2, <3>1, Sizes
    <2> QED
      BY <1>1, <2>1, <2>2
  <1>4. kv_groups[g].v = kv_groups[1].v - (g - 1) * LayerSize
    <2>1. (g - 1) * LayerSize \in Int /\ GroupSize * HalfBlock \in Int
      BY <1>1, <1>2, Sizes
    <2> QED
      BY <1>2, <1>3, <2>1
  <1> QED
    BY <1>3, <1>4 DEF KV

(* The number of the group a lent block is in, and of the block in it.     *)
LEMMA LentIndex ==
  ASSUME GroupsInv,
         NEW index \in NumBlocksOrg .. NumBlocksOrg + Len(kv_groups) * GroupSize - 1
  PROVE  LET skip == (index - NumBlocksOrg) \div GroupSize IN
         /\ GroupSize \in Nat \ {0}
         /\ skip \in 0 .. Len(kv_groups) - 1
         /\ index - NumBlocksOrg - skip * GroupSize \in 0 .. GroupSize - 1
  <1> DEFINE n == Len(kv_groups)
             lent == index - NumBlocksOrg
  <1>1. n \in Nat /\ DOMAIN kv_groups = 1 .. n /\ NumBlocksOrg \in Nat
    BY LentAssumption DEF GroupsInv
  <1>2. kv_groups # <<>>
    BY <1>1 DEF GroupSize
  <1>3. GroupSize \in Nat \ {0}
    <2>1. n # 0 /\ 1 \in DOMAIN kv_groups
      BY <1>1, <1>2 DEF GroupsInv
    <2>2. kv_groups[1] \in LentGroups /\ kv_groups[1].blocks = GroupSize
      BY <2>1 DEF GroupsInv
    <2> QED
      BY <2>2, GroupFacts, TailFits
  <1>4. lent \in 0 .. n * GroupSize - 1
    BY <1>1, <1>3
  <1>5. lent \div GroupSize \in 0 .. n - 1
    BY <1>1, <1>3, <1>4, RunOfIndex
  <1>6. lent - (lent \div GroupSize) * GroupSize \in 0 .. GroupSize - 1
    <2> HIDE DEF lent
    <2>1. lent \in Nat
      BY <1>4
    <2>2. /\ lent \div GroupSize \in Nat
          /\ (lent \div GroupSize) * GroupSize <= lent
          /\ lent < (lent \div GroupSize) * GroupSize + GroupSize
      BY <2>1, <1>3, Division
    <2>3. (lent \div GroupSize) * GroupSize \in Nat
      BY <1>3, <2>2
    <2> QED
      BY <2>1, <2>2, <2>3, <1>3
  <1> QED
    BY <1>3, <1>5, <1>6

(* The invariant is stronger than CombinedReaches.                         *)
LEMMA GroupsInvReaches ==
  ASSUME GroupsInv
  PROVE  CombinedReaches
  <1> SUFFICES ASSUME ~explicit_kv_regions, NEW kv \in KV,
                      NEW index \in 0 .. NumBlocksOrg + Len(kv_groups) * GroupSize - 1,
                      NEW layer \in Layers, NEW offset \in 0 .. BlockSize - 1
               PROVE  CombinedAddress(Caches, kv, index, layer, offset)
                        = OwnAddress(Caches, kv, index, layer, offset)
    BY DEF CombinedReaches
  <1> DEFINE skip == (index - NumBlocksOrg) \div GroupSize
             local == index - NumBlocksOrg - skip * GroupSize
  <1>1. /\ Caches.num_blocks_org = NumBlocksOrg /\ Caches.groups = kv_groups
        /\ Caches.kv_cache_new_block_size = GroupSize
        /\ Caches.org_layer_param_size = LayerSize
        /\ NumBlocksOrg \in Nat
    BY LentAssumption DEF Caches
  <1>2. CASE index < NumBlocksOrg
    BY <1>1, <1>2 DEF CombinedAddress, OwnAddress
  <1>3. CASE ~(index < NumBlocksOrg)
    <2>1. index \in NumBlocksOrg .. NumBlocksOrg + Len(kv_groups) * GroupSize - 1
      BY <1>1, <1>3
    <2>2. /\ GroupSize \in Nat \ {0}
          /\ skip \in 0 .. Len(kv_groups) - 1
          /\ local \in 0 .. GroupSize - 1
      BY <2>1, LentIndex
    <2> HIDE DEF skip
    <2>3. LocalTable(Caches, skip + 1, index) = local
      <3>1. skip * GroupSize \in Nat
        BY <2>2
      <3> QED
        BY <1>1, <2>1, <2>2, <3>1 DEF LocalTable
    <2>4. OwnAddress(Caches, kv, index, layer, offset)
            = kv_groups[skip + 1][kv] + SlotOf(local, layer, offset)
      BY <1>1, <1>3, <2>3 DEF OwnAddress, skip
    <2>5. CombinedAddress(Caches, kv, index, layer, offset)
            = kv_groups[1][kv] - skip * LayerSize + SlotOf(local, layer, offset)
      BY <1>1, <1>3 DEF CombinedAddress, skip
    <2>6. PICK g \in DOMAIN kv_groups : g = skip + 1 /\ g - 1 = skip
      BY <2>2 DEF GroupsInv
    <2>7. kv_groups[g][kv] = kv_groups[1][kv] - (g - 1) * LayerSize
      BY GroupsStride
    <2> QED
      <3> HIDE DEF local
      <3> QED
        BY ONLY <2>4, <2>5, <2>6, <2>7, Zenon
  <1> QED
    BY <1>2, <1>3

(* Where the combined kernels are chosen they reach every slot of every    *)
(* block of the pool, for every layout and order of lending.               *)
THEOREM SpecCombinedReaches == Spec => []CombinedReaches
  <1>1. GroupsInv => CombinedReaches
    BY GroupsInvReaches
  <1> QED
    BY <1>1, SpecGroupsInv, PTL

-----------------------------------------------------------------------------
(* Slots                                                                   *)

(* The slots of the pool: a tensor, a block, a layer and an offset.        *)
Slots == KV \X (0 .. NumBlocksOrg + Len(kv_groups) * GroupSize - 1) \X Layers \X (0 .. BlockSize - 1)

AddressOf(s) == OwnAddress(Caches, s[1], s[2], s[3], s[4])

InWeights(a) ==
  \E l \in Layers :
    a - RegionOf(l) \in 0 .. (IF precision[l] = "fp16" THEN LayerSize ELSE PackedLayerSize) - 1

(* No slot of the pool lies in weights that are installed, and no two lie  *)
(* at one address.                                                         *)
SlotsApart ==
  \A s \in Slots :
    /\ ~InWeights(AddressOf(s))
    /\ \A t \in Slots : AddressOf(s) = AddressOf(t) => s = t

(* Division with remainder is unique.                                      *)
LEMMA Digits ==
  ASSUME NEW d \in Nat \ {0}, NEW a \in Nat, NEW b \in Nat,
         NEW x \in 0 .. d - 1, NEW y \in 0 .. d - 1,
         a * d + x = b * d + y
  PROVE  a = b /\ x = y
  <1>1. ASSUME NEW e \in Nat, NEW f \in Nat, NEW z \in 0 .. d - 1, NEW w \in 0 .. d - 1,
               e < f
        PROVE  e * d + z < f * d + w
    <2>1. e * d + d <= f * d
      BY <1>1
    <2>2. e * d \in Nat /\ f * d \in Nat
      OBVIOUS
    <2> QED
      BY <2>1, <2>2
  <1>2. ~(a < b) /\ ~(b < a)
    <2>1. a * d + x \in Nat /\ b * d + y \in Nat
      OBVIOUS
    <2> QED
      BY <1>1, <2>1
  <1>3. a = b
    BY <1>2
  <1> QED
    BY <1>3

(* The slots of n blocks are the first n * HalfBlock cells of a tensor.    *)
LEMMA SlotRange ==
  ASSUME NEW n \in Nat, NEW i \in 0 .. n - 1, NEW l \in Layers, NEW x \in 0 .. BlockSize - 1
  PROVE  /\ i * NumLayers + l \in Nat
         /\ SlotOf(i, l, x) \in 0 .. n * HalfBlock - 1
  <1>1. NumLayers \in Nat \ {0} /\ BlockSize \in Nat \ {0} /\ l \in 0 .. NumLayers - 1
    BY LayoutAssumption DEF Layers
  <1>2. i * NumLayers + l \in 0 .. n * NumLayers - 1
    <2>1. i * NumLayers + NumLayers <= n * NumLayers
      BY <1>1
    <2>2. i * NumLayers \in Nat /\ n * NumLayers \in Nat
      BY <1>1
    <2> QED
      BY <1>1, <2>1, <2>2
  <1> DEFINE p == i * NumLayers + l
             m == n * NumLayers
  <1>3. m \in Nat /\ m * BlockSize = n * HalfBlock
    BY <1>1 DEF HalfBlock
  <1>4. p * BlockSize + x \in 0 .. m * BlockSize - 1
    <2>1. p \in 0 .. m - 1
      BY <1>2
    <2> HIDE DEF p, m
    <2>2. p * BlockSize + BlockSize <= m * BlockSize
      BY <1>1, <1>3, <2>1
    <2>3. p * BlockSize \in Nat /\ m * BlockSize \in Nat
      BY <1>1, <1>3, <2>1
    <2> QED
      BY <1>1, <2>2, <2>3
  <1> QED
    BY <1>2, <1>3, <1>4 DEF SlotOf

(* A slot tells its block, its layer and its offset.                       *)
LEMMA SlotInjective ==
  ASSUME NEW i \in Nat, NEW l \in Layers, NEW x \in 0 .. BlockSize - 1,
         NEW j \in Nat, NEW m \in Layers, NEW y \in 0 .. BlockSize - 1,
         SlotOf(i, l, x) = SlotOf(j, m, y)
  PROVE  i = j /\ l = m /\ x = y
  <1>1. NumLayers \in Nat \ {0} /\ BlockSize \in Nat \ {0}
        /\ l \in 0 .. NumLayers - 1 /\ m \in 0 .. NumLayers - 1
    BY LayoutAssumption DEF Layers
  <1> DEFINE p == i * NumLayers + l
             q == j * NumLayers + m
  <1>2. p \in Nat /\ q \in Nat
    BY <1>1
  <1>3. p * BlockSize + x = q * BlockSize + y
    BY DEF SlotOf
  <1>4. p = q /\ x = y
    <2> HIDE DEF p, q
    <2> QED
      BY <1>1, <1>2, <1>3, Digits
  <1> QED
    BY <1>1, <1>4, Digits

-----------------------------------------------------------------------------
(* Tensors: the original cache is number 0, the group g is number g.       *)

TensorOfIndex(index) ==
  IF index < NumBlocksOrg THEN 0 ELSE (index - NumBlocksOrg) \div GroupSize + 1

LocalIndex(index) ==
  IF index < NumBlocksOrg THEN index
    ELSE index - NumBlocksOrg - (TensorOfIndex(index) - 1) * GroupSize

BlocksIn(tensor) == IF tensor = 0 THEN NumBlocksOrg ELSE GroupSize

Tensors == 0 .. Len(kv_groups)

Base(kv, tensor) == LaunchBase(Caches, kv, tensor)

AreaSize(tensor) == BlocksIn(tensor) * HalfBlock

(* The slot of a block lies where its tensor has the block.                *)
LEMMA SlotPlace ==
  ASSUME GroupsInv, NEW kv \in KV,
         NEW index \in 0 .. NumBlocksOrg + Len(kv_groups) * GroupSize - 1,
         NEW layer \in Layers, NEW offset \in 0 .. BlockSize - 1
  PROVE  /\ TensorOfIndex(index) \in Tensors
         /\ LocalIndex(index) \in 0 .. BlocksIn(TensorOfIndex(index)) - 1
         /\ OwnAddress(Caches, kv, index, layer, offset)
              = Base(kv, TensorOfIndex(index)) + SlotOf(LocalIndex(index), layer, offset)
  <1>1. /\ Caches.num_blocks_org = NumBlocksOrg /\ Caches.groups = kv_groups
        /\ Caches.kv_cache_new_block_size = GroupSize
        /\ NumBlocksOrg \in Nat /\ Len(kv_groups) \in Nat
    BY LentAssumption DEF Caches, GroupsInv
  <1>2. CASE index < NumBlocksOrg
    BY <1>1, <1>2
      DEF OwnAddress, TensorOfIndex, LocalIndex, Base, LaunchBase, BlocksIn, Tensors
  <1>3. CASE ~(index < NumBlocksOrg)
    <2> DEFINE skip == (index - NumBlocksOrg) \div GroupSize
    <2>1. index \in NumBlocksOrg .. NumBlocksOrg + Len(kv_groups) * GroupSize - 1
      BY <1>1, <1>3
    <2>2. /\ GroupSize \in Nat \ {0}
          /\ skip \in 0 .. Len(kv_groups) - 1
          /\ index - NumBlocksOrg - skip * GroupSize \in 0 .. GroupSize - 1
      BY <2>1, LentIndex
    <2>3. TensorOfIndex(index) = skip + 1
      BY <1>3 DEF TensorOfIndex
    <2> HIDE DEF skip
    <2>4. skip + 1 - 1 = skip /\ skip + 1 # 0 /\ skip + 1 \in Tensors /\ skip * GroupSize \in Nat
      BY <1>1, <2>2 DEF Tensors
    <2>5. LocalIndex(index) = index - NumBlocksOrg - skip * GroupSize
      <3>1. LocalIndex(index) = index - NumBlocksOrg - (TensorOfIndex(index) - 1) * GroupSize
        BY <1>3 DEF LocalIndex
      <3>2. TensorOfIndex(index) - 1 = skip
        <4>1. \A t : t = skip + 1 => t - 1 = skip
          BY <2>2
        <4> QED
          BY <2>3, <4>1
      <3> QED
        BY <3>1, <3>2, Zenon
    <2>6. LocalTable(Caches, skip + 1, index) = index - NumBlocksOrg - skip * GroupSize
      BY <1>1, <2>1, <2>2, <2>4 DEF LocalTable
    <2>7. OwnAddress(Caches, kv, index, layer, offset)
            = kv_groups[skip + 1][kv] + SlotOf(LocalIndex(index), layer, offset)
      BY <1>1, <1>3, <2>5, <2>6 DEF OwnAddress, skip
    <2>8. Base(kv, skip + 1) = kv_groups[skip + 1][kv] /\ BlocksIn(skip + 1) = GroupSize
      BY <1>1, <2>4 DEF Base, LaunchBase, BlocksIn
    <2> QED
      BY <2>2, <2>3, <2>4, <2>5, <2>7, <2>8
  <1> QED
    BY <1>2, <1>3

(* What is known of the tensors of a group.                                *)
LEMMA GroupArea ==
  ASSUME GroupsInv, NEW g \in DOMAIN kv_groups
  PROVE  LET l == kv_groups[g].layer IN
         /\ g # 0 /\ l \in Layers /\ precision[l] = "w4"
         /\ AreaSize(g) \in Nat /\ Base("k", g) \in Nat
         /\ RegionOf(l) \in Nat
         /\ RegionOf(l) + PackedLayerSize <= Base("k", g)
         /\ Base("v", g) = Base("k", g) + AreaSize(g)
         /\ Base("v", g) + AreaSize(g) <= RegionOf(l) + LayerSize
  <1> DEFINE group == kv_groups[g]
  <1>1. /\ group \in LentGroups /\ group.blocks = GroupSize /\ g # 0
        /\ precision[group.layer] = "w4"
    BY DEF GroupsInv
  <1>2. group.layer \in Layers /\ ~LendsNothing(group.layer) /\ group = AcquireNewKvCache(group.layer)
    BY <1>1, GroupFacts
  <1>3. /\ GroupSize \in Nat /\ group.k \in Nat /\ RegionOf(group.layer) \in Nat
        /\ RegionOf(group.layer) + PackedLayerSize <= group.k
        /\ group.v = group.k + GroupSize * HalfBlock
        /\ group.v + GroupSize * HalfBlock <= RegionOf(group.layer) + LayerSize
    BY <1>1, <1>2, TailFits
  <1>4. Base("k", g) = group.k /\ Base("v", g) = group.v /\ AreaSize(g) = GroupSize * HalfBlock
    BY <1>1 DEF Base, LaunchBase, Caches, AreaSize, BlocksIn
  <1>5. GroupSize * HalfBlock \in Nat
    BY <1>3, Sizes
  <1> QED
    BY <1>1, <1>2, <1>3, <1>4, <1>5

(* The original cache lies behind the regions of all layers.               *)
LEMMA OriginalArea ==
  /\ AreaSize(0) \in Nat /\ Base("k", 0) \in Nat
  /\ Base("v", 0) = Base("k", 0) + AreaSize(0)
  /\ \A l \in Layers : RegionOf(l) \in Nat /\ RegionOf(l) + LayerSize <= Base("k", 0)
  <1>1. /\ Base("k", 0) = TopLevelSize + NumLayers * LayerSize
        /\ Base("v", 0) = Base("k", 0) + NumBlocksOrg * HalfBlock
        /\ AreaSize(0) = NumBlocksOrg * HalfBlock
    BY DEF Base, LaunchBase, Caches, OriginalK, OriginalV, AreaSize, BlocksIn
  <1>2. NumBlocksOrg * HalfBlock \in Nat /\ NumLayers * LayerSize \in Nat
    BY Sizes, LentAssumption, LayoutAssumption
  <1>3. ASSUME NEW l \in Layers
        PROVE  RegionOf(l) \in Nat /\ RegionOf(l) + LayerSize <= TopLevelSize + NumLayers * LayerSize
    <2>1. l * LayerSize + LayerSize <= NumLayers * LayerSize /\ l * LayerSize \in Nat
      BY Sizes, LayoutAssumption DEF Layers
    <2> QED
      BY <1>2, <2>1, Sizes DEF RegionOf
  <1> QED
    BY <1>1, <1>2, <1>3, Sizes

(* Every tensor begins at an address and has a size.                       *)
LEMMA AreasAreNumbers ==
  ASSUME GroupsInv, NEW kv \in KV, NEW r \in Tensors
  PROVE  Base(kv, r) \in Nat /\ AreaSize(r) \in Nat
  <1>1. CASE r = 0
    BY <1>1, OriginalArea DEF KV
  <1>2. CASE r # 0
    <2>1. r \in DOMAIN kv_groups
      BY <1>2 DEF Tensors, GroupsInv
    <2> QED
      BY <2>1, GroupArea DEF KV
  <1> QED
    BY <1>1, <1>2

(* The tensors do not overlap.                                             *)
LEMMA AreasApart ==
  ASSUME GroupsInv,
         NEW kv \in KV, NEW r \in Tensors, NEW kw \in KV, NEW q \in Tensors,
         <<kv, r>> # <<kw, q>>
  PROVE  \/ Base(kv, r) + AreaSize(r) <= Base(kw, q)
         \/ Base(kw, q) + AreaSize(q) <= Base(kv, r)
  <1>1. \A t \in Tensors \ {0} : t \in DOMAIN kv_groups
    BY DEF Tensors, GroupsInv
  <1>2. CASE r = q
    <2>1. kv # kw
      BY <1>2
    <2>2. Base("v", r) = Base("k", r) + AreaSize(r)
      BY <1>1, OriginalArea, GroupArea
    <2>3. Base("v", r) \in Nat /\ Base("k", r) \in Nat /\ AreaSize(r) \in Nat
      BY AreasAreNumbers DEF KV
    <2> QED
      BY <1>2, <2>1, <2>2, <2>3 DEF KV
  <1>3. ASSUME NEW t \in Tensors, t # 0, NEW x \in KV, NEW y \in KV
        PROVE  Base(x, t) + AreaSize(t) <= Base(y, 0)
    <2> DEFINE l == kv_groups[t].layer
    <2>1. t \in DOMAIN kv_groups
      BY <1>1, <1>3
    <2>2. /\ l \in Layers /\ AreaSize(t) \in Nat /\ Base("k", t) \in Nat /\ RegionOf(l) \in Nat
          /\ Base("v", t) = Base("k", t) + AreaSize(t)
          /\ Base("v", t) + AreaSize(t) <= RegionOf(l) + LayerSize
      BY <2>1, GroupArea
    <2> HIDE DEF l
    <2>3. Base(x, t) + AreaSize(t) <= RegionOf(l) + LayerSize /\ Base(x, t) \in Nat
      BY <2>2, Sizes DEF KV
    <2>4. RegionOf(l) + LayerSize <= Base(y, 0) /\ Base(y, 0) \in Nat
      BY <2>2, OriginalArea, Sizes DEF KV
    <2> QED
      BY <2>2, <2>3, <2>4, Sizes
  <1>4. ASSUME NEW t \in Tensors, NEW u \in Tensors, t # 0, u # 0, NEW x \in KV, NEW y \in KV,
               kv_groups[t].layer < kv_groups[u].layer
        PROVE  Base(x, t) + AreaSize(t) <= Base(y, u)
    <2> DEFINE l == kv_groups[t].layer
               m == kv_groups[u].layer
    <2>1. t \in DOMAIN kv_groups /\ u \in DOMAIN kv_groups
      BY <1>1, <1>4
    <2>2. /\ l \in Layers /\ AreaSize(t) \in Nat /\ Base("k", t) \in Nat /\ RegionOf(l) \in Nat
          /\ Base("v", t) = Base("k", t) + AreaSize(t)
          /\ Base("v", t) + AreaSize(t) <= RegionOf(l) + LayerSize
      BY <2>1, GroupArea
    <2>3. /\ m \in Layers /\ AreaSize(u) \in Nat /\ Base("k", u) \in Nat /\ RegionOf(m) \in Nat
          /\ RegionOf(m) + PackedLayerSize <= Base("k", u)
          /\ Base("v", u) = Base("k", u) + AreaSize(u)
      BY <2>1, GroupArea
    <2>4. l < m
      BY <1>4
    <2> HIDE DEF l, m
    <2>5. RegionOf(l) + LayerSize <= RegionOf(m)
      BY <2>2, <2>3, <2>4, RegionsInOrder
    <2>6. Base(x, t) + AreaSize(t) <= RegionOf(l) + LayerSize /\ Base(x, t) \in Nat
      BY <2>2, Sizes DEF KV
    <2>7. RegionOf(m) <= Base(y, u) /\ Base(y, u) \in Nat
      BY <2>3, Sizes DEF KV
    <2> QED
      BY <2>2, <2>3, <2>5, <2>6, <2>7, Sizes
  <1>5. CASE r # q /\ r = 0
    BY <1>3, <1>5
  <1>6. CASE r # q /\ q = 0
    BY <1>3, <1>6
  <1>7. CASE r # q /\ r # 0 /\ q # 0
    <2>1. /\ r \in DOMAIN kv_groups /\ q \in DOMAIN kv_groups
          /\ kv_groups[r].layer # kv_groups[q].layer
      BY <1>1, <1>7 DEF GroupsInv
    <2>2. kv_groups[r].layer \in Int /\ kv_groups[q].layer \in Int
      BY <2>1, GroupArea DEF Layers
    <2>3. kv_groups[r].layer < kv_groups[q].layer \/ kv_groups[q].layer < kv_groups[r].layer
      BY <2>1, <2>2
    <2> QED
      BY <1>4, <1>7, <2>3
  <1> QED
    BY <1>2, <1>5, <1>6, <1>7

(* The tensors lie outside of the weights that are installed.              *)
LEMMA AreasNotInWeights ==
  ASSUME GroupsInv, NEW kv \in KV, NEW r \in Tensors,
         NEW a \in Base(kv, r) .. Base(kv, r) + AreaSize(r) - 1
  PROVE  ~InWeights(a)
  <1> SUFFICES ASSUME NEW l \in Layers,
                      a - RegionOf(l) \in
                        0 .. (IF precision[l] = "fp16" THEN LayerSize ELSE PackedLayerSize) - 1
               PROVE  FALSE
    BY DEF InWeights
  <1>1. Base(kv, r) \in Nat /\ AreaSize(r) \in Nat /\ a \in Nat
    BY AreasAreNumbers
  <1>2. RegionOf(l) \in Nat /\ RegionOf(l) + LayerSize <= Base("k", 0)
    BY OriginalArea
  <1>3. a >= RegionOf(l) /\ a < RegionOf(l) + LayerSize
    BY <1>1, <1>2, Sizes
  <1>4. CASE r = 0
    <2>1. Base("k", 0) <= Base(kv, 0) /\ Base("k", 0) \in Nat
      BY OriginalArea DEF KV
    <2> QED
      BY <1>1, <1>2, <1>3, <1>4, <2>1, Sizes
  <1>5. CASE r # 0
    <2> DEFINE m == kv_groups[r].layer
    <2>1. r \in DOMAIN kv_groups
      BY <1>5 DEF Tensors, GroupsInv
    <2>2. /\ m \in Layers /\ precision[m] = "w4"
          /\ AreaSize(r) \in Nat /\ Base("k", r) \in Nat /\ RegionOf(m) \in Nat
          /\ RegionOf(m) + PackedLayerSize <= Base("k", r)
          /\ Base("v", r) = Base("k", r) + AreaSize(r)
          /\ Base("v", r) + AreaSize(r) <= RegionOf(m) + LayerSize
      BY <2>1, GroupArea
    <2> HIDE DEF m
    <2>3. RegionOf(m) + PackedLayerSize <= a /\ a < RegionOf(m) + LayerSize
      <3>1. Base("k", r) <= Base(kv, r) /\ Base(kv, r) + AreaSize(r) <= RegionOf(m) + LayerSize
        BY <2>2, Sizes DEF KV
      <3> QED
        BY <1>1, <2>2, <3>1, Sizes
    <2>4. CASE l = m
      BY <1>1, <2>2, <2>3, <2>4, Sizes
    <2>5. CASE l < m
      <3>1. RegionOf(l) + LayerSize <= RegionOf(m)
        BY <2>2, <2>5, RegionsInOrder
      <3> QED
        BY <1>1, <1>2, <1>3, <2>2, <2>3, <3>1, Sizes
    <2>6. CASE m < l
      <3>1. RegionOf(m) + LayerSize <= RegionOf(l)
        BY <2>2, <2>6, RegionsInOrder
      <3> QED
        BY <1>1, <1>2, <1>3, <2>2, <2>3, <3>1, Sizes
    <2> QED
      BY <2>2, <2>4, <2>5, <2>6 DEF Layers
  <1> QED
    BY <1>4, <1>5

(* A block is told by its tensor and its number in it.                     *)
LEMMA IndexOfPlace ==
  ASSUME GroupsInv,
         NEW i \in 0 .. NumBlocksOrg + Len(kv_groups) * GroupSize - 1,
         NEW j \in 0 .. NumBlocksOrg + Len(kv_groups) * GroupSize - 1,
         TensorOfIndex(i) = TensorOfIndex(j), LocalIndex(i) = LocalIndex(j)
  PROVE  i = j
  <1>1. NumBlocksOrg \in Nat
    BY LentAssumption
  <1>2. ASSUME NEW h \in 0 .. NumBlocksOrg + Len(kv_groups) * GroupSize - 1, ~(h < NumBlocksOrg)
        PROVE  TensorOfIndex(h) \in Nat \ {0} /\ GroupSize \in Nat
    <2> DEFINE skip == (h - NumBlocksOrg) \div GroupSize
    <2>1. h \in NumBlocksOrg .. NumBlocksOrg + Len(kv_groups) * GroupSize - 1
      BY <1>1, <1>2
    <2>2. GroupSize \in Nat /\ skip \in Nat
      BY <2>1, LentIndex
    <2>3. TensorOfIndex(h) = skip + 1
      BY <1>2 DEF TensorOfIndex
    <2> HIDE DEF skip
    <2> QED
      BY <2>2, <2>3
  <1>3. CASE i < NumBlocksOrg /\ j < NumBlocksOrg
    BY <1>3 DEF LocalIndex
  <1>4. CASE i < NumBlocksOrg /\ ~(j < NumBlocksOrg)
    <2>1. TensorOfIndex(i) = 0
      BY <1>4 DEF TensorOfIndex
    <2> QED
      BY <1>2, <1>4, <2>1
  <1>5. CASE ~(i < NumBlocksOrg) /\ j < NumBlocksOrg
    <2>1. TensorOfIndex(j) = 0
      BY <1>5 DEF TensorOfIndex
    <2> QED
      BY <1>2, <1>5, <2>1
  <1>6. CASE ~(i < NumBlocksOrg) /\ ~(j < NumBlocksOrg)
    <2> DEFINE before == (TensorOfIndex(i) - 1) * GroupSize
    <2>1. /\ LocalIndex(i) = i - NumBlocksOrg - before
          /\ LocalIndex(j) = j - NumBlocksOrg - before
      BY <1>6 DEF LocalIndex
    <2>2. before \in Int
      BY <1>2, <1>6
    <2>3. i \in Int /\ j \in Int
      OBVIOUS
    <2> HIDE DEF before
    <2>4. i - NumBlocksOrg - before = j - NumBlocksOrg - before
      BY <2>1
    <2> QED
      BY ONLY <1>1, <2>2, <2>3, <2>4
  <1> QED
    BY <1>3, <1>4, <1>5, <1>6

(* A slot is within its tensor.                                            *)
LEMMA SlotInArea ==
  ASSUME GroupsInv, NEW kv \in KV,
         NEW i \in 0 .. NumBlocksOrg + Len(kv_groups) * GroupSize - 1,
         NEW l \in Layers, NEW x \in 0 .. BlockSize - 1
  PROVE  LET r == TensorOfIndex(i) IN
         /\ r \in Tensors /\ LocalIndex(i) \in Nat
         /\ Base(kv, r) \in Nat /\ AreaSize(r) \in Nat
         /\ SlotOf(LocalIndex(i), l, x) \in 0 .. AreaSize(r) - 1
         /\ OwnAddress(Caches, kv, i, l, x) = Base(kv, r) + SlotOf(LocalIndex(i), l, x)
  <1> DEFINE r == TensorOfIndex(i)
  <1>1. /\ r \in Tensors /\ LocalIndex(i) \in 0 .. BlocksIn(r) - 1
        /\ OwnAddress(Caches, kv, i, l, x) = Base(kv, r) + SlotOf(LocalIndex(i), l, x)
    BY SlotPlace
  <1> HIDE DEF r
  <1>2. Base(kv, r) \in Nat /\ AreaSize(r) \in Nat
    BY <1>1, AreasAreNumbers
  <1>3. BlocksIn(r) \in Nat
    <2>1. CASE r = 0
      BY <2>1, LentAssumption DEF BlocksIn
    <2>2. CASE r # 0
      <3>1. 1 \in DOMAIN kv_groups
        BY <1>1, <2>2 DEF Tensors, GroupsInv
      <3>2. kv_groups[1] \in LentGroups /\ kv_groups[1].blocks = GroupSize
        BY <3>1 DEF GroupsInv
      <3> QED
        BY <2>2, <3>2, GroupFacts, TailFits DEF BlocksIn
    <2> QED
      BY <2>1, <2>2
  <1>4. SlotOf(LocalIndex(i), l, x) \in 0 .. AreaSize(r) - 1
    BY <1>1, <1>3, SlotRange DEF AreaSize
  <1>5. LocalIndex(i) \in Nat
    BY <1>1, <1>3
  <1> QED
    BY <1>1, <1>2, <1>4, <1>5 DEF r

(* Two slots at one address are the same slot of the same block.           *)
LEMMA TwoSlots ==
  ASSUME GroupsInv, NEW kv \in KV, NEW kw \in KV,
         NEW i \in 0 .. NumBlocksOrg + Len(kv_groups) * GroupSize - 1,
         NEW j \in 0 .. NumBlocksOrg + Len(kv_groups) * GroupSize - 1,
         NEW l \in Layers, NEW m \in Layers,
         NEW x \in 0 .. BlockSize - 1, NEW y \in 0 .. BlockSize - 1,
         OwnAddress(Caches, kv, i, l, x) = OwnAddress(Caches, kw, j, m, y)
  PROVE  kv = kw /\ i = j /\ l = m /\ x = y
  <1> DEFINE r == TensorOfIndex(i)
             q == TensorOfIndex(j)
             slot == SlotOf(LocalIndex(i), l, x)
             slot2 == SlotOf(LocalIndex(j), m, y)
  <1>1. /\ r \in Tensors /\ LocalIndex(i) \in Nat
        /\ Base(kv, r) \in Nat /\ AreaSize(r) \in Nat /\ slot \in 0 .. AreaSize(r) - 1
        /\ OwnAddress(Caches, kv, i, l, x) = Base(kv, r) + slot
    BY SlotInArea
  <1>2. /\ q \in Tensors /\ LocalIndex(j) \in Nat
        /\ Base(kw, q) \in Nat /\ AreaSize(q) \in Nat /\ slot2 \in 0 .. AreaSize(q) - 1
        /\ OwnAddress(Caches, kw, j, m, y) = Base(kw, q) + slot2
    BY SlotInArea
  <1> HIDE DEF r, q, slot, slot2
  <1>3. Base(kv, r) + slot = Base(kw, q) + slot2
    BY <1>1, <1>2
  <1>4. <<kv, r>> = <<kw, q>>
    <2> SUFFICES ASSUME <<kv, r>> # <<kw, q>> PROVE FALSE
      OBVIOUS
    <2>1. \/ Base(kv, r) + AreaSize(r) <= Base(kw, q)
          \/ Base(kw, q) + AreaSize(q) <= Base(kv, r)
      BY <1>1, <1>2, AreasApart
    <2>2. Base(kv, r) \in Nat /\ AreaSize(r) \in Nat /\ slot \in Nat /\ slot < AreaSize(r)
      BY <1>1
    <2>3. Base(kw, q) \in Nat /\ AreaSize(q) \in Nat /\ slot2 \in Nat /\ slot2 < AreaSize(q)
      BY <1>2
    <2>4. CASE Base(kv, r) + AreaSize(r) <= Base(kw, q)
      BY <1>3, <2>2, <2>3, <2>4, SMTT(30)
    <2>5. CASE Base(kw, q) + AreaSize(q) <= Base(kv, r)
      BY <1>3, <2>2, <2>3, <2>5, SMTT(30)
    <2> QED
      BY <2>1, <2>4, <2>5
  <1>5. kv = kw /\ r = q
    BY <1>4
  <1>6. slot = slot2
    <2>1. Base(kv, r) = Base(kw, q)
      BY <1>5
    <2>2. Base(kv, r) \in Nat /\ slot \in Nat /\ slot2 \in Nat
      BY <1>1, <1>2
    <2> QED
      BY <1>3, <2>1, <2>2, SMTT(30)
  <1>7. LocalIndex(i) = LocalIndex(j) /\ l = m /\ x = y
    <2>1. LocalIndex(i) \in Nat /\ LocalIndex(j) \in Nat
      BY <1>1, <1>2
    <2>2. SlotOf(LocalIndex(i), l, x) = SlotOf(LocalIndex(j), m, y)
      BY <1>6 DEF slot, slot2
    <2> QED
      BY <2>1, <2>2, SlotInjective
  <1>8. i = j
    BY <1>5, <1>7, IndexOfPlace DEF r, q
  <1> QED
    BY <1>5, <1>7, <1>8

(* The invariant is stronger than SlotsApart.                              *)
LEMMA GroupsInvSlotsApart ==
  ASSUME GroupsInv
  PROVE  SlotsApart
  <1>1. ASSUME NEW s \in Slots
        PROVE  /\ s = <<s[1], s[2], s[3], s[4]>>
               /\ s[1] \in KV /\ s[3] \in Layers /\ s[4] \in 0 .. BlockSize - 1
               /\ s[2] \in 0 .. NumBlocksOrg + Len(kv_groups) * GroupSize - 1
    BY DEF Slots
  <1>2. ASSUME NEW s \in Slots
        PROVE  ~InWeights(AddressOf(s))
    <2> DEFINE r == TensorOfIndex(s[2])
               slot == SlotOf(LocalIndex(s[2]), s[3], s[4])
    <2>1. /\ r \in Tensors /\ Base(s[1], r) \in Nat /\ AreaSize(r) \in Nat
          /\ slot \in 0 .. AreaSize(r) - 1 /\ AddressOf(s) = Base(s[1], r) + slot
      BY <1>1, SlotInArea DEF AddressOf
    <2> HIDE DEF r, slot
    <2>2. AddressOf(s) \in Base(s[1], r) .. Base(s[1], r) + AreaSize(r) - 1
      BY <2>1
    <2> QED
      BY <1>1, <2>1, <2>2, AreasNotInWeights
  <1>3. ASSUME NEW s \in Slots, NEW t \in Slots, AddressOf(s) = AddressOf(t)
        PROVE  s = t
    <2>1. s[1] = t[1] /\ s[2] = t[2] /\ s[3] = t[3] /\ s[4] = t[4]
      BY <1>1, <1>3, TwoSlots DEF AddressOf
    <2> QED
      BY <1>1, <2>1
  <1> QED
    BY <1>2, <1>3 DEF SlotsApart

(* A store into a slot of any block of the pool changes neither a weight   *)
(* that is installed nor another slot, for every layout and order of       *)
(* lending.                                                                *)
THEOREM SpecSlotsApart == Spec => []SlotsApart
  <1>1. GroupsInv => SlotsApart
    BY GroupsInvSlotsApart
  <1> QED
    BY <1>1, SpecGroupsInv, PTL

-----------------------------------------------------------------------------
(* The pool                                                                *)

(* A sum over the instance is the sum of the lemmas. *)
LEMMA PoolSum ==
  ASSUME NEW f
  PROVE  Gpu!SumFunction(f) = SumFunctionOnSet(f, DOMAIN f)
BY DEF Gpu!SumFunction, Gpu!SumFunctionOnSet, SumFunctionOnSet, Gpu!FoldFunctionOnSet,
       FoldFunctionOnSet, Gpu!MapThenFoldSet, MapThenFoldSet

(* So is the place where the blocks of a sequence start ... *)
LEMMA PoolSliceStart ==
  ASSUME NEW f, NEW i
  PROVE  Gpu!Before(f, i) = SliceStart(f, i)
BY DEF Gpu!Before, SliceStart, Gpu!SumFunctionOnSet, SumFunctionOnSet, Gpu!FoldFunctionOnSet,
       FoldFunctionOnSet, Gpu!MapThenFoldSet, MapThenFoldSet

(* ... and the selection of the lowest free blocks. *)
LEMMA PoolSelected ==
  ASSUME NEW n
  PROVE  Gpu!Selected(n) = SelectedFrom(is_block_free, n)
BY DEF Gpu!Selected, SelectedFrom, Gpu!Cardinality, Cardinality

(* The block table after an allocation. *)
LEMMA PoolExtended ==
  ASSUME NEW ids, NEW targets, NEW lens, lens = Gpu!Missing(ids, targets), DOMAIN lens = DOMAIN ids,
         DOMAIN block_table = Requests, Gpu!AllocateForSeqs(ids, targets)
  PROVE  LET total == SumFunctionOnSet(lens, DOMAIN ids)
             sel == SelectedFrom(is_block_free, total)
         IN  /\ is_block_free' = is_block_free \ Elements(sel)
             /\ num_free_blocks' = num_free_blocks - total
             /\ block_table' = Extended(block_table, ids, lens, sel)
<1> DEFINE total == SumFunctionOnSet(lens, DOMAIN ids)
           sel == SelectedFrom(is_block_free, total)
<1>1. Gpu!SumFunction(lens) = total /\ Gpu!Selected(total) = sel
  BY PoolSum, PoolSelected
<1>2. /\ is_block_free' = is_block_free \ Gpu!ToSet(Gpu!Selected(Gpu!SumFunction(lens)))
      /\ num_free_blocks' = num_free_blocks - Gpu!SumFunction(lens)
      /\ block_table' = [s \in Requests |->
           IF \E i \in DOMAIN ids : ids[i] = s
             THEN LET i == CHOOSE j \in DOMAIN ids : ids[j] = s
                  IN  block_table[s] \o Gpu!NewBlocksOf(ids, targets, i)
             ELSE block_table[s]]
  BY Zenon DEF Gpu!AllocateForSeqs
<1>3. is_block_free' = is_block_free \ Elements(sel)
  BY <1>1, <1>2 DEF Gpu!ToSet, Elements
<1>4. \A i \in DOMAIN ids :
        Gpu!NewBlocksOf(ids, targets, i) = SubSeq(sel, SliceStart(lens, i) + 1, SliceStart(lens, i) + lens[i])
  BY <1>1, PoolSliceStart, Zenon DEF Gpu!NewBlocksOf
<1> HIDE DEF sel, total
<1>5. block_table' = Extended(block_table, ids, lens, sel)
  BY <1>2, <1>4, Zenon DEF Extended
<1> QED BY <1>1, <1>2, <1>3, <1>5, Zenon DEF sel, total

(* What a release gathers. *)
LEMMA PoolGathered ==
  ASSUME NEW ids
  PROVE  /\ Gpu!Lengths(ids) = RowLengths(block_table, ids)
         /\ Gpu!Gathered(ids) = GatheredFrom(block_table, ids)
BY DEF Gpu!Gathered, GatheredFrom, Gpu!Lengths, RowLengths, Gpu!Before, SliceStart,
       Gpu!SumFunction, Gpu!SumFunctionOnSet, SumFunctionOnSet, Gpu!FoldFunctionOnSet,
       FoldFunctionOnSet, Gpu!MapThenFoldSet, MapThenFoldSet

(* The table tells which blocks of a pool of the given size are whose. *)
PoolTells(size) == DeviceTells(Requests, size, 1 .. size, is_block_free, num_free_blocks, block_table)

(* An allocation that finds enough free blocks only adds to the rows. *)
LEMMA PoolAllocates ==
  ASSUME NEW size \in Nat, PoolTells(size), NEW ids \in Seq(Requests), IsInjective(ids),
         NEW targets, \A i \in DOMAIN ids : targets[i] \in Nat /\ Len(block_table[ids[i]]) <= targets[i],
         Gpu!EnoughFree(ids, targets), Gpu!AllocateForSeqs(ids, targets)
  PROVE  /\ DeviceTells(Requests, size, 1 .. size, is_block_free', num_free_blocks', block_table')
         /\ \A s \in Requests : ~(s \in Elements(ids)) => block_table'[s] = block_table[s]
         /\ \A i \in DOMAIN ids : Len(block_table'[ids[i]]) = targets[i]
         /\ \A s \in Requests : \A k \in DOMAIN block_table[s] :
              k \in DOMAIN block_table'[s] /\ block_table'[s][k] = block_table[s][k]
<1> DEFINE lens == Gpu!Missing(ids, targets)
           total == SumFunctionOnSet(lens, DOMAIN ids)
           sel == SelectedFrom(is_block_free, total)
<1>1. /\ DeviceTells(Requests, size, 1 .. size, is_block_free, num_free_blocks, block_table)
      /\ 1 .. size \in SUBSET (1 .. size) /\ is_block_free \in SUBSET (1 .. size)
      /\ block_table \in [Requests -> Seq(1 .. size)]
      /\ OnePlaceEach(Requests, 1 .. size, is_block_free, num_free_blocks, block_table)
  BY Zenon DEF PoolTells, DeviceTells
<1>2. /\ \A i \in DOMAIN ids : ids[i] \in Requests /\ Len(block_table[ids[i]]) \in Nat
      /\ lens = [i \in DOMAIN ids |-> targets[i] - Len(block_table[ids[i]])]
  BY <1>1 DEF Gpu!Missing
<1>3. lens \in [DOMAIN ids -> Nat] /\ \A i \in DOMAIN ids : Len(block_table[ids[i]]) + lens[i] = targets[i]
  BY <1>2
<1>4. total <= num_free_blocks
  <2>1. DOMAIN lens = DOMAIN ids
    BY <1>2
  <2>2. Gpu!SumFunction(lens) <= num_free_blocks
    BY Zenon DEF Gpu!EnoughFree
  <2>3. Gpu!SumFunction(lens) = SumFunctionOnSet(lens, DOMAIN lens)
    BY PoolSum, Zenon
  <2> QED BY <2>1, <2>2, <2>3
<1>5. /\ is_block_free' = is_block_free \ Elements(sel)
      /\ num_free_blocks' = num_free_blocks - total
      /\ block_table' = Extended(block_table, ids, lens, sel)
  <2>1. DOMAIN lens = DOMAIN ids /\ DOMAIN block_table = Requests
    BY <1>1, <1>2
  <2> QED BY <2>1, PoolExtended
<1> HIDE DEF lens
<1>6. AfterAllocation(Requests, size, 1 .. size, is_block_free, num_free_blocks, block_table, ids, lens)
  BY <1>1, <1>3, <1>4, AllocationOnDevice, Zenon
<1>7. RowsExtended(Requests, block_table, ids, lens, sel, total, Extended(block_table, ids, lens, sel))
  <2>1. RowsAllocated(Requests, size, 1 .. size, is_block_free, num_free_blocks, block_table, ids, lens, total, sel)
    BY <1>1, <1>3, <1>4, Allocation, Zenon
  <2> QED BY <2>1, Zenon DEF RowsAllocated
<1>8. /\ DeviceTells(Requests, size, 1 .. size, is_block_free', num_free_blocks', block_table')
      /\ \A s \in Requests : ~(s \in Elements(ids)) => block_table'[s] = block_table[s]
      /\ \A i \in DOMAIN ids : Len(block_table'[ids[i]]) = Len(block_table[ids[i]]) + lens[i]
  BY <1>5, <1>6, Zenon DEF AfterAllocation
<1>9. \A s \in Requests : \A k \in DOMAIN block_table[s] :
        k \in DOMAIN block_table'[s] /\ block_table'[s][k] = block_table[s][k]
  BY <1>5, <1>7, Zenon DEF RowsExtended
<1> QED BY <1>3, <1>8, <1>9

(* A release empties the rows of the ids. *)
LEMMA PoolReleases ==
  ASSUME NEW size \in Nat, PoolTells(size), NEW ids \in Seq(Requests), IsInjective(ids),
         Gpu!FreeForSeqs(ids)
  PROVE  /\ DeviceTells(Requests, size, 1 .. size, is_block_free', num_free_blocks', block_table')
         /\ \A s \in Requests : block_table'[s] = IF s \in Elements(ids) THEN <<>> ELSE block_table[s]
<1> DEFINE g == GatheredFrom(block_table, ids)
<1>1. DeviceTells(Requests, size, 1 .. size, is_block_free, num_free_blocks, block_table)
  BY Zenon DEF PoolTells
<1>2. DOMAIN block_table = Requests
  <2>1. block_table \in [Requests -> Seq(1 .. size)]
    BY <1>1, Zenon DEF DeviceTells
  <2> QED BY <2>1
<1>3. Gpu!Gathered(ids) = g
  BY PoolGathered, Zenon
<1> HIDE DEF g
<1>4. /\ is_block_free' = is_block_free \cup Elements(g) /\ num_free_blocks' = num_free_blocks + Len(g)
      /\ block_table' = RowsReleased(block_table, ids)
  <2>1. Gpu!ToSet(g) = Elements(g) /\ Gpu!ToSet(ids) = Elements(ids)
    BY DEF Gpu!ToSet, Elements
  <2>2. /\ is_block_free' = is_block_free \cup Gpu!ToSet(Gpu!Gathered(ids))
        /\ num_free_blocks' = num_free_blocks + Len(Gpu!Gathered(ids))
        /\ block_table' = [s \in Requests |-> IF s \in Gpu!ToSet(ids) THEN <<>> ELSE block_table[s]]
    BY Zenon DEF Gpu!FreeForSeqs
  <2>3. block_table' = RowsReleased(block_table, ids)
    BY <1>2, <2>1, <2>2 DEF RowsReleased
  <2> QED BY <1>3, <2>1, <2>2, <2>3
<1>5. AfterRelease(Requests, size, 1 .. size, is_block_free, num_free_blocks, block_table, ids)
  BY <1>1, ReleaseOnDevice, Zenon
<1> QED BY <1>4, <1>5, Zenon DEF AfterRelease, g

(* What the tables tell is what EveryBlockHasOnePlace says. *)
LEMMA PoolPlaces ==
  ASSUME NEW pool
  PROVE  Gpu!EveryBlockHasOnePlace(pool) <=>
           OnePlaceEach(Requests, pool, is_block_free, num_free_blocks, block_table)
<1> DEFINE block == BlockAt(Requests, block_table)
<1>1. Gpu!Cardinality(is_block_free) = Cardinality(is_block_free)
  BY DEF Gpu!Cardinality, Cardinality
<1>2. Gpu!EveryBlockHasOnePlace(pool) <=>
         /\ num_free_blocks = Gpu!Cardinality(is_block_free)
         /\ Gpu!IsInjective(block) /\ Gpu!Range(block) = pool \ is_block_free
         /\ is_block_free \subseteq pool
  BY Zenon DEF Gpu!EveryBlockHasOnePlace, BlockAt, PlacesOf
<1> HIDE DEF block
<1>3. Gpu!IsInjective(block) <=> \A p, q \in DOMAIN block : block[p] = block[q] => p = q
  BY Zenon DEF Gpu!IsInjective
<1>4. Gpu!Range(block) = {block[p] : p \in DOMAIN block}
  BY Zenon DEF Gpu!Range
<1>5. Gpu!EveryBlockHasOnePlace(pool) <=> PlacedOnce(pool, is_block_free, num_free_blocks, block)
  BY <1>1, <1>2, <1>3, <1>4, Zenon DEF PlacedOnce
<1> QED BY <1>5, PlacesApart, Zenon DEF block

(* With a type of its own for the table, that is all there is to know of a pool. *)
LEMMA PoolKnown ==
  ASSUME NEW size \in Nat
  PROVE  PoolTells(size) <=> /\ Gpu!EveryBlockHasOnePlace(1 .. size)
                             /\ block_table \in [Requests -> Seq(1 .. size)]
<1>1. Gpu!EveryBlockHasOnePlace(1 .. size) <=>
        OnePlaceEach(Requests, 1 .. size, is_block_free, num_free_blocks, block_table)
  BY PoolPlaces
<1>2. ASSUME OnePlaceEach(Requests, 1 .. size, is_block_free, num_free_blocks, block_table),
             block_table \in [Requests -> Seq(1 .. size)]
      PROVE  PoolTells(size)
  <2>1. is_block_free \in SUBSET (1 .. size)
    BY <1>2, Zenon DEF OnePlaceEach
  <2>2. 1 .. size \in SUBSET (1 .. size)
    OBVIOUS
  <2> QED BY <1>2, <2>1, <2>2, DeviceCounts, Zenon DEF PoolTells
<1>3. PoolTells(size) => /\ OnePlaceEach(Requests, 1 .. size, is_block_free, num_free_blocks, block_table)
                         /\ block_table \in [Requests -> Seq(1 .. size)]
  BY Zenon DEF PoolTells, DeviceTells
<1> QED BY <1>1, <1>2, <1>3

(* A longer pool has room for the same rows. *)
LEMMA DeviceWidens ==
  ASSUME NEW rows, NEW size \in Nat, NEW pool, NEW free, NEW num, NEW table,
         DeviceTells(rows, size, pool, free, num, table), NEW wide \in Nat, size <= wide
  PROVE  DeviceTells(rows, wide, pool, free, num, table)
<1>1. /\ pool \in SUBSET (1 .. size) /\ free \in SUBSET (1 .. size) /\ num \in 0 .. size
      /\ table \in [rows -> Seq(1 .. size)] /\ OnePlaceEach(rows, pool, free, num, table)
  BY Zenon DEF DeviceTells
<1>2. 1 .. size \subseteq 1 .. wide
  OBVIOUS
<1>3. pool \in SUBSET (1 .. wide) /\ free \in SUBSET (1 .. wide) /\ num \in 0 .. wide
  BY <1>1, <1>2
<1>4. table \in [rows -> Seq(1 .. wide)]
  <2>1. \A r \in rows : table[r] \in Seq(1 .. wide)
    BY <1>1, <1>2
  <2> QED BY <1>1, <2>1
<1> QED BY <1>1, <1>3, <1>4, Zenon DEF DeviceTells

(* A pool that ends earlier has no row beyond its end. *)
LEMMA DeviceNarrows ==
  ASSUME NEW rows, NEW size \in Nat, NEW small \in Nat, NEW free, NEW num, NEW table,
         DeviceTells(rows, size, 1 .. small, free, num, table)
  PROVE  DeviceTells(rows, small, 1 .. small, free, num, table)
<1>1. table \in [rows -> Seq(1 .. size)] /\ OnePlaceEach(rows, 1 .. small, free, num, table)
  BY Zenon DEF DeviceTells
<1>2. /\ free \in SUBSET (1 .. small) /\ 1 .. small \in SUBSET (1 .. small)
      /\ \A s \in rows : \A i \in DOMAIN table[s] : table[s][i] \in 1 .. small
  BY <1>1 DEF OnePlaceEach
<1>3. table \in [rows -> Seq(1 .. small)]
  <2>1. \A r \in rows : table[r] \in Seq(1 .. small)
    <3> SUFFICES ASSUME NEW r \in rows PROVE table[r] \in Seq(1 .. small)
      OBVIOUS
    <3>1. table[r] \in Seq(1 .. size) /\ \A i \in DOMAIN table[r] : table[r][i] \in 1 .. small
      BY <1>1, <1>2
    <3> DEFINE t == table[r]
    <3>2. t \in Seq(1 .. size) /\ \A i \in DOMAIN t : t[i] \in 1 .. small
      BY <3>1
    <3> HIDE DEF t
    <3>3. Len(t) \in Nat /\ DOMAIN t = 1 .. Len(t) /\ t = [i \in 1 .. Len(t) |-> t[i]]
      BY <3>2
    <3>4. t \in [1 .. Len(t) -> 1 .. small]
      BY <3>2, <3>3
    <3> QED BY <3>3, <3>4, FunctionList DEF t
  <2> QED BY <1>1, <2>1
<1> QED BY <1>1, <1>2, <1>3, DeviceCounts, Zenon

(* Requests in the order of their numbers. *)
LEMMA OrderOfRequests ==
  ASSUME NEW S \in SUBSET Requests
  PROVE  InOrder(S) \in Seq(Requests) /\ IsInjective(InOrder(S)) /\ Elements(InOrder(S)) = S
<1> DEFINE n == Cardinality(S)
           s == InOrder(S)
<1>1. S \in SUBSET Int /\ IsFiniteSet(S) /\ n \in Nat
  <2>1. Requests \in SUBSET Int /\ IsFiniteSet(Requests)
    BY LentAssumption, FS_Interval DEF Requests
  <2>2. IsFiniteSet(S)
    BY <2>1, FS_Subset
  <2> QED BY <2>1, <2>2, FS_CardinalityType
<1>2. s = SelectedFrom(S, n)
  BY DEF InOrder, SelectedFrom
<1>3. TakenFrom(S, n, s)
  BY <1>1, <1>2, SelectedApart
<1>4. s \in [1 .. n -> S] /\ \A i, j \in 1 .. n : s[i] = s[j] => i = j
  BY <1>3, Zenon DEF TakenFrom
<1> HIDE DEF s
<1>5. s \in Seq(Requests) /\ Len(s) = n /\ DOMAIN s = 1 .. n
  BY <1>1, <1>4, FunctionList
<1>6. IsInjective(s)
  BY <1>4, <1>5 DEF IsInjective
<1>7. Elements(s) = S
  <2>1. IsFiniteSet(Elements(s)) /\ Cardinality(Elements(s)) = n
    BY <1>5, <1>6, InjectiveElements
  <2>2. Elements(s) \subseteq S
    BY <1>4, <1>5 DEF Elements
  <2> QED BY <1>1, <2>1, <2>2, FS_Subset
<1> QED BY <1>5, <1>6, <1>7 DEF s
-----------------------------------------------------------------------------
(* Tokens and their slots                                                  *)

(* Rounding up counts the blocks that a number of tokens needs. *)
LEMMA CeilCovers ==
  ASSUME NEW n \in Nat
  PROVE  /\ CeilDivide(n, BlockSize) \in Nat
         /\ \A p \in 0 .. n - 1 : p \div BlockSize + 1 \in 1 .. CeilDivide(n, BlockSize)
         /\ \A m \in Nat : n <= m => CeilDivide(n, BlockSize) <= CeilDivide(m, BlockSize)
<1> DEFINE c == CeilDivide(n, BlockSize)
<1>1. BlockSize \in Nat \ {0}
  BY LayoutAssumption
<1>2. ASSUME NEW m \in Nat
      PROVE  LET d == CeilDivide(m, BlockSize) IN
             d \in Nat /\ d * BlockSize <= m + BlockSize - 1 /\ m + BlockSize - 1 < d * BlockSize + BlockSize
  <2> DEFINE x == m + BlockSize - 1
  <2>1. x \in Nat
    BY <1>1
  <2>2. CeilDivide(m, BlockSize) = x \div BlockSize
    BY DEF CeilDivide
  <2> HIDE DEF x
  <2>3. x \div BlockSize \in Nat /\ (x \div BlockSize) * BlockSize <= x
        /\ x < (x \div BlockSize) * BlockSize + BlockSize
    BY <1>1, <2>1, Division
  <2> QED BY <2>2, <2>3 DEF x
<1>3. c \in Nat /\ c * BlockSize <= n + BlockSize - 1 /\ n + BlockSize - 1 < c * BlockSize + BlockSize
  BY <1>2
<1>4. ASSUME NEW a \in Nat, NEW b \in Nat, a > b
      PROVE  b * BlockSize + BlockSize <= a * BlockSize /\ a * BlockSize \in Nat /\ b * BlockSize \in Nat
  BY <1>1, <1>4
<1> HIDE DEF c
<1>5. ASSUME NEW p \in 0 .. n - 1
      PROVE  p \div BlockSize + 1 \in 1 .. c
  <2>1. p \div BlockSize \in Nat /\ (p \div BlockSize) * BlockSize <= p
    BY <1>1, Division
  <2> DEFINE q == p \div BlockSize
  <2> HIDE DEF q
  <2>2. q \in Nat /\ q * BlockSize <= p
    BY <2>1 DEF q
  <2>3. ASSUME q + 1 > c PROVE FALSE
    <3>1. c * BlockSize + BlockSize <= (q + 1) * BlockSize /\ c * BlockSize \in Nat
      BY <1>3, <1>4, <2>2, <2>3
    <3>2. (q + 1) * BlockSize = q * BlockSize + BlockSize /\ q * BlockSize \in Nat
      BY <1>1, <2>2
    <3> QED BY <1>1, <1>3, <2>2, <3>1, <3>2
  <2> QED BY <1>3, <2>2, <2>3 DEF q
<1>6. ASSUME NEW m \in Nat, n <= m
      PROVE  c <= CeilDivide(m, BlockSize)
  <2> DEFINE d == CeilDivide(m, BlockSize)
  <2>1. d \in Nat /\ m + BlockSize - 1 < d * BlockSize + BlockSize
    BY <1>2
  <2> HIDE DEF d
  <2>2. ASSUME c > d PROVE FALSE
    <3>1. d * BlockSize + BlockSize <= c * BlockSize /\ c * BlockSize \in Nat /\ d * BlockSize \in Nat
      BY <1>3, <1>4, <2>1, <2>2
    <3> QED BY <1>1, <1>3, <1>6, <2>1, <3>1
  <2> QED BY <1>3, <2>1, <2>2 DEF d
<1> QED BY <1>3, <1>5, <1>6 DEF c

(* The pool is as large as the groups make it. *)
LEMMA PoolSizeIsNat ==
  ASSUME GroupsInv
  PROVE  /\ GroupSize \in Nat /\ Len(kv_groups) \in Nat /\ NumBlocksOrg \in Nat \ {0}
         /\ DOMAIN kv_groups = 1 .. Len(kv_groups)
         /\ Len(kv_groups) * GroupSize \in Nat /\ PoolSize \in Nat
         /\ kv_groups # <<>> => GroupSize # 0
<1>1. Len(kv_groups) \in Nat /\ DOMAIN kv_groups = 1 .. Len(kv_groups) /\ NumBlocksOrg \in Nat \ {0}
  BY LentAssumption DEF GroupsInv
<1>2. CASE kv_groups = <<>>
  <2>1. GroupSize = 0
    BY <1>2 DEF GroupSize
  <2> QED BY <1>1, <1>2, <2>1 DEF PoolSize
<1>3. CASE kv_groups # <<>>
  <2>1. 1 \in DOMAIN kv_groups
    BY <1>1, <1>3 DEF GroupsInv
  <2>2. kv_groups[1] \in LentGroups /\ kv_groups[1].blocks = GroupSize
    BY <2>1 DEF GroupsInv
  <2>3. GroupSize \in Nat \ {0}
    BY <2>2, GroupFacts, TailFits
  <2>4. Len(kv_groups) * GroupSize \in Nat
    BY <1>1, <2>3
  <2> QED BY <1>1, <2>3, <2>4 DEF PoolSize
<1> QED BY <1>2, <1>3

(* The numbers of its blocks, as they are written elsewhere. *)
LEMMA PoolRange ==
  ASSUME GroupsInv
  PROVE  0 .. PoolSize - 1 = 0 .. NumBlocksOrg + Len(kv_groups) * GroupSize - 1
<1> DEFINE n == Len(kv_groups) * GroupSize
<1>1. n \in Nat /\ NumBlocksOrg \in Nat /\ PoolSize = NumBlocksOrg + n
  BY PoolSizeIsNat DEF PoolSize
<1> HIDE DEF n
<1>2. PoolSize - 1 = NumBlocksOrg + n - 1
  BY <1>1
<1> QED BY <1>2 DEF n

(* What the block table holds: the rows of the requests that are served, as long as their
   tokens need. *)
RowsInv ==
  /\ PoolTells(PoolSize)
  /\ seq_len \in [Requests -> 0 .. MaxLen]
  /\ \A r \in Requests : Len(block_table[r]) =
       IF r \in Live THEN CeilDivide(seq_len[r], BlockSize) ELSE 0

LiveToken(r, p) == r \in Live /\ p \in 0 .. seq_len[r] - 1

(* The slot of a token of a live request is in a block of the pool. *)
LEMMA TokenSlot ==
  ASSUME GroupsInv, RowsInv, NEW r, NEW p, LiveToken(r, p)
  PROVE  LET k == p \div BlockSize + 1 IN
         /\ r \in Requests /\ p \in Nat /\ k \in DOMAIN block_table[r]
         /\ BlockOf(Table, <<r, p>>) = block_table[r][k] - 1
         /\ BlockOf(Table, <<r, p>>) \in 0 .. PoolSize - 1
         /\ block_table[r][k] \notin is_block_free
         /\ OffsetOf(<<r, p>>) \in 0 .. BlockSize - 1
<1> DEFINE k == p \div BlockSize + 1
<1>1. r \in Requests /\ seq_len[r] \in Nat /\ p \in 0 .. seq_len[r] - 1 /\ r \in Live
  BY DEF LiveToken, Live, RowsInv
<1>2. Len(block_table[r]) = CeilDivide(seq_len[r], BlockSize)
  BY <1>1 DEF RowsInv
<1>3. k \in 1 .. CeilDivide(seq_len[r], BlockSize)
  BY <1>1, CeilCovers
<1>4. PoolSize \in Nat
  BY PoolSizeIsNat
<1>5. /\ block_table \in [Requests -> Seq(1 .. PoolSize)]
      /\ OnePlaceEach(Requests, 1 .. PoolSize, is_block_free, num_free_blocks, block_table)
  BY Zenon DEF RowsInv, PoolTells, DeviceTells
<1> HIDE DEF k
<1>6. k \in DOMAIN block_table[r] /\ block_table[r][k] \in 1 .. PoolSize
  <2>1. block_table[r] \in Seq(1 .. PoolSize)
    BY <1>1, <1>5
  <2>2. k \in DOMAIN block_table[r]
    BY <1>2, <1>3, <2>1
  <2> QED BY <1>4, <2>1, <2>2
<1>7. block_table[r][k] \notin is_block_free
  BY <1>1, <1>5, <1>6 DEF OnePlaceEach
<1>8. BlockOf(Table, <<r, p>>) = block_table[r][k] - 1
  BY <1>1, <1>6 DEF BlockOf, Table, k
<1>9. OffsetOf(<<r, p>>) \in 0 .. BlockSize - 1
  <2>1. BlockSize \in Nat \ {0} /\ p \in Nat
    BY <1>1, LayoutAssumption
  <2>2. OffsetOf(<<r, p>>) = p % BlockSize
    BY DEF OffsetOf
  <2> QED BY <2>1, <2>2
<1> QED BY <1>1, <1>4, <1>6, <1>7, <1>8, <1>9 DEF k

(* Two tokens never share a slot. *)
LEMMA TokensApart ==
  ASSUME GroupsInv, RowsInv, NEW r, NEW p, LiveToken(r, p), NEW s, NEW q, LiveToken(s, q),
         BlockOf(Table, <<r, p>>) = BlockOf(Table, <<s, q>>), OffsetOf(<<r, p>>) = OffsetOf(<<s, q>>)
  PROVE  r = s /\ p = q
<1> DEFINE k == p \div BlockSize + 1
           m == q \div BlockSize + 1
<1>1. /\ r \in Requests /\ p \in Nat /\ k \in DOMAIN block_table[r]
      /\ BlockOf(Table, <<r, p>>) = block_table[r][k] - 1
      /\ BlockOf(Table, <<r, p>>) \in 0 .. PoolSize - 1
  BY TokenSlot
<1>2. /\ s \in Requests /\ q \in Nat /\ m \in DOMAIN block_table[s]
      /\ BlockOf(Table, <<s, q>>) = block_table[s][m] - 1
      /\ BlockOf(Table, <<s, q>>) \in 0 .. PoolSize - 1
  BY TokenSlot
<1>3. /\ block_table \in [Requests -> Seq(1 .. PoolSize)]
      /\ OnePlaceEach(Requests, 1 .. PoolSize, is_block_free, num_free_blocks, block_table)
  BY Zenon DEF RowsInv, PoolTells, DeviceTells
<1>4. BlockSize \in Nat \ {0} /\ p \div BlockSize \in Nat /\ q \div BlockSize \in Nat
  BY <1>1, <1>2, LayoutAssumption, Division
<1>5. p % BlockSize = q % BlockSize
  BY DEF OffsetOf
<1>6. block_table[r][k] = block_table[s][m]
  <2> HIDE DEF k, m
  <2>1. PoolSize \in Nat
    BY PoolSizeIsNat
  <2>2. block_table[r][k] \in Int /\ block_table[s][m] \in Int
    BY <1>1, <1>2, <1>3, <2>1
  <2> QED BY <1>1, <1>2, <2>2
<1>7. r = s /\ k = m
  <2> HIDE DEF k, m
  <2> QED BY <1>1, <1>2, <1>3, <1>6 DEF OnePlaceEach
<1>8. p \div BlockSize = q \div BlockSize
  BY <1>4, <1>7
<1>9. ASSUME NEW x \in Nat, NEW d \in Nat \ {0}
      PROVE  x = ((x \div d) * d) + (x % d)
  BY <1>9
<1>10. p = ((p \div BlockSize) * BlockSize) + (p % BlockSize)
  BY <1>1, <1>4, <1>9
<1>11. q = ((q \div BlockSize) * BlockSize) + (q % BlockSize)
  BY <1>2, <1>4, <1>9
<1> QED BY <1>5, <1>7, <1>8, <1>10, <1>11, Zenon

(* A slot of the pool lies in the original cache or in the tail of a lending layer. *)
LEMMA SlotCell ==
  ASSUME GroupsInv, NEW kv \in KV, NEW i \in 0 .. PoolSize - 1, NEW l \in Layers,
         NEW x \in 0 .. BlockSize - 1
  PROVE  LET a == OwnAddress(Caches, kv, i, l, x) IN
         /\ a \in Addresses
         /\ \/ a >= OriginalK
            \/ \E g \in DOMAIN kv_groups :
                 a \in CellsOf(kv_groups[g])
<1> DEFINE a == OwnAddress(Caches, kv, i, l, x)
           r == TensorOfIndex(i)
           slot == SlotOf(LocalIndex(i), l, x)
<1>1. i \in 0 .. NumBlocksOrg + Len(kv_groups) * GroupSize - 1
  BY PoolRange
<1>2. /\ r \in Tensors /\ Base(kv, r) \in Nat /\ AreaSize(r) \in Nat
      /\ slot \in 0 .. AreaSize(r) - 1 /\ a = Base(kv, r) + slot
  BY <1>1, SlotInArea
<1> HIDE DEF r, slot, a
<1>3. /\ OriginalK \in Nat /\ OriginalV \in Nat /\ NumBlocksOrg * HalfBlock \in Nat
      /\ OriginalV = OriginalK + NumBlocksOrg * HalfBlock
      /\ Base("k", 0) = OriginalK /\ Base("v", 0) = OriginalV /\ AreaSize(0) = NumBlocksOrg * HalfBlock
  <2>1. NumBlocksOrg * HalfBlock \in Nat /\ OriginalK \in Nat
    BY Sizes, LentAssumption, LayoutAssumption DEF OriginalK
  <2> QED BY <2>1 DEF OriginalV, Base, LaunchBase, Caches, AreaSize, BlocksIn
<1>4. CASE r = 0
  <2>1. Base(kv, 0) \in {OriginalK, OriginalV}
    BY <1>3 DEF KV
  <2>2. a >= OriginalK /\ a <= OriginalV + NumBlocksOrg * HalfBlock - 1 /\ a \in Nat
    BY <1>2, <1>3, <1>4, <2>1
  <2> QED BY <1>3, <2>2 DEF Addresses, a
<1>5. CASE r # 0
  <2>1. r \in DOMAIN kv_groups
    BY <1>2, <1>5 DEF Tensors, GroupsInv
  <2> DEFINE m == kv_groups[r].layer
  <2>2. /\ m \in Layers /\ Base("k", r) \in Nat /\ RegionOf(m) \in Nat
        /\ RegionOf(m) + PackedLayerSize <= Base("k", r)
        /\ Base("v", r) = Base("k", r) + AreaSize(r)
        /\ Base("v", r) + AreaSize(r) <= RegionOf(m) + LayerSize
    BY <2>1, GroupArea
  <2> HIDE DEF m
  <2>3. a \in Base("k", r) .. Base("v", r) + AreaSize(r) - 1
    BY <1>2, <2>2 DEF KV
  <2>4. CellsOf(kv_groups[r]) = Base("k", r) .. Base("v", r) + AreaSize(r) - 1
    <3>1. kv_groups[r].blocks = GroupSize
      BY <2>1 DEF GroupsInv
    <3> QED BY <1>5, <3>1 DEF CellsOf, Base, LaunchBase, Caches, AreaSize, BlocksIn
  <2>5. RegionOf(m) + LayerSize <= OriginalK
    BY <1>3, <2>2, OriginalArea
  <2>6. a \in Addresses
    BY <1>2, <1>3, <2>2, <2>3, <2>5, Sizes DEF Addresses
  <2> QED BY <2>1, <2>3, <2>4, <2>6 DEF a
<1> QED BY <1>4, <1>5

(* The cells of a group are within the region of its layer, behind the packed weights. *)
LEMMA CellsInRegion ==
  ASSUME GroupsInv, NEW g \in DOMAIN kv_groups, NEW a \in CellsOf(kv_groups[g])
  PROVE  LET m == kv_groups[g].layer IN
         /\ m \in Layers /\ precision[m] = "w4" /\ m \in Grouped
         /\ a \in RegionOf(m) + PackedLayerSize .. RegionOf(m) + LayerSize - 1
         /\ a \in Addresses
<1> DEFINE m == kv_groups[g].layer
<1>1. /\ g # 0 /\ m \in Layers /\ precision[m] = "w4"
      /\ AreaSize(g) \in Nat /\ Base("k", g) \in Nat /\ RegionOf(m) \in Nat
      /\ RegionOf(m) + PackedLayerSize <= Base("k", g)
      /\ Base("v", g) = Base("k", g) + AreaSize(g)
      /\ Base("v", g) + AreaSize(g) <= RegionOf(m) + LayerSize
  BY GroupArea
<1>2. m \in Grouped
  BY DEF Grouped
<1> HIDE DEF m
<1>3. CellsOf(kv_groups[g]) = Base("k", g) .. Base("v", g) + AreaSize(g) - 1
  <2>1. kv_groups[g].blocks = GroupSize
    BY DEF GroupsInv
  <2> QED BY <1>1, <2>1 DEF CellsOf, Base, LaunchBase, Caches, AreaSize, BlocksIn
<1>4. RegionOf(m) + LayerSize <= OriginalK /\ OriginalK \in Nat
  BY <1>1, OriginalArea, Sizes, LayoutAssumption DEF Base, LaunchBase, Caches, OriginalK
<1>5. a \in RegionOf(m) + PackedLayerSize .. RegionOf(m) + LayerSize - 1
  BY <1>1, <1>3, Sizes
<1>6. a \in Addresses
  <2> DEFINE last == OriginalV + NumBlocksOrg * HalfBlock
  <2>1. OriginalK <= last /\ last \in Nat
    BY <1>4, Sizes, LentAssumption DEF OriginalV
  <2>2. last \in Int /\ Addresses = 0 .. last - 1
    <3>1. OriginalV \in Int /\ NumBlocksOrg * HalfBlock \in Int
      BY <1>4, Sizes, LentAssumption DEF OriginalV
    <3> QED BY <3>1 DEF Addresses
  <2> HIDE DEF last
  <2> QED BY <1>1, <1>4, <1>5, <2>1, <2>2, Sizes
<1> QED BY <1>1, <1>2, <1>5, <1>6 DEF m

-----------------------------------------------------------------------------
(* What a change of layers leaves alone                                    *)

(* The slots of the live tokens. *)
LEMMA TokenCell ==
  ASSUME GroupsInv, RowsInv, NEW r, NEW p, LiveToken(r, p), NEW l \in Layers, NEW kv \in KV
  PROVE  LET a == TokenAddress(<<r, p>>, l, kv) IN
         /\ a \in Addresses
         /\ a >= OriginalK \/ \E g \in DOMAIN kv_groups : a \in CellsOf(kv_groups[g])
<1>1. BlockOf(Table, <<r, p>>) \in 0 .. PoolSize - 1 /\ OffsetOf(<<r, p>>) \in 0 .. BlockSize - 1
  BY TokenSlot
<1> QED BY <1>1, SlotCell DEF TokenAddress

(* The cells of the regions are addresses below the original cache. *)
LEMMA RegionCells ==
  ASSUME NEW l \in Layers, NEW a, a - RegionOf(l) \in 0 .. LayerSize - 1, a \in Int
  PROVE  a \in Addresses /\ RegionOf(l) \in Nat /\ a < OriginalK /\ OriginalK \in Nat
<1> DEFINE last == OriginalV + NumBlocksOrg * HalfBlock
<1>1. RegionOf(l) \in Nat /\ RegionOf(l) + LayerSize <= OriginalK /\ OriginalK \in Nat
  BY OriginalArea, Sizes, LayoutAssumption DEF Base, LaunchBase, Caches, OriginalK
<1>2. last \in Int /\ OriginalK <= last /\ Addresses = 0 .. last - 1
  <2>1. NumBlocksOrg * HalfBlock \in Nat /\ OriginalV = OriginalK + NumBlocksOrg * HalfBlock
    BY Sizes, LentAssumption DEF OriginalV
  <2> QED BY <1>1, <2>1 DEF Addresses
<1> HIDE DEF last
<1> QED BY <1>1, <1>2, Sizes

(* A cell of two regions is a cell of one. *)
LEMMA OneRegion ==
  ASSUME NEW l \in Layers, NEW m \in Layers, NEW a \in Int,
         a - RegionOf(l) \in 0 .. LayerSize - 1, a - RegionOf(m) \in 0 .. LayerSize - 1
  PROVE  l = m
<1>1. RegionOf(l) \in Nat /\ RegionOf(m) \in Nat
  BY RegionCells
<1>2. CASE l < m
  BY <1>1, <1>2, RegionsInOrder, Sizes
<1>3. CASE m < l
  BY <1>1, <1>3, RegionsInOrder, Sizes
<1> QED BY <1>2, <1>3 DEF Layers

(* A slot is in no packed layer, and not in the region of a layer that lends nothing. *)
LEMMA SlotsOutside ==
  ASSUME GroupsInv, NEW a \in Int,
         a >= OriginalK \/ \E g \in DOMAIN kv_groups : a \in CellsOf(kv_groups[g]),
         NEW m \in Layers
  PROVE  /\ a - RegionOf(m) \notin 0 .. PackedLayerSize - 1
         /\ m \notin Grouped => a - RegionOf(m) \notin 0 .. LayerSize - 1
<1>1. CASE a >= OriginalK
  <2>1. a - RegionOf(m) \notin 0 .. LayerSize - 1
    BY <1>1, RegionCells
  <2> QED BY <2>1, Sizes
<1>2. CASE \E g \in DOMAIN kv_groups : a \in CellsOf(kv_groups[g])
  <2>1. PICK g \in DOMAIN kv_groups : a \in CellsOf(kv_groups[g])
    BY <1>2
  <2> DEFINE l == kv_groups[g].layer
  <2>2. /\ l \in Layers /\ l \in Grouped
        /\ a \in RegionOf(l) + PackedLayerSize .. RegionOf(l) + LayerSize - 1
    BY <2>1, CellsInRegion
  <2>3. RegionOf(l) \in Nat
    BY <2>1, GroupArea
  <2> HIDE DEF l
  <2>4. a - RegionOf(l) \in PackedLayerSize .. LayerSize - 1
    BY <2>2, <2>3, Sizes
  <2>5. a - RegionOf(m) \in 0 .. LayerSize - 1 => l = m
    BY <2>2, <2>4, OneRegion, Sizes
  <2>6. RegionOf(m) \in Nat
    BY OriginalArea
  <2> QED BY <2>2, <2>4, <2>5, <2>6, Sizes
<1> QED BY <1>1, <1>2

(* Copying an image to the start of a region changes that region only ... *)
LEMMA CopyChanges ==
  ASSUME NEW l \in Layers, DOMAIN mem = Addresses, NEW image, NEW size \in Nat, size <= LayerSize,
         mem' = Copied(mem, l, image, size)
  PROVE  /\ DOMAIN mem' = Addresses
         /\ \A a \in Addresses : a - RegionOf(l) \notin 0 .. size - 1 => mem'[a] = mem[a]
         /\ \A j \in 1 .. size : mem'[RegionOf(l) + j - 1] = image[j]
<1>1. /\ DOMAIN mem' = Addresses
      /\ \A a \in Addresses : mem'[a] = IF a - RegionOf(l) \in 0 .. size - 1
                                          THEN image[a - RegionOf(l) + 1] ELSE mem[a]
  BY Zenon DEF Copied
<1>2. RegionOf(l) \in Nat
  BY OriginalArea
<1>3. ASSUME NEW j \in 1 .. size
      PROVE  mem'[RegionOf(l) + j - 1] = image[j]
  <2> DEFINE a == RegionOf(l) + j - 1
  <2>1. a \in Int /\ a - RegionOf(l) = j - 1 /\ j - 1 \in 0 .. size - 1 /\ j - 1 \in 0 .. LayerSize - 1
        /\ j - 1 + 1 = j
    BY <1>2, Sizes
  <2> HIDE DEF a
  <2>2. a \in Addresses
    BY <2>1, RegionCells
  <2>3. mem'[a] = image[j - 1 + 1]
    BY <1>1, <2>1, <2>2
  <2> QED BY <2>1, <2>3 DEF a
<1> QED BY <1>1, <1>3

(* What a region starts with, for one precision. *)
ImageOf(l, variant) == IF variant = "fp16" THEN Fp16Image(l) ELSE W4Image(l)
SizeOf(variant) == IF variant = "fp16" THEN LayerSize ELSE PackedLayerSize

InPlace(l) == \A j \in 1 .. SizeOf(precision[l]) : mem[RegionOf(l) + j - 1] = ImageOf(l, precision[l])[j]

LEMMA InPlaceEach == WeightsInPlace <=> \A l \in Layers : InPlace(l)
BY DEF WeightsInPlace, InPlace, ImageOf, SizeOf

(* ... so that the weights are in place after it, and the slots as they were. *)
LEMMA CopyInstalls ==
  ASSUME GroupsInv, DOMAIN mem = Addresses, WeightsInPlace,
         NEW l \in Layers, l \notin Grouped, NEW variant \in {"fp16", "w4"},
         mem' = Copied(mem, l, ImageOf(l, variant), SizeOf(variant)),
         precision' = [precision EXCEPT ![l] = variant]
  PROVE  /\ DOMAIN mem' = Addresses
         /\ WeightsInPlace'
         /\ \A a \in Addresses :
              a >= OriginalK \/ (\E g \in DOMAIN kv_groups : a \in CellsOf(kv_groups[g])) => mem'[a] = mem[a]
<1>1. SizeOf(variant) \in Nat /\ SizeOf(variant) <= LayerSize
  BY Sizes DEF SizeOf
<1>2. /\ DOMAIN mem' = Addresses
      /\ \A a \in Addresses : a - RegionOf(l) \notin 0 .. SizeOf(variant) - 1 => mem'[a] = mem[a]
      /\ \A j \in 1 .. SizeOf(variant) : mem'[RegionOf(l) + j - 1] = ImageOf(l, variant)[j]
  BY <1>1, CopyChanges
<1>3. \A a \in Addresses : a - RegionOf(l) \notin 0 .. LayerSize - 1 => mem'[a] = mem[a]
  BY <1>1, <1>2, Sizes
<1>4. Addresses \subseteq Int
  BY DEF Addresses
<1>5. ASSUME NEW m \in Layers
      PROVE  InPlace(m)'
  <2>1. CASE m = l
    <3>1. precision'[l] = variant
      BY DEF GroupsInv
    <3> QED BY <1>2, <2>1, <3>1 DEF InPlace
  <2>2. CASE m # l
    <3>1. precision'[m] = precision[m] /\ SizeOf(precision[m]) \in Nat /\ SizeOf(precision[m]) <= LayerSize
      BY <2>2, Sizes DEF GroupsInv, SizeOf
    <3>2. \A j \in 1 .. SizeOf(precision[m]) : mem[RegionOf(m) + j - 1] = ImageOf(m, precision[m])[j]
      BY InPlaceEach DEF InPlace
    <3>3. ASSUME NEW j \in 1 .. SizeOf(precision[m])
          PROVE  mem'[RegionOf(m) + j - 1] = mem[RegionOf(m) + j - 1]
      <4> DEFINE a == RegionOf(m) + j - 1
      <4>1. RegionOf(m) \in Nat
        BY OriginalArea
      <4>2. a \in Int /\ a - RegionOf(m) \in 0 .. LayerSize - 1
        BY <3>1, <4>1, Sizes
      <4> HIDE DEF a
      <4>3. a \in Addresses /\ a - RegionOf(l) \notin 0 .. LayerSize - 1
        BY <2>2, <4>2, RegionCells, OneRegion
      <4> QED BY <1>3, <4>3 DEF a
    <3> QED BY <3>1, <3>2, <3>3 DEF InPlace
  <2> QED BY <2>1, <2>2
<1>6. WeightsInPlace'
  <2>1. (WeightsInPlace <=> \A m \in Layers : InPlace(m))'
    BY DEF WeightsInPlace, InPlace, ImageOf, SizeOf
  <2> QED BY <1>5, <2>1
<1>7. \A a \in Addresses :
        a >= OriginalK \/ (\E g \in DOMAIN kv_groups : a \in CellsOf(kv_groups[g])) => mem'[a] = mem[a]
  BY <1>3, <1>4, SlotsOutside
<1> QED BY <1>2, <1>6, <1>7

(* The keys and values are where they were if their slots are, and nothing else counts as
   stored. *)
LEMMA KvStays ==
  ASSUME KvInPlace,
         \A r \in Live' : \A p \in 0 .. seq_len'[r] - 1 : \A l \in Layers :
           StoredBy(<<r, p>>, l)' =>
             /\ LiveToken(r, p) /\ StoredBy(<<r, p>>, l)
             /\ \A kv \in KV : /\ TokenAddress(<<r, p>>, l, kv)' = TokenAddress(<<r, p>>, l, kv)
                               /\ mem'[TokenAddress(<<r, p>>, l, kv)] = mem[TokenAddress(<<r, p>>, l, kv)]
  PROVE  KvInPlace'
<1> SUFFICES ASSUME NEW r \in Live', NEW p \in 0 .. seq_len'[r] - 1, NEW l \in Layers,
                    StoredBy(<<r, p>>, l)', NEW kv \in KV
             PROVE  Holds(<<r, p>>, l, kv)'
  BY Zenon DEF KvInPlace
<1>1. LiveToken(r, p) /\ StoredBy(<<r, p>>, l)
  BY Zenon
<1>2. Holds(<<r, p>>, l, kv)
  BY <1>1 DEF KvInPlace, LiveToken
<1>3. /\ TokenAddress(<<r, p>>, l, kv)' = TokenAddress(<<r, p>>, l, kv)
      /\ mem'[TokenAddress(<<r, p>>, l, kv)] = mem[TokenAddress(<<r, p>>, l, kv)]
  BY Zenon
<1> QED BY <1>2, <1>3, Zenon DEF Holds
-----------------------------------------------------------------------------
(* Changes of layers                                                       *)

PassesInv ==
  /\ pass \in [kind : {"none", "prefill", "decode"}, batch : Seq(Requests),
               layer : Layers, stored : BOOLEAN, attended : BOOLEAN]
  /\ pass.kind = "none" => pass = NoPass
  /\ ToSet(pass.batch) \subseteq Live
  /\ finished \subseteq {r \in Requests : seq_len[r] > 0}

MemoryInv ==
  /\ DOMAIN mem = Addresses
  /\ GroupsInv /\ RowsInv /\ PassesInv
  /\ WeightsInPlace /\ KvInPlace /\ LentCellsHoldKv

(* This is the invariant that the runs check. *)
LEMMA MemoryInvIsLentInv == MemoryInv <=> LentInv
<1>1. ASSUME GroupsInv
      PROVE  RowsInv <=> /\ Gpu!EveryBlockHasOnePlace(1 .. NumBlocksOrg + Len(kv_groups) * GroupSize)
                         /\ block_table \in [Requests -> Seq(1 .. PoolSize)]
                         /\ seq_len \in [Requests -> 0 .. MaxLen]
                         /\ \A r \in Requests : Len(block_table[r]) =
                              IF r \in Live THEN CeilDivide(seq_len[r], BlockSize) ELSE 0
  <2>1. PoolSize \in Nat /\ PoolSize = NumBlocksOrg + Len(kv_groups) * GroupSize
    BY <1>1, PoolSizeIsNat DEF PoolSize
  <2> QED BY <2>1, PoolKnown, Zenon DEF RowsInv
<1>2. ASSUME GroupsInv
      PROVE  /\ precision \in [Layers -> {"fp16", "w4"}]
             /\ \A i \in DOMAIN kv_groups :
                  /\ kv_groups[i].layer \in Layers
                  /\ CellsOf(kv_groups[i]) \subseteq Addresses
             /\ IsInjective([i \in DOMAIN kv_groups |-> kv_groups[i].layer])
  <2>1. \A i \in DOMAIN kv_groups : kv_groups[i].layer \in Layers /\ CellsOf(kv_groups[i]) \subseteq Addresses
    BY <1>2, GroupArea, CellsInRegion
  <2>2. IsInjective([i \in DOMAIN kv_groups |-> kv_groups[i].layer])
    BY <1>2 DEF IsInjective, GroupsInv
  <2> QED BY <1>2, <2>1, <2>2 DEF GroupsInv
<1>3. ASSUME PassesInv
      PROVE  pass.kind \in {"none", "prefill", "decode"}
  BY <1>3 DEF PassesInv
<1> QED BY <1>1, <1>2, <1>3, Zenon DEF MemoryInv, LentInv, TypeOK, PassInv, PassesInv

(* The cells of a tail lie behind the packed weights of its layer. *)
LEMMA TailCells ==
  ASSUME NEW l \in Layers, ~LendsNothing(l)
  PROVE  CellsOf(AcquireNewKvCache(l)) \subseteq RegionOf(l) + PackedLayerSize .. RegionOf(l) + LayerSize - 1
<1> DEFINE g == AcquireNewKvCache(l)
<1>1. /\ g.k \in Nat /\ g.v \in Nat /\ g.blocks \in Nat /\ RegionOf(l) \in Nat
      /\ RegionOf(l) + PackedLayerSize <= g.k
      /\ g.v + g.blocks * HalfBlock <= RegionOf(l) + LayerSize
  BY TailFits
<1> HIDE DEF g
<1>2. CellsOf(g) \subseteq RegionOf(l) + PackedLayerSize .. RegionOf(l) + LayerSize - 1
  BY <1>1, Sizes DEF CellsOf
<1> QED BY <1>2 DEF g

(* The tensor of its block decides the address of a slot. *)
LEMMA SameOwnAddress ==
  ASSUME NEW c, NEW d, NEW kv, NEW i, NEW l, NEW x,
         c[kv] = d[kv], c.num_blocks_org = d.num_blocks_org,
         ~(i < c.num_blocks_org) =>
           /\ c.kv_cache_new_block_size = d.kv_cache_new_block_size
           /\ LET g == (i - c.num_blocks_org) \div c.kv_cache_new_block_size + 1
              IN  c.groups[g] = d.groups[g]
  PROVE  OwnAddress(c, kv, i, l, x) = OwnAddress(d, kv, i, l, x)
BY Zenon DEF OwnAddress, LocalTable

(* Without another group, request or block the slots are where they were. *)
LEMMA SameTokenAddress ==
  ASSUME UNCHANGED <<kv_groups, block_table>>, NEW t, NEW l, NEW kv
  PROVE  TokenAddress(t, l, kv)' = TokenAddress(t, l, kv)
<1>1. Caches' = Caches /\ Table' = Table
  BY DEF Caches, GroupSize, Table
<1> QED BY <1>1, Zenon DEF TokenAddress

(* Between passes everything that has arrived is stored. *)
LEMMA NothingLeft ==
  ASSUME pass = NoPass, NEW t, NEW l
  PROVE  StoredBy(t, l)
BY DEF StoredBy, PassTokens, NoPass, ToSet

(* Changing a layer touches no request. *)
LEMMA SameRequests ==
  ASSUME UNCHANGED <<requestVars, pass>>
  PROVE  /\ Live' = Live /\ seq_len' = seq_len
         /\ PassesInv => PassesInv'
         /\ \A r, p : LiveToken(r, p)' <=> LiveToken(r, p)
BY DEF requestVars, Live, PassesInv, LiveToken

(* Installing the other variant of a layer that lends nothing. *)
LEMMA CopyKeepsMemory ==
  ASSUME MemoryInv, GroupsInv', pass = NoPass, NEW l \in Layers, l \notin Grouped,
         NEW variant \in {"fp16", "w4"},
         mem' = Copied(mem, l, ImageOf(l, variant), SizeOf(variant)),
         precision' = [precision EXCEPT ![l] = variant],
         UNCHANGED <<kv_groups, poolVars, requestVars, pass>>
  PROVE  MemoryInv'
<1>1. /\ DOMAIN mem = Addresses /\ GroupsInv /\ RowsInv /\ PassesInv
      /\ WeightsInPlace /\ KvInPlace /\ LentCellsHoldKv
  BY Zenon DEF MemoryInv
<1>2. /\ DOMAIN mem' = Addresses
      /\ WeightsInPlace'
      /\ \A a \in Addresses :
           a >= OriginalK \/ (\E g \in DOMAIN kv_groups : a \in CellsOf(kv_groups[g])) => mem'[a] = mem[a]
  BY <1>1, CopyInstalls
<1>3. Live' = Live /\ seq_len' = seq_len /\ PassesInv'
  BY <1>1, SameRequests
<1>4. RowsInv'
  BY <1>1, <1>3 DEF RowsInv, poolVars, PoolTells, PoolSize, GroupSize
<1>5. KvInPlace'
  <2>1. ASSUME NEW r \in Live', NEW p \in 0 .. seq_len'[r] - 1, NEW m \in Layers
        PROVE  /\ LiveToken(r, p) /\ StoredBy(<<r, p>>, m)
               /\ \A kv \in KV : /\ TokenAddress(<<r, p>>, m, kv)' = TokenAddress(<<r, p>>, m, kv)
                                 /\ mem'[TokenAddress(<<r, p>>, m, kv)] = mem[TokenAddress(<<r, p>>, m, kv)]
    <3>1. LiveToken(r, p)
      BY <1>3 DEF LiveToken
    <3>2. StoredBy(<<r, p>>, m)
      BY NothingLeft
    <3>3. \A kv \in KV : TokenAddress(<<r, p>>, m, kv)' = TokenAddress(<<r, p>>, m, kv)
      BY SameTokenAddress DEF poolVars
    <3>4. \A kv \in KV : mem'[TokenAddress(<<r, p>>, m, kv)] = mem[TokenAddress(<<r, p>>, m, kv)]
      BY <1>1, <1>2, <3>1, TokenCell
    <3> QED BY <3>1, <3>2, <3>3, <3>4
  <2> QED BY <1>1, <2>1, KvStays
<1>6. LentCellsHoldKv'
  <2>1. \A i \in DOMAIN kv_groups : \A a \in CellsOf(kv_groups[i]) : mem'[a] = mem[a]
    BY <1>1, <1>2, CellsInRegion
  <2> QED BY <1>1, <2>1 DEF LentCellsHoldKv
<1> QED BY <1>1, <1>2, <1>3, <1>4, <1>5, <1>6, Zenon DEF MemoryInv

(* A layer that is replaced runs FP16 and lends nothing. *)
LEMMA MorphKeepsMemory ==
  ASSUME MemoryInv, GroupsInv', pass = NoPass, NEW l \in Layers, MorphToW4(l),
         UNCHANGED <<requestVars, pass>>
  PROVE  MemoryInv'
<1>1. l \notin Grouped
  BY DEF MemoryInv, GroupsInv, MorphToW4, Grouped
<1>2. /\ mem' = Copied(mem, l, ImageOf(l, "w4"), SizeOf("w4"))
      /\ precision' = [precision EXCEPT ![l] = "w4"]
      /\ UNCHANGED <<kv_groups, poolVars>>
  BY DEF MorphToW4, ImageOf, SizeOf
<1> QED BY <1>1, <1>2, CopyKeepsMemory

(* A layer that is restored lends nothing any more. *)
LEMMA RestoreKeepsMemory ==
  ASSUME MemoryInv, GroupsInv', pass = NoPass, NEW l \in Layers, RestoreFp16(l),
         UNCHANGED <<requestVars, pass>>
  PROVE  MemoryInv'
<1>1. l \notin Grouped
  BY DEF RestoreFp16
<1>2. /\ mem' = Copied(mem, l, ImageOf(l, "fp16"), SizeOf("fp16"))
      /\ precision' = [precision EXCEPT ![l] = "fp16"]
      /\ UNCHANGED <<kv_groups, poolVars>>
  BY DEF RestoreFp16, ImageOf, SizeOf
<1> QED BY <1>1, <1>2, CopyKeepsMemory

(* Lending a tail: the group comes last, and its blocks are the last of the pool. *)
LEMMA ExpandWidens ==
  ASSUME GroupsInv, GroupsInv', NEW l \in Layers, ExpandKv(l)
  PROVE  /\ PoolSize' \in Nat /\ PoolSize <= PoolSize'
         /\ is_block_free' = is_block_free \cup (PoolSize + 1 .. PoolSize')
         /\ num_free_blocks' = num_free_blocks + (PoolSize' - PoolSize)
         /\ kv_groups # <<>> => GroupSize' = GroupSize
         /\ DOMAIN kv_groups' = 1 .. Len(kv_groups) + 1
         /\ \A i \in DOMAIN kv_groups : kv_groups'[i] = kv_groups[i]
         /\ kv_groups'[Len(kv_groups) + 1] = AcquireNewKvCache(l)
<1> DEFINE n == Len(kv_groups)
           d == AcquireNewKvCache(l).blocks
<1>1. /\ n \in Nat /\ DOMAIN kv_groups = 1 .. n /\ n * GroupSize \in Nat /\ PoolSize \in Nat
      /\ GroupSize \in Nat /\ NumBlocksOrg \in Nat /\ PoolSize = NumBlocksOrg + n * GroupSize
  BY PoolSizeIsNat DEF PoolSize
<1>2. /\ kv_groups' = Append(kv_groups, AcquireNewKvCache(l)) /\ kv_groups \in Seq(LentGroups)
      /\ kv_groups # <<>> => d = GroupSize
      /\ is_block_free' = is_block_free \cup (PoolSize + 1 .. PoolSize + d)
      /\ num_free_blocks' = num_free_blocks + d
  BY DEF ExpandKv, GroupsInv, PoolSize
<1>3. d \in Nat
  BY TailFits DEF ExpandKv
<1>4. /\ DOMAIN kv_groups' = 1 .. n + 1 /\ Len(kv_groups') = n + 1
      /\ \A i \in DOMAIN kv_groups : kv_groups'[i] = kv_groups[i]
      /\ kv_groups'[n + 1] = AcquireNewKvCache(l)
  BY <1>1, <1>2
<1>5. GroupSize' = d
  <2>1. n + 1 \in DOMAIN kv_groups' /\ kv_groups'[n + 1].blocks = d
    BY <1>1, <1>4
  <2> QED BY <2>1 DEF GroupsInv
<1> HIDE DEF d
<1>6. PoolSize' = PoolSize + d
  <2>1. PoolSize' = NumBlocksOrg + (n + 1) * d
    BY <1>4, <1>5 DEF PoolSize
  <2>2. n * GroupSize = n * d
    <3>1. CASE kv_groups = <<>>
      <4>1. n = 0
        BY <3>1
      <4> QED BY <1>1, <1>3, <4>1
    <3>2. CASE kv_groups # <<>>
      BY <1>2, <3>2
    <3> QED BY <3>1, <3>2
  <2> HIDE DEF n
  <2>3. (n + 1) * d = n * d + d
    BY <1>1, <1>3
  <2> QED BY <1>1, <1>3, <2>1, <2>2, <2>3
<1>7. PoolSize' - PoolSize = d
  BY <1>1, <1>3, <1>6
<1> QED BY <1>1, <1>2, <1>3, <1>4, <1>5, <1>6, <1>7

(* The blocks of the requests stay in the tensors they were in. *)
LEMMA ExpandKeepsAddresses ==
  ASSUME GroupsInv, GroupsInv', RowsInv, NEW l \in Layers, ExpandKv(l),
         NEW r, NEW p, LiveToken(r, p), NEW m, NEW kv \in KV
  PROVE  TokenAddress(<<r, p>>, m, kv)' = TokenAddress(<<r, p>>, m, kv)
<1> DEFINE i == BlockOf(Table, <<r, p>>)
<1>1. i \in 0 .. PoolSize - 1
  BY TokenSlot
<1>2. Table' = Table
  BY DEF Table, ExpandKv
<1> HIDE DEF i
<1>3. /\ Caches[kv] = Caches'[kv]
      /\ Caches.num_blocks_org = NumBlocksOrg /\ Caches'.num_blocks_org = NumBlocksOrg
      /\ Caches.kv_cache_new_block_size = GroupSize /\ Caches'.kv_cache_new_block_size = GroupSize'
      /\ Caches.groups = kv_groups /\ Caches'.groups = kv_groups'
  BY DEF Caches, KV
<1>4. ASSUME ~(i < NumBlocksOrg)
      PROVE  /\ GroupSize = GroupSize'
             /\ LET g == (i - NumBlocksOrg) \div GroupSize + 1 IN kv_groups[g] = kv_groups'[g]
  <2> DEFINE g == (i - NumBlocksOrg) \div GroupSize + 1
  <2>1. i \in NumBlocksOrg .. NumBlocksOrg + Len(kv_groups) * GroupSize - 1
    <3>1. i \in 0 .. NumBlocksOrg + Len(kv_groups) * GroupSize - 1 /\ NumBlocksOrg \in Nat
      BY <1>1, PoolRange, PoolSizeIsNat
    <3> QED BY <1>4, <3>1
  <2>2. GroupSize \in Nat \ {0} /\ g \in 1 .. Len(kv_groups)
    BY <2>1, LentIndex
  <2>3. g \in DOMAIN kv_groups /\ kv_groups # <<>>
    BY <2>2 DEF GroupsInv
  <2> QED BY <2>3, ExpandWidens
<1>5. OwnAddress(Caches, kv, i, m, OffsetOf(<<r, p>>)) = OwnAddress(Caches', kv, i, m, OffsetOf(<<r, p>>))
  BY <1>3, <1>4, SameOwnAddress
<1> QED BY <1>2, <1>5, Zenon DEF TokenAddress, i

(* Lending a tail changes that tail alone, which held neither weights nor slots. *)
LEMMA ExpandKeepsMemory ==
  ASSUME MemoryInv, GroupsInv', pass = NoPass, NEW l \in Layers, ExpandKv(l),
         UNCHANGED <<requestVars, pass>>
  PROVE  MemoryInv'
<1> DEFINE n == Len(kv_groups)
           group == AcquireNewKvCache(l)
<1>1. /\ DOMAIN mem = Addresses /\ GroupsInv /\ RowsInv /\ PassesInv
      /\ WeightsInPlace /\ KvInPlace /\ LentCellsHoldKv
  BY Zenon DEF MemoryInv
<1>2. /\ precision[l] = "w4" /\ l \notin Grouped /\ ~LendsNothing(l)
      /\ mem' = Zeroed(mem, group) /\ precision' = precision /\ block_table' = block_table
  BY DEF ExpandKv
<1>3. /\ PoolSize' \in Nat /\ PoolSize <= PoolSize'
      /\ is_block_free' = is_block_free \cup (PoolSize + 1 .. PoolSize')
      /\ num_free_blocks' = num_free_blocks + (PoolSize' - PoolSize)
      /\ DOMAIN kv_groups' = 1 .. n + 1
      /\ \A i \in DOMAIN kv_groups : kv_groups'[i] = kv_groups[i]
      /\ kv_groups'[n + 1] = group
  BY <1>1, ExpandWidens
<1>4. /\ DOMAIN mem' = Addresses
      /\ \A a \in Addresses : mem'[a] = IF a \in CellsOf(group) THEN Zero ELSE mem[a]
  BY <1>1, <1>2, Zenon DEF Zeroed
<1>5. CellsOf(group) \subseteq RegionOf(l) + PackedLayerSize .. RegionOf(l) + LayerSize - 1
  BY <1>2, TailCells
<1> HIDE DEF group
<1>6. RegionOf(l) \in Nat /\ Addresses \subseteq Int
  BY OriginalArea DEF Addresses
<1>7. \A a \in CellsOf(group) : a \in Int /\ a - RegionOf(l) \in PackedLayerSize .. LayerSize - 1
  BY <1>5, <1>6, Sizes
<1>8. \A a \in Addresses : a \notin CellsOf(group) => mem'[a] = mem[a]
  BY <1>4
<1>9. Live' = Live /\ seq_len' = seq_len /\ PassesInv' /\ \A r, p : LiveToken(r, p)' <=> LiveToken(r, p)
  BY <1>1, SameRequests
<1>10. RowsInv'
  <2>1. PoolSize \in Nat
    BY <1>1, PoolSizeIsNat
  <2>2. DeviceTells(Requests, PoolSize, 1 .. PoolSize, is_block_free, num_free_blocks, block_table)
    BY <1>1, Zenon DEF RowsInv, PoolTells
  <2>3. PoolTells(PoolSize)'
    <3> DEFINE size == PoolSize
               wide == PoolSize'
               more == wide - size
    <3> HIDE DEF size, wide, more
    <3>1. size \in Nat /\ wide \in Nat /\ size <= wide /\ more \in Nat /\ size + more = wide /\ size + more <= wide
      <4>1. size \in Nat /\ wide \in Nat /\ size <= wide
        BY <1>3, <2>1 DEF size, wide
      <4>2. more = wide - size
        BY DEF more
      <4> QED BY <4>1, <4>2
    <3>2. /\ is_block_free' = is_block_free \cup (size + 1 .. wide)
          /\ num_free_blocks' = num_free_blocks + more
      BY <1>3 DEF size, wide, more
    <3>3. DeviceTells(Requests, size, 1 .. size, is_block_free, num_free_blocks, block_table)
      BY <2>2 DEF size
    <3>4. DeviceTells(Requests, wide, 1 .. size, is_block_free, num_free_blocks, block_table)
      BY <3>1, <3>3, DeviceWidens, Zenon
    <3>5. DeviceTells(Requests, wide, 1 .. size + more, is_block_free \cup (size + 1 .. size + more),
                      num_free_blocks + more, block_table)
      BY <3>1, <3>4, DeviceGrows, Zenon
    <3>6. DeviceTells(Requests, wide, 1 .. wide, is_block_free', num_free_blocks', block_table')
      BY <1>2, <3>1, <3>2, <3>5
    <3> QED BY <3>6 DEF PoolTells, wide
  <2> QED BY <1>1, <1>2, <1>9, <2>3 DEF RowsInv
<1>11. WeightsInPlace'
  <2> SUFFICES ASSUME NEW m \in Layers PROVE InPlace(m)'
    BY DEF WeightsInPlace, InPlace, ImageOf, SizeOf
  <2>1. InPlace(m)
    BY <1>1, InPlaceEach
  <2>2. SizeOf(precision[m]) \in Nat /\ SizeOf(precision[m]) <= LayerSize /\ RegionOf(m) \in Nat
    BY <1>1, Sizes, OriginalArea DEF SizeOf
  <2>3. ASSUME NEW j \in 1 .. SizeOf(precision[m])
        PROVE  mem'[RegionOf(m) + j - 1] = mem[RegionOf(m) + j - 1]
    <3> DEFINE a == RegionOf(m) + j - 1
    <3>1. a \in Int /\ a - RegionOf(m) = j - 1 /\ a - RegionOf(m) \in 0 .. LayerSize - 1
      BY <2>2, Sizes
    <3> HIDE DEF a
    <3>2. a \in Addresses
      BY <3>1, RegionCells
    <3>3. a \notin CellsOf(group)
      <4> SUFFICES ASSUME a \in CellsOf(group) PROVE FALSE
        OBVIOUS
      <4>1. a - RegionOf(l) \in PackedLayerSize .. LayerSize - 1
        BY <1>7
      <4>2. a - RegionOf(l) \in 0 .. LayerSize - 1
        BY <4>1, Sizes
      <4>3. l = m
        BY <3>1, <4>2, OneRegion
      <4>4. SizeOf(precision[m]) = PackedLayerSize
        BY <1>2, <4>3 DEF SizeOf
      <4> QED BY <3>1, <4>1, <4>3, <4>4, Sizes
    <3> QED BY <1>8, <3>2, <3>3 DEF a
  <2> QED BY <1>2, <2>1, <2>3 DEF InPlace
<1>12. ASSUME NEW a \in Addresses,
              a >= OriginalK \/ (\E g \in DOMAIN kv_groups : a \in CellsOf(kv_groups[g]))
       PROVE  mem'[a] = mem[a]
  <2>1. a - RegionOf(l) \notin 0 .. LayerSize - 1 /\ a \in Int
    BY <1>1, <1>2, <1>6, <1>12, SlotsOutside
  <2>2. a \notin CellsOf(group)
    BY <1>7, <2>1, Sizes
  <2> QED BY <1>8, <2>2
<1>13. KvInPlace'
  <2>1. ASSUME NEW r \in Live', NEW p \in 0 .. seq_len'[r] - 1, NEW m \in Layers
        PROVE  /\ LiveToken(r, p) /\ StoredBy(<<r, p>>, m)
               /\ \A kv \in KV : /\ TokenAddress(<<r, p>>, m, kv)' = TokenAddress(<<r, p>>, m, kv)
                                 /\ mem'[TokenAddress(<<r, p>>, m, kv)] = mem[TokenAddress(<<r, p>>, m, kv)]
    <3>1. LiveToken(r, p)
      BY <1>9 DEF LiveToken
    <3>2. StoredBy(<<r, p>>, m)
      BY NothingLeft
    <3>3. \A kv \in KV : TokenAddress(<<r, p>>, m, kv)' = TokenAddress(<<r, p>>, m, kv)
      BY <1>1, <3>1, ExpandKeepsAddresses
    <3>4. \A kv \in KV : mem'[TokenAddress(<<r, p>>, m, kv)] = mem[TokenAddress(<<r, p>>, m, kv)]
      BY <1>1, <1>12, <3>1, TokenCell
    <3> QED BY <3>1, <3>2, <3>3, <3>4
  <2> QED BY <1>1, <2>1, KvStays
<1>14. LentCellsHoldKv'
  <2> SUFFICES ASSUME NEW i \in DOMAIN kv_groups', NEW a \in CellsOf(kv_groups'[i])
               PROVE  mem'[a] = Zero \/ mem'[a][1] \in KV
    BY DEF LentCellsHoldKv
  <2>1. DOMAIN kv_groups = 1 .. n /\ n \in Nat
    BY <1>1, PoolSizeIsNat
  <2>2. CASE i \in DOMAIN kv_groups
    <3>1. a \in CellsOf(kv_groups[i])
      BY <1>3, <2>2
    <3>2. a \in Addresses
      BY <1>1, <2>2, <3>1, CellsInRegion
    <3>3. mem'[a] = mem[a]
      BY <1>12, <2>2, <3>1, <3>2
    <3> QED BY <1>1, <2>2, <3>1, <3>3 DEF LentCellsHoldKv
  <2>3. CASE i = n + 1
    <3>1. a \in CellsOf(group)
      BY <1>3, <2>3
    <3>2. a \in Addresses
      BY <1>7, <3>1, RegionCells, Sizes
    <3> QED BY <1>4, <3>1, <3>2
  <2> QED BY <1>3, <2>1, <2>2, <2>3
<1> QED BY <1>1, <1>4, <1>9, <1>10, <1>11, <1>13, <1>14, Zenon DEF MemoryInv

(* Taking the newest group back: its blocks are the last of the pool, and free. *)
LEMMA ShrinkCuts ==
  ASSUME GroupsInv, ShrinkKv
  PROVE  /\ PoolSize' \in Nat /\ GroupSize \in Nat \ {0} /\ PoolSize = PoolSize' + GroupSize
         /\ PoolSize' = NumBlocksOrg + (Len(kv_groups) - 1) * GroupSize
         /\ PoolSize' + 1 .. PoolSize \subseteq is_block_free
         /\ is_block_free' = is_block_free \cap (1 .. PoolSize')
         /\ num_free_blocks' = num_free_blocks - GroupSize
         /\ Len(kv_groups) \in Nat \ {0} /\ DOMAIN kv_groups' = 1 .. Len(kv_groups) - 1
         /\ \A i \in DOMAIN kv_groups' : i \in DOMAIN kv_groups /\ kv_groups'[i] = kv_groups[i]
         /\ Len(kv_groups) > 1 => GroupSize' = GroupSize
<1> DEFINE n == Len(kv_groups)
           size == NumBlocksOrg + (n - 1) * GroupSize
<1>1. /\ kv_groups # <<>> /\ kv_groups' = SubSeq(kv_groups, 1, n - 1)
      /\ size + 1 .. size + GroupSize \subseteq is_block_free
      /\ is_block_free' = is_block_free \cap (1 .. size)
      /\ num_free_blocks' = num_free_blocks - GroupSize
      /\ kv_groups \in Seq(LentGroups)
  BY DEF ShrinkKv, Front, GroupsInv
<1>2. /\ n \in Nat /\ DOMAIN kv_groups = 1 .. n /\ PoolSize \in Nat
      /\ GroupSize \in Nat \ {0} /\ NumBlocksOrg \in Nat /\ PoolSize = NumBlocksOrg + n * GroupSize
  BY <1>1, PoolSizeIsNat DEF PoolSize
<1>3. /\ n \in Nat \ {0} /\ DOMAIN kv_groups' = 1 .. n - 1 /\ Len(kv_groups') = n - 1
      /\ \A i \in 1 .. n - 1 : i \in DOMAIN kv_groups /\ kv_groups'[i] = kv_groups[i]
  BY <1>1, <1>2
<1>4. n > 1 => GroupSize' = GroupSize
  <2>1. n > 1 => kv_groups' # <<>> /\ kv_groups'[1] = kv_groups[1]
    BY <1>3
  <2> QED BY <1>1, <2>1 DEF GroupSize
<1>5. n = 1 => GroupSize' = 0
  <2>1. n = 1 => kv_groups' = <<>>
    BY <1>1, <1>3
  <2> QED BY <2>1 DEF GroupSize
<1>6. PoolSize' = size
  <2>1. PoolSize' = NumBlocksOrg + (n - 1) * GroupSize'
    BY <1>3 DEF PoolSize
  <2>2. n = 1 => n - 1 = 0 /\ (n - 1) * GroupSize = 0 /\ (n - 1) * GroupSize' = 0
    BY <1>2, <1>5
  <2>3. n = 1 \/ n > 1
    BY <1>3
  <2> QED BY <1>4, <2>1, <2>2, <2>3
<1>7. size \in Nat /\ PoolSize = size + GroupSize
  <2> HIDE DEF n
  <2>1. n * GroupSize = (n - 1) * GroupSize + GroupSize /\ (n - 1) * GroupSize \in Nat
    BY <1>2, <1>3
  <2> QED BY <1>2, <2>1
<1> HIDE DEF size
<1> QED BY <1>1, <1>2, <1>3, <1>4, <1>6, <1>7 DEF size

(* No request has a block of the group, so their slots are where they were. *)
LEMMA ShrinkKeepsAddresses ==
  ASSUME GroupsInv, RowsInv, ShrinkKv,
         NEW r, NEW p, LiveToken(r, p), NEW m, NEW kv \in KV
  PROVE  TokenAddress(<<r, p>>, m, kv)' = TokenAddress(<<r, p>>, m, kv)
<1> DEFINE i == BlockOf(Table, <<r, p>>)
           k == p \div BlockSize + 1
           b == block_table[r][k]
<1>1. i \in 0 .. PoolSize - 1 /\ i = b - 1 /\ b \notin is_block_free
      /\ k \in DOMAIN block_table[r] /\ r \in Requests
  BY TokenSlot
<1>2. Table' = Table
  BY DEF Table, ShrinkKv
<1>3. /\ PoolSize' \in Nat /\ GroupSize \in Nat \ {0} /\ PoolSize = PoolSize' + GroupSize
      /\ PoolSize' = NumBlocksOrg + (Len(kv_groups) - 1) * GroupSize
      /\ PoolSize' + 1 .. PoolSize \subseteq is_block_free
      /\ Len(kv_groups) \in Nat \ {0} /\ DOMAIN kv_groups' = 1 .. Len(kv_groups) - 1
      /\ \A j \in DOMAIN kv_groups' : kv_groups'[j] = kv_groups[j]
      /\ Len(kv_groups) > 1 => GroupSize' = GroupSize
      /\ NumBlocksOrg \in Nat
  BY ShrinkCuts, LentAssumption
<1>4. b \in Int
  <2>1. block_table \in [Requests -> Seq(1 .. PoolSize)]
    BY Zenon DEF RowsInv, PoolTells, DeviceTells
  <2> HIDE DEF k
  <2>2. b \in 1 .. PoolSize
    <3>1. block_table[r] \in Seq(1 .. PoolSize) /\ k \in DOMAIN block_table[r]
      BY <1>1, <2>1
    <3>2. ASSUME NEW S, NEW s \in Seq(S), NEW j \in DOMAIN s
          PROVE  s[j] \in S
      OBVIOUS
    <3> QED BY <3>1, <3>2, Zenon DEF b
  <2> QED BY <1>3, <2>2
<1> HIDE DEF i, b
<1>5. i \in 0 .. PoolSize' - 1
  <2>1. b \in 1 .. PoolSize
    BY <1>1, <1>3, <1>4
  <2>2. b \notin PoolSize' + 1 .. PoolSize
    BY <1>1, <1>3
  <2> QED BY <1>1, <1>3, <1>4, <2>1, <2>2
<1>6. /\ Caches[kv] = Caches'[kv]
      /\ Caches.num_blocks_org = NumBlocksOrg /\ Caches'.num_blocks_org = NumBlocksOrg
      /\ Caches.kv_cache_new_block_size = GroupSize /\ Caches'.kv_cache_new_block_size = GroupSize'
      /\ Caches.groups = kv_groups /\ Caches'.groups = kv_groups'
  BY DEF Caches, KV
<1>7. ASSUME ~(i < NumBlocksOrg)
      PROVE  /\ GroupSize = GroupSize'
             /\ LET g == (i - NumBlocksOrg) \div GroupSize + 1 IN kv_groups[g] = kv_groups'[g]
  <2> DEFINE n == Len(kv_groups) - 1
             x == i - NumBlocksOrg
             g == x \div GroupSize + 1
  <2>1. n \in Nat /\ n * GroupSize \in Nat /\ PoolSize' = NumBlocksOrg + n * GroupSize
    BY <1>3
  <2> HIDE DEF n
  <2>2. x \in 0 .. n * GroupSize - 1
    BY <1>3, <1>5, <1>7, <2>1
  <2> HIDE DEF x
  <2>3. x \div GroupSize \in 0 .. n - 1
    BY <1>3, <2>1, <2>2, RunOfIndex
  <2>4. g \in 1 .. n /\ n >= 1
    BY <2>1, <2>3
  <2> HIDE DEF g
  <2>5. g \in DOMAIN kv_groups' /\ Len(kv_groups) > 1
    BY <1>3, <2>4 DEF n
  <2> QED BY <1>3, <2>5 DEF g, x
<1>8. OwnAddress(Caches, kv, i, m, OffsetOf(<<r, p>>)) = OwnAddress(Caches', kv, i, m, OffsetOf(<<r, p>>))
  BY <1>6, <1>7, SameOwnAddress
<1> QED BY <1>2, <1>8, Zenon DEF TokenAddress, i

(* Taking a group back writes nothing. *)
LEMMA ShrinkKeepsMemory ==
  ASSUME MemoryInv, GroupsInv', pass = NoPass, ShrinkKv, UNCHANGED <<requestVars, pass>>
  PROVE  MemoryInv'
<1>1. /\ DOMAIN mem = Addresses /\ GroupsInv /\ RowsInv /\ PassesInv
      /\ WeightsInPlace /\ KvInPlace /\ LentCellsHoldKv
  BY Zenon DEF MemoryInv
<1>2. UNCHANGED <<mem, precision, block_table>>
  BY DEF ShrinkKv
<1>3. Live' = Live /\ seq_len' = seq_len /\ PassesInv' /\ \A r, p : LiveToken(r, p)' <=> LiveToken(r, p)
  BY <1>1, SameRequests
<1>4. RowsInv'
  <2> DEFINE size == PoolSize
             small == PoolSize'
             cut == GroupSize
  <2>1. DeviceTells(Requests, PoolSize, 1 .. PoolSize, is_block_free, num_free_blocks, block_table)
    BY <1>1, Zenon DEF RowsInv, PoolTells
  <2>2. /\ small \in Nat /\ cut \in Nat \ {0} /\ size = small + cut
        /\ small + 1 .. size \subseteq is_block_free
        /\ is_block_free' = is_block_free \cap (1 .. small)
        /\ num_free_blocks' = num_free_blocks - cut
    BY <1>1, ShrinkCuts
  <2>3. DeviceTells(Requests, size, 1 .. size, is_block_free, num_free_blocks, block_table)
    BY <2>1
  <2>4. PoolTells(PoolSize)'
    <3> HIDE DEF size, small, cut
    <3>1. size \in Nat /\ cut \in 0 .. size /\ size - cut = small
      BY <2>2
    <3>2. size - cut + 1 .. size \subseteq is_block_free
      BY <2>2, <3>1, Zenon
    <3>3. DeviceTells(Requests, size, 1 .. size - cut, is_block_free \cap (1 .. size - cut),
                      num_free_blocks - cut, block_table)
      BY <2>3, <3>1, <3>2, DeviceShrinks, Zenon
    <3>4. DeviceTells(Requests, size, 1 .. small, is_block_free', num_free_blocks', block_table')
      BY <1>2, <2>2, <3>1, <3>3
    <3>5. DeviceTells(Requests, small, 1 .. small, is_block_free', num_free_blocks', block_table')
      BY <2>2, <3>1, <3>4, DeviceNarrows, Zenon
    <3> QED BY <3>5 DEF PoolTells, small
  <2> QED BY <1>1, <1>2, <1>3, <2>4 DEF RowsInv
<1>5. WeightsInPlace'
  BY <1>1, <1>2 DEF WeightsInPlace
<1>6. KvInPlace'
  <2>1. ASSUME NEW r \in Live', NEW p \in 0 .. seq_len'[r] - 1, NEW m \in Layers
        PROVE  /\ LiveToken(r, p) /\ StoredBy(<<r, p>>, m)
               /\ \A kv \in KV : /\ TokenAddress(<<r, p>>, m, kv)' = TokenAddress(<<r, p>>, m, kv)
                                 /\ mem'[TokenAddress(<<r, p>>, m, kv)] = mem[TokenAddress(<<r, p>>, m, kv)]
    <3>1. LiveToken(r, p)
      BY <1>3 DEF LiveToken
    <3>2. StoredBy(<<r, p>>, m)
      BY NothingLeft
    <3>3. \A kv \in KV : TokenAddress(<<r, p>>, m, kv)' = TokenAddress(<<r, p>>, m, kv)
      BY <1>1, <3>1, ShrinkKeepsAddresses
    <3> QED BY <1>2, <3>1, <3>2, <3>3
  <2> QED BY <1>1, <2>1, KvStays
<1>7. LentCellsHoldKv'
  <2>1. \A i \in DOMAIN kv_groups' : i \in DOMAIN kv_groups /\ kv_groups'[i] = kv_groups[i]
    BY <1>1, ShrinkCuts
  <2> QED BY <1>1, <1>2, <2>1 DEF LentCellsHoldKv
<1> QED BY <1>1, <1>2, <1>3, <1>4, <1>5, <1>6, <1>7, Zenon DEF MemoryInv

(* Whatever changes of the layers, the memory is as it should be. *)
LEMMA ChangeKeepsMemory ==
  ASSUME MemoryInv, GroupsInv', ChangeLayers
  PROVE  MemoryInv'
<1>1. pass = NoPass /\ UNCHANGED <<requestVars, pass>>
  BY DEF ChangeLayers
<1>2. ShrinkKv \/ \E l \in Layers : MorphToW4(l) \/ ExpandKv(l) \/ RestoreFp16(l)
  BY DEF ChangeLayers
<1> QED BY <1>1, <1>2, ShrinkKeepsMemory, MorphKeepsMemory, ExpandKeepsMemory, RestoreKeepsMemory

-----------------------------------------------------------------------------
(* The start of a pass                                                     *)

(* The programs of the prefill kernel cover the prompt, and nothing else is stored. *)
LEMMA PrefillCovers ==
  ASSUME NEW r, NEW len \in Nat
  PROVE  PrefillTokens(r, len) = {r} \X (0 .. len - 1)
<1> DEFINE last == (len - 1) \div BlockSize
<1>1. BlockSize \in Nat \ {0}
  BY LayoutAssumption
<1>2. ASSUME NEW p \in 0 .. len - 1
      PROVE  \E b \in 0 .. last : \E i \in 0 .. BlockSize - 1 : p = b * BlockSize + i
  <2> DEFINE b == p \div BlockSize
             i == p % BlockSize
             x == len - 1
             c == x \div BlockSize
  <2>1. x \in Nat /\ p \in Nat /\ p <= x /\ last = c
    OBVIOUS
  <2> HIDE DEF x
  <2>2. /\ b \in Nat /\ b * BlockSize <= p
        /\ c \in Nat /\ x < c * BlockSize + BlockSize
    BY <1>1, <2>1, Division
  <2>3. i \in 0 .. BlockSize - 1 /\ p = b * BlockSize + i
    BY <1>1, <2>1
  <2> HIDE DEF b, c, i
  <2>4. ASSUME b > c PROVE FALSE
    <3>1. (c + 1) * BlockSize <= b * BlockSize /\ (c + 1) * BlockSize = c * BlockSize + BlockSize
      BY <1>1, <2>2, <2>4
    <3>2. c * BlockSize \in Nat /\ b * BlockSize \in Nat
      BY <1>1, <2>2
    <3> QED BY <1>1, <2>1, <2>2, <3>1, <3>2
  <2>5. b \in 0 .. c
    BY <2>2, <2>4
  <2> QED BY <2>1, <2>3, <2>5
<1> HIDE DEF last
<1>3. PrefillTokens(r, len) =
        {<<r, b * BlockSize + i>> : b \in 0 .. last, i \in 0 .. BlockSize - 1} \cap ({r} \X (0 .. len - 1))
  BY DEF PrefillTokens, last
<1>4. ASSUME NEW t \in {r} \X (0 .. len - 1)
      PROVE  t \in PrefillTokens(r, len)
  <2>1. PICK p \in 0 .. len - 1 : t = <<r, p>>
    OBVIOUS
  <2>2. PICK b \in 0 .. last, i \in 0 .. BlockSize - 1 : p = b * BlockSize + i
    BY <1>2
  <2> QED BY <1>3, <2>1, <2>2
<1> QED BY <1>3, <1>4

(* The tokens of a pass are tokens of live requests. *)
LEMMA PassTokensLive ==
  ASSUME PassesInv, RowsInv, NEW t \in PassTokens
  PROVE  \E r, p : t = <<r, p>> /\ LiveToken(r, p)
<1>1. PICK r \in ToSet(pass.batch) : t \in Tokens(r)
  BY DEF PassTokens
<1>2. r \in Live /\ seq_len[r] \in Nat /\ seq_len[r] > 0
  BY <1>1 DEF PassesInv, RowsInv, Live
<1>3. CASE pass.kind = "prefill"
  <2>1. t \in {r} \X (0 .. seq_len[r] - 1)
    BY <1>1, <1>2, <1>3, PrefillCovers DEF Tokens
  <2> QED BY <1>2, <2>1 DEF LiveToken
<1>4. CASE pass.kind # "prefill"
  <2>1. t = <<r, seq_len[r] - 1>>
    BY <1>1, <1>4 DEF Tokens, DecodingTokens
  <2> QED BY <1>2, <2>1 DEF LiveToken
<1> QED BY <1>3, <1>4

(* A pass that begins allocates; the tokens it brings are not stored yet. *)
LEMMA PassStarts ==
  ASSUME MemoryInv, GroupsInv', NEW kind \in {"prefill", "decode"},
         NEW batch \in Seq(Requests), IsInjective(batch), StartPass(kind, batch),
         seq_len' \in [Requests -> 0 .. MaxLen],
         \A r \in Requests : seq_len[r] <= seq_len'[r] /\ (r \notin Elements(batch) => seq_len'[r] = seq_len[r]),
         \A r \in Elements(batch) : seq_len'[r] > 0 /\ r \notin finished,
         \A r \in Elements(batch) : \A p \in seq_len[r] .. seq_len'[r] - 1 : <<r, p>> \in PassTokens'
  PROVE  MemoryInv'
<1>1. /\ DOMAIN mem = Addresses /\ GroupsInv /\ RowsInv /\ PassesInv
      /\ WeightsInPlace /\ KvInPlace /\ LentCellsHoldKv
  BY Zenon DEF MemoryInv
<1>2. /\ pass = NoPass /\ pass' = [NoPass EXCEPT !.kind = kind, !.batch = batch]
      /\ Gpu!EnoughFree(batch, BlocksFor(batch))
      /\ Gpu!AllocateForSeqs(batch, BlocksFor(batch))
      /\ UNCHANGED <<mem, precision, kv_groups, explicit_kv_regions, finished>>
  BY DEF StartPass, layerVars
<1>3. /\ pass'.kind = kind /\ pass'.batch = batch /\ pass'.layer = 0 /\ pass'.stored = FALSE
      /\ pass' \in [kind : {"none", "prefill", "decode"}, batch : Seq(Requests),
                    layer : Layers, stored : BOOLEAN, attended : BOOLEAN]
  <2>1. 0 \in Layers
    BY LayoutAssumption DEF Layers
  <2>2. pass' = [kind |-> kind, batch |-> batch, layer |-> 0, stored |-> FALSE, attended |-> FALSE]
    BY <1>2 DEF NoPass
  <2> QED BY <2>1, <2>2
<1>4. /\ seq_len \in [Requests -> 0 .. MaxLen]
      /\ \A r \in Requests : seq_len[r] \in Nat /\ seq_len'[r] \in Nat
      /\ Elements(batch) \subseteq Requests
      /\ \A i \in DOMAIN batch : batch[i] \in Requests /\ batch[i] \in Elements(batch)
  BY <1>1 DEF RowsInv, Elements
<1>5. /\ \A r \in Requests : r \in Live => r \in Live'
      /\ \A r \in Elements(batch) : r \in Live'
      /\ \A r \in Requests : r \notin Elements(batch) => (r \in Live' <=> r \in Live)
  BY <1>2, <1>4 DEF Live
<1>6. PassesInv'
  <2>1. ToSet(pass'.batch) \subseteq Live'
    BY <1>3, <1>5 DEF ToSet, Elements
  <2>2. finished' \subseteq {r \in Requests : seq_len'[r] > 0}
    BY <1>1, <1>2, <1>4 DEF PassesInv
  <2>3. pass'.kind # "none"
    BY <1>3
  <2> QED BY <1>3, <2>1, <2>2, <2>3 DEF PassesInv
<1> DEFINE targets == BlocksFor(batch)
<1>7. /\ PoolSize \in Nat /\ PoolTells(PoolSize)
      /\ PoolSize' = PoolSize
  BY <1>1, <1>2, PoolSizeIsNat DEF RowsInv, PoolSize, GroupSize
<1>8. \A i \in DOMAIN batch : targets[i] = CeilDivide(seq_len'[batch[i]], BlockSize)
  BY DEF BlocksFor
<1>9. \A i \in DOMAIN batch : targets[i] \in Nat /\ Len(block_table[batch[i]]) <= targets[i]
  <2> SUFFICES ASSUME NEW i \in DOMAIN batch
               PROVE  targets[i] \in Nat /\ Len(block_table[batch[i]]) <= targets[i]
    OBVIOUS
  <2>1. CeilDivide(seq_len'[batch[i]], BlockSize) \in Nat
    BY <1>4, CeilCovers
  <2>2. CeilDivide(seq_len[batch[i]], BlockSize) <= CeilDivide(seq_len'[batch[i]], BlockSize)
    BY <1>4, CeilCovers
  <2>3. Len(block_table[batch[i]]) \in {CeilDivide(seq_len[batch[i]], BlockSize), 0}
    BY <1>1, <1>4 DEF RowsInv
  <2> HIDE DEF targets
  <2> QED BY <1>8, <2>1, <2>2, <2>3
<1>10. /\ DeviceTells(Requests, PoolSize, 1 .. PoolSize, is_block_free', num_free_blocks', block_table')
       /\ \A s \in Requests : ~(s \in Elements(batch)) => block_table'[s] = block_table[s]
       /\ \A i \in DOMAIN batch : Len(block_table'[batch[i]]) = targets[i]
       /\ \A s \in Requests : \A k \in DOMAIN block_table[s] :
            k \in DOMAIN block_table'[s] /\ block_table'[s][k] = block_table[s][k]
  <2> HIDE DEF targets
  <2> QED BY <1>2, <1>7, <1>9, PoolAllocates DEF targets
<1> HIDE DEF targets
<1>11. RowsInv'
  <2>1. PoolTells(PoolSize)'
    BY <1>7, <1>10 DEF PoolTells
  <2>2. ASSUME NEW r \in Requests
        PROVE  Len(block_table'[r]) = IF r \in Live' THEN CeilDivide(seq_len'[r], BlockSize) ELSE 0
    <3>1. CASE r \in Elements(batch)
      <4>1. PICK i \in DOMAIN batch : batch[i] = r
        BY <3>1 DEF Elements
      <4> QED BY <1>5, <1>8, <1>10, <3>1, <4>1
    <3>2. CASE r \notin Elements(batch)
      <4>1. block_table'[r] = block_table[r] /\ seq_len'[r] = seq_len[r] /\ (r \in Live' <=> r \in Live)
        BY <1>5, <1>10, <3>2
      <4> QED BY <1>1, <4>1 DEF RowsInv
    <3> QED BY <3>1, <3>2
  <2> QED BY <2>1, <2>2 DEF RowsInv
<1>12. KvInPlace'
  <2>1. ASSUME NEW r \in Live', NEW p \in 0 .. seq_len'[r] - 1, NEW l \in Layers, StoredBy(<<r, p>>, l)'
        PROVE  /\ LiveToken(r, p) /\ StoredBy(<<r, p>>, l)
               /\ \A kv \in KV : /\ TokenAddress(<<r, p>>, l, kv)' = TokenAddress(<<r, p>>, l, kv)
                                 /\ mem'[TokenAddress(<<r, p>>, l, kv)] = mem[TokenAddress(<<r, p>>, l, kv)]
    <3>1. r \in Requests /\ r \notin finished /\ p \in Nat /\ l \in Nat
      BY <1>2, <1>4 DEF Live, Layers
    <3>2. <<r, p>> \notin PassTokens'
      BY <1>3, <2>1, <3>1 DEF StoredBy
    <3>3. p < seq_len[r]
      <4> SUFFICES ASSUME p >= seq_len[r] PROVE FALSE
        BY <1>4, <3>1
      <4>1. p \in seq_len[r] .. seq_len'[r] - 1 /\ seq_len'[r] # seq_len[r]
        BY <1>4, <3>1
      <4> QED BY <3>1, <3>2, <4>1
    <3>4. LiveToken(r, p)
      BY <1>4, <3>1, <3>3 DEF LiveToken, Live
    <3>5. StoredBy(<<r, p>>, l)
      BY <1>2, NothingLeft
    <3> DEFINE k == p \div BlockSize + 1
    <3>6. k \in DOMAIN block_table[r] /\ BlockOf(Table, <<r, p>>) = block_table[r][k] - 1
      BY <1>1, <3>4, TokenSlot
    <3>7. BlockOf(Table', <<r, p>>) = BlockOf(Table, <<r, p>>)
      <4>1. BlockOf(Table', <<r, p>>) = Table'[r][k]
        BY DEF BlockOf
      <4> HIDE DEF k
      <4>2. k \in DOMAIN block_table'[r] /\ block_table'[r][k] = block_table[r][k]
        BY <1>10, <3>1, <3>6
      <4>3. Table'[r][k] = block_table'[r][k] - 1
        BY <3>1, <4>2 DEF Table
      <4> QED BY <3>6, <4>1, <4>2, <4>3
    <3>8. Caches' = Caches
      BY <1>2 DEF Caches, GroupSize
    <3>9. \A kv \in KV : TokenAddress(<<r, p>>, l, kv)' = TokenAddress(<<r, p>>, l, kv)
      BY <3>7, <3>8, Zenon DEF TokenAddress
    <3> QED BY <1>2, <3>4, <3>5, <3>9
  <2> QED BY <1>1, <2>1, KvStays
<1>13. WeightsInPlace' /\ LentCellsHoldKv' /\ DOMAIN mem' = Addresses
  BY <1>1, <1>2 DEF WeightsInPlace, LentCellsHoldKv
<1> QED BY <1>6, <1>11, <1>12, <1>13, Zenon DEF MemoryInv

(* Prompts: whoever arrived before the last of them has arrived. *)
LEMMA PrefillKeepsMemory ==
  ASSUME MemoryInv, GroupsInv', StartPrefill
  PROVE  MemoryInv'
<1> DEFINE arrived == {r \in Requests : seq_len[r] > 0}
<1>1. PICK last \in Requests \ arrived :
        \E prompt \in [(1 .. last) \ arrived -> PromptLens] :
          /\ seq_len' = [r \in Requests |-> IF r \in DOMAIN prompt THEN prompt[r] ELSE seq_len[r]]
          /\ StartPass("prefill", InOrder(DOMAIN prompt))
  BY Zenon DEF StartPrefill
<1> DEFINE S == (1 .. last) \ arrived
<1>2. PICK prompt \in [S -> PromptLens] :
          /\ seq_len' = [r \in Requests |-> IF r \in DOMAIN prompt THEN prompt[r] ELSE seq_len[r]]
          /\ StartPass("prefill", InOrder(DOMAIN prompt))
  BY <1>1, Zenon
<1> DEFINE batch == InOrder(S)
<1>3. /\ DOMAIN prompt = S /\ StartPass("prefill", batch)
      /\ seq_len' = [r \in Requests |-> IF r \in S THEN prompt[r] ELSE seq_len[r]]
  BY <1>2
<1>4. /\ S \in SUBSET Requests /\ seq_len \in [Requests -> 0 .. MaxLen] /\ PassesInv
      /\ \A r \in S : ~(seq_len[r] > 0)
  BY LentAssumption DEF MemoryInv, RowsInv, Requests
<1> HIDE DEF S
<1>5. batch \in Seq(Requests) /\ IsInjective(batch) /\ Elements(batch) = S
  BY <1>4, OrderOfRequests
<1> HIDE DEF batch
<1>6. \A r \in S : prompt[r] \in 1 .. MaxLen /\ seq_len[r] = 0 /\ seq_len'[r] = prompt[r]
  <2> SUFFICES ASSUME NEW r \in S PROVE prompt[r] \in 1 .. MaxLen /\ seq_len[r] = 0 /\ seq_len'[r] = prompt[r]
    OBVIOUS
  <2>1. prompt[r] \in PromptLens /\ r \in Requests /\ ~(seq_len[r] > 0)
    BY <1>2, <1>4
  <2>2. MaxLen \in Nat /\ PromptLens \subseteq 1 .. MaxLen
    BY LentAssumption
  <2>3. seq_len[r] \in 0 .. MaxLen
    BY <1>4, <2>1
  <2>4. seq_len'[r] = prompt[r]
    BY <1>3, <2>1
  <2>5. prompt[r] \in 1 .. MaxLen
    BY <2>1, <2>2
  <2>6. seq_len[r] = 0
    BY <2>1, <2>2, <2>3
  <2> QED BY <2>4, <2>5, <2>6
<1>7. /\ seq_len' \in [Requests -> 0 .. MaxLen]
      /\ \A r \in Requests : seq_len[r] <= seq_len'[r] /\ (r \notin Elements(batch) => seq_len'[r] = seq_len[r])
      /\ \A r \in Elements(batch) : seq_len'[r] > 0
  <2>1. MaxLen \in Nat
    BY LentAssumption
  <2>2. ASSUME NEW r \in Requests
        PROVE  /\ seq_len'[r] \in 0 .. MaxLen /\ seq_len[r] <= seq_len'[r]
               /\ r \notin Elements(batch) => seq_len'[r] = seq_len[r]
    <3>1. seq_len[r] \in 0 .. MaxLen
      BY <1>4
    <3>2. CASE r \in S
      BY <1>5, <1>6, <2>1, <3>1, <3>2
    <3>3. CASE r \notin S
      BY <1>3, <2>1, <3>1, <3>3
    <3> QED BY <3>2, <3>3
  <2>3. \A r \in Elements(batch) : seq_len'[r] > 0
    BY <1>5, <1>6, <2>1
  <2> QED BY <1>3, <2>2, <2>3
<1>8. \A r \in Elements(batch) : r \notin finished
  BY <1>4, <1>5 DEF PassesInv
<1>9. ASSUME NEW r \in Elements(batch), NEW p \in seq_len[r] .. seq_len'[r] - 1
      PROVE  <<r, p>> \in PassTokens'
  <2>1. r \in ToSet(pass'.batch) /\ pass'.kind = "prefill"
    BY <1>3, <1>9 DEF StartPass, NoPass, ToSet, Elements
  <2>2. seq_len'[r] \in Nat /\ p \in 0 .. seq_len'[r] - 1
    BY <1>5, <1>6
  <2>3. <<r, p>> \in PrefillTokens(r, seq_len'[r])
    BY <2>2, PrefillCovers
  <2>4. Tokens(r)' = PrefillTokens(r, seq_len'[r])
    BY <2>1 DEF Tokens
  <2> QED BY <2>1, <2>3, <2>4 DEF PassTokens
<1> QED BY <1>3, <1>5, <1>7, <1>8, <1>9, PassStarts

(* Decoding: every live request gets a token more. *)
LEMMA DecodingKeepsMemory ==
  ASSUME MemoryInv, GroupsInv', StartDecoding
  PROVE  MemoryInv'
<1> DEFINE batch == InOrder(Live)
<1>1. /\ \A r \in Live : seq_len[r] < MaxLen
      /\ seq_len' = [r \in Requests |-> IF r \in Live THEN seq_len[r] + 1 ELSE seq_len[r]]
      /\ StartPass("decode", batch)
  BY Zenon DEF StartDecoding
<1>2. /\ Live \in SUBSET Requests /\ seq_len \in [Requests -> 0 .. MaxLen] /\ MaxLen \in Nat
      /\ \A r \in Live : r \notin finished
  BY LentAssumption DEF MemoryInv, RowsInv, Live
<1>3. batch \in Seq(Requests) /\ IsInjective(batch) /\ Elements(batch) = Live
  BY <1>2, OrderOfRequests
<1> HIDE DEF batch
<1>4. /\ seq_len' \in [Requests -> 0 .. MaxLen]
      /\ \A r \in Requests : seq_len[r] <= seq_len'[r] /\ (r \notin Elements(batch) => seq_len'[r] = seq_len[r])
      /\ \A r \in Elements(batch) : seq_len'[r] > 0 /\ r \notin finished /\ seq_len'[r] = seq_len[r] + 1
                                    /\ seq_len[r] \in Nat
  BY <1>1, <1>2, <1>3
<1>5. ASSUME NEW r \in Elements(batch), NEW p \in seq_len[r] .. seq_len'[r] - 1
      PROVE  <<r, p>> \in PassTokens'
  <2>1. r \in ToSet(pass'.batch) /\ pass'.kind = "decode"
    BY <1>1, <1>5 DEF StartPass, NoPass, ToSet, Elements
  <2>2. p = seq_len'[r] - 1
    BY <1>4
  <2>3. Tokens(r)' = {<<r, seq_len'[r] - 1>>}
    BY <2>1 DEF Tokens, DecodingTokens
  <2> QED BY <2>1, <2>2, <2>3 DEF PassTokens
<1> QED BY <1>1, <1>3, <1>4, <1>5, PassStarts

-----------------------------------------------------------------------------
(* A store                                                                 *)

(* Of the explicit launches the one for its tensor finds a block, and no other. *)
LEMMA LaunchOfBlock ==
  ASSUME GroupsInv, NEW i \in 0 .. PoolSize - 1
  PROVE  /\ TensorOfIndex(i) \in ExplicitLaunches(Caches)
         /\ LaunchTable(Caches, TensorOfIndex(i), i) = LocalIndex(i) /\ LocalIndex(i) >= 0
         /\ \A launch \in ExplicitLaunches(Caches) :
              LaunchTable(Caches, launch, i) >= 0 => launch = TensorOfIndex(i)
<1> DEFINE n == Len(kv_groups)
<1>1. /\ Caches.num_blocks_org = NumBlocksOrg /\ Caches.groups = kv_groups
      /\ Caches.kv_cache_new_block_size = GroupSize
      /\ NumBlocksOrg \in Nat /\ n \in Nat /\ GroupSize \in Nat
      /\ ExplicitLaunches(Caches) = 0 .. n
  BY PoolSizeIsNat DEF Caches, ExplicitLaunches
<1>2. i \in 0 .. NumBlocksOrg + n * GroupSize - 1 /\ i \in Nat
  BY PoolRange, PoolSizeIsNat
<1>3. CASE i < NumBlocksOrg
  <2>1. TensorOfIndex(i) = 0 /\ LocalIndex(i) = i
    BY <1>3 DEF TensorOfIndex, LocalIndex
  <2>2. LaunchTable(Caches, 0, i) = i
    BY <1>1, <1>2, <1>3 DEF LaunchTable, OriginalTable
  <2>3. ASSUME NEW g \in 0 .. n, g # 0
        PROVE  ~(LaunchTable(Caches, g, i) >= 0)
    <3> DEFINE before == (g - 1) * GroupSize
    <3>1. before \in Nat
      BY <1>1, <2>3
    <3>2. LaunchTable(Caches, g, i) = LocalTable(Caches, g, i)
      BY <2>3 DEF LaunchTable
    <3>3. LocalTable(Caches, g, i) = IF i < NumBlocksOrg + before \/ i >= NumBlocksOrg + before + GroupSize
                                       THEN -1 ELSE i - (NumBlocksOrg + before)
      BY <1>1 DEF LocalTable
    <3> HIDE DEF before
    <3>4. i < NumBlocksOrg + before
      BY <1>1, <1>2, <1>3, <3>1
    <3> QED BY <3>2, <3>3, <3>4
  <2> QED BY <1>1, <1>2, <2>1, <2>2, <2>3
<1>4. CASE ~(i < NumBlocksOrg)
  <2> DEFINE skip == (i - NumBlocksOrg) \div GroupSize
             local == i - NumBlocksOrg - skip * GroupSize
  <2>1. i \in NumBlocksOrg .. NumBlocksOrg + n * GroupSize - 1
    BY <1>1, <1>2, <1>4
  <2>2. GroupSize \in Nat \ {0} /\ skip \in 0 .. n - 1 /\ local \in 0 .. GroupSize - 1
    BY <2>1, LentIndex
  <2>3. TensorOfIndex(i) = skip + 1
    BY <1>4 DEF TensorOfIndex
  <2>4. LocalIndex(i) = local
    <3>1. TensorOfIndex(i) - 1 = skip
      <4> HIDE DEF skip
      <4> QED BY <2>2, <2>3
    <3>2. LocalIndex(i) = i - NumBlocksOrg - (TensorOfIndex(i) - 1) * GroupSize
      BY <1>4 DEF LocalIndex
    <3> QED BY <3>1, <3>2, Zenon
  <2> HIDE DEF skip
  <2>5. skip * GroupSize \in Nat
    BY <2>2
  <2>6. LaunchTable(Caches, skip + 1, i) = local
    <3>1. skip + 1 # 0 /\ skip + 1 - 1 = skip
      BY <2>2
    <3>2. LaunchTable(Caches, skip + 1, i) = LocalTable(Caches, skip + 1, i)
      BY <3>1 DEF LaunchTable
    <3>3. LocalTable(Caches, skip + 1, i) = local
      BY <1>1, <2>1, <2>2, <2>5, <3>1 DEF LocalTable
    <3> QED BY <3>2, <3>3
  <2>7. ASSUME NEW g \in 0 .. n, LaunchTable(Caches, g, i) >= 0
        PROVE  g = skip + 1
    <3>1. CASE g = 0
      BY <1>1, <1>2, <1>4, <2>7, <3>1 DEF LaunchTable, OriginalTable
    <3>2. CASE g # 0
      <4> DEFINE c == g - 1
                 before == c * GroupSize
                 y == i - NumBlocksOrg - before
      <4>1. c \in Nat /\ g = c + 1 /\ before \in Nat
        BY <1>1, <3>2
      <4>2. LaunchTable(Caches, g, i) = LocalTable(Caches, g, i)
        BY <3>2 DEF LaunchTable
      <4>3. LocalTable(Caches, g, i) =
              IF i < NumBlocksOrg + before \/ i >= NumBlocksOrg + before + GroupSize
                THEN -1 ELSE i - (NumBlocksOrg + before)
        BY <1>1 DEF LocalTable
      <4>4. y \in 0 .. GroupSize - 1
        <5> HIDE DEF before
        <5> QED BY <1>1, <1>2, <2>7, <4>1, <4>2, <4>3
      <4>5. local \in 0 .. GroupSize - 1
        BY <2>2
      <4>6. skip * GroupSize + local = c * GroupSize + y
        <5> DEFINE u == skip * GroupSize
                   v == c * GroupSize
        <5>1. u \in Nat /\ v \in Nat
          BY <2>5, <4>1
        <5> HIDE DEF u, v
        <5>2. u + (i - NumBlocksOrg - u) = v + (i - NumBlocksOrg - v)
          BY <1>1, <1>2, <5>1
        <5> QED BY <5>2 DEF u, v
      <4>7. skip \in Nat
        BY <2>2
      <4> HIDE DEF c, y, local
      <4>8. skip = c
        BY <2>2, <4>1, <4>4, <4>5, <4>6, <4>7, Digits
      <4> QED BY <4>1, <4>8
    <3> QED BY <3>1, <3>2
  <2> HIDE DEF local
  <2> QED BY <1>1, <2>2, <2>3, <2>4, <2>6, <2>7
<1> QED BY <1>3, <1>4

(* In either mode of the kernels a store writes the slots of its tokens. *)
LEMMA WritesAreSlots ==
  ASSUME GroupsInv, RowsInv, PassesInv
  PROVE  Writes = {<<TokenAddress(t, pass.layer, kv), <<kv, t, pass.layer>>>> : kv \in KV, t \in PassTokens}
<1> DEFINE layer == pass.layer
<1>1. layer \in Layers
  BY DEF PassesInv
<1>2. ASSUME NEW t \in PassTokens
      PROVE  BlockOf(Table, t) \in 0 .. PoolSize - 1 /\ OffsetOf(t) \in 0 .. BlockSize - 1
  BY PassTokensLive, TokenSlot
<1> HIDE DEF layer
<1>3. CASE ~explicit_kv_regions
  <2>1. \A kv \in KV : \A t \in PassTokens :
          CombinedAddress(Caches, kv, BlockOf(Table, t), layer, OffsetOf(t)) = TokenAddress(t, layer, kv)
    <3>1. CombinedReaches
      BY GroupsInvReaches
    <3>2. \A t \in PassTokens : BlockOf(Table, t) \in 0 .. NumBlocksOrg + Len(kv_groups) * GroupSize - 1
      BY <1>2, PoolRange
    <3> QED BY <1>1, <1>2, <1>3, <3>1, <3>2 DEF CombinedReaches, TokenAddress
  <2>2. Writes = {<<CombinedAddress(Caches, kv, BlockOf(Table, t), layer, OffsetOf(t)), <<kv, t, layer>>>> :
                    kv \in KV, t \in PassTokens}
    BY <1>3 DEF Writes, StoresCombined, PassTokens, layer
  <2> QED BY <2>1, <2>2 DEF layer
<1>4. CASE explicit_kv_regions
  <2> DEFINE written(launch) == LaunchWrites(Caches, launch, Table, layer, PassTokens)
             W == {<<TokenAddress(t, layer, kv), <<kv, t, layer>>>> : kv \in KV, t \in PassTokens}
  <2>1. Writes = UNION {written(launch) : launch \in ExplicitLaunches(Caches)}
    BY <1>4 DEF Writes, StoresExplicitly, PassTokens, layer
  <2>2. ASSUME NEW t \in PassTokens, NEW kv \in KV
        PROVE  LET tensor == TensorOfIndex(BlockOf(Table, t)) IN
               /\ tensor \in ExplicitLaunches(Caches)
               /\ LaunchTable(Caches, tensor, BlockOf(Table, t)) >= 0
               /\ \A launch \in ExplicitLaunches(Caches) :
                    LaunchTable(Caches, launch, BlockOf(Table, t)) >= 0 => launch = tensor
               /\ LaunchBase(Caches, kv, tensor)
                    + SlotOf(LaunchTable(Caches, tensor, BlockOf(Table, t)), layer, OffsetOf(t))
                  = TokenAddress(t, layer, kv)
    <3> DEFINE i == BlockOf(Table, t)
               tensor == TensorOfIndex(i)
    <3>1. i \in 0 .. PoolSize - 1 /\ OffsetOf(t) \in 0 .. BlockSize - 1
      BY <1>2
    <3>2. i \in 0 .. NumBlocksOrg + Len(kv_groups) * GroupSize - 1
      BY <3>1, PoolRange
    <3> HIDE DEF i
    <3>3. /\ tensor \in ExplicitLaunches(Caches)
          /\ LaunchTable(Caches, tensor, i) = LocalIndex(i) /\ LocalIndex(i) >= 0
          /\ \A launch \in ExplicitLaunches(Caches) : LaunchTable(Caches, launch, i) >= 0 => launch = tensor
      BY <3>1, LaunchOfBlock
    <3>4. OwnAddress(Caches, kv, i, layer, OffsetOf(t)) = Base(kv, tensor) + SlotOf(LocalIndex(i), layer, OffsetOf(t))
      BY <1>1, <3>1, <3>2, SlotPlace
    <3>5. TokenAddress(t, layer, kv) = OwnAddress(Caches, kv, i, layer, OffsetOf(t))
      BY DEF TokenAddress, i
    <3> HIDE DEF tensor
    <3>6. LaunchBase(Caches, kv, tensor) + SlotOf(LaunchTable(Caches, tensor, i), layer, OffsetOf(t))
            = TokenAddress(t, layer, kv)
      BY <3>3, <3>4, <3>5, Zenon DEF Base
    <3>7. LaunchTable(Caches, tensor, i) >= 0
      BY <3>3
    <3> QED BY <3>3, <3>6, <3>7, Zenon DEF tensor, i
  <2>3. ASSUME NEW launch \in ExplicitLaunches(Caches)
        PROVE  written(launch) =
                 {<<LaunchBase(Caches, kv, launch)
                      + SlotOf(LaunchTable(Caches, launch, BlockOf(Table, t)), layer, OffsetOf(t)),
                    <<kv, t, layer>>>> :
                  kv \in KV, t \in {u \in PassTokens : LaunchTable(Caches, launch, BlockOf(Table, u)) >= 0}}
    BY DEF LaunchWrites
  <2> HIDE DEF written
  <2>4. ASSUME NEW w \in Writes
        PROVE  w \in W
    <3>1. PICK launch \in ExplicitLaunches(Caches) : w \in written(launch)
      BY <2>1
    <3>2. PICK kv \in KV, t \in {u \in PassTokens : LaunchTable(Caches, launch, BlockOf(Table, u)) >= 0} :
            w = <<LaunchBase(Caches, kv, launch)
                    + SlotOf(LaunchTable(Caches, launch, BlockOf(Table, t)), layer, OffsetOf(t)),
                  <<kv, t, layer>>>>
      BY <2>3, <3>1
    <3>3. t \in PassTokens /\ launch = TensorOfIndex(BlockOf(Table, t))
      BY <2>2, <3>2
    <3>4. w = <<TokenAddress(t, layer, kv), <<kv, t, layer>>>>
      BY <2>2, <3>2, <3>3
    <3> QED BY <3>3, <3>4
  <2>5. ASSUME NEW w \in W
        PROVE  w \in Writes
    <3>1. PICK kv \in KV, t \in PassTokens : w = <<TokenAddress(t, layer, kv), <<kv, t, layer>>>>
      OBVIOUS
    <3> DEFINE launch == TensorOfIndex(BlockOf(Table, t))
    <3>2. /\ launch \in ExplicitLaunches(Caches)
          /\ LaunchTable(Caches, launch, BlockOf(Table, t)) >= 0
          /\ LaunchBase(Caches, kv, launch)
               + SlotOf(LaunchTable(Caches, launch, BlockOf(Table, t)), layer, OffsetOf(t))
             = TokenAddress(t, layer, kv)
      BY <2>2
    <3> HIDE DEF launch
    <3>3. t \in {u \in PassTokens : LaunchTable(Caches, launch, BlockOf(Table, u)) >= 0}
      BY <3>2
    <3>4. w = <<LaunchBase(Caches, kv, launch)
                  + SlotOf(LaunchTable(Caches, launch, BlockOf(Table, t)), layer, OffsetOf(t)),
                <<kv, t, layer>>>>
      BY <3>1, <3>2
    <3>5. w \in written(launch)
      BY <2>3, <3>2, <3>3, <3>4
    <3> QED BY <2>1, <3>2, <3>5
  <2> HIDE DEF W
  <2>6. Writes = W
    BY <2>4, <2>5
  <2> QED BY <2>6 DEF W, layer
<1> QED BY <1>3, <1>4

(* A store writes what it should where it should, and nothing else. *)
LEMMA StoreWrites ==
  ASSUME MemoryInv, StoreKv
  PROVE  /\ DOMAIN mem' = Addresses
         /\ \A t \in PassTokens : \A kv \in KV :
              mem'[TokenAddress(t, pass.layer, kv)] = <<kv, t, pass.layer>>
         /\ \A a \in Addresses :
              \/ mem'[a] = mem[a]
              \/ \E t \in PassTokens : \E kv \in KV :
                   a = TokenAddress(t, pass.layer, kv) /\ mem'[a] = <<kv, t, pass.layer>>
<1> DEFINE layer == pass.layer
           W == Writes
           addr(t, kv) == TokenAddress(t, layer, kv)
<1>1. GroupsInv /\ RowsInv /\ PassesInv /\ DOMAIN mem = Addresses
  BY DEF MemoryInv
<1>2. W = {<<addr(t, kv), <<kv, t, layer>>>> : kv \in KV, t \in PassTokens}
  BY <1>1, WritesAreSlots
<1>3. /\ DOMAIN mem' = Addresses
      /\ \A a \in Addresses : mem'[a] = IF \E w \in W : w[1] = a
                                          THEN (CHOOSE w \in W : w[1] = a)[2] ELSE mem[a]
  BY <1>1, Zenon DEF StoreKv, Stored
<1>4. layer \in Layers
  BY <1>1 DEF PassesInv
<1>5. ASSUME NEW t \in PassTokens, NEW kv \in KV, NEW u \in PassTokens, NEW kw \in KV,
             addr(t, kv) = addr(u, kw)
      PROVE  t = u /\ kv = kw
  <2>1. PICK r, p : t = <<r, p>> /\ LiveToken(r, p)
    BY <1>1, PassTokensLive
  <2>2. PICK s, q : u = <<s, q>> /\ LiveToken(s, q)
    BY <1>1, PassTokensLive
  <2>3. /\ BlockOf(Table, t) \in 0 .. PoolSize - 1 /\ OffsetOf(t) \in 0 .. BlockSize - 1
        /\ BlockOf(Table, u) \in 0 .. PoolSize - 1 /\ OffsetOf(u) \in 0 .. BlockSize - 1
    BY <1>1, <2>1, <2>2, TokenSlot
  <2>4. OwnAddress(Caches, kv, BlockOf(Table, t), layer, OffsetOf(t))
          = OwnAddress(Caches, kw, BlockOf(Table, u), layer, OffsetOf(u))
    BY <1>5 DEF TokenAddress
  <2>5. 0 .. PoolSize - 1 = 0 .. NumBlocksOrg + Len(kv_groups) * GroupSize - 1
    BY <1>1, PoolRange
  <2>6. kv = kw /\ BlockOf(Table, t) = BlockOf(Table, u) /\ OffsetOf(t) = OffsetOf(u)
    <3> DEFINE i == BlockOf(Table, t)
               j == BlockOf(Table, u)
               x == OffsetOf(t)
               y == OffsetOf(u)
               area == 0 .. NumBlocksOrg + Len(kv_groups) * GroupSize - 1
    <3>1. i \in area /\ j \in area /\ x \in 0 .. BlockSize - 1 /\ y \in 0 .. BlockSize - 1
      BY <2>3, <2>5
    <3>2. OwnAddress(Caches, kv, i, layer, x) = OwnAddress(Caches, kw, j, layer, y)
      BY <2>4
    <3> HIDE DEF i, j, x, y, layer
    <3>3. kv = kw /\ i = j /\ x = y
      BY <1>1, <1>4, <3>1, <3>2, TwoSlots
    <3> QED BY <3>3 DEF i, j, x, y
  <2>7. r = s /\ p = q
    BY <1>1, <2>1, <2>2, <2>6, TokensApart
  <2> QED BY <2>1, <2>2, <2>6, <2>7
<1> HIDE DEF layer, W, addr
<1>6. ASSUME NEW a \in Addresses, \E w \in W : w[1] = a
      PROVE  \E t \in PassTokens : \E kv \in KV : a = addr(t, kv) /\ mem'[a] = <<kv, t, layer>>
  <2> DEFINE w == CHOOSE x \in W : x[1] = a
  <2>1. w \in W /\ w[1] = a
    BY <1>6, Zenon
  <2>2. mem'[a] = w[2]
    BY <1>3, <1>6, Zenon
  <2> HIDE DEF w
  <2>3. PICK kv \in KV, t \in PassTokens : w = <<addr(t, kv), <<kv, t, layer>>>>
    BY <1>2, <2>1
  <2>4. w[1] = addr(t, kv) /\ w[2] = <<kv, t, layer>>
    BY <2>3
  <2> QED BY <2>1, <2>2, <2>4
<1>7. ASSUME NEW t \in PassTokens, NEW kv \in KV
      PROVE  addr(t, kv) \in Addresses /\ mem'[addr(t, kv)] = <<kv, t, layer>>
  <2>1. addr(t, kv) \in Addresses
    BY <1>1, <1>4, PassTokensLive, TokenCell DEF addr
  <2>2. \E w \in W : w[1] = addr(t, kv)
    <3>1. <<addr(t, kv), <<kv, t, layer>>>> \in W
      BY <1>2
    <3> QED BY <3>1
  <2>3. PICK u \in PassTokens, kw \in KV : addr(t, kv) = addr(u, kw) /\ mem'[addr(t, kv)] = <<kw, u, layer>>
    BY <1>6, <2>1, <2>2
  <2>4. t = u /\ kv = kw
    BY <1>5, <2>3
  <2> QED BY <2>1, <2>3, <2>4
<1>8. \A a \in Addresses : ~(\E w \in W : w[1] = a) => mem'[a] = mem[a]
  BY <1>3
<1> QED BY <1>3, <1>6, <1>7, <1>8 DEF addr, layer

(* Storing the tokens of a pass in one layer. *)
LEMMA StoreKeepsMemory ==
  ASSUME MemoryInv, StoreKv
  PROVE  MemoryInv'
<1> DEFINE layer == pass.layer
<1>1. /\ DOMAIN mem = Addresses /\ GroupsInv /\ RowsInv /\ PassesInv
      /\ WeightsInPlace /\ KvInPlace /\ LentCellsHoldKv
  BY Zenon DEF MemoryInv
<1>2. /\ ~pass.stored /\ pass.kind # "none" /\ pass' = [pass EXCEPT !.stored = TRUE]
      /\ UNCHANGED <<precision, kv_groups, explicit_kv_regions,
                     is_block_free, num_free_blocks, block_table, seq_len, finished>>
  BY DEF StoreKv, layerVars, poolVars, requestVars
<1>3. /\ DOMAIN mem' = Addresses
      /\ \A t \in PassTokens : \A kv \in KV : mem'[TokenAddress(t, layer, kv)] = <<kv, t, layer>>
      /\ \A a \in Addresses :
           \/ mem'[a] = mem[a]
           \/ \E t \in PassTokens : \E kv \in KV :
                a = TokenAddress(t, layer, kv) /\ mem'[a] = <<kv, t, layer>>
  BY StoreWrites
<1>4. layer \in Layers /\ pass'.batch = pass.batch /\ pass'.kind = pass.kind /\ pass'.layer = layer
      /\ pass' \in [kind : {"none", "prefill", "decode"}, batch : Seq(Requests),
                    layer : Layers, stored : BOOLEAN, attended : BOOLEAN]
  BY <1>1, <1>2 DEF PassesInv
<1>5. Live' = Live /\ Caches' = Caches /\ Table' = Table
  BY <1>2 DEF Live, Caches, GroupSize, Table
<1>6. PassesInv'
  BY <1>1, <1>2, <1>4, <1>5 DEF PassesInv
<1>7. RowsInv' /\ GroupsInv'
  BY <1>1, <1>2, <1>5 DEF RowsInv, PoolTells, PoolSize, GroupSize, GroupsInv
<1>8. PassTokens' = PassTokens
  BY <1>2, <1>4 DEF PassTokens, Tokens
<1> HIDE DEF layer
<1>9. KvInPlace'
  <2> SUFFICES ASSUME NEW r \in Live, NEW p \in 0 .. seq_len[r] - 1, NEW l \in Layers,
                      StoredBy(<<r, p>>, l)', NEW kv \in KV
               PROVE  mem'[TokenAddress(<<r, p>>, l, kv)] = <<kv, <<r, p>>, l>>
    <3> SUFFICES ASSUME NEW r \in Live', NEW p \in 0 .. seq_len'[r] - 1, NEW l \in Layers,
                        StoredBy(<<r, p>>, l)', NEW kv \in KV
                 PROVE  Holds(<<r, p>>, l, kv)'
      BY Zenon DEF KvInPlace
    <3>1. TokenAddress(<<r, p>>, l, kv)' = TokenAddress(<<r, p>>, l, kv)
      BY <1>5, Zenon DEF TokenAddress
    <3>2. r \in Live /\ p \in 0 .. seq_len[r] - 1
      BY <1>2, <1>5
    <3>3. mem'[TokenAddress(<<r, p>>, l, kv)] = <<kv, <<r, p>>, l>>
      BY <3>2
    <3> QED BY <3>1, <3>3, Zenon DEF Holds
  <2>1. LiveToken(r, p)
    BY DEF LiveToken
  <2>2. CASE <<r, p>> \in PassTokens /\ l = layer
    BY <1>3, <2>2
  <2>3. CASE ~(<<r, p>> \in PassTokens /\ l = layer)
    <3>1. StoredBy(<<r, p>>, l)
      BY <1>4, <1>8, <2>3 DEF StoredBy, layer
    <3>2. mem[TokenAddress(<<r, p>>, l, kv)] = <<kv, <<r, p>>, l>>
      BY <1>1, <3>1 DEF KvInPlace, Holds
    <3>3. TokenAddress(<<r, p>>, l, kv) \in Addresses
      BY <1>1, <2>1, TokenCell
    <3>4. ASSUME NEW t \in PassTokens, NEW kw \in KV,
                 TokenAddress(<<r, p>>, l, kv) = TokenAddress(t, layer, kw)
          PROVE  FALSE
      <4>1. PICK s, q : t = <<s, q>> /\ LiveToken(s, q)
        BY <1>1, PassTokensLive
      <4> DEFINE i == BlockOf(Table, <<r, p>>)
                 j == BlockOf(Table, <<s, q>>)
                 x == OffsetOf(<<r, p>>)
                 y == OffsetOf(<<s, q>>)
                 area == 0 .. NumBlocksOrg + Len(kv_groups) * GroupSize - 1
      <4>2. i \in area /\ j \in area /\ x \in 0 .. BlockSize - 1 /\ y \in 0 .. BlockSize - 1
        BY <1>1, <2>1, <4>1, TokenSlot, PoolRange
      <4>3. OwnAddress(Caches, kv, i, l, x) = OwnAddress(Caches, kw, j, layer, y)
        BY <3>4, <4>1, Zenon DEF TokenAddress
      <4>4. i = j /\ l = layer /\ x = y
        <5> HIDE DEF i, j, x, y
        <5> QED BY <1>1, <1>4, <4>2, <4>3, TwoSlots
      <4>5. r = s /\ p = q
        BY <1>1, <2>1, <4>1, <4>4, TokensApart
      <4> QED BY <2>3, <4>1, <4>4, <4>5
    <3> QED BY <1>3, <3>2, <3>3, <3>4
  <2> QED BY <2>2, <2>3
<1>10. \A a \in Addresses : mem'[a] = mem[a] \/ mem'[a][1] \in KV
  BY <1>3
<1>11. LentCellsHoldKv'
  <2> SUFFICES ASSUME NEW i \in DOMAIN kv_groups, NEW a \in CellsOf(kv_groups[i])
               PROVE  mem'[a] = Zero \/ mem'[a][1] \in KV
    BY <1>2 DEF LentCellsHoldKv
  <2>1. a \in Addresses
    BY <1>1, CellsInRegion
  <2> QED BY <1>1, <1>10, <2>1 DEF LentCellsHoldKv
<1>12. WeightsInPlace'
  <2> SUFFICES ASSUME NEW m \in Layers PROVE InPlace(m)'
    BY DEF WeightsInPlace, InPlace, ImageOf, SizeOf
  <2>1. InPlace(m)
    BY <1>1, InPlaceEach
  <2>2. SizeOf(precision[m]) \in Nat /\ SizeOf(precision[m]) <= LayerSize /\ RegionOf(m) \in Nat
    BY <1>1, Sizes, OriginalArea DEF SizeOf
  <2>3. ASSUME NEW j \in 1 .. SizeOf(precision[m])
        PROVE  mem'[RegionOf(m) + j - 1] = mem[RegionOf(m) + j - 1]
    <3> DEFINE a == RegionOf(m) + j - 1
    <3>1. /\ a \in Int /\ a - RegionOf(m) \in 0 .. SizeOf(precision[m]) - 1
          /\ a - RegionOf(m) \in 0 .. LayerSize - 1
      BY <2>2, Sizes
    <3> HIDE DEF a
    <3>2. a \in Addresses
      BY <3>1, RegionCells
    <3>3. ASSUME NEW t \in PassTokens, NEW kv \in KV, a = TokenAddress(t, layer, kv)
          PROVE  FALSE
      <4>1. PICK r, p : t = <<r, p>> /\ LiveToken(r, p)
        BY <1>1, PassTokensLive
      <4>2. a >= OriginalK \/ \E g \in DOMAIN kv_groups : a \in CellsOf(kv_groups[g])
        BY <1>1, <1>4, <3>3, <4>1, TokenCell
      <4>3. /\ a - RegionOf(m) \notin 0 .. PackedLayerSize - 1
            /\ m \notin Grouped => a - RegionOf(m) \notin 0 .. LayerSize - 1
        BY <1>1, <3>1, <4>2, SlotsOutside
      <4>4. precision[m] = "fp16" => m \notin Grouped
        BY <1>1 DEF GroupsInv, Grouped
      <4> QED BY <1>1, <3>1, <4>3, <4>4 DEF SizeOf
    <3> QED BY <1>3, <3>2, <3>3 DEF a
  <2> QED BY <1>2, <2>1, <2>3 DEF InPlace
<1> QED BY <1>3, <1>6, <1>7, <1>9, <1>11, <1>12, Zenon DEF MemoryInv

-----------------------------------------------------------------------------
(* The other steps of a pass                                               *)

(* A step that leaves the memory, the layers, the pool and the requests alone. *)
LEMMA PassMovesOn ==
  ASSUME MemoryInv, UNCHANGED <<mem, layerVars, poolVars, requestVars>>, PassesInv',
         \A t \in Live \X Nat : \A l \in Layers : StoredBy(t, l)' => StoredBy(t, l)
  PROVE  MemoryInv'
<1>1. /\ DOMAIN mem = Addresses /\ GroupsInv /\ RowsInv /\ PassesInv
      /\ WeightsInPlace /\ KvInPlace /\ LentCellsHoldKv
  BY Zenon DEF MemoryInv
<1>2. UNCHANGED <<mem, precision, kv_groups, explicit_kv_regions,
                  is_block_free, num_free_blocks, block_table, seq_len, finished>>
  BY DEF layerVars, poolVars, requestVars
<1>3. Live' = Live /\ Caches' = Caches /\ Table' = Table
  BY <1>2 DEF Live, Caches, GroupSize, Table
<1>4. RowsInv' /\ GroupsInv'
  BY <1>1, <1>2, <1>3 DEF RowsInv, PoolTells, PoolSize, GroupSize, GroupsInv
<1>5. KvInPlace'
  <2>1. ASSUME NEW r \in Live', NEW p \in 0 .. seq_len'[r] - 1, NEW l \in Layers, StoredBy(<<r, p>>, l)'
        PROVE  /\ LiveToken(r, p) /\ StoredBy(<<r, p>>, l)
               /\ \A kv \in KV : /\ TokenAddress(<<r, p>>, l, kv)' = TokenAddress(<<r, p>>, l, kv)
                                 /\ mem'[TokenAddress(<<r, p>>, l, kv)] = mem[TokenAddress(<<r, p>>, l, kv)]
    <3>1. LiveToken(r, p) /\ <<r, p>> \in Live \X Nat
      BY <1>2, <1>3 DEF LiveToken
    <3>2. \A kv \in KV : TokenAddress(<<r, p>>, l, kv)' = TokenAddress(<<r, p>>, l, kv)
      BY <1>3, Zenon DEF TokenAddress
    <3>3. StoredBy(<<r, p>>, l)
      BY <2>1, <3>1
    <3> QED BY <1>2, <3>1, <3>2, <3>3
  <2> QED BY <1>1, <2>1, KvStays
<1>6. WeightsInPlace' /\ LentCellsHoldKv' /\ DOMAIN mem' = Addresses
  BY <1>1, <1>2 DEF WeightsInPlace, LentCellsHoldKv
<1> QED BY <1>4, <1>5, <1>6, Zenon DEF MemoryInv

(* Attention only reads. *)
LEMMA AttendKeepsMemory ==
  ASSUME MemoryInv, Attend
  PROVE  MemoryInv'
<1>1. PassesInv /\ pass' = [pass EXCEPT !.attended = TRUE] /\ UNCHANGED requestVars
      /\ pass.kind = "decode"
  BY DEF MemoryInv, Attend
<1>2. /\ pass'.batch = pass.batch /\ pass'.kind = pass.kind /\ pass'.layer = pass.layer
      /\ pass'.stored = pass.stored
      /\ pass' \in [kind : {"none", "prefill", "decode"}, batch : Seq(Requests),
                    layer : Layers, stored : BOOLEAN, attended : BOOLEAN]
  BY <1>1 DEF PassesInv
<1>3. PassesInv'
  BY <1>1, <1>2 DEF PassesInv, requestVars, Live
<1>4. \A t \in Live \X Nat : \A l \in Layers : StoredBy(t, l)' => StoredBy(t, l)
  BY <1>1, <1>2 DEF StoredBy, PassTokens, Tokens, requestVars
<1> QED BY <1>3, <1>4, PassMovesOn DEF Attend

(* A layer is finished when its tokens are stored. *)
LEMMA FinishKeepsMemory ==
  ASSUME MemoryInv, FinishLayer
  PROVE  MemoryInv'
<1>1. PassesInv /\ pass.stored /\ UNCHANGED requestVars
  BY DEF MemoryInv, FinishLayer
<1>2. pass.layer \in Layers /\ Layers \subseteq Int /\ NumLayers \in Nat \ {0}
  BY <1>1, LayoutAssumption DEF PassesInv, Layers
<1>3. CASE pass.layer = NumLayers - 1
  <2>1. pass' = NoPass
    BY <1>3 DEF FinishLayer
  <2>2. PassesInv'
    <3>1. NoPass \in [kind : {"none", "prefill", "decode"}, batch : Seq(Requests),
                      layer : Layers, stored : BOOLEAN, attended : BOOLEAN]
      BY <1>2 DEF NoPass, Layers
    <3>2. ToSet(NoPass.batch) = {}
      BY DEF NoPass, ToSet
    <3> QED BY <1>1, <2>1, <3>1, <3>2 DEF PassesInv, requestVars
  <2>3. \A t : \A l \in Layers : StoredBy(t, l)
    BY <1>1, <1>2, <1>3 DEF StoredBy, Layers
  <2> QED BY <2>2, <2>3, PassMovesOn DEF FinishLayer
<1>4. CASE pass.layer # NumLayers - 1
  <2>1. pass' = [pass EXCEPT !.layer = pass.layer + 1, !.stored = FALSE, !.attended = FALSE]
    BY <1>4 DEF FinishLayer
  <2>2. pass.layer + 1 \in Layers
    BY <1>2, <1>4 DEF Layers
  <2>3. /\ pass'.batch = pass.batch /\ pass'.kind = pass.kind /\ pass'.layer = pass.layer + 1
        /\ pass'.stored = FALSE
        /\ pass' \in [kind : {"none", "prefill", "decode"}, batch : Seq(Requests),
                      layer : Layers, stored : BOOLEAN, attended : BOOLEAN]
    BY <1>1, <2>1, <2>2 DEF PassesInv
  <2>4. pass.kind # "none"
    BY <1>1 DEF PassesInv, NoPass
  <2>5. PassesInv'
    BY <1>1, <2>3, <2>4 DEF PassesInv, requestVars, Live
  <2>6. \A t \in Live \X Nat : \A l \in Layers : StoredBy(t, l)' => StoredBy(t, l)
    <3>1. PassTokens' = PassTokens
      BY <1>1, <2>3 DEF PassTokens, Tokens, requestVars
    <3> SUFFICES ASSUME NEW t, NEW l \in Layers, StoredBy(t, l)' PROVE StoredBy(t, l)
      OBVIOUS
    <3>2. t \notin PassTokens \/ l < pass.layer + 1
      BY <2>3, <3>1 DEF StoredBy
    <3>3. l < pass.layer + 1 => l < pass.layer \/ l = pass.layer
      <4>1. \A x, y \in Int : x < y + 1 => x < y \/ x = y
        OBVIOUS
      <4>2. l \in Int /\ pass.layer \in Int
        BY <1>2
      <4> QED BY <4>1, <4>2, Zenon
    <3> QED BY <1>1, <3>2, <3>3 DEF StoredBy
  <2> QED BY <2>5, <2>6, PassMovesOn DEF FinishLayer
<1> QED BY <1>3, <1>4

(* A request that is finished gives its blocks back; nobody else's slots move. *)
LEMMA FreeKeepsMemory ==
  ASSUME MemoryInv, GroupsInv', NEW r \in Requests, FreeSeq(r)
  PROVE  MemoryInv'
<1>1. /\ DOMAIN mem = Addresses /\ GroupsInv /\ RowsInv /\ PassesInv
      /\ WeightsInPlace /\ KvInPlace /\ LentCellsHoldKv
  BY Zenon DEF MemoryInv
<1>2. /\ pass = NoPass /\ r \in Live /\ Gpu!FreeForSeqs(<<r>>)
      /\ finished' = finished \cup {r}
      /\ UNCHANGED <<mem, precision, kv_groups, explicit_kv_regions, seq_len, pass>>
  BY DEF FreeSeq, layerVars
<1>3. Live' = Live \ {r} /\ Caches' = Caches /\ seq_len[r] > 0 /\ PoolSize' = PoolSize
  BY <1>2 DEF Live, Caches, PoolSize, GroupSize
<1>4. PassesInv'
  <2>1. ToSet(pass'.batch) = {}
    BY <1>2 DEF NoPass, ToSet
  <2> QED BY <1>1, <1>2, <1>3, <2>1 DEF PassesInv
<1>5. <<r>> \in Seq(Requests) /\ IsInjective(<<r>>) /\ Elements(<<r>>) = {r}
  BY DEF IsInjective, Elements
<1>6. PoolSize \in Nat /\ PoolTells(PoolSize)
  BY <1>1, PoolSizeIsNat DEF RowsInv
<1>7. /\ DeviceTells(Requests, PoolSize, 1 .. PoolSize, is_block_free', num_free_blocks', block_table')
      /\ \A s \in Requests : block_table'[s] = IF s \in Elements(<<r>>) THEN <<>> ELSE block_table[s]
  BY <1>2, <1>5, <1>6, PoolReleases
<1>8. \A s \in Requests : block_table'[s] = IF s = r THEN <<>> ELSE block_table[s]
  BY <1>5, <1>7
<1>9. RowsInv'
  <2>1. PoolTells(PoolSize)'
    BY <1>3, <1>7 DEF PoolTells
  <2>2. ASSUME NEW s \in Requests
        PROVE  Len(block_table'[s]) = IF s \in Live' THEN CeilDivide(seq_len'[s], BlockSize) ELSE 0
    <3>1. CASE s = r
      BY <1>3, <1>8, <3>1
    <3>2. CASE s # r
      BY <1>1, <1>2, <1>3, <1>8, <3>2 DEF RowsInv
    <3> QED BY <3>1, <3>2
  <2> QED BY <1>1, <1>2, <2>1, <2>2 DEF RowsInv
<1>10. KvInPlace'
  <2>1. ASSUME NEW s \in Live', NEW p \in 0 .. seq_len'[s] - 1, NEW l \in Layers, StoredBy(<<s, p>>, l)'
        PROVE  /\ LiveToken(s, p) /\ StoredBy(<<s, p>>, l)
               /\ \A kv \in KV : /\ TokenAddress(<<s, p>>, l, kv)' = TokenAddress(<<s, p>>, l, kv)
                                 /\ mem'[TokenAddress(<<s, p>>, l, kv)] = mem[TokenAddress(<<s, p>>, l, kv)]
    <3>1. LiveToken(s, p) /\ s \in Requests /\ s # r
      BY <1>2, <1>3 DEF LiveToken, Live
    <3>2. StoredBy(<<s, p>>, l)
      BY <1>2, NothingLeft
    <3>3. BlockOf(Table', <<s, p>>) = BlockOf(Table, <<s, p>>)
      <4>1. Table'[s] = Table[s]
        BY <1>8, <3>1 DEF Table
      <4> QED BY <4>1 DEF BlockOf
    <3>4. \A kv \in KV : TokenAddress(<<s, p>>, l, kv)' = TokenAddress(<<s, p>>, l, kv)
      BY <1>3, <3>3, Zenon DEF TokenAddress
    <3> QED BY <1>2, <3>1, <3>2, <3>4
  <2> QED BY <1>1, <2>1, KvStays
<1>11. WeightsInPlace' /\ LentCellsHoldKv' /\ DOMAIN mem' = Addresses
  BY <1>1, <1>2 DEF WeightsInPlace, LentCellsHoldKv
<1> QED BY <1>4, <1>9, <1>10, <1>11, Zenon DEF MemoryInv

-----------------------------------------------------------------------------
(* The start of everything                                                 *)

(* A cell of a region that is filled from an image. *)
LEMMA LoadedCell ==
  ASSUME Init, NEW l \in Layers, NEW j \in 1 .. LayerSize
  PROVE  mem[RegionOf(l) + j - 1] = Fp16Image(l)[j]
<1> DEFINE a == RegionOf(l) + j - 1
           x == j - 1
           y == a - TopLevelSize
<1>1. LayerSize \in Nat \ {0} /\ TopLevelSize \in Nat /\ RegionOf(l) \in Nat /\ l \in Nat
  BY Sizes, OriginalArea DEF Layers
<1>2. l * LayerSize \in Nat /\ RegionOf(l) = TopLevelSize + l * LayerSize
  BY <1>1 DEF RegionOf
<1>3. x \in 0 .. LayerSize - 1 /\ a \in Int /\ a - RegionOf(l) = x /\ x + 1 = j
  BY <1>1
<1>4. a \in Addresses /\ a < OriginalK /\ ~(a < TopLevelSize)
  <2>1. a \in Addresses /\ a < OriginalK
    BY <1>3, RegionCells
  <2>2. ~(a < TopLevelSize)
    BY <1>1, <1>2, <1>3
  <2> QED BY <2>1, <2>2
<1>5. OriginalK \in Nat
  BY <1>3, RegionCells
<1> HIDE DEF a
<1>6. mem[a] = Fp16Image(y \div LayerSize)[(y % LayerSize) + 1]
  BY <1>1, <1>3, <1>4, <1>5 DEF Init
<1>7. y = l * LayerSize + x /\ y \in Nat
  <2> DEFINE m == l * LayerSize
  <2> HIDE DEF m, x
  <2>1. m \in Nat /\ RegionOf(l) = TopLevelSize + m /\ a - RegionOf(l) = x /\ x \in Nat /\ a \in Int
    BY <1>2, <1>3 DEF m
  <2> QED BY <1>1, <2>1 DEF m
<1> HIDE DEF y, x
<1>8. y \div LayerSize = l /\ y % LayerSize = x
  <2>1. /\ y \div LayerSize \in Nat /\ y % LayerSize \in 0 .. LayerSize - 1
        /\ y = ((y \div LayerSize) * LayerSize) + (y % LayerSize)
    <3>1. ASSUME NEW u \in Nat, NEW d \in Nat \ {0}
          PROVE  u \div d \in Nat /\ u % d \in 0 .. d - 1 /\ u = ((u \div d) * d) + (u % d)
      BY <3>1
    <3> QED BY <1>1, <1>7, <3>1
  <2> QED BY <1>1, <1>3, <1>7, <2>1, Digits
<1> QED BY <1>3, <1>6, <1>8 DEF a

(* The memory after loading. *)
LEMMA MemoryInit ==
  ASSUME Init
  PROVE  MemoryInv
<1>1. /\ kv_groups = <<>> /\ precision = [l \in Layers |-> "fp16"]
      /\ is_block_free = 1 .. NumBlocksOrg /\ num_free_blocks = NumBlocksOrg
      /\ block_table = [r \in Requests |-> <<>>]
      /\ seq_len = [r \in Requests |-> 0] /\ finished = {} /\ pass = NoPass
      /\ DOMAIN mem = Addresses
  BY DEF Init
<1>2. GroupsInv
  BY GroupsInit
<1>3. NumBlocksOrg \in Nat /\ MaxLen \in Nat /\ PoolSize = NumBlocksOrg
  <2>1. Len(kv_groups) = 0 /\ GroupSize = 0
    BY <1>1 DEF GroupSize
  <2> QED BY <2>1, LentAssumption DEF PoolSize
<1>4. Live = {}
  BY <1>1 DEF Live
<1>5. RowsInv
  <2>1. IsFiniteSet(1 .. NumBlocksOrg) /\ Cardinality(1 .. NumBlocksOrg) = NumBlocksOrg
    BY <1>3, FS_Interval
  <2>2. OnePlaceEach(Requests, 1 .. NumBlocksOrg, is_block_free, num_free_blocks, block_table)
    <3>1. \A s \in Requests : DOMAIN block_table[s] = {}
      BY <1>1
    <3>2. (1 .. NumBlocksOrg) \ is_block_free = {}
      BY <1>1
    <3> QED BY <1>1, <2>1, <3>1, <3>2 DEF OnePlaceEach
  <2>3. block_table \in [Requests -> Seq(1 .. NumBlocksOrg)]
    BY <1>1
  <2>4. PoolTells(PoolSize)
    <3>1. is_block_free \in SUBSET (1 .. NumBlocksOrg) /\ 1 .. NumBlocksOrg \in SUBSET (1 .. NumBlocksOrg)
          /\ num_free_blocks \in 0 .. NumBlocksOrg
      BY <1>1, <1>3
    <3>2. DeviceTells(Requests, NumBlocksOrg, 1 .. NumBlocksOrg, is_block_free, num_free_blocks, block_table)
      BY <2>2, <2>3, <3>1, Zenon DEF DeviceTells
    <3> QED BY <1>3, <3>2 DEF PoolTells
  <2>5. \A r \in Requests : Len(block_table[r]) = 0 /\ r \notin Live
    BY <1>1, <1>4
  <2>6. seq_len \in [Requests -> 0 .. MaxLen]
    BY <1>1, <1>3
  <2> QED BY <2>4, <2>5, <2>6 DEF RowsInv
<1>6. PassesInv
  <2>1. 0 \in Layers
    BY LayoutAssumption DEF Layers
  <2>2. NoPass \in [kind : {"none", "prefill", "decode"}, batch : Seq(Requests),
                    layer : Layers, stored : BOOLEAN, attended : BOOLEAN]
    BY <2>1 DEF NoPass
  <2>3. ToSet(NoPass.batch) = {}
    BY DEF NoPass, ToSet
  <2> QED BY <1>1, <2>2, <2>3 DEF PassesInv
<1>7. WeightsInPlace
  <2> SUFFICES ASSUME NEW l \in Layers PROVE InPlace(l)
    BY InPlaceEach
  <2>1. precision[l] = "fp16"
    BY <1>1
  <2> QED BY <2>1, LoadedCell DEF InPlace, ImageOf, SizeOf
<1>8. KvInPlace /\ LentCellsHoldKv
  BY <1>1, <1>4 DEF KvInPlace, LentCellsHoldKv
<1> QED BY <1>1, <1>2, <1>5, <1>6, <1>7, <1>8, Zenon DEF MemoryInv

(* Every step keeps the memory as it should be. *)
LEMMA MemoryStep ==
  ASSUME MemoryInv, [Next]_vars
  PROVE  MemoryInv'
<1>1. GroupsInv'
  BY GroupsStep DEF MemoryInv
<1>2. CASE ChangeLayers
  BY <1>1, <1>2, ChangeKeepsMemory
<1>3. CASE StartPrefill
  BY <1>1, <1>3, PrefillKeepsMemory
<1>4. CASE StartDecoding
  BY <1>1, <1>4, DecodingKeepsMemory
<1>5. CASE StoreKv
  BY <1>5, StoreKeepsMemory
<1>6. CASE Attend
  BY <1>6, AttendKeepsMemory
<1>7. CASE FinishLayer
  BY <1>7, FinishKeepsMemory
<1>8. CASE \E r \in Requests : FreeSeq(r)
  BY <1>1, <1>8, FreeKeepsMemory
<1>9. CASE UNCHANGED vars
  <2>1. UNCHANGED <<mem, layerVars, poolVars, requestVars, pass>>
    BY <1>9 DEF vars, layerVars, poolVars, requestVars
  <2>2. PassesInv'
    BY <2>1 DEF MemoryInv, PassesInv, requestVars, Live
  <2>3. \A t \in Live \X Nat : \A l \in Layers : StoredBy(t, l)' => StoredBy(t, l)
    BY <2>1 DEF StoredBy, PassTokens, Tokens, requestVars
  <2> QED BY <2>1, <2>2, <2>3, PassMovesOn
<1> QED BY <1>2, <1>3, <1>4, <1>5, <1>6, <1>7, <1>8, <1>9 DEF Next

(* Groups, weights, keys and values are where they should be in every      *)
(* reachable state, also in the middle of a pass, for every layout.        *)
THEOREM SpecLentInv == Spec => []LentInv
<1>1. Init => MemoryInv
  BY MemoryInit
<1>2. MemoryInv /\ [Next]_vars => MemoryInv'
  BY MemoryStep
<1>3. MemoryInv => LentInv
  BY MemoryInvIsLentInv
<1> QED BY <1>1, <1>2, <1>3, PTL DEF Spec

(* The pool, the groups and the requests keep their types.                 *)
THEOREM SpecLentTypeOK == Spec => []TypeOK
<1>1. LentInv => TypeOK
  BY DEF LentInv
<1> QED BY <1>1, SpecLentInv, PTL

(* Between passes every key and value of a live request is in the slot its *)
(* block table gives it, whatever was lent, taken back, stored and freed.  *)
THEOREM SpecKvReadBack == Spec => []KvReadBack
<1>1. LentInv => KvReadBack
  <2> SUFFICES ASSUME LentInv, pass = NoPass, NEW r \in Live, NEW p \in 0 .. seq_len[r] - 1,
                      NEW l \in Layers, NEW kv \in KV
               PROVE  mem[OwnAddress(Caches, kv, BlockOf(Table, <<r, p>>), l, OffsetOf(<<r, p>>))]
                        = <<kv, <<r, p>>, l>>
    BY Zenon DEF KvReadBack
  <2>1. StoredBy(<<r, p>>, l)
    BY NothingLeft
  <2> QED BY <2>1, Zenon DEF LentInv, KvInPlace, Holds, TokenAddress
<1> QED BY <1>1, SpecLentInv, PTL

(* The cells of lent blocks are zeros or keys and values, never weights.   *)
THEOREM SpecLentCellsHoldKv == Spec => []LentCellsHoldKv
<1>1. LentInv => LentCellsHoldKv
  BY DEF LentInv
<1> QED BY <1>1, SpecLentInv, PTL

-----------------------------------------------------------------------------
(* What is packed can be read back *)

(* Where runs of given lengths start when each starts where the one before *)
(* it ends.                                                                *)
StartsOf(n, lens, start) ==
  /\ start \in [1 .. n + 1 -> Nat] /\ start[1] = 0
  /\ \A k \in 1 .. n : start[k + 1] = start[k] + lens[k]
  /\ \A k, m \in 1 .. n + 1 : k < m => start[k] + lens[k] <= start[m]

(* There are such starts: the sums of the lengths before.                  *)
LEMMA StartsExist ==
  ASSUME NEW n \in Nat, NEW lens \in [1 .. n -> Nat]
  PROVE  \E start : StartsOf(n, lens, start)
<1> DEFINE sum(m) == SumFunctionOnSet(lens, 1 .. m)
           start == [k \in 1 .. n + 1 |-> sum(k - 1)]
<1>1. ASSUME NEW m \in 0 .. n
      PROVE  /\ IsFiniteSet(1 .. m) /\ \A x \in 1 .. m : lens[x] \in Nat
             /\ sum(m) \in Nat
  <2>1. 1 \in Int /\ m \in Int /\ \A x \in 1 .. m : lens[x] \in Nat
    OBVIOUS
  <2>2. IsFiniteSet(1 .. m)
    BY <2>1, FS_Interval, Zenon
  <2> QED BY <2>1, <2>2, SumNat, Zenon
<1>2. ASSUME NEW i \in 1 .. n PROVE sum(i) = lens[i] + sum(i - 1)
  <2>1. i \in 0 .. n /\ i \in 1 .. i /\ (1 .. i) \ {i} = 1 .. i - 1
    OBVIOUS
  <2>2. SumFunctionOnSet(lens, 1 .. i) = lens[i] + SumFunctionOnSet(lens, (1 .. i) \ {i})
    BY <1>1, <2>1, SumStep, Zenon
  <2> QED BY <2>1, <2>2, Zenon
<1>3. ASSUME NEW a \in 0 .. n, NEW b \in 0 .. n, a <= b PROVE sum(a) <= sum(b)
  <2>1. 1 .. a \in SUBSET (1 .. b)
    BY <1>3
  <2> QED BY <1>1, <2>1, SumSubset, Zenon
<1>4. sum(0) = 0
  <2>1. 1 .. 0 = {}
    OBVIOUS
  <2> QED BY <2>1, SumEmpty, Zenon
<1> HIDE DEF sum
<1>5. start \in [1 .. n + 1 -> Nat] /\ start[1] = 0
  <2>1. \A k \in 1 .. n + 1 : k - 1 \in 0 .. n
    OBVIOUS
  <2>2. 1 \in 1 .. n + 1 /\ 1 - 1 = 0
    OBVIOUS
  <2> QED BY <1>1, <1>4, <2>1, <2>2
<1>6. ASSUME NEW k \in 1 .. n PROVE start[k + 1] = start[k] + lens[k]
  <2>1. k \in 1 .. n + 1 /\ k + 1 \in 1 .. n + 1 /\ (k + 1) - 1 = k /\ k - 1 \in 0 .. n
    OBVIOUS
  <2>2. start[k + 1] = sum(k) /\ start[k] = sum(k - 1)
    BY <2>1
  <2>3. sum(k - 1) \in Nat /\ lens[k] \in Nat
    BY <1>1, <2>1
  <2> QED BY <1>2, <2>2, <2>3
<1>7. ASSUME NEW k \in 1 .. n + 1, NEW m \in 1 .. n + 1, k < m
      PROVE  start[k] + lens[k] <= start[m]
  <2>1. k \in 1 .. n /\ k + 1 \in 1 .. n + 1 /\ k \in 0 .. n /\ m - 1 \in 0 .. n /\ k <= m - 1
    BY <1>7
  <2>2. start[k + 1] = sum(k) /\ start[m] = sum(m - 1)
    BY <2>1
  <2> QED BY <1>3, <1>6, <2>1, <2>2
<1>8. StartsOf(n, lens, start)
  <2> HIDE DEF start
  <2> QED BY <1>5, <1>6, <1>7 DEF StartsOf
<1> QED BY <1>8

Runs(X, s, n, lens, start) ==
  /\ n \in Nat \ {0} /\ s \in Seq(Seq(X)) /\ n = Len(s)
  /\ lens \in [1 .. n -> Nat] /\ \A k \in 1 .. n : lens[k] = Len(s[k])
  /\ StartsOf(n, lens, start)

(* FlattenSeq puts lists one behind the other: element j of list i is j    *)
(* places behind the end of list i - 1.                                    *)
LEMMA FlattenPlaces ==
  ASSUME NEW X, NEW s, NEW n, NEW lens, NEW start, Runs(X, s, n, lens, start),
         NEW i \in 1 .. n, NEW j \in 1 .. lens[i]
  PROVE  FlattenSeq(s)[start[i] + j] = s[i][j]
<1> DEFINE Of(x) == CHOOSE k \in 1 .. n : x - start[k] \in 1 .. lens[k]
           Whole(x) == s[Of(x)][x - start[Of(x)]]
           H == [k \in 1 .. n |-> [x \in 1 .. start[k + 1] |-> Whole(x)]]
           Unfold(f) == [k \in 1 .. n |-> IF k = 1 THEN s[k] ELSE f[k - 1] \o s[k]]
           F == CHOOSE f : f = Unfold(f)
<1>0. /\ n \in Nat \ {0} /\ s \in Seq(Seq(X)) /\ n = Len(s)
      /\ lens \in [1 .. n -> Nat] /\ \A k \in 1 .. n : lens[k] = Len(s[k])
      /\ StartsOf(n, lens, start)
  BY Zenon DEF Runs
<1> USE <1>0
<1>1. \A k \in 1 .. n : /\ s[k] \in Seq(X) /\ lens[k] = Len(s[k]) /\ lens[k] \in Nat
                        /\ start[k] \in Nat /\ start[k + 1] = start[k] + lens[k]
  <2> SUFFICES ASSUME NEW k \in 1 .. n
               PROVE  /\ s[k] \in Seq(X) /\ lens[k] = Len(s[k]) /\ lens[k] \in Nat
                      /\ start[k] \in Nat /\ start[k + 1] = start[k] + lens[k]
    BY Zenon
  <2>1. k \in 1 .. Len(s) /\ k \in 1 .. n + 1
    OBVIOUS
  <2>2. s[k] \in Seq(X)
    BY <2>1
  <2>3. start \in [1 .. n + 1 -> Nat] /\ start[k + 1] = start[k] + lens[k]
    BY Zenon DEF StartsOf
  <2> QED BY <2>1, <2>2, <2>3
<1>2. start[1] = 0 /\ \A k, m \in 1 .. n : k < m => start[k] + lens[k] <= start[m]
  BY DEF StartsOf
<1>3. ASSUME NEW k \in 1 .. n, NEW m \in 1 .. lens[k] PROVE Whole(start[k] + m) = s[k][m]
  <2> DEFINE x == start[k] + m
             c == Of(x)
  <2>1. start[k] \in Nat /\ lens[k] \in Nat
    BY <1>1
  <2>2. x - start[k] = m /\ x \in Int /\ x - start[k] \in 1 .. lens[k]
    BY <2>1
  <2> HIDE DEF x
  <2>3. c \in 1 .. n /\ x - start[c] \in 1 .. lens[c]
    BY <2>2, Zenon
  <2> HIDE DEF c
  <2>4. start[c] \in Nat /\ lens[c] \in Nat
    BY <1>1, <2>3
  <2>5. (c < k => start[c] + lens[c] <= start[k]) /\ (k < c => start[k] + lens[k] <= start[c])
    BY <1>2, <2>3
  <2>6. c = k
    <3> DEFINE sc == start[c]
               sk == start[k]
               lc == lens[c]
               lk == lens[k]
    <3>1. /\ sc \in Nat /\ sk \in Nat /\ lc \in Nat /\ lk \in Nat /\ x \in Int
          /\ x - sk \in 1 .. lk /\ x - sc \in 1 .. lc
      BY <2>1, <2>2, <2>3, <2>4, Zenon
    <3>2. (c < k => sc + lc <= sk) /\ (k < c => sk + lk <= sc)
      BY <2>5, Zenon
    <3>3. c \in Int /\ k \in Int
      BY <2>3
    <3> HIDE DEF sc, sk, lc, lk
    <3>4. ~(c < k)
      BY <3>1, <3>2
    <3>5. ~(k < c)
      BY <3>1, <3>2
    <3> QED BY <3>3, <3>4, <3>5
  <2>7. Whole(x) = s[c][x - start[c]]
    BY Zenon DEF c
  <2>8. Whole(x) = s[k][m]
    BY <2>2, <2>6, <2>7
  <2> QED BY <2>8 DEF x
<1> HIDE DEF Whole, Of
<1>4. ASSUME NEW k \in 1 .. n PROVE H[k] = Unfold(H)[k]
  <2> DEFINE a == start[k]
             l == lens[k]
             t == s[k]
             h == H[k]
  <2>1. a \in Nat /\ l \in Nat /\ t \in Seq(X) /\ l = Len(t) /\ start[k + 1] = a + l
    BY <1>1
  <2>2. h = [x \in 1 .. a + l |-> Whole(x)]
    BY <2>1
  <2>3. \A m \in 1 .. l : Whole(a + m) = t[m]
    BY <1>3
  <2>4. CASE k = 1
    <3>1. a = 0 /\ Unfold(H)[k] = t
      BY <1>2, <2>4
    <3> HIDE DEF a, l, t, h, H, Unfold
    <3>2. h = [x \in 1 .. l |-> Whole(x)] /\ \A m \in 1 .. l : Whole(m) = t[m]
      BY <2>1, <2>2, <2>3, <3>1
    <3>3. t = [x \in 1 .. l |-> t[x]]
      BY <2>1
    <3>4. h = t
      BY <3>2, <3>3
    <3> QED BY <3>1, <3>4 DEF h
  <2>5. CASE k # 1
    <3>1. k - 1 \in 1 .. n /\ (k - 1) + 1 = k
      BY <2>5
    <3> DEFINE g == H[k - 1]
               Y == X \cup {Whole(x) : x \in 1 .. a}
    <3>2. g = [x \in 1 .. a |-> Whole(x)] /\ Unfold(H)[k] = g \o t
      BY <2>5, <3>1
    <3> HIDE DEF a, l, t, h, g, H, Unfold
    <3>3. g \in [1 .. a -> Y] /\ t \in Seq(Y)
      BY <2>1, <3>2
    <3> HIDE DEF Y
    <3>4. g \in Seq(Y) /\ Len(g) = a
      BY <2>1, <3>3, FunctionList
    <3> DEFINE w == g \o t
    <3>5. /\ w \in Seq(Y) /\ DOMAIN w = 1 .. a + l
          /\ \A x \in 1 .. a : w[x] = g[x]
          /\ \A m \in 1 .. l : w[a + m] = t[m]
      <4>1. /\ g \o t \in Seq(Y) /\ DOMAIN (g \o t) = 1 .. Len(g) + Len(t)
            /\ \A x \in 1 .. Len(g) : (g \o t)[x] = g[x]
            /\ \A m \in 1 .. Len(t) : (g \o t)[Len(g) + m] = t[m]
        <5>1. g \in Seq(Y) /\ t \in Seq(Y)
          BY <3>3, <3>4
        <5> QED BY <5>1, ConcatPlaces
      <4>2. Len(g) = a /\ Len(t) = l
        BY <2>1, <3>4
      <4> HIDE DEF w
      <4>3. w = g \o t
        BY DEF w
      <4> QED BY <4>1, <4>2, <4>3, Zenon
    <3> HIDE DEF w
    <3>6. w = [x \in 1 .. a + l |-> w[x]]
      BY <3>5, <2>1
    <3>7. ASSUME NEW x \in 1 .. a + l PROVE w[x] = Whole(x)
      <4>1. CASE x <= a
        BY <2>1, <3>2, <3>5, <4>1
      <4>2. CASE x > a
        <5>1. x - a \in 1 .. l /\ a + (x - a) = x
          BY <2>1, <4>2
        <5>2. w[a + (x - a)] = t[x - a] /\ Whole(a + (x - a)) = t[x - a]
          BY <2>3, <3>5, <5>1
        <5> QED BY <5>1, <5>2
      <4> QED BY <2>1, <4>1, <4>2
    <3>8. w = h
      BY <2>2, <3>6, <3>7
    <3> QED BY <3>2, <3>8 DEF w, h
  <2> QED BY <2>4, <2>5
<1>5. H = Unfold(H)
  BY <1>4
<1>6. F = Unfold(F)
  <2> HIDE DEF H, Unfold
  <2> QED BY <1>5, Zenon
<1>7. FlattenSeq(s) = F[n]
  <2>1. Len(s) # 0
    OBVIOUS
  <2> QED BY <2>1, Zenon DEF FlattenSeq
<1>8. F[n] = H[n]
  <2> DEFINE bad == {k \in 1 .. n : F[k] # H[k]}
  <2> HIDE DEF F, H
  <2> SUFFICES ASSUME n \in bad PROVE FALSE
    OBVIOUS
  <2>1. PICK k \in bad : \A m \in bad : k <= m
    <3>1. bad # {} /\ \A y \in bad : y \in Nat
      <4>1. \A y \in bad : y \in 1 .. n
        BY Zenon
      <4> HIDE DEF bad
      <4> QED BY <4>1
    <3>2. bad \in SUBSET Nat
      BY <3>1, Zenon
    <3> HIDE DEF bad
    <3> QED BY <3>1, <3>2, Smallest, Zenon
  <2>2. k \in 1 .. n /\ F[k] # H[k]
    BY <2>1
  <2>3. F[k] = Unfold(F)[k] /\ H[k] = Unfold(H)[k]
    <3> HIDE DEF Unfold
    <3> QED BY <1>5, <1>6, Zenon
  <2>4. CASE k = 1
    BY <2>2, <2>3, <2>4
  <2>5. CASE k # 1
    <3>1. k - 1 \in 1 .. n /\ ~(k <= k - 1)
      BY <2>2, <2>5
    <3>2. F[k - 1] = H[k - 1]
      BY <2>1, <3>1
    <3> QED BY <2>2, <2>3, <2>5, <3>2
  <2> QED BY <2>4, <2>5
<1>9. start[i] + j \in 1 .. start[n + 1] /\ Whole(start[i] + j) = s[i][j]
  <2>1. start[i] + lens[i] <= start[n + 1] /\ start[n + 1] \in Nat
    <3>1. i \in 1 .. n + 1 /\ n + 1 \in 1 .. n + 1 /\ i < n + 1
      OBVIOUS
    <3> QED BY <3>1 DEF StartsOf
  <2>2. start[i] \in Nat /\ lens[i] \in Nat
    BY <1>1
  <2>3. start[i] + j \in 1 .. start[n + 1]
    BY <2>1, <2>2
  <2> QED BY <1>3, <2>3
<1>10. H[n] = [x \in 1 .. start[n + 1] |-> Whole(x)]
  OBVIOUS
<1> HIDE DEF F, H
<1>11. H[n][start[i] + j] = s[i][j]
  BY <1>9, <1>10
<1> QED BY <1>7, <1>8, <1>11
(* The tensors of a layer, n of them, and where each starts.               *)
PackedInOrder(names, size, n, lens, start) ==
  /\ n \in Nat \ {0} /\ names \in Seq(TensorNames) /\ Len(names) = n
  /\ size \in [TensorNames -> Nat]
  /\ lens \in [1 .. n -> Nat] /\ \A k \in 1 .. n : lens[k] = size[names[k]]
  /\ StartsOf(n, lens, start)

(* tensor_map has for each tensor the sum of the sizes before it.          *)
LEMMA OffsetIsStart ==
  ASSUME NEW names, NEW size, NEW n, NEW lens, NEW start, PackedInOrder(names, size, n, lens, start),
         NEW i \in 1 .. n
  PROVE  OffsetIn(names, size, i) = start[i]
<1> DEFINE T == 1 .. i - 1
           q == SubSeq(names, 1, i - 1)
           Top(s) == CHOOSE x \in s : \A y \in s : x >= y
           Unfold(g) == [s \in SUBSET T |-> IF s = {} THEN 0 ELSE g[s \ {Top(s)}] + size[q[Top(s)]]]
           G == [s \in SUBSET T |-> SumFunctionOnSet(lens, s)]
           H == CHOOSE g : g = Unfold(g)
<1>0. /\ n \in Nat \ {0} /\ names \in Seq(TensorNames) /\ Len(names) = n
      /\ size \in [TensorNames -> Nat]
      /\ lens \in [1 .. n -> Nat] /\ \A k \in 1 .. n : lens[k] = size[names[k]]
      /\ StartsOf(n, lens, start)
  BY Zenon DEF PackedInOrder
<1>1. DOMAIN q = T /\ i - 1 \in 0 .. n /\ \A k \in T : q[k] = names[k] /\ lens[k] \in Nat /\ size[q[k]] = lens[k]
  BY <1>0
<1>2. IsFiniteSet(T)
  <2>1. 1 \in Int /\ i - 1 \in Int
    OBVIOUS
  <2> QED BY <2>1, FS_Interval, Zenon
<1>3. ASSUME NEW s \in SUBSET T, s # {} PROVE Top(s) \in s /\ \A y \in s : Top(s) >= y
  <2>1. s \in SUBSET Nat /\ i - 1 \in Nat /\ \A x \in s : x <= i - 1
    OBVIOUS
  <2>2. PICK x \in s : \A y \in s : y <= x
    <3> HIDE DEF T
    <3> QED BY <1>3, <2>1, Largest
  <2>3. \A y \in s : x >= y
    BY <2>1, <2>2
  <2> QED BY <2>3, Zenon
<1> HIDE DEF Top, q
<1>4. G = Unfold(G)
  <2>1. ASSUME NEW s \in SUBSET T PROVE G[s] = Unfold(G)[s]
    <3>1. CASE s = {}
      BY <3>1, SumEmpty
    <3>2. CASE s # {}
      <4> DEFINE x == Top(s)
      <4>1. x \in s /\ x \in T
        BY <1>3, <3>2
      <4>2. IsFiniteSet(s) /\ \A y \in s : lens[y] \in Nat
        BY <1>1, <1>2, FS_Subset, Zenon
      <4>3. IsFiniteSet(s \ {x}) /\ \A y \in s \ {x} : lens[y] \in Nat
        BY <4>2, FS_RemoveElement, Zenon
      <4> HIDE DEF x
      <4>4. SumFunctionOnSet(lens, s) = lens[x] + SumFunctionOnSet(lens, s \ {x})
        BY <4>1, <4>2, SumStep, Zenon
      <4>5. SumFunctionOnSet(lens, s \ {x}) \in Nat
        BY <4>3, SumNat, Zenon
      <4>6. lens[x] = size[q[x]] /\ lens[x] \in Nat
        BY <1>1, <4>1
      <4>7. SumFunctionOnSet(lens, s) = SumFunctionOnSet(lens, s \ {x}) + size[q[x]]
        BY <4>4, <4>5, <4>6
      <4>8. s \ {x} \in SUBSET T
        OBVIOUS
      <4>9. Unfold(G)[s] = G[s \ {x}] + size[q[x]]
        BY <3>2, Zenon DEF x
      <4> QED BY <4>7, <4>8, <4>9, Zenon
    <3> QED BY <3>1, <3>2
  <2> QED BY <2>1, Zenon
<1>5. H = Unfold(H)
  <2> HIDE DEF G, Unfold
  <2> QED BY <1>4, Zenon
<1>6. OffsetIn(names, size, i) = H[T]
  <2>1. OffsetIn(names, size, i) = FoldLeft(LAMBDA sum, name : sum + size[name], 0, q)
    BY DEF OffsetIn, q
  <2>2. FoldLeft(LAMBDA sum, name : sum + size[name], 0, q) = H[DOMAIN q]
    <3>1. DOMAIN q = T
      BY <1>1
    <3> QED BY <3>1, Zenon DEF FoldLeft, MapThenFoldSet, Top, Max
  <2> QED BY <1>1, <2>1, <2>2, Zenon
<1>7. H[T] = start[i]
  <2> DEFINE bad == {k \in 0 .. i - 1 : H[1 .. k] # start[k + 1]}
  <2> HIDE DEF H
  <2> SUFFICES ASSUME i - 1 \in bad PROVE FALSE
    <3>1. i - 1 \in 0 .. i - 1 /\ i - 1 + 1 = i /\ i - 1 \notin bad
      OBVIOUS
    <3> QED BY <3>1
  <2>1. PICK k \in bad : \A m \in bad : k <= m
    <3>1. bad # {} /\ \A y \in bad : y \in Nat
      <4>1. \A y \in bad : y \in 0 .. i - 1
        BY Zenon
      <4> HIDE DEF bad
      <4> QED BY <4>1
    <3>2. bad \in SUBSET Nat
      BY <3>1, Zenon
    <3> HIDE DEF bad
    <3> QED BY <3>1, <3>2, Smallest, Zenon
  <2>2. k \in 0 .. i - 1 /\ H[1 .. k] # start[k + 1]
    BY <2>1
  <2> DEFINE s == 1 .. k
  <2>3. s \in SUBSET T /\ H[s] = Unfold(H)[s]
    <3>1. s \in SUBSET T
      BY <2>2
    <3> HIDE DEF Unfold, s
    <3> QED BY <1>5, <3>1, Zenon
  <2>4. CASE k = 0
    <3>1. s = {} /\ start[k + 1] = 0
      BY <1>0, <2>4 DEF StartsOf
    <3> HIDE DEF s
    <3>2. H[s] = 0
      BY <2>3, <3>1
    <3> QED BY <2>2, <3>1, <3>2 DEF s
  <2>5. CASE k # 0
    <3>1. k \in 1 .. n /\ k \in s /\ k - 1 \in 0 .. i - 1 /\ k - 1 + 1 = k /\ ~(k <= k - 1)
      BY <1>0, <2>2, <2>5
    <3>2. Top(s) = k
      <4>1. Top(s) \in s /\ Top(s) >= k
        BY <1>3, <2>3, <3>1
      <4> QED BY <3>1, <4>1
    <3>3. s \ {k} = 1 .. k - 1
      <4>1. k \in Nat
        BY <3>1
      <4>2. \A y : y \in s \ {k} <=> y \in 1 .. k - 1
        BY <4>1
      <4> QED BY <4>2, Zenon
    <3>4. H[1 .. k - 1] = start[k]
      BY <2>1, <3>1
    <3>5. size[q[k]] = lens[k]
      BY <1>1, <2>2, <3>1
    <3> HIDE DEF s
    <3>6. H[s] = start[k] + lens[k]
      BY <2>3, <3>1, <3>2, <3>3, <3>4, <3>5
    <3>7. start[k + 1] = start[k] + lens[k]
      BY <1>0, <3>1 DEF StartsOf
    <3> QED BY <2>2, <3>6, <3>7 DEF s
  <2> QED BY <2>4, <2>5
<1> QED BY <1>6, <1>7

(* Element j of tensor i of an image is where its view looks for it.       *)
LEMMA ImagePlaces ==
  ASSUME NEW l, NEW p, NEW names, NEW size, NEW n, NEW lens, NEW start,
         PackedInOrder(names, size, n, lens, start)
  PROVE  \A i \in 1 .. n : \A j \in 1 .. lens[i] :
           Image(l, p, names, size)[start[i] + j] = <<p, l, names[i], j>>
<1> SUFFICES ASSUME NEW i \in 1 .. n, NEW j \in 1 .. lens[i]
             PROVE  Image(l, p, names, size)[start[i] + j] = <<p, l, names[i], j>>
  BY Zenon
<1> DEFINE X == {p} \X {l} \X TensorNames \X Nat
           tensor(k) == TensorOf(l, p, names[k], size)
           s == [k \in DOMAIN names |-> tensor(k)]
<1>0. /\ n \in Nat \ {0} /\ names \in Seq(TensorNames) /\ Len(names) = n
      /\ size \in [TensorNames -> Nat]
      /\ lens \in [1 .. n -> Nat] /\ \A k \in 1 .. n : lens[k] = size[names[k]]
      /\ StartsOf(n, lens, start)
  BY Zenon DEF PackedInOrder
<1> USE <1>0
<1>1. DOMAIN names = 1 .. n /\ \A k \in 1 .. n : names[k] \in TensorNames
  OBVIOUS
<1>2. ASSUME NEW k \in 1 .. n
      PROVE  /\ tensor(k) = [m \in 1 .. lens[k] |-> <<p, l, names[k], m>>]
             /\ tensor(k) \in Seq(X) /\ Len(tensor(k)) = lens[k]
  <2>1. tensor(k) = [m \in 1 .. lens[k] |-> <<p, l, names[k], m>>] /\ lens[k] \in Nat
    BY DEF TensorOf
  <2>2. \A m \in 1 .. lens[k] : <<p, l, names[k], m>> \in X
    BY <1>1
  <2> HIDE DEF X, tensor
  <2>3. tensor(k) \in [1 .. lens[k] -> X]
    BY <2>1, <2>2
  <2> QED BY <2>1, <2>3, FunctionList
<1> HIDE DEF X, tensor
<1>3. s \in [1 .. n -> Seq(X)]
  BY <1>1, <1>2
<1>4. s \in Seq(Seq(X)) /\ n = Len(s)
  <2> HIDE DEF s
  <2> QED BY <1>3, FunctionList
<1>5. \A k \in 1 .. n : s[k] = tensor(k) /\ lens[k] = Len(s[k])
  BY <1>1, <1>2
<1>6. Image(l, p, names, size) = FlattenSeq(s)
  BY DEF Image, tensor
<1>7. tensor(i)[j] = <<p, l, names[i], j>>
  BY <1>2
<1> HIDE DEF s
<1>8. FlattenSeq(s)[start[i] + j] = s[i][j]
  <2>1. \A k \in 1 .. n : lens[k] = Len(s[k])
    BY <1>5
  <2>2. Runs(X, s, n, lens, start)
    BY <1>4, <2>1, Zenon DEF Runs
  <2> QED BY <2>2, FlattenPlaces
<1> QED BY <1>5, <1>6, <1>7, <1>8

(* Where an image of n tensors with this total size is in place.           *)
HoldsImage(cells, l, p, names, size, n, total) ==
  /\ n \in Nat \ {0} /\ names \in Seq(TensorNames) /\ Len(names) = n
  /\ size \in [TensorNames -> Nat]
  /\ \E start : /\ StartsOf(n, [k \in 1 .. n |-> size[names[k]]], start)
                /\ start[n + 1] = total
  /\ \A x \in 1 .. total : cells[RegionOf(l) + x - 1] = Image(l, p, names, size)[x]

(* What a view of tensor i looks at, it finds where the image is in place. *)
LEMMA ViewReads ==
  ASSUME NEW cells, NEW l, NEW p, NEW names, NEW size, NEW n, NEW total,
         HoldsImage(cells, l, p, names, size, n, total), NEW i \in 1 .. n
  PROVE  /\ OffsetIn(names, size, i) \in Nat /\ size[names[i]] \in Nat
         /\ i + 1 \in 1 .. n => OffsetIn(names, size, i + 1) = OffsetIn(names, size, i) + size[names[i]]
         /\ \A j \in 1 .. size[names[i]] :
              cells[RegionOf(l) + (OffsetIn(names, size, i) + j) - 1] = <<p, l, names[i], j>>
<1> DEFINE lens == [k \in 1 .. n |-> size[names[k]]]
<1>0. /\ n \in Nat \ {0} /\ names \in Seq(TensorNames) /\ Len(names) = n
      /\ size \in [TensorNames -> Nat]
  BY Zenon DEF HoldsImage
<1>1. PICK start : StartsOf(n, lens, start) /\ start[n + 1] = total
  BY Zenon DEF HoldsImage
<1>2. PackedInOrder(names, size, n, lens, start) /\ lens[i] = size[names[i]]
  <2>1. lens \in [1 .. n -> Nat] /\ \A k \in 1 .. n : lens[k] = size[names[k]]
    BY <1>0
  <2> HIDE DEF lens
  <2> QED BY <1>0, <1>1, <2>1, Zenon DEF PackedInOrder
<1> HIDE DEF lens
<1>3. \A k \in 1 .. n : OffsetIn(names, size, k) = start[k]
  BY <1>2, OffsetIsStart
<1>4. /\ start[i] \in Nat /\ lens[i] \in Nat /\ total \in Nat
      /\ start[i + 1] = start[i] + lens[i] /\ start[i] + lens[i] <= total
  <2>1. i \in 1 .. n + 1 /\ n + 1 \in 1 .. n + 1 /\ i < n + 1
    BY <1>0
  <2>2. lens \in [1 .. n -> Nat]
    BY <1>2, Zenon DEF PackedInOrder
  <2> QED BY <1>1, <2>1, <2>2 DEF StartsOf
<1>5. ASSUME NEW j \in 1 .. lens[i]
      PROVE  cells[RegionOf(l) + (start[i] + j) - 1] = <<p, l, names[i], j>>
  <2>1. start[i] + j \in 1 .. total
    BY <1>4
  <2>2. Image(l, p, names, size)[start[i] + j] = <<p, l, names[i], j>>
    <3>1. \A k \in 1 .. n : \A m \in 1 .. lens[k] :
            Image(l, p, names, size)[start[k] + m] = <<p, l, names[k], m>>
      BY <1>2, ImagePlaces
    <3> QED BY <3>1, Zenon
  <2>3. \A x \in 1 .. total : cells[RegionOf(l) + x - 1] = Image(l, p, names, size)[x]
    BY Zenon DEF HoldsImage
  <2> QED BY <2>1, <2>2, <2>3, Zenon
<1> QED BY <1>2, <1>3, <1>4, <1>5

(* A layer has one size less per tensor to go.                             *)
LEMMA Fp16Starts ==
  \E start : /\ StartsOf(9, [k \in 1 .. 9 |-> Fp16Size[RegisteredWeights[k]]], start)
             /\ start[10] = LayerSize
<1> DEFINE lens == [k \in 1 .. 9 |-> Fp16Size[RegisteredWeights[k]]]
<1>1. /\ lens[1] = NormSize /\ lens[2] = ProjSize /\ lens[3] = ProjSize /\ lens[4] = ProjSize
      /\ lens[5] = ProjSize /\ lens[6] = NormSize /\ lens[7] = FfnSize /\ lens[8] = FfnSize
      /\ lens[9] = FfnSize /\ lens \in [1 .. 9 -> Nat]
  <2>1. \A k \in 1 .. 9 : RegisteredWeights[k] \in TensorNames
    BY DEF TensorNames, ToSet, RegisteredWeights
  <2>2. lens = [k \in 1 .. 9 |-> IF RegisteredWeights[k] \in Norms THEN NormSize
                 ELSE IF RegisteredWeights[k] \in Ffn THEN FfnSize ELSE ProjSize]
    BY <2>1 DEF Fp16Size
  <2> HIDE DEF lens
  <2> QED BY <2>2, LayoutAssumption DEF RegisteredWeights, Norms, Ffn
<1> HIDE DEF lens
<1>2. PICK start : StartsOf(9, lens, start)
  BY <1>1, StartsExist
<1>3. \A k \in 1 .. 9 : start[k] \in Nat /\ start[k + 1] = start[k] + lens[k]
  BY <1>2 DEF StartsOf
<1>4. start[1] = 0
  BY <1>2 DEF StartsOf
<1>5. /\ start[2] = start[1] + lens[1] /\ start[3] = start[2] + lens[2] /\ start[4] = start[3] + lens[3]
      /\ start[5] = start[4] + lens[4] /\ start[6] = start[5] + lens[5] /\ start[7] = start[6] + lens[6]
      /\ start[8] = start[7] + lens[7] /\ start[9] = start[8] + lens[8] /\ start[10] = start[9] + lens[9]
  BY <1>3
<1>6. start[10] = LayerSize
  BY <1>1, <1>4, <1>5, LayoutAssumption DEF LayerSize
<1> QED BY <1>2, <1>6 DEF lens

(* The same of a packed layer.                                             *)
LEMMA W4Starts ==
  \E start : /\ StartsOf(9, [k \in 1 .. 9 |-> W4Size[PackedTensors[k]]], start)
             /\ start[10] = PackedLayerSize
<1> DEFINE lens == [k \in 1 .. 9 |-> W4Size[PackedTensors[k]]]
<1>1. /\ lens[1] = NormSize /\ lens[2] = NormSize /\ lens[3] = PackedSize /\ lens[4] = PackedSize
      /\ lens[5] = PackedSize /\ lens[6] = PackedSize /\ lens[7] = PackedSize /\ lens[8] = PackedSize
      /\ lens[9] = PackedSize /\ lens \in [1 .. 9 -> Nat]
  <2>1. \A k \in 1 .. 9 : PackedTensors[k] \in TensorNames
    BY DEF TensorNames, ToSet, RegisteredWeights, PackedTensors
  <2>2. lens = [k \in 1 .. 9 |-> IF PackedTensors[k] \in Norms THEN NormSize ELSE PackedSize]
    BY <2>1 DEF W4Size
  <2> HIDE DEF lens
  <2> QED BY <2>2, LayoutAssumption DEF PackedTensors, Norms
<1> HIDE DEF lens
<1>2. PICK start : StartsOf(9, lens, start)
  BY <1>1, StartsExist
<1>3. \A k \in 1 .. 9 : start[k] \in Nat /\ start[k + 1] = start[k] + lens[k]
  BY <1>2 DEF StartsOf
<1>4. start[1] = 0
  BY <1>2 DEF StartsOf
<1>5. /\ start[2] = start[1] + lens[1] /\ start[3] = start[2] + lens[2] /\ start[4] = start[3] + lens[3]
      /\ start[5] = start[4] + lens[4] /\ start[6] = start[5] + lens[5] /\ start[7] = start[6] + lens[6]
      /\ start[8] = start[7] + lens[7] /\ start[9] = start[8] + lens[8] /\ start[10] = start[9] + lens[9]
  BY <1>3
<1>6. start[10] = PackedLayerSize
  BY <1>1, <1>4, <1>5, LayoutAssumption DEF PackedLayerSize
<1> QED BY <1>2, <1>6 DEF lens

(* The image of what is installed is in the region of each layer.          *)
LEMMA InstalledImage ==
  ASSUME WeightsInPlace, NEW l \in Layers
  PROVE  IF precision[l] = "fp16"
           THEN HoldsImage(mem, l, "fp16", RegisteredWeights, Fp16Size, 9, LayerSize)
           ELSE HoldsImage(mem, l, "w4", PackedTensors, W4Size, 9, PackedLayerSize)
<1>1. /\ RegisteredWeights \in Seq(TensorNames) /\ Len(RegisteredWeights) = 9
      /\ PackedTensors \in Seq(TensorNames) /\ Len(PackedTensors) = 9
  BY DEF TensorNames, ToSet, RegisteredWeights, PackedTensors
<1>2. Fp16Size \in [TensorNames -> Nat] /\ W4Size \in [TensorNames -> Nat]
  BY LayoutAssumption DEF Fp16Size, W4Size
<1>3. CASE precision[l] = "fp16"
  <2>1. \A x \in 1 .. LayerSize :
          mem[RegionOf(l) + x - 1] = Image(l, "fp16", RegisteredWeights, Fp16Size)[x]
    BY <1>3, Zenon DEF WeightsInPlace, Fp16Image
  <2>2. 9 \in Nat \ {0} /\ 9 + 1 = 10
    OBVIOUS
  <2> QED BY <1>1, <1>2, <1>3, <2>1, <2>2, Fp16Starts, Zenon DEF HoldsImage
<1>4. CASE precision[l] # "fp16"
  <2>1. \A x \in 1 .. PackedLayerSize :
          mem[RegionOf(l) + x - 1] = Image(l, "w4", PackedTensors, W4Size)[x]
    BY <1>4, Zenon DEF WeightsInPlace, W4Image
  <2>2. 9 \in Nat \ {0} /\ 9 + 1 = 10
    OBVIOUS
  <2> QED BY <1>1, <1>2, <1>4, <2>1, <2>2, W4Starts, Zenon DEF HoldsImage
<1> QED BY <1>3, <1>4

(* A view of one tensor reads it.                                          *)
LEMMA TensorRead ==
  ASSUME NEW cells, NEW l \in Layers, NEW p, NEW names, NEW size, NEW total,
         HoldsImage(cells, l, p, names, size, 9, total)
  PROVE  \A i \in 1 .. 9 : /\ Views(names, size)[i].name = names[i]
                           /\ Views(names, size)[i].offset = OffsetIn(names, size, i)
                           /\ Views(names, size)[i].size = size[names[i]]
                           /\ Reads(cells, l, Views(names, size)[i], TensorOf(l, p, names[i], size))
<1> SUFFICES ASSUME NEW i \in 1 .. 9
             PROVE  /\ Views(names, size)[i].name = names[i]
                    /\ Views(names, size)[i].offset = OffsetIn(names, size, i)
                    /\ Views(names, size)[i].size = size[names[i]]
                    /\ Reads(cells, l, Views(names, size)[i], TensorOf(l, p, names[i], size))
  BY Zenon
<1> DEFINE off == OffsetIn(names, size, i)
           s == size[names[i]]
           base == RegionOf(l)
           v == [name |-> names[i], offset |-> off, size |-> s]
           content == TensorOf(l, p, names[i], size)
<1>1. Views(names, size)[i] = v
  <2>1. DOMAIN names = 1 .. 9
    BY DEF HoldsImage
  <2> QED BY <2>1 DEF Views
<1>2. off \in Nat /\ s \in Nat /\ \A j \in 1 .. s : cells[base + (off + j) - 1] = <<p, l, names[i], j>>
  BY ViewReads
<1>3. base \in Nat
  BY Sizes DEF RegionOf, Layers
<1>4. \A j \in 1 .. s : content[j] = <<p, l, names[i], j>>
  BY DEF TensorOf
<1>5. v.size = s /\ v.offset = off /\ v.name = names[i]
  OBVIOUS
<1> HIDE DEF off, s, base, content
<1>6. ASSUME NEW j \in 1 .. s PROVE cells[base + off + j - 1] = content[j]
  <2>1. base + off + j - 1 = base + (off + j) - 1
    BY <1>2, <1>3
  <2> QED BY <1>2, <1>4, <2>1
<1> HIDE DEF v
<1>7. Reads(cells, l, v, content)
  BY <1>5, <1>6 DEF Reads, base
<1> QED BY <1>1, <1>5, <1>7 DEF content, off, s

(* The attributes of an FP16 layer: two of its tensors are one view.       *)
LEMMA Fp16ViewsAre ==
  LET views == Views(RegisteredWeights, Fp16Size) IN
  /\ DOMAIN Fp16Views = 1 .. 8
  /\ \A i \in 1 .. 6 : Fp16Views[i] = views[i]
  /\ Fp16Views[7] = UpGateProj(views[7], views[8])
  /\ Fp16Views[8] = views[9]
<1> DEFINE views == Views(RegisteredWeights, Fp16Size)
           X == {views[i] : i \in 1 .. 9} \cup {UpGateProj(views[7], views[8])}
           first == SubSeq(views, 1, 6)
           last == <<UpGateProj(views[7], views[8]), views[9]>>
<1>1. views \in Seq(X) /\ Len(views) = 9
  <2>1. DOMAIN RegisteredWeights = 1 .. 9
    BY DEF RegisteredWeights
  <2>2. views = [i \in 1 .. 9 |-> views[i]]
    BY <2>1 DEF Views
  <2> HIDE DEF views
  <2>3. views \in [1 .. 9 -> X] /\ 9 \in Nat
    BY <2>2
  <2> QED BY <2>3, FunctionList
<1> HIDE DEF views
<1>2. last \in Seq(X) /\ Len(last) = 2 /\ last[1] = UpGateProj(views[7], views[8]) /\ last[2] = views[9]
  OBVIOUS
<1> HIDE DEF X, last
<1>3. first \in Seq(X) /\ Len(first) = 6 /\ \A i \in 1 .. 6 : first[i] = views[i]
  <2>1. 6 \in 0 .. Len(views)
    BY <1>1
  <2> QED BY <1>1, <2>1, FirstOfList
<1> HIDE DEF first
<1> DEFINE both == first \o last
<1>4. /\ DOMAIN both = 1 .. Len(first) + Len(last)
      /\ \A k \in 1 .. Len(first) : both[k] = first[k]
      /\ \A m \in 1 .. Len(last) : both[Len(first) + m] = last[m]
  <2>1. first \in Seq(X) /\ last \in Seq(X)
    BY <1>2, <1>3
  <2> HIDE DEF both
  <2>2. both = first \o last
    BY DEF both
  <2> QED BY <2>1, <2>2, ConcatPlaces
<1>5. Fp16Views = both
  BY DEF Fp16Views, views, first, last
<1> HIDE DEF both
<1>6. both[6 + 1] = last[1] /\ both[6 + 2] = last[2] /\ DOMAIN both = 1 .. 8
      /\ \A k \in 1 .. 6 : both[k] = first[k]
  BY <1>2, <1>3, <1>4
<1>7. both[7] = last[1] /\ both[8] = last[2]
  BY <1>6
<1> QED BY <1>2, <1>3, <1>5, <1>6, <1>7 DEF views

(* The view of both projections reads one after the other.                 *)
LEMMA UpGateRead ==
  ASSUME NEW cells, NEW l \in Layers,
         HoldsImage(cells, l, "fp16", RegisteredWeights, Fp16Size, 9, LayerSize)
  PROVE  LET views == Views(RegisteredWeights, Fp16Size)
         IN  Reads(cells, l, UpGateProj(views[7], views[8]), Fp16Tensor(l, "up_gate_proj"))
<1> DEFINE off == OffsetIn(RegisteredWeights, Fp16Size, 7)
           off2 == OffsetIn(RegisteredWeights, Fp16Size, 8)
           up == TensorOf(l, "fp16", "up_proj", Fp16Size)
           gate == TensorOf(l, "fp16", "gate_proj", Fp16Size)
           base == RegionOf(l)
           content == up \o gate
           views == Views(RegisteredWeights, Fp16Size)
           v == UpGateProj(views[7], views[8])
<1>1. /\ RegisteredWeights[7] = "up_proj" /\ RegisteredWeights[8] = "gate_proj"
      /\ Fp16Size["up_proj"] = FfnSize /\ Fp16Size["gate_proj"] = FfnSize /\ FfnSize \in Nat
  BY LayoutAssumption DEF RegisteredWeights, Fp16Size, TensorNames, ToSet, Norms, Ffn
<1>2. 7 \in 1 .. 9 /\ 8 \in 1 .. 9 /\ 7 + 1 = 8
  OBVIOUS
<1>3. /\ off \in Nat /\ off2 = off + FfnSize
      /\ \A j \in 1 .. FfnSize : cells[base + (off + j) - 1] = <<"fp16", l, "up_proj", j>>
      /\ \A j \in 1 .. FfnSize : cells[base + (off2 + j) - 1] = <<"fp16", l, "gate_proj", j>>
  BY <1>1, <1>2, ViewReads
<1>4. v.offset = off /\ v.size = FfnSize + FfnSize
  <2>1. \A i \in 1 .. 9 : /\ views[i].offset = OffsetIn(RegisteredWeights, Fp16Size, i)
                          /\ views[i].size = Fp16Size[RegisteredWeights[i]]
    BY TensorRead
  <2>2. views[7].offset = off /\ views[7].size = FfnSize /\ views[8].size = FfnSize
    BY <1>1, <1>2, <2>1
  <2> HIDE DEF views, off
  <2> QED BY <2>2 DEF UpGateProj
<1>5. base \in Nat
  BY Sizes DEF RegionOf, Layers
<1>6. /\ \A j \in 1 .. FfnSize : content[j] = <<"fp16", l, "up_proj", j>>
      /\ \A j \in 1 .. FfnSize : content[FfnSize + j] = <<"fp16", l, "gate_proj", j>>
  <2> DEFINE X == {<<"fp16", l>>} \X Nat \cup {<<"fp16", l, "up_proj", j>> : j \in Nat} \cup {<<"fp16", l, "gate_proj", j>> : j \in Nat}
  <2>1. /\ up = [j \in 1 .. FfnSize |-> <<"fp16", l, "up_proj", j>>]
        /\ gate = [j \in 1 .. FfnSize |-> <<"fp16", l, "gate_proj", j>>]
    BY <1>1 DEF TensorOf
  <2> HIDE DEF up, gate
  <2>2. up \in [1 .. FfnSize -> X] /\ gate \in [1 .. FfnSize -> X]
    BY <2>1, <1>1
  <2> HIDE DEF X
  <2>3. up \in Seq(X) /\ Len(up) = FfnSize /\ gate \in Seq(X) /\ Len(gate) = FfnSize
    BY <2>2, <1>1, FunctionList
  <2>4. /\ \A k \in 1 .. Len(up) : (up \o gate)[k] = up[k]
        /\ \A m \in 1 .. Len(gate) : (up \o gate)[Len(up) + m] = gate[m]
    BY <2>3, ConcatPlaces
  <2> QED BY <2>1, <2>3, <2>4
<1> HIDE DEF off, off2, content, base, v, up, gate
<1>7. ASSUME NEW j \in 1 .. FfnSize + FfnSize PROVE cells[base + off + j - 1] = content[j]
  <2>1. CASE j <= FfnSize
    <3>1. j \in 1 .. FfnSize /\ base + off + j - 1 = base + (off + j) - 1
      BY <1>1, <1>3, <1>5, <2>1
    <3> QED BY <1>3, <1>6, <3>1
  <2>2. CASE j > FfnSize
    <3> DEFINE m == j - FfnSize
    <3>1. /\ m \in 1 .. FfnSize /\ FfnSize + m = j
          /\ base + off + j - 1 = base + (off2 + m) - 1
      BY <1>1, <1>3, <1>5, <2>2
    <3> HIDE DEF m
    <3> QED BY <1>3, <1>6, <3>1
  <2> QED BY <1>1, <2>1, <2>2
<1>8. Reads(cells, l, v, content)
  BY <1>4, <1>7 DEF Reads, base
<1>9. content = Fp16Tensor(l, "up_gate_proj")
  BY DEF Fp16Tensor, content, up, gate
<1> QED BY <1>8, <1>9 DEF v

(* Images in place are weights that can be read.                           *)
LEMMA WeightsRead == WeightsInPlace => WeightsReadBack
<1> SUFFICES ASSUME WeightsInPlace, NEW l \in Layers
             PROVE  IF precision[l] = "fp16" THEN Fp16ReadBack(mem, l) ELSE W4ReadBack(mem, l)
  BY DEF WeightsReadBack
<1>1. CASE precision[l] = "fp16"
  <2> DEFINE views == Views(RegisteredWeights, Fp16Size)
  <2>1. HoldsImage(mem, l, "fp16", RegisteredWeights, Fp16Size, 9, LayerSize)
    BY <1>1, InstalledImage
  <2>2. ASSUME NEW i \in (1 .. 6) \cup {9}
        PROVE  Reads(mem, l, views[i], Fp16Tensor(l, views[i].name))
    <3>1. i \in 1 .. 9 /\ RegisteredWeights[i] # "up_gate_proj"
      BY DEF RegisteredWeights
    <3>2. views[i].name = RegisteredWeights[i]
          /\ Reads(mem, l, views[i], TensorOf(l, "fp16", RegisteredWeights[i], Fp16Size))
      BY <2>1, <3>1, TensorRead
    <3> HIDE DEF views
    <3> QED BY <3>1, <3>2 DEF Fp16Tensor
  <2>3. Reads(mem, l, UpGateProj(views[7], views[8]), Fp16Tensor(l, UpGateProj(views[7], views[8]).name))
    <3>1. UpGateProj(views[7], views[8]).name = "up_gate_proj"
      BY DEF UpGateProj
    <3> QED BY <2>1, <3>1, UpGateRead
  <2> HIDE DEF views
  <2>4. ASSUME NEW i \in 1 .. 8 PROVE Reads(mem, l, Fp16Views[i], Fp16Tensor(l, Fp16Views[i].name))
    <3>1. CASE i \in 1 .. 6
      <4>1. Fp16Views[i] = views[i]
        BY <3>1, Fp16ViewsAre DEF views
      <4> QED BY <2>2, <3>1, <4>1
    <3>2. CASE i = 7
      <4>1. Fp16Views[i] = UpGateProj(views[7], views[8])
        BY <3>2, Fp16ViewsAre DEF views
      <4> QED BY <2>3, <4>1
    <3>3. CASE i = 8
      <4>1. Fp16Views[i] = views[9]
        BY <3>3, Fp16ViewsAre DEF views
      <4>2. 9 \in (1 .. 6) \cup {9}
        OBVIOUS
      <4> QED BY <2>2, <4>1, <4>2
    <3> QED BY <3>1, <3>2, <3>3
  <2>5. Fp16ReadBack(mem, l)
    BY <2>4, Fp16ViewsAre DEF Fp16ReadBack
  <2> QED BY <1>1, <2>5
<1>2. CASE precision[l] # "fp16"
  <2>1. HoldsImage(mem, l, "w4", PackedTensors, W4Size, 9, PackedLayerSize)
    BY <1>2, InstalledImage
  <2>2. DOMAIN W4Views = 1 .. 9
    BY DEF W4Views, Views, PackedTensors
  <2>3. ASSUME NEW i \in 1 .. 9 PROVE Reads(mem, l, W4Views[i], W4Tensor(l, W4Views[i].name))
    <3> DEFINE w == Views(PackedTensors, W4Size)
    <3>1. w[i].name = PackedTensors[i] /\ Reads(mem, l, w[i], TensorOf(l, "w4", PackedTensors[i], W4Size))
      BY <2>1, TensorRead
    <3>2. W4Views = w
      BY DEF W4Views
    <3> HIDE DEF w
    <3> QED BY <3>1, <3>2 DEF W4Tensor
  <2>4. W4ReadBack(mem, l)
    BY <2>2, <2>3 DEF W4ReadBack
  <2> QED BY <1>2, <2>4
<1> QED BY <1>1, <1>2

(* Whatever order layers are replaced, lent, taken back and restored in,   *)
(* and whatever passes store in lent memory, every attribute of every      *)
(* layer reads its own tensor in the installed precision, for every layout.*)
THEOREM SpecWeightsReadBack == Spec => []WeightsReadBack
<1>1. LentInv => WeightsReadBack
  BY WeightsRead DEF LentInv
<1> QED BY <1>1, SpecLentInv, PTL

-----------------------------------------------------------------------------
(* Sums and folds                                                          *)

(* The powers of two, as the numbers of subsets.                           *)
LEMMA PowerOfTwo ==
  ASSUME NEW n \in Nat
  PROVE  2 ^ n \in Nat \ {0} /\ 2 ^ 0 = 1 /\ 2 ^ (n + 1) = 2 * 2 ^ n
<1> DEFINE A == SUBSET (1 .. n)
           B == {s \cup {n + 1} : s \in A}
<1>1. ASSUME NEW k \in Nat
      PROVE  /\ IsFiniteSet(SUBSET (1 .. k)) /\ Cardinality(SUBSET (1 .. k)) = 2 ^ k
             /\ 2 ^ k \in Nat
  <2>1. 1 \in Int /\ k \in Int
    OBVIOUS
  <2>2. IsFiniteSet(1 .. k) /\ Cardinality(1 .. k) = IF 1 > k THEN 0 ELSE k - 1 + 1
    BY <2>1, FS_Interval, Zenon
  <2>3. Cardinality(1 .. k) = k
    BY <2>2
  <2> QED BY <2>2, <2>3, FS_SUBSET, FS_CardinalityType, Zenon
<1>2. IsFiniteSet(A) /\ Cardinality(A) = 2 ^ n /\ 2 ^ n \in Nat
  BY <1>1
<1>3. 2 ^ n # 0
  <2>1. A # {}
    OBVIOUS
  <2> HIDE DEF A
  <2> QED BY <1>2, <2>1, FS_EmptySet, Zenon
<1>4. 2 ^ 0 = 1
  <2>1. SUBSET (1 .. 0) = {{}}
    OBVIOUS
  <2>2. Cardinality({{}}) = 1
    BY FS_Singleton, Zenon
  <2>3. 0 \in Nat
    OBVIOUS
  <2> QED BY <1>1, <2>1, <2>2, <2>3, Zenon
<1>5. IsFiniteSet(B) /\ Cardinality(B) = Cardinality(A)
  <2> DEFINE m == [s \in A |-> s \cup {n + 1}]
  <2>1. m \in [A -> B]
    BY Zenon
  <2>2. \A x, y \in A : m[x] = m[y] => x = y
    <3>1. n + 1 \notin 1 .. n
      OBVIOUS
    <3> QED BY <3>1
  <2>3. \A z \in B : \E x \in A : m[x] = z
    BY Zenon
  <2> HIDE DEF m, A, B
  <2> QED BY <1>2, <2>1, <2>2, <2>3, OneToOne, Zenon
<1>6. A \cap B = {} /\ A \cup B = SUBSET (1 .. n + 1)
  <2>1. n + 1 \notin 1 .. n /\ 1 .. n + 1 = (1 .. n) \cup {n + 1}
    OBVIOUS
  <2>2. A \cap B = {}
    BY <2>1
  <2>3. A \cup B \in SUBSET (SUBSET (1 .. n + 1))
    BY <2>1
  <2>4. ASSUME NEW s \in SUBSET (1 .. n + 1) PROVE s \in A \cup B
    <3>1. CASE n + 1 \in s
      <4>1. s \ {n + 1} \in A /\ s = (s \ {n + 1}) \cup {n + 1}
        BY <2>1, <3>1
      <4> QED BY <4>1, Zenon
    <3>2. CASE n + 1 \notin s
      BY <2>1, <3>2
    <3> QED BY <3>1, <3>2
  <2> HIDE DEF A, B
  <2> QED BY <2>2, <2>3, <2>4
<1>7. Cardinality(A \cup B) = Cardinality(A) + Cardinality(B) - Cardinality(A \cap B)
  <2> HIDE DEF A, B
  <2> QED BY <1>2, <1>5, FS_Union, Zenon
<1>8. 2 ^ (n + 1) = 2 ^ n + 2 ^ n - 0
  <2>1. n + 1 \in Nat
    OBVIOUS
  <2> HIDE DEF A, B
  <2> QED BY <1>1, <1>2, <1>5, <1>6, <1>7, <2>1, FS_EmptySet, Zenon
<1>9. 2 ^ (n + 1) = 2 * 2 ^ n
  <2> DEFINE x == 2 ^ n
             y == 2 ^ (n + 1)
  <2>1. x \in Nat /\ y = x + x - 0
    BY <1>2, <1>8
  <2> HIDE DEF x, y
  <2>2. y = 2 * x
    BY <2>1
  <2> QED BY <2>2 DEF x, y
<1> QED BY <1>2, <1>3, <1>4, <1>9, Zenon

(* Exponents add up.                                                       *)
LEMMA PowersMultiply ==
  ASSUME NEW a \in Nat, NEW b \in Nat
  PROVE  2 ^ (a + b) = 2 ^ a * 2 ^ b
<1> DEFINE bad == {k \in Nat : 2 ^ (a + k) # 2 ^ a * 2 ^ k}
<1> SUFFICES ASSUME bad # {} PROVE FALSE
  OBVIOUS
<1>1. PICK k \in bad : \A m \in bad : k <= m
  <2>1. bad \in SUBSET Nat
    OBVIOUS
  <2> HIDE DEF bad
  <2> QED BY <2>1, Smallest
<1>2. k \in Nat /\ 2 ^ (a + k) # 2 ^ a * 2 ^ k
  OBVIOUS
<1>3. CASE k = 0
  <2> DEFINE x == 2 ^ a
  <2>1. x \in Nat /\ 2 ^ 0 = 1 /\ a + 0 = a
    BY PowerOfTwo
  <2>2. x * 1 = x
    BY <2>1
  <2> QED BY <1>2, <1>3, <2>1, <2>2
<1>4. CASE k # 0
  <2>1. k - 1 \in Nat /\ (k - 1) + 1 = k /\ ~(k <= k - 1) /\ (a + (k - 1)) + 1 = a + k /\ a + (k - 1) \in Nat
    BY <1>2, <1>4
  <2>2. 2 ^ (a + (k - 1)) = 2 ^ a * 2 ^ (k - 1)
    BY <1>1, <2>1
  <2>3. 2 ^ (a + k) = 2 * 2 ^ (a + (k - 1)) /\ 2 ^ k = 2 * 2 ^ (k - 1)
    BY <2>1, PowerOfTwo
  <2>4. 2 ^ a \in Nat /\ 2 ^ (k - 1) \in Nat
    BY <2>1, PowerOfTwo
  <2>5. \A x \in Nat : \A y \in Nat : 2 * (x * y) = x * (2 * y)
    OBVIOUS
  <2>6. 2 * (2 ^ a * 2 ^ (k - 1)) = 2 ^ a * (2 * 2 ^ (k - 1))
    BY <2>4, <2>5, Zenon
  <2>7. 2 ^ (a + k) = 2 ^ a * 2 ^ k
    BY <2>2, <2>3, <2>6, Zenon
  <2> QED BY <1>2, <2>7, Zenon
<1> QED BY <1>3, <1>4

(* What two folds over a set make is the same when they start with the     *)
(* same and each set has an element that adds the same to both.            *)
LEMMA FoldsAgree ==
  ASSUME NEW T, IsFiniteSet(T), NEW H, NEW G, H[{}] = G[{}],
         \A s \in SUBSET T : s # {} => \E x \in s : H[s \ {x}] = G[s \ {x}] => H[s] = G[s]
  PROVE  H[T] = G[T]
<1> DEFINE bad == {s \in SUBSET T : H[s] # G[s]}
           R == StrictSubsetOrdering(T)
<1> SUFFICES ASSUME bad # {} PROVE FALSE
  OBVIOUS
<1>1. IsWellFoundedOn(R, SUBSET T)
  BY FS_StrictSubsetOrderingWellFounded, FS_FiniteSubsetsOfFinite, Zenon
<1>2. PICK s \in bad : \A u \in bad : ~(<<u, s>> \in R)
  <2>1. bad \subseteq SUBSET T
    OBVIOUS
  <2> HIDE DEF bad, R
  <2> QED BY <1>1, <2>1, WFMin, Zenon
<1>3. s \in SUBSET T /\ s # {} /\ H[s] # G[s]
  OBVIOUS
<1>4. PICK x \in s : H[s \ {x}] = G[s \ {x}] => H[s] = G[s]
  BY <1>3
<1>5. s \ {x} \in SUBSET T /\ <<s \ {x}, s>> \in R
  BY <1>3 DEF StrictSubsetOrdering
<1>6. H[s \ {x}] = G[s \ {x}]
  BY <1>2, <1>5
<1> QED BY <1>3, <1>4, <1>6

(* A factor common to all values is one of the sum.                        *)
LEMMA SumTimes ==
  ASSUME NEW T, IsFiniteSet(T), NEW f, NEW g, NEW d \in Nat,
         \A x \in T : f[x] \in Nat /\ g[x] = d * f[x]
  PROVE  SumFunctionOnSet(g, T) = d * SumFunctionOnSet(f, T)
<1> DEFINE H == [s \in SUBSET T |-> SumFunctionOnSet(g, s)]
           G == [s \in SUBSET T |-> d * SumFunctionOnSet(f, s)]
<1>0. \A x \in T : f[x] \in Nat /\ g[x] \in Nat
  OBVIOUS
<1>1. H[{}] = G[{}]
  <2>1. {} \in SUBSET T /\ d * 0 = 0
    OBVIOUS
  <2> QED BY <2>1, SumEmpty, Zenon
<1>2. ASSUME NEW s \in SUBSET T, NEW x \in s, H[s \ {x}] = G[s \ {x}]
      PROVE  H[s] = G[s]
  <2>1. IsFiniteSet(s) /\ IsFiniteSet(s \ {x})
    BY FS_Subset, FS_RemoveElement, Zenon
  <2>2. SumFunctionOnSet(g, s) = g[x] + SumFunctionOnSet(g, s \ {x})
    BY <1>0, <2>1, SumStep, Zenon
  <2>3. SumFunctionOnSet(f, s) = f[x] + SumFunctionOnSet(f, s \ {x})
    BY <1>0, <2>1, SumStep, Zenon
  <2>4. SumFunctionOnSet(f, s \ {x}) \in Nat
    BY <1>0, <2>1, SumNat, Zenon
  <2>5. SumFunctionOnSet(g, s \ {x}) = d * SumFunctionOnSet(f, s \ {x})
    BY <1>2, Zenon
  <2>6. f[x] \in Nat /\ g[x] = d * f[x]
    OBVIOUS
  <2>7. \A a \in Nat : \A b \in Nat : d * a + d * b = d * (a + b)
    OBVIOUS
  <2>8. SumFunctionOnSet(g, s) = d * SumFunctionOnSet(f, s)
    BY <2>2, <2>3, <2>4, <2>5, <2>6, <2>7, Zenon
  <2> QED BY <2>8, Zenon
<1> HIDE DEF H, G
<1>3. H[T] = G[T]
  <2>1. \A s \in SUBSET T : s # {} => \E x \in s : H[s \ {x}] = G[s \ {x}] => H[s] = G[s]
    BY <1>2
  <2> QED BY <1>1, <2>1, FoldsAgree, Zenon
<1> QED BY <1>3, Zenon DEF H, G

(* The sum over disjoint sets is the sum of the sums over each.            *)
LEMMA SumTiles ==
  ASSUME NEW T, IsFiniteSet(T), NEW S, \A k \in T : IsFiniteSet(S[k]),
         \A j, k \in T : j # k => S[j] \cap S[k] = {},
         NEW f, \A k \in T : \A x \in S[k] : f[x] \in Nat
  PROVE  /\ IsFiniteSet(UNION {S[k] : k \in T})
         /\ SumFunctionOnSet([k \in T |-> SumFunctionOnSet(f, S[k])], T)
              = SumFunctionOnSet(f, UNION {S[k] : k \in T})
<1> DEFINE h == [k \in T |-> SumFunctionOnSet(f, S[k])]
           All(s) == UNION {S[k] : k \in s}
           H == [s \in SUBSET T |-> SumFunctionOnSet(h, s)]
           G == [s \in SUBSET T |-> SumFunctionOnSet(f, All(s))]
<1>1. \A k \in T : h[k] \in Nat
  BY SumNat, Zenon
<1>2. ASSUME NEW s \in SUBSET T
      PROVE  IsFiniteSet(All(s)) /\ \A x \in All(s) : f[x] \in Nat
  <2>1. IsFiniteSet(s)
    BY FS_Subset, Zenon
  <2> DEFINE m == [k \in s |-> S[k]]
             U == {S[k] : k \in s}
  <2>2. m \in Surjection(s, U)
    BY Zenon DEF Surjection
  <2>3. IsFiniteSet(U)
    <3> HIDE DEF m, U
    <3> QED BY <2>1, <2>2, FS_Surjection, Zenon
  <2>4. \A u \in U : IsFiniteSet(u)
    BY Zenon
  <2>5. IsFiniteSet(UNION U)
    <3> HIDE DEF U
    <3> QED BY <2>3, <2>4, FS_UNION, Zenon
  <2> QED BY <2>5
<1>3. H[{}] = G[{}]
  <2>1. {} \in SUBSET T /\ All({}) = {}
    OBVIOUS
  <2> QED BY <2>1, SumEmpty, Zenon
<1>4. ASSUME NEW s \in SUBSET T, NEW x \in s, H[s \ {x}] = G[s \ {x}]
      PROVE  H[s] = G[s]
  <2>1. IsFiniteSet(s) /\ s \ {x} \in SUBSET T /\ x \in T
    BY FS_Subset, Zenon
  <2>2. SumFunctionOnSet(h, s) = h[x] + SumFunctionOnSet(h, s \ {x})
    <3>1. \A k \in s : h[k] \in Nat
      BY <1>1
    <3> HIDE DEF h
    <3> QED BY <2>1, <3>1, SumStep, Zenon
  <2>3. S[x] \cap All(s \ {x}) = {} /\ All(s) = S[x] \cup All(s \ {x})
    OBVIOUS
  <2>4. SumFunctionOnSet(f, S[x] \cup All(s \ {x}))
          = SumFunctionOnSet(f, S[x]) + SumFunctionOnSet(f, All(s \ {x}))
    <3>1. IsFiniteSet(S[x]) /\ IsFiniteSet(All(s \ {x})) /\ \A y \in S[x] \cup All(s \ {x}) : f[y] \in Nat
      BY <1>2, <2>1
    <3> HIDE DEF All
    <3> QED BY <2>3, <3>1, SumDisjoint, Zenon
  <2>5. SumFunctionOnSet(h, s \ {x}) = SumFunctionOnSet(f, All(s \ {x}))
    <3> HIDE DEF h, All
    <3> QED BY <1>4, <2>1, Zenon
  <2>6. h[x] = SumFunctionOnSet(f, S[x])
    BY <2>1
  <2>7. SumFunctionOnSet(h, s) = SumFunctionOnSet(f, All(s))
    <3> HIDE DEF h, All
    <3> QED BY <2>2, <2>3, <2>4, <2>5, <2>6, Zenon
  <2> HIDE DEF h, All
  <2> QED BY <2>7, Zenon
<1> HIDE DEF H, G
<1>5. H[T] = G[T]
  <2>1. \A s \in SUBSET T : s # {} => \E x \in s : H[s \ {x}] = G[s \ {x}] => H[s] = G[s]
    BY <1>4
  <2> QED BY <1>3, <2>1, FoldsAgree, Zenon
<1>6. SumFunctionOnSet(h, T) = SumFunctionOnSet(f, All(T))
  <2> HIDE DEF h, All
  <2> QED BY <1>5, Zenon DEF H, G
<1> QED BY <1>2, <1>6

-----------------------------------------------------------------------------
(* Partial softmaxes                                                       *)

(* Cells whose scores are in range, the largest score of them, their       *)
(* weights relative to a maximum, and the partial softmax they make.       *)
Scored(head, cells) ==
  IsFiniteSet(cells) /\ \A c \in cells : Score(head, c[1]) \in 0 .. MaxScore

TopOf(head, cells) == Max({NoScore} \cup {Score(head, c[1]) : c \in cells})

Unit(max) == 2 ^ (MaxScore - max)

BagOf(head, cells, max) == [c \in cells |-> Unit(max) * 2 ^ Score(head, c[1])]

Mass(head, cells, max) == SumFunctionOnSet(BagOf(head, cells, max), cells)

PartOf(head, cells) ==
  LET top == TopOf(head, cells)
  IN  [max |-> top, sum |-> Mass(head, cells, top), acc |-> BagOf(head, cells, top)]

(* A number of the set that is not below any other is the maximum.         *)
LEMMA MaxIs ==
  ASSUME NEW S \in SUBSET Int, NEW x \in S, \A y \in S : x >= y
  PROVE  Max(S) = x
<1>1. Max(S) \in S /\ \A y \in S : Max(S) >= y
  BY Zenon DEF Max
<1>2. Max(S) >= x /\ x >= Max(S) /\ Max(S) \in Int /\ x \in Int
  BY <1>1
<1> QED BY <1>2

(* The largest score of no cells is NoScore.                               *)
LEMMA TopIs ==
  ASSUME NEW head, NEW cells, Scored(head, cells)
  PROVE  LET top == TopOf(head, cells) IN
         /\ top \in -1 .. MaxScore
         /\ \A c \in cells : Score(head, c[1]) <= top
         /\ cells # {} => top \in 0 .. MaxScore
         /\ top = -1 \/ \E c \in cells : Score(head, c[1]) = top
<1> DEFINE scores == {Score(head, c[1]) : c \in cells}
<1>1. MaxScore \in Nat /\ \A c \in cells : Score(head, c[1]) \in 0 .. MaxScore
  BY AttentionAssumption, Zenon DEF Scored
<1>2. CASE cells = {}
  <2>1. Max({NoScore}) = -1
    <3>1. {-1} \in SUBSET Int /\ -1 >= -1
      OBVIOUS
    <3> QED BY <3>1, MaxIs DEF NoScore
  <2>2. {NoScore} \cup scores = {NoScore}
    BY <1>2
  <2>3. TopOf(head, cells) = -1
    BY <2>1, <2>2, Zenon DEF TopOf
  <2> QED BY <1>1, <1>2, <2>3
<1>3. CASE cells # {}
  <2>1. scores \in SUBSET Nat /\ scores # {} /\ \A s \in scores : s <= MaxScore
    BY <1>1, <1>3
  <2> HIDE DEF scores
  <2>2. PICK m \in scores : \A s \in scores : s <= m
    BY <1>1, <2>1, Largest
  <2>3. Max({NoScore} \cup scores) = m
    <3>1. {NoScore} \cup scores \in SUBSET Int /\ \A y \in {NoScore} \cup scores : m >= y
      BY <2>1, <2>2 DEF NoScore
    <3> QED BY <3>1, <2>2, MaxIs
  <2>4. TopOf(head, cells) = m
    BY <2>3 DEF TopOf, scores
  <2>5. m \in 0 .. MaxScore
    BY <1>1, <2>1
  <2> USE DEF scores
  <2> QED BY <1>1, <2>2, <2>4, <2>5
<1> QED BY <1>2, <1>3

(* Units and weights are powers of two.                                    *)
LEMMA UnitIs ==
  ASSUME NEW max \in -1 .. MaxScore
  PROVE  /\ Unit(max) \in Nat \ {0}
         /\ \A s \in 0 .. MaxScore :
              /\ 2 ^ s \in Nat \ {0}
              /\ s <= max => Weight(s, max) = Unit(max) * 2 ^ s
         /\ \A old \in 0 .. MaxScore : old <= max => Unit(old) = Unit(max) * 2 ^ (max - old)
<1>1. MaxScore \in Nat /\ MaxScore - max \in Nat
  BY AttentionAssumption
<1>2. Unit(max) \in Nat \ {0}
  BY <1>1, PowerOfTwo DEF Unit
<1>3. ASSUME NEW s \in 0 .. MaxScore PROVE 2 ^ s \in Nat \ {0}
  BY <1>1, PowerOfTwo
<1>4. ASSUME NEW s \in 0 .. MaxScore, s <= max PROVE Weight(s, max) = Unit(max) * 2 ^ s
  <2>1. MaxScore - (max - s) = (MaxScore - max) + s /\ s \in Nat
    BY <1>1, <1>4
  <2>2. 2 ^ ((MaxScore - max) + s) = 2 ^ (MaxScore - max) * 2 ^ s
    BY <1>1, <2>1, PowersMultiply
  <2> QED BY <2>1, <2>2, Zenon DEF Weight, Unit
<1>5. ASSUME NEW old \in 0 .. MaxScore, old <= max PROVE Unit(old) = Unit(max) * 2 ^ (max - old)
  <2>1. MaxScore - old = (MaxScore - max) + (max - old) /\ max - old \in Nat
    BY <1>1, <1>5
  <2>2. 2 ^ ((MaxScore - max) + (max - old)) = 2 ^ (MaxScore - max) * 2 ^ (max - old)
    BY <1>1, <2>1, PowersMultiply
  <2> QED BY <2>1, <2>2, Zenon DEF Unit
<1> QED BY <1>2, <1>3, <1>4, <1>5

(* Scaling to a larger maximum is exact.                                   *)
LEMMA Rescaled ==
  ASSUME NEW new \in 0 .. MaxScore, NEW old \in 0 .. MaxScore, old <= new, NEW x \in Nat
  PROVE  Scaled(Unit(old) * x, old, new) = Unit(new) * x
<1>1. new \in -1 .. MaxScore /\ new - old \in Nat /\ old # -1
  BY AttentionAssumption
<1> DEFINE u == Unit(new)
           e == 2 ^ (new - old)
<1>2. u \in Nat /\ Unit(old) = u * e
  BY <1>1, UnitIs
<1>3. e \in Nat \ {0}
  BY <1>1, PowerOfTwo
<1> HIDE DEF u, e
<1>4. u * e * x = e * (u * x) /\ u * x \in Nat
  BY <1>2, <1>3
<1>5. \A y \in Nat : (e * y) \div e = y
  BY <1>3
<1>6. (Unit(old) * x) \div e = u * x
  BY <1>2, <1>4, <1>5, Zenon
<1> QED BY <1>1, <1>6, Zenon DEF Scaled, NoScore, u, e

(* The weights of a bag and their sum.                                     *)
LEMMA BagIs ==
  ASSUME NEW head, NEW cells, Scored(head, cells), NEW max \in -1 .. MaxScore
  PROVE  /\ \A c \in cells : BagOf(head, cells, max)[c] = Unit(max) * 2 ^ Score(head, c[1])
         /\ \A c \in cells : BagOf(head, cells, max)[c] \in Nat /\ 2 ^ Score(head, c[1]) \in Nat
         /\ SumFunctionOnSet([c \in cells |-> 2 ^ Score(head, c[1])], cells) \in Nat
         /\ Mass(head, cells, max)
              = Unit(max) * SumFunctionOnSet([c \in cells |-> 2 ^ Score(head, c[1])], cells)
<1> DEFINE f == [c \in cells |-> 2 ^ Score(head, c[1])]
           g == BagOf(head, cells, max)
<1>1. \A c \in cells : g[c] = Unit(max) * f[c] /\ f[c] = 2 ^ Score(head, c[1])
  BY DEF BagOf
<1>2. Unit(max) \in Nat /\ IsFiniteSet(cells)
  BY UnitIs DEF Scored
<1>3. \A c \in cells : f[c] \in Nat
  BY UnitIs DEF Scored
<1> HIDE DEF f, g
<1>4. \A a, b \in Nat : a * b \in Nat
  OBVIOUS
<1>5. \A c \in cells : g[c] \in Nat
  BY <1>1, <1>2, <1>3, <1>4, Zenon
<1>6. SumFunctionOnSet(f, cells) \in Nat
  BY <1>2, <1>3, SumNat, Zenon
<1>7. SumFunctionOnSet(g, cells) = Unit(max) * SumFunctionOnSet(f, cells)
  BY <1>1, <1>2, <1>3, SumTimes, Zenon
<1> USE DEF Mass
<1> QED BY <1>1, <1>3, <1>5, <1>6, <1>7, Zenon DEF f, g

(* A partial softmax scaled to a larger maximum.                           *)
LEMMA PartScales ==
  ASSUME NEW head, NEW cells, Scored(head, cells), NEW max \in -1 .. MaxScore, TopOf(head, cells) <= max
  PROVE  LET p == PartOf(head, cells) IN
         /\ ScaledBag(p.acc, p.max, max) = BagOf(head, cells, max)
         /\ Scaled(p.sum, p.max, max) = Mass(head, cells, max)
<1> DEFINE top == TopOf(head, cells)
           p == PartOf(head, cells)
<1>1. p.max = top /\ p.sum = Mass(head, cells, top) /\ p.acc = BagOf(head, cells, top)
  BY Zenon DEF PartOf
<1>2. top \in -1 .. MaxScore /\ (cells # {} => top \in 0 .. MaxScore)
  BY TopIs
<1>3. DOMAIN p.acc = cells
  BY <1>1 DEF BagOf
<1>4. CASE cells = {}
  <2>1. top = -1
    BY <1>2, <1>4, TopIs
  <2>2. Scaled(p.sum, p.max, max) = 0
    BY <1>1, <2>1 DEF Scaled, NoScore
  <2>3. Mass(head, cells, max) = 0
    BY <1>4, SumEmpty, Zenon DEF Mass
  <2>4. ScaledBag(p.acc, p.max, max) = BagOf(head, cells, max)
    <3> HIDE DEF p
    <3> QED BY <1>3, <1>4 DEF ScaledBag, BagOf
  <2> QED BY <2>2, <2>3, <2>4
<1>5. CASE cells # {}
  <2>1. top \in 0 .. MaxScore /\ max \in 0 .. MaxScore /\ top <= max
    BY <1>2, <1>5
  <2>2. ASSUME NEW x \in Nat PROVE Scaled(Unit(top) * x, top, max) = Unit(max) * x
    BY <2>1, Rescaled
  <2>3. /\ \A c \in cells : /\ BagOf(head, cells, top)[c] = Unit(top) * 2 ^ Score(head, c[1])
                            /\ BagOf(head, cells, max)[c] = Unit(max) * 2 ^ Score(head, c[1])
                            /\ 2 ^ Score(head, c[1]) \in Nat
    BY <1>2, BagIs
  <2>4. \E x \in Nat : Mass(head, cells, top) = Unit(top) * x /\ Mass(head, cells, max) = Unit(max) * x
    <3> DEFINE x == SumFunctionOnSet([c \in cells |-> 2 ^ Score(head, c[1])], cells)
    <3>1. x \in Nat /\ Mass(head, cells, top) = Unit(top) * x /\ Mass(head, cells, max) = Unit(max) * x
      BY <1>2, BagIs
    <3> HIDE DEF x
    <3> QED BY <3>1
  <2>5. Scaled(p.sum, p.max, max) = Mass(head, cells, max)
    BY <1>1, <2>2, <2>4, Zenon
  <2>6. ScaledBag(p.acc, p.max, max) = [c \in cells |-> Scaled(BagOf(head, cells, top)[c], top, max)]
    BY <1>1, <1>3, Zenon DEF ScaledBag
  <2>7. \A c \in cells : Scaled(BagOf(head, cells, top)[c], top, max) = BagOf(head, cells, max)[c]
    BY <2>2, <2>3, Zenon
  <2>8. BagOf(head, cells, max) = [c \in cells |-> BagOf(head, cells, max)[c]]
    BY DEF BagOf
  <2>9. ScaledBag(p.acc, p.max, max) = BagOf(head, cells, max)
    BY <2>6, <2>7, <2>8, Zenon
  <2> QED BY <2>5, <2>9
<1> QED BY <1>4, <1>5

(* What a bag holds of one of its cells.                                   *)
LEMMA BagValues ==
  ASSUME NEW head, NEW cells, Scored(head, cells), NEW max \in -1 .. MaxScore, NEW c \in cells
  PROVE  BagOf(head, cells, max)[c] = Unit(max) * 2 ^ Score(head, c[1]) /\ BagOf(head, cells, max)[c] \in Nat
<1>1. /\ \A d \in cells : BagOf(head, cells, max)[d] = Unit(max) * 2 ^ Score(head, d[1])
      /\ \A d \in cells : BagOf(head, cells, max)[d] \in Nat /\ 2 ^ Score(head, d[1]) \in Nat
  BY BagIs
<1> QED BY <1>1, Zenon

(* Bags of different cells add up, and so do their sums.                   *)
LEMMA BagsAdd ==
  ASSUME NEW head, NEW A, Scored(head, A), NEW B, Scored(head, B), A \cap B = {},
         NEW max \in -1 .. MaxScore
  PROVE  /\ Scored(head, A \cup B)
         /\ BagOf(head, A, max) (+) BagOf(head, B, max) = BagOf(head, A \cup B, max)
         /\ Mass(head, A, max) + Mass(head, B, max) = Mass(head, A \cup B, max)
<1> DEFINE a == BagOf(head, A, max)
           b == BagOf(head, B, max)
           ab == BagOf(head, A \cup B, max)
<1>1. Scored(head, A \cup B)
  BY FS_Union, Zenon DEF Scored
<1>2. DOMAIN a = A /\ DOMAIN b = B /\ DOMAIN ab = A \cup B
  BY DEF BagOf
<1>3. /\ \A c \in A : a[c] \in Nat /\ ab[c] = a[c]
      /\ \A c \in B : b[c] \in Nat /\ ab[c] = b[c]
      /\ \A c \in A \cup B : ab[c] \in Nat
  <2>1. \A c \in A : a[c] = Unit(max) * 2 ^ Score(head, c[1]) /\ a[c] \in Nat
    BY BagValues, Zenon
  <2>2. \A c \in B : b[c] = Unit(max) * 2 ^ Score(head, c[1]) /\ b[c] \in Nat
    BY BagValues, Zenon
  <2>3. \A c \in A \cup B : ab[c] = Unit(max) * 2 ^ Score(head, c[1]) /\ ab[c] \in Nat
    BY <1>1, BagValues, Zenon
  <2> HIDE DEF a, b, ab
  <2> QED BY <2>1, <2>2, <2>3, Zenon
<1>4. ab = [c \in A \cup B |-> ab[c]]
  BY DEF BagOf
<1> HIDE DEF a, b, ab
<1>5. a (+) b = ab
  <2>1. a (+) b = [c \in A \cup B |-> (IF c \in A THEN a[c] ELSE 0) + (IF c \in B THEN b[c] ELSE 0)]
    BY <1>2 DEF (+)
  <2>2. ASSUME NEW c \in A \cup B
        PROVE  (IF c \in A THEN a[c] ELSE 0) + (IF c \in B THEN b[c] ELSE 0) = ab[c]
    BY <1>3
  <2> QED BY <1>4, <2>1, <2>2, Zenon
<1>6. SumFunctionOnSet(a, A) + SumFunctionOnSet(b, B) = SumFunctionOnSet(ab, A \cup B)
  <2>1. IsFiniteSet(A) /\ IsFiniteSet(B)
    BY DEF Scored
  <2>2. SumFunctionOnSet(ab, A \cup B) = SumFunctionOnSet(ab, A) + SumFunctionOnSet(ab, B)
    BY <1>3, <2>1, SumDisjoint, Zenon
  <2>3. SumFunctionOnSet(a, A) = SumFunctionOnSet(ab, A)
    BY <1>3, <2>1, SumSame, Zenon
  <2>4. SumFunctionOnSet(b, B) = SumFunctionOnSet(ab, B)
    BY <1>3, <2>1, SumSame, Zenon
  <2> QED BY <2>2, <2>3, <2>4, Zenon
<1> QED BY <1>1, <1>5, <1>6, Zenon DEF a, b, ab, Mass

(* The cells of a block that is read: n different ones.                    *)
CellsRead(read) == {read[i] : i \in DOMAIN read}

ReadsOnce(head, read) ==
  /\ \E n \in Nat : DOMAIN read = 1 .. n
  /\ \A i, j \in DOMAIN read : read[i] = read[j] => i = j
  /\ \A i \in DOMAIN read : Score(head, read[i][1]) \in 0 .. MaxScore

(* The cells of some slots of a block.                                     *)
LEMMA ReadIsScored ==
  ASSUME NEW head, NEW read, ReadsOnce(head, read), NEW s \in SUBSET DOMAIN read
  PROVE  Scored(head, {read[i] : i \in s}) /\ IsFiniteSet(s)
<1>1. IsFiniteSet(s)
  <2>1. PICK n \in Nat : DOMAIN read = 1 .. n
    BY DEF ReadsOnce
  <2>2. 1 \in Int /\ n \in Int
    OBVIOUS
  <2>3. IsFiniteSet(1 .. n)
    BY <2>2, FS_Interval, Zenon
  <2> QED BY <2>1, <2>3, FS_Subset, Zenon
<1>2. IsFiniteSet({read[i] : i \in s})
  <2> DEFINE m == [i \in s |-> read[i]]
             U == {read[i] : i \in s}
  <2>1. m \in Surjection(s, U)
    BY Zenon DEF Surjection
  <2> HIDE DEF m, U
  <2>2. IsFiniteSet(U)
    BY <1>1, <2>1, FS_Surjection, Zenon
  <2> QED BY <2>2 DEF U
<1>3. \A c \in {read[i] : i \in s} : Score(head, c[1]) \in 0 .. MaxScore
  BY Zenon DEF ReadsOnce
<1> QED BY <1>1, <1>2, <1>3 DEF Scored

(* The maximum of some positions is one of them.                           *)
LEMMA MaxIn ==
  ASSUME NEW n \in Nat, NEW s \in SUBSET (1 .. n), s # {}
  PROVE  Max(s) \in s
<1>1. s \in SUBSET Nat /\ \A x \in s : x <= n
  OBVIOUS
<1>2. PICK x \in s : \A y \in s : y <= x
  BY <1>1, Largest
<1>3. \A y \in s : x >= y
  BY <1>1, <1>2
<1> QED BY <1>3, Zenon DEF Max

(* Absorb, with the new maximum given.                                     *)
Grown(base, read, weight) ==
  FoldLeftDomain(LAMBDA bag, i : bag (+) [t \in {read[i]} |-> weight[i]], base, read)

AbsorbedAt(part, head, read, new) ==
  LET weight == [i \in DOMAIN read |-> Weight(Score(head, read[i][1]), new)]
  IN  [max |-> new,
       sum |-> Scaled(part.sum, part.max, new) + SumFunction(weight),
       acc |-> Grown(ScaledBag(part.acc, part.max, new), read, weight)]

(* Adding the cells of a block to a bag, one after the other.              *)
LEMMA BagGrows ==
  ASSUME NEW head, NEW C, Scored(head, C), NEW read, ReadsOnce(head, read), C \cap CellsRead(read) = {},
         NEW max \in -1 .. MaxScore, TopOf(head, CellsRead(read)) <= max,
         NEW weight, weight = [i \in DOMAIN read |-> Weight(Score(head, read[i][1]), max)]
  PROVE  Grown(BagOf(head, C, max), read, weight) = BagOf(head, C \cup CellsRead(read), max)
<1> DEFINE T == DOMAIN read
           base == BagOf(head, C, max)
           seq == [i \in T |-> i]
           step(bag, i) == bag (+) [t \in {read[i]} |-> weight[i]]
           Unfold(g) == [s \in SUBSET T |-> IF s = {} THEN base ELSE step(g[s \ {Max(s)}], seq[Max(s)])]
           Taken(s) == {read[i] : i \in s}
           G == [s \in SUBSET T |-> BagOf(head, C \cup Taken(s), max)]
           H == CHOOSE g : g = Unfold(g)
<1>1. PICK n \in Nat : T = 1 .. n
  BY DEF ReadsOnce
<1>2. IsFiniteSet(T) /\ \A s \in SUBSET T : Scored(head, Taken(s))
  BY ReadIsScored
<1>3. ASSUME NEW s \in SUBSET T, s # {} PROVE Max(s) \in s
  BY <1>1, <1>3, MaxIn
<1>4. ASSUME NEW s \in SUBSET T, NEW x \in s
      PROVE  step(BagOf(head, C \cup Taken(s \ {x}), max), seq[x]) = BagOf(head, C \cup Taken(s), max)
  <2> DEFINE B == {read[x]}
             A == C \cup Taken(s \ {x})
  <2>1. x \in T /\ seq[x] = x /\ s \ {x} \in SUBSET T
    OBVIOUS
  <2>2. Scored(head, B)
    <3>1. Scored(head, Taken({x})) /\ Taken({x}) = B
      BY <1>2, <2>1
    <3> QED BY <3>1
  <2>3. C \cap Taken(s \ {x}) = {} /\ A \cap B = {} /\ A \cup B = C \cup Taken(s)
    <3>1. \A i \in s \ {x} : read[i] # read[x]
      BY <2>1 DEF ReadsOnce
    <3>2. read[x] \in CellsRead(read) /\ Taken(s \ {x}) \in SUBSET CellsRead(read)
      BY <2>1 DEF CellsRead
    <3>3. Taken(s) = Taken(s \ {x}) \cup B
      OBVIOUS
    <3> HIDE DEF Taken
    <3>4. read[x] \notin Taken(s \ {x})
      BY <3>1 DEF Taken
    <3> QED BY <3>2, <3>3, <3>4
  <2>4. Scored(head, A)
    <3> HIDE DEF Taken
    <3> QED BY <1>2, <2>1, <2>3, BagsAdd, Zenon
  <2>5. [t \in B |-> weight[x]] = BagOf(head, B, max)
    <3>1. TopOf(head, CellsRead(read)) >= Score(head, read[x][1]) /\ Score(head, read[x][1]) \in 0 .. MaxScore
      <4>1. read[x] \in CellsRead(read) /\ Scored(head, CellsRead(read))
        BY <2>1, ReadIsScored DEF CellsRead
      <4>2. Score(head, read[x][1]) <= TopOf(head, CellsRead(read)) /\ TopOf(head, CellsRead(read)) \in Int
        BY <4>1, TopIs
      <4> QED BY <4>1, <4>2 DEF Scored
    <3>2. TopOf(head, CellsRead(read)) \in Int
      <4>1. Scored(head, CellsRead(read))
        BY ReadIsScored DEF CellsRead
      <4> QED BY <4>1, TopIs
    <3>3. Score(head, read[x][1]) <= max
      <4> DEFINE sc == Score(head, read[x][1])
                 tp == TopOf(head, CellsRead(read))
      <4>1. tp >= sc /\ tp <= max /\ sc \in 0 .. MaxScore /\ tp \in Int
        BY <3>1, <3>2
      <4> HIDE DEF sc, tp
      <4>2. sc <= max
        BY <4>1
      <4> QED BY <4>2 DEF sc
    <3>4. Weight(Score(head, read[x][1]), max) = Unit(max) * 2 ^ Score(head, read[x][1])
      BY <3>1, <3>3, UnitIs
    <3>5. weight[x] = Unit(max) * 2 ^ Score(head, read[x][1])
      BY <2>1, <3>4, Zenon
    <3> QED BY <3>5, Zenon DEF BagOf
  <2> HIDE DEF A, B, Taken
  <2>6. BagOf(head, A, max) (+) BagOf(head, B, max) = BagOf(head, A \cup B, max)
    <3>1. A \cap B = {}
      BY <2>3
    <3> QED BY <2>2, <2>4, <3>1, BagsAdd
  <2> QED BY <2>1, <2>3, <2>5, <2>6, Zenon DEF A, B
<1>5. G = Unfold(G)
  <2>1. ASSUME NEW s \in SUBSET T PROVE G[s] = Unfold(G)[s]
    <3>1. CASE s = {}
      <4>1. C \cup Taken({}) = C
        OBVIOUS
      <4> HIDE DEF Taken
      <4> QED BY <3>1, <4>1
    <3>2. CASE s # {}
      <4>1. Max(s) \in s
        BY <1>3, <3>2
      <4>2. s \ {Max(s)} \in SUBSET T
        OBVIOUS
      <4> HIDE DEF Taken, step, seq
      <4>3. step(BagOf(head, C \cup Taken(s \ {Max(s)}), max), seq[Max(s)]) = BagOf(head, C \cup Taken(s), max)
        BY <1>4, <4>1, Zenon
      <4> QED BY <3>2, <4>2, <4>3, Zenon
    <3> QED BY <3>1, <3>2, Zenon
  <2> HIDE DEF Taken, step, seq
  <2> QED BY <2>1, Zenon
<1>6. H = Unfold(H)
  <2> HIDE DEF G, Unfold
  <2> QED BY <1>5, Zenon
<1>7. Grown(base, read, weight) = H[T]
  <2>1. DOMAIN seq = T
    OBVIOUS
  <2> QED BY <2>1, Zenon DEF Grown, FoldLeftDomain, FoldLeft, MapThenFoldSet
<1>8. H[T] = G[T]
  <2> HIDE DEF H, G, Unfold
  <2>1. H[{}] = G[{}]
    <3>1. {} \in SUBSET T
      OBVIOUS
    <3>2. \A g : Unfold(g)[{}] = base
      BY <3>1, Zenon DEF Unfold
    <3> QED BY <1>5, <1>6, <3>2, Zenon
  <2>2. ASSUME NEW s \in SUBSET T, s # {}
        PROVE  \E x \in s : H[s \ {x}] = G[s \ {x}] => H[s] = G[s]
    <3>1. Max(s) \in s
      BY <1>3, <2>2
    <3>2. \A g : Unfold(g)[s] = step(g[s \ {Max(s)}], seq[Max(s)])
      BY <2>2, Zenon DEF Unfold
    <3> HIDE DEF step, seq
    <3>3. H[s \ {Max(s)}] = G[s \ {Max(s)}] => H[s] = G[s]
      BY <1>5, <1>6, <3>2, Zenon
    <3> QED BY <3>1, <3>3, Zenon
  <2> QED BY <1>2, <2>1, <2>2, FoldsAgree, Zenon
<1>9. G[T] = BagOf(head, C \cup CellsRead(read), max)
  BY DEF CellsRead
<1> HIDE DEF H, G
<1> QED BY <1>7, <1>8, <1>9

(* Absorbing a block adds its cells to a partial softmax.                  *)
LEMMA AbsorbAdds ==
  ASSUME NEW head, NEW C, Scored(head, C), NEW read, ReadsOnce(head, read), C \cap CellsRead(read) = {}
  PROVE  /\ Scored(head, C \cup CellsRead(read))
         /\ Absorb(PartOf(head, C), head, read) = PartOf(head, C \cup CellsRead(read))
<1> DEFINE T == DOMAIN read
           R == CellsRead(read)
           p == PartOf(head, C)
           new == TopOf(head, C \cup R)
           weight == [i \in T |-> Weight(Score(head, read[i][1]), new)]
<1>1. Scored(head, R)
  BY ReadIsScored DEF CellsRead
<1>2. Scored(head, C \cup R)
  BY <1>1, FS_Union, Zenon DEF Scored
<1>3. p.max = TopOf(head, C) /\ p.acc = BagOf(head, C, p.max)
  BY Zenon DEF PartOf
<1>4. /\ new \in -1 .. MaxScore /\ \A c \in C \cup R : Score(head, c[1]) <= new /\ Score(head, c[1]) \in Nat
      /\ new = -1 \/ \E c \in C \cup R : Score(head, c[1]) = new
  <2>1. \A c \in C \cup R : Score(head, c[1]) \in 0 .. MaxScore
    BY <1>2, Zenon DEF Scored
  <2>2. \A c \in C \cup R : Score(head, c[1]) \in Nat
    BY <2>1
  <2> QED BY <1>2, <2>2, TopIs, Zenon
<1>5. /\ p.max \in -1 .. MaxScore /\ \A c \in C : Score(head, c[1]) <= p.max
      /\ p.max = -1 \/ \E c \in C : Score(head, c[1]) = p.max
  BY <1>3, TopIs
<1>6. TopOf(head, R) \in -1 .. MaxScore /\ (TopOf(head, R) = -1 \/ \E c \in R : Score(head, c[1]) = TopOf(head, R))
  BY <1>1, TopIs
<1>7. p.max <= new /\ TopOf(head, R) <= new
  <2> DEFINE q == TopOf(head, R)
  <2> HIDE DEF q, p, new, R
  <2> QED BY <1>4, <1>5, <1>6 DEF q
<1>8. Max({p.max} \cup {Score(head, read[i][1]) : i \in T}) = new
  <2> DEFINE K == {p.max} \cup {Score(head, read[i][1]) : i \in T}
  <2>1. {Score(head, read[i][1]) : i \in T} = {Score(head, c[1]) : c \in R}
    BY DEF CellsRead
  <2>2. K \in SUBSET Int /\ \A y \in K : new >= y
    <3> HIDE DEF new, p, R, T
    <3> QED BY <1>4, <1>5, <1>7, <2>1
  <2>3. new \in K
    <3> HIDE DEF new, p, R, T
    <3>1. CASE new = -1
      BY <1>5, <1>7, <3>1
    <3>2. CASE \E c \in R : Score(head, c[1]) = new
      BY <2>1, <3>2
    <3>3. CASE \E c \in C : Score(head, c[1]) = new
      <4>1. new <= p.max
        BY <1>5, <3>3
      <4>2. new = p.max
        BY <1>4, <1>5, <1>7, <4>1
      <4> QED BY <4>2
    <3> QED BY <1>4, <3>1, <3>2, <3>3
  <2> HIDE DEF K, new
  <2>4. Max(K) = new
    BY <2>2, <2>3, MaxIs
  <2> QED BY <2>4 DEF K
<1> HIDE DEF p, new
<1>9. Absorb(p, head, read) =
        [max |-> new,
         sum |-> Scaled(p.sum, p.max, new) + SumFunction(weight),
         acc |-> Grown(ScaledBag(p.acc, p.max, new), read, weight)]
  <2>1. Absorb(p, head, read) = AbsorbedAt(p, head, read, Max({p.max} \cup {Score(head, read[i][1]) : i \in T}))
    BY DEF Absorb, AbsorbedAt, Grown
  <2>2. Absorb(p, head, read) = AbsorbedAt(p, head, read, new)
    BY <1>8, <2>1, Zenon
  <2> QED BY <2>2, Zenon DEF AbsorbedAt
<1>10. /\ ScaledBag(p.acc, p.max, new) = BagOf(head, C, new)
       /\ Scaled(p.sum, p.max, new) = Mass(head, C, new)
  <2>1. TopOf(head, C) <= new
    BY <1>3, <1>7
  <2> QED BY <1>4, <2>1, PartScales, Zenon DEF p
<1>11. Grown(BagOf(head, C, new), read, weight) = BagOf(head, C \cup R, new)
  <2> HIDE DEF weight
  <2>1. weight = [i \in T |-> Weight(Score(head, read[i][1]), new)]
    BY DEF weight
  <2> QED BY <1>4, <1>7, <2>1, BagGrows
<1>12. SumFunction(weight) = Mass(head, R, new)
  <2> DEFINE f == BagOf(head, R, new)
  <2>1. IsFiniteSet(T)
    BY ReadIsScored
  <2>2. \A i \in T : read[i] \in R
    BY DEF CellsRead
  <2>3. ASSUME NEW i \in T
        PROVE  weight[i] = f[read[i]] /\ f[read[i]] \in Nat
    <3>1. f[read[i]] = Unit(new) * 2 ^ Score(head, read[i][1]) /\ f[read[i]] \in Nat
      BY <1>1, <1>4, <2>2, BagValues, Zenon
    <3>2. Score(head, read[i][1]) \in 0 .. MaxScore /\ Score(head, read[i][1]) <= new
      BY <1>1, <1>4, <2>2 DEF Scored
    <3>3. Weight(Score(head, read[i][1]), new) = Unit(new) * 2 ^ Score(head, read[i][1])
      BY <1>4, <3>2, UnitIs
    <3> QED BY <3>1, <3>3, Zenon
  <2>4. \A i, j \in T : read[i] = read[j] => i = j
    BY DEF ReadsOnce
  <2>5. weight = [i \in T |-> f[read[i]]]
    <3> HIDE DEF f
    <3>1. \A i \in T : weight[i] = f[read[i]]
      BY <2>3
    <3>2. weight = [i \in T |-> weight[i]]
      OBVIOUS
    <3> HIDE DEF weight
    <3> QED BY <3>1, <3>2
  <2>6. DOMAIN weight = T
    OBVIOUS
  <2> HIDE DEF f, weight, T
  <2>7. SumFunctionOnSet([i \in T |-> f[read[i]]], T) = SumFunctionOnSet(f, {read[i] : i \in T})
    <3>1. \A i \in T : f[read[i]] \in Nat
      BY <2>3
    <3> QED BY <2>1, <2>4, <3>1, SumRenamed, Zenon
  <2>8. {read[i] : i \in T} = R
    BY DEF CellsRead, T
  <2> QED BY <2>5, <2>6, <2>7, <2>8, Zenon DEF SumFunction, Mass, f
<1>13. Mass(head, C, new) + Mass(head, R, new) = Mass(head, C \cup R, new)
  <2> HIDE DEF R
  <2>1. C \cap R = {}
    BY DEF R
  <2>2. Scored(head, R) /\ Scored(head, C) /\ new \in -1 .. MaxScore
    BY <1>1, <1>4
  <2> QED BY <2>1, <2>2, BagsAdd
<1>14. Absorb(p, head, read) = [max |-> new, sum |-> Mass(head, C \cup R, new), acc |-> BagOf(head, C \cup R, new)]
  <2> HIDE DEF weight, R, T
  <2> QED BY <1>9, <1>10, <1>11, <1>12, <1>13, Zenon
<1> QED BY <1>2, <1>14, Zenon DEF PartOf, p, new

(* Blocks that find cells of their own, none of them in C yet; and C with  *)
(* all of those.                                                           *)
ReadApart(head, C, n, blocks, read) ==
  /\ Scored(head, C)
  /\ \A k \in 1 .. n : ReadsOnce(head, read[blocks[k]]) /\ C \cap CellsRead(read[blocks[k]]) = {}
  /\ \A j, k \in 1 .. n : j # k => CellsRead(read[blocks[j]]) \cap CellsRead(read[blocks[k]]) = {}

AllRead(C, n, blocks, read) == C \cup UNION {CellsRead(read[blocks[k]]) : k \in 1 .. n}

(* The loop over blocks adds the cells of each.                            *)
LEMMA SeqBlockAdds ==
  ASSUME NEW head, NEW C, NEW n \in Nat, NEW blocks, DOMAIN blocks = 1 .. n, NEW read,
         ReadApart(head, C, n, blocks, read)
  PROVE  SeqBlockPart(PartOf(head, C), head, blocks, read) = PartOf(head, AllRead(C, n, blocks, read))
<1>a. /\ Scored(head, C)
      /\ \A k \in 1 .. n : ReadsOnce(head, read[blocks[k]]) /\ C \cap CellsRead(read[blocks[k]]) = {}
      /\ \A j, k \in 1 .. n : j # k => CellsRead(read[blocks[j]]) \cap CellsRead(read[blocks[k]]) = {}
  BY DEF ReadApart
<1> DEFINE T == 1 .. n
           base == PartOf(head, C)
           step(p, block) == Absorb(p, head, read[block])
           Unfold(g) == [s \in SUBSET T |-> IF s = {} THEN base ELSE step(g[s \ {Max(s)}], blocks[Max(s)])]
           Taken(s) == C \cup UNION {CellsRead(read[blocks[k]]) : k \in s}
           G == [s \in SUBSET T |-> PartOf(head, Taken(s))]
           H == CHOOSE g : g = Unfold(g)
<1>1. IsFiniteSet(T)
  <2>1. 1 \in Int /\ n \in Int
    OBVIOUS
  <2> QED BY <2>1, FS_Interval, Zenon
<1>2. ASSUME NEW s \in SUBSET T
      PROVE  Scored(head, Taken(s))
  <2> DEFINE h == [x \in SUBSET T |-> Scored(head, Taken(x))]
             yes == [x \in SUBSET T |-> TRUE]
  <2>1. h[{}] = yes[{}]
    <3>1. {} \in SUBSET T /\ Taken({}) = C
      OBVIOUS
    <3> HIDE DEF Taken
    <3>2. h[{}] = TRUE
      BY <1>a, <3>1, Zenon
    <3> QED BY <3>1, <3>2, Zenon
  <2>2. ASSUME NEW x \in SUBSET T, NEW k \in x, Scored(head, Taken(x \ {k}))
        PROVE  Scored(head, Taken(x))
    <3>1. Taken(x) = Taken(x \ {k}) \cup CellsRead(read[blocks[k]])
      OBVIOUS
    <3>2. Taken(x \ {k}) \cap CellsRead(read[blocks[k]]) = {}
      BY <1>a
    <3>3. ReadsOnce(head, read[blocks[k]])
      BY <1>a
    <3> HIDE DEF Taken
    <3> DEFINE A == Taken(x \ {k})
               rd == read[blocks[k]]
    <3>4. Scored(head, A) /\ ReadsOnce(head, rd)
      BY <2>2, <3>3
    <3>5. A \cap CellsRead(rd) = {}
      BY <3>2
    <3>6. Taken(x) = A \cup CellsRead(rd)
      BY <3>1
    <3> HIDE DEF A, rd
    <3>7. Scored(head, A \cup CellsRead(rd))
      BY <3>4, <3>5, AbsorbAdds
    <3> QED BY <3>6, <3>7
  <2>3. ASSUME NEW x \in SUBSET s, x # {}
        PROVE  \E k \in x : h[x \ {k}] = yes[x \ {k}] => h[x] = yes[x]
    <3>1. PICK k \in x : TRUE
      BY <2>3
    <3>2. x \in SUBSET T /\ x \ {k} \in SUBSET T
      OBVIOUS
    <3> HIDE DEF Taken
    <3>3. h[x \ {k}] = yes[x \ {k}] => h[x] = yes[x]
      BY <2>2, <3>2, Zenon
    <3> QED BY <3>3, Zenon
  <2>4. IsFiniteSet(s)
    BY <1>1, FS_Subset, Zenon
  <2>5. h[s] = yes[s]
    <3> HIDE DEF h, yes
    <3> QED BY <2>1, <2>3, <2>4, FoldsAgree, Zenon
  <2> HIDE DEF Taken
  <2> QED BY <2>5, Zenon
<1>3. ASSUME NEW s \in SUBSET T, s # {} PROVE Max(s) \in s
  BY <1>3, MaxIn
<1>4. ASSUME NEW s \in SUBSET T, NEW x \in s
      PROVE  step(PartOf(head, Taken(s \ {x})), blocks[x]) = PartOf(head, Taken(s))
  <2>1. s \ {x} \in SUBSET T /\ x \in T
    OBVIOUS
  <2>2. Taken(s) = Taken(s \ {x}) \cup CellsRead(read[blocks[x]])
    OBVIOUS
  <2>3. Taken(s \ {x}) \cap CellsRead(read[blocks[x]]) = {} /\ ReadsOnce(head, read[blocks[x]])
    BY <1>a
  <2>4. Scored(head, Taken(s \ {x}))
    BY <1>2, <2>1
  <2> HIDE DEF Taken
  <2> DEFINE A == Taken(s \ {x})
             rd == read[blocks[x]]
  <2>5. Scored(head, A) /\ ReadsOnce(head, rd)
    BY <2>3, <2>4
  <2>6. A \cap CellsRead(rd) = {}
    BY <2>3
  <2>7. Taken(s) = A \cup CellsRead(rd) /\ step(PartOf(head, Taken(s \ {x})), blocks[x]) = Absorb(PartOf(head, A), head, rd)
    BY <2>2
  <2> HIDE DEF A, rd, step
  <2>8. Absorb(PartOf(head, A), head, rd) = PartOf(head, A \cup CellsRead(rd))
    BY <2>5, <2>6, AbsorbAdds
  <2> QED BY <2>7, <2>8, Zenon
<1>5. G = Unfold(G)
  <2>1. ASSUME NEW s \in SUBSET T PROVE G[s] = Unfold(G)[s]
    <3>1. CASE s = {}
      <4>1. Taken({}) = C
        OBVIOUS
      <4> HIDE DEF Taken
      <4> QED BY <3>1, <4>1
    <3>2. CASE s # {}
      <4>1. Max(s) \in s
        BY <1>3, <3>2
      <4>2. s \ {Max(s)} \in SUBSET T
        OBVIOUS
      <4> HIDE DEF Taken, step
      <4>3. step(PartOf(head, Taken(s \ {Max(s)})), blocks[Max(s)]) = PartOf(head, Taken(s))
        BY <1>4, <4>1, Zenon
      <4> QED BY <3>2, <4>2, <4>3, Zenon
    <3> QED BY <3>1, <3>2, Zenon
  <2> HIDE DEF Taken, step
  <2> QED BY <2>1, Zenon
<1>6. H = Unfold(H)
  <2> HIDE DEF G, Unfold
  <2> QED BY <1>5, Zenon
<1>7. SeqBlockPart(base, head, blocks, read) = H[T]
  BY Zenon DEF SeqBlockPart, FoldLeft, MapThenFoldSet
<1>8. H[T] = G[T]
  <2> HIDE DEF H, G, Unfold
  <2>1. H[{}] = G[{}]
    <3>1. {} \in SUBSET T
      OBVIOUS
    <3>2. \A g : Unfold(g)[{}] = base
      BY <3>1, Zenon DEF Unfold
    <3> QED BY <1>5, <1>6, <3>2, Zenon
  <2>2. ASSUME NEW s \in SUBSET T, s # {}
        PROVE  \E x \in s : H[s \ {x}] = G[s \ {x}] => H[s] = G[s]
    <3>1. Max(s) \in s
      BY <1>3, <2>2
    <3>2. \A g : Unfold(g)[s] = step(g[s \ {Max(s)}], blocks[Max(s)])
      BY <2>2, Zenon DEF Unfold
    <3> HIDE DEF step
    <3>3. H[s \ {Max(s)}] = G[s \ {Max(s)}] => H[s] = G[s]
      BY <1>5, <1>6, <3>2, Zenon
    <3> QED BY <3>1, <3>3, Zenon
  <2> QED BY <1>1, <2>1, <2>2, FoldsAgree, Zenon
<1> HIDE DEF H
<1>9. T \in SUBSET T
  OBVIOUS
<1> HIDE DEF Taken
<1>10. SeqBlockPart(base, head, blocks, read) = PartOf(head, Taken(T))
  BY <1>7, <1>8, <1>9, Zenon
<1> QED BY <1>10, Zenon DEF Taken, AllRead

-----------------------------------------------------------------------------
(* Blocks and tokens of a sequence                                         *)

Cell(r, l, t) == <<<<"k", <<r, t>>, l>>, <<"v", <<r, t>>, l>>>>

TokenCells(r, l, tokens) == {Cell(r, l, t) : t \in tokens}

BlocksPerSeqBlock == SeqBlockSize \div BlockSize

(* The tokens of a block and those of a seq block.                         *)
TokensOfBlock(len, block) == {t \in 0 .. len - 1 : t \div BlockSize = block}

TokensOfSeqBlock(len, s) == {t \in 0 .. len - 1 : (t \div BlockSize) \div BlocksPerSeqBlock = s}

(* A block size and how many of them make a seq block.                     *)
LEMMA SeqBlockSizes ==
  /\ BlockSize \in Nat \ {0} /\ BlocksPerSeqBlock \in Nat \ {0}
  /\ SeqBlockSize = BlocksPerSeqBlock * BlockSize /\ SeqBlockSize \in Nat \ {0}
  /\ NumHeads \in Nat \ {0} /\ MaxScore \in Nat
<1>1. /\ BlockSize \in Nat \ {0} /\ SeqBlockSize \in Nat \ {0} /\ SeqBlockSize % BlockSize = 0
      /\ NumHeads \in Nat \ {0} /\ MaxScore \in Nat
  BY LayoutAssumption, AttentionAssumption
<1> DEFINE k == SeqBlockSize \div BlockSize
<1>2. SeqBlockSize = k * BlockSize + (SeqBlockSize % BlockSize) /\ k \in Nat
  BY <1>1
<1> HIDE DEF k
<1>3. SeqBlockSize = k * BlockSize
  BY <1>1, <1>2
<1>4. k # 0
  BY <1>1, <1>3
<1> QED BY <1>1, <1>2, <1>3, <1>4 DEF BlocksPerSeqBlock, k

(* Quotient and remainder.                                                 *)
LEMMA Quotient ==
  ASSUME NEW d \in Nat \ {0}, NEW a \in Nat, NEW x \in 0 .. d - 1
  PROVE  (a * d + x) \div d = a /\ (a * d + x) % d = x
<1> DEFINE y == a * d + x
<1>1. y \in Nat
  OBVIOUS
<1>2. y \div d \in Nat /\ y % d \in 0 .. d - 1 /\ y = (y \div d) * d + (y % d)
  <2> HIDE DEF y
  <2> QED BY <1>1
<1>3. a * d + x = (y \div d) * d + (y % d)
  BY <1>2
<1> HIDE DEF y
<1> QED BY <1>2, <1>3, Digits DEF y

(* Division with remainder, and which numbers have a given quotient.       *)
LEMMA DividesUpTo ==
  ASSUME NEW d \in Nat \ {0}, NEW a \in Nat, NEW y \in Nat
  PROVE  y \div d \in Nat /\ y % d \in 0 .. d - 1 /\ y = (y \div d) * d + (y % d)
         /\ (y \div d = a <=> a * d <= y /\ y < a * d + d)
<1>1. y \div d \in Nat /\ y % d \in 0 .. d - 1 /\ y = (y \div d) * d + (y % d)
  OBVIOUS
<1>2. ASSUME y \div d = a PROVE a * d <= y /\ y < a * d + d
  BY <1>1, <1>2
<1>3. ASSUME a * d <= y, y < a * d + d PROVE y \div d = a
  <2> DEFINE x == y - a * d
  <2>1. a * d \in Nat
    OBVIOUS
  <2>2. x \in 0 .. d - 1 /\ y = a * d + x
    BY <1>3, <2>1
  <2> HIDE DEF x
  <2> QED BY <2>2, Quotient
<1> QED BY <1>1, <1>2, <1>3

(* The smaller of two numbers.                                             *)
LEMMA MinOfTwo ==
  ASSUME NEW a \in Int, NEW b \in Int
  PROVE  Min({a, b}) = IF a <= b THEN a ELSE b
<1>1. Min({a, b}) \in {a, b} /\ \A y \in {a, b} : Min({a, b}) <= y
  <2>1. \E x \in {a, b} : \A y \in {a, b} : x <= y
    OBVIOUS
  <2>2. Min({a, b}) = CHOOSE x \in {a, b} : \A y \in {a, b} : x <= y
    BY Zenon DEF Min
  <2> QED BY <2>1, <2>2, Zenon
<1> QED BY <1>1

(* Rounding up: as many as begin before the end.                           *)
LEMMA CeilCounts ==
  ASSUME NEW d \in Nat \ {0}, NEW x \in Nat
  PROVE  /\ CeilDivide(x, d) \in Nat
         /\ \A i \in Nat : i < CeilDivide(x, d) <=> i * d < x
<1> DEFINE y == x + d - 1
           c == y \div d
<1>1. y \in Nat
  OBVIOUS
<1>2. c \in Nat /\ c * d <= y /\ y < c * d + d
  <2> HIDE DEF y
  <2> QED BY <1>1, Division
<1>3. CeilDivide(x, d) = c
  BY DEF CeilDivide
<1> HIDE DEF c
<1>4. \A i \in Nat : i < c => i * d + d <= c * d
  <2> TAKE i \in Nat
  <2> HAVE i < c
  <2>1. i + 1 <= c
    BY <1>2
  <2>2. (i + 1) * d <= c * d
    BY <1>2, <2>1
  <2>3. (i + 1) * d = i * d + d
    OBVIOUS
  <2> QED BY <2>2, <2>3
<1>5. \A i \in Nat : ~(i < c) => c * d <= i * d
  <2> TAKE i \in Nat
  <2> HAVE ~(i < c)
  <2>1. c <= i
    BY <1>2
  <2> QED BY <1>2, <2>1
<1>6. ASSUME NEW i \in Nat PROVE i < c <=> i * d < x
  <2>1. i * d \in Nat /\ c * d \in Nat
    BY <1>2
  <2> QED BY <1>2, <1>4, <1>5, <2>1
<1> QED BY <1>2, <1>3, <1>6

(* The live slots of a block are its tokens.                               *)
LEMMA BlockTokens ==
  ASSUME NEW len \in Nat, NEW block \in Nat, block * BlockSize < len
  PROVE  /\ LiveSlots(block, len) \in 1 .. BlockSize
         /\ \A i \in 1 .. LiveSlots(block, len) :
              LET t == block * BlockSize + i - 1 IN
              /\ t \in TokensOfBlock(len, block) /\ t \in Nat
              /\ t \div BlockSize = block /\ t % BlockSize = i - 1
         /\ \A t \in TokensOfBlock(len, block) :
              \E i \in 1 .. LiveSlots(block, len) : t = block * BlockSize + i - 1
<1> DEFINE first == block * BlockSize
           n == LiveSlots(block, len)
<1>1. BlockSize \in Nat \ {0} /\ first \in Nat
  BY LayoutAssumption
<1>2. n = IF BlockSize <= len - first THEN BlockSize ELSE len - first
  BY <1>1, MinOfTwo DEF LiveSlots
<1> HIDE DEF n
<1>3. ASSUME NEW i \in 1 .. n
      PROVE  LET t == first + i - 1 IN
             t \in TokensOfBlock(len, block) /\ t \in Nat /\ t \div BlockSize = block /\ t % BlockSize = i - 1
  <2> DEFINE t == first + i - 1
  <2>1. i - 1 \in 0 .. BlockSize - 1 /\ t = block * BlockSize + (i - 1)
    <3> HIDE DEF first
    <3>1. i - 1 \in 0 .. BlockSize - 1 /\ first + i - 1 = first + (i - 1)
      BY <1>1, <1>2
    <3> QED BY <3>1 DEF first
  <2>2. t \div BlockSize = block /\ t % BlockSize = i - 1
    BY <1>1, <2>1, Quotient, Zenon
  <2>3. t \in 0 .. len - 1
    <3> HIDE DEF first
    <3> QED BY <1>1, <1>2
  <2> HIDE DEF t
  <2>4. t \in TokensOfBlock(len, block) /\ t \in Nat
    BY <2>2, <2>3 DEF TokensOfBlock
  <2> QED BY <2>2, <2>4 DEF t
<1>4. ASSUME NEW t \in TokensOfBlock(len, block)
      PROVE  \E i \in 1 .. n : t = first + i - 1
  <2>1. t \in 0 .. len - 1 /\ t \div BlockSize = block
    BY DEF TokensOfBlock
  <2>2. t \in Nat
    BY <2>1
  <2>3. first <= t /\ t < first + BlockSize
    BY <1>1, <2>1, <2>2, DividesUpTo
  <2> HIDE DEF first
  <2>4. t - first + 1 \in 1 .. n /\ t = first + (t - first + 1) - 1
    BY <1>1, <1>2, <2>1, <2>3
  <2> QED BY <2>4
<1>5. n \in 1 .. BlockSize
  <2>1. first < len
    OBVIOUS
  <2> HIDE DEF first
  <2> QED BY <1>1, <1>2, <2>1
<1> QED BY <1>3, <1>4, <1>5 DEF n, first

(* The blocks of a seq block are those of its tokens.                      *)
LEMMA SeqBlockBlocks ==
  ASSUME NEW len \in Nat, NEW s \in Nat, s * SeqBlockSize < len
  PROVE  LET blocks == BlocksOfSeqBlock(s, len) IN
         /\ blocks \in Seq(Nat) /\ IsInjective(blocks)
         /\ \A k \in DOMAIN blocks :
              blocks[k] \div BlocksPerSeqBlock = s /\ blocks[k] * BlockSize < len
         /\ \A b \in Nat : b \div BlocksPerSeqBlock = s /\ b * BlockSize < len =>
              \E k \in DOMAIN blocks : blocks[k] = b
<1> DEFINE K == BlocksPerSeqBlock
           first == s * K
           rest == len - s * SeqBlockSize
           x == IF SeqBlockSize <= rest THEN SeqBlockSize ELSE rest
           number == CeilDivide(x, BlockSize)
           blocks == [i \in 1 .. number |-> first + i - 1]
<1>1. /\ BlockSize \in Nat \ {0} /\ K \in Nat \ {0} /\ SeqBlockSize = K * BlockSize
      /\ SeqBlockSize \in Nat /\ s * SeqBlockSize \in Nat /\ first \in Nat
      /\ s * SeqBlockSize = first * BlockSize
  <2>1. BlockSize \in Nat \ {0} /\ K \in Nat \ {0} /\ SeqBlockSize = K * BlockSize
    BY SeqBlockSizes
  <2> HIDE DEF K
  <2>2. s * (K * BlockSize) = (s * K) * BlockSize
    BY <2>1
  <2> QED BY <2>1, <2>2
<1>2. rest \in Nat /\ x \in Nat /\ BlocksOfSeqBlock(s, len) = blocks
  <2>1. rest \in Nat
    BY <1>1
  <2>2. Min({SeqBlockSize, rest}) = x
    <3> HIDE DEF rest
    <3> QED BY <1>1, <2>1, MinOfTwo
  <2> QED BY <1>1, <2>1, <2>2 DEF BlocksOfSeqBlock, BlocksPerSeqBlock
<1>3. number \in Nat /\ \A i \in Nat : i < number <=> i * BlockSize < x
  <2> HIDE DEF x
  <2> QED BY <1>1, <1>2, CeilCounts
<1> HIDE DEF number
<1>4. ASSUME NEW i \in Nat
      PROVE  i < number <=> i < K /\ (first + i) * BlockSize < len
  <2>1. i < K <=> i * BlockSize < SeqBlockSize
    <3>1. i < K => i * BlockSize + BlockSize <= K * BlockSize
      <4> HAVE i < K
      <4>1. i + 1 <= K
        BY <1>1
      <4> HIDE DEF K
      <4>2. (i + 1) * BlockSize <= K * BlockSize
        BY <1>1, <4>1
      <4>3. (i + 1) * BlockSize = i * BlockSize + BlockSize
        BY <1>1
      <4> QED BY <4>2, <4>3
    <3>2. ~(i < K) => K * BlockSize <= i * BlockSize
      <4> HAVE ~(i < K)
      <4>1. K <= i
        BY <1>1
      <4> HIDE DEF K
      <4> QED BY <1>1, <4>1
    <3>3. i * BlockSize \in Nat /\ K * BlockSize \in Nat
      BY <1>1
    <3> HIDE DEF K
    <3> QED BY <1>1, <3>1, <3>2, <3>3
  <2>2. (first + i) * BlockSize = first * BlockSize + i * BlockSize
    <3> HIDE DEF first
    <3> QED BY <1>1
  <2>3. i * BlockSize \in Nat /\ first * BlockSize \in Nat
    BY <1>1
  <2> HIDE DEF first
  <2>4. i * BlockSize < rest <=> (first + i) * BlockSize < len
    BY <1>1, <2>2, <2>3
  <2>5. i * BlockSize < x <=> i * BlockSize < SeqBlockSize /\ i * BlockSize < rest
    <3> HIDE DEF rest
    <3> QED BY <1>1, <1>2, <2>3
  <2> QED BY <1>3, <2>1, <2>4, <2>5
<1> HIDE DEF x, rest
<1>5. ASSUME NEW b \in Nat
      PROVE  b \div K = s <=> first <= b /\ b < first + K
  BY <1>1, DividesUpTo
<1> HIDE DEF K, first
<1>6. blocks \in Seq(Nat) /\ DOMAIN blocks = 1 .. number
  <2>1. blocks \in [1 .. number -> Nat]
    BY <1>1, <1>3
  <2> HIDE DEF blocks
  <2> QED BY <1>3, <2>1
<1>7. IsInjective(blocks)
  BY <1>1, <1>3 DEF IsInjective
<1>8. ASSUME NEW k \in 1 .. number
      PROVE  blocks[k] \div K = s /\ blocks[k] * BlockSize < len
  <2> DEFINE i == k - 1
  <2>1. i \in Nat /\ i < number /\ blocks[k] = first + i
    BY <1>1, <1>3
  <2> HIDE DEF blocks, i
  <2>2. i < K /\ (first + i) * BlockSize < len
    BY <1>4, <2>1
  <2>3. first + i \in Nat /\ first <= first + i /\ first + i < first + K
    BY <1>1, <2>1, <2>2
  <2> QED BY <1>5, <2>1, <2>2, <2>3
<1>9. ASSUME NEW b \in Nat, b \div K = s, b * BlockSize < len
      PROVE  \E k \in 1 .. number : blocks[k] = b
  <2>1. first <= b /\ b < first + K
    BY <1>5, <1>9
  <2> DEFINE i == b - first
  <2>2. i \in Nat /\ i < K /\ first + i = b
    BY <1>1, <2>1
  <2> HIDE DEF i
  <2>3. i < number
    BY <1>4, <1>9, <2>2
  <2>4. i + 1 \in 1 .. number /\ blocks[i + 1] = b
    BY <1>1, <1>3, <2>2, <2>3
  <2> QED BY <2>4
<1> HIDE DEF blocks
<1> QED BY <1>2, <1>6, <1>7, <1>8, <1>9 DEF K

-----------------------------------------------------------------------------
(* What phase 1 reads                                                      *)

(* Every token of the request is stored in the layer.                      *)
StoredIn(r, l) == \A t \in 0 .. seq_len[r] - 1 : \A kv \in KV : Holds(<<r, t>>, l, kv)

(* Where the tensor of a block of the request begins to hold its slots.    *)
BlockStart(r, l, kv, block) == OwnAddress(Caches, kv, Table[r][block + 1], l, 0)

OwnRead(r, l, block) ==
  ReadBlock(mem, block, seq_len[r], BlockStart(r, l, "k", block), BlockStart(r, l, "v", block))

(* Cells of different tokens differ, and their scores are in range.        *)
LEMMA CellIs ==
  ASSUME NEW r, NEW l, NEW head \in Nat
  PROVE  /\ \A t \in Nat : Score(head, Cell(r, l, t)[1]) \in 0 .. MaxScore
         /\ \A t, u : Cell(r, l, t) = Cell(r, l, u) => t = u
         /\ \A D \in SUBSET Nat : IsFiniteSet(D) => Scored(head, TokenCells(r, l, D))
<1>1. ASSUME NEW t \in Nat
      PROVE  Score(head, Cell(r, l, t)[1]) \in 0 .. MaxScore
  <2>1. Score(head, Cell(r, l, t)[1]) = (t + head) % (MaxScore + 1)
    BY DEF Score, Cell
  <2> DEFINE d == MaxScore + 1
             y == t + head
  <2>2. d \in Nat \ {0} /\ y \in Nat /\ MaxScore \in Nat /\ d - 1 = MaxScore
    BY SeqBlockSizes
  <2>3. Score(head, Cell(r, l, t)[1]) = y % d
    BY <2>1
  <2> HIDE DEF d, y
  <2>4. y % d \in 0 .. d - 1
    BY <2>2
  <2> QED BY <2>2, <2>3, <2>4
<1>2. \A t, u : Cell(r, l, t) = Cell(r, l, u) => t = u
  BY DEF Cell
<1>3. ASSUME NEW D \in SUBSET Nat, IsFiniteSet(D)
      PROVE  Scored(head, TokenCells(r, l, D))
  <2> DEFINE m == [t \in D |-> Cell(r, l, t)]
             U == TokenCells(r, l, D)
  <2>1. m \in Surjection(D, U)
    BY Zenon DEF Surjection, TokenCells
  <2>2. IsFiniteSet(U)
    <3> HIDE DEF m, U
    <3> QED BY <1>3, <2>1, FS_Surjection, Zenon
  <2>3. \A c \in U : Score(head, c[1]) \in 0 .. MaxScore
    BY <1>1 DEF TokenCells
  <2> QED BY <2>2, <2>3 DEF Scored
<1> QED BY <1>1, <1>2, <1>3

(* The slot of a token follows the start of its block.                     *)
LEMMA TokenFollows ==
  ASSUME MemoryInv, NEW r \in Live, NEW l \in Layers, NEW kv \in KV, NEW t \in 0 .. seq_len[r] - 1
  PROVE  LET block == t \div BlockSize IN
         /\ TokenAddress(<<r, t>>, l, kv) = BlockStart(r, l, kv, block) + (t % BlockSize)
         /\ BlockStart(r, l, kv, block) \in Nat
         /\ Table[r][block + 1] \in 0 .. PoolSize - 1
<1> DEFINE i == BlockOf(Table, <<r, t>>)
           x == OffsetOf(<<r, t>>)
           tensor == TensorOfIndex(i)
<1>1. GroupsInv /\ RowsInv /\ LiveToken(r, t)
  BY DEF MemoryInv, LiveToken
<1>2. i \in 0 .. PoolSize - 1 /\ x \in 0 .. BlockSize - 1 /\ t \in Nat
  BY <1>1, TokenSlot
<1>3. i = Table[r][t \div BlockSize + 1] /\ x = t % BlockSize
  BY DEF BlockOf, OffsetOf
<1>4. i \in 0 .. NumBlocksOrg + Len(kv_groups) * GroupSize - 1
  BY <1>1, <1>2, PoolRange
<1>5. BlockSize \in Nat \ {0} /\ 0 \in 0 .. BlockSize - 1
  BY SeqBlockSizes
<1> HIDE DEF i, x
<1>6. /\ tensor \in Tensors /\ LocalIndex(i) \in 0 .. BlocksIn(tensor) - 1
      /\ OwnAddress(Caches, kv, i, l, 0) = Base(kv, tensor) + SlotOf(LocalIndex(i), l, 0)
  BY <1>1, <1>4, <1>5, SlotPlace
<1>7. OwnAddress(Caches, kv, i, l, x) = Base(kv, tensor) + SlotOf(LocalIndex(i), l, x)
  BY <1>1, <1>2, <1>4, SlotPlace
<1>8. Base(kv, tensor) \in Nat
  BY <1>1, <1>6, AreasAreNumbers
<1> HIDE DEF tensor
<1>9. SlotOf(LocalIndex(i), l, x) = SlotOf(LocalIndex(i), l, 0) + x /\ SlotOf(LocalIndex(i), l, 0) \in Nat
  <2> DEFINE n == LocalIndex(i)
             base == (n * NumLayers + l) * BlockSize
  <2>1. n \in Nat /\ NumLayers \in Nat /\ l \in Nat
    BY <1>6, LayoutAssumption DEF Layers
  <2> HIDE DEF n
  <2>2. base \in Nat
    BY <1>5, <2>1
  <2> HIDE DEF base
  <2>3. base + x = base + 0 + x /\ base + 0 \in Nat
    BY <1>2, <2>2
  <2> QED BY <2>3 DEF SlotOf, base, n
<1>10. OwnAddress(Caches, kv, i, l, x) = OwnAddress(Caches, kv, i, l, 0) + x /\ OwnAddress(Caches, kv, i, l, 0) \in Nat
  <2> DEFINE slot == SlotOf(LocalIndex(i), l, 0)
             b == Base(kv, tensor)
  <2>1. slot \in Nat /\ b \in Nat /\ OwnAddress(Caches, kv, i, l, 0) = b + slot
        /\ OwnAddress(Caches, kv, i, l, x) = b + (slot + x)
    BY <1>6, <1>7, <1>8, <1>9, Zenon
  <2> HIDE DEF slot, b
  <2> QED BY <1>2, <2>1
<1> QED BY <1>2, <1>3, <1>10, Zenon DEF TokenAddress, BlockStart, i, x

(* Reading a block finds the keys and values of its tokens.                *)
LEMMA ReadFinds ==
  ASSUME MemoryInv, NEW r \in Live, NEW l \in Layers, StoredIn(r, l),
         NEW block \in Nat, block * BlockSize < seq_len[r], NEW head \in Nat
  PROVE  /\ ReadsOnce(head, OwnRead(r, l, block))
         /\ CellsRead(OwnRead(r, l, block)) = TokenCells(r, l, TokensOfBlock(seq_len[r], block))
<1> DEFINE len == seq_len[r]
           n == LiveSlots(block, len)
           token(i) == block * BlockSize + i - 1
           read == OwnRead(r, l, block)
<1>1. len \in Nat
  BY DEF MemoryInv, RowsInv, Live
<1>2. /\ n \in 1 .. BlockSize
      /\ \A i \in 1 .. n : /\ token(i) \in TokensOfBlock(len, block) /\ token(i) \in Nat
                           /\ token(i) \div BlockSize = block /\ token(i) % BlockSize = i - 1
      /\ \A t \in TokensOfBlock(len, block) : \E i \in 1 .. n : t = token(i)
  BY <1>1, BlockTokens
<1> HIDE DEF n, len
<1>3. ASSUME NEW i \in 1 .. n, NEW kv \in KV
      PROVE  mem[BlockStart(r, l, kv, block) + i - 1] = <<kv, <<r, token(i)>>, l>>
  <2> DEFINE t == token(i)
  <2>1. t \in 0 .. seq_len[r] - 1 /\ t \div BlockSize = block /\ t % BlockSize = i - 1
    BY <1>2 DEF TokensOfBlock, len
  <2> HIDE DEF t
  <2>2. /\ TokenAddress(<<r, t>>, l, kv) = BlockStart(r, l, kv, block) + (i - 1)
        /\ BlockStart(r, l, kv, block) \in Nat
    BY <2>1, TokenFollows
  <2>3. mem[TokenAddress(<<r, t>>, l, kv)] = <<kv, <<r, t>>, l>>
    BY <2>1, Zenon DEF StoredIn, Holds
  <2>4. BlockStart(r, l, kv, block) + (i - 1) = BlockStart(r, l, kv, block) + i - 1
    BY <1>2, <2>2
  <2> QED BY <2>2, <2>3, <2>4, Zenon DEF t
<1>4. read = [i \in 1 .. n |-> Cell(r, l, token(i))]
  <2>1. read = [i \in 1 .. n |-> <<mem[BlockStart(r, l, "k", block) + i - 1], mem[BlockStart(r, l, "v", block) + i - 1]>>]
    BY DEF OwnRead, ReadBlock, n, len
  <2>2. "k" \in KV /\ "v" \in KV
    BY DEF KV
  <2>3. \A i \in 1 .. n : <<mem[BlockStart(r, l, "k", block) + i - 1], mem[BlockStart(r, l, "v", block) + i - 1]>>
                            = Cell(r, l, token(i))
    BY <1>3, <2>2, Zenon DEF Cell
  <2> HIDE DEF read, token
  <2> QED BY <2>1, <2>3, Zenon
<1>5. CellsRead(read) = TokenCells(r, l, TokensOfBlock(len, block))
  <2> HIDE DEF token, read
  <2>1. CellsRead(read) = {Cell(r, l, token(i)) : i \in 1 .. n}
    BY <1>4 DEF CellsRead
  <2>2. {Cell(r, l, token(i)) : i \in 1 .. n} = {Cell(r, l, t) : t \in TokensOfBlock(len, block)}
    BY <1>2, Zenon
  <2> QED BY <2>1, <2>2, Zenon DEF TokenCells
<1>6. ReadsOnce(head, read)
  <2>1. n \in Nat /\ DOMAIN read = 1 .. n
    <3>1. n \in Nat
      BY <1>2
    <3> HIDE DEF read
    <3> QED BY <1>4, <3>1
  <2>2. ASSUME NEW i \in 1 .. n, NEW j \in 1 .. n, read[i] = read[j]
        PROVE  i = j
    <3>1. Cell(r, l, token(i)) = Cell(r, l, token(j))
      <4> HIDE DEF read, token
      <4> QED BY <1>4, <2>2
    <3>2. token(i) = token(j)
      BY <3>1, CellIs, Zenon
    <3>3. block * BlockSize \in Nat /\ i \in Int /\ j \in Int
      BY SeqBlockSizes
    <3> QED BY <3>2, <3>3
  <2>3. ASSUME NEW i \in 1 .. n
        PROVE  Score(head, read[i][1]) \in 0 .. MaxScore
    <3>1. token(i) \in Nat
      BY <1>2
    <3>2. read[i] = Cell(r, l, token(i))
      <4> HIDE DEF read, token
      <4> QED BY <1>4
    <3> HIDE DEF read, token
    <3> QED BY <3>1, <3>2, CellIs, Zenon
  <2> HIDE DEF read
  <2> QED BY <2>1, <2>2, <2>3 DEF ReadsOnce
<1> QED BY <1>5, <1>6 DEF len

(* Phase 1 over some blocks of a sequence adds their tokens to a part.     *)
LEMMA PhaseOne ==
  ASSUME MemoryInv, NEW r \in Live, NEW l \in Layers, StoredIn(r, l), NEW head \in Nat,
         NEW D \in SUBSET (0 .. seq_len[r] - 1),
         NEW blocks \in Seq(Nat), IsInjective(blocks),
         \A k \in DOMAIN blocks : blocks[k] * BlockSize < seq_len[r],
         \A t \in D : t \div BlockSize \notin Elements(blocks),
         NEW read, \A b \in Elements(blocks) : read[b] = OwnRead(r, l, b)
  PROVE  SeqBlockPart(PartOf(head, TokenCells(r, l, D)), head, blocks, read)
           = PartOf(head, TokenCells(r, l,
               D \cup {t \in 0 .. seq_len[r] - 1 : t \div BlockSize \in Elements(blocks)}))
<1> DEFINE len == seq_len[r]
           n == Len(blocks)
           C == TokenCells(r, l, D)
           of(k) == TokenCells(r, l, TokensOfBlock(len, blocks[k]))
<1>1. len \in Nat
  BY DEF MemoryInv, RowsInv, Live
<1>2. n \in Nat /\ DOMAIN blocks = 1 .. n /\ \A k \in 1 .. n : blocks[k] \in Nat /\ blocks[k] \in Elements(blocks)
  BY DEF Elements
<1>3. D \in SUBSET Nat /\ IsFiniteSet(D)
  <2>1. 0 \in Int /\ len - 1 \in Int /\ D \in SUBSET (0 .. len - 1) /\ 0 .. len - 1 \in SUBSET Nat
    BY <1>1
  <2>2. IsFiniteSet(0 .. len - 1)
    BY <2>1, FS_Interval, Zenon
  <2> QED BY <2>1, <2>2, FS_Subset
<1>4. Scored(head, C)
  BY <1>3, CellIs
<1>5. \A t, u : Cell(r, l, t) = Cell(r, l, u) => t = u
  BY CellIs, Zenon
<1>6. ASSUME NEW k \in 1 .. n
      PROVE  ReadsOnce(head, read[blocks[k]]) /\ CellsRead(read[blocks[k]]) = of(k)
  <2>1. blocks[k] \in Nat /\ blocks[k] * BlockSize < seq_len[r] /\ read[blocks[k]] = OwnRead(r, l, blocks[k])
    BY <1>2
  <2> QED BY <2>1, ReadFinds
<1>7. ASSUME NEW k \in 1 .. n
      PROVE  C \cap of(k) = {}
  BY <1>2, <1>5 DEF TokenCells, TokensOfBlock
<1>8. ASSUME NEW j \in 1 .. n, NEW k \in 1 .. n, j # k
      PROVE  of(j) \cap of(k) = {}
  <2>1. blocks[j] # blocks[k]
    BY <1>2, <1>8 DEF IsInjective
  <2> QED BY <1>5, <2>1 DEF TokenCells, TokensOfBlock
<1> HIDE DEF C, of, n
<1>9. SeqBlockPart(PartOf(head, C), head, blocks, read)
        = PartOf(head, C \cup UNION {CellsRead(read[blocks[k]]) : k \in 1 .. n})
  <2>1. \A k \in 1 .. n : ReadsOnce(head, read[blocks[k]]) /\ C \cap CellsRead(read[blocks[k]]) = {}
    BY <1>6, <1>7
  <2>2. \A j, k \in 1 .. n : j # k => CellsRead(read[blocks[j]]) \cap CellsRead(read[blocks[k]]) = {}
    BY <1>6, <1>8
  <2>3. n \in Nat /\ DOMAIN blocks = 1 .. n
    BY <1>2
  <2>4. ReadApart(head, C, n, blocks, read)
    BY <1>4, <2>1, <2>2 DEF ReadApart
  <2>5. SeqBlockPart(PartOf(head, C), head, blocks, read) = PartOf(head, AllRead(C, n, blocks, read))
    BY <2>3, <2>4, SeqBlockAdds
  <2> QED BY <2>5 DEF AllRead
<1>10. UNION {CellsRead(read[blocks[k]]) : k \in 1 .. n}
         = TokenCells(r, l, {t \in 0 .. len - 1 : t \div BlockSize \in Elements(blocks)})
  <2>1. UNION {CellsRead(read[blocks[k]]) : k \in 1 .. n} = UNION {of(k) : k \in 1 .. n}
    BY <1>6
  <2>2. UNION {of(k) : k \in 1 .. n} = TokenCells(r, l, {t \in 0 .. len - 1 : t \div BlockSize \in Elements(blocks)})
    <3> DEFINE T == {t \in 0 .. len - 1 : t \div BlockSize \in Elements(blocks)}
    <3>1. ASSUME NEW k \in 1 .. n, NEW c \in of(k)
          PROVE  c \in TokenCells(r, l, T)
      BY <1>2 DEF of, TokenCells, TokensOfBlock
    <3>2. ASSUME NEW c \in TokenCells(r, l, T)
          PROVE  \E k \in 1 .. n : c \in of(k)
      <4>1. PICK t \in T : c = Cell(r, l, t)
        BY DEF TokenCells
      <4>2. PICK k \in 1 .. n : t \div BlockSize = blocks[k]
        BY <1>2 DEF Elements
      <4> QED BY <4>1, <4>2 DEF of, TokenCells, TokensOfBlock
    <3> HIDE DEF T
    <3> QED BY <3>1, <3>2, Zenon DEF T
  <2> QED BY <2>1, <2>2
<1>11. \A A, B : TokenCells(r, l, A) \cup TokenCells(r, l, B) = TokenCells(r, l, A \cup B)
  BY DEF TokenCells
<1> QED BY <1>9, <1>10, <1>11, Zenon DEF C, len

-----------------------------------------------------------------------------
(* Rows of partial softmaxes                                               *)

(* The largest of a set of numbers from -1 up to a bound.                  *)
LEMMA MaxOf ==
  ASSUME NEW n \in Nat, NEW s \in SUBSET (-1 .. n), s # {}
  PROVE  Max(s) \in s /\ \A x \in s : x <= Max(s)
<1>1. \E x \in s : \A y \in s : x >= y
  <2>1. CASE s \cap (0 .. n) = {}
    <3>1. \A x \in s : x = -1
      BY <2>1
    <3>2. PICK x \in s : TRUE
      OBVIOUS
    <3> QED BY <3>1, <3>2
  <2>2. CASE s \cap (0 .. n) # {}
    <3> DEFINE t == s \cap (0 .. n)
    <3>1. t \in SUBSET Nat /\ \A x \in t : x <= n
      OBVIOUS
    <3>2. PICK x \in t : \A y \in t : y <= x
      <4> HIDE DEF t
      <4> QED BY <2>2, <3>1, Largest DEF t
    <3>3. \A y \in s : x >= y
      BY <3>2
    <3> QED BY <3>3
  <2> QED BY <2>1, <2>2
<1>2. PICK x \in s : \A y \in s : x >= y
  BY <1>1
<1>3. Max(s) = x
  BY <1>2, MaxIs
<1> QED BY <1>2, <1>3

BatchLens == [i \in DOMAIN pass.batch |-> seq_len[pass.batch[i]]]

(* The sequences that decode, once their last keys and values are stored.  *)
LEMMA BatchFacts ==
  ASSUME MemoryInv, pass.kind = "decode", pass.stored
  PROVE  LET n == Len(pass.batch) IN
         /\ n \in Nat /\ DOMAIN pass.batch = 1 .. n /\ pass.layer \in Layers
         /\ Len(BatchLens) = n /\ DOMAIN BatchLens = 1 .. n
         /\ \A i \in 1 .. n : /\ pass.batch[i] \in Live /\ BatchLens[i] = seq_len[pass.batch[i]]
                              /\ BatchLens[i] \in 1 .. MaxLen
                              /\ StoredIn(pass.batch[i], pass.layer)
<1> DEFINE n == Len(pass.batch)
<1>1. pass.batch \in Seq(Requests) /\ pass.layer \in Layers /\ ToSet(pass.batch) \subseteq Live
  BY DEF MemoryInv, PassesInv
<1>2. n \in Nat /\ DOMAIN pass.batch = 1 .. n
  BY <1>1
<1>3. Len(BatchLens) = n /\ DOMAIN BatchLens = 1 .. n
  BY <1>2 DEF BatchLens
<1>4. ASSUME NEW i \in 1 .. n
      PROVE  /\ pass.batch[i] \in Live /\ BatchLens[i] = seq_len[pass.batch[i]]
             /\ BatchLens[i] \in 1 .. MaxLen
             /\ StoredIn(pass.batch[i], pass.layer)
  <2> DEFINE r == pass.batch[i]
  <2>1. r \in Live /\ BatchLens[i] = seq_len[r]
    BY <1>1, <1>2 DEF BatchLens, ToSet
  <2>2. seq_len[r] \in 1 .. MaxLen
    BY <2>1 DEF Live, MemoryInv, RowsInv
  <2>3. \A t : StoredBy(t, pass.layer)
    BY DEF StoredBy
  <2>4. StoredIn(r, pass.layer)
    BY <1>1, <2>1, <2>3, Zenon DEF StoredIn, MemoryInv, KvInPlace
  <2> QED BY <2>1, <2>2, <2>4
<1> QED BY <1>1, <1>2, <1>3, <1>4

(* Each program has a row of its own.                                      *)
LEMMA RowsMet ==
  ASSUME NEW lens, Len(lens) \in Nat, NumSeqBlocks(lens) \in Nat
  PROVE  /\ \A p \in Programs(lens) : Row(lens, p) \in Rows(lens)
         /\ \A p, q \in Programs(lens) : Row(lens, p) = Row(lens, q) => p = q
<1> DEFINE N == NumSeqBlocks(lens)
           M == Len(lens)
<1>1. NumHeads \in Nat \ {0} /\ M \in Nat /\ N \in Nat
  BY SeqBlockSizes
<1>2. ASSUME NEW p \in Programs(lens)
      PROVE  /\ p[1] \in 0 .. M - 1 /\ p[2] \in 0 .. NumHeads - 1 /\ p[3] \in 0 .. N - 1
             /\ p = <<p[1], p[2], p[3]>> /\ p[1] * NumHeads + p[2] \in 0 .. M * NumHeads - 1
             /\ Row(lens, p) = (p[1] * NumHeads + p[2]) * N + p[3]
  <2>1. p \in (0 .. M - 1) \X (0 .. NumHeads - 1) \X (0 .. N - 1)
    BY DEF Programs
  <2> HIDE DEF M, N
  <2>2. p[1] \in 0 .. M - 1 /\ p[2] \in 0 .. NumHeads - 1 /\ p[3] \in 0 .. N - 1 /\ p = <<p[1], p[2], p[3]>>
    BY <2>1
  <2>3. p[1] * NumHeads + p[2] \in 0 .. M * NumHeads - 1
    <3>1. p[1] + 1 <= M /\ p[1] \in Nat
      BY <1>1, <2>2
    <3>2. (p[1] + 1) * NumHeads <= M * NumHeads
      BY <1>1, <3>1
    <3>3. (p[1] + 1) * NumHeads = p[1] * NumHeads + NumHeads /\ p[1] * NumHeads \in Nat
      BY <1>1, <3>1
    <3> DEFINE u == p[1] * NumHeads
               w == M * NumHeads
    <3>4. u + NumHeads <= w /\ u \in Nat /\ w \in Nat
      <4>1. w \in Nat
        BY <1>1
      <4> QED BY <3>2, <3>3, <4>1
    <3> HIDE DEF u, w
    <3>5. u + p[2] \in 0 .. w - 1
      BY <1>1, <2>2, <3>4
    <3> QED BY <3>5 DEF u, w
  <2> QED BY <2>2, <2>3 DEF Row, N
<1> HIDE DEF N, M
<1>3. ASSUME NEW p \in Programs(lens)
      PROVE  Row(lens, p) \in 0 .. M * NumHeads * N - 1
  <2> DEFINE a == p[1] * NumHeads + p[2]
             m == M * NumHeads
  <2>1. a \in 0 .. m - 1 /\ m \in Nat /\ p[3] \in 0 .. N - 1 /\ Row(lens, p) = a * N + p[3]
    <3>1. m \in Nat
      BY <1>1
    <3> QED BY <1>2, <3>1, Zenon
  <2> HIDE DEF a, m
  <2>2. a + 1 <= m /\ a \in Nat
    BY <2>1
  <2>3. (a + 1) * N <= m * N
    BY <1>1, <2>1, <2>2
  <2>4. (a + 1) * N = a * N + N /\ a * N \in Nat /\ m * N \in Nat
    BY <1>1, <2>1, <2>2
  <2>5. Row(lens, p) \in 0 .. m * N - 1
    BY <1>1, <2>1, <2>3, <2>4
  <2> QED BY <2>5 DEF m
<1>4. ASSUME NEW p \in Programs(lens), NEW q \in Programs(lens), Row(lens, p) = Row(lens, q)
      PROVE  p = q
  <2> DEFINE a == p[1] * NumHeads + p[2]
             b == q[1] * NumHeads + q[2]
             x == p[3]
             y == q[3]
  <2>1. a \in Nat /\ b \in Nat /\ x \in 0 .. N - 1 /\ y \in 0 .. N - 1 /\ a * N + x = b * N + y
    BY <1>1, <1>2, <1>4
  <2> HIDE DEF a, b, x, y
  <2>2. N \in Nat \ {0}
    BY <1>1, <2>1
  <2>3. a = b /\ x = y
    BY <2>1, <2>2, Digits
  <2>4. p[1] = q[1] /\ p[2] = q[2]
    <3> DEFINE c == p[1]
               d == q[1]
               u == p[2]
               v == q[2]
    <3>1. c \in Nat /\ d \in Nat /\ u \in 0 .. NumHeads - 1 /\ v \in 0 .. NumHeads - 1
          /\ c * NumHeads + u = d * NumHeads + v
      BY <1>1, <1>2, <2>3 DEF a, b
    <3> HIDE DEF c, d, u, v
    <3>2. c = d /\ u = v
      BY <1>1, <3>1, Digits
    <3> QED BY <3>2 DEF c, d, u, v
  <2>5. p = <<p[1], p[2], p[3]>> /\ q = <<q[1], q[2], q[3]>>
    BY <1>2
  <2> QED BY <2>3, <2>4, <2>5, Zenon DEF x, y
<1> QED BY <1>3, <1>4 DEF Rows, N, M

(* The row of a program has what the program makes.                        *)
LEMMA RowOfProgram ==
  ASSUME NEW lens, Len(lens) \in Nat, NumSeqBlocks(lens) \in Nat, NEW rest, NEW part,
         NEW p \in Programs(lens)
  PROVE  RowsOf(lens, rest, part)[Row(lens, p)] = part[p]
<1>1. Row(lens, p) \in Rows(lens) /\ \A q \in Programs(lens) : Row(lens, q) = Row(lens, p) => q = p
  BY RowsMet
<1>2. (CHOOSE q \in Programs(lens) : Row(lens, q) = Row(lens, p)) = p
  BY <1>1
<1>3. RowsOf(lens, rest, part)[Row(lens, p)]
        = part[CHOOSE q \in Programs(lens) : Row(lens, q) = Row(lens, p)]
  BY <1>1 DEF RowsOf
<1> QED BY <1>2, <1>3, Zenon

(* A program for each head and each seq block that begins before the end.  *)
LEMMA ProgramsAre ==
  ASSUME NEW lens, NEW n \in Nat, Len(lens) = n, DOMAIN lens = 1 .. n, n # 0,
         NEW m \in Nat, \A i \in 1 .. n : lens[i] \in 1 .. m
  PROVE  /\ NumSeqBlocks(lens) \in Nat
         /\ \A b \in 0 .. n - 1 : \A h \in 0 .. NumHeads - 1 : \A s \in Nat :
              s * SeqBlockSize < lens[b + 1] => <<b, h, s>> \in Programs(lens)
<1> DEFINE S == ToSet(lens)
           N == NumSeqBlocks(lens)
<1>1. S \in SUBSET (-1 .. m) /\ S # {} /\ S \in SUBSET Nat /\ \A i \in 1 .. n : lens[i] \in S
  <2>1. 1 \in 1 .. n
    OBVIOUS
  <2>2. S = {lens[i] : i \in 1 .. n}
    BY DEF ToSet
  <2> QED BY <2>1, <2>2
<1> HIDE DEF S
<1>2. Max(S) \in S /\ \A x \in S : x <= Max(S)
  BY <1>1, MaxOf
<1>3. Max(S) \in Nat /\ SeqBlockSize \in Nat \ {0}
  BY <1>1, <1>2, SeqBlockSizes
<1>4. N \in Nat /\ \A s \in Nat : s < N <=> s * SeqBlockSize < Max(S)
  BY <1>3, CeilCounts DEF NumSeqBlocks, S
<1>5. ASSUME NEW b \in 0 .. n - 1, NEW h \in 0 .. NumHeads - 1, NEW s \in Nat, s * SeqBlockSize < lens[b + 1]
      PROVE  <<b, h, s>> \in Programs(lens)
  <2>1. b + 1 \in 1 .. n
    OBVIOUS
  <2>2. lens[b + 1] <= Max(S) /\ lens[b + 1] \in Nat /\ s * SeqBlockSize \in Nat
    BY <1>1, <1>2, <1>3, <2>1
  <2>3. s < N
    BY <1>3, <1>4, <1>5, <2>2
  <2>4. s \in 0 .. N - 1
    BY <1>4, <2>3
  <2> QED BY <1>5, <2>4 DEF Programs, N
<1> QED BY <1>4, <1>5 DEF N

(* A block that holds tokens of a request is in its row of the table.      *)
LEMMA BlockIsIn ==
  ASSUME MemoryInv, NEW r \in Live, NEW block \in Nat, block * BlockSize < seq_len[r]
  PROVE  /\ r \in Requests /\ block + 1 \in DOMAIN Table[r] /\ Table[r][block + 1] \in 0 .. PoolSize - 1
<1> DEFINE t == block * BlockSize
<1>1. BlockSize \in Nat \ {0} /\ seq_len[r] \in Nat /\ t = block * BlockSize + 0 /\ 0 \in 0 .. BlockSize - 1
  BY SeqBlockSizes DEF MemoryInv, RowsInv, Live
<1>2. t \div BlockSize = block
  <2>1. (block * BlockSize + 0) \div BlockSize = block
    BY <1>1, Quotient, Zenon
  <2> QED BY <1>1, <2>1, Zenon
<1>3. t \in 0 .. seq_len[r] - 1
  <2>1. t \in Nat /\ t < seq_len[r]
    BY <1>1
  <2> HIDE DEF t
  <2> QED BY <1>1, <2>1
<1> HIDE DEF t
<1>4. GroupsInv /\ RowsInv /\ LiveToken(r, t)
  BY <1>3 DEF MemoryInv, LiveToken
<1>5. r \in Requests /\ t \div BlockSize + 1 \in DOMAIN block_table[r] /\ BlockOf(Table, <<r, t>>) \in 0 .. PoolSize - 1
  BY <1>4, TokenSlot
<1>6. BlockOf(Table, <<r, t>>) = Table[r][t \div BlockSize + 1]
  BY DEF BlockOf
<1>7. DOMAIN Table[r] = DOMAIN block_table[r]
  BY <1>5 DEF Table
<1> QED BY <1>2, <1>5, <1>6, <1>7

-----------------------------------------------------------------------------
(* What the first phase leaves in the rows                                 *)

(* The request of a program, and a part of its tokens.                     *)
SequenceOf(p) == pass.batch[p[1] + 1]

PartOver(p, tokens) == PartOf(p[2], TokenCells(SequenceOf(p), pass.layer, tokens))

OwnTokens(p) == TokensOfSeqBlock(seq_len[SequenceOf(p)], p[3])

(* The tokens in the blocks of a seq block are those of the seq block.     *)
LEMMA SeqBlockTokens ==
  ASSUME NEW len \in Nat, NEW s \in Nat, s * SeqBlockSize < len, NEW t \in 0 .. len - 1
  PROVE  /\ t \div BlockSize \in Nat /\ (t \div BlockSize) * BlockSize < len
         /\ t \div BlockSize \in Elements(BlocksOfSeqBlock(s, len)) <=> t \in TokensOfSeqBlock(len, s)
<1> DEFINE b == t \div BlockSize
           blocks == BlocksOfSeqBlock(s, len)
<1>1. BlockSize \in Nat \ {0} /\ t \in Nat /\ t < len
  BY SeqBlockSizes
<1>2. b \in Nat /\ b * BlockSize < len
  <2>1. b \in Nat /\ b * BlockSize <= t
    BY <1>1, Division
  <2>2. b * BlockSize \in Nat
    BY <1>1, <2>1
  <2> HIDE DEF b
  <2> QED BY <1>1, <2>1, <2>2
<1> HIDE DEF blocks
<1>3. /\ \A k \in DOMAIN blocks : blocks[k] \div BlocksPerSeqBlock = s
      /\ b \div BlocksPerSeqBlock = s => \E k \in DOMAIN blocks : blocks[k] = b
  <2> HIDE DEF b
  <2> QED BY <1>2, SeqBlockBlocks DEF blocks
<1>4. b \in Elements(blocks) <=> b \div BlocksPerSeqBlock = s
  <2> HIDE DEF b
  <2> QED BY <1>3, Zenon DEF Elements
<1>5. t \in TokensOfSeqBlock(len, s) <=> b \div BlocksPerSeqBlock = s
  BY DEF TokensOfSeqBlock
<1> QED BY <1>2, <1>4, <1>5 DEF blocks

(* The part of no tokens is the one every program starts from.             *)
LEMMA FreshIs ==
  ASSUME NEW head, NEW r, NEW l
  PROVE  PartOf(head, TokenCells(r, l, {})) = Fresh
<1>1. TokenCells(r, l, {}) = {}
  BY DEF TokenCells
<1>2. TopOf(head, {}) = NoScore
  <2>1. {NoScore} \cup {Score(head, c[1]) : c \in {}} = {NoScore} /\ NoScore \in Int
    BY DEF NoScore
  <2>2. Max({NoScore}) = NoScore
    <3>1. {NoScore} \in SUBSET Int /\ NoScore \in {NoScore} /\ \A y \in {NoScore} : NoScore >= y
      BY <2>1
    <3> QED BY <3>1, MaxIs
  <2> QED BY <2>1, <2>2, Zenon DEF TopOf
<1>3. BagOf(head, {}, NoScore) = EmptyBag
  BY DEF BagOf, EmptyBag, SetToBag
<1>4. Mass(head, {}, NoScore) = 0
  BY SumEmpty, Zenon DEF Mass
<1> QED BY <1>1, <1>2, <1>3, <1>4, Zenon DEF PartOf, Fresh

(* What is known of a program.                                             *)
LEMMA ProgramFacts ==
  ASSUME MemoryInv, pass.kind = "decode", pass.stored, NEW p \in Programs(BatchLens)
  PROVE  LET r == SequenceOf(p) IN
         /\ r \in Live /\ pass.layer \in Layers /\ StoredIn(r, pass.layer) /\ seq_len[r] \in Nat
         /\ p[2] \in Nat /\ p[3] \in Nat /\ p[3] * SeqBlockSize < seq_len[r]
         /\ BatchLens[p[1] + 1] = seq_len[r]
         /\ p[1] \in 0 .. Len(pass.batch) - 1 /\ p[2] \in 0 .. NumHeads - 1
         /\ p[3] \in 0 .. NumSeqBlocks(BatchLens) - 1
<1> DEFINE r == SequenceOf(p)
           len == seq_len[r]
           n == Len(pass.batch)
<1>1. /\ n \in Nat /\ Len(BatchLens) = n /\ pass.layer \in Layers
      /\ \A i \in 1 .. n : /\ pass.batch[i] \in Live /\ BatchLens[i] = seq_len[pass.batch[i]]
                           /\ BatchLens[i] \in 1 .. MaxLen /\ StoredIn(pass.batch[i], pass.layer)
  BY BatchFacts
<1>2. /\ p \in (0 .. n - 1) \X (0 .. NumHeads - 1) \X (0 .. NumSeqBlocks(BatchLens) - 1)
      /\ p[3] * SeqBlockSize < BatchLens[p[1] + 1]
  BY <1>1 DEF Programs
<1> HIDE DEF n
<1>3. p[1] + 1 \in 1 .. n /\ p[2] \in Nat /\ p[3] \in Nat
  BY <1>1, <1>2
<1>4. BatchLens[p[1] + 1] = len /\ MaxLen \in Nat
  BY <1>1, <1>3, LentAssumption DEF SequenceOf
<1>5. len \in Nat
  BY <1>1, <1>3, <1>4 DEF SequenceOf
<1> QED BY <1>1, <1>2, <1>3, <1>4, <1>5 DEF SequenceOf, n

(* Those of its tokens that lie in some blocks; and what a loop over those *)
(* blocks of its seq block reads of them.                                  *)
TokensIn(p, S) == {t \in OwnTokens(p) : t \div BlockSize \in S}

ReadsBlocks(p, S, blocks, read) ==
  /\ blocks \in Seq(Nat) /\ IsInjective(blocks)
  /\ Elements(blocks) = Elements(BlocksOfSeqBlock(p[3], seq_len[SequenceOf(p)])) \cap S
  /\ \A b \in Nat \cap S : b * BlockSize < seq_len[SequenceOf(p)]
                            => read[b] = OwnRead(SequenceOf(p), pass.layer, b)

(* A program over some of its blocks adds the tokens that lie in them.     *)
LEMMA ProgramAdds ==
  ASSUME MemoryInv, pass.kind = "decode", pass.stored, NEW p \in Programs(BatchLens),
         NEW D \in SUBSET OwnTokens(p), NEW S, \A t \in D : t \div BlockSize \notin S,
         NEW blocks, NEW read, ReadsBlocks(p, S, blocks, read)
  PROVE  SeqBlockPart(PartOver(p, D), p[2], blocks, read) = PartOver(p, D \cup TokensIn(p, S))
<1> DEFINE r == SequenceOf(p)
           len == seq_len[r]
           s == p[3]
           all == BlocksOfSeqBlock(s, len)
<1>1. /\ r \in Live /\ pass.layer \in Layers /\ StoredIn(r, pass.layer) /\ len \in Nat
      /\ p[2] \in Nat /\ s \in Nat /\ s * SeqBlockSize < len
  BY ProgramFacts
<1>3. /\ blocks \in Seq(Nat) /\ IsInjective(blocks) /\ Elements(blocks) = Elements(all) \cap S
      /\ \A b \in Nat \cap S : b * BlockSize < len => read[b] = OwnRead(r, pass.layer, b)
  BY DEF ReadsBlocks
<1> HIDE DEF r, len, s
<1>2. /\ all \in Seq(Nat) /\ IsInjective(all)
      /\ \A k \in DOMAIN all : all[k] * BlockSize < len
  BY <1>1, SeqBlockBlocks
<1> HIDE DEF all
<1>4. \A k \in DOMAIN blocks : blocks[k] \in Elements(blocks) /\ blocks[k] \in Nat
  BY <1>3 DEF Elements
<1>5. \A b \in Elements(blocks) : b \in Nat /\ b \in S /\ b * BlockSize < len
  <2>1. \A b \in Elements(all) : b \in Nat /\ b * BlockSize < len
    BY <1>2 DEF Elements
  <2> QED BY <1>3, <2>1
<1>6. \A b \in Elements(blocks) : read[b] = OwnRead(r, pass.layer, b)
  BY <1>3, <1>5
<1>7. D \in SUBSET (0 .. len - 1) /\ \A t \in D : t \div BlockSize \notin Elements(blocks)
  <2>1. OwnTokens(p) \subseteq 0 .. len - 1
    BY DEF OwnTokens, TokensOfSeqBlock, len, r
  <2> QED BY <1>5, <2>1
<1>8. {t \in 0 .. len - 1 : t \div BlockSize \in Elements(blocks)} = {t \in OwnTokens(p) : t \div BlockSize \in S}
  <2>1. OwnTokens(p) = TokensOfSeqBlock(len, s)
    BY DEF OwnTokens, len, r, s
  <2>2. \A t \in 0 .. len - 1 : t \div BlockSize \in Elements(all) <=> t \in TokensOfSeqBlock(len, s)
    BY <1>1, SeqBlockTokens DEF all
  <2>3. TokensOfSeqBlock(len, s) \subseteq 0 .. len - 1
    BY DEF TokensOfSeqBlock
  <2> QED BY <1>3, <2>1, <2>2, <2>3, Zenon
<1>9. SeqBlockPart(PartOf(p[2], TokenCells(r, pass.layer, D)), p[2], blocks, read)
        = PartOf(p[2], TokenCells(r, pass.layer, D \cup {t \in 0 .. len - 1 : t \div BlockSize \in Elements(blocks)}))
  <2>1. \A k \in DOMAIN blocks : blocks[k] * BlockSize < seq_len[r]
    BY <1>4, <1>5 DEF len
  <2>2. D \in SUBSET (0 .. seq_len[r] - 1)
    BY <1>7 DEF len
  <2> QED BY <1>1, <1>3, <1>6, <1>7, <2>1, <2>2, PhaseOne DEF len
<1> QED BY <1>8, <1>9 DEF PartOver, TokensIn, r

(* The combined kernel, where it finds the tensors of the blocks.          *)
FindsTensors(p) ==
  \A kv \in KV : \A block \in Nat : block * BlockSize < seq_len[SequenceOf(p)] =>
    CombinedAddress(Caches, kv, Table[SequenceOf(p)][block + 1], pass.layer, 0)
      = BlockStart(SequenceOf(p), pass.layer, kv, block)

CombinedRead(p, blocks) ==
  [block \in ToSet(blocks) |->
    ReadBlock(mem, block, BatchLens[p[1] + 1],
              CombinedAddress(Caches, "k", Table[pass.batch[p[1] + 1]][block + 1], pass.layer, 0),
              CombinedAddress(Caches, "v", Table[pass.batch[p[1] + 1]][block + 1], pass.layer, 0))]

(* Then the row of each program has all its tokens.                        *)
LEMMA CombinedMidIs ==
  ASSUME MemoryInv, pass.kind = "decode", pass.stored, NEW p \in Programs(BatchLens),
         Len(BatchLens) \in Nat, NumSeqBlocks(BatchLens) \in Nat, FindsTensors(p)
  PROVE  CombinedMid(mem, Caches, Table, pass.batch, BatchLens, pass.layer)[Row(BatchLens, p)]
           = PartOver(p, OwnTokens(p))
<1> DEFINE r == SequenceOf(p)
           len == seq_len[r]
           blocks == BlocksOfSeqBlock(p[3], len)
           S == Elements(blocks)
           Part(q) == SeqBlockPart(Fresh, q[2], BlocksOfSeqBlock(q[3], BatchLens[q[1] + 1]),
                                   CombinedRead(q, BlocksOfSeqBlock(q[3], BatchLens[q[1] + 1])))
           part == [q \in Programs(BatchLens) |-> Part(q)]
<1>1. /\ r \in Live /\ len \in Nat /\ BatchLens[p[1] + 1] = len /\ p[2] \in Nat
      /\ p[3] \in Nat /\ p[3] * SeqBlockSize < len
  BY ProgramFacts
<1>2. CombinedMid(mem, Caches, Table, pass.batch, BatchLens, pass.layer) = RowsOf(BatchLens, Unwritten, part)
  BY Zenon DEF CombinedMid, CombinedRead
<1>3. RowsOf(BatchLens, Unwritten, part)[Row(BatchLens, p)] = part[p]
  <2> HIDE DEF part
  <2> QED BY RowOfProgram
<1>4. part[p] = SeqBlockPart(Fresh, p[2], blocks, CombinedRead(p, blocks))
  BY <1>1
<1> HIDE DEF part
<1>5. blocks \in Seq(Nat) /\ IsInjective(blocks) /\ S = S \cap S
  BY <1>1, SeqBlockBlocks
<1>6. Fresh = PartOver(p, {})
  BY FreshIs, Zenon DEF PartOver
<1>7. ASSUME NEW b \in Nat \cap S, b * BlockSize < len
      PROVE  CombinedRead(p, blocks)[b] = OwnRead(r, pass.layer, b)
  <2>1. b \in ToSet(blocks)
    BY DEF Elements, ToSet
  <2>2. "k" \in KV /\ "v" \in KV
    BY DEF KV
  <2> HIDE DEF blocks
  <2> QED BY <1>1, <1>7, <2>1, <2>2 DEF CombinedRead, OwnRead, FindsTensors, SequenceOf
<1>8. {t \in OwnTokens(p) : t \div BlockSize \in S} = OwnTokens(p)
  <2>1. OwnTokens(p) = TokensOfSeqBlock(len, p[3]) /\ OwnTokens(p) \subseteq 0 .. len - 1
    BY DEF OwnTokens, TokensOfSeqBlock
  <2>2. \A t \in 0 .. len - 1 : t \div BlockSize \in S <=> t \in TokensOfSeqBlock(len, p[3])
    BY <1>1, SeqBlockTokens
  <2> QED BY <2>1, <2>2, Zenon
<1>9. SeqBlockPart(PartOver(p, {}), p[2], blocks, CombinedRead(p, blocks)) = PartOver(p, {} \cup TokensIn(p, S))
  <2>1. ReadsBlocks(p, S, blocks, CombinedRead(p, blocks))
    BY <1>5, <1>7 DEF ReadsBlocks
  <2>2. {} \in SUBSET OwnTokens(p) /\ \A t \in {} : t \div BlockSize \notin S
    OBVIOUS
  <2> HIDE DEF S, blocks
  <2> QED BY <2>1, <2>2, ProgramAdds
<1>10. {} \cup TokensIn(p, S) = OwnTokens(p)
  BY <1>8 DEF TokensIn
<1> HIDE DEF S, blocks
<1> QED BY <1>2, <1>3, <1>4, <1>6, <1>9, <1>10, Zenon

-----------------------------------------------------------------------------
(* One launch after the other                                              *)

(* The tensor a block of the sequence lies in, and the tokens of a program *)
(* in the tensors of some launches, which are numbered from 1 here.        *)
TensorOfBlock(p, block) == TensorOfIndex(Table[SequenceOf(p)][block + 1])

Done(p, s) == {t \in OwnTokens(p) : TensorOfBlock(p, t \div BlockSize) + 1 \in s}

LaunchedIndex(p, launch, block) == LaunchTable(Caches, launch, Table[pass.batch[p[1] + 1]][block + 1])

LaunchedBlocks(p, launch) ==
  LET all == BlocksOfSeqBlock(p[3], BatchLens[p[1] + 1])
  IN  Keep(all, {block \in ToSet(all) : LaunchedIndex(p, launch, block) # -1})

LaunchedRead(p, launch) ==
  [block \in ToSet(LaunchedBlocks(p, launch)) |->
    ReadBlock(mem, block, BatchLens[p[1] + 1],
              LaunchBase(Caches, "k", launch) + SlotOf(LaunchedIndex(p, launch, block), pass.layer, 0),
              LaunchBase(Caches, "v", launch) + SlotOf(LaunchedIndex(p, launch, block), pass.layer, 0))]

(* A launch sees the blocks of its own tensor, where they are.             *)
LEMMA LaunchSees ==
  ASSUME MemoryInv, pass.kind = "decode", pass.stored, NEW p \in Programs(BatchLens),
         NEW launch \in 0 .. Len(kv_groups), NEW block \in Nat, block * BlockSize < seq_len[SequenceOf(p)]
  PROVE  /\ LaunchedIndex(p, launch, block) # -1 <=> TensorOfBlock(p, block) = launch
         /\ TensorOfBlock(p, block) \in 0 .. Len(kv_groups)
         /\ TensorOfBlock(p, block) = launch =>
              \A kv \in KV : LaunchBase(Caches, kv, launch) + SlotOf(LaunchedIndex(p, launch, block), pass.layer, 0)
                               = BlockStart(SequenceOf(p), pass.layer, kv, block)
<1> DEFINE r == SequenceOf(p)
           i == Table[r][block + 1]
<1>1. r \in Live /\ pass.layer \in Layers /\ GroupsInv
  BY ProgramFacts DEF MemoryInv
<1>2. i \in 0 .. PoolSize - 1
  BY <1>1, BlockIsIn
<1>3. LaunchedIndex(p, launch, block) = LaunchTable(Caches, launch, i) /\ TensorOfBlock(p, block) = TensorOfIndex(i)
  BY DEF LaunchedIndex, SequenceOf, TensorOfBlock
<1>4. /\ PoolSize \in Nat /\ Caches.groups = kv_groups /\ Caches.num_blocks_org \in Nat
      /\ Caches.kv_cache_new_block_size \in Nat /\ Len(kv_groups) \in Nat
  BY <1>1, PoolSizeIsNat DEF Caches
<1>5. \A kv : BlockStart(r, pass.layer, kv, block) = OwnAddress(Caches, kv, i, pass.layer, 0)
  BY DEF BlockStart
<1> HIDE DEF i, r
<1>6. /\ TensorOfIndex(i) \in 0 .. Len(kv_groups)
      /\ LaunchTable(Caches, TensorOfIndex(i), i) = LocalIndex(i) /\ LocalIndex(i) >= 0
      /\ LaunchTable(Caches, launch, i) >= 0 => launch = TensorOfIndex(i)
  BY <1>1, <1>2, <1>4, LaunchOfBlock DEF ExplicitLaunches
<1>7. LaunchTable(Caches, launch, i) = -1 \/ LaunchTable(Caches, launch, i) >= 0
  <2>1. i \in Nat
    BY <1>2, <1>4
  <2>2. CASE launch = 0
    BY <2>1, <2>2 DEF LaunchTable, OriginalTable
  <2>3. CASE launch # 0
    <3> DEFINE start == Caches.num_blocks_org + (launch - 1) * Caches.kv_cache_new_block_size
               d == Caches.kv_cache_new_block_size
    <3>1. start \in Nat /\ d \in Nat
      <4>1. launch - 1 \in Nat
        BY <2>3
      <4>2. (launch - 1) * Caches.kv_cache_new_block_size \in Nat
        BY <1>4, <4>1
      <4> QED BY <1>4, <4>2
    <3>2. LaunchTable(Caches, launch, i) = IF i < start \/ i >= start + d THEN -1 ELSE i - start
      BY <2>3 DEF LaunchTable, LocalTable
    <3> HIDE DEF start, d
    <3> QED BY <2>1, <3>1, <3>2
  <2> QED BY <2>2, <2>3
<1>8. LocalIndex(i) # -1
  BY <1>6
<1>9. ASSUME TensorOfIndex(i) = launch, NEW kv \in KV
      PROVE  LaunchBase(Caches, kv, launch) + SlotOf(LaunchTable(Caches, launch, i), pass.layer, 0)
               = OwnAddress(Caches, kv, i, pass.layer, 0)
  <2>1. i \in 0 .. NumBlocksOrg + Len(kv_groups) * GroupSize - 1 /\ 0 \in 0 .. BlockSize - 1
    <3>1. 0 .. PoolSize - 1 = 0 .. NumBlocksOrg + Len(kv_groups) * GroupSize - 1
      BY <1>1, PoolRange
    <3>2. 0 \in 0 .. BlockSize - 1
      BY SeqBlockSizes
    <3> QED BY <1>2, <3>1, <3>2, Zenon
  <2>2. OwnAddress(Caches, kv, i, pass.layer, 0) = Base(kv, TensorOfIndex(i)) + SlotOf(LocalIndex(i), pass.layer, 0)
    BY <1>1, <2>1, SlotPlace
  <2> QED BY <1>6, <1>9, <2>2, Zenon DEF Base
<1> QED BY <1>3, <1>5, <1>6, <1>7, <1>8, <1>9, Zenon DEF i, r

(* A launch adds the tokens of its own tensor.                             *)
LEMMA LaunchAdds ==
  ASSUME MemoryInv, pass.kind = "decode", pass.stored, NEW p \in Programs(BatchLens),
         NEW s \in SUBSET (1 .. Len(kv_groups) + 1), NEW j \in s
  PROVE  SeqBlockPart(PartOver(p, Done(p, s \ {j})), p[2], LaunchedBlocks(p, j - 1), LaunchedRead(p, j - 1))
           = PartOver(p, Done(p, s))
<1> DEFINE r == SequenceOf(p)
           len == seq_len[r]
           launch == j - 1
           all == BlocksOfSeqBlock(p[3], len)
           S == {block \in ToSet(all) : LaunchedIndex(p, launch, block) # -1}
           D == Done(p, s \ {j})
           blocks == LaunchedBlocks(p, launch)
           read == LaunchedRead(p, launch)
<1>1. /\ r \in Live /\ len \in Nat /\ BatchLens[p[1] + 1] = len
      /\ p[3] \in Nat /\ p[3] * SeqBlockSize < len /\ GroupsInv
  BY ProgramFacts DEF MemoryInv
<1>2. launch \in 0 .. Len(kv_groups) /\ j = launch + 1 /\ j \in Int
  <2>1. Len(kv_groups) \in Nat
    BY <1>1, PoolSizeIsNat
  <2> QED BY <2>1
<1> HIDE DEF launch
<1>3. blocks = Keep(all, S)
  BY <1>1 DEF LaunchedBlocks
<1>4. /\ all \in Seq(Nat) /\ IsInjective(all)
      /\ \A b \in Elements(all) : b \in Nat /\ b * BlockSize < len
  <2>1. /\ all \in Seq(Nat) /\ IsInjective(all)
        /\ \A k \in DOMAIN all : all[k] * BlockSize < len
    BY <1>1, SeqBlockBlocks
  <2> HIDE DEF all
  <2> QED BY <2>1 DEF Elements
<1>5. ToSet(all) = Elements(all)
  BY DEF ToSet, Elements
<1> HIDE DEF all
<1>6. /\ blocks \in Seq(Nat) /\ IsInjective(blocks) /\ Elements(blocks) = Elements(all) \cap S
  <2> HIDE DEF S, blocks
  <2> QED BY <1>3, <1>4, KeepList
<1> HIDE DEF blocks
<1>7. \A b \in Elements(all) : b \in S <=> TensorOfBlock(p, b) = launch
  <2>1. \A b \in Elements(all) : LaunchedIndex(p, launch, b) # -1 <=> TensorOfBlock(p, b) = launch
    BY <1>2, <1>4, LaunchSees
  <2> QED BY <1>5, <2>1
<1>8. ReadsBlocks(p, S, blocks, read)
  <2>1. ASSUME NEW b \in Nat \cap S, b * BlockSize < len
        PROVE  read[b] = OwnRead(r, pass.layer, b)
    <3>1. b \in ToSet(blocks) /\ TensorOfBlock(p, b) = launch
      <4>1. b \in Elements(all)
        BY <1>5
      <4> HIDE DEF S
      <4>2. b \in Elements(blocks)
        BY <1>6, <2>1, <4>1
      <4> QED BY <1>7, <2>1, <4>1, <4>2 DEF ToSet, Elements
    <3>2. \A kv \in KV : LaunchBase(Caches, kv, launch) + SlotOf(LaunchedIndex(p, launch, b), pass.layer, 0)
                           = BlockStart(r, pass.layer, kv, b)
      BY <1>2, <2>1, <3>1, LaunchSees
    <3>3. "k" \in KV /\ "v" \in KV
      BY DEF KV
    <3>4. b \in ToSet(LaunchedBlocks(p, launch))
      BY <3>1 DEF blocks
    <3>5. read[b] = ReadBlock(mem, b, BatchLens[p[1] + 1],
              LaunchBase(Caches, "k", launch) + SlotOf(LaunchedIndex(p, launch, b), pass.layer, 0),
              LaunchBase(Caches, "v", launch) + SlotOf(LaunchedIndex(p, launch, b), pass.layer, 0))
      BY <3>4, Zenon DEF LaunchedRead
    <3> HIDE DEF read
    <3> QED BY <1>1, <3>2, <3>3, <3>5, Zenon DEF OwnRead
  <2> HIDE DEF S, read
  <2> QED BY <1>6, <2>1 DEF ReadsBlocks, all
<1>9. ASSUME NEW t \in OwnTokens(p)
      PROVE  /\ t \div BlockSize \in Elements(all)
             /\ TensorOfBlock(p, t \div BlockSize) \in Int
  <2>1. t \in 0 .. len - 1 /\ t \in TokensOfSeqBlock(len, p[3])
    BY DEF OwnTokens, TokensOfSeqBlock
  <2> DEFINE b == t \div BlockSize
  <2>2. b \in Elements(all) /\ b \in Nat /\ b * BlockSize < len
    BY <1>1, <2>1, SeqBlockTokens DEF all
  <2> HIDE DEF b
  <2>3. TensorOfBlock(p, b) \in 0 .. Len(kv_groups)
    BY <1>2, <2>2, LaunchSees
  <2> QED BY <2>2, <2>3 DEF b
<1>10. D \in SUBSET OwnTokens(p) /\ \A t \in D : t \div BlockSize \notin S
  <2>1. \A t \in D : t \in OwnTokens(p) /\ TensorOfBlock(p, t \div BlockSize) + 1 # j
    BY DEF Done
  <2> HIDE DEF D, S
  <2>2. \A t \in D : TensorOfBlock(p, t \div BlockSize) # launch
    BY <1>2, <2>1
  <2> QED BY <1>7, <1>9, <2>1, <2>2
<1>11. D \cup TokensIn(p, S) = Done(p, s)
  <2>1. ASSUME NEW t \in OwnTokens(p)
        PROVE  t \div BlockSize \in S <=> TensorOfBlock(p, t \div BlockSize) + 1 = j
    <3> HIDE DEF S
    <3> QED BY <1>2, <1>7, <1>9
  <2> HIDE DEF S
  <2> QED BY <2>1 DEF TokensIn, Done
<1> HIDE DEF D, S, read
<1>12. SeqBlockPart(PartOver(p, D), p[2], blocks, read) = PartOver(p, D \cup TokensIn(p, S))
  BY <1>8, <1>10, ProgramAdds
<1> QED BY <1>11, <1>12, Zenon DEF D, blocks, read, launch

(* What the buffers hold after some of the launches.                       *)
AfterLaunches(s) ==
  RowsOf(BatchLens, Fresh, [p \in Programs(BatchLens) |-> PartOver(p, Done(p, s))])

(* A launch goes from what the others have left to what it leaves.         *)
LEMMA LaunchedIs ==
  ASSUME MemoryInv, pass.kind = "decode", pass.stored,
         Len(BatchLens) \in Nat, NumSeqBlocks(BatchLens) \in Nat,
         NEW s \in SUBSET (1 .. Len(kv_groups) + 1), NEW j \in s
  PROVE  Launched(mem, Caches, Table, pass.batch, BatchLens, pass.layer, AfterLaunches(s \ {j}), j - 1)
           = AfterLaunches(s)
<1> DEFINE buffers == AfterLaunches(s \ {j})
           launch == j - 1
           Part(p) == SeqBlockPart(buffers[Row(BatchLens, p)], p[2], LaunchedBlocks(p, launch), LaunchedRead(p, launch))
           part == [p \in Programs(BatchLens) |-> Part(p)]
           before == [p \in Programs(BatchLens) |-> PartOver(p, Done(p, s \ {j}))]
           after == [p \in Programs(BatchLens) |-> PartOver(p, Done(p, s))]
<1> HIDE DEF buffers, launch
<1>1. Launched(mem, Caches, Table, pass.batch, BatchLens, pass.layer, buffers, launch)
        = RowsOf(BatchLens, Fresh, part)
  BY Zenon DEF Launched, LaunchedBlocks, LaunchedRead, LaunchedIndex
<1>2. ASSUME NEW p \in Programs(BatchLens)
      PROVE  Part(p) = PartOver(p, Done(p, s))
  <2>1. buffers[Row(BatchLens, p)] = before[p]
    <3> HIDE DEF before
    <3>1. RowsOf(BatchLens, Fresh, before)[Row(BatchLens, p)] = before[p]
      BY RowOfProgram
    <3> QED BY <3>1, Zenon DEF buffers, AfterLaunches, before
  <2>2. before[p] = PartOver(p, Done(p, s \ {j}))
    OBVIOUS
  <2> HIDE DEF before
  <2>3. SeqBlockPart(PartOver(p, Done(p, s \ {j})), p[2], LaunchedBlocks(p, launch), LaunchedRead(p, launch))
          = PartOver(p, Done(p, s))
    BY LaunchAdds, Zenon DEF launch
  <2> QED BY <2>1, <2>2, <2>3, Zenon
<1>3. part = after
  BY <1>2, Zenon
<1> QED BY <1>1, <1>3, Zenon DEF AfterLaunches, buffers, launch

(* Before the first launch nothing is done, after the last everything is.  *)
LEMMA LaunchesStart ==
  AfterLaunches({}) = [row \in Rows(BatchLens) |-> Fresh]
<1> DEFINE part == [p \in Programs(BatchLens) |-> PartOver(p, Done(p, {}))]
<1>1. \A p \in Programs(BatchLens) : part[p] = Fresh
  <2> TAKE p \in Programs(BatchLens)
  <2>1. Done(p, {}) = {}
    BY DEF Done
  <2>2. PartOver(p, {}) = Fresh
    BY FreshIs, Zenon DEF PartOver
  <2> QED BY <2>1, <2>2, Zenon
<1> HIDE DEF part
<1>2. \A row \in Rows(BatchLens) :
        (IF \E p \in Programs(BatchLens) : Row(BatchLens, p) = row
           THEN part[CHOOSE p \in Programs(BatchLens) : Row(BatchLens, p) = row] ELSE Fresh) = Fresh
  BY <1>1, Zenon
<1>3. RowsOf(BatchLens, Fresh, part) = [row \in Rows(BatchLens) |-> Fresh]
  BY <1>2, Zenon DEF RowsOf
<1> QED BY <1>3, Zenon DEF AfterLaunches, part

(* The tensors of the launches are all there are.                          *)
LEMMA LaunchesEnd ==
  ASSUME MemoryInv, pass.kind = "decode", pass.stored, NEW p \in Programs(BatchLens)
  PROVE  Done(p, 1 .. Len(kv_groups) + 1) = OwnTokens(p)
<1>1. ASSUME NEW t \in OwnTokens(p)
      PROVE  TensorOfBlock(p, t \div BlockSize) + 1 \in 1 .. Len(kv_groups) + 1
  <2> DEFINE b == t \div BlockSize
             len == seq_len[SequenceOf(p)]
  <2>1. /\ len \in Nat /\ p[3] \in Nat /\ p[3] * SeqBlockSize < len /\ GroupsInv
    BY ProgramFacts DEF MemoryInv
  <2>2. t \in 0 .. len - 1
    BY DEF OwnTokens, TokensOfSeqBlock
  <2>3. b \in Nat /\ b * BlockSize < len
    <3> HIDE DEF len
    <3> QED BY <2>1, <2>2, SeqBlockTokens
  <2>4. Len(kv_groups) \in Nat /\ 0 \in 0 .. Len(kv_groups)
    BY <2>1, PoolSizeIsNat
  <2> HIDE DEF b
  <2>5. TensorOfBlock(p, b) \in 0 .. Len(kv_groups)
    BY <2>3, <2>4, LaunchSees
  <2> QED BY <2>4, <2>5 DEF b
<1> QED BY <1>1 DEF Done

(* The launches together leave every row as one launch over all its blocks *)
(* would.                                                                  *)
LEMMA BuffersAre ==
  ASSUME MemoryInv, pass.kind = "decode", pass.stored,
         Len(BatchLens) \in Nat, NumSeqBlocks(BatchLens) \in Nat
  PROVE  Buffers(mem, Caches, Table, pass.batch, BatchLens, pass.layer)
           = AfterLaunches(1 .. Len(kv_groups) + 1)
<1> DEFINE T == 1 .. Len(kv_groups) + 1
           base == [row \in Rows(BatchLens) |-> Fresh]
           seq == [i \in T |-> i]
           step(b, j) == Launched(mem, Caches, Table, pass.batch, BatchLens, pass.layer, b, j - 1)
           Unfold(g) == [s \in SUBSET T |-> IF s = {} THEN base ELSE step(g[s \ {Max(s)}], seq[Max(s)])]
           G == [s \in SUBSET T |-> AfterLaunches(s)]
           H == CHOOSE g : g = Unfold(g)
<1>1. Len(kv_groups) \in Nat /\ Caches.groups = kv_groups
  BY PoolSizeIsNat DEF MemoryInv, Caches
<1>2. IsFiniteSet(T)
  <2>1. 1 \in Int /\ Len(kv_groups) + 1 \in Int
    BY <1>1
  <2> QED BY <2>1, FS_Interval, Zenon
<1>3. ASSUME NEW s \in SUBSET T, s # {}
      PROVE  Max(s) \in s /\ Max(s) \in T /\ s \ {Max(s)} \in SUBSET T /\ seq[Max(s)] = Max(s)
  <2>1. Len(kv_groups) + 1 \in Nat
    BY <1>1
  <2>2. Max(s) \in s
    BY <1>3, <2>1, MaxIn
  <2> QED BY <2>2
<1>4. ASSUME NEW s \in SUBSET T, s # {}
      PROVE  step(AfterLaunches(s \ {Max(s)}), seq[Max(s)]) = AfterLaunches(s)
  <2>1. step(AfterLaunches(s \ {Max(s)}), Max(s)) = AfterLaunches(s)
    BY <1>3, <1>4, LaunchedIs
  <2> QED BY <1>3, <1>4, <2>1, Zenon
<1> HIDE DEF step, seq, base
<1>5. G = Unfold(G)
  <2>1. ASSUME NEW s \in SUBSET T PROVE G[s] = Unfold(G)[s]
    <3>1. CASE s = {}
      BY <3>1, LaunchesStart DEF base
    <3>2. CASE s # {}
      BY <1>3, <1>4, <3>2, Zenon
    <3> QED BY <3>1, <3>2, Zenon
  <2> HIDE DEF T
  <2> QED BY <2>1, Zenon
<1>6. H = Unfold(H)
  <2> HIDE DEF G, Unfold
  <2> QED BY <1>5, Zenon
<1>7. Buffers(mem, Caches, Table, pass.batch, BatchLens, pass.layer) = H[T]
  <2>1. FoldLeft(step, base, seq) = H[T]
    <3>1. DOMAIN seq = T
      BY DEF seq
    <3> HIDE DEF T
    <3> QED BY <3>1, Zenon DEF FoldLeft, MapThenFoldSet
  <2> QED BY <1>1, <2>1, Zenon DEF Buffers, step, base, seq
<1>8. H[T] = G[T]
  <2> HIDE DEF H, G, Unfold, T
  <2>1. H[{}] = G[{}]
    <3>1. {} \in SUBSET T
      OBVIOUS
    <3>2. \A g : Unfold(g)[{}] = base
      BY <3>1, Zenon DEF Unfold
    <3> QED BY <1>5, <1>6, <3>2, Zenon
  <2>2. ASSUME NEW s \in SUBSET T, s # {}
        PROVE  \E x \in s : H[s \ {x}] = G[s \ {x}] => H[s] = G[s]
    <3>1. Max(s) \in s
      BY <1>3, <2>2
    <3>2. \A g : Unfold(g)[s] = step(g[s \ {Max(s)}], seq[Max(s)])
      BY <2>2, Zenon DEF Unfold
    <3>3. H[s \ {Max(s)}] = G[s \ {Max(s)}] => H[s] = G[s]
      BY <1>5, <1>6, <3>2, Zenon
    <3> QED BY <3>1, <3>3, Zenon
  <2> QED BY <1>2, <2>1, <2>2, FoldsAgree, Zenon
<1>9. T \in SUBSET T
  OBVIOUS
<1> HIDE DEF H
<1> QED BY <1>7, <1>8, <1>9, Zenon DEF G, T

-----------------------------------------------------------------------------
(* What the second phase is given                                          *)

(* The mid phase copies the row of each program, where there is one        *)
(* sequence or one head.                                                   *)
LEMMA MidPhaseCopies ==
  ASSUME NEW lens, Len(lens) \in Nat, NumSeqBlocks(lens) \in Nat, Len(lens) <= 1 \/ NumHeads = 1,
         NEW buffers, NEW p \in Programs(lens)
  PROVE  MidPhase(lens, buffers)[Row(lens, p)] = buffers[Row(lens, p)]
<1> DEFINE b == p[1]
           h == p[2]
           s == p[3]
<1>1. b \in 0 .. Len(lens) - 1 /\ h \in 0 .. NumHeads - 1 /\ s \in 0 .. NumSeqBlocks(lens) - 1
  BY DEF Programs
<1>2. Row(lens, p) = (b * NumHeads + h) * NumSeqBlocks(lens) + s
  BY DEF Row
<1> HIDE DEF b, h, s
<1>3. b * NumHeads + h = b + h
  <2>1. NumHeads \in Nat /\ b \in Nat /\ h \in Nat /\ (NumHeads = 1 => b * NumHeads = b)
    BY <1>1, SeqBlockSizes
  <2>2. CASE NumHeads = 1
    BY <2>1, <2>2, Zenon
  <2>3. CASE Len(lens) <= 1
    <3>1. b = 0
      BY <1>1, <2>3
    <3> QED BY <2>1, <3>1
  <2> QED BY <2>2, <2>3
<1>4. MidRow(lens, b, h, s) = Row(lens, p)
  BY <1>2, <1>3, Zenon DEF MidRow
<1>5. Row(lens, p) \in Rows(lens)
  BY RowsMet
<1> QED BY <1>1, <1>4, <1>5, Zenon DEF MidPhase

(* The combined kernel finds the tensors, unless explicit regions are used *)
(* and a lent block is in the table.                                       *)
LEMMA CombinedFinds ==
  ASSUME MemoryInv, pass.kind = "decode", pass.stored, NEW p \in Programs(BatchLens), NEW stale \in BOOLEAN,
         ~(explicit_kv_regions /\ LentBlocksUsed(Caches, Table, stale))
  PROVE  FindsTensors(p)
<1> DEFINE r == SequenceOf(p)
<1>1. r \in Live /\ pass.layer \in Layers /\ GroupsInv
  BY ProgramFacts DEF MemoryInv
<1> SUFFICES ASSUME NEW kv \in KV, NEW block \in Nat, block * BlockSize < seq_len[r]
             PROVE  CombinedAddress(Caches, kv, Table[r][block + 1], pass.layer, 0)
                      = BlockStart(r, pass.layer, kv, block)
  BY Zenon DEF FindsTensors
<1> DEFINE i == Table[r][block + 1]
<1>2. r \in Requests /\ block + 1 \in DOMAIN Table[r] /\ i \in 0 .. PoolSize - 1
  BY <1>1, BlockIsIn
<1>3. /\ GroupSize \in Nat /\ Len(kv_groups) \in Nat /\ NumBlocksOrg \in Nat /\ PoolSize \in Nat
      /\ Caches.groups = kv_groups /\ Caches.num_blocks_org = NumBlocksOrg
  BY <1>1, PoolSizeIsNat DEF Caches
<1>4. i \in 0 .. NumBlocksOrg + Len(kv_groups) * GroupSize - 1 /\ 0 \in 0 .. BlockSize - 1
  <2>1. 0 .. PoolSize - 1 = 0 .. NumBlocksOrg + Len(kv_groups) * GroupSize - 1
    BY <1>1, PoolRange
  <2>2. 0 \in 0 .. BlockSize - 1
    BY SeqBlockSizes
  <2> QED BY <1>2, <2>1, <2>2, Zenon
<1>5. BlockStart(r, pass.layer, kv, block) = OwnAddress(Caches, kv, i, pass.layer, 0)
  BY DEF BlockStart
<1>6. i \in ToSet(Table[r]) /\ r \in DOMAIN Table
  BY <1>2 DEF ToSet, Table
<1> HIDE DEF i, r
<1>7. CASE ~explicit_kv_regions
  BY <1>1, <1>4, <1>5, <1>7, GroupsInvReaches, Zenon DEF CombinedReaches, i
<1>8. CASE ~LentBlocksUsed(Caches, Table, stale)
  <2>1. i < NumBlocksOrg
    <3>1. CASE kv_groups = <<>>
      <4>1. Len(kv_groups) * GroupSize = 0
        BY <1>3, <3>1 DEF GroupSize
      <4>2. PoolSize = NumBlocksOrg
        BY <1>3, <4>1 DEF PoolSize
      <4> QED BY <1>2, <1>3, <4>2
    <3>2. CASE kv_groups # <<>>
      <4>1. ~(i >= NumBlocksOrg)
        BY <1>3, <1>6, <1>8, <3>2 DEF LentBlocksUsed
      <4> QED BY <1>2, <1>3, <4>1
    <3> QED BY <3>1, <3>2
  <2> QED BY <1>3, <1>5, <2>1 DEF CombinedAddress, OwnAddress, i
<1> QED BY <1>7, <1>8

(* What phase 2 reads.                                                     *)
Mid(stale) ==
  IF explicit_kv_regions /\ LentBlocksUsed(Caches, Table, stale)
    THEN MidPhase(BatchLens, Buffers(mem, Caches, Table, pass.batch, BatchLens, pass.layer))
    ELSE CombinedMid(mem, Caches, Table, pass.batch, BatchLens, pass.layer)

(* The row of each program has its own tokens, whichever kernels ran.      *)
LEMMA MidIs ==
  ASSUME MemoryInv, pass.kind = "decode", pass.stored, NEW p \in Programs(BatchLens), NEW stale \in BOOLEAN,
         Len(BatchLens) \in Nat, NumSeqBlocks(BatchLens) \in Nat,
         ~(explicit_kv_regions /\ Len(pass.batch) > 1 /\ NumHeads > 1)
  PROVE  Mid(stale)[Row(BatchLens, p)] = PartOver(p, OwnTokens(p))
<1>1. CASE explicit_kv_regions /\ LentBlocksUsed(Caches, Table, stale)
  <2> DEFINE buffers == Buffers(mem, Caches, Table, pass.batch, BatchLens, pass.layer)
             T == 1 .. Len(kv_groups) + 1
             part == [q \in Programs(BatchLens) |-> PartOver(q, Done(q, T))]
  <2>1. Len(BatchLens) <= 1 \/ NumHeads = 1
    <3>1. Len(BatchLens) = Len(pass.batch) /\ Len(pass.batch) \in Nat
      BY BatchFacts
    <3>2. NumHeads \in Nat \ {0}
      BY SeqBlockSizes
    <3> QED BY <1>1, <3>1, <3>2
  <2>2. MidPhase(BatchLens, buffers)[Row(BatchLens, p)] = buffers[Row(BatchLens, p)]
    <3> HIDE DEF buffers
    <3> QED BY <2>1, MidPhaseCopies
  <2>3. buffers = RowsOf(BatchLens, Fresh, part)
    BY BuffersAre, Zenon DEF AfterLaunches
  <2>4. RowsOf(BatchLens, Fresh, part)[Row(BatchLens, p)] = part[p]
    <3> HIDE DEF part
    <3> QED BY RowOfProgram
  <2>5. part[p] = PartOver(p, OwnTokens(p))
    BY LaunchesEnd, Zenon
  <2> HIDE DEF buffers, part
  <2> QED BY <1>1, <2>2, <2>3, <2>4, <2>5, Zenon DEF Mid, buffers
<1>2. CASE ~(explicit_kv_regions /\ LentBlocksUsed(Caches, Table, stale))
  BY <1>2, CombinedFinds, CombinedMidIs, Zenon DEF Mid
<1> QED BY <1>1, <1>2

-----------------------------------------------------------------------------
(* The second phase                                                        *)

MergedBag(parts, top) ==
  FoldLeft(LAMBDA bag, part : bag (+) ScaledBag(part.acc, part.max, top), EmptyBag, parts)

MergedSum(parts, top) ==
  SumFunction([s \in DOMAIN parts |-> Scaled(parts[s].sum, parts[s].max, top)])

TilesOf(cells, n) == UNION {cells[k] : k \in 1 .. n}

(* Sets of cells, no two with a cell in common.                            *)
CellsApart(head, cells, n, top) ==
  /\ \A k \in 1 .. n : Scored(head, cells[k]) /\ TopOf(head, cells[k]) <= top
  /\ \A j, k \in 1 .. n : j # k => cells[j] \cap cells[k] = {}

(* Merging the parts of sets of cells gives the part of all of them.       *)
LEMMA MergeAdds ==
  ASSUME NEW head, NEW n \in Nat, NEW cells, NEW top \in -1 .. MaxScore, CellsApart(head, cells, n, top),
         NEW parts, DOMAIN parts = 1 .. n, \A k \in 1 .. n : parts[k] = PartOf(head, cells[k])
  PROVE  /\ Scored(head, TilesOf(cells, n))
         /\ MergedBag(parts, top) = BagOf(head, TilesOf(cells, n), top)
         /\ MergedSum(parts, top) = Mass(head, TilesOf(cells, n), top)
<1> DEFINE T == 1 .. n
           base == EmptyBag
           step(bag, part) == bag (+) ScaledBag(part.acc, part.max, top)
           Unfold(g) == [s \in SUBSET T |-> IF s = {} THEN base ELSE step(g[s \ {Max(s)}], parts[Max(s)])]
           Taken(s) == UNION {cells[k] : k \in s}
           G == [s \in SUBSET T |-> BagOf(head, Taken(s), top)]
           H == CHOOSE g : g = Unfold(g)
<1>a. /\ \A k \in T : Scored(head, cells[k]) /\ TopOf(head, cells[k]) <= top
      /\ \A j, k \in T : j # k => cells[j] \cap cells[k] = {}
  BY DEF CellsApart
<1>1. IsFiniteSet(T)
  <2>1. 1 \in Int /\ n \in Int
    OBVIOUS
  <2> QED BY <2>1, FS_Interval, Zenon
<1>2. ASSUME NEW s \in SUBSET T
      PROVE  Scored(head, Taken(s))
  <2> DEFINE m == [k \in s |-> cells[k]]
             U == {cells[k] : k \in s}
  <2>1. IsFiniteSet(s)
    BY <1>1, FS_Subset, Zenon
  <2>2. m \in Surjection(s, U)
    BY Zenon DEF Surjection
  <2>3. IsFiniteSet(U)
    <3> HIDE DEF m, U
    <3> QED BY <2>1, <2>2, FS_Surjection, Zenon
  <2>4. \A u \in U : IsFiniteSet(u)
    BY <1>a DEF Scored
  <2>5. IsFiniteSet(UNION U)
    <3> HIDE DEF U
    <3> QED BY <2>3, <2>4, FS_UNION, Zenon
  <2>6. \A c \in Taken(s) : Score(head, c[1]) \in 0 .. MaxScore
    BY <1>a DEF Scored
  <2> QED BY <2>5, <2>6 DEF Scored
<1>3. ASSUME NEW s \in SUBSET T, s # {} PROVE Max(s) \in s
  BY <1>3, MaxIn
<1>4. ASSUME NEW s \in SUBSET T, NEW x \in s
      PROVE  step(BagOf(head, Taken(s \ {x}), top), parts[x]) = BagOf(head, Taken(s), top)
  <2>1. s \ {x} \in SUBSET T /\ x \in T
    OBVIOUS
  <2>2. Taken(s) = Taken(s \ {x}) \cup cells[x] /\ Taken(s \ {x}) \cap cells[x] = {}
    BY <1>a
  <2>3. Scored(head, Taken(s \ {x})) /\ Scored(head, cells[x]) /\ TopOf(head, cells[x]) <= top
    BY <1>2, <1>a, <2>1
  <2> HIDE DEF Taken
  <2> DEFINE A == Taken(s \ {x})
             B == cells[x]
             part == parts[x]
  <2>4. part = PartOf(head, B)
    BY <2>1
  <2>5. Scored(head, A) /\ Scored(head, B) /\ TopOf(head, B) <= top /\ A \cap B = {} /\ Taken(s) = A \cup B
    BY <2>2, <2>3
  <2> HIDE DEF A, B, part
  <2>6. ScaledBag(part.acc, part.max, top) = BagOf(head, B, top)
    BY <2>4, <2>5, PartScales
  <2>7. BagOf(head, A, top) (+) BagOf(head, B, top) = BagOf(head, A \cup B, top)
    <3>1. top \in -1 .. MaxScore /\ Scored(head, A) /\ Scored(head, B) /\ A \cap B = {}
      BY <2>5
    <3> QED BY <3>1, BagsAdd, SMTT(30)
  <2> QED BY <2>5, <2>6, <2>7, Zenon DEF A, part
<1>5. G = Unfold(G)
  <2>1. ASSUME NEW s \in SUBSET T PROVE G[s] = Unfold(G)[s]
    <3>1. CASE s = {}
      <4>1. Taken({}) = {}
        OBVIOUS
      <4> HIDE DEF Taken
      <4>2. BagOf(head, {}, top) = EmptyBag
        BY DEF BagOf, EmptyBag, SetToBag
      <4> QED BY <3>1, <4>1, <4>2, Zenon
    <3>2. CASE s # {}
      <4>1. Max(s) \in s
        BY <1>3, <3>2
      <4>2. s \ {Max(s)} \in SUBSET T
        OBVIOUS
      <4> HIDE DEF Taken, step
      <4>3. step(BagOf(head, Taken(s \ {Max(s)}), top), parts[Max(s)]) = BagOf(head, Taken(s), top)
        BY <1>4, <4>1, Zenon
      <4> QED BY <3>2, <4>2, <4>3, Zenon
    <3> QED BY <3>1, <3>2, Zenon
  <2> HIDE DEF Taken, step
  <2> QED BY <2>1, Zenon
<1>6. H = Unfold(H)
  <2> HIDE DEF G, Unfold
  <2> QED BY <1>5, Zenon
<1>7. MergedBag(parts, top) = H[T]
  BY Zenon DEF MergedBag, FoldLeft, MapThenFoldSet
<1>8. H[T] = G[T]
  <2> HIDE DEF H, G, Unfold
  <2>1. H[{}] = G[{}]
    <3>1. {} \in SUBSET T
      OBVIOUS
    <3>2. \A g : Unfold(g)[{}] = base
      BY <3>1, Zenon DEF Unfold
    <3> QED BY <1>5, <1>6, <3>2, Zenon
  <2>2. ASSUME NEW s \in SUBSET T, s # {}
        PROVE  \E x \in s : H[s \ {x}] = G[s \ {x}] => H[s] = G[s]
    <3>1. Max(s) \in s
      BY <1>3, <2>2
    <3>2. \A g : Unfold(g)[s] = step(g[s \ {Max(s)}], parts[Max(s)])
      BY <2>2, Zenon DEF Unfold
    <3> HIDE DEF step
    <3>3. H[s \ {Max(s)}] = G[s \ {Max(s)}] => H[s] = G[s]
      BY <1>5, <1>6, <3>2, Zenon
    <3> QED BY <3>1, <3>3, Zenon
  <2> QED BY <1>1, <2>1, <2>2, FoldsAgree, Zenon
<1>9. T \in SUBSET T /\ Taken(T) = TilesOf(cells, n)
  BY DEF TilesOf
<1> HIDE DEF H, Taken
<1>10. Scored(head, TilesOf(cells, n)) /\ MergedBag(parts, top) = BagOf(head, TilesOf(cells, n), top)
  BY <1>2, <1>7, <1>8, <1>9, Zenon
<1>11. MergedSum(parts, top) = Mass(head, TilesOf(cells, n), top)
  <2> DEFINE all == TilesOf(cells, n)
             f == BagOf(head, all, top)
             h == [k \in T |-> SumFunctionOnSet(f, cells[k])]
  <2>1. ASSUME NEW k \in T
        PROVE  /\ IsFiniteSet(cells[k]) /\ \A c \in cells[k] : f[c] \in Nat
               /\ Scaled(parts[k].sum, parts[k].max, top) = SumFunctionOnSet(f, cells[k])
    <3> DEFINE B == cells[k]
               b == BagOf(head, B, top)
    <3>1. Scored(head, B) /\ TopOf(head, B) <= top /\ parts[k] = PartOf(head, B)
      BY <1>a
    <3>2. \A c \in B : c \in all
      BY DEF TilesOf
    <3> HIDE DEF B, all
    <3>3. Scaled(parts[k].sum, parts[k].max, top) = Mass(head, B, top)
      BY <3>1, PartScales
    <3>4. \A c \in B : b[c] = Unit(top) * 2 ^ Score(head, c[1]) /\ b[c] \in Nat
      BY <3>1, BagValues, Zenon
    <3>5. \A c \in B : f[c] = Unit(top) * 2 ^ Score(head, c[1]) /\ f[c] \in Nat
      BY <1>10, <3>2, BagValues, Zenon DEF all
    <3>6. \A c \in B : b[c] \in Nat /\ f[c] \in Nat /\ b[c] = f[c]
      <4> HIDE DEF b, f
      <4> QED BY <3>4, <3>5, Zenon
    <3>7. IsFiniteSet(B)
      BY <3>1 DEF Scored
    <3> HIDE DEF b, f
    <3>8. SumFunctionOnSet(b, B) = SumFunctionOnSet(f, B)
      BY <3>6, <3>7, SumSame, Zenon
    <3>9. Mass(head, B, top) = SumFunctionOnSet(b, B)
      BY Zenon DEF Mass, b
    <3> QED BY <3>3, <3>6, <3>7, <3>8, <3>9, Zenon DEF B
  <2> HIDE DEF f, all
  <2>2. SumFunctionOnSet(h, T) = SumFunctionOnSet(f, UNION {cells[k] : k \in T})
    BY <1>1, <1>a, <2>1, SumTiles
  <2>3. [s \in DOMAIN parts |-> Scaled(parts[s].sum, parts[s].max, top)] = h
    BY <2>1, Zenon
  <2>4. DOMAIN h = T
    OBVIOUS
  <2> HIDE DEF h
  <2> QED BY <2>2, <2>3, <2>4, Zenon DEF MergedSum, SumFunction, Mass, TilesOf, f, all
<1> QED BY <1>10, <1>11

-----------------------------------------------------------------------------
(* Attention                                                               *)

CellsOfSeqBlocks(r, l, len) ==
  [s \in 1 .. CeilDivide(len, SeqBlockSize) |-> TokenCells(r, l, TokensOfSeqBlock(len, s - 1))]

(* The seq blocks of a sequence have each of its tokens once.              *)
LEMMA SeqBlocksTile ==
  ASSUME NEW r, NEW l, NEW len \in Nat \ {0}, NEW head \in Nat
  PROVE  LET n == CeilDivide(len, SeqBlockSize)
             cells == CellsOfSeqBlocks(r, l, len)
         IN  /\ n \in Nat \ {0} /\ \A s \in 1 .. n : (s - 1) * SeqBlockSize < len
             /\ TilesOf(cells, n) = TokenCells(r, l, 0 .. len - 1)
             /\ \A k \in 1 .. n : Scored(head, cells[k])
             /\ \A j, k \in 1 .. n : j # k => cells[j] \cap cells[k] = {}
<1> DEFINE n == CeilDivide(len, SeqBlockSize)
           cells == CellsOfSeqBlocks(r, l, len)
           of(s) == TokensOfSeqBlock(len, s - 1)
<1>1. /\ SeqBlockSize \in Nat \ {0} /\ BlockSize \in Nat \ {0} /\ BlocksPerSeqBlock \in Nat \ {0}
      /\ SeqBlockSize = BlocksPerSeqBlock * BlockSize
  BY SeqBlockSizes
<1>2. n \in Nat /\ \A s \in Nat : s < n <=> s * SeqBlockSize < len
  BY <1>1, CeilCounts
<1> HIDE DEF n
<1>3. \A s \in 1 .. n : s - 1 \in Nat /\ (s - 1) * SeqBlockSize < len
  BY <1>2
<1>4. n # 0
  <2>1. 0 * SeqBlockSize < len
    BY <1>1
  <2> QED BY <1>2, <2>1
<1>5. \A k \in 1 .. n : cells[k] = TokenCells(r, l, of(k)) /\ of(k) \subseteq 0 .. len - 1
  BY DEF CellsOfSeqBlocks, n, TokensOfSeqBlock
<1>6. ASSUME NEW t \in 0 .. len - 1
      PROVE  \E s \in 1 .. n : t \in of(s)
  <2> DEFINE b == t \div BlockSize
             q == b \div BlocksPerSeqBlock
  <2>1. t \in Nat /\ t < len
    OBVIOUS
  <2>2. b \in Nat /\ b * BlockSize <= t
    BY <1>1, <2>1, Division
  <2>3. q \in Nat /\ q * BlocksPerSeqBlock <= b
    <3> HIDE DEF b
    <3> QED BY <1>1, <2>2, Division
  <2>4. t \in of(q + 1)
    <3>1. (q + 1) - 1 = q
      <4> HIDE DEF q
      <4> QED BY <2>3
    <3>2. t \in TokensOfSeqBlock(len, q)
      BY DEF TokensOfSeqBlock
    <3> HIDE DEF q
    <3> DEFINE x == (q + 1) - 1
    <3>3. of(q + 1) = TokensOfSeqBlock(len, x)
      OBVIOUS
    <3>4. x = q
      BY <3>1
    <3> HIDE DEF x, of
    <3> QED BY <3>2, <3>3, <3>4
  <2> HIDE DEF b, q
  <2>5. q * SeqBlockSize < len
    <3> DEFINE u == q * BlocksPerSeqBlock
    <3>1. u \in Nat /\ u <= b /\ q * SeqBlockSize = u * BlockSize
      BY <1>1, <2>3
    <3> HIDE DEF u
    <3>2. u * BlockSize <= b * BlockSize /\ u * BlockSize \in Nat /\ b * BlockSize \in Nat
      BY <1>1, <2>2, <3>1
    <3> DEFINE x == u * BlockSize
               y == b * BlockSize
    <3>3. x <= y /\ y <= t /\ x \in Nat /\ y \in Nat /\ q * SeqBlockSize = x
      BY <2>2, <3>1, <3>2
    <3> HIDE DEF x, y
    <3>4. x < len
      BY <2>1, <3>3
    <3> QED BY <3>3, <3>4
  <2>6. q + 1 \in 1 .. n
    <3>1. q < n
      BY <1>2, <2>3, <2>5
    <3> QED BY <1>2, <2>3, <3>1
  <2> QED BY <2>4, <2>6
<1>7. TilesOf(cells, n) = TokenCells(r, l, 0 .. len - 1)
  <2>1. ASSUME NEW k \in 1 .. n, NEW c \in cells[k]
        PROVE  c \in TokenCells(r, l, 0 .. len - 1)
    <3> HIDE DEF cells, of
    <3> QED BY <1>5 DEF TokenCells
  <2>2. ASSUME NEW c \in TokenCells(r, l, 0 .. len - 1)
        PROVE  \E k \in 1 .. n : c \in cells[k]
    <3>1. PICK t \in 0 .. len - 1 : c = Cell(r, l, t)
      BY DEF TokenCells
    <3>2. PICK k \in 1 .. n : t \in of(k)
      BY <1>6
    <3> HIDE DEF cells, of
    <3> QED BY <1>5, <3>1, <3>2 DEF TokenCells
  <2> HIDE DEF cells
  <2> QED BY <2>1, <2>2, Zenon DEF TilesOf
<1>8. ASSUME NEW k \in 1 .. n
      PROVE  Scored(head, cells[k])
  <2>1. IsFiniteSet(0 .. len - 1) /\ 0 .. len - 1 \in SUBSET Nat
    <3>1. 0 \in Int /\ len - 1 \in Int
      OBVIOUS
    <3>2. IsFiniteSet(0 .. len - 1)
      BY <3>1, FS_Interval, Zenon
    <3> QED BY <3>2
  <2> DEFINE D == of(k)
  <2>2. D \in SUBSET Nat /\ IsFiniteSet(D) /\ cells[k] = TokenCells(r, l, D)
    <3>1. D \subseteq 0 .. len - 1 /\ cells[k] = TokenCells(r, l, D)
      BY <1>5
    <3> HIDE DEF D, cells
    <3>2. IsFiniteSet(D)
      BY <2>1, <3>1, FS_Subset
    <3> QED BY <2>1, <3>1, <3>2
  <2> HIDE DEF D, cells
  <2> QED BY <2>2, CellIs
<1>9. ASSUME NEW j \in 1 .. n, NEW k \in 1 .. n, j # k
      PROVE  cells[j] \cap cells[k] = {}
  <2>1. \A t \in of(j) : t \notin of(k)
    <3> SUFFICES ASSUME NEW t, t \in of(j), t \in of(k) PROVE FALSE
      OBVIOUS
    <3> DEFINE q == (t \div BlockSize) \div BlocksPerSeqBlock
    <3>1. q = j - 1
      BY DEF TokensOfSeqBlock
    <3>2. q = k - 1
      BY DEF TokensOfSeqBlock
    <3> HIDE DEF q
    <3> QED BY <1>9, <3>1, <3>2
  <2>2. \A t, u : Cell(r, l, t) = Cell(r, l, u) => t = u
    BY CellIs, Zenon
  <2> HIDE DEF cells, of
  <2> QED BY <1>5, <2>1, <2>2 DEF TokenCells
<1> HIDE DEF cells
<1> QED BY <1>2, <1>3, <1>4, <1>7, <1>8, <1>9 DEF n, cells

(* The part of all cells, whatever it is scaled to, is their softmax.      *)
LEMMA PartIsSoftmax ==
  ASSUME NEW r, NEW l, NEW len \in Nat, NEW head \in Nat, NEW top \in -1 .. MaxScore,
         Scored(head, TokenCells(r, l, 0 .. len - 1)), NEW out,
         out.acc = BagOf(head, TokenCells(r, l, 0 .. len - 1), top),
         out.sum = Mass(head, TokenCells(r, l, 0 .. len - 1), top)
  PROVE  IsSoftmaxOf(out, Dense(r, len, head, l))
<1> DEFINE C == TokenCells(r, l, 0 .. len - 1)
           dense == [c \in C |-> 2 ^ Score(head, c[1])]
<1>1. Dense(r, len, head, l) = dense
  <2>1. C = {<<<<"k", <<r, t>>, l>>, <<"v", <<r, t>>, l>>>> : t \in 0 .. len - 1}
    BY DEF TokenCells, Cell
  <2> HIDE DEF C
  <2> QED BY <2>1 DEF Dense
<1>2. SumFunction(dense) = SumFunctionOnSet(dense, C)
  <2>1. DOMAIN dense = C
    OBVIOUS
  <2> HIDE DEF dense, C
  <2> QED BY <2>1, Zenon DEF SumFunction
<1>3. Scored(head, C) /\ out.acc = BagOf(head, C, top) /\ out.sum = Mass(head, C, top)
  OBVIOUS
<1> HIDE DEF C
<1> DEFINE total == SumFunctionOnSet(dense, C)
<1>4. /\ \A c \in C : out.acc[c] = Unit(top) * 2 ^ Score(head, c[1])
      /\ \A c \in C : 2 ^ Score(head, c[1]) \in Nat
      /\ total \in Nat /\ out.sum = Unit(top) * total
  <2>1. /\ \A c \in C : BagOf(head, C, top)[c] = Unit(top) * 2 ^ Score(head, c[1])
        /\ \A c \in C : BagOf(head, C, top)[c] \in Nat /\ 2 ^ Score(head, c[1]) \in Nat
        /\ total \in Nat /\ Mass(head, C, top) = Unit(top) * total
    BY <1>3, BagIs
  <2> HIDE DEF total
  <2> QED BY <1>3, <2>1, Zenon
<1>5. DOMAIN out.acc = C
  BY <1>3 DEF BagOf
<1>6. Unit(top) \in Nat
  BY UnitIs
<1> HIDE DEF total
<1>7. ASSUME NEW c \in C
      PROVE  out.acc[c] * total = dense[c] * out.sum
  <2> DEFINE e == 2 ^ Score(head, c[1])
             u == Unit(top)
  <2>1. e \in Nat /\ u \in Nat /\ total \in Nat /\ out.acc[c] = u * e /\ out.sum = u * total /\ dense[c] = e
    BY <1>4, <1>6
  <2> HIDE DEF e, u, dense
  <2>2. (u * e) * total = e * (u * total)
    BY <2>1
  <2> QED BY <2>1, <2>2, Zenon
<1>8. DOMAIN dense = C
  OBVIOUS
<1> HIDE DEF dense
<1> QED BY <1>1, <1>2, <1>5, <1>7, <1>8, Zenon DEF IsSoftmaxOf, total

(* Each head of each sequence that decodes attends to its own tokens.      *)
LEMMA AttentionIsSoftmax ==
  ASSUME MemoryInv, pass.kind = "decode", pass.stored, NEW stale \in BOOLEAN,
         ~(explicit_kv_regions /\ Len(pass.batch) > 1 /\ NumHeads > 1),
         NEW i \in 1 .. Len(pass.batch), NEW h \in 0 .. NumHeads - 1
  PROVE  IsSoftmaxOf(Attended(stale)[<<i, h>>],
                     Dense(pass.batch[i], seq_len[pass.batch[i]], h, pass.layer))
<1> DEFINE m == Len(pass.batch)
           r == pass.batch[i]
           len == seq_len[r]
           l == pass.layer
           n == CeilDivide(len, SeqBlockSize)
           cells == CellsOfSeqBlocks(r, l, len)
           parts == [s \in 1 .. n |-> Mid(stale)[Row(BatchLens, <<i - 1, h, s - 1>>)]]
           maxima == {parts[s].max : s \in DOMAIN parts}
           top == Max(maxima)
           out == Attended(stale)[<<i, h>>]
<1>1. /\ m \in Nat /\ DOMAIN pass.batch = 1 .. m /\ Len(BatchLens) = m /\ DOMAIN BatchLens = 1 .. m
      /\ \A k \in 1 .. m : BatchLens[k] \in 1 .. MaxLen
      /\ BatchLens[i] = len /\ len \in 1 .. MaxLen
  BY BatchFacts
<1>2. h \in Nat /\ i - 1 \in 0 .. m - 1 /\ i - 1 + 1 = i /\ m # 0 /\ MaxLen \in Nat
  BY <1>1, SeqBlockSizes, LentAssumption
<1>3. /\ NumSeqBlocks(BatchLens) \in Nat
      /\ \A b \in 0 .. m - 1 : \A g \in 0 .. NumHeads - 1 : \A s \in Nat :
           s * SeqBlockSize < BatchLens[b + 1] => <<b, g, s>> \in Programs(BatchLens)
  BY <1>1, <1>2, ProgramsAre
<1>4. len \in Nat \ {0}
  BY <1>1, <1>2
<1> HIDE DEF len, r, m
<1>5. /\ n \in Nat \ {0} /\ \A s \in 1 .. n : (s - 1) * SeqBlockSize < len
      /\ TilesOf(cells, n) = TokenCells(r, l, 0 .. len - 1)
      /\ \A k \in 1 .. n : Scored(h, cells[k])
      /\ \A j, k \in 1 .. n : j # k => cells[j] \cap cells[k] = {}
  BY <1>2, <1>4, SeqBlocksTile
<1>6. \A s \in 1 .. n : cells[s] = TokenCells(r, l, TokensOfSeqBlock(len, s - 1))
  BY DEF CellsOfSeqBlocks
<1> HIDE DEF n, cells
<1>7. ASSUME NEW s \in 1 .. n
      PROVE  parts[s] = PartOf(h, cells[s])
  <2> DEFINE p == <<i - 1, h, s - 1>>
  <2>1. p[1] = i - 1 /\ p[2] = h /\ p[3] = s - 1
    OBVIOUS
  <2>2. p \in Programs(BatchLens)
    <3>1. s - 1 \in Nat
      BY <1>5
    <3>2. (s - 1) * SeqBlockSize < BatchLens[i - 1 + 1]
      BY <1>1, <1>2, <1>5
    <3> QED BY <1>2, <1>3, <3>1, <3>2
  <2>3. parts[s] = Mid(stale)[Row(BatchLens, p)]
    OBVIOUS
  <2> HIDE DEF p, parts
  <2>4. Mid(stale)[Row(BatchLens, p)] = PartOver(p, OwnTokens(p))
    BY <1>1, <1>3, <2>2, MidIs
  <2>5. SequenceOf(p) = r
    BY <1>2, <2>1 DEF SequenceOf, r
  <2>6. PartOver(p, OwnTokens(p)) = PartOf(h, TokenCells(r, l, TokensOfSeqBlock(len, s - 1)))
    BY <2>1, <2>5, Zenon DEF PartOver, OwnTokens, len
  <2> QED BY <1>6, <2>3, <2>4, <2>6, Zenon
<1>8. DOMAIN parts = 1 .. n
  OBVIOUS
<1>9. out = [sum |-> MergedSum(parts, top), acc |-> MergedBag(parts, top)]
  <2>1. <<i, h>> \in (1 .. Len(BatchLens)) \X (0 .. NumHeads - 1)
    BY <1>1 DEF m
  <2>2. out = Merged(BatchLens, Mid(stale), i - 1, h)
    <3>1. Attended(stale) = [p \in (1 .. Len(BatchLens)) \X (0 .. NumHeads - 1) |->
                               Merged(BatchLens, Mid(stale), p[1] - 1, p[2])]
      BY Zenon DEF Attended, Attention, Mid, BatchLens
    <3> QED BY <2>1, <3>1
  <2>3. BatchLens[i - 1 + 1] = len
    BY <1>1, <1>2
  <2> DEFINE P == [s \in 1 .. CeilDivide(BatchLens[i - 1 + 1], SeqBlockSize) |->
                     Mid(stale)[Row(BatchLens, <<i - 1, h, s - 1>>)]]
             most == Max({P[s].max : s \in DOMAIN P})
  <2>4. Merged(BatchLens, Mid(stale), i - 1, h) = [sum |-> MergedSum(P, most), acc |-> MergedBag(P, most)]
    BY Zenon DEF Merged, MergedSum, MergedBag
  <2>5. P = parts
    BY <2>3, Zenon DEF n
  <2> HIDE DEF P, parts
  <2> QED BY <2>2, <2>4, <2>5, Zenon
<1> HIDE DEF parts
<1>10. top \in -1 .. MaxScore /\ \A k \in 1 .. n : TopOf(h, cells[k]) <= top
  <2>1. \A k \in 1 .. n : parts[k].max = TopOf(h, cells[k])
    <3>1. \A c : PartOf(h, c).max = TopOf(h, c)
      BY DEF PartOf
    <3> QED BY <1>7, <3>1, Zenon
  <2>2. \A k \in 1 .. n : TopOf(h, cells[k]) \in -1 .. MaxScore
    BY <1>5, TopIs
  <2>3. maxima \in SUBSET (-1 .. MaxScore) /\ maxima # {} /\ \A k \in 1 .. n : TopOf(h, cells[k]) \in maxima
    <3>1. 1 \in 1 .. n
      BY <1>5
    <3> QED BY <1>8, <2>1, <2>2, <3>1
  <2>4. MaxScore \in Nat
    BY SeqBlockSizes
  <2> HIDE DEF maxima
  <2>5. top \in maxima /\ \A x \in maxima : x <= top
    BY <2>3, <2>4, MaxOf
  <2> QED BY <2>3, <2>5
<1> HIDE DEF top, maxima
<1>11. CellsApart(h, cells, n, top)
  BY <1>5, <1>10 DEF CellsApart
<1>12. /\ Scored(h, TilesOf(cells, n))
       /\ MergedBag(parts, top) = BagOf(h, TilesOf(cells, n), top)
       /\ MergedSum(parts, top) = Mass(h, TilesOf(cells, n), top)
  <2>1. n \in Nat /\ \A k \in 1 .. n : parts[k] = PartOf(h, cells[k])
    BY <1>5, <1>7
  <2> QED BY <1>8, <1>10, <1>11, <2>1, MergeAdds
<1>13. out.sum = MergedSum(parts, top) /\ out.acc = MergedBag(parts, top)
  <2> HIDE DEF out
  <2> QED BY <1>9
<1> HIDE DEF out
<1>14. /\ Scored(h, TokenCells(r, l, 0 .. len - 1))
       /\ out.acc = BagOf(h, TokenCells(r, l, 0 .. len - 1), top)
       /\ out.sum = Mass(h, TokenCells(r, l, 0 .. len - 1), top)
  BY <1>5, <1>12, <1>13, Zenon
<1>15. IsSoftmaxOf(out, Dense(r, len, h, l))
  <2>1. len \in Nat
    BY <1>4
  <2> QED BY <1>2, <1>10, <1>14, <2>1, PartIsSoftmax
<1> QED BY <1>15, Zenon DEF out, r, len

(* What has been attended to is there only until the layer is finished.    *)
AttentionInv ==
  o # <<>> => pass.kind = "decode" /\ pass.stored /\ pass.attended /\ AttendsWhereRowsAreMet

(* Attention after the store makes what it should.                         *)
LEMMA AttendGives ==
  ASSUME MemoryInv, Attend
  PROVE  AttentionInv'
<1>1. /\ pass.kind = "decode" /\ pass.stored /\ pass' = [pass EXCEPT !.attended = TRUE]
      /\ UNCHANGED requestVars /\ UNCHANGED layerVars /\ PassesInv
  BY DEF Attend, MemoryInv
<1>2. PICK stale \in BOOLEAN : o' = Attended(stale)
  BY DEF Attend
<1>3. /\ pass'.batch = pass.batch /\ pass'.kind = pass.kind /\ pass'.layer = pass.layer
      /\ pass'.stored = pass.stored /\ pass'.attended = TRUE
  BY <1>1 DEF PassesInv
<1>4. seq_len' = seq_len /\ explicit_kv_regions' = explicit_kv_regions
  BY <1>1 DEF requestVars, layerVars
<1>5. DOMAIN o' = (1 .. Len(pass.batch)) \X (0 .. NumHeads - 1)
  <2>1. DOMAIN o' = (1 .. Len(BatchLens)) \X (0 .. NumHeads - 1)
    BY <1>2 DEF Attended, Attention, BatchLens
  <2>2. Len(BatchLens) = Len(pass.batch)
    BY <1>1, BatchFacts
  <2> QED BY <2>1, <2>2
<1>6. AttendsWhereRowsAreMet'
  <2> SUFFICES ASSUME ~(explicit_kv_regions /\ Len(pass.batch) > 1 /\ NumHeads > 1)
               PROVE  AttendsToOwnTokens'
    BY <1>3, <1>4, Zenon DEF AttendsWhereRowsAreMet
  <2>1. ASSUME NEW p \in DOMAIN o'
        PROVE  IsSoftmaxOf(o'[p], Dense(pass.batch[p[1]], seq_len[pass.batch[p[1]]], p[2], pass.layer))
    <3>1. p = <<p[1], p[2]>> /\ p[1] \in 1 .. Len(pass.batch) /\ p[2] \in 0 .. NumHeads - 1
      BY <1>5, <2>1
    <3> DEFINE i == p[1]
               h == p[2]
    <3>2. p = <<i, h>> /\ i \in 1 .. Len(pass.batch) /\ h \in 0 .. NumHeads - 1
      BY <3>1
    <3> HIDE DEF i, h
    <3>3. IsSoftmaxOf(Attended(stale)[<<i, h>>], Dense(pass.batch[i], seq_len[pass.batch[i]], h, pass.layer))
      BY <1>1, <3>2, AttentionIsSoftmax
    <3>4. o'[p] = Attended(stale)[<<i, h>>]
      BY <1>2, <3>2, Zenon
    <3> QED BY <3>3, <3>4, Zenon DEF i, h
  <2> QED BY <1>3, <1>4, <2>1, Zenon DEF AttendsToOwnTokens
<1> QED BY <1>1, <1>3, <1>6, Zenon DEF AttentionInv

(* Decoding attends to every token of its own, each by its own score, and  *)
(* to nothing else, whichever kernels the lent groups ask for, wherever    *)
(* the mid phase has the rows: for every layout, batch, number of heads    *)
(* and size of seq blocks.                                                 *)
THEOREM SpecAttendsWhereRowsAreMet == Spec => []AttendsWhereRowsAreMet
<1>1. Init => MemoryInv /\ AttentionInv
  BY MemoryInit DEF Init, AttentionInv
<1>2. MemoryInv /\ AttentionInv /\ [Next]_vars => (MemoryInv /\ AttentionInv)'
  <2> SUFFICES ASSUME MemoryInv, AttentionInv, [Next]_vars
               PROVE  (MemoryInv /\ AttentionInv)'
    OBVIOUS
  <2>1. MemoryInv'
    BY MemoryStep
  <2>2. CASE Attend
    BY <2>1, <2>2, AttendGives
  <2>3. CASE FinishLayer
    BY <2>1, <2>3 DEF FinishLayer, AttentionInv
  <2>4. CASE StoreKv
    BY <2>1, <2>4 DEF StoreKv, AttentionInv
  <2>5. CASE pass = NoPass /\ o' = o
    <3>1. o = <<>>
      BY <2>5 DEF AttentionInv, NoPass
    <3> QED BY <2>1, <2>5, <3>1 DEF AttentionInv
  <2>6. CASE UNCHANGED vars
    <3>1. UNCHANGED <<pass, o, seq_len, explicit_kv_regions>>
      BY <2>6 DEF vars, requestVars, layerVars
    <3>2. AttendsWhereRowsAreMet' <=> AttendsWhereRowsAreMet
      BY <3>1, Zenon DEF AttendsWhereRowsAreMet, AttendsToOwnTokens
    <3> QED BY <2>1, <3>1, <3>2, Zenon DEF AttentionInv
  <2>7. ChangeLayers \/ StartPrefill \/ StartDecoding \/ (\E r \in Requests : FreeSeq(r))
          => pass = NoPass /\ o' = o
    BY DEF ChangeLayers, StartPrefill, StartDecoding, StartPass, FreeSeq
  <2> QED BY <2>2, <2>3, <2>4, <2>5, <2>6, <2>7, Zenon DEF Next
<1>3. AttentionInv => AttendsWhereRowsAreMet
  <2>1. o = <<>> => DOMAIN o = {}
    OBVIOUS
  <2> QED BY <2>1 DEF AttentionInv, AttendsWhereRowsAreMet, AttendsToOwnTokens
<1> QED BY <1>1, <1>2, <1>3, PTL DEF Spec
=============================================================================
