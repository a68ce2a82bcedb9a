-------------------------- MODULE BenchmarkProofs ---------------------------
(***************************************************************************)
(* Proofs about BenchmarkLoop, for every number of requests and every      *)
(* size: the loop drives the coordinator as AdaptiveCoordinator says, and  *)
(* its requests, blocks and records stay in order.                         *)
(***************************************************************************)
EXTENDS BenchmarkInvariant, CoordinatorProofs

(* ----------------------------------------------------------------------- *)
(* Numbers of blocks                                                       *)

(* The sizes of the workload and of the engine are positive. *)
LEMMA Sizes ==
  /\ NumRequests \in Nat \ {0} /\ PromptLen \in Nat \ {0} /\ OutputLen \in Nat \ {0}
  /\ BlockSize \in Nat \ {0} /\ MaxBatchSize \in Nat \ {0} /\ MaxActive \in Nat \ {0}
  /\ MaxTokens \in Nat /\ MaxTokens >= 2 /\ MaxTokens >= OutputLen
BY LoopAssumption DEF LoopAssumption, MaxTokens

(* One more token needs the same blocks or more. *)
LEMMA BlocksGrow ==
  ASSUME NEW n \in Nat
  PROVE  /\ CeilDiv(PromptLen + n, BlockSize) \in Nat
         /\ CeilDiv(PromptLen + n - 1, BlockSize) \in Nat
         /\ CeilDiv(PromptLen + n - 1, BlockSize) <= CeilDiv(PromptLen + n, BlockSize)
<1> DEFINE a == PromptLen + n - 1 + BlockSize - 1
           p == a \div BlockSize
           q == (a + 1) \div BlockSize
<1>1. a \in Nat /\ BlockSize \in Nat \ {0} /\ PromptLen \in Int
  BY Sizes
<1>2. /\ CeilDiv(PromptLen + n - 1, BlockSize) = p
      /\ CeilDiv(PromptLen + n, BlockSize) = q
  <2>1. PromptLen + n + BlockSize - 1 = a + 1
    BY <1>1
  <2> QED BY <2>1 DEF CeilDiv
<1> HIDE DEF a
<1>3. p \in Nat /\ q \in Nat /\ p <= q
  BY <1>1
<1> QED BY <1>2, <1>3

(* The free blocks are those of the pool that are not occupied, as many as the counter says. *)
LEMMA FreeCounted ==
  ASSUME IInv
  PROVE  /\ FreeBlocks \in SUBSET Int /\ IsFiniteSet(FreeBlocks)
         /\ Cardinality(FreeBlocks) = num_free_blocks /\ num_free_blocks \in Nat
         /\ FreeBlocks \cap Occupied = {} /\ FreeBlocks \cup Occupied = 1 .. num_blocks
         /\ DOMAIN is_block_free = 1 .. num_blocks /\ num_blocks \in Nat
         /\ IsFiniteSet(Occupied)
<1>1. /\ num_blocks \in Nat /\ num_free_blocks = num_blocks - Cardinality(Occupied) /\ num_free_blocks \in Nat
      /\ IsFiniteSet(Occupied) /\ DOMAIN is_block_free = 1 .. num_blocks
      /\ Cardinality(Occupied) \in Nat
  BY PoolTypes DEF IInv
<1>2. FreeBlocks \cap Occupied = {} /\ FreeBlocks \cup Occupied = 1 .. num_blocks
  BY <1>1, Zenon DEF FreeBlocks, Occupied
<1>3. FreeBlocks \in SUBSET Int /\ FreeBlocks \in SUBSET (1 .. num_blocks)
  BY <1>1, <1>2
<1>4. 1 \in Int /\ num_blocks \in Int
  BY <1>1
<1>5. IsFiniteSet(1 .. num_blocks) /\ Cardinality(1 .. num_blocks) = IF 1 > num_blocks THEN 0 ELSE num_blocks - 1 + 1
  BY <1>4, FS_Interval, Zenon
<1>6. IsFiniteSet(FreeBlocks) /\ Cardinality(FreeBlocks) \in Nat
  BY <1>3, <1>5, FS_Subset, FS_CardinalityType, Zenon
<1>7. Cardinality(FreeBlocks \cup Occupied) =
        Cardinality(FreeBlocks) + Cardinality(Occupied) - Cardinality(FreeBlocks \cap Occupied)
  BY <1>1, <1>6, FS_Union, Zenon
<1>8. Cardinality(FreeBlocks \cap Occupied) = 0
  BY <1>2, FS_EmptySet, Zenon
<1>9. Cardinality(1 .. num_blocks) = num_blocks
  BY <1>1, <1>5
<1>10. Cardinality(1 .. num_blocks) = Cardinality(FreeBlocks \cup Occupied)
  BY <1>2, Zenon
<1>11. Cardinality(FreeBlocks) = num_free_blocks
  BY <1>1, <1>6, <1>7, <1>8, <1>9, <1>10
<1> QED BY <1>1, <1>2, <1>3, <1>6, <1>11

(* The rows of the block table are finite. *)
LEMMA HeldFinite ==
  ASSUME IInv, LoopTypes, NEW r \in Requests
  PROVE  IsFiniteSet(held[r]) /\ Cardinality(held[r]) \in Nat /\ generated[r] \in Nat
<1>1. held[r] \in SUBSET Occupied /\ generated[r] \in 0 .. MaxTokens
  BY DEF LoopTypes
<1>2. IsFiniteSet(Occupied)
  BY FreeCounted
<1>3. IsFiniteSet(held[r]) /\ Cardinality(held[r]) \in Nat
  BY <1>1, <1>2, FS_Subset, FS_CardinalityType, Zenon
<1> QED BY <1>1, <1>3, Sizes

(* A request needs a natural number of new blocks. *)
LEMMA NewBlocksNat ==
  ASSUME IInv, LoopTypes, NEW r \in Requests
  PROVE  NewBlocks(r) \in Nat
<1>1. Cardinality(held[r]) \in Nat /\ generated[r] \in Nat
  BY HeldFinite
<1>2. CeilDiv(PromptLen + generated[r], BlockSize) \in Nat
  BY <1>1, BlocksGrow
<1> QED BY <1>1, <1>2 DEF NewBlocks

(* The blocks the first n of a batch need together: none for none of them, and those of
   the n-th on top of those of the ones before it. *)
LEMMA BlocksNeededStep ==
  ASSUME IInv, LoopTypes, NEW s \in Seq(Requests)
  PROVE  /\ BlocksNeeded(s, 0) = 0
         /\ \A n \in 0 .. Len(s) : BlocksNeeded(s, n) \in Nat
         /\ \A n \in 1 .. Len(s) : BlocksNeeded(s, n) = BlocksNeeded(s, n - 1) + NewBlocks(s[n])
<1> DEFINE f(n) == [i \in 1 .. n |-> NewBlocks(s[i])]
<1>1. \A i \in 1 .. Len(s) : s[i] \in Requests /\ NewBlocks(s[i]) \in Nat
  BY NewBlocksNat
<1>2. ASSUME NEW n \in 0 .. Len(s)
      PROVE  /\ IsFiniteSet(1 .. n) /\ \A i \in 1 .. n : f(n)[i] \in Nat
             /\ BlocksNeeded(s, n) = SumFunctionOnSet(f(n), 1 .. n)
  <2>1. n \in Int /\ 1 \in Int /\ 1 .. n \subseteq 1 .. Len(s)
    OBVIOUS
  <2>2. IsFiniteSet(1 .. n)
    BY <2>1, FS_Interval, Zenon
  <2> QED BY <1>1, <2>1, <2>2, Zenon DEF BlocksNeeded
<1>3. ASSUME NEW n \in 0 .. Len(s) PROVE BlocksNeeded(s, n) \in Nat
  <2> HIDE DEF f
  <2> QED BY <1>2, SumNat, Zenon
<1>4. BlocksNeeded(s, 0) = 0
  <2>1. 0 \in 0 .. Len(s) /\ 1 .. 0 = {}
    OBVIOUS
  <2> HIDE DEF f
  <2> QED BY <1>2, <2>1, SumEmpty, Zenon
<1>5. ASSUME NEW n \in 1 .. Len(s) PROVE BlocksNeeded(s, n) = BlocksNeeded(s, n - 1) + NewBlocks(s[n])
  <2>1. /\ n \in 0 .. Len(s) /\ n - 1 \in 0 .. Len(s) /\ n \in 1 .. n /\ (1 .. n) \ {n} = 1 .. n - 1
        /\ f(n)[n] = NewBlocks(s[n]) /\ \A i \in 1 .. n - 1 : f(n)[i] = f(n - 1)[i]
        /\ NewBlocks(s[n]) \in Nat
    BY <1>1
  <2>2. /\ IsFiniteSet(1 .. n) /\ \A i \in 1 .. n : f(n)[i] \in Nat
        /\ BlocksNeeded(s, n) = SumFunctionOnSet(f(n), 1 .. n)
    BY <1>2, <2>1, Zenon
  <2>3. /\ IsFiniteSet(1 .. n - 1) /\ \A i \in 1 .. n - 1 : f(n - 1)[i] \in Nat
        /\ BlocksNeeded(s, n - 1) = SumFunctionOnSet(f(n - 1), 1 .. n - 1)
    BY <1>2, <2>1, Zenon
  <2> HIDE DEF f
  <2>4. SumFunctionOnSet(f(n), 1 .. n) = f(n)[n] + SumFunctionOnSet(f(n), 1 .. n - 1)
    <3> DEFINE g == f(n)
               T == 1 .. n
    <3>1. IsFiniteSet(T) /\ n \in T /\ \A i \in T : g[i] \in Nat
      BY <2>1, <2>2, Zenon
    <3> HIDE DEF g, T
    <3>2. SumFunctionOnSet(g, T) = g[n] + SumFunctionOnSet(g, T \ {n})
      BY <3>1, SumStep, Zenon
    <3> QED BY <2>1, <3>2, Zenon DEF g, T
  <2>5. SumFunctionOnSet(f(n - 1), 1 .. n - 1) = SumFunctionOnSet(f(n), 1 .. n - 1)
    BY <2>1, <2>3, SumSame, Zenon
  <2>6. BlocksNeeded(s, n - 1) \in Nat
    BY <1>3, <2>1
  <2> QED BY <2>1, <2>2, <2>3, <2>4, <2>5, <2>6
<1> QED BY <1>3, <1>4, <1>5, Zenon

(* A longer part of a batch needs no fewer blocks. *)
LEMMA BlocksNeededGrow ==
  ASSUME IInv, LoopTypes, NEW s \in Seq(Requests), NEW n \in 0 .. Len(s), NEW m \in 0 .. n
  PROVE  BlocksNeeded(s, m) <= BlocksNeeded(s, n)
<1> DEFINE f == [i \in 1 .. n |-> NewBlocks(s[i])]
           g == [i \in 1 .. m |-> NewBlocks(s[i])]
<1>1. \A i \in 1 .. Len(s) : s[i] \in Requests /\ NewBlocks(s[i]) \in Nat
  BY NewBlocksNat
<1>2. /\ n \in Int /\ m \in Int /\ 1 \in Int /\ 1 .. m \in SUBSET (1 .. n) /\ 1 .. n \in SUBSET (1 .. Len(s))
  OBVIOUS
<1>3. IsFiniteSet(1 .. n) /\ IsFiniteSet(1 .. m)
  BY <1>2, FS_Interval, Zenon
<1>4. (\A i \in 1 .. n : f[i] \in Nat) /\ (\A i \in 1 .. m : g[i] \in Nat /\ f[i] = g[i])
  BY <1>1, <1>2, Zenon
<1>5. BlocksNeeded(s, n) = SumFunctionOnSet(f, 1 .. n) /\ BlocksNeeded(s, m) = SumFunctionOnSet(g, 1 .. m)
  BY Zenon DEF BlocksNeeded
<1> HIDE DEF f, g
<1>6. SumFunctionOnSet(g, 1 .. m) = SumFunctionOnSet(f, 1 .. m)
  BY <1>3, <1>4, SumSame, Zenon
<1>7. SumFunctionOnSet(f, 1 .. m) <= SumFunctionOnSet(f, 1 .. n)
  BY <1>2, <1>3, <1>4, SumSubset, Zenon
<1> QED BY <1>5, <1>6, <1>7

(* What fits is a first part of the requests, no longer than the limit. *)
LEMMA FittingIsFirst ==
  ASSUME IInv, LoopTypes, NEW s \in Seq(Requests), NEW limit \in Nat
  PROVE  \E m \in 0 .. Len(s) : m <= limit /\ Fitting(s, limit) = SubSeq(s, 1, m)
<1> DEFINE fits == {n \in 0 .. Len(s) : n <= limit /\ BlocksNeeded(s, n) <= num_free_blocks}
<1>1. 0 \in fits
  BY BlocksNeededStep, FreeCounted
<1>2. fits \in SUBSET Nat /\ fits # {} /\ Len(s) \in Nat /\ \A n \in fits : n <= Len(s)
  BY <1>1
<1>3. Fitting(s, limit) = SubSeq(s, 1, Max(fits))
  BY DEF Fitting
<1>4. \A n \in fits : n \in 0 .. Len(s) /\ n <= limit
  OBVIOUS
<1> HIDE DEF fits
<1>5. PICK m \in fits : \A n \in fits : n <= m
  BY <1>2, Largest, Zenon
<1>6. \A n \in fits : m >= n
  BY <1>2, <1>5
<1>7. Max(fits) \in fits
  BY <1>6, Zenon DEF Max
<1> QED BY <1>3, <1>4, <1>7

(* ----------------------------------------------------------------------- *)
(* The coordinator's part of a step                                        *)

(* Only inside a step does the coordinator act by itself, and the step ends as the driver
   is: on its way to a forward pass, or draining. *)
LEMMA ActsInsideStep ==
  ASSUME IInv, Act
  PROVE  /\ pc \in Stepping /\ draining' = draining
         /\ pc' \in Stepping \/ pc' = IF draining THEN "ready" ELSE "forward"
<1>1. pc \in Driving => call = "none"
  BY InRest DEF IInv, AtRestInv
<1>2. pc \in Driving \cup Stepping
  BY DEF IInv, ListInv, Steps
<1>3. CASE ExecutorStep /\ UNCHANGED <<ctlVars, coordVars>>
  <2>1. call # "none"
    BY <1>3 DEF ExecutorStep, MorphLayer, MorphRaises, MorphUndo, MorphUndoRaises, MorphUndone,
       ExpandLayer, ExpandRaises, ExpandRollbackRaises, ExpandLeavesGroup, RestoreLayer, RestoreRaises, RestoreUndo,
       RestoreUndoRaises, RestoreUndone, RecoverReattach, RecoverReattachRaises, Restoring
  <2>2. pc' = pc /\ draining' = draining
    BY <1>3 DEF coordVars
  <2> QED BY <1>1, <1>2, <2>1, <2>2
<1>4. CASE MorphReturned \/ ExpandReturned \/ RollbackReturned \/ RecoverReturned
  <2>1. pc \in Stepping /\ draining' = draining
    BY <1>4 DEF MorphReturned, ExpandReturned, RollbackReturned, RecoverReturned, Stepping
  <2>2. ASSUME RollbackPressure PROVE pc' \in Stepping \/ pc' = IF draining THEN "ready" ELSE "forward"
    BY <2>2 DEF RollbackPressure, Conclude, EndStep, Stepping
  <2>3. pc' \in Stepping \/ pc' = IF draining THEN "ready" ELSE "forward"
    BY <1>4, <2>2 DEF MorphReturned, ExpandReturned, RollbackReturned, RecoverReturned, Conclude,
       EndStep, Stepping
  <2> QED BY <2>1, <2>3
<1> QED BY <1>3, <1>4 DEF Act

(* A sample starts a step, or is over at once. *)
LEMMA SampleTakesTurn ==
  ASSUME NEW signal, Sample(signal)
  PROVE  /\ pc = "ready" /\ ~coord_poisoned /\ draining' = draining
         /\ pc' \in Stepping \/ pc' = IF draining THEN "ready" ELSE "forward"
BY DEF Sample, NoAction, ProfileExhausted, StartPressure, StartRecovery, SampleStarts, EndStep, Stepping

(* What does not touch the requests and keeps the occupied blocks keeps what is known of
   the requests. *)
LEMMA RequestsKept ==
  ASSUME BInv, UNCHANGED <<status, active, passing, generated, held, records>>, Occupied' = Occupied,
         overdue' \subseteq Requests
  PROVE  LoopTypes' /\ StatusTells' /\ BlocksHeld' /\ InOrder' /\ JustAdmitted' = JustAdmitted
<1>1. LoopTypes'
  BY Zenon DEF BInv, LoopTypes
<1>2. StatusTells'
  BY Zenon DEF BInv, StatusTells, ActiveSet
<1>3. BlocksHeld'
  BY Zenon DEF BInv, BlocksHeld, ActiveSet
<1>4. InOrder'
  BY Zenon DEF BInv, InOrder
<1>5. JustAdmitted' = JustAdmitted
  BY Zenon DEF JustAdmitted, ActiveSet, PassingSet
<1> QED BY <1>1, <1>2, <1>3, <1>4, <1>5

(* ----------------------------------------------------------------------- *)
(* finish_state                                                            *)

(* The blocks of requests that finish are occupied and those of no other request. *)
LEMMA HeldByRequests ==
  ASSUME IInv, BInv, NEW S \in SUBSET Requests
  PROVE  /\ UNION {held[r] : r \in S} \in SUBSET Occupied
         /\ \A r \in Requests \ S : held[r] \cap UNION {held[q] : q \in S} = {}
         /\ Occupied \ UNION {held[r] : r \in S} = UNION {held[r] : r \in Requests \ S}
<1>1. \A r \in Requests : held[r] \in SUBSET Occupied
  BY Zenon DEF BInv, LoopTypes
<1>2. \A r, q \in Requests : r # q => held[r] \cap held[q] = {}
  BY Zenon DEF BInv, BlocksHeld
<1>3. Occupied = UNION {held[r] : r \in Requests}
  BY Zenon DEF BInv, BlocksHeld
<1>4. UNION {held[r] : r \in S} \in SUBSET Occupied
  BY <1>1
<1>5. \A r \in Requests \ S : held[r] \cap UNION {held[q] : q \in S} = {}
  BY <1>2
<1>6. Occupied \ UNION {held[r] : r \in S} = UNION {held[r] : r \in Requests \ S}
  BY <1>3, <1>5
<1> QED BY <1>4, <1>5, <1>6

(* finish_state does to the pool what Finish does, or nothing. *)
LEMMA FinishStatesDrives ==
  ASSUME IInv, BInv, pc = "ready", NEW requests \in Seq(Requests), NEW how, FinishStates(requests, how)
  PROVE  [Next]_vars /\ Occupied' = Occupied \ HeldBy(requests)
<1> DEFINE blocks == HeldBy(requests)
<1>1. Elements(requests) \in SUBSET Requests
  BY DEF Elements
<1>2. blocks \in SUBSET Occupied
  BY <1>1, HeldByRequests DEF HeldBy
<1>3. /\ is_block_free' = [b \in DOMAIN is_block_free |-> is_block_free[b] \/ b \in blocks]
      /\ num_free_blocks' = num_free_blocks + Cardinality(blocks)
      /\ pc' = pc /\ PoolOnly
  BY DEF FinishStates
<1>4. is_block_free \in Seq(BOOLEAN) /\ num_free_blocks \in Nat
  BY PoolTypes DEF IInv
<1> HIDE DEF blocks
<1>5. Occupied' = Occupied \ blocks
  BY <1>3, Zenon DEF Occupied
<1>6. CASE blocks = {}
  <2>1. is_block_free' = is_block_free
    <3>1. is_block_free' = [b \in DOMAIN is_block_free |-> is_block_free[b]]
      <4>1. \A b \in DOMAIN is_block_free : is_block_free[b] \in BOOLEAN
        BY <1>4
      <4>2. \A b \in DOMAIN is_block_free : (is_block_free[b] \/ b \in blocks) = is_block_free[b]
        BY <1>6, <4>1, Zenon
      <4> QED BY <1>3, <4>2, Zenon
    <3> QED BY <1>4, <3>1
  <2>2. num_free_blocks' = num_free_blocks
    <3>1. Cardinality(blocks) = 0
      BY <1>6, FS_EmptySet, Zenon
    <3> QED BY <1>3, <1>4, <3>1
  <2>3. UNCHANGED vars
    BY <1>3, <2>1, <2>2 DEF PoolOnly, vars, ctlVars, layerVars, callVars
  <2> QED BY <1>5, <2>3 DEF blocks
<1>7. CASE blocks # {}
  <2>1. Finish(blocks)
    BY <1>3, <1>7 DEF Finish, PoolOnly, coordVars
  <2>2. Next
    BY <1>2, <2>1, Zenon DEF Next, Drive
  <2> QED BY <1>5, <2>2 DEF blocks
<1> QED BY <1>6, <1>7

(* Requests that finish while they wait or run leave the lists in order. *)
LEMMA FinishStatesKeeps ==
  ASSUME IInv, BInv, pc = "ready", NEW requests \in Seq(Requests), IsInjective(requests),
         \A r \in Elements(requests) : status[r] \in {"waiting", "running"},
         NEW how \in Recorded, FinishStates(requests, how), passing' = passing
  PROVE  /\ LoopTypes' /\ StatusTells' /\ BlocksHeld' /\ InOrder'
         /\ ActiveSet' = ActiveSet \ Elements(requests)
         /\ generated' = generated /\ pc' = pc /\ draining' = draining
<1> DEFINE S == Elements(requests)
<1>1. S \in SUBSET Requests
  BY DEF Elements
<1>2. /\ status' = [r \in Requests |-> IF r \in S THEN how ELSE status[r]]
      /\ records' = records \o requests
      /\ active' = Keep(active, Requests \ S)
      /\ held' = [r \in Requests |-> IF r \in S THEN {} ELSE held[r]]
      /\ UNCHANGED <<overdue, generated, pc, draining>>
  BY DEF FinishStates, PoolOnly
<1>3. Occupied' = Occupied \ HeldBy(requests)
  BY FinishStatesDrives
<1>4. /\ status \in [Requests -> {"scheduled", "waiting", "running"} \cup Recorded]
      /\ active \in Seq(Requests) /\ IsInjective(active) /\ Len(active) <= MaxActive
      /\ held \in [Requests -> SUBSET Occupied]
      /\ records \in Seq(Requests) /\ IsInjective(records)
      /\ Elements(records) = {r \in Requests : status[r] \in Recorded}
  BY DEF BInv, LoopTypes, StatusTells
<1>5. /\ active' \in Seq(Requests) /\ IsInjective(active') /\ Len(active') \in 0 .. Len(active)
      /\ ActiveSet' = ActiveSet \ S
  <2>1. /\ Keep(active, Requests \ S) \in Seq(Requests)
        /\ Len(Keep(active, Requests \ S)) \in 0 .. Len(active)
        /\ Elements(Keep(active, Requests \ S)) = Elements(active) \cap (Requests \ S)
        /\ IsInjective(Keep(active, Requests \ S))
    BY <1>4, KeepList, Zenon
  <2>2. Elements(active) \subseteq Requests
    BY <1>4 DEF Elements
  <2> QED BY <1>2, <2>1, <2>2 DEF ActiveSet
<1>6. S \cap Elements(records) = {}
  BY <1>1, <1>4 DEF Recorded
<1>7. /\ records' \in Seq(Requests) /\ IsInjective(records')
      /\ Elements(records') = Elements(records) \cup S
  <2>1. records \in Seq(Requests) /\ IsInjective(records) /\ Elements(records) \cap Elements(requests) = {}
    BY <1>4, <1>6
  <2>2. /\ records \o requests \in Seq(Requests) /\ IsInjective(records \o requests)
        /\ Elements(records \o requests) = Elements(records) \cup Elements(requests)
    BY <2>1, ConcatList, SMTT(30)
  <2> QED BY <1>2, <2>2
<1>8. BlocksHeld' /\ held' \in [Requests -> SUBSET Occupied']
  <2>1. HeldBy(requests) = UNION {held[r] : r \in S}
    BY DEF HeldBy
  <2>2. /\ \A r \in Requests \ S : held[r] \cap HeldBy(requests) = {}
        /\ Occupied' = UNION {held[r] : r \in Requests \ S}
    BY <1>1, <1>3, <2>1, HeldByRequests
  <2>3. \A r \in Requests : held'[r] = IF r \in S THEN {} ELSE held[r]
    BY <1>2
  <2>4. Occupied' = UNION {held'[r] : r \in Requests}
    BY <2>2, <2>3
  <2>5. \A r, q \in Requests : r # q => held'[r] \cap held'[q] = {}
    BY <2>3 DEF BInv, BlocksHeld
  <2>6. \A r \in Requests : Cardinality(held'[r]) =
           IF r \in ActiveSet' THEN CeilDiv(PromptLen + generated[r] - 1, BlockSize) ELSE 0
    <3> SUFFICES ASSUME NEW r \in Requests
                 PROVE  Cardinality(held'[r]) =
                          IF r \in ActiveSet' THEN CeilDiv(PromptLen + generated[r] - 1, BlockSize) ELSE 0
      OBVIOUS
    <3>1. CASE r \in S
      BY <1>5, <2>3, <3>1, FS_EmptySet
    <3>2. CASE r \notin S
      BY <1>5, <2>3, <3>2 DEF BInv, BlocksHeld
    <3> QED BY <3>1, <3>2
  <2>7. held' \in [Requests -> SUBSET Occupied']
    BY <1>2, <2>3, <2>4
  <2> QED BY <1>2, <2>4, <2>5, <2>6, <2>7, Zenon DEF BlocksHeld, CeilDiv
<1>9. LoopTypes'
  <2>1. Len(active') <= MaxActive
    BY <1>4, <1>5, Sizes
  <2>2. status' \in [Requests -> {"scheduled", "waiting", "running"} \cup Recorded]
    BY <1>2, <1>4
  <2>3. /\ overdue' \subseteq Requests
        /\ passing' \in Seq(Requests) /\ IsInjective(passing') /\ Len(passing') <= MaxBatchSize
        /\ generated' \in [Requests -> 0 .. MaxTokens]
    BY <1>2, Zenon DEF BInv, LoopTypes
  <2> QED BY <1>5, <1>7, <1>8, <2>1, <2>2, <2>3, Zenon DEF LoopTypes
<1>10. StatusTells'
  <2>1. Elements(records') = {r \in Requests : status'[r] \in Recorded}
    BY <1>1, <1>2, <1>4, <1>7, Zenon
  <2>2. \A r \in ActiveSet' : status'[r] = "running" /\ generated'[r] > 0
    <3>1. ActiveSet \subseteq Requests
      BY <1>4 DEF ActiveSet, Elements
    <3> QED BY <1>2, <1>5, <3>1 DEF BInv, StatusTells
  <2>3. \A r \in Requests : status'[r] \in {"scheduled", "waiting"} => generated'[r] = 0
    BY <1>2 DEF BInv, StatusTells, Recorded
  <2> QED BY <2>1, <2>2, <2>3 DEF StatusTells
<1>11. InOrder'
  <2> SUFFICES ASSUME NEW q \in Requests, NEW r \in Requests, q < r
               PROVE  /\ status'[r] # "scheduled" => status'[q] # "scheduled"
                      /\ status'[r] = "running" \/ generated'[r] > 0 => status'[q] # "waiting"
    BY Zenon DEF InOrder
  <2>1. /\ status[r] # "scheduled" => status[q] # "scheduled"
        /\ status[r] = "running" \/ generated[r] > 0 => status[q] # "waiting"
    BY DEF BInv, InOrder
  <2>2. /\ status'[r] = IF r \in S THEN how ELSE status[r]
        /\ status'[q] = IF q \in S THEN how ELSE status[q]
    BY <1>2
  <2>3. how # "scheduled" /\ how # "waiting" /\ how # "running"
    BY DEF Recorded
  <2>4. r \in S => status[r] # "scheduled"
    OBVIOUS
  <2> QED BY <1>2, <2>1, <2>2, <2>3, <2>4
<1> QED BY <1>2, <1>5, <1>8, <1>9, <1>10, <1>11

(* ----------------------------------------------------------------------- *)
(* The forward pass                                                        *)

(* The blocks of a batch that fits: each request gets as many as it needs, of the free
   ones, no two requests the same, and together those with the lowest numbers. *)
LEMMA BlocksHandedOut ==
  ASSUME IInv, BInv, BlocksNeeded(passing, Len(passing)) <= num_free_blocks
  PROVE  /\ \A i \in 1 .. Len(passing) :
              /\ BlocksFor(i) \in SUBSET FreeBlocks
              /\ IsFiniteSet(BlocksFor(i)) /\ Cardinality(BlocksFor(i)) = NewBlocks(passing[i])
         /\ \A i, j \in 1 .. Len(passing) : i # j => BlocksFor(i) \cap BlocksFor(j) = {}
         /\ Allocated \in SUBSET FreeBlocks /\ LowestFree(Allocated)
         /\ Cardinality(Allocated) = BlocksNeeded(passing, Len(passing))
<1> DEFINE n == Len(passing)
           B(i) == BlocksNeeded(passing, i)
           rank(b) == RankIn(FreeBlocks, b)
<1>1. passing \in Seq(Requests) /\ n \in Nat /\ DOMAIN passing = 1 .. n /\ LoopTypes
  BY DEF BInv, LoopTypes
<1>2. /\ B(0) = 0 /\ \A i \in 0 .. n : B(i) \in Nat
      /\ \A i \in 1 .. n : B(i) = B(i - 1) + NewBlocks(passing[i])
  BY <1>1, BlocksNeededStep
<1>3. \A i \in 0 .. n : \A j \in 0 .. i : B(j) <= B(i)
  BY <1>1, BlocksNeededGrow
<1>4. \A i \in 1 .. n : i \in 0 .. n /\ i - 1 \in 0 .. n /\ NewBlocks(passing[i]) \in Nat
  BY <1>1, NewBlocksNat
<1>5. B(n) <= num_free_blocks
  OBVIOUS
<1>6. /\ FreeBlocks \in SUBSET Int /\ IsFiniteSet(FreeBlocks)
      /\ Cardinality(FreeBlocks) = num_free_blocks /\ num_free_blocks \in Nat
  BY FreeCounted
<1>7. ASSUME NEW i \in 1 .. n
      PROVE  BlocksFor(i) = {b \in FreeBlocks : rank(b) \in B(i - 1) + 1 .. B(i)}
  BY <1>2, Zenon DEF BlocksFor, RankIn
<1>8. Allocated = UNION {BlocksFor(i) : i \in 1 .. n}
  BY <1>1, Zenon DEF Allocated
<1> HIDE DEF n, B, rank
<1>9. /\ \A b \in FreeBlocks : rank(b) \in 1 .. num_free_blocks
      /\ \A b, c \in FreeBlocks : b < c <=> rank(b) < rank(c)
  <2>1. /\ \A b \in FreeBlocks : RankIn(FreeBlocks, b) \in 1 .. Cardinality(FreeBlocks)
        /\ \A b, c \in FreeBlocks : b < c <=> RankIn(FreeBlocks, b) < RankIn(FreeBlocks, c)
    BY <1>6, RankNumbers, Zenon
  <2> QED BY <1>6, <2>1 DEF rank
<1>10. ASSUME NEW i \in 1 .. n
       PROVE  /\ BlocksFor(i) \in SUBSET FreeBlocks
              /\ IsFiniteSet(BlocksFor(i)) /\ Cardinality(BlocksFor(i)) = NewBlocks(passing[i])
  <2>1. BlocksFor(i) \in SUBSET FreeBlocks
    BY <1>7
  <2>2. /\ B(i - 1) \in Nat /\ B(i) \in Nat /\ B(i - 1) <= B(i) /\ B(i) <= B(n)
        /\ B(i) - B(i - 1) = NewBlocks(passing[i])
    <3>1. B(i - 1) \in Nat /\ B(i) \in Nat /\ NewBlocks(passing[i]) \in Nat
      BY <1>2, <1>4
    <3>2. n \in 0 .. n /\ i \in 0 .. n
      BY <1>1
    <3>3. B(i) <= B(n)
      BY <1>3, <3>2
    <3> QED BY <1>2, <3>1, <3>3
  <2>3. B(i) <= Cardinality(FreeBlocks)
    <3>1. B(n) \in Nat
      BY <1>1, <1>2
    <3> QED BY <1>5, <1>6, <2>2, <3>1
  <2> DEFINE lo == B(i - 1)
             hi == B(i)
  <2>4. lo \in Nat /\ hi \in Nat /\ lo <= hi /\ hi <= Cardinality(FreeBlocks)
    BY <2>2, <2>3
  <2> HIDE DEF lo, hi
  <2>5. Cardinality({b \in FreeBlocks : RankIn(FreeBlocks, b) \in lo + 1 .. hi}) = hi - lo
    BY <1>6, <2>4, RankSlice, Zenon
  <2>6. BlocksFor(i) = {b \in FreeBlocks : RankIn(FreeBlocks, b) \in lo + 1 .. hi}
    BY <1>7, Zenon DEF lo, hi, rank
  <2>7. IsFiniteSet(BlocksFor(i))
    BY <1>6, <2>1, FS_Subset, Zenon
  <2> QED BY <2>1, <2>2, <2>5, <2>6, <2>7 DEF lo, hi
<1>11. ASSUME NEW i \in 1 .. n, NEW j \in 1 .. n, i < j
       PROVE  BlocksFor(i) \cap BlocksFor(j) = {}
  <2> SUFFICES ASSUME NEW b \in BlocksFor(i), b \in BlocksFor(j) PROVE FALSE
    OBVIOUS
  <2>1. b \in FreeBlocks /\ rank(b) \in B(i - 1) + 1 .. B(i) /\ rank(b) \in B(j - 1) + 1 .. B(j)
    BY <1>7
  <2>2. B(i) <= B(j - 1)
    <3>1. j - 1 \in 0 .. n /\ i \in 0 .. j - 1
      BY <1>1, <1>11
    <3> QED BY <1>3, <3>1
  <2>3. rank(b) \in Nat /\ B(i) \in Nat /\ B(j - 1) \in Nat /\ B(i - 1) \in Nat
    BY <1>2, <1>4, <1>6, <1>9, <2>1
  <2> QED BY <2>1, <2>2, <2>3
<1>12. \A i, j \in 1 .. n : i # j => BlocksFor(i) \cap BlocksFor(j) = {}
  <2> SUFFICES ASSUME NEW i \in 1 .. n, NEW j \in 1 .. n, i # j PROVE BlocksFor(i) \cap BlocksFor(j) = {}
    OBVIOUS
  <2>1. i < j \/ j < i
    BY <1>1
  <2>2. CASE i < j
    BY <1>11, <2>2
  <2>3. CASE j < i
    BY <1>11, <2>3
  <2> QED BY <2>1, <2>2, <2>3
<1>13. Allocated = {b \in FreeBlocks : rank(b) \in 1 .. B(n)}
  <2>1. ASSUME NEW b \in Allocated PROVE b \in FreeBlocks /\ rank(b) \in 1 .. B(n)
    <3>1. PICK i \in 1 .. n : b \in BlocksFor(i)
      BY <1>8
    <3>2. b \in FreeBlocks /\ rank(b) \in B(i - 1) + 1 .. B(i)
      BY <1>7, <3>1
    <3>3. B(i) <= B(n) /\ n \in 0 .. n /\ i \in 0 .. n
      <4>1. n \in 0 .. n /\ i \in 0 .. n
        BY <1>1
      <4> QED BY <1>3, <4>1
    <3>4. rank(b) \in 1 .. num_free_blocks /\ B(i - 1) \in Nat /\ B(i) \in Nat /\ B(n) \in Nat
      BY <1>2, <1>4, <1>9, <3>2, <3>3
    <3> QED BY <3>2, <3>3, <3>4
  <2>2. ASSUME NEW b \in FreeBlocks, rank(b) \in 1 .. B(n) PROVE b \in Allocated
    <3> DEFINE K == {i \in 0 .. n : rank(b) <= B(i)}
    <3>1. K \in SUBSET Nat /\ n \in K
      BY <1>1, <2>2
    <3>2. \A i \in 0 .. n : i \in K <=> rank(b) <= B(i)
      OBVIOUS
    <3>3. K \in SUBSET (0 .. n)
      OBVIOUS
    <3> HIDE DEF K
    <3>4. PICK m \in K : \A i \in K : m <= i
      BY <3>1, Smallest, Zenon
    <3>5. rank(b) \in Nat /\ rank(b) >= 1
      BY <1>9, <1>6
    <3>6. m \in 1 .. n
      <4>1. m \in 0 .. n /\ rank(b) <= B(m)
        BY <3>2, <3>3
      <4>2. m # 0
        BY <1>2, <3>5, <4>1
      <4> QED BY <1>1, <4>1, <4>2
    <3>7. m - 1 \in 0 .. n /\ ~(rank(b) <= B(m - 1))
      <4>1. m - 1 \in 0 .. n /\ ~(m <= m - 1)
        BY <1>1, <3>6
      <4> QED BY <3>2, <3>4, <4>1
    <3>8. rank(b) \in B(m - 1) + 1 .. B(m)
      <4>1. B(m - 1) \in Nat /\ B(m) \in Nat /\ rank(b) <= B(m)
        BY <1>2, <1>4, <3>2, <3>6, <3>7
      <4> QED BY <3>5, <3>7, <4>1
    <3>9. b \in BlocksFor(m)
      BY <1>7, <3>6, <3>8
    <3> QED BY <1>8, <3>6, <3>9
  <2> QED BY <2>1, <2>2
<1>14. Cardinality(Allocated) = B(n)
  <2>1. 0 \in Nat /\ B(n) \in Nat /\ 0 <= B(n) /\ B(n) <= Cardinality(FreeBlocks)
    BY <1>1, <1>2, <1>5, <1>6
  <2> DEFINE hi == B(n)
             lo == 0
  <2>2. Allocated = {b \in FreeBlocks : RankIn(FreeBlocks, b) \in lo + 1 .. hi}
    BY <1>13 DEF rank
  <2>3. lo \in Nat /\ hi \in Nat /\ lo <= hi /\ hi <= Cardinality(FreeBlocks)
    BY <2>1
  <2> HIDE DEF hi, lo
  <2>4. Cardinality({b \in FreeBlocks : RankIn(FreeBlocks, b) \in lo + 1 .. hi}) = hi - lo
    BY <1>6, <2>3, RankSlice, Zenon
  <2> QED BY <2>1, <2>2, <2>4 DEF hi, lo
<1>15. LowestFree(Allocated)
  <2> SUFFICES ASSUME NEW b \in Allocated, NEW c \in FreeBlocks, c < b PROVE c \in Allocated
    BY DEF LowestFree
  <2>1. b \in FreeBlocks /\ rank(b) \in 1 .. B(n)
    BY <1>13
  <2>2. rank(c) < rank(b) /\ rank(c) \in 1 .. num_free_blocks
    BY <1>9, <2>1
  <2>3. rank(c) \in 1 .. B(n)
    BY <1>1, <1>2, <1>6, <2>1, <2>2
  <2> QED BY <1>13, <2>3
<1>16. Allocated \in SUBSET FreeBlocks
  BY <1>13
<1> QED BY <1>10, <1>12, <1>14, <1>15, <1>16 DEF n, B

(* What a request of the batch is given. *)
Given(r) == UNION {BlocksFor(i) : i \in {j \in DOMAIN passing : passing[j] = r}}

(* A request of the batch gets its own new blocks, another request none. *)
LEMMA GivenBlocks ==
  ASSUME IInv, BInv, BlocksNeeded(passing, Len(passing)) <= num_free_blocks
  PROVE  /\ \A r \in Requests : Given(r) \in SUBSET FreeBlocks
         /\ \A r \in Requests \ PassingSet : Given(r) = {}
         /\ \A r \in PassingSet : IsFiniteSet(Given(r)) /\ Cardinality(Given(r)) = NewBlocks(r)
         /\ \A r, q \in Requests : r # q => Given(r) \cap Given(q) = {}
         /\ Allocated = UNION {Given(r) : r \in Requests}
<1>1. /\ passing \in Seq(Requests) /\ DOMAIN passing = 1 .. Len(passing)
      /\ \A i, j \in 1 .. Len(passing) : passing[i] = passing[j] => i = j
      /\ \A i \in 1 .. Len(passing) : passing[i] \in Requests
  BY DEF BInv, LoopTypes, IsInjective
<1>2. /\ \A i \in 1 .. Len(passing) :
              /\ BlocksFor(i) \in SUBSET FreeBlocks
              /\ IsFiniteSet(BlocksFor(i)) /\ Cardinality(BlocksFor(i)) = NewBlocks(passing[i])
      /\ \A i, j \in 1 .. Len(passing) : i # j => BlocksFor(i) \cap BlocksFor(j) = {}
  BY BlocksHandedOut
<1>3. ASSUME NEW i \in 1 .. Len(passing) PROVE Given(passing[i]) = BlocksFor(i)
  <2>1. {j \in DOMAIN passing : passing[j] = passing[i]} = {i}
    BY <1>1
  <2> QED BY <2>1, Zenon DEF Given
<1>4. ASSUME NEW r \in Requests \ PassingSet PROVE Given(r) = {}
  <2>1. {j \in DOMAIN passing : passing[j] = r} = {}
    BY DEF PassingSet, Elements
  <2> QED BY <2>1, Zenon DEF Given
<1>5. \A r \in PassingSet : \E i \in 1 .. Len(passing) : r = passing[i]
  BY <1>1, Zenon DEF PassingSet, Elements
<1>6. \A r \in PassingSet : IsFiniteSet(Given(r)) /\ Cardinality(Given(r)) = NewBlocks(r)
  BY <1>2, <1>3, <1>5, ZenonT(40)
<1>7. \A r \in Requests : Given(r) \in SUBSET FreeBlocks
  <2> SUFFICES ASSUME NEW r \in Requests PROVE Given(r) \in SUBSET FreeBlocks
    OBVIOUS
  <2>1. CASE r \in PassingSet
    BY <1>2, <1>3, <1>5, <2>1, ZenonT(40)
  <2>2. CASE r \notin PassingSet
    BY <1>4, <2>2
  <2> QED BY <2>1, <2>2
<1>8. \A r, q \in Requests : r # q => Given(r) \cap Given(q) = {}
  <2> SUFFICES ASSUME NEW r \in Requests, NEW q \in Requests, r # q, NEW b \in Given(r), b \in Given(q)
               PROVE  FALSE
    OBVIOUS
  <2>1. r \in PassingSet /\ q \in PassingSet
    BY <1>4
  <2>2. PICK i \in 1 .. Len(passing) : r = passing[i]
    BY <1>5, <2>1
  <2>3. PICK j \in 1 .. Len(passing) : q = passing[j]
    BY <1>5, <2>1
  <2>4. i # j /\ b \in BlocksFor(i) /\ b \in BlocksFor(j)
    BY <1>3, <2>2, <2>3
  <2> QED BY <1>2, <2>4
<1>9. Allocated = UNION {Given(r) : r \in Requests}
  <2>1. ASSUME NEW b \in Allocated PROVE \E r \in Requests : b \in Given(r)
    <3>1. PICK i \in 1 .. Len(passing) : b \in BlocksFor(i)
      BY <1>1 DEF Allocated
    <3>2. passing[i] \in Requests /\ b \in Given(passing[i])
      BY <1>1, <1>3, <3>1
    <3> QED BY <3>2
  <2>2. ASSUME NEW r \in Requests, NEW b \in Given(r) PROVE b \in Allocated
    BY Zenon DEF Given, Allocated
  <2> QED BY <2>1, <2>2, Zenon
<1> QED BY <1>4, <1>6, <1>7, <1>8, <1>9

(* A pass does to the pool what Forward does. *)
LEMMA PassDrives ==
  ASSUME IInv, BInv, Pass
  PROVE  Next /\ Occupied' = Occupied \cup Allocated
<1>1. /\ Allocated \in SUBSET FreeBlocks /\ LowestFree(Allocated)
      /\ Cardinality(Allocated) = BlocksNeeded(passing, Len(passing))
      /\ BlocksNeeded(passing, Len(passing)) <= num_free_blocks
  BY BlocksHandedOut DEF Pass
<1>2. /\ is_block_free' = [b \in DOMAIN is_block_free |-> is_block_free[b] /\ b \notin Allocated]
      /\ num_free_blocks' = num_free_blocks - BlocksNeeded(passing, Len(passing))
      /\ pc = "forward" /\ pc' = "ready" /\ PoolOnly
  BY DEF Pass, ServePass
<1>3. Forward(Allocated)
  BY <1>1, <1>2, Zenon DEF Forward, PoolOnly
<1>4. Next
  BY <1>1, <1>3, Zenon DEF Next, Drive
<1>5. Occupied' = Occupied \cup Allocated
  <2>1. Allocated \subseteq DOMAIN is_block_free
    BY <1>1 DEF FreeBlocks
  <2>2. DOMAIN is_block_free' = DOMAIN is_block_free
        /\ \A b \in DOMAIN is_block_free : is_block_free'[b] <=> is_block_free[b] /\ b \notin Allocated
    BY <1>2, Zenon
  <2> QED BY <2>1, <2>2, Zenon DEF Occupied
<1> QED BY <1>4, <1>5

(* A pass gives each request of the batch a token and the blocks it takes. *)
LEMMA PassKeeps ==
  ASSUME IInv, BInv, Pass
  PROVE  BInv'
<1> DEFINE new == Keep(passing, Requests \ ActiveSet)
<1>1. /\ status' = status /\ overdue' = overdue /\ passing' = passing /\ records' = records
      /\ held' = [r \in Requests |-> held[r] \cup Given(r)]
      /\ generated' = [r \in Requests |-> generated[r] + IF r \in PassingSet THEN 1 ELSE 0]
      /\ active' = active \o new
      /\ pc' = "ready" /\ draining' = draining /\ turn = "pass"
      /\ turn' = IF PassingSet \subseteq ActiveSet THEN "finish" ELSE "top"
  BY Zenon DEF Pass, ServePass, Given, PassingSet, ActiveSet, PoolOnly
<1>2. /\ LoopTypes /\ StatusTells /\ BlocksHeld /\ InOrder /\ TokensLeft /\ ~draining
      /\ PassingSet \subseteq ActiveSet \/ JustAdmitted
  BY <1>1 DEF BInv, TurnsTaken, PassingTells
<1>3. /\ active \in Seq(Requests) /\ IsInjective(active) /\ Len(active) <= MaxActive
      /\ passing \in Seq(Requests) /\ IsInjective(passing) /\ Len(passing) <= MaxBatchSize
      /\ ActiveSet \subseteq Requests /\ PassingSet \subseteq Requests
  BY <1>2 DEF LoopTypes, ActiveSet, PassingSet, Elements
<1>4. /\ new \in Seq(Requests) /\ IsInjective(new) /\ Len(new) \in 0 .. Len(passing)
      /\ Elements(new) = PassingSet \cap (Requests \ ActiveSet)
  BY <1>3, KeepList, Zenon DEF PassingSet
<1>5. /\ active' \in Seq(Requests) /\ IsInjective(active') /\ Len(active') = Len(active) + Len(new)
      /\ ActiveSet' = ActiveSet \cup PassingSet
  <2> HIDE DEF new
  <2>1. Elements(active) \cap Elements(new) = {}
    BY <1>4 DEF ActiveSet
  <2>2. /\ active \o new \in Seq(Requests) /\ IsInjective(active \o new)
        /\ Len(active \o new) = Len(active) + Len(new)
        /\ Elements(active \o new) = Elements(active) \cup Elements(new)
    BY <1>3, <1>4, <2>1, ConcatList, SMTT(30)
  <2>3. Elements(active') = Elements(active) \cup Elements(new)
    BY <1>1, <2>2
  <2> QED BY <1>1, <1>3, <1>4, <2>2, <2>3 DEF ActiveSet
<1>6. Len(active') <= MaxActive
  <2>1. Len(active) \in Nat /\ Len(passing) \in Nat /\ Len(new) \in 0 .. Len(passing)
    BY <1>3, <1>4
  <2>2. CASE JustAdmitted
    BY <1>5, <2>1, <2>2, Sizes DEF JustAdmitted
  <2>3. CASE PassingSet \subseteq ActiveSet
    <3>1. Elements(new) = {}
      BY <1>4, <2>3
    <3> HIDE DEF new
    <3>2. Len(new) = 0
      <4>1. Len(new) # 0 => new[1] \in Elements(new)
        BY <1>4 DEF Elements
      <4> QED BY <3>1, <4>1
    <3> QED BY <1>3, <1>5, <2>1, <3>2, Sizes
  <2> QED BY <1>2, <2>2, <2>3
<1> HIDE DEF new
<1>7. \A r \in Requests : generated[r] \in 0 .. MaxTokens /\ MaxTokens \in Nat
  BY <1>2, Sizes DEF LoopTypes
<1>8. ASSUME NEW r \in PassingSet
      PROVE  /\ status[r] = "running"
             /\ generated[r] + 1 <= MaxTokens
             /\ r \notin ActiveSet => generated[r] = 0
             /\ r \in ActiveSet => generated[r] > 0
  <2>1. CASE r \in ActiveSet
    <3>1. status[r] = "running" /\ generated[r] > 0
      BY <1>2, <2>1 DEF StatusTells
    <3>2. generated[r] < OutputLen \/ generated[r] = 1
      BY <1>1, <1>2, <2>1 DEF TokensLeft
    <3> QED BY <1>3, <1>7, <2>1, <3>1, <3>2, Sizes
  <2>2. CASE r \notin ActiveSet
    BY <1>2, <2>2, Sizes DEF JustAdmitted
  <2> QED BY <2>1, <2>2
<1>9. /\ \A r \in Requests : Given(r) \in SUBSET FreeBlocks
      /\ \A r \in Requests \ PassingSet : Given(r) = {}
      /\ \A r \in PassingSet : IsFiniteSet(Given(r)) /\ Cardinality(Given(r)) = NewBlocks(r)
      /\ \A r, q \in Requests : r # q => Given(r) \cap Given(q) = {}
      /\ Allocated = UNION {Given(r) : r \in Requests}
  BY GivenBlocks DEF Pass
<1>10. Occupied' = Occupied \cup Allocated /\ FreeBlocks \cap Occupied = {}
  BY PassDrives, FreeCounted
<1>11. \A r \in Requests : held[r] \in SUBSET Occupied /\ held'[r] = held[r] \cup Given(r)
  BY <1>1, <1>2 DEF LoopTypes
<1>12. Occupied' = UNION {held'[r] : r \in Requests}
  <2>1. Occupied = UNION {held[r] : r \in Requests}
    BY <1>2 DEF BlocksHeld
  <2> QED BY <1>9, <1>10, <1>11, <2>1
<1>13. \A r, q \in Requests : r # q => held'[r] \cap held'[q] = {}
  <2> SUFFICES ASSUME NEW r \in Requests, NEW q \in Requests, r # q PROVE held'[r] \cap held'[q] = {}
    OBVIOUS
  <2>1. held[r] \cap held[q] = {} /\ Given(r) \cap Given(q) = {}
    BY <1>2, <1>9 DEF BlocksHeld
  <2>2. /\ held[r] \in SUBSET Occupied /\ held[q] \in SUBSET Occupied
        /\ Given(r) \in SUBSET FreeBlocks /\ Given(q) \in SUBSET FreeBlocks
        /\ held'[r] = held[r] \cup Given(r) /\ held'[q] = held[q] \cup Given(q)
    BY <1>9, <1>11
  <2> QED BY <1>10, <2>1, <2>2
<1>14. ASSUME NEW r \in Requests
       PROVE  Cardinality(held'[r]) =
                IF r \in ActiveSet' THEN CeilDiv(PromptLen + generated'[r] - 1, BlockSize) ELSE 0
  <2>1. Cardinality(held[r]) = IF r \in ActiveSet THEN CeilDiv(PromptLen + generated[r] - 1, BlockSize) ELSE 0
    BY <1>2 DEF BlocksHeld
  <2>2. IsFiniteSet(held[r]) /\ Cardinality(held[r]) \in Nat /\ generated[r] \in Nat
    BY <1>2, HeldFinite
  <2>3. CASE r \in PassingSet
    <3>1. IsFiniteSet(Given(r)) /\ Cardinality(Given(r)) = NewBlocks(r) /\ held[r] \cap Given(r) = {}
      BY <1>9, <1>10, <1>11, <2>3
    <3>2. Cardinality(held[r] \cup Given(r)) =
            Cardinality(held[r]) + Cardinality(Given(r)) - Cardinality(held[r] \cap Given(r))
      BY <2>2, <3>1, FS_Union, Zenon
    <3>3. Cardinality(held[r] \cap Given(r)) = 0
      BY <3>1, FS_EmptySet, Zenon
    <3> DEFINE now == CeilDiv(PromptLen + generated[r], BlockSize)
               before == CeilDiv(PromptLen + generated[r] - 1, BlockSize)
    <3>4. now \in Nat /\ before \in Nat /\ before <= now
      BY <2>2, BlocksGrow
    <3>5. NewBlocks(r) = IF now - Cardinality(held[r]) > 0 THEN now - Cardinality(held[r]) ELSE 0
      BY DEF NewBlocks
    <3>6. PromptLen + generated'[r] - 1 = PromptLen + generated[r]
      BY <1>1, <2>2, <2>3, Sizes
    <3>7. CeilDiv(PromptLen + generated'[r] - 1, BlockSize) = now
      BY <3>6, Zenon
    <3> HIDE DEF now, before
    <3>8. Cardinality(held'[r]) = Cardinality(held[r]) + NewBlocks(r)
      <4>1. Cardinality(held'[r]) = Cardinality(held[r] \cup Given(r))
        BY <1>11, Zenon
      <4>2. NewBlocks(r) \in Nat
        BY <1>2, NewBlocksNat
      <4> QED BY <2>2, <3>1, <3>2, <3>3, <4>1, <4>2
    <3>9. Cardinality(held[r]) <= now
      BY <2>1, <2>2, <3>4 DEF before
    <3>10. Cardinality(held'[r]) = now
      BY <2>2, <3>4, <3>5, <3>8, <3>9
    <3> QED BY <1>5, <2>3, <3>7, <3>10
  <2>4. CASE r \notin PassingSet
    <3>1. held'[r] = held[r] /\ generated'[r] = generated[r]
      BY <1>1, <1>9, <1>11, <2>2, <2>4
    <3> QED BY <1>5, <2>1, <2>4, <3>1
  <2> QED BY <2>3, <2>4
<1>15. BlocksHeld'
  BY <1>12, <1>13, <1>14, Zenon DEF BlocksHeld, CeilDiv
<1>16. LoopTypes'
  <2>1. generated' \in [Requests -> 0 .. MaxTokens]
    <3>1. \A r \in Requests : generated[r] + (IF r \in PassingSet THEN 1 ELSE 0) \in 0 .. MaxTokens
      BY <1>7, <1>8
    <3> QED BY <1>1, <3>1
  <2>2. held' \in [Requests -> SUBSET Occupied']
    BY <1>1, <1>11, <1>12
  <2>3. /\ status' \in [Requests -> {"scheduled", "waiting", "running"} \cup Recorded]
        /\ overdue' \subseteq Requests /\ records' \in Seq(Requests) /\ IsInjective(records')
        /\ passing' \in Seq(Requests) /\ IsInjective(passing') /\ Len(passing') <= MaxBatchSize
    BY <1>1, <1>2, Zenon DEF LoopTypes
  <2> QED BY <1>5, <1>6, <2>1, <2>2, <2>3, Zenon DEF LoopTypes
<1>17. \A r \in Requests : generated'[r] = IF r \in PassingSet THEN generated[r] + 1 ELSE generated[r]
  BY <1>1, <1>7
<1>18. StatusTells'
  <2>1. \A r \in ActiveSet' : status'[r] = "running" /\ generated'[r] > 0
    <3> SUFFICES ASSUME NEW r \in ActiveSet' PROVE status'[r] = "running" /\ generated'[r] > 0
      OBVIOUS
    <3>1. CASE r \in PassingSet
      BY <1>1, <1>3, <1>7, <1>8, <1>17, <3>1
    <3>2. CASE r \notin PassingSet
      BY <1>1, <1>2, <1>3, <1>5, <1>17, <3>2 DEF StatusTells
    <3> QED BY <3>1, <3>2
  <2>2. \A r \in Requests : status'[r] \in {"scheduled", "waiting"} => generated'[r] = 0
    BY <1>1, <1>2, <1>8, <1>17 DEF StatusTells
  <2>3. Elements(records') = {r \in Requests : status'[r] \in Recorded}
    BY <1>1, <1>2, Zenon DEF StatusTells
  <2> QED BY <2>1, <2>2, <2>3 DEF StatusTells
<1>19. InOrder'
  <2> SUFFICES ASSUME NEW q \in Requests, NEW r \in Requests, q < r
               PROVE  /\ status'[r] # "scheduled" => status'[q] # "scheduled"
                      /\ status'[r] = "running" \/ generated'[r] > 0 => status'[q] # "waiting"
    BY Zenon DEF InOrder
  <2>1. /\ status[r] # "scheduled" => status[q] # "scheduled"
        /\ status[r] = "running" \/ generated[r] > 0 => status[q] # "waiting"
    BY <1>2 DEF InOrder
  <2> QED BY <1>1, <1>8, <1>17, <2>1
<1>20. PassingSet' = PassingSet
  BY <1>1 DEF PassingSet
<1>21. TurnsTaken' /\ PassingTells'
  BY <1>1, <1>2, <1>5, <1>20 DEF TurnsTaken, PassingTells
<1>22. TokensLeft'
  <2> SUFFICES ASSUME NEW r \in ActiveSet'
               PROVE  \/ generated'[r] < OutputLen \/ generated'[r] = 1
                      \/ turn' = "finish" /\ r \in PassingSet'
    BY DEF TokensLeft
  <2>1. CASE r \in PassingSet /\ r \notin ActiveSet
    BY <1>3, <1>8, <1>17, <2>1
  <2>2. CASE r \in PassingSet /\ r \in ActiveSet
    <3>1. PassingSet \subseteq ActiveSet
      BY <1>2, <2>2 DEF JustAdmitted
    <3> QED BY <1>1, <1>20, <2>2, <3>1
  <2>3. CASE r \notin PassingSet
    <3>1. r \in ActiveSet /\ r \in Requests
      BY <1>3, <1>5, <2>3
    <3>2. generated[r] < OutputLen \/ generated[r] = 1
      BY <1>1, <1>2, <3>1 DEF TokensLeft
    <3> QED BY <1>17, <2>3, <3>1, <3>2
  <2> QED BY <2>1, <2>2, <2>3
<1> QED BY <1>15, <1>16, <1>18, <1>19, <1>21, <1>22 DEF BInv

(* ----------------------------------------------------------------------- *)
(* Arrival, selection and the other steps of the loop                      *)

(* The requests that wait, each once and the earliest first. *)
LEMMA WaitingList ==
  /\ Waiting \in Seq(Requests) /\ IsInjective(Waiting)
  /\ Elements(Waiting) = {r \in Requests : status[r] = "waiting"}
  /\ \A a, b \in DOMAIN Waiting : a < b => Waiting[a] < Waiting[b]
<1> DEFINE S == {r \in Requests : status[r] = "waiting"}
           n == NumRequests
<1>1. n \in Nat /\ Requests = 1 .. n /\ Waiting = Keep(Prefix(n), S)
  BY Sizes DEF Waiting, Prefix, Requests
<1>2. (1 .. n) \cap S = S
  BY <1>1
<1> HIDE DEF n, S
<1>3. /\ Keep(Prefix(n), S) \in Seq(1 .. n)
      /\ Elements(Keep(Prefix(n), S)) = (1 .. n) \cap S
      /\ IsInjective(Keep(Prefix(n), S))
      /\ \A a, b \in DOMAIN Keep(Prefix(n), S) : a < b => Keep(Prefix(n), S)[a] < Keep(Prefix(n), S)[b]
  BY <1>1, KeepAscends, Zenon
<1> QED BY <1>1, <1>2, <1>3 DEF S

(* A request arrives, in its turn. *)
LEMMA ArriveKeeps ==
  ASSUME IInv, BInv, NEW x \in Requests, Arrive(x)
  PROVE  UNCHANGED vars /\ BInv'
<1>1. /\ UNCHANGED vars /\ turn \in {"top", "idle"}
      /\ status[x] = "scheduled" /\ \A q \in 1 .. x - 1 : status[q] # "scheduled"
      /\ status' = [status EXCEPT ![x] = "waiting"]
      /\ UNCHANGED <<overdue, active, passing, generated, held, records, turn>>
  BY DEF Arrive, Awaiting
<1>2. is_block_free' = is_block_free /\ pc' = pc /\ draining' = draining
  BY <1>1 DEF vars
<1>3. Occupied' = Occupied /\ ActiveSet' = ActiveSet /\ PassingSet' = PassingSet
  BY <1>1, <1>2 DEF Occupied, ActiveSet, PassingSet
<1>4. /\ status \in [Requests -> {"scheduled", "waiting", "running"} \cup Recorded]
      /\ StatusTells /\ LoopTypes /\ BlocksHeld /\ InOrder
  BY DEF BInv, LoopTypes
<1>5. \A r \in Requests : status'[r] = IF r = x THEN "waiting" ELSE status[r]
  BY <1>1, <1>4
<1>6. LoopTypes'
  <2>1. status' \in [Requests -> {"scheduled", "waiting", "running"} \cup Recorded]
    BY <1>1, <1>4
  <2> QED BY <1>1, <1>3, <1>4, <2>1, Zenon DEF LoopTypes
<1>7. StatusTells'
  <2>1. Elements(records') = {r \in Requests : status'[r] \in Recorded}
    <3>1. "waiting" \notin Recorded /\ "scheduled" \notin Recorded
      BY DEF Recorded
    <3> QED BY <1>1, <1>4, <1>5, <3>1 DEF StatusTells
  <2>2. \A r \in ActiveSet' : status'[r] = "running" /\ generated'[r] > 0
    <3>1. ActiveSet \subseteq Requests /\ x \notin ActiveSet
      <4>1. active \in Seq(Requests)
        BY <1>4 DEF LoopTypes
      <4>2. ActiveSet \subseteq Requests
        BY <4>1 DEF ActiveSet, Elements
      <4>3. status[x] # "running"
        BY <1>1
      <4> QED BY <1>4, <4>2, <4>3, Zenon DEF StatusTells
    <3> QED BY <1>1, <1>3, <1>4, <1>5, <3>1 DEF StatusTells
  <2>3. \A r \in Requests : status'[r] \in {"scheduled", "waiting"} => generated'[r] = 0
    BY <1>1, <1>4, <1>5 DEF StatusTells
  <2> QED BY <2>1, <2>2, <2>3 DEF StatusTells
<1>8. BlocksHeld'
  BY <1>1, <1>3, <1>4, Zenon DEF BlocksHeld
<1>9. InOrder'
  <2> SUFFICES ASSUME NEW q \in Requests, NEW r \in Requests, q < r
               PROVE  /\ status'[r] # "scheduled" => status'[q] # "scheduled"
                      /\ status'[r] = "running" \/ generated'[r] > 0 => status'[q] # "waiting"
    BY Zenon DEF InOrder
  <2>1. /\ status[r] # "scheduled" => status[q] # "scheduled"
        /\ status[r] = "running" \/ generated[r] > 0 => status[q] # "waiting"
    BY <1>4 DEF InOrder
  <2>2. q \in Nat /\ r \in Nat /\ q >= 1
    BY Sizes DEF Requests
  <2>3. r = x => status[q] # "scheduled" /\ generated[r] = 0
    BY <1>1, <1>4, <2>2 DEF StatusTells
  <2>4. q = x => status[r] = "scheduled" /\ generated[r] = 0
    BY <1>1, <1>4, <2>1 DEF StatusTells
  <2> QED BY <1>1, <1>5, <2>1, <2>3, <2>4
<1>10. TurnsTaken' /\ PassingTells' /\ TokensLeft'
  BY <1>1, <1>2, <1>3 DEF BInv, TurnsTaken, PassingTells, TokensLeft
<1> QED BY <1>1, <1>6, <1>7, <1>8, <1>9, <1>10 DEF BInv

(* A batch that is admitted: the earliest of those that wait, all of them within the
   bound on what is active. *)
LEMMA AdmitKeeps ==
  ASSUME IInv, BInv, Admit
  PROVE  UNCHANGED vars /\ BInv'
<1>1. /\ UNCHANGED vars /\ turn = "select" /\ turn' = "sample" /\ passing' = Admissible
      /\ status' = [r \in Requests |-> IF r \in PassingSet' THEN "running" ELSE status[r]]
      /\ UNCHANGED <<overdue, active, generated, held, records>>
  BY Zenon DEF Admit, PassingSet
<1>2. is_block_free' = is_block_free /\ pc' = pc /\ draining' = draining
  BY <1>1 DEF vars
<1>3. Occupied' = Occupied /\ ActiveSet' = ActiveSet
  BY <1>1, <1>2 DEF Occupied, ActiveSet
<1>4. /\ StatusTells /\ LoopTypes /\ BlocksHeld /\ InOrder /\ TokensLeft
      /\ status \in [Requests -> {"scheduled", "waiting", "running"} \cup Recorded]
      /\ active \in Seq(Requests) /\ Len(active) <= MaxActive /\ Len(active) \in Nat
  BY DEF BInv, LoopTypes
<1>5. /\ Waiting \in Seq(Requests) /\ IsInjective(Waiting)
      /\ Elements(Waiting) = {r \in Requests : status[r] = "waiting"}
      /\ \A a, b \in DOMAIN Waiting : a < b => Waiting[a] < Waiting[b]
  BY WaitingList
<1> DEFINE limit == Smaller(MaxBatchSize, MaxActive - Len(active))
<1>6. limit \in Nat /\ limit <= MaxBatchSize /\ Len(active) + limit <= MaxActive
  BY <1>4, Sizes DEF Smaller
<1>7. Admissible = Fitting(Waiting, limit)
  BY DEF Admissible
<1> HIDE DEF limit
<1>8. PICK m \in 0 .. Len(Waiting) : m <= limit /\ Fitting(Waiting, limit) = SubSeq(Waiting, 1, m)
  BY <1>4, <1>5, <1>6, FittingIsFirst, Zenon
<1>9. /\ passing' \in Seq(Requests) /\ Len(passing') = m /\ IsInjective(passing')
      /\ PassingSet' = {Waiting[i] : i \in 1 .. m}
      /\ PassingSet' \subseteq Elements(Waiting)
      /\ \A i \in 1 .. m : i \in DOMAIN Waiting
  <2>1. passing' = SubSeq(Waiting, 1, m)
    BY <1>1, <1>7, <1>8
  <2> QED BY <1>5, <2>1, FirstOfList, Zenon DEF PassingSet
<1>10. Len(passing') <= MaxBatchSize /\ Len(active) + Len(passing') <= MaxActive
  BY <1>4, <1>6, <1>8, <1>9, Sizes
<1>11. \A r \in PassingSet' : r \in Requests /\ status[r] = "waiting" /\ generated[r] = 0
  BY <1>4, <1>5, <1>9 DEF StatusTells
<1>12. \A r \in Requests : status'[r] = IF r \in PassingSet' THEN "running" ELSE status[r]
  BY <1>1
<1>13. PassingSet' \cap ActiveSet = {}
  BY <1>4, <1>11 DEF StatusTells
<1>14. LoopTypes'
  <2>1. status' \in [Requests -> {"scheduled", "waiting", "running"} \cup Recorded]
    BY <1>1, <1>4
  <2> QED BY <1>1, <1>3, <1>4, <1>9, <1>10, <2>1, Zenon DEF LoopTypes
<1>15. StatusTells'
  <2>1. Elements(records') = {r \in Requests : status'[r] \in Recorded}
    <3>1. "waiting" \notin Recorded /\ "running" \notin Recorded
      BY DEF Recorded
    <3> QED BY <1>1, <1>4, <1>11, <1>12, <3>1 DEF StatusTells
  <2>2. \A r \in ActiveSet' : status'[r] = "running" /\ generated'[r] > 0
    <3>1. ActiveSet \subseteq Requests
      BY <1>4 DEF ActiveSet, Elements
    <3> QED BY <1>1, <1>3, <1>4, <1>12, <3>1 DEF StatusTells
  <2>3. \A r \in Requests : status'[r] \in {"scheduled", "waiting"} => generated'[r] = 0
    BY <1>1, <1>4, <1>12 DEF StatusTells
  <2> QED BY <2>1, <2>2, <2>3 DEF StatusTells
<1>16. BlocksHeld'
  BY <1>1, <1>3, <1>4, Zenon DEF BlocksHeld
<1>17. InOrder'
  <2> SUFFICES ASSUME NEW q \in Requests, NEW r \in Requests, q < r
               PROVE  /\ status'[r] # "scheduled" => status'[q] # "scheduled"
                      /\ status'[r] = "running" \/ generated'[r] > 0 => status'[q] # "waiting"
    BY Zenon DEF InOrder
  <2>1. /\ status[r] # "scheduled" => status[q] # "scheduled"
        /\ status[r] = "running" \/ generated[r] > 0 => status[q] # "waiting"
    BY <1>4 DEF InOrder
  <2>2. ASSUME r \in PassingSet', status[q] = "waiting" PROVE q \in PassingSet'
    <3>1. PICK i \in 1 .. m : r = Waiting[i]
      BY <1>9, <2>2
    <3>2. PICK j \in DOMAIN Waiting : q = Waiting[j]
      BY <1>5, <2>2 DEF Elements
    <3>3. i \in DOMAIN Waiting /\ i \in Nat /\ j \in Nat /\ j >= 1
      BY <1>5, <1>9
    <3>4. q \in Nat /\ r \in Nat
      BY Sizes DEF Requests
    <3>5. ~(i < j) /\ i # j
      BY <1>5, <3>1, <3>2, <3>3, <3>4
    <3>6. j \in 1 .. m
      BY <3>3, <3>5
    <3> QED BY <1>9, <3>2, <3>6
  <2> QED BY <1>1, <1>11, <1>12, <2>1, <2>2
<1>18. JustAdmitted'
  BY <1>1, <1>3, <1>10, <1>11, <1>12, <1>13 DEF JustAdmitted
<1>19. TurnsTaken' /\ PassingTells' /\ TokensLeft'
  <2>1. ActiveSet \subseteq Requests
    BY <1>4 DEF ActiveSet, Elements
  <2> QED BY <1>1, <1>2, <1>3, <1>4, <1>18, <2>1 DEF BInv, TurnsTaken, PassingTells, TokensLeft
<1> QED BY <1>1, <1>14, <1>15, <1>16, <1>17, <1>19 DEF BInv

(* The decoding batch is a part of what is active. *)
LEMMA SelectDecodeKeeps ==
  ASSUME IInv, BInv, SelectDecode
  PROVE  UNCHANGED vars /\ BInv'
<1>1. /\ UNCHANGED vars /\ turn = "select" /\ turn' = "sample" /\ passing' = Decodable
      /\ UNCHANGED <<status, overdue, active, generated, held, records>>
  BY DEF SelectDecode
<1>2. is_block_free' = is_block_free /\ pc' = pc /\ draining' = draining
  BY <1>1 DEF vars
<1>3. Occupied' = Occupied /\ ActiveSet' = ActiveSet
  BY <1>1, <1>2 DEF Occupied, ActiveSet
<1>4. /\ StatusTells /\ LoopTypes /\ BlocksHeld /\ InOrder /\ TokensLeft
      /\ active \in Seq(Requests) /\ IsInjective(active)
  BY DEF BInv, LoopTypes
<1>5. MaxBatchSize \in Nat
  BY Sizes
<1>6. PICK m \in 0 .. Len(active) : m <= MaxBatchSize /\ Fitting(active, MaxBatchSize) = SubSeq(active, 1, m)
  BY <1>4, <1>5, FittingIsFirst, Zenon
<1>7. /\ passing' \in Seq(Requests) /\ Len(passing') = m /\ IsInjective(passing')
      /\ PassingSet' \subseteq ActiveSet
  <2>1. passing' = SubSeq(active, 1, m)
    BY <1>1, <1>6 DEF Decodable
  <2> QED BY <1>4, <2>1, FirstOfList, Zenon DEF PassingSet, ActiveSet
<1>8. LoopTypes'
  BY <1>1, <1>3, <1>4, <1>6, <1>7, Zenon DEF LoopTypes
<1>9. StatusTells' /\ BlocksHeld' /\ InOrder'
  BY <1>1, <1>3, <1>4, Zenon DEF StatusTells, BlocksHeld, InOrder
<1>10. TurnsTaken' /\ PassingTells' /\ TokensLeft'
  BY <1>1, <1>2, <1>3, <1>4, <1>7 DEF BInv, TurnsTaken, PassingTells, TokensLeft
<1> QED BY <1>1, <1>8, <1>9, <1>10 DEF BInv

(* Steps that look at nothing but the turn, or wait for time to pass. *)
LEMMA IdleStepKeeps ==
  ASSUME IInv, BInv,
         NothingFits \/ Sleep \/ PassRaises \/ Ended \/ \E r \in Requests : Expire(r)
  PROVE  UNCHANGED vars /\ BInv'
<1>1. /\ UNCHANGED vars
      /\ UNCHANGED <<status, active, passing, generated, held, records>>
      /\ overdue' \subseteq Requests
      /\ \/ turn' = turn
         \/ turn = "select" /\ turn' \in {"top", "idle"}
         \/ turn = "pass" /\ turn' = "failed" /\ pc = "forward"
  <2>1. overdue \subseteq Requests
    BY DEF BInv, LoopTypes
  <2>2. CASE Ended
    BY <2>1, <2>2 DEF Ended, benchVars, vars
  <2> QED BY <2>1, <2>2 DEF NothingFits, Sleep, PassRaises, Expire, Awaiting
<1>2. is_block_free' = is_block_free /\ pc' = pc /\ draining' = draining
  BY <1>1 DEF vars
<1>3. Occupied' = Occupied /\ ActiveSet' = ActiveSet /\ PassingSet' = PassingSet
  BY <1>1, <1>2 DEF Occupied, ActiveSet, PassingSet
<1>4. LoopTypes' /\ StatusTells' /\ BlocksHeld' /\ InOrder' /\ JustAdmitted' = JustAdmitted
  BY <1>1, <1>3, RequestsKept
<1>5. TurnsTaken' /\ PassingTells' /\ TokensLeft'
  BY <1>1, <1>2, <1>3, <1>4 DEF BInv, TurnsTaken, PassingTells, TokensLeft, Driving
<1> QED BY <1>1, <1>4, <1>5 DEF BInv

(* The steps in which the coordinator samples, acts or refuses. *)
LEMMA CoordinatorStepKeeps ==
  ASSUME IInv, BInv, SampleBeforePass \/ CleanupSample \/ StepContinues \/ StepRefuses
  PROVE  Next /\ BInv'
<1>1. /\ UNCHANGED <<status, overdue, active, passing, generated, held, records>>
      /\ overdue \subseteq Requests
  BY DEF SampleBeforePass, CleanupSample, StepContinues, StepRefuses, loopVars, BInv, LoopTypes
<1>2. Next /\ Occupied' = Occupied
  <2>1. ASSUME NEW signal \in Signals, Sample(signal) PROVE Next /\ Occupied' = Occupied
    BY <2>1, SampleKeepsPool DEF IInv, Next
  <2>2. Act => Next /\ Occupied' = Occupied
    BY ActKeepsPool, NextKeepsListInv DEF IInv, Next
  <2>3. StepDisabled => Next /\ Occupied' = Occupied
    BY DEF StepDisabled, execVars, Occupied, Next, Drive
  <2> QED BY <2>1, <2>2, <2>3 DEF SampleBeforePass, CleanupSample, StepContinues, StepRefuses
<1>3. LoopTypes' /\ StatusTells' /\ BlocksHeld' /\ InOrder' /\ JustAdmitted' = JustAdmitted
  BY <1>1, <1>2, RequestsKept
<1>4. ActiveSet' = ActiveSet /\ PassingSet' = PassingSet
  BY <1>1 DEF ActiveSet, PassingSet
<1>5. CASE SampleBeforePass
  <2>1. /\ turn = "sample" /\ turn' = "pass" /\ draining' = draining
        /\ pc' \in Stepping \/ pc' = IF draining THEN "ready" ELSE "forward"
    BY <1>5, SampleTakesTurn DEF SampleBeforePass
  <2>2. TurnsTaken' /\ PassingTells' /\ TokensLeft'
    BY <1>1, <1>3, <1>4, <2>1 DEF BInv, TurnsTaken, PassingTells, TokensLeft
  <2> QED BY <1>2, <1>3, <2>2 DEF BInv
<1>6. CASE CleanupSample
  <2>1. /\ turn = "cleanup" /\ turn' = turn /\ draining' = draining
        /\ pc' \in Stepping \/ pc' = IF draining THEN "ready" ELSE "forward"
    BY <1>6, SampleTakesTurn DEF CleanupSample, loopVars
  <2>2. TurnsTaken' /\ PassingTells' /\ TokensLeft'
    BY <1>1, <1>3, <1>4, <2>1 DEF BInv, TurnsTaken, PassingTells, TokensLeft
  <2> QED BY <1>2, <1>3, <2>2 DEF BInv
<1>7. CASE StepContinues
  <2>1. /\ turn' = turn /\ pc \in Stepping /\ draining' = draining
        /\ pc' \in Stepping \/ pc' = IF draining THEN "ready" ELSE "forward"
    BY <1>7, ActsInsideStep DEF StepContinues, loopVars
  <2>2. turn \in {"pass", "cleanup"}
    BY <2>1 DEF BInv, TurnsTaken, Stepping, Driving
  <2>3. TurnsTaken' /\ PassingTells' /\ TokensLeft'
    BY <1>1, <1>3, <1>4, <2>1, <2>2 DEF BInv, TurnsTaken, PassingTells, TokensLeft
  <2> QED BY <1>2, <1>3, <2>3 DEF BInv
<1>8. CASE StepRefuses
  <2>1. turn \in {"sample", "cleanup"} /\ turn' = "failed" /\ pc' = "stopped"
    BY <1>8 DEF StepRefuses, StepDisabled
  <2>2. TurnsTaken' /\ PassingTells' /\ TokensLeft'
    BY <1>1, <1>3, <1>4, <2>1 DEF BInv, TurnsTaken, PassingTells, TokensLeft, Driving
  <2> QED BY <1>2, <1>3, <2>2 DEF BInv
<1> QED BY <1>5, <1>6, <1>7, <1>8

(* Requests that time out, while active or while they wait, or that are done. *)
LEMMA FinishingKeeps ==
  ASSUME IInv, BInv, TimeOutActive \/ TimeOutWaiting \/ FinishDone
  PROVE  [Next]_vars /\ BInv'
<1>1. /\ LoopTypes /\ StatusTells /\ TurnsTaken /\ PassingTells /\ TokensLeft
      /\ active \in Seq(Requests) /\ IsInjective(active)
      /\ passing \in Seq(Requests) /\ IsInjective(passing)
      /\ ActiveSet \subseteq Requests
  BY DEF BInv, LoopTypes, ActiveSet, Elements
<1>2. pc = "ready" /\ ~draining /\ passing' = passing
  BY <1>1 DEF TimeOutActive, TimeOutWaiting, FinishDone, TurnsTaken
<1>3. PassingSet' = PassingSet
  BY <1>2 DEF PassingSet
<1>4. {"timeout", "done"} \subseteq Recorded
  BY DEF Recorded
<1>5. CASE TimeOutActive
  <2> DEFINE requests == Keep(active, overdue)
  <2>1. /\ requests \in Seq(Requests) /\ IsInjective(requests)
        /\ Elements(requests) = ActiveSet \cap overdue
    BY <1>1, KeepList, Zenon DEF ActiveSet
  <2>2. FinishStates(requests, "timeout") /\ turn = "top" /\ turn' = "select"
    BY <1>5 DEF TimeOutActive
  <2> HIDE DEF requests
  <2>3. \A r \in Elements(requests) : status[r] \in {"waiting", "running"}
    BY <1>1, <2>1 DEF StatusTells
  <2>4. [Next]_vars
    BY <1>2, <2>1, <2>2, FinishStatesDrives
  <2>5. /\ LoopTypes' /\ StatusTells' /\ BlocksHeld' /\ InOrder'
        /\ ActiveSet' = ActiveSet \ Elements(requests)
        /\ generated' = generated /\ pc' = pc /\ draining' = draining
    BY <1>2, <1>4, <2>1, <2>2, <2>3, FinishStatesKeeps
  <2>6. TurnsTaken' /\ PassingTells' /\ TokensLeft'
    BY <1>1, <1>2, <1>3, <2>2, <2>5 DEF TurnsTaken, PassingTells, TokensLeft
  <2> QED BY <2>4, <2>5, <2>6 DEF BInv
<1>6. CASE TimeOutWaiting
  <2> DEFINE requests == Keep(Waiting, overdue)
  <2>1. /\ requests \in Seq(Requests) /\ IsInjective(requests)
        /\ Elements(requests) = {r \in Requests : status[r] = "waiting"} \cap overdue
    BY WaitingList, KeepList, ZenonT(40)
  <2>2. FinishStates(requests, "timeout") /\ turn = "idle" /\ turn' = "top"
    BY <1>6 DEF TimeOutWaiting
  <2> HIDE DEF requests
  <2>3. \A r \in Elements(requests) : status[r] \in {"waiting", "running"}
    BY <2>1
  <2>4. [Next]_vars
    BY <1>2, <2>1, <2>2, FinishStatesDrives
  <2>5. /\ LoopTypes' /\ StatusTells' /\ BlocksHeld' /\ InOrder'
        /\ ActiveSet' = ActiveSet \ Elements(requests)
        /\ generated' = generated /\ pc' = pc /\ draining' = draining
    BY <1>2, <1>4, <2>1, <2>2, <2>3, FinishStatesKeeps
  <2>6. TurnsTaken' /\ PassingTells' /\ TokensLeft'
    BY <1>1, <1>2, <1>3, <2>2, <2>5 DEF TurnsTaken, PassingTells, TokensLeft
  <2> QED BY <2>4, <2>5, <2>6 DEF BInv
<1>7. CASE FinishDone
  <2> DEFINE S == {r \in Requests : generated[r] >= OutputLen}
             requests == Keep(passing, S)
  <2>1. /\ requests \in Seq(Requests) /\ IsInjective(requests)
        /\ Elements(requests) = PassingSet \cap S
    BY <1>1, KeepList, Zenon DEF PassingSet
  <2>2. FinishStates(requests, "done") /\ turn = "finish" /\ turn' = "top"
    BY <1>7 DEF FinishDone
  <2> HIDE DEF requests
  <2>3. \A r \in Elements(requests) : status[r] \in {"waiting", "running"}
    BY <1>1, <2>1, <2>2 DEF StatusTells, PassingTells
  <2>4. [Next]_vars
    BY <1>2, <2>1, <2>2, FinishStatesDrives
  <2>5. /\ LoopTypes' /\ StatusTells' /\ BlocksHeld' /\ InOrder'
        /\ ActiveSet' = ActiveSet \ Elements(requests)
        /\ generated' = generated /\ pc' = pc /\ draining' = draining
    BY <1>2, <1>4, <2>1, <2>2, <2>3, FinishStatesKeeps
  <2>6. TokensLeft'
    <3> SUFFICES ASSUME NEW r \in ActiveSet' PROVE generated[r] < OutputLen \/ generated[r] = 1
      BY <2>5 DEF TokensLeft
    <3>1. r \in ActiveSet /\ r \in Requests /\ r \notin Elements(requests)
      BY <1>1, <2>5
    <3>2. \/ generated[r] < OutputLen \/ generated[r] = 1
          \/ r \in PassingSet
      BY <1>1, <3>1 DEF TokensLeft
    <3>3. generated[r] \in Nat /\ OutputLen \in Nat
      BY <1>1, <3>1, HeldFinite, Sizes
    <3> QED BY <2>1, <3>1, <3>2, <3>3
  <2>7. TurnsTaken' /\ PassingTells'
    BY <1>1, <1>2, <2>2, <2>5 DEF TurnsTaken, PassingTells
  <2> QED BY <2>4, <2>5, <2>6, <2>7 DEF BInv
<1> QED BY <1>5, <1>6, <1>7

(* When every request has its record, no request holds blocks: the workload has drained. *)
LEMMA AllRecordedKeeps ==
  ASSUME IInv, BInv, AllRecorded
  PROVE  Next /\ BInv'
<1>1. /\ turn = "top" /\ Len(records) >= NumRequests /\ draining' = TRUE /\ turn' = "cleanup"
      /\ UNCHANGED <<ctlVars, execVars, coord_active, coord_poisoned, delta, selected, pc>>
      /\ UNCHANGED <<status, overdue, active, passing, generated, held, records>>
  BY DEF AllRecorded
<1>2. /\ records \in Seq(Requests) /\ IsInjective(records) /\ overdue \subseteq Requests
      /\ active \in Seq(Requests)
      /\ pc = "ready" /\ ~draining
      /\ StatusTells /\ BlocksHeld /\ LoopTypes
  BY <1>1 DEF BInv, LoopTypes, TurnsTaken
<1>3. Elements(records) = Requests
  <2>1. IsFiniteSet(Elements(records)) /\ Cardinality(Elements(records)) = Len(records)
    BY <1>2, InjectiveElements, Zenon
  <2>2. Elements(records) \in SUBSET Requests /\ NumRequests \in Nat /\ 1 \in Int /\ NumRequests \in Int
    BY <1>2, Sizes DEF Elements
  <2>3. /\ IsFiniteSet(Requests)
        /\ Cardinality(Requests) = IF 1 > NumRequests THEN 0 ELSE NumRequests - 1 + 1
    BY <2>2, FS_Interval, Zenon DEF Requests
  <2>4. Cardinality(Requests) = NumRequests
    BY <2>2, <2>3
  <2>5. Cardinality(Elements(records)) <= Cardinality(Requests)
    BY <2>2, <2>3, FS_Subset, Zenon
  <2>6. Len(records) \in Nat
    BY <1>2
  <2>7. Cardinality(Elements(records)) = Cardinality(Requests)
    BY <1>1, <2>1, <2>2, <2>4, <2>5, <2>6
  <2> QED BY <2>2, <2>3, <2>7, FS_Subset, Zenon
<1>4. \A r \in Requests : status[r] \in Recorded
  BY <1>2, <1>3 DEF StatusTells
<1>5. \A r \in Requests : r \notin ActiveSet
  BY <1>2, <1>4 DEF StatusTells, Recorded
<1>6. \A r \in Requests : held[r] = {}
  <2> SUFFICES ASSUME NEW r \in Requests PROVE held[r] = {}
    OBVIOUS
  <2>1. Cardinality(held[r]) = 0
    BY <1>2, <1>5 DEF BlocksHeld
  <2>2. IsFiniteSet(held[r])
    BY <1>2, HeldFinite
  <2> QED BY <2>1, <2>2, FS_EmptySet, Zenon
<1>7. Occupied = {}
  BY <1>2, <1>6 DEF BlocksHeld
<1>8. Next
  BY <1>1, <1>2, <1>7, Zenon DEF Drain, Next, Drive
<1>9. Occupied' = Occupied
  BY <1>1 DEF execVars, Occupied
<1>10. LoopTypes' /\ StatusTells' /\ BlocksHeld' /\ InOrder' /\ JustAdmitted' = JustAdmitted
  BY <1>1, <1>2, <1>9, RequestsKept
<1>11. TurnsTaken' /\ PassingTells' /\ TokensLeft'
  BY <1>1, <1>2 DEF BInv, TurnsTaken, PassingTells, TokensLeft, ActiveSet
<1> QED BY <1>8, <1>10, <1>11 DEF BInv

(* ----------------------------------------------------------------------- *)
(* The invariant                                                           *)

(* Each step of the loop is a step of the coordinator's driver or none of its business,
   and keeps the loop's invariant. *)
LEMMA BenchStep ==
  ASSUME IInv, BInv, [BenchNext]_benchVars
  PROVE  [Next]_vars /\ BInv'
<1>1. CASE UNCHANGED benchVars
  <2>1. UNCHANGED vars /\ UNCHANGED <<status, overdue, active, passing, generated, held, records, turn>>
    BY <1>1 DEF benchVars, vars
  <2>2. is_block_free' = is_block_free /\ pc' = pc /\ draining' = draining /\ overdue \subseteq Requests
    BY <2>1 DEF vars, BInv, LoopTypes
  <2>3. Occupied' = Occupied
    BY <2>2 DEF Occupied
  <2>4. LoopTypes' /\ StatusTells' /\ BlocksHeld' /\ InOrder' /\ JustAdmitted' = JustAdmitted
    BY <2>1, <2>2, <2>3, RequestsKept
  <2>5. TurnsTaken' /\ PassingTells' /\ TokensLeft'
    BY <2>1, <2>2, <2>4 DEF BInv, TurnsTaken, PassingTells, TokensLeft, ActiveSet, PassingSet
  <2> QED BY <2>1, <2>4, <2>5 DEF BInv
<1>2. CASE \E r \in Requests : Arrive(r)
  BY <1>2, ArriveKeeps
<1>3. CASE Ended \/ (\E r \in Requests : Expire(r)) \/ NothingFits \/ Sleep \/ PassRaises
  BY <1>3, IdleStepKeeps
<1>4. CASE TimeOutActive \/ TimeOutWaiting \/ FinishDone
  BY <1>4, FinishingKeeps
<1>5. CASE Admit
  BY <1>5, AdmitKeeps
<1>6. CASE SelectDecode
  BY <1>6, SelectDecodeKeeps
<1>7. CASE SampleBeforePass \/ CleanupSample \/ StepContinues \/ StepRefuses
  BY <1>7, CoordinatorStepKeeps
<1>8. CASE Pass
  BY <1>8, PassDrives, PassKeeps
<1>9. CASE AllRecorded
  BY <1>9, AllRecordedKeeps
<1> QED BY <1>1, <1>2, <1>3, <1>4, <1>5, <1>6, <1>7, <1>8, <1>9 DEF BenchNext, Iterate

(* At the beginning no request has arrived and no block is held. *)
LEMMA BenchInitInv == BenchInit => IInv /\ BInv
<1> SUFFICES ASSUME BenchInit PROVE IInv /\ BInv
  OBVIOUS
<1>1. /\ status = [r \in Requests |-> "scheduled"] /\ overdue = {}
      /\ active = <<>> /\ passing = <<>> /\ records = <<>>
      /\ generated = [r \in Requests |-> 0] /\ held = [r \in Requests |-> {}] /\ turn = "top"
      /\ Init
  BY DEF BenchInit
<1>2. pc = "ready" /\ ~draining /\ Occupied = {}
  <2>1. is_block_free = [b \in 1 .. BaseBlocks |-> TRUE]
    BY <1>1 DEF Init, ExecutorInit
  <2>2. Occupied = {}
    BY <2>1 DEF Occupied
  <2> QED BY <1>1, <2>2 DEF Init
<1>3. IInv
  BY <1>1, InitListInv, InitPoolInv DEF IInv
<1>4. ActiveSet = {} /\ PassingSet = {} /\ Elements(records) = {}
  BY <1>1 DEF ActiveSet, PassingSet, Elements
<1>5. LoopTypes
  BY <1>1, <1>2, Sizes DEF LoopTypes, IsInjective
<1>6. StatusTells
  BY <1>1, <1>4 DEF StatusTells, Recorded
<1>7. BlocksHeld
  BY <1>1, <1>2, <1>4, FS_EmptySet DEF BlocksHeld
<1>8. TurnsTaken /\ PassingTells /\ TokensLeft /\ InOrder
  BY <1>1, <1>2, <1>4 DEF TurnsTaken, PassingTells, TokensLeft, InOrder
<1> QED BY <1>3, <1>5, <1>6, <1>7, <1>8 DEF BInv

(* The invariant of the benchmark: that of the coordinator it drives, and  *)
(* that of its requests.                                                   *)
THEOREM BenchInvariants == BenchSpec => [](IInv /\ BInv)
<1>1. IInv /\ BInv /\ [BenchNext]_benchVars => (IInv /\ BInv)'
  <2> SUFFICES ASSUME IInv, BInv, [BenchNext]_benchVars PROVE IInv' /\ BInv'
    OBVIOUS
  <2>1. [Next]_vars /\ BInv'
    BY BenchStep
  <2> QED BY <2>1, NextKeepsListInv, NextKeepsPoolInv DEF IInv
<1> QED BY <1>1, BenchInitInv, PTL DEF BenchSpec

(* What the loop of the benchmark does to the coordinator and to the pool  *)
(* is what the unconstrained driver of AdaptiveCoordinator may do.         *)
THEOREM BenchDrivesCoordinator == BenchSpec => DrivesCoordinator
<1>1. BenchInit => Init
  BY DEF BenchInit
<1>2. IInv /\ BInv /\ [BenchNext]_benchVars => [Next]_vars
  BY BenchStep
<1> QED BY <1>1, <1>2, BenchInvariants, PTL DEF BenchSpec, Spec, DrivesCoordinator

(* So all that is proved of the coordinator holds in the benchmark.        *)
THEOREM BenchCoordinatorCorrect ==
  BenchSpec => /\ [](NeverDiverged /\ LentFromW4 /\ CapacityConsistent)
               /\ LiveBlocksKept /\ PoisonIsFinal /\ ImplementsAtomicMorphing
BY BenchDrivesCoordinator, SpecNeverDiverged, SpecLentFromW4, SpecCapacityConsistent,
   SpecLiveBlocksKept, SpecPoisonIsFinal, SpecImplementsAtomicMorphing, PTL DEF DrivesCoordinator

(* The loop's variables keep their types and bounds, MaxActive and         *)
(* MaxBatchSize among them.                                                *)
THEOREM BenchTypeOK == BenchSpec => []BTypeOK
<1>1. IInv /\ BInv => BTypeOK
  <2> SUFFICES ASSUME IInv, BInv PROVE BTypeOK
    OBVIOUS
  <2>1. Occupied \subseteq 1 .. num_blocks
    BY FreeCounted
  <2>2. held \in [Requests -> SUBSET (1 .. num_blocks)]
    BY <2>1 DEF BInv, LoopTypes
  <2>3. turn \in Turns
    BY DEF BInv, TurnsTaken, Turns
  <2> QED BY <2>2, <2>3 DEF BTypeOK, BInv, LoopTypes
<1> QED BY <1>1, BenchInvariants, PTL

(* The occupied blocks are those of the active requests, each held by one  *)
(* of them and as many as its tokens need.                                 *)
THEOREM BenchHeldBlocksOccupied == BenchSpec => []HeldBlocksOccupied
<1>1. BInv => HeldBlocksOccupied
  BY Zenon DEF BInv, BlocksHeld, HeldBlocksOccupied, ActiveSet
<1> QED BY <1>1, BenchInvariants, PTL

(* A request has one record once it is done or timed out, none before.     *)
THEOREM BenchOneRecordEach == BenchSpec => []OneRecordEach
<1>1. BInv => OneRecordEach
  <2> SUFFICES ASSUME BInv PROVE OneRecordEach
    OBVIOUS
  <2>1. records \in Seq(Requests) /\ IsInjective(records)
    BY DEF BInv, LoopTypes
  <2>2. Cardinality(Elements(records)) = Len(records)
    BY <2>1, InjectiveElements, Zenon
  <2> QED BY <2>2 DEF BInv, StatusTells, OneRecordEach
<1> QED BY <1>1, BenchInvariants, PTL

(* No request gets its first token while an earlier one waits.             *)
THEOREM BenchServedInOrder == BenchSpec => []ServedInOrder
<1>1. BInv => ServedInOrder
  BY DEF BInv, InOrder, ServedInOrder
<1> QED BY <1>1, BenchInvariants, PTL

(* Once the coordinator is poisoned no token is generated between steps    *)
(* any more: the next thing it does is to stop.                            *)
THEOREM BenchNoServingOncePoisoned == BenchSpec => NoServingOncePoisoned
<1>1. ASSUME IInv, BInv, [BenchNext]_benchVars
      PROVE  [pc = "ready" /\ coord_poisoned => UNCHANGED <<generated, pc>> \/ pc' = "stopped"]_benchVars
  <2> SUFFICES ASSUME BenchNext, pc = "ready", coord_poisoned
               PROVE  UNCHANGED <<generated, pc>> \/ pc' = "stopped"
    BY <1>1
  <2>1. ~Act /\ ~\E signal \in Signals : Sample(signal)
    BY <1>1, ActsInsideStep, SampleTakesTurn DEF Stepping
  <2>2. \A requests, how : FinishStates(requests, how) => UNCHANGED <<generated, pc>>
    BY DEF FinishStates
  <2>3. ~Pass /\ ~StepContinues /\ ~SampleBeforePass /\ ~CleanupSample
    BY <2>1 DEF Pass, StepContinues, SampleBeforePass, CleanupSample
  <2>4. CASE TimeOutActive \/ TimeOutWaiting \/ FinishDone
    BY <2>2, <2>4 DEF TimeOutActive, TimeOutWaiting, FinishDone
  <2>5. CASE StepRefuses
    BY <2>5 DEF StepRefuses, StepDisabled
  <2>6. CASE \/ Admit \/ SelectDecode \/ NothingFits \/ Sleep \/ PassRaises \/ AllRecorded \/ Ended
             \/ \E r \in Requests : Arrive(r) \/ Expire(r)
    BY <2>6 DEF Admit, SelectDecode, NothingFits, Sleep, PassRaises, AllRecorded, Ended, Arrive, Expire,
       Awaiting, vars, benchVars
  <2> QED BY <2>3, <2>4, <2>5, <2>6 DEF BenchNext, Iterate
<1> QED BY <1>1, BenchInvariants, PTL DEF BenchSpec, NoServingOncePoisoned
=============================================================================
