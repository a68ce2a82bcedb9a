------------------------ MODULE ServingServiceProofs ------------------------
(***************************************************************************)
(* What the engine promises its clients while no iteration of the main     *)
(* loop raises: the layers replaced for a batch make the room it needs,    *)
(* since the account of the scheduler covers what the running requests     *)
(* hold; first come, first served; and every request finds its own KV      *)
(* cache again.                                                            *)
(***************************************************************************)
EXTENDS ServingProofs

-----------------------------------------------------------------------------
(* Blocks of requests and of queues.                                       *)

LEMMA CeilDivGrows ==
  ASSUME NEW a \in Nat, NEW b \in Nat \ {0}
  PROVE  CeilDiv(a, b) <= CeilDiv(a + 1, b)
<1> DEFINE x == a + b - 1
           y == a + 1 + b - 1
<1>1. x \in Nat /\ y = x + 1
  OBVIOUS
<1> HIDE DEF x, y
<1>2. x \div b <= y \div b
  <2>1. /\ x \div b \in Nat /\ b * (x \div b) <= x
        /\ y \div b \in Nat /\ y < b * (y \div b) + b
    BY <1>1
  <2> DEFINE p == x \div b
             q == y \div b
  <2> HIDE DEF p, q
  <2>2. p \in Nat /\ q \in Nat /\ b * p <= x /\ x + 1 < b * q + b
    BY <1>1, <2>1 DEF p, q
  <2>3. b * p < b * (q + 1)
    BY <1>1, <2>2
  <2>4. p < q + 1
    <3> SUFFICES ASSUME p >= q + 1 PROVE FALSE
      BY <2>2
    <3>1. b * p >= b * (q + 1)
      BY <2>2
    <3> QED BY <2>2, <2>3, <3>1
  <2> QED BY <2>2, <2>4 DEF p, q
<1> QED BY <1>2 DEF CeilDiv, x, y

(* What a request holds is at most what it needs for its next token. *)
LEMMA HoldsFacts ==
  ASSUME QueueTypes, NEW r \in Requests
  PROVE  /\ Holds[r] \in Nat /\ BlocksNeeded[r] \in Nat /\ Holds[r] <= BlocksNeeded[r]
         /\ IsPrefillStage(r) => Holds[r] = 0
         /\ WillHold[r] = IF Planned /\ r \in Elements(cur_batch) THEN BlocksNeeded[r] ELSE Holds[r]
         /\ WillHold[r] \in Nat
<1>1. /\ prompt_len[r] \in Nat \ {0} /\ num_outputs[r] \in Nat /\ BlockSize \in Nat \ {0}
  BY Constants DEF QueueTypes
<1> DEFINE n == prompt_len[r] + num_outputs[r] - 1
<1>2. n \in Nat /\ n + 1 = prompt_len[r] + num_outputs[r]
  BY <1>1
<1>3. /\ Holds[r] = IF num_outputs[r] = 0 THEN 0 ELSE CeilDiv(n, BlockSize)
      /\ BlocksNeeded[r] = CeilDiv(n + 1, BlockSize)
  BY <1>2 DEF Holds, BlocksNeeded
<1> HIDE DEF n
<1>4. /\ CeilDiv(n, BlockSize) \in Nat /\ CeilDiv(n + 1, BlockSize) \in Nat
      /\ CeilDiv(n, BlockSize) <= CeilDiv(n + 1, BlockSize)
  <2>1. n \in Nat /\ n + 1 \in Nat
    BY <1>2
  <2>2. CeilDiv(n, BlockSize) \in Nat /\ CeilDiv(n + 1, BlockSize) \in Nat
    BY <1>1, <2>1, CeilDivNat, Zenon
  <2>3. CeilDiv(n, BlockSize) <= CeilDiv(n + 1, BlockSize)
    BY <1>1, <2>1, CeilDivGrows, Zenon
  <2> QED BY <2>2, <2>3
<1>5. WillHold[r] = IF Planned /\ r \in Elements(cur_batch) THEN BlocksNeeded[r] ELSE Holds[r]
  BY DEF WillHold
<1> QED BY <1>1, <1>3, <1>4, <1>5 DEF IsPrefillStage

LEMMA QueueFinite ==
  ASSUME NEW X, NEW q \in Seq(X), IsInjective(q)
  PROVE  IsFiniteSet(Elements(q)) /\ Elements(q) \subseteq X /\ IsFiniteSet(DOMAIN q)
<1>1. IsFiniteSet(Elements(q))
  BY InjectiveElements, Zenon
<1>2. Elements(q) \subseteq X
  BY DEF Elements
<1>3. DOMAIN q = 1 .. Len(q) /\ 1 \in Int /\ Len(q) \in Int
  OBVIOUS
<1>4. IsFiniteSet(1 .. Len(q))
  BY <1>3, FS_Interval, Zenon
<1> QED BY <1>1, <1>2, <1>3, <1>4

(* The sum over the places of a queue is the sum over its requests. *)
LEMMA BlocksOfSum ==
  ASSUME QueueTypes, NEW q \in Seq(Requests), IsInjective(q)
  PROVE  BlocksOf(q) = SumFunctionOnSet(BlocksNeeded, Elements(q))
<1> DEFINE T == DOMAIN q
           f == [i \in T |-> BlocksNeeded[q[i]]]
<1>1. BlocksOf(q) = SumFunctionOnSet(f, T)
  <2>1. Map(q, BlocksNeeded) = f /\ DOMAIN f = T
    BY DEF Map
  <2> HIDE DEF f
  <2> QED BY <2>1, Zenon DEF BlocksOf, SumFunction
<1>2. IsFiniteSet(T)
  BY QueueFinite, Zenon
<1>3. \A i, j \in T : q[i] = q[j] => i = j
  BY DEF IsInjective
<1>4. \A i \in T : BlocksNeeded[q[i]] \in Nat
  <2>1. \A i \in T : q[i] \in Requests
    OBVIOUS
  <2> QED BY <2>1, NeededNat
<1> HIDE DEF T
<1>5. SumFunctionOnSet(f, T) = SumFunctionOnSet(BlocksNeeded, {q[i] : i \in T})
  BY <1>2, <1>3, <1>4, SumRenamed, Zenon
<1> QED BY <1>1, <1>5, Zenon DEF Elements, T

(* The sum of a function that is one on a part and another on the rest. *)
LEMMA SumOfParts ==
  ASSUME NEW S, IsFiniteSet(S), NEW B, IsFiniteSet(B), S \cap B = {}, NEW hold, NEW need, NEW will,
         \A x \in S : hold[x] \in Nat /\ will[x] = hold[x],
         \A x \in B : need[x] \in Nat /\ will[x] = need[x]
  PROVE  /\ SumFunctionOnSet(will, S \cup B) = SumFunctionOnSet(hold, S) + SumFunctionOnSet(need, B)
         /\ SumFunctionOnSet(will, B) = SumFunctionOnSet(need, B)
         /\ SumFunctionOnSet(hold, S) \in Nat /\ SumFunctionOnSet(need, B) \in Nat
<1>1. \A x \in S \cup B : will[x] \in Nat
  OBVIOUS
<1>2. SumFunctionOnSet(will, S \cup B) = SumFunctionOnSet(will, S) + SumFunctionOnSet(will, B)
  BY <1>1, SumDisjoint, Zenon
<1>3. SumFunctionOnSet(hold, S) = SumFunctionOnSet(will, S)
  BY SumSame, Zenon
<1>4. SumFunctionOnSet(need, B) = SumFunctionOnSet(will, B)
  BY SumSame, Zenon
<1>5. SumFunctionOnSet(hold, S) \in Nat /\ SumFunctionOnSet(need, B) \in Nat
  BY SumNat, Zenon
<1> QED BY <1>2, <1>3, <1>4, <1>5, Zenon

-----------------------------------------------------------------------------
(* Scheduling.                                                             *)

Counts == RowsCount /\ StagesCount /\ BatchCounts /\ AccountCovers

(* Between two passes every request in flight holds what its tokens take. *)
LEMMA AtScheduleCounts ==
  ASSUME IInv, Counts, stage = "schedule"
  PROVE  /\ \A r \in Running : Len(gpu_table[request_id[r]]) = Holds[r]
         /\ \A r \in Swapped : Len(cpu_table[request_id[r]]) = Holds[r]
         /\ \A r \in Flying : ~IsPrefillStage(r)
         /\ SumFunctionOnSet(Holds, Running) <= num_decoding_gpu_blocks
         /\ SumFunctionOnSet(Holds, Running) \in Nat
         /\ num_decoding_gpu_blocks \in Nat
<1>1. QueueTypes /\ FlightTells
  BY Zenon DEF IInv, QueueSide
<1>2. ~Planned /\ \A r : OnGpuNow(r) <=> r \in Running
  BY DEF Planned, OnGpuNow
<1>3. Running \cap Swapped = {} /\ Flying = Running \cup Swapped
  BY <1>1, Zenon DEF FlightTells, Flying
<1>4. \A r \in Running : Len(gpu_table[request_id[r]]) = Holds[r]
  BY <1>2, <1>3 DEF Counts, RowsCount, RowOf
<1>5. \A r \in Swapped : Len(cpu_table[request_id[r]]) = Holds[r]
  BY <1>2, <1>3 DEF Counts, RowsCount, RowOf
<1>6. \A r \in Flying : ~IsPrefillStage(r)
  BY <1>2, <1>3 DEF Counts, StagesCount
<1>7. running_q \in Seq(Requests) /\ IsInjective(running_q)
  BY <1>1 DEF QueueTypes, FlightTells
<1>8. IsFiniteSet(Running) /\ Running \subseteq Requests
  BY <1>7, QueueFinite, Zenon DEF Running
<1>9. \A r \in Running : Holds[r] \in Nat /\ WillHold[r] = Holds[r]
  BY <1>1, <1>2, <1>8, HoldsFacts
<1>10. SumFunctionOnSet(Holds, Running) = SumFunctionOnSet(WillHold, Running)
  BY <1>8, <1>9, SumSame, Zenon
<1>11. SumFunctionOnSet(Holds, Running) \in Nat
  BY <1>8, <1>9, SumNat, Zenon
<1>12. num_decoding_gpu_blocks \in Nat
  BY <1>1 DEF QueueTypes
<1>13. SumFunctionOnSet(Holds, Running) <= num_decoding_gpu_blocks
  BY <1>10, Zenon DEF Counts, AccountCovers
<1> QED BY <1>4, <1>5, <1>6, <1>11, <1>12, <1>13, Zenon

(* A plan is made of something. *)
LEMMA StartPlans ==
  ASSUME NEW batch, NEW in, NEW out, Start(batch, in, out)
  PROVE  /\ cur_batch' = batch /\ cur_swap_in' = in /\ cur_swap_out' = out
         /\ Planned' <=> ~(batch = <<>> /\ in = <<>> /\ out = <<>>)
         /\ ~Planned' => stage' = "schedule"
         /\ stage' = "swap_out" <=> out # <<>>
         /\ stage' = "swap_in" <=> out = <<>> /\ in # <<>>
<1>1. CASE out # <<>>
  BY <1>1 DEF Start, Planned
<1>2. CASE out = <<>> /\ in # <<>>
  BY <1>2 DEF Start, Planned
<1>3. CASE out = <<>> /\ in = <<>> /\ batch # <<>>
  BY <1>3 DEF Start, Planned
<1>4. CASE out = <<>> /\ in = <<>> /\ batch = <<>>
  BY <1>4 DEF Start, Planned
<1> QED BY <1>1, <1>2, <1>3, <1>4

(* Scheduling gives no tokens. *)
LEMMA AmountsStay ==
  ASSUME prompt_len' = prompt_len, num_outputs' = num_outputs
  PROVE  /\ Holds' = Holds /\ BlocksNeeded' = BlocksNeeded
         /\ \A r : IsPrefillStage(r)' <=> IsPrefillStage(r)
BY DEF Holds, BlocksNeeded, IsPrefillStage

LEMMA WillHoldNext ==
  ASSUME prompt_len' = prompt_len, num_outputs' = num_outputs, NEW r \in Requests
  PROVE  WillHold'[r] = IF Planned' /\ r \in Elements(cur_batch') THEN BlocksNeeded[r] ELSE Holds[r]
<1>1. Holds' = Holds /\ BlocksNeeded' = BlocksNeeded
  BY AmountsStay, Zenon
<1>2. WillHold' = [x \in Requests |->
         IF Planned' /\ x \in Elements(cur_batch') THEN BlocksNeeded'[x] ELSE Holds'[x]]
  BY DEF WillHold
<1> QED BY <1>1, <1>2

(* Restoring no layer takes no block away. *)
LEMMA RestoringNone ==
  ASSUME LayerSide, GpuTells, NEW w, RestoreLayers(Restorable(w)), upset # "engine"
  PROVE  upset' = "none" => num_gpu_blocks' = num_gpu_blocks
<1> SUFFICES ASSUME upset' = "none" PROVE num_gpu_blocks' = num_gpu_blocks
  OBVIOUS
<1> DEFINE n == Restorable(w)
<1>1. n \in 0 .. Len(layer_quant_list)
  BY RestorableUnused, Zenon
<1>2. Quant2Org(n) /\ upset' = IF n > 0 /\ upset = "none" THEN "batch" ELSE upset
  BY Zenon DEF RestoreLayers
<1>3. num_gpu_blocks' = num_gpu_blocks - n * LentBlocks
  BY <1>2, Zenon DEF Quant2Org
<1>4. num_gpu_blocks \in Nat /\ LentBlocks \in Nat /\ Len(layer_quant_list) \in Nat
  BY LayerFacts, Constants
<1> HIDE DEF n
<1>5. n = 0
  BY <1>1, <1>2, <1>4
<1> QED BY <1>3, <1>4, <1>5

(* The account grows by what the batch needs. *)
LEMMA PrefillCounts ==
  ASSUME IInv, Counts, stage = "schedule", OutsideSchedulerUnchanged,
         NEW n \in 0 .. Len(waiting_q), PrefillBatch(n), Start(First(waiting_q, n), <<>>, <<>>),
         Joins(First(waiting_q, n)),
         n > 0 /\ upset' = "none" => BlocksWith(n) <= num_gpu_blocks'
  PROVE  Counts'
<1> DEFINE batch == First(waiting_q, n)
<1>1. QueueTypes /\ FlightTells /\ DevicesTell
  BY Zenon DEF IInv, QueueSide
<1>2. /\ prompt_len' = prompt_len /\ num_outputs' = num_outputs
      /\ gpu_table' = gpu_table /\ cpu_table' = cpu_table
  BY <1>1, SchedulerKeepsTypes, Zenon
<1>3. /\ batch \in Seq(Requests) /\ IsInjective(batch)
      /\ Running \cap Elements(batch) = {} /\ Swapped = {}
      /\ Running' = Running \cup Elements(batch) /\ Swapped' = {}
      /\ \A r \in Elements(batch) : num_outputs[r] = 0 /\ request_id'[r] \in Elements(available_ids)
      /\ \A r \in Running : request_id'[r] = request_id[r]
  BY Zenon DEF Joins
<1>4. Flying = Running /\ Flying' = Running \cup Elements(batch)
  BY <1>3, Zenon DEF Flying
<1>5. /\ \A r \in Running : Len(gpu_table[request_id[r]]) = Holds[r]
      /\ \A r \in Flying : ~IsPrefillStage(r)
      /\ SumFunctionOnSet(Holds, Running) <= num_decoding_gpu_blocks
      /\ SumFunctionOnSet(Holds, Running) \in Nat /\ num_decoding_gpu_blocks \in Nat
  BY AtScheduleCounts, Zenon
<1>6. /\ cur_batch' = batch /\ (Planned' <=> batch # <<>>)
      /\ stage' # "swap_out" /\ stage' # "swap_in"
  BY StartPlans, Zenon
<1>7. batch # <<>> <=> n > 0
  <2>1. waiting_q \in Seq(Requests)
    BY <1>1 DEF QueueTypes
  <2>2. Len(batch) = n /\ n \in Nat
    BY <2>1, FirstFacts, SMTT(30)
  <2> HIDE DEF batch
  <2> QED BY <1>3, <2>2
<1>8. num_decoding_gpu_blocks' = num_decoding_gpu_blocks + BlocksOf(batch)
  BY Zenon DEF PrefillBatch
<1>9. BlocksWith(n) = BlocksOf(batch) + num_decoding_gpu_blocks
  BY Zenon DEF BlocksWith
<1> HIDE DEF batch
<1>10. ~Planned' => Elements(batch) = {}
  BY <1>6 DEF Elements
<1>11. IsFiniteSet(Elements(batch)) /\ Elements(batch) \subseteq Requests
  BY <1>3, QueueFinite, Zenon
<1>12. IsFiniteSet(Running) /\ Running \subseteq Requests
  <2>1. running_q \in Seq(Requests) /\ IsInjective(running_q)
    BY <1>1 DEF QueueTypes, FlightTells
  <2> QED BY <2>1, QueueFinite, Zenon DEF Running
<1>13. RowsCount'
  <2>1. \A r \in Flying' : OnGpuNow(r)'
    BY <1>3, <1>4, <1>6 DEF OnGpuNow
  <2>2. \A r \in Running : Len(gpu_table'[request_id'[r]]) = Holds'[r]
    BY <1>2, <1>3, <1>5, AmountsStay
  <2>3. \A r \in Elements(batch) : Len(gpu_table'[request_id'[r]]) = Holds'[r]
    <3> TAKE r \in Elements(batch)
    <3>1. gpu_table[request_id'[r]] = <<>>
      BY <1>1, <1>3, Zenon DEF DevicesTell
    <3>2. r \in Requests /\ num_outputs[r] = 0
      BY <1>3, <1>11
    <3>3. Holds[r] = 0
      BY <3>2 DEF Holds
    <3>4. Holds' = Holds
      BY <1>2, AmountsStay, Zenon
    <3> QED BY <1>2, <3>1, <3>3, <3>4
  <2> QED BY <1>4, <2>1, <2>2, <2>3 DEF RowsCount, RowOf
<1>14. \A r : IsPrefillStage(r)' <=> IsPrefillStage(r)
  BY <1>2, AmountsStay, Zenon
<1>15. \A r \in Elements(batch) : IsPrefillStage(r)
  BY <1>3 DEF IsPrefillStage
<1>16. StagesCount'
  <2>1. \A r \in Running' : IsPrefillStage(r)' => Planned'
    BY <1>3, <1>4, <1>5, <1>10, <1>14
  <2> QED BY <1>3, <2>1 DEF StagesCount
<1>17. BatchCounts'
  <2>1. Elements(cur_batch') = {r \in Running' : IsPrefillStage(r)'}
    BY <1>3, <1>4, <1>5, <1>6, <1>14, <1>15
  <2> QED BY <2>1, Zenon DEF BatchCounts
<1>18. SumFunctionOnSet(WillHold', Running') = SumFunctionOnSet(Holds, Running) + BlocksOf(batch)
  <2>1. \A r \in Running : Holds[r] \in Nat /\ WillHold'[r] = Holds[r]
    <3> TAKE r \in Running
    <3>1. r \in Requests /\ ~(r \in Elements(cur_batch'))
      BY <1>3, <1>6, <1>12
    <3>2. Holds[r] \in Nat
      BY <1>1, <3>1, HoldsFacts, Zenon
    <3>3. WillHold'[r] = Holds[r]
      BY <1>2, <3>1, WillHoldNext
    <3> QED BY <3>2, <3>3
  <2>2. \A r \in Elements(batch) : BlocksNeeded[r] \in Nat /\ WillHold'[r] = BlocksNeeded[r]
    <3> TAKE r \in Elements(batch)
    <3>1. r \in Requests /\ r \in Elements(cur_batch') /\ Planned'
      BY <1>6, <1>10, <1>11
    <3>2. BlocksNeeded[r] \in Nat
      BY <1>1, <3>1, NeededNat, Zenon
    <3>3. WillHold'[r] = BlocksNeeded[r]
      BY <1>2, <3>1, WillHoldNext
    <3> QED BY <3>2, <3>3
  <2>3. SumFunctionOnSet(WillHold', Running \cup Elements(batch))
        = SumFunctionOnSet(Holds, Running) + SumFunctionOnSet(BlocksNeeded, Elements(batch))
    <3>1. Running \cap Elements(batch) = {} /\ IsFiniteSet(Running) /\ IsFiniteSet(Elements(batch))
      BY <1>3, <1>11, <1>12, Zenon
    <3> QED BY <2>1, <2>2, <3>1, SumOfParts
  <2>4. BlocksOf(batch) = SumFunctionOnSet(BlocksNeeded, Elements(batch))
    BY <1>1, <1>3, BlocksOfSum, Zenon
  <2> QED BY <1>3, <2>3, <2>4, Zenon
<1>19. BlocksOf(batch) \in Nat
  BY <1>1, <1>3, BlocksOfNat, Zenon
<1>20. AccountCovers'
  <2>1. SumFunctionOnSet(WillHold', Running') <= num_decoding_gpu_blocks'
    <3> DEFINE a == SumFunctionOnSet(WillHold', Running')
               h == SumFunctionOnSet(Holds, Running)
               b == BlocksOf(batch)
    <3>1. a = h + b /\ h \in Nat /\ b \in Nat /\ h <= num_decoding_gpu_blocks
      BY <1>5, <1>18, <1>19
    <3> HIDE DEF a, h
    <3>2. a <= num_decoding_gpu_blocks'
      BY <1>5, <1>8, <3>1
    <3> QED BY <3>2 DEF a
  <2>2. Planned' /\ upset' = "none" => num_decoding_gpu_blocks' <= num_gpu_blocks'
    BY <1>5, <1>6, <1>7, <1>8, <1>9, <1>19
  <2> QED BY <2>1, <2>2, Zenon DEF AccountCovers
<1> QED BY <1>13, <1>16, <1>17, <1>20, Zenon DEF Counts

LEMMA SchedulePrefillCounts ==
  ASSUME IInv, Counts, upset # "engine", SchedulePrefill
  PROVE  Counts'
<1>1. QueueTypes /\ FlightTells /\ LayerSide /\ GpuTells
  BY Zenon DEF IInv, QueueSide
<1>2. /\ stage = "schedule" /\ PrefillBatch(Admissible) /\ OutsideSchedulerUnchanged
      /\ Start(First(waiting_q, Admissible), <<>>, <<>>)
      /\ RestoreLayers(Restorable(Rest(waiting_q, Admissible)))
  BY Zenon DEF SchedulePrefill
<1>3. swapped_q = <<>> /\ Admissible = AdmissibleIn(num_gpu_blocks)
  BY DEF SchedulePrefill, Admissible
<1>4. Admissible \in 0 .. Len(waiting_q) /\ Len(running_q) + Admissible <= MaxBatchSize
  BY <1>1, <1>3, AdmissionBounds, Zenon
<1>5. Joins(First(waiting_q, Admissible))
  BY <1>2, <1>3, <1>4, PrefillKept, Zenon
<1>6. Admissible > 0 => BlocksWith(Admissible) <= num_gpu_blocks
  <2>1. Admissible > 0 => Admissible \in 1 .. Admissible
    BY <1>4
  <2> QED BY <1>1, <1>3, <2>1, AdmissibleBounds, Zenon
<1>7. upset' = "none" => num_gpu_blocks' = num_gpu_blocks
  BY <1>1, <1>2, RestoringNone, Zenon
<1>8. Admissible > 0 /\ upset' = "none" => BlocksWith(Admissible) <= num_gpu_blocks'
  BY <1>6, <1>7
<1> QED BY <1>2, <1>4, <1>5, <1>8, PrefillCounts, Zenon

LEMMA ScheduleReplacingCounts ==
  ASSUME IInv, Counts, upset # "engine", ScheduleReplacing
  PROVE  Counts'
<1> DEFINE pool == PoolWith(NumLayersToQuantize)
           n == AdmissibleIn(pool)
<1>1. QueueTypes /\ FlightTells /\ LayerSide
  BY Zenon DEF IInv, QueueSide
<1>2. /\ stage = "schedule" /\ PrefillBatch(n) /\ OutsideSchedulerUnchanged
      /\ Start(First(waiting_q, n), <<>>, <<>>)
      /\ ReplaceLayers(NumLayersToQuantize) /\ AdmitsByReplacing
  BY Zenon DEF ScheduleReplacing
<1>3. swapped_q = <<>>
  BY <1>2, Zenon DEF AdmitsByReplacing
<1>4. n \in 0 .. Len(waiting_q) /\ Len(running_q) + n <= MaxBatchSize
  BY <1>1, AdmissionBounds, Zenon
<1>5. Joins(First(waiting_q, n))
  BY <1>2, <1>3, <1>4, PrefillKept, Zenon
<1>6. n > 0 => BlocksWith(n) <= pool
  <2> DEFINE m == n
  <2>0. \A k \in 1 .. m : BlocksWith(k) <= pool
    BY <1>1, AdmissibleBounds, Zenon
  <2>1. m \in 0 .. Len(waiting_q)
    BY <1>4
  <2> HIDE DEF m, pool
  <2>2. m > 0 => m \in 1 .. m
    BY <2>1
  <2>3. m > 0 => BlocksWith(m) <= pool
    BY <2>0, <2>2, Zenon
  <2> QED BY <2>3 DEF m
<1>7. num_gpu_blocks' = pool
  BY <1>2, Zenon DEF ReplaceLayers, Org2Quant, PoolWith
<1>8. n > 0 /\ upset' = "none" => BlocksWith(n) <= num_gpu_blocks'
  BY <1>6, <1>7, Zenon
<1> QED BY <1>2, <1>4, <1>5, <1>8, PrefillCounts, Zenon

(* Who is planned next is all who run, and the account is made anew. *)
LEMMA MovedCounts ==
  ASSUME IInv, QueueSide', Counts, stage = "schedule", OutsideSchedulerUnchanged, Moves,
         ~Planned' => cur_batch' = <<>>,
         num_decoding_gpu_blocks' = SumFunctionOnSet(BlocksNeeded, Running'),
         Planned' /\ upset' = "none" => num_decoding_gpu_blocks' <= num_gpu_blocks'
  PROVE  Counts'
<1>1. QueueTypes /\ FlightTells
  BY Zenon DEF IInv, QueueSide
<1>2. /\ prompt_len' = prompt_len /\ num_outputs' = num_outputs
      /\ gpu_table' = gpu_table /\ cpu_table' = cpu_table
  BY <1>1, SchedulerKeepsTypes, Zenon
<1>3. /\ Flying' = Flying /\ request_id' = request_id /\ Elements(cur_batch') = Running'
      /\ \A r \in Flying : OnGpuNow(r)' <=> r \in Running
  BY DEF Moves, Running
<1>4. /\ \A r \in Running : Len(gpu_table[request_id[r]]) = Holds[r]
      /\ \A r \in Swapped : Len(cpu_table[request_id[r]]) = Holds[r]
      /\ \A r \in Flying : ~IsPrefillStage(r)
  BY AtScheduleCounts, Zenon
<1>5. /\ IsFiniteSet(Running') /\ Running' \subseteq Requests
  <2>1. QueueTypes' /\ FlightTells'
    BY Zenon DEF QueueSide
  <2>2. running_q' \in Seq(Requests) /\ IsInjective(running_q')
    BY <2>1 DEF QueueTypes, FlightTells
  <2>3. IsFiniteSet(Elements(running_q')) /\ Elements(running_q') \subseteq Requests
    BY <2>2, QueueFinite, Zenon
  <2> QED BY <2>3, Zenon DEF Running
<1>6. \A r : IsPrefillStage(r)' <=> IsPrefillStage(r)
  BY <1>2, AmountsStay, Zenon
<1>7. RowsCount'
  <2>1. Holds' = Holds
    BY <1>2, AmountsStay, Zenon
  <2>2. \A r \in Flying : Len((IF r \in Running THEN gpu_table ELSE cpu_table)[request_id[r]]) = Holds[r]
    BY <1>4 DEF Flying
  <2> QED BY <1>2, <1>3, <2>1, <2>2 DEF RowsCount, RowOf
<1>8. \A r \in Flying' : ~IsPrefillStage(r)'
  BY <1>3, <1>4, <1>6
<1>9. StagesCount' /\ BatchCounts'
  <2>1. Flying' = Running' \cup Swapped'
    BY DEF Flying
  <2> QED BY <1>3, <1>8, <2>1 DEF StagesCount, BatchCounts
<1>10. SumFunctionOnSet(WillHold', Running') <= num_decoding_gpu_blocks'
  <2>1. \A r \in Running' : BlocksNeeded[r] \in Nat /\ WillHold'[r] = BlocksNeeded[r]
    <3> TAKE r \in Running'
    <3>1. r \in Requests /\ r \in Elements(cur_batch')
      BY <1>3, <1>5
    <3>2. Planned'
      <4> SUFFICES ASSUME ~Planned' PROVE FALSE
        OBVIOUS
      <4>1. cur_batch' = <<>>
        OBVIOUS
      <4> QED BY <3>1, <4>1 DEF Elements
    <3>3. BlocksNeeded[r] \in Nat
      BY <1>1, <3>1, NeededNat, Zenon
    <3>4. WillHold'[r] = BlocksNeeded[r]
      BY <1>2, <3>1, <3>2, WillHoldNext
    <3> QED BY <3>3, <3>4
  <2>2. SumFunctionOnSet(BlocksNeeded, Running') = SumFunctionOnSet(WillHold', Running')
    BY <1>5, <2>1, SumSame
  <2>3. SumFunctionOnSet(BlocksNeeded, Running') \in Nat
    BY <1>5, <2>1, SumNat
  <2> QED BY <2>2, <2>3
<1>11. AccountCovers'
  BY <1>10, Zenon DEF AccountCovers
<1> QED BY <1>7, <1>9, <1>11, Zenon DEF Counts

(* The pool that the decoding branch has planned with is there. *)
LEMMA PoolAfter ==
  ASSUME LayerSide, GpuTells, upset # "engine", NEW w,
         \/ ReplaceLayers(ReplacedToDecode)
         \/ RestoreLayers(Restorable(w)) /\ ~(ReplacedToDecode > 0)
  PROVE  /\ upset' = "none" => num_gpu_blocks' = PoolWith(ReplacedToDecode)
         /\ PoolWith(ReplacedToDecode) \in Nat
<1>1. ReplacedToDecode \in Nat /\ num_gpu_blocks \in Nat /\ LentBlocks \in Nat
  BY ReplacedBounds, LayerFacts, Constants
<1>2. PoolWith(ReplacedToDecode) \in Nat
  BY <1>1 DEF PoolWith
<1>3. CASE ReplaceLayers(ReplacedToDecode)
  <2>1. num_gpu_blocks' = PoolWith(ReplacedToDecode)
    BY <1>3, Zenon DEF ReplaceLayers, Org2Quant, PoolWith
  <2> QED BY <1>2, <2>1
<1>4. CASE RestoreLayers(Restorable(w)) /\ ~(ReplacedToDecode > 0)
  <2>1. ReplacedToDecode = 0
    BY <1>1, <1>4
  <2>2. PoolWith(ReplacedToDecode) = num_gpu_blocks
    BY <1>1, <2>1 DEF PoolWith
  <2>3. upset' = "none" => num_gpu_blocks' = num_gpu_blocks
    BY <1>4, RestoringNone, Zenon
  <2> QED BY <1>2, <2>2, <2>3
<1> QED BY <1>3, <1>4, Zenon

LEMMA BlocksOfNone == BlocksOf(<<>>) = 0
<1>1. DOMAIN Map(<<>>, BlocksNeeded) = {}
  BY DEF Map
<1>2. BlocksOf(<<>>) = SumFunctionOnSet(Map(<<>>, BlocksNeeded), {})
  BY <1>1, Zenon DEF BlocksOf, SumFunction
<1> QED BY <1>2, SumEmpty, Zenon

LEMMA SchedulePreemptingCounts ==
  ASSUME IInv, Counts, upset # "engine", SchedulePreempting
  PROVE  Counts'
<1> DEFINE pool == PoolWith(ReplacedToDecode)
           k == Kept(pool)
<1>1. QueueTypes /\ LayerSide /\ GpuTells
  BY Zenon DEF IInv, QueueSide
<1>2. /\ stage = "schedule" /\ Kept(pool) < Len(running_q) /\ OutsideSchedulerUnchanged
      /\ PreemptBatch(pool) /\ Start(First(running_q, Kept(pool)), <<>>, NewlySwappedOut(pool))
      /\ \/ ReplaceLayers(ReplacedToDecode)
         \/ RestoreLayers(Restorable(waiting_q)) /\ ~(ReplacedToDecode > 0)
  BY Zenon DEF SchedulePreempting, Decoding
<1>3. QueueSide' /\ DevicesTell' /\ Moves /\ stage' = "swap_out"
  BY <1>2, PreemptKept, Zenon
<1>4. running_q' = First(running_q, k) /\ num_decoding_gpu_blocks' = BlocksOf(First(running_q, k))
  BY <1>2, Zenon DEF PreemptBatch
<1>5. (upset' = "none" => num_gpu_blocks' = pool) /\ pool \in Nat
  BY <1>1, <1>2, PoolAfter, Zenon
<1> HIDE DEF pool
<1>6. k \in 0 .. Len(running_q) /\ \A n \in 1 .. k : BlocksOf(First(running_q, n)) <= pool
  BY <1>1, KeptBounds, Zenon
<1> HIDE DEF k
<1>7. num_decoding_gpu_blocks' <= pool
  <2>1. CASE k = 0
    <3>1. First(running_q, k) = <<>>
      BY <2>1 DEF First
    <3>2. num_decoding_gpu_blocks' = 0
      BY <1>4, <3>1, BlocksOfNone, Zenon
    <3> QED BY <1>5, <3>2
  <2>2. CASE k # 0
    <3>1. k \in 1 .. k
      BY <1>6, <2>2
    <3> QED BY <1>4, <1>6, <3>1, Zenon
  <2> QED BY <2>1, <2>2
<1>8. num_decoding_gpu_blocks' = SumFunctionOnSet(BlocksNeeded, Running')
  <2>1. QueueTypes' /\ FlightTells'
    BY <1>3, Zenon DEF QueueSide
  <2>2. running_q' \in Seq(Requests) /\ IsInjective(running_q')
    BY <2>1 DEF QueueTypes, FlightTells
  <2>3. BlocksOf(running_q') = SumFunctionOnSet(BlocksNeeded, Elements(running_q'))
    BY <1>1, <2>2, BlocksOfSum, Zenon
  <2> QED BY <1>4, <2>3, Zenon DEF Running
<1>9. Planned'
  BY <1>3 DEF Planned
<1>10. Planned' /\ upset' = "none" => num_decoding_gpu_blocks' <= num_gpu_blocks'
  BY <1>5, <1>7
<1> QED BY <1>2, <1>3, <1>8, <1>9, <1>10, MovedCounts, Zenon

LEMMA ScheduleDecodeCounts ==
  ASSUME IInv, Counts, upset # "engine", ScheduleDecode
  PROVE  Counts'
<1> DEFINE pool == PoolWith(ReplacedToDecode)
           n == Returning(pool)
           back == First(swapped_q, n)
<1>1. QueueTypes /\ LayerSide /\ GpuTells /\ FlightTells
  BY Zenon DEF IInv, QueueSide
<1>2. /\ stage = "schedule" /\ OutsideSchedulerUnchanged /\ Kept(pool) = Len(running_q)
      /\ DecodeBatch(pool) /\ Start(running_q', First(swapped_q, Returning(pool)), <<>>)
      /\ \/ ReplaceLayers(ReplacedToDecode)
         \/ RestoreLayers(Restorable(waiting_q)) /\ ~(ReplacedToDecode > 0)
  BY Zenon DEF ScheduleDecode, Decoding
<1>3. QueueSide' /\ DevicesTell' /\ Moves /\ Returns(back)
  BY <1>2, DecodeKept, Zenon
<1>4. /\ running_q' = running_q \o back
      /\ num_decoding_gpu_blocks' = BlocksOf(running_q) + BlocksOf(back)
  BY <1>2, Zenon DEF DecodeBatch
<1>5. (upset' = "none" => num_gpu_blocks' = pool) /\ pool \in Nat
  BY <1>1, <1>2, PoolAfter, Zenon
<1>6. ~Planned' => cur_batch' = <<>>
  <2>1. cur_batch' = running_q' /\ (Planned' <=> ~(running_q' = <<>> /\ back = <<>> /\ <<>> = <<>>))
    BY <1>2, StartPlans, Zenon
  <2> QED BY <2>1
<1>7. Kept(pool) = Len(running_q) /\ \A m \in 1 .. Kept(pool) : BlocksOf(First(running_q, m)) <= pool
  BY <1>1, <1>2, KeptBounds, Zenon
<1>8. n \in 0 .. Len(swapped_q) /\ \A m \in 1 .. n : FitsSwapped(m, pool)
  BY <1>1, ReturningBounds, Zenon
<1>9. running_q \in Seq(Requests) /\ IsInjective(running_q) /\ Len(running_q) \in Nat /\ n \in Nat
  BY <1>1, <1>8 DEF QueueTypes, FlightTells
<1> HIDE DEF pool, n
<1>10. back \in Seq(Requests) /\ IsInjective(back) /\ Running \cap Elements(back) = {}
       /\ Running' = Running \cup Elements(back)
  BY <1>3, Zenon DEF Returns
<1>11. BlocksOf(running_q) \in Nat /\ BlocksOf(back) \in Nat
  <2> HIDE DEF back
  <2> QED BY <1>1, <1>9, <1>10, BlocksOfNat, Zenon
<1>12. num_decoding_gpu_blocks' <= pool
  <2>1. CASE n = 0
    <3>1. back = <<>>
      BY <2>1 DEF First
    <3>2. BlocksOf(back) = 0
      BY <3>1, BlocksOfNone, Zenon
    <3>3. CASE running_q = <<>>
      <4>1. BlocksOf(running_q) = 0
        BY <3>3, BlocksOfNone, Zenon
      <4> HIDE DEF back
      <4> QED BY <1>4, <1>5, <3>2, <4>1
    <3>4. CASE running_q # <<>>
      <4>1. Len(running_q) \in 1 .. Len(running_q) /\ First(running_q, Len(running_q)) = running_q
        BY <1>9, <3>4 DEF First
      <4>2. BlocksOf(running_q) <= pool
        BY <1>7, <4>1, Zenon
      <4> HIDE DEF back
      <4> QED BY <1>4, <1>11, <3>2, <4>2
    <3> QED BY <3>3, <3>4
  <2>2. CASE n # 0
    <3>1. n \in 1 .. n
      BY <1>9, <2>2
    <3>2. FitsSwapped(n, pool)
      BY <1>8, <3>1, Zenon
    <3> QED BY <1>4, <3>2, Zenon DEF FitsSwapped
  <2> QED BY <2>1, <2>2
<1> HIDE DEF back
<1>13. num_decoding_gpu_blocks' = SumFunctionOnSet(BlocksNeeded, Running')
  <2>1. BlocksOf(running_q) = SumFunctionOnSet(BlocksNeeded, Running)
    BY <1>1, <1>9, BlocksOfSum, Zenon DEF Running
  <2>2. BlocksOf(back) = SumFunctionOnSet(BlocksNeeded, Elements(back))
    BY <1>1, <1>10, BlocksOfSum, Zenon
  <2>3. IsFiniteSet(Running) /\ Running \subseteq Requests
    BY <1>9, QueueFinite, Zenon DEF Running
  <2>4. IsFiniteSet(Elements(back)) /\ Elements(back) \subseteq Requests
    BY <1>10, QueueFinite, Zenon
  <2>5. \A r \in Running \cup Elements(back) : BlocksNeeded[r] \in Nat
    BY <1>1, <2>3, <2>4, NeededNat
  <2>6. SumFunctionOnSet(BlocksNeeded, Running \cup Elements(back))
        = SumFunctionOnSet(BlocksNeeded, Running) + SumFunctionOnSet(BlocksNeeded, Elements(back))
    BY <1>10, <2>3, <2>4, <2>5, SumDisjoint, Zenon
  <2> QED BY <1>4, <1>10, <2>1, <2>2, <2>6, Zenon
<1>14. Planned' /\ upset' = "none" => num_decoding_gpu_blocks' <= num_gpu_blocks'
  BY <1>5, <1>12
<1> QED BY <1>2, <1>3, <1>6, <1>13, <1>14, MovedCounts, Zenon

-----------------------------------------------------------------------------
(* Swapping.                                                               *)

(* A swap that succeeds leaves the plan, the queues and the amounts. *)
LEMMA SwappedCounts ==
  ASSUME IInv, Counts, OutsideModelUnchanged, num_outputs' = num_outputs, Planned, ForwardNext,
         \A r \in Flying :
           Len((IF r \in Running THEN gpu_table' ELSE cpu_table')[request_id[r]]) = Holds[r]
  PROVE  Counts'
<1>1. /\ stage' = "forward" /\ cur_batch' = cur_batch /\ upset' = upset
  BY Zenon DEF ForwardNext
<1>2. /\ UNCHANGED <<prompt_len, request_id, num_decoding_gpu_blocks, num_gpu_blocks>>
      /\ Flying' = Flying /\ Running' = Running /\ Swapped' = Swapped
  BY SameQueues
<1>3. Planned' /\ \A r : OnGpuNow(r)' <=> r \in Running
  BY <1>1, <1>2 DEF Planned, OnGpuNow
<1>4. /\ Holds' = Holds /\ BlocksNeeded' = BlocksNeeded
      /\ \A r : IsPrefillStage(r)' <=> IsPrefillStage(r)
  BY <1>2, AmountsStay, Zenon
<1>5. WillHold' = WillHold
  BY <1>1, <1>3, <1>4 DEF WillHold
<1>6. RowsCount'
  BY <1>2, <1>3, <1>4 DEF RowsCount, RowOf
<1>7. StagesCount'
  BY <1>2, <1>3, <1>4 DEF Counts, StagesCount
<1>8. BatchCounts'
  BY <1>1, <1>2, <1>4 DEF Counts, BatchCounts
<1>9. AccountCovers'
  BY <1>1, <1>2, <1>5 DEF Counts, AccountCovers
<1> QED BY <1>6, <1>7, <1>8, <1>9, Zenon DEF Counts

LEMMA SwapOutCounts ==
  ASSUME IInv, Counts, SwapOut, upset' # "engine"
  PROVE  Counts'
<1>1. stage = "swap_out" /\ OutsideModelUnchanged /\ num_outputs' = num_outputs
  BY Zenon DEF SwapOut
<1>2. ForwardNext /\ Carried(cur_swap_out, gpu_table, cpu_table, gpu_table', cpu_table')
  BY SwapOutKeeps, Zenon
<1>3. /\ Running \cap Swapped = {} /\ Elements(cur_swap_out) \subseteq Swapped
      /\ Flying = Running \cup Swapped
  BY <1>1 DEF IInv, QueueSide, FlightTells, BatchTells, Flying
<1>4. \A r \in Flying : OnGpuNow(r) <=> r \in Running \/ r \in Elements(cur_swap_out)
  BY <1>1 DEF OnGpuNow
<1>5. \A r \in Flying : Len(RowOf(r)) = Holds[r]
  BY Zenon DEF Counts, RowsCount
<1>6. \A r \in Flying :
        Len((IF r \in Running THEN gpu_table' ELSE cpu_table')[request_id[r]]) = Holds[r]
  BY <1>2, <1>3, <1>4, <1>5 DEF Carried, RowOf
<1>7. Planned
  BY <1>1 DEF Planned
<1> QED BY <1>1, <1>2, <1>6, <1>7, SwappedCounts, Zenon

LEMMA SwapInCounts ==
  ASSUME IInv, Counts, SwapIn, upset' # "engine"
  PROVE  Counts'
<1>1. stage = "swap_in" /\ OutsideModelUnchanged /\ num_outputs' = num_outputs
  BY Zenon DEF SwapIn
<1>2. ForwardNext /\ Carried(cur_swap_in, cpu_table, gpu_table, cpu_table', gpu_table')
  BY SwapInKeeps, Zenon
<1>3. Elements(cur_swap_in) \subseteq Running
  BY <1>1 DEF IInv, QueueSide, BatchTells
<1>4. \A r \in Flying : OnGpuNow(r) <=> r \in Running /\ ~(r \in Elements(cur_swap_in))
  BY <1>1 DEF OnGpuNow
<1>5. \A r \in Flying : Len(RowOf(r)) = Holds[r]
  BY Zenon DEF Counts, RowsCount
<1>6. \A r \in Flying :
        Len((IF r \in Running THEN gpu_table' ELSE cpu_table')[request_id[r]]) = Holds[r]
  BY <1>2, <1>3, <1>4, <1>5 DEF Carried, RowOf
<1>7. Planned
  BY <1>1 DEF Planned
<1> QED BY <1>1, <1>2, <1>6, <1>7, SwappedCounts, Zenon

-----------------------------------------------------------------------------
(* The forward pass.                                                       *)

(* A batch that is all prefills or all decodes is in the order forward()   *)
(* takes for granted, and asks for the blocks the scheduler has counted.   *)
LEMMA AllPrefills ==
  ASSUME QueueTypes, \A i \in DOMAIN cur_batch : IsPrefillStage(cur_batch[i])
  PROVE  /\ Aligned /\ \A i \in DOMAIN cur_batch : Targets[i] = BlocksNeeded[cur_batch[i]]
         /\ \A i \in DOMAIN cur_batch : ~(i <= NumPrefills) =>
              SeqLen(i) = prompt_len[cur_batch[i]] + num_outputs[cur_batch[i]]
<1>1. /\ cur_batch \in Seq(Requests) /\ Len(cur_batch) \in Nat /\ DOMAIN cur_batch = 1 .. Len(cur_batch)
      /\ prompt_len \in [Requests -> PromptLens] /\ PromptLens \subseteq Nat
  BY Constants DEF QueueTypes
<1>2. NumPrefills = Len(cur_batch)
  <2>1. {i \in DOMAIN cur_batch : IsPrefillStage(cur_batch[i])} = 1 .. Len(cur_batch)
    BY <1>1
  <2>2. Cardinality(1 .. Len(cur_batch)) = IF 1 > Len(cur_batch) THEN 0 ELSE Len(cur_batch) - 1 + 1
    <3>1. 1 \in Int /\ Len(cur_batch) \in Int
      BY <1>1
    <3> QED BY <3>1, FS_Interval, Zenon
  <2>3. NumPrefills = Cardinality(1 .. Len(cur_batch))
    BY <2>1, Zenon DEF NumPrefills
  <2> QED BY <1>1, <2>2, <2>3
<1>3. \A i \in DOMAIN cur_batch : i <= NumPrefills
  BY <1>1, <1>2
<1>4. \A i \in DOMAIN cur_batch : Targets[i] = BlocksNeeded[cur_batch[i]]
  <2> TAKE i \in DOMAIN cur_batch
  <2>1. cur_batch[i] \in Requests /\ num_outputs[cur_batch[i]] = 0 /\ IsPrefillStage(cur_batch[i])
    BY <1>1 DEF IsPrefillStage
  <2>2. SeqLen(i) = prompt_len[cur_batch[i]]
    BY <1>3, <2>1, Zenon DEF SeqLen, InputLen
  <2>3. prompt_len[cur_batch[i]] \in Nat
    BY <1>1, <2>1
  <2>4. prompt_len[cur_batch[i]] = prompt_len[cur_batch[i]] + num_outputs[cur_batch[i]]
    BY <2>1, <2>3
  <2>5. BlocksNeeded[cur_batch[i]] = CeilDiv(prompt_len[cur_batch[i]] + num_outputs[cur_batch[i]], BlockSize)
    BY <2>1 DEF BlocksNeeded
  <2>6. Targets[i] = CeilDiv(SeqLen(i), BlockSize)
    BY DEF Targets
  <2> QED BY <2>2, <2>4, <2>5, <2>6, Zenon
<1>5. Aligned
  BY <1>3, Zenon DEF Aligned
<1> QED BY <1>3, <1>4, <1>5, Zenon

LEMMA AllDecodes ==
  ASSUME QueueTypes, \A i \in DOMAIN cur_batch : ~IsPrefillStage(cur_batch[i])
  PROVE  /\ Aligned /\ \A i \in DOMAIN cur_batch : Targets[i] = BlocksNeeded[cur_batch[i]]
         /\ \A i \in DOMAIN cur_batch : ~(i <= NumPrefills) =>
              SeqLen(i) = prompt_len[cur_batch[i]] + num_outputs[cur_batch[i]]
<1> DEFINE D == {r \in Requests : ~IsPrefillStage(r)}
           n == Len(cur_batch)
           all == [i \in 1 .. n |-> cur_batch[i]]
<1>1. /\ cur_batch \in Seq(Requests) /\ n \in Nat /\ DOMAIN cur_batch = 1 .. n
      /\ \A i \in 1 .. n : cur_batch[i] \in Requests
  BY DEF QueueTypes
<1>2. NumPrefills = 0
  <2>1. {i \in DOMAIN cur_batch : IsPrefillStage(cur_batch[i])} = {}
    OBVIOUS
  <2> QED BY <2>1, FS_EmptySet, Zenon DEF NumPrefills
<1>3. \A i \in DOMAIN cur_batch : ~(i <= NumPrefills) /\ i - NumPrefills = i
  BY <1>1, <1>2
<1>4. {i \in DOMAIN cur_batch : cur_batch[i] \in D} = 1 .. n
  BY <1>1
<1>5. Keep(cur_batch, D) = all
  <2> HIDE DEF D, n, all
  <2>1. 1 \in Nat /\ n \in Nat /\ 1 >= 1 /\ n >= 1 - 1
    BY <1>1
  <2>2. Keep(cur_batch, D) = [i \in 1 .. n - 1 + 1 |-> cur_batch[1 + i - 1]]
    BY <1>4, <2>1, KeepRun, SMTT(60)
  <2>3. n - 1 + 1 = n /\ \A i \in 1 .. n : 1 + i - 1 = i
    BY <1>1
  <2> QED BY <2>2, <2>3 DEF all
<1>6. DecodingLens = [i \in 1 .. n |-> prompt_len[cur_batch[i]] + num_outputs[cur_batch[i]]]
  <2>1. DecodingLens = [i \in DOMAIN Keep(cur_batch, D) |->
                          prompt_len[Keep(cur_batch, D)[i]] + num_outputs[Keep(cur_batch, D)[i]]]
    BY Zenon DEF DecodingLens
  <2> HIDE DEF D
  <2>2. DecodingLens = [i \in DOMAIN all |-> prompt_len[all[i]] + num_outputs[all[i]]]
    BY <1>5, <2>1, Zenon
  <2> QED BY <2>2
<1> HIDE DEF D, all
<1>7. \A i \in DOMAIN cur_batch :
        /\ Targets[i] = BlocksNeeded[cur_batch[i]]
        /\ SeqLen(i) = prompt_len[cur_batch[i]] + num_outputs[cur_batch[i]]
  <2> TAKE i \in DOMAIN cur_batch
  <2>1. SeqLen(i) = prompt_len[cur_batch[i]] + num_outputs[cur_batch[i]]
    BY <1>1, <1>3, <1>6 DEF SeqLen
  <2>2. BlocksNeeded[cur_batch[i]] = CeilDiv(prompt_len[cur_batch[i]] + num_outputs[cur_batch[i]], BlockSize)
    BY <1>1 DEF BlocksNeeded
  <2>3. Targets[i] = CeilDiv(SeqLen(i), BlockSize)
    BY DEF Targets
  <2> QED BY <2>1, <2>2, <2>3, Zenon
<1>8. Aligned
  BY <1>3, Zenon DEF Aligned
<1> QED BY <1>7, <1>8, Zenon

LEMMA HomogeneousBatch ==
  ASSUME QueueTypes, Planned, BatchCounts
  PROVE  /\ Aligned /\ \A i \in DOMAIN cur_batch : Targets[i] = BlocksNeeded[cur_batch[i]]
         /\ \A i \in DOMAIN cur_batch : ~(i <= NumPrefills) =>
              SeqLen(i) = prompt_len[cur_batch[i]] + num_outputs[cur_batch[i]]
<1>1. \A i \in DOMAIN cur_batch : cur_batch[i] \in Elements(cur_batch)
  BY ElementsOf, Zenon
<1>2. CASE Elements(cur_batch) = {r \in Running : IsPrefillStage(r)}
  <2>1. \A i \in DOMAIN cur_batch : IsPrefillStage(cur_batch[i])
    BY <1>1, <1>2
  <2> QED BY <2>1, AllPrefills, Zenon
<1>3. CASE Elements(cur_batch) = Running /\ \A r \in Running : ~IsPrefillStage(r)
  <2>1. \A i \in DOMAIN cur_batch : ~IsPrefillStage(cur_batch[i])
    BY <1>1, <1>3
  <2> QED BY <2>1, AllDecodes, Zenon
<1> QED BY <1>2, <1>3, Zenon DEF BatchCounts

(* Each request of the batch then holds the blocks of its new token.       *)
LEMMA ForwardCounts ==
  ASSUME IInv, IInv', Counts, Forward
  PROVE  Counts'
<1>1. /\ QueueTypes /\ QueueTypes' /\ FlightTells /\ BatchTells
  BY Zenon DEF IInv, QueueSide
<1>2. /\ stage = "forward" /\ stage' = "finish" /\ OutsideModelUnchanged
      /\ num_outputs' = [r \in Requests |-> num_outputs[r] + IF Contains(cur_batch, r) THEN 1 ELSE 0]
      /\ upset' = (IF upset = "batch" THEN "none" ELSE upset)
      /\ cpu_table' = cpu_table /\ cur_batch' = cur_batch
      /\ AllocationSucceeds /\ GPU!AllocateForSeqs(IdsOf(cur_batch), Targets)
  BY Zenon DEF Forward, cpuVars, batchVars
<1>3. Planned /\ ~Planned' /\ \A r : (OnGpuNow(r) <=> r \in Running) /\ (OnGpuNow(r)' <=> r \in Running')
  BY <1>2 DEF Planned, OnGpuNow
<1>4. /\ UNCHANGED <<prompt_len, request_id, num_decoding_gpu_blocks, num_gpu_blocks>>
      /\ Flying' = Flying /\ Running' = Running /\ Swapped' = Swapped
  BY <1>2, SameQueues
<1>5. /\ Elements(cur_batch) \subseteq Running /\ IsInjective(cur_batch)
      /\ Running \cap Swapped = {} /\ Flying = Running \cup Swapped /\ Flying \subseteq Requests
  <2>1. running_q \in Seq(Requests) /\ swapped_q \in Seq(Requests)
    <3>1. QueueTypes
      BY <1>1
    <3> QED BY <3>1 DEF QueueTypes
  <2>2. Running \subseteq Requests /\ Swapped \subseteq Requests
    BY <2>1 DEF Running, Swapped, Elements
  <2> QED BY <1>1, <1>3, <2>2 DEF BatchTells, FlightTells, Flying
<1>6. \A i \in DOMAIN cur_batch : Targets[i] = BlocksNeeded[cur_batch[i]]
  BY <1>1, <1>3, HomogeneousBatch, Zenon DEF Counts
<1>7. \A r \in Requests :
        /\ num_outputs[r] \in Nat /\ prompt_len[r] \in Nat \ {0}
        /\ num_outputs'[r] = IF r \in Elements(cur_batch) THEN num_outputs[r] + 1 ELSE num_outputs[r]
  <2>1. /\ num_outputs \in [Requests -> Nat] /\ prompt_len \in [Requests -> PromptLens]
        /\ PromptLens \subseteq Nat \ {0} /\ cur_batch \in Seq(Requests)
    BY <1>1, Constants DEF QueueTypes
  <2> TAKE r \in Requests
  <2>2. num_outputs[r] \in Nat /\ prompt_len[r] \in Nat \ {0}
    BY <2>1
  <2>3. Contains(cur_batch, r) <=> r \in Elements(cur_batch)
    BY <2>1, ContainsElements, Zenon
  <2>4. num_outputs'[r] = num_outputs[r] + IF r \in Elements(cur_batch) THEN 1 ELSE 0
    BY <1>2, <2>3, Zenon
  <2> QED BY <2>2, <2>4
<1>8. \A r \in Requests : Holds'[r] = IF r \in Elements(cur_batch) THEN BlocksNeeded[r] ELSE Holds[r]
  <2> TAKE r \in Requests
  <2>1. Holds'[r] = IF num_outputs'[r] = 0 THEN 0 ELSE CeilDiv(prompt_len[r] + num_outputs'[r] - 1, BlockSize)
    BY <1>4 DEF Holds
  <2>2. Holds[r] = IF num_outputs[r] = 0 THEN 0 ELSE CeilDiv(prompt_len[r] + num_outputs[r] - 1, BlockSize)
    BY DEF Holds
  <2>3. BlocksNeeded[r] = CeilDiv(prompt_len[r] + num_outputs[r], BlockSize)
    BY DEF BlocksNeeded
  <2>4. CASE r \in Elements(cur_batch)
    <3>1. num_outputs'[r] # 0 /\ prompt_len[r] + num_outputs'[r] - 1 = prompt_len[r] + num_outputs[r]
      BY <1>7, <2>4
    <3>2. Holds'[r] = CeilDiv(prompt_len[r] + num_outputs[r], BlockSize)
      BY <2>1, <3>1
    <3> QED BY <2>3, <2>4, <3>2
  <2>5. CASE ~(r \in Elements(cur_batch))
    <3>1. num_outputs'[r] = num_outputs[r]
      BY <1>7, <2>5
    <3> QED BY <2>1, <2>2, <2>5, <3>1
  <2> QED BY <2>4, <2>5
<1>9. RowsCount'
  <2>1. /\ \A i \in DOMAIN cur_batch : Len(gpu_table'[request_id[cur_batch[i]]]) = Targets[i]
        /\ \A r \in Flying : ~(r \in Elements(cur_batch)) => gpu_table'[request_id[r]] = gpu_table[request_id[r]]
    BY <1>2, ForwardAllocates, Zenon
  <2>2. \A r \in Flying : Len(RowOf(r)) = Holds[r]
    BY Zenon DEF Counts, RowsCount
  <2>3. \A r \in Flying : Len((IF r \in Running THEN gpu_table' ELSE cpu_table)[request_id[r]]) = Holds'[r]
    <3> TAKE r \in Flying
    <3>1. r \in Requests
      BY <1>5
    <3>2. CASE r \in Elements(cur_batch)
      <4>1. PICK i \in DOMAIN cur_batch : cur_batch[i] = r
        BY <3>2, ElementsOf, Zenon
      <4>2. Len(gpu_table'[request_id[r]]) = BlocksNeeded[r]
        BY <1>6, <2>1, <4>1
      <4> QED BY <1>5, <1>8, <3>1, <3>2, <4>2
    <3>3. CASE ~(r \in Elements(cur_batch))
      <4>1. RowOf(r) = (IF r \in Running THEN gpu_table ELSE cpu_table)[request_id[r]]
        BY <1>3 DEF RowOf
      <4> QED BY <1>8, <2>1, <2>2, <3>1, <3>3, <4>1
    <3> QED BY <3>2, <3>3
  <2> QED BY <1>2, <1>3, <1>4, <2>3 DEF RowsCount, RowOf
<1>10. StagesCount' /\ BatchCounts'
  <2>1. \A r \in Requests : IsPrefillStage(r)' <=> num_outputs'[r] = 0
    BY DEF IsPrefillStage
  <2>2. \A r \in Requests : IsPrefillStage(r) <=> num_outputs[r] = 0
    BY DEF IsPrefillStage
  <2>3. \A r \in Swapped : ~IsPrefillStage(r)'
    <3> TAKE r \in Swapped
    <3>1. r \in Requests /\ ~(r \in Elements(cur_batch)) /\ ~IsPrefillStage(r)
      BY <1>5 DEF Counts, StagesCount
    <3> QED BY <1>7, <2>1, <2>2, <3>1
  <2>4. \A r \in Running : ~IsPrefillStage(r)'
    <3> TAKE r \in Running
    <3>1. r \in Requests
      BY <1>5
    <3>2. CASE r \in Elements(cur_batch)
      BY <1>7, <2>1, <3>1, <3>2
    <3>3. CASE ~(r \in Elements(cur_batch))
      <4>1. ~IsPrefillStage(r)
        BY <1>3, <3>3 DEF Counts, BatchCounts
      <4> QED BY <1>7, <2>1, <2>2, <3>1, <3>3, <4>1
    <3> QED BY <3>2, <3>3
  <2> QED BY <1>3, <1>4, <2>3, <2>4 DEF StagesCount, BatchCounts
<1>11. AccountCovers'
  <2>1. IsFiniteSet(Running) /\ Running \subseteq Requests
    <3>1. running_q \in Seq(Requests) /\ IsInjective(running_q)
      BY <1>1 DEF QueueTypes, FlightTells
    <3> QED BY <3>1, QueueFinite, Zenon DEF Running
  <2>2. \A r \in Running : WillHold[r] \in Nat /\ WillHold'[r] = WillHold[r]
    <3> TAKE r \in Running
    <3>1. r \in Requests
      BY <2>1
    <3>2. WillHold[r] \in Nat /\ WillHold[r] = IF r \in Elements(cur_batch) THEN BlocksNeeded[r] ELSE Holds[r]
      BY <1>1, <1>3, <3>1, HoldsFacts
    <3>3. WillHold' = [x \in Requests |->
             IF Planned' /\ x \in Elements(cur_batch') THEN BlocksNeeded'[x] ELSE Holds'[x]]
      BY DEF WillHold
    <3>4. WillHold'[r] = Holds'[r]
      BY <1>3, <3>1, <3>3
    <3> QED BY <1>8, <3>1, <3>2, <3>4
  <2>3. SumFunctionOnSet(WillHold, Running) = SumFunctionOnSet(WillHold', Running)
    BY <2>1, <2>2, SumSame
  <2> QED BY <1>3, <1>4, <2>3 DEF Counts, AccountCovers
<1> QED BY <1>9, <1>10, <1>11, Zenon DEF Counts

-----------------------------------------------------------------------------
(* The end of a batch, and steps that leave queues and blocks alone.       *)

(* Between two passes the account only has to cover what is held. *)
LEMMA FinishBatchCounts ==
  ASSUME IInv, IInv', Counts, FinishBatch
  PROVE  Counts'
<1>1. /\ QueueTypes /\ FlightTells
  BY Zenon DEF IInv, QueueSide
<1>2. /\ stage = "finish" /\ stage' = "schedule"
      /\ UNCHANGED <<prompt_len, num_outputs, request_id, num_decoding_gpu_blocks>>
  BY DEF FinishBatch, OnBatchFinish, EndIteration, requestVars
<1>3. FinishedLeave
  BY FinishBatchKeeps, Zenon
<1>4. ~Planned /\ ~Planned' /\ \A r : (OnGpuNow(r) <=> r \in Running) /\ (OnGpuNow(r)' <=> r \in Running')
  BY <1>2 DEF Planned, OnGpuNow
<1>5. /\ Holds' = Holds /\ \A r : IsPrefillStage(r)' <=> IsPrefillStage(r)
  BY <1>2, AmountsStay, Zenon
<1>6. /\ Flying = Running \cup Swapped /\ Flying' = Running' \cup Swapped'
      /\ Running \cap Swapped = {}
  BY <1>1 DEF Flying, FlightTells
<1>7. RowsCount'
  <2>1. \A r \in Flying : Len(RowOf(r)) = Holds[r]
    BY Zenon DEF Counts, RowsCount
  <2>2. \A r \in Flying' : r \in Flying /\ (r \in Running' <=> r \in Running)
    BY <1>3, <1>6 DEF FinishedLeave
  <2>3. \A r \in Flying' : Len(RowOf(r)') = Holds[r]
    <3> TAKE r \in Flying'
    <3>1. RowOf(r) = IF r \in Running THEN gpu_table[request_id[r]] ELSE cpu_table[request_id[r]]
      BY <1>4 DEF RowOf
    <3>2. RowOf(r)' = IF r \in Running' THEN gpu_table'[request_id[r]] ELSE cpu_table'[request_id[r]]
      BY <1>2, <1>4 DEF RowOf
    <3>3. RowOf(r)' = RowOf(r)
      BY <1>3, <2>2, <3>1, <3>2 DEF FinishedLeave
    <3> QED BY <2>1, <2>2, <3>3
  <2> QED BY <1>5, <2>3 DEF RowsCount
<1>8. StagesCount' /\ BatchCounts'
  <2>1. \A r \in Flying : ~IsPrefillStage(r)
    BY <1>4, <1>6 DEF Counts, StagesCount
  <2> QED BY <1>3, <1>4, <1>5, <1>6, <2>1 DEF StagesCount, BatchCounts, FinishedLeave
<1>9. AccountCovers'
  <2>1. IsFiniteSet(Running) /\ Running \subseteq Requests
    <3>1. running_q \in Seq(Requests) /\ IsInjective(running_q)
      BY <1>1 DEF QueueTypes, FlightTells
    <3> QED BY <3>1, QueueFinite, Zenon DEF Running
  <2>2. \A r \in Running : WillHold[r] \in Nat /\ WillHold'[r] = WillHold[r]
    <3> TAKE r \in Running
    <3>1. r \in Requests
      BY <2>1
    <3>2. WillHold[r] \in Nat /\ WillHold[r] = Holds[r]
      BY <1>1, <1>4, <3>1, HoldsFacts
    <3>3. WillHold'[r] = Holds[r]
      BY <1>2, <1>4, <3>1, WillHoldNext
    <3> QED BY <3>2, <3>3
  <2>3. Running' \in SUBSET Running
    BY <1>3 DEF FinishedLeave
  <2>4. IsFiniteSet(Running') /\ \A r \in Running' : WillHold[r] \in Nat /\ WillHold'[r] = WillHold[r]
    <3>1. IsFiniteSet(Running')
      BY <2>1, <2>3, FS_Subset, Zenon
    <3> QED BY <2>2, <2>3, <3>1
  <2>5. SumFunctionOnSet(WillHold, Running') = SumFunctionOnSet(WillHold', Running')
    BY <2>4, SumSame
  <2>6. SumFunctionOnSet(WillHold, Running') <= SumFunctionOnSet(WillHold, Running)
    BY <2>1, <2>2, <2>3, SumSubset, Zenon
  <2>7. /\ SumFunctionOnSet(WillHold, Running') \in Nat /\ SumFunctionOnSet(WillHold, Running) \in Nat
    BY <2>1, <2>2, <2>4, SumNat, Zenon
  <2>8. SumFunctionOnSet(WillHold, Running) <= num_decoding_gpu_blocks /\ num_decoding_gpu_blocks \in Nat
    BY <1>1 DEF Counts, AccountCovers, QueueTypes
  <2>9. SumFunctionOnSet(WillHold', Running') <= num_decoding_gpu_blocks'
    <3> DEFINE a == SumFunctionOnSet(WillHold, Running')
               b == SumFunctionOnSet(WillHold, Running)
    <3>1. a <= b /\ b <= num_decoding_gpu_blocks /\ a \in Nat /\ b \in Nat
      BY <2>6, <2>7, <2>8, Zenon
    <3> HIDE DEF a, b
    <3>2. a <= num_decoding_gpu_blocks'
      BY <1>2, <2>8, <3>1
    <3> QED BY <2>5, <3>2 DEF a
  <2> QED BY <1>4, <2>9, Zenon DEF AccountCovers
<1> QED BY <1>7, <1>8, <1>9, Zenon DEF Counts

(* The queues of the running and the swapped out, the plan and the tables are as they were. *)
LEMMA SameCounts ==
  ASSUME Counts,
         UNCHANGED <<prompt_len, num_outputs, request_id, running_q, swapped_q, num_decoding_gpu_blocks,
                     cur_batch, cur_swap_in, cur_swap_out, gpu_table, cpu_table, num_gpu_blocks, upset>>,
         stage' = stage \/ {stage, stage'} \subseteq {"schedule", "exited"}
  PROVE  Counts'
<1>1. /\ Holds' = Holds /\ BlocksNeeded' = BlocksNeeded
      /\ \A r : IsPrefillStage(r)' <=> IsPrefillStage(r)
  BY AmountsStay, Zenon
<1>2. /\ Running' = Running /\ Swapped' = Swapped /\ Flying' = Flying
  BY DEF Running, Swapped, Flying
<1>3. /\ Planned' <=> Planned
      /\ \A r : OnGpuNow(r)' <=> OnGpuNow(r)
  BY <1>2 DEF Planned, OnGpuNow
<1>4. WillHold' = WillHold
  BY <1>1, <1>3 DEF WillHold
<1>5. RowsCount'
  <2>1. \A r : RowOf(r)' = RowOf(r)
    BY <1>3 DEF RowOf
  <2> QED BY <1>1, <1>2, <2>1 DEF Counts, RowsCount
<1>6. StagesCount' /\ BatchCounts'
  BY <1>1, <1>2, <1>3 DEF Counts, StagesCount, BatchCounts
<1>7. AccountCovers'
  BY <1>2, <1>3, <1>4 DEF Counts, AccountCovers
<1> QED BY <1>5, <1>6, <1>7, Zenon DEF Counts

LEMMA ScheduleExitsCounts ==
  ASSUME Counts, ScheduleExits
  PROVE  Counts'
<1>1. UNCHANGED <<prompt_len, num_outputs, request_id, running_q, swapped_q, num_decoding_gpu_blocks,
                  cur_batch, cur_swap_in, cur_swap_out, gpu_table, cpu_table, num_gpu_blocks, upset>>
  BY DEF ScheduleExits, OutsideSchedulerUnchanged, idVars, queueVars, planVars, batchVars, requestVars, cpuVars
<1>2. stage = "schedule" /\ stage' = "exited"
  BY DEF ScheduleExits
<1> QED BY <1>1, <1>2, SameCounts

LEMMA OthersCount ==
  ASSUME Counts, ServingUnchanged
  PROVE  Counts'
BY SameCounts DEF ServingUnchanged

(* Nothing runs at the start. *)
LEMMA InitCounts == ASSUME Init PROVE Counts
<1>1. /\ running_q = <<>> /\ swapped_q = <<>> /\ num_decoding_gpu_blocks = 0 /\ stage = "schedule"
  BY DEF Init, SchedulerInit
<1>2. Running = {} /\ Swapped = {} /\ Flying = {} /\ ~Planned
  BY <1>1 DEF Running, Swapped, Flying, Elements, Planned
<1>3. SumFunctionOnSet(WillHold, Running) = 0
  BY <1>2, SumEmpty, Zenon
<1> QED BY <1>1, <1>2, <1>3 DEF Counts, RowsCount, StagesCount, BatchCounts, AccountCovers

(* What an iteration has raised stays so. *)
LEMMA UpsetStays ==
  ASSUME LayerSide, NEW n, ReplaceLayers(n) \/ RestoreLayers(n), upset' # "engine"
  PROVE  upset # "engine"
BY DEF ReplaceLayers, RestoreLayers, LayerSide

LEMMA NextCounts ==
  ASSUME IInv, IInv', upset # "engine" => Counts, [Next]_vars, upset' # "engine"
  PROVE  Counts'
<1>1. LayerSide
  BY Zenon DEF IInv
<1>2. CASE AddRequest
  <2>1. ServingUnchanged
    BY <1>2, MainLoopStays, Zenon DEF AddRequest
  <2> QED BY <2>1, OthersCount DEF ServingUnchanged
<1>3. CASE TokenizationLoop
  <2>1. ServingUnchanged
    BY <1>3, MainLoopStays, Zenon DEF TokenizationLoop, TakeTokenized, TakeUntokenized, Tokenized
  <2> QED BY <2>1, OthersCount DEF ServingUnchanged
<1>4. CASE UNCHANGED vars
  <2>1. ServingUnchanged
    BY <1>4 DEF vars, ServingUnchanged
  <2> QED BY <2>1, OthersCount DEF ServingUnchanged
<1>5. CASE SchedulePrefill
  <2>1. RestoreLayers(Restorable(Rest(waiting_q, Admissible)))
    BY <1>5, Zenon DEF SchedulePrefill
  <2>2. upset # "engine"
    BY <1>1, <2>1, UpsetStays, Zenon
  <2> QED BY <1>5, <2>2, SchedulePrefillCounts, Zenon
<1>6. CASE ScheduleReplacing
  <2>1. ReplaceLayers(NumLayersToQuantize)
    BY <1>6, Zenon DEF ScheduleReplacing
  <2>2. upset # "engine"
    BY <1>1, <2>1, UpsetStays, Zenon
  <2> QED BY <1>6, <2>2, ScheduleReplacingCounts, Zenon
<1>7. CASE ScheduleExits
  <2>1. upset' = upset
    BY <1>7 DEF ScheduleExits, planVars
  <2> QED BY <1>7, <2>1, ScheduleExitsCounts, Zenon
<1>8. CASE SchedulePreempting
  <2>1. ReplaceLayers(ReplacedToDecode) \/ RestoreLayers(Restorable(waiting_q))
    BY <1>8, Zenon DEF SchedulePreempting
  <2>2. upset # "engine"
    BY <1>1, <2>1, UpsetStays, Zenon
  <2> QED BY <1>8, <2>2, SchedulePreemptingCounts, Zenon
<1>9. CASE ScheduleDecode
  <2>1. ReplaceLayers(ReplacedToDecode) \/ RestoreLayers(Restorable(waiting_q))
    BY <1>9, Zenon DEF ScheduleDecode
  <2>2. upset # "engine"
    BY <1>1, <2>1, UpsetStays, Zenon
  <2> QED BY <1>9, <2>2, ScheduleDecodeCounts, Zenon
<1>10. CASE SwapOut
  <2>1. upset # "engine"
    <3>1. upset' = upset \/ upset' = "engine"
      BY <1>10, Zenon DEF SwapOut, IterationRaises
    <3> QED BY <3>1
  <2> QED BY <1>10, <2>1, SwapOutCounts, Zenon
<1>11. CASE SwapIn
  <2>1. upset # "engine"
    <3>1. upset' = upset \/ upset' = "engine"
      BY <1>11, Zenon DEF SwapIn, IterationRaises
    <3> QED BY <3>1
  <2> QED BY <1>11, <2>1, SwapInCounts, Zenon
<1>12. CASE Forward
  <2>1. upset # "engine"
    <3>1. upset' = IF upset = "batch" THEN "none" ELSE upset
      BY <1>12, Zenon DEF Forward
    <3> QED BY <3>1
  <2> QED BY <1>12, <2>1, ForwardCounts, Zenon
<1>13. CASE ForwardNotAllocated \/ ForwardRaises
  <2>1. upset' = "engine"
    BY <1>13, Zenon DEF ForwardNotAllocated, ForwardRaises, IterationRaises
  <2> QED BY <2>1
<1>14. CASE FinishBatch
  <2>1. upset' = upset
    BY <1>14 DEF FinishBatch, planVars
  <2> QED BY <1>14, <2>1, FinishBatchCounts, Zenon
<1> QED BY <1>2, <1>3, <1>4, <1>5, <1>6, <1>7, <1>8, <1>9, <1>10, <1>11, <1>12, <1>13, <1>14, Zenon
        DEF Next, MainLoop

(* For every number and size of requests, blocks, layers, ids and batches,
   and however the loops interleave: as long as no iteration of the main loop
   has raised, each request holds the blocks of its tokens on the device its
   queue says, a batch is all prefills or all decodes, the scheduler's own
   count num_decoding_gpu_blocks covers what the running requests hold and
   will need, and, unless layers were restored after it was counted, the pool
   covers the count. *)
THEOREM ServingCountsTell == Spec => []CountsTell
<1>1. Init => CountsTell
  BY InitCounts, Zenon DEF CountsTell, Counts
<1>2. IInv /\ IInv' /\ CountsTell /\ [Next]_vars => CountsTell'
  <2> SUFFICES ASSUME IInv, IInv', CountsTell, [Next]_vars, upset' # "engine"
               PROVE  Counts'
    BY Zenon DEF CountsTell, Counts
  <2>1. upset # "engine" => Counts
    BY Zenon DEF CountsTell, Counts
  <2> QED BY <2>1, NextCounts, Zenon
<1> QED BY <1>1, <1>2, SpecIInv, PTL DEF Spec

-----------------------------------------------------------------------------
(* The room for a batch.                                                   *)

(* Outside a swap, the free GPU blocks are those the running requests do not hold. *)
LEMMA FreeBlocks ==
  ASSUME IInv, Counts, stage = "forward"
  PROVE  gpu_num_free \in Nat /\ gpu_num_free + SumFunctionOnSet(Holds, Running) = gpu_num_blocks
<1> DEFINE lens == [s \in RequestIds |-> Len(gpu_table[s])]
           ids == {request_id[r] : r \in Running}
           rows == [r \in Running |-> lens[request_id[r]]]
<1>1. /\ QueueTypes /\ FlightTells /\ IdsTell /\ DevicesTell /\ GpuTells /\ LayerSide
  BY Zenon DEF IInv, QueueSide
<1>2. /\ IsFiniteSet(Running) /\ Running \subseteq Requests
  <2>1. running_q \in Seq(Requests) /\ IsInjective(running_q)
    BY <1>1 DEF QueueTypes, FlightTells
  <2> QED BY <2>1, QueueFinite, Zenon DEF Running
<1>3. /\ Running \subseteq Flying
      /\ \A r \in Flying : ~(r \in Running) => gpu_table[request_id[r]] = <<>>
      /\ \A r \in Running : request_id[r] \in RequestIds /\ Len(gpu_table[request_id[r]]) = Holds[r]
      /\ \A r, s \in Running : request_id[r] = request_id[s] => r = s
      /\ \A id \in Elements(available_ids) : gpu_table[id] = <<>>
  <2>1. \A r : OnGpuNow(r) <=> r \in Running
    BY DEF OnGpuNow
  <2>2. Running \subseteq Flying
    BY DEF Flying
  <2>3. \A r \in Running : Len(gpu_table[request_id[r]]) = Holds[r]
    BY <2>1, <2>2 DEF Counts, RowsCount, RowOf
  <2>4. /\ \A r \in Flying : request_id[r] \in RequestIds
        /\ \A r, s \in Flying : request_id[r] = request_id[s] => r = s
    BY <1>1 DEF IdsTell
  <2>5. /\ \A r \in Flying : ~(r \in Running) => gpu_table[request_id[r]] = <<>>
        /\ \A id \in Elements(available_ids) : gpu_table[id] = <<>>
    BY <1>1, <2>1 DEF DevicesTell
  <2> QED BY <2>2, <2>3, <2>4, <2>5
<1>4. IsFiniteSet(RequestIds)
  <2>1. 0 \in Int /\ MaxSeqs - 1 \in Int
    BY Constants
  <2> QED BY <2>1, FS_Interval, Zenon DEF RequestIds
<1>5. /\ gpu_num_free \in Nat /\ \A s \in RequestIds : Len(gpu_table[s]) \in Nat
      /\ gpu_num_free + SumFunctionOnSet(lens, RequestIds) = gpu_num_blocks
  <2> HIDE DEF lens
  <2>1. MaxGpuBlocks \in Nat /\ gpu_num_blocks \in Nat
    <3>1. MaxGpuBlocks \in Nat
      BY PoolSizes, Constants
    <3> QED BY <1>1, <3>1, LayerFacts
  <2>2. DeviceTells(RequestIds, MaxGpuBlocks, 1 .. gpu_num_blocks, gpu_free, gpu_num_free, gpu_table)
    BY <1>1, Zenon DEF GpuTells, GpuPool
  <2> QED BY <1>4, <2>1, <2>2, DeviceAdds DEF lens
<1>6. \A s \in RequestIds : lens[s] = Len(gpu_table[s]) /\ lens[s] \in Nat
  BY <1>5
<1> HIDE DEF lens
<1>7. SumFunctionOnSet(lens, RequestIds) = SumFunctionOnSet(lens, ids)
  <2>1. ids \in SUBSET RequestIds
    BY <1>3
  <2>2. \A s \in RequestIds \ ids : lens[s] = 0
    <3> TAKE s \in RequestIds \ ids
    <3>1. gpu_table[s] = <<>>
      <4>1. CASE s \in Elements(available_ids)
        BY <1>3, <4>1
      <4>2. CASE ~(s \in Elements(available_ids))
        <5>1. PICK r \in Flying : request_id[r] = s
          BY <1>1, <4>2 DEF IdsTell
        <5>2. ~(r \in Running)
          BY <5>1
        <5> QED BY <1>3, <5>1, <5>2
      <4> QED BY <4>1, <4>2
    <3>2. Len(<<>>) = 0
      OBVIOUS
    <3> QED BY <1>6, <3>1, <3>2
  <2> HIDE DEF ids
  <2> QED BY <1>4, <1>6, <2>1, <2>2, SumSupport, Zenon
<1>8. SumFunctionOnSet(rows, Running) = SumFunctionOnSet(lens, ids)
  <2>1. \A r \in Running : lens[request_id[r]] \in Nat
    BY <1>3, <1>6
  <2> QED BY <1>2, <1>3, <2>1, SumRenamed, SMTT(60)
<1>9. SumFunctionOnSet(rows, Running) = SumFunctionOnSet(Holds, Running)
  <2>1. \A r \in Running : rows[r] \in Nat /\ Holds[r] = rows[r]
    BY <1>3, <1>6
  <2> HIDE DEF rows
  <2> QED BY <1>2, <2>1, SumSame, Zenon
<1> QED BY <1>5, <1>7, <1>8, <1>9, Zenon

(* What the batch still lacks is what the account adds to what is held. *)
LEMMA BatchLacks ==
  ASSUME IInv, Counts, stage = "forward"
  PROVE  /\ GPU!TargetsMakeSense(IdsOf(cur_batch), Targets)
         /\ GPU!SumFunction(GPU!Missing(IdsOf(cur_batch), Targets)) \in Nat
         /\ SumFunctionOnSet(Holds, Running) \in Nat
         /\ SumFunctionOnSet(WillHold, Running)
            = SumFunctionOnSet(Holds, Running) + GPU!SumFunction(GPU!Missing(IdsOf(cur_batch), Targets))
<1> DEFINE T == DOMAIN cur_batch
           ids == IdsOf(cur_batch)
           lack == [r \in Requests |-> WillHold[r] - Holds[r]]
           lacks == [i \in T |-> lack[cur_batch[i]]]
<1>1. /\ QueueTypes /\ FlightTells /\ IdsTell /\ QueueSide /\ BatchTells
  BY Zenon DEF IInv, QueueSide
<1>2. Planned /\ \A r : OnGpuNow(r) <=> r \in Running
  BY DEF Planned, OnGpuNow
<1>3. /\ cur_batch \in Seq(Requests) /\ IsInjective(cur_batch) /\ Elements(cur_batch) \subseteq Running
      /\ Running \subseteq Flying
  BY <1>1, <1>2 DEF QueueTypes, BatchTells, Flying
<1>4. DOMAIN ids = T /\ \A i \in T : ids[i] = request_id[cur_batch[i]]
  <2>1. Elements(cur_batch) \subseteq Flying
    BY <1>3
  <2> QED BY <1>1, <1>3, <2>1, FlyingIds
<1> HIDE DEF ids
<1>5. \A i \in T : cur_batch[i] \in Requests /\ cur_batch[i] \in Running /\ cur_batch[i] \in Elements(cur_batch)
  BY <1>3 DEF Elements
<1>6. \A i \in T : Targets[i] = BlocksNeeded[cur_batch[i]]
  BY <1>1, <1>2, HomogeneousBatch, Zenon DEF Counts
<1>7. \A r \in Running : Len(gpu_table[request_id[r]]) = Holds[r]
  BY <1>2, <1>3 DEF Counts, RowsCount, RowOf
<1>8. \A r \in Requests :
        /\ Holds[r] \in Nat /\ BlocksNeeded[r] \in Nat /\ Holds[r] <= BlocksNeeded[r]
        /\ WillHold[r] = IF r \in Elements(cur_batch) THEN BlocksNeeded[r] ELSE Holds[r]
  BY <1>1, <1>2, HoldsFacts
<1>9. \A r \in Requests :
        /\ lack[r] \in Nat /\ WillHold[r] = Holds[r] + lack[r]
        /\ lack[r] = IF r \in Elements(cur_batch) THEN BlocksNeeded[r] - Holds[r] ELSE 0
  <2> TAKE r \in Requests
  <2>1. lack[r] = WillHold[r] - Holds[r]
    OBVIOUS
  <2> HIDE DEF lack
  <2> QED BY <1>8, <2>1
<1>10. GPU!TargetsMakeSense(ids, Targets)
  <2>1. \A i \in DOMAIN ids : Len(gpu_table[ids[i]]) <= Targets[i]
    <3> TAKE i \in DOMAIN ids
    <3>1. Len(gpu_table[ids[i]]) = Holds[cur_batch[i]] /\ Targets[i] = BlocksNeeded[cur_batch[i]]
      BY <1>4, <1>5, <1>6, <1>7
    <3> QED BY <1>4, <1>5, <1>8, <3>1
  <2> QED BY <2>1, Zenon DEF GPU!TargetsMakeSense
<1>11. GPU!Missing(ids, Targets) = lacks
  <2>1. GPU!Missing(ids, Targets) = [i \in T |-> Targets[i] - Len(gpu_table[ids[i]])]
    BY <1>4 DEF GPU!Missing
  <2>2. \A i \in T : Targets[i] - Len(gpu_table[ids[i]]) = lack[cur_batch[i]]
    <3> TAKE i \in T
    <3>1. Len(gpu_table[ids[i]]) = Holds[cur_batch[i]] /\ Targets[i] = BlocksNeeded[cur_batch[i]]
      BY <1>4, <1>5, <1>6, <1>7
    <3> HIDE DEF lack
    <3> QED BY <1>5, <1>9, <3>1
  <2> HIDE DEF lack, T
  <2> QED BY <2>1, <2>2
<1> HIDE DEF lack
<1>12. IsFiniteSet(T) /\ IsFiniteSet(Running) /\ Running \subseteq Requests
  <2>1. running_q \in Seq(Requests) /\ IsInjective(running_q)
    BY <1>1 DEF QueueTypes, FlightTells
  <2>2. IsFiniteSet(Running) /\ Running \subseteq Requests
    BY <2>1, QueueFinite, Zenon DEF Running
  <2>3. IsFiniteSet(T)
    BY <1>3, QueueFinite, Zenon
  <2> QED BY <2>2, <2>3
<1>13. SumFunctionOnSet(lacks, T) = SumFunctionOnSet(lack, Elements(cur_batch))
  <2>1. \A i, j \in T : cur_batch[i] = cur_batch[j] => i = j
    BY <1>3 DEF IsInjective
  <2>2. \A i \in T : lack[cur_batch[i]] \in Nat
    BY <1>5, <1>9
  <2>3. SumFunctionOnSet(lacks, T) = SumFunctionOnSet(lack, {cur_batch[i] : i \in T})
    BY <1>12, <2>1, <2>2, SumRenamed, Zenon
  <2> QED BY <2>3, Zenon DEF Elements
<1>14. SumFunctionOnSet(lack, Running) = SumFunctionOnSet(lack, Elements(cur_batch))
  <2>1. \A r \in Running : lack[r] \in Nat
    BY <1>9, <1>12
  <2>2. \A r \in Running \ Elements(cur_batch) : lack[r] = 0
    BY <1>9, <1>12
  <2>3. Elements(cur_batch) \in SUBSET Running
    BY <1>3
  <2> QED BY <1>12, <2>1, <2>2, <2>3, SumSupport, Zenon
<1>15. GPU!SumFunction(GPU!Missing(ids, Targets)) = SumFunctionOnSet(lack, Running)
  <2>1. DOMAIN lacks = T
    OBVIOUS
  <2> HIDE DEF lacks, T
  <2>2. GPU!SumFunction(lacks) = SumFunctionOnSet(lacks, T)
    BY <2>1, GpuSum, Zenon
  <2> QED BY <1>11, <1>13, <1>14, <2>2, Zenon
<1>16. /\ SumFunctionOnSet(WillHold, Running)
          = SumFunctionOnSet(Holds, Running) + SumFunctionOnSet(lack, Running)
       /\ SumFunctionOnSet(lack, Running) \in Nat /\ SumFunctionOnSet(Holds, Running) \in Nat
  <2>1. \A r \in Running : Holds[r] \in Nat /\ lack[r] \in Nat /\ WillHold[r] = Holds[r] + lack[r]
    BY <1>8, <1>9, <1>12
  <2>2. SumFunctionOnSet(WillHold, Running)
          = SumFunctionOnSet(Holds, Running) + SumFunctionOnSet(lack, Running)
    BY <1>12, <2>1, SumSplit, SMTT(60)
  <2>3. SumFunctionOnSet(lack, Running) \in Nat /\ SumFunctionOnSet(Holds, Running) \in Nat
    BY <1>12, <2>1, SumNat, Zenon
  <2> QED BY <2>2, <2>3, Zenon
<1> QED BY <1>10, <1>15, <1>16, Zenon DEF ids

(* The account covers the pass, and the pool the account. *)
LEMMA CountsMakeRoom == IInv /\ CountsTell => ReplacementMakesRoom
<1> SUFFICES ASSUME IInv, CountsTell, upset = "none", stage = "forward"
             PROVE  AllocationSucceeds /\ Aligned
  BY Zenon DEF ReplacementMakesRoom, ForwardFits
<1>1. Counts
  BY DEF CountsTell, Counts
<1>2. QueueTypes /\ LayerSide /\ Planned
  <2>1. QueueTypes /\ LayerSide
    BY Zenon DEF IInv, QueueSide
  <2> QED BY <2>1 DEF Planned
<1>3. Aligned
  BY <1>1, <1>2, HomogeneousBatch, Zenon DEF Counts
<1> DEFINE missing == GPU!SumFunction(GPU!Missing(IdsOf(cur_batch), Targets))
           held == SumFunctionOnSet(Holds, Running)
           will == SumFunctionOnSet(WillHold, Running)
<1>4. GPU!TargetsMakeSense(IdsOf(cur_batch), Targets) /\ missing \in Nat /\ held \in Nat /\ will = held + missing
  BY <1>1, BatchLacks, Zenon
<1>5. gpu_num_free \in Nat /\ gpu_num_free + held = gpu_num_blocks
  BY <1>1, FreeBlocks, Zenon
<1>6. will <= num_decoding_gpu_blocks /\ num_decoding_gpu_blocks <= num_gpu_blocks
  BY <1>1, <1>2, Zenon DEF Counts, AccountCovers
<1>7. num_gpu_blocks = gpu_num_blocks /\ num_gpu_blocks \in Nat /\ num_decoding_gpu_blocks \in Nat
  BY <1>2, LayerFacts DEF QueueTypes
<1> HIDE DEF missing, held, will
<1>8. missing <= gpu_num_free
  BY <1>4, <1>5, <1>6, <1>7
<1>9. GPU!EnoughFree(IdsOf(cur_batch), Targets)
  BY <1>8, Zenon DEF GPU!EnoughFree, missing
<1> QED BY <1>3, <1>4, <1>9, Zenon DEF AllocationSucceeds

(* For every number and size of requests, blocks, layers, ids and batches,
   and however the loops interleave: a forward pass that no restoration of
   layers and no exception has come between finds the blocks the scheduler
   counted for it two awaits earlier, the assertion of the block manager
   holds, and the batch is in the order forward() takes for granted. *)
THEOREM ServingMakesRoom == Spec => []ReplacementMakesRoom
BY CountsMakeRoom, SpecIInv, ServingCountsTell, PTL

-----------------------------------------------------------------------------
(* First come, first served.                                               *)

Undisturbed == upset # "engine"

(* What FcfsService calls admitted and preempted. *)
Admitted == Cardinality({r \in Requests : request_id[r] # -1})
Preempted == ToSet(swapped_q)
ServiceMapped ==
  /\ Admitted = NumAdmitted /\ NumAdmitted \in 0 .. NumRequests
  /\ Preempted = Swapped

LEMMA EngineMapped == ASSUME IInv PROVE ServiceMapped
<1>1. QueueTypes /\ PendingInOrder /\ IdsTell
  BY Zenon DEF IInv, QueueSide
<1>2. NumAdmitted \in 0 .. NumRequests
  <2>1. Len(Pending) \in Nat
    BY <1>1, PendingShape
  <2>2. arrived \in Nat
    BY <1>1 DEF QueueTypes
  <2> QED BY <1>1, <2>1, <2>2, Constants DEF PendingInOrder, NumAdmitted
<1>3. {r \in Requests : request_id[r] # -1} = 1 .. NumAdmitted
  BY <1>1, <1>2, Constants DEF IdsTell, Requests
<1>4. Cardinality(1 .. NumAdmitted) = NumAdmitted
  <2> DEFINE n == NumAdmitted
  <2>1. n \in Int /\ 1 \in Int
    BY <1>2
  <2>2. Cardinality(1 .. n) = IF 1 > n THEN 0 ELSE n - 1 + 1
    BY <2>1, FS_Interval, Zenon
  <2> QED BY <1>2, <2>2
<1>5. Preempted = Swapped
  BY ElementsOf, Zenon DEF Preempted, Swapped
<1> QED BY <1>2, <1>3, <1>4, <1>5, Zenon DEF ServiceMapped, Admitted

(* Outside the end of a batch, who is admitted and not finished is in flight. *)
LEMMA UnfinishedFly ==
  ASSUME IInv, stage # "finish"
  PROVE  Flying = {r \in 1 .. NumAdmitted : num_outputs[r] < output_len[r]}
<1>1. QueueTypes /\ FlightTells
  BY Zenon DEF IInv, QueueSide
<1>2. NumAdmitted \in 0 .. NumRequests
  BY EngineMapped, Zenon DEF ServiceMapped
<1>3. Flying \subseteq Requests
  BY <1>1 DEF QueueTypes, Flying, Running, Swapped, Elements
<1>4. \A r \in Requests : /\ num_outputs[r] \in Nat /\ output_len[r] \in Nat
                          /\ num_outputs[r] <= output_len[r]
                          /\ r \in Flying <=> r <= NumAdmitted /\ ~IsFinished(r)
  BY <1>1, Constants DEF QueueTypes, FlightTells
<1>5. 1 .. NumAdmitted \subseteq Requests /\ \A r \in Requests : r \in Int /\ r >= 1
  BY <1>2, Constants DEF Requests
<1> QED BY <1>2, <1>3, <1>4, <1>5 DEF IsFinished

-----------------------------------------------------------------------------
(* Its steps.                                                              *)

(* The clients see neither. *)
ClientsUnchanged == UNCHANGED <<output_len, num_outputs, request_id, swapped_q>>

LEMMA UnseenStep ==
  ASSUME ClientsUnchanged
  PROVE  [Service!Next]_(Service!vars)
<1>1. Admitted' = Admitted /\ Preempted' = Preempted
  BY DEF ClientsUnchanged, Admitted, Preempted
<1>2. Service!vars' = Service!vars
  BY <1>1 DEF ClientsUnchanged, Service!vars, Admitted, Preempted
<1> QED BY <1>2

(* The scheduler's next batch is of new requests, while none is preempted. *)
LEMMA AdmissionIsAdmit ==
  ASSUME IInv, QueueTypes', ServiceMapped, ServiceMapped',
         NEW n \in 0 .. Len(waiting_q), swapped_q = <<>>, PrefillBatch(n), OutsideSchedulerUnchanged
  PROVE  [Service!Next]_(Service!vars)
<1>1. QueueTypes
  BY Zenon DEF IInv, QueueSide
<1>2. /\ waiting_q' = Rest(waiting_q, n) /\ swapped_q' = swapped_q
      /\ UNCHANGED <<output_len, num_outputs, arrived, tokenizing, untokenized>>
  BY DEF PrefillBatch, OutsideSchedulerUnchanged, requestVars, arrivalVars
<1>3. Len(Rest(waiting_q, n)) = Len(waiting_q) - n
  <2>1. waiting_q \in Seq(Requests) /\ n \in 0 .. Len(waiting_q)
    BY <1>1 DEF QueueTypes
  <2> QED BY <2>1, FirstAndRest
<1>4. NumAdmitted' = NumAdmitted + n
  <2>1. Len(Pending) = Len(waiting_q) + Len(tokenizing) + Len(untokenized)
    BY <1>1, PendingShape
  <2>2. Len(Pending)' = Len(waiting_q') + Len(tokenizing') + Len(untokenized')
    <3>1. /\ waiting_q' \in Seq(Requests) /\ tokenizing' \in Seq(Requests) /\ untokenized' \in Seq(Requests)
      BY DEF QueueTypes
    <3> QED BY <3>1 DEF Pending
  <2>3. Len(waiting_q) \in Nat /\ Len(tokenizing) \in Nat /\ Len(untokenized) \in Nat
    BY <1>1, PendingShape
  <2>4. arrived \in Nat
    BY <1>1 DEF QueueTypes
  <2> QED BY <1>2, <1>3, <2>1, <2>2, <2>3, <2>4 DEF NumAdmitted
<1>5. Preempted = {} /\ Preempted' = Preempted
  BY <1>2 DEF Preempted, ToSet
<1>6. CASE n = 0
  <2>1. Admitted' = Admitted
    BY <1>4, <1>6 DEF ServiceMapped
  <2>2. Service!vars' = Service!vars
    BY <1>2, <1>5, <2>1 DEF Service!vars, Admitted, Preempted
  <2> QED BY <2>2
<1>7. CASE n # 0
  <2>1. Admitted' > Admitted /\ Admitted' \in 1 .. NumRequests
    BY <1>4, <1>7 DEF ServiceMapped
  <2>2. Service!Admit
    BY <1>2, <1>5, <2>1 DEF Service!Admit, Service!Requests, Admitted, Preempted
  <2> QED BY <1>2, <2>2, Zenon DEF Service!Next
<1> QED BY <1>6, <1>7

LEMMA SchedulePrefillServes ==
  ASSUME IInv, QueueTypes', ServiceMapped, ServiceMapped', SchedulePrefill
  PROVE  [Service!Next]_(Service!vars)
<1>1. QueueTypes
  BY Zenon DEF IInv, QueueSide
<1>2. Admissible > 0 /\ PrefillBatch(Admissible) /\ OutsideSchedulerUnchanged
  BY Zenon DEF SchedulePrefill
<1>3. swapped_q = <<>> /\ Admissible = AdmissibleIn(num_gpu_blocks)
  BY <1>2 DEF Admissible
<1>4. Admissible \in 0 .. Len(waiting_q)
  BY <1>1, <1>3, AdmissibleBounds, Zenon
<1> QED BY <1>2, <1>3, <1>4, AdmissionIsAdmit, Zenon

LEMMA ScheduleReplacingServes ==
  ASSUME IInv, QueueTypes', ServiceMapped, ServiceMapped', ScheduleReplacing
  PROVE  [Service!Next]_(Service!vars)
<1> DEFINE n == AdmissibleIn(PoolWith(NumLayersToQuantize))
<1>1. QueueTypes
  BY Zenon DEF IInv, QueueSide
<1>2. PrefillBatch(n) /\ OutsideSchedulerUnchanged /\ AdmitsByReplacing
  BY Zenon DEF ScheduleReplacing
<1>3. swapped_q = <<>>
  BY <1>2, Zenon DEF AdmitsByReplacing
<1>4. n \in 0 .. Len(waiting_q)
  BY <1>1, AdmissibleBounds, Zenon
<1> HIDE DEF n
<1> QED BY <1>2, <1>3, <1>4, AdmissionIsAdmit, Zenon

(* Preempting and taking back change who is preempted, one way or the other. *)
LEMMA MovingIsSwap ==
  ASSUME IInv, ServiceMapped, ServiceMapped', stage = "schedule", Moves, OutsideSchedulerUnchanged,
         Swapped \subseteq Swapped' \/ Swapped' \subseteq Swapped
  PROVE  [Service!Next]_(Service!vars)
<1>1. Flying = {r \in 1 .. NumAdmitted : num_outputs[r] < output_len[r]}
  BY UnfinishedFly
<1>2. Swapped' \subseteq Flying
  <2>1. Flying' = Flying
    BY DEF Moves
  <2> QED BY <2>1 DEF Flying
<1>3. Admitted = NumAdmitted /\ Preempted = Swapped /\ Preempted' = Swapped'
  BY Zenon DEF ServiceMapped
<1>4. UNCHANGED <<output_len, num_outputs, request_id>>
  BY DEF OutsideSchedulerUnchanged, requestVars, Moves
<1>5. Admitted' = Admitted
  BY <1>4 DEF Admitted
<1>6. Service!Unfinished = Flying
  BY <1>1, <1>3, Zenon DEF Service!Unfinished, Admitted
<1>7. Service!Swap
  BY <1>2, <1>3, <1>4, <1>5, <1>6, Zenon DEF Service!Swap, Admitted, Preempted
<1> QED BY <1>4, <1>7, Zenon DEF Service!Next

LEMMA SchedulePreemptingServes ==
  ASSUME IInv, ServiceMapped, ServiceMapped', SchedulePreempting
  PROVE  [Service!Next]_(Service!vars)
<1> DEFINE pool == PoolWith(ReplacedToDecode)
           out == NewlySwappedOut(pool)
<1>1. QueueTypes
  BY Zenon DEF IInv, QueueSide
<1>2. /\ stage = "schedule" /\ Kept(pool) < Len(running_q) /\ OutsideSchedulerUnchanged
      /\ PreemptBatch(pool) /\ Start(First(running_q, Kept(pool)), <<>>, out)
  BY Zenon DEF SchedulePreempting, Decoding
<1>3. Moves
  BY <1>2, PreemptKept, Zenon
<1>4. swapped_q' = Reverse(out) \o swapped_q /\ swapped_q \in Seq(Requests) /\ Reverse(out) \in Seq(Requests)
  <2>1. Kept(pool) \in 0 .. Len(running_q) /\ running_q \in Seq(Requests) /\ swapped_q \in Seq(Requests)
    BY <1>1, KeptBounds DEF QueueTypes
  <2>2. Rest(running_q, Kept(pool)) \in Seq(Requests)
    <3> HIDE DEF pool
    <3> QED BY <2>1, FirstAndRest
  <2>3. Reverse(out) \in Seq(Requests)
    BY <2>2, ReverseList, Zenon DEF NewlySwappedOut, Victims
  <2> QED BY <1>2, <2>1, <2>3, Zenon DEF PreemptBatch, ExtendLeft
<1> HIDE DEF out, pool
<1>5. Swapped \subseteq Swapped'
  <2> DEFINE back == Reverse(out)
  <2>1. swapped_q' = back \o swapped_q /\ swapped_q \in Seq(Requests) /\ back \in Seq(Requests)
    BY <1>4
  <2> HIDE DEF back
  <2>2. ASSUME NEW i \in DOMAIN swapped_q PROVE swapped_q[i] \in Elements(swapped_q')
    <3>1. Len(back) + i \in DOMAIN swapped_q' /\ swapped_q'[Len(back) + i] = swapped_q[i]
      BY <2>1
    <3> QED BY <3>1, ElementsOf
  <2> QED BY <2>2 DEF Swapped, Elements
<1> QED BY <1>2, <1>3, <1>5, MovingIsSwap, Zenon

LEMMA ScheduleDecodeServes ==
  ASSUME IInv, ServiceMapped, ServiceMapped', ScheduleDecode
  PROVE  [Service!Next]_(Service!vars)
<1> DEFINE pool == PoolWith(ReplacedToDecode)
           n == Returning(pool)
<1>1. QueueTypes
  BY Zenon DEF IInv, QueueSide
<1>2. /\ stage = "schedule" /\ OutsideSchedulerUnchanged
      /\ DecodeBatch(pool) /\ Start(running_q', First(swapped_q, Returning(pool)), <<>>)
  BY Zenon DEF ScheduleDecode, Decoding
<1>3. Moves
  BY <1>2, DecodeKept, Zenon
<1>4. swapped_q' = Rest(swapped_q, n) /\ swapped_q \in Seq(Requests) /\ n \in 0 .. Len(swapped_q)
  BY <1>1, <1>2, ReturningBounds, Zenon DEF DecodeBatch, QueueTypes
<1> HIDE DEF n, pool
<1>5. Swapped' \subseteq Swapped
  <2>1. Elements(First(swapped_q, n)) \cup Elements(Rest(swapped_q, n)) = Elements(swapped_q)
    BY <1>4, FirstAndRestElements, Zenon
  <2> QED BY <1>4, <2>1 DEF Swapped
<1> QED BY <1>2, <1>3, <1>5, MovingIsSwap, Zenon

(* A pass gives a token to all that have none, or to all that run. *)
LEMMA ForwardServes ==
  ASSUME IInv, Counts, ServiceMapped, ServiceMapped', Forward
  PROVE  [Service!Next]_(Service!vars)
<1>1. QueueTypes /\ FlightTells
  BY Zenon DEF IInv, QueueSide
<1>2. /\ stage = "forward" /\ OutsideModelUnchanged
      /\ num_outputs' = [r \in Requests |-> num_outputs[r] + IF Contains(cur_batch, r) THEN 1 ELSE 0]
  BY Zenon DEF Forward
<1>3. UNCHANGED <<output_len, request_id, swapped_q>>
  BY <1>2, SameQueues
<1>4. Admitted' = Admitted /\ Preempted' = Preempted
  BY <1>3 DEF Admitted, Preempted
<1>5. Flying = {r \in 1 .. NumAdmitted : num_outputs[r] < output_len[r]}
  BY <1>2, UnfinishedFly
<1>6. Admitted = NumAdmitted /\ Preempted = Swapped
  BY Zenon DEF ServiceMapped
<1>7. Service!Unfinished = Flying
  BY <1>5, <1>6, Zenon DEF Service!Unfinished, Admitted
<1>8. cur_batch \in Seq(Requests) /\ \A r : Contains(cur_batch, r) <=> r \in Elements(cur_batch)
  BY <1>1, ContainsElements DEF QueueTypes
<1>9. \A r \in Swapped : num_outputs[r] # 0
  BY DEF Counts, StagesCount, IsPrefillStage
<1>10. Flying = Running \cup Swapped /\ Running \cap Swapped = {}
  BY <1>1 DEF FlightTells, Flying
<1>11. \A r \in Flying : num_outputs[r] \in Nat
  BY <1>1 DEF QueueTypes, Flying, Running, Swapped, Elements
<1>12. num_outputs' = [r \in Requests |-> num_outputs[r] + IF r \in Elements(cur_batch) THEN 1 ELSE 0]
  BY <1>2, <1>8
<1>13. \/ Elements(cur_batch) = {r \in Running : num_outputs[r] = 0}
       \/ Elements(cur_batch) = Running /\ \A r \in Running : num_outputs[r] # 0
  BY <1>2 DEF Counts, BatchCounts, Planned, IsPrefillStage
<1>14. CASE Elements(cur_batch) = {r \in Running : num_outputs[r] = 0}
  <2> DEFINE new == {r \in Flying : num_outputs[r] = 0}
  <2>1. Elements(cur_batch) = new
    BY <1>9, <1>10, <1>14
  <2>2. CASE new = {}
    <3>1. num_outputs' = num_outputs
      BY <1>1, <1>12, <2>1, <2>2 DEF QueueTypes
    <3>2. Service!vars' = Service!vars
      BY <1>3, <1>4, <3>1 DEF Service!vars, Admitted, Preempted
    <3> QED BY <3>2
  <2>3. CASE new # {}
    <3> HIDE DEF new
    <3>1. {r \in Service!Unfinished : num_outputs[r] = 0} = new
      BY <1>7 DEF new
    <3>2. num_outputs' = [r \in Requests |-> num_outputs[r] + IF r \in new THEN 1 ELSE 0]
      BY <1>12, <2>1
    <3>3. Service!Prefill
      BY <1>4, <2>3, <3>1, <3>2, Zenon DEF Service!Prefill, Service!Requests, Requests, Admitted, Preempted
    <3> QED BY <1>3, <3>3, Zenon DEF Service!Next
  <2> QED BY <2>2, <2>3
<1>15. CASE Elements(cur_batch) = Running /\ \A r \in Running : num_outputs[r] # 0
  <2>1. Service!Unfinished \ Preempted = Running
    BY <1>6, <1>7, <1>10
  <2>2. \A r \in Running : num_outputs[r] > 0
    BY <1>10, <1>11, <1>15
  <2>3. num_outputs' = [r \in Requests |-> num_outputs[r] + IF r \in Running THEN 1 ELSE 0]
    BY <1>12, <1>15
  <2>4. Service!Decode
    BY <1>4, <2>1, <2>2, <2>3, Zenon DEF Service!Decode, Service!Requests, Requests, Admitted, Preempted
  <2> QED BY <1>3, <2>4, Zenon DEF Service!Next
<1> QED BY <1>13, <1>14, <1>15

(* The other steps give no token, and move no request in or out. *)
LEMMA QuietStep ==
  ASSUME \/ AddRequest \/ TokenizationLoop \/ ScheduleExits \/ SwapOut \/ SwapIn
         \/ ForwardNotAllocated \/ ForwardRaises \/ FinishBatch \/ UNCHANGED vars
  PROVE  [Service!Next]_(Service!vars)
<1>1. CASE AddRequest
  BY <1>1, UnseenStep DEF AddRequest, MainLoopUnchanged, ClientsUnchanged, requestVars, idVars
<1>2. CASE TokenizationLoop
  BY <1>2, UnseenStep DEF TokenizationLoop, TakeTokenized, TakeUntokenized, Tokenized,
       MainLoopUnchanged, ClientsUnchanged, requestVars, idVars
<1>3. CASE ScheduleExits
  BY <1>3, UnseenStep DEF ScheduleExits, OutsideSchedulerUnchanged, ClientsUnchanged,
       requestVars, idVars, queueVars
<1>4. CASE SwapOut \/ SwapIn \/ ForwardNotAllocated \/ ForwardRaises
  <2>1. OutsideModelUnchanged /\ num_outputs' = num_outputs
    BY <1>4, Zenon DEF SwapOut, SwapIn, ForwardNotAllocated, ForwardRaises
  <2> QED BY <2>1, UnseenStep DEF OutsideModelUnchanged, ClientsUnchanged, requestVars, idVars, queueVars
<1>5. CASE FinishBatch
  <2>1. UNCHANGED <<requestVars, num_outputs>> /\ OnBatchFinish(cur_batch)
    BY <1>5, Zenon DEF FinishBatch
  <2> QED BY <2>1, UnseenStep DEF OnBatchFinish, ClientsUnchanged, requestVars
<1>6. CASE UNCHANGED vars
  BY <1>6, UnseenStep DEF vars, ClientsUnchanged
<1> QED BY <1>1, <1>2, <1>3, <1>4, <1>5, <1>6, Zenon

LEMMA ServiceStep ==
  ASSUME IInv, QueueTypes', Counts, ServiceMapped, ServiceMapped', [Next]_vars
  PROVE  [Service!Next]_(Service!vars)
<1>1. CASE SchedulePrefill
  BY <1>1, SchedulePrefillServes, Zenon
<1>2. CASE ScheduleReplacing
  BY <1>2, ScheduleReplacingServes, Zenon
<1>3. CASE SchedulePreempting
  BY <1>3, SchedulePreemptingServes, Zenon
<1>4. CASE ScheduleDecode
  BY <1>4, ScheduleDecodeServes, Zenon
<1>5. CASE Forward
  BY <1>5, ForwardServes, Zenon
<1>6. CASE \/ AddRequest \/ TokenizationLoop \/ ScheduleExits \/ SwapOut \/ SwapIn
           \/ ForwardNotAllocated \/ ForwardRaises \/ FinishBatch \/ UNCHANGED vars
  BY <1>6, QuietStep, Zenon
<1> QED BY <1>1, <1>2, <1>3, <1>4, <1>5, <1>6, Zenon DEF Next, MainLoop

LEMMA ServiceInit == ASSUME Init PROVE Service!Init
<1>1. /\ output_len \in [Requests -> OutputLens] /\ num_outputs = [r \in Requests |-> 0]
      /\ request_id = [r \in Requests |-> -1] /\ swapped_q = <<>>
  BY DEF Init, SchedulerInit
<1>2. output_len \in [Requests -> Nat]
  BY <1>1, Constants
<1>3. Preempted = {}
  BY <1>1 DEF Preempted, ToSet
<1>4. {r \in Requests : request_id[r] # -1} = {}
  BY <1>1
<1>5. Admitted = 0
  BY <1>4, FS_EmptySet, Zenon DEF Admitted
<1> QED BY <1>1, <1>2, <1>3, <1>5, Zenon DEF Service!Init, Service!Requests, Requests, Admitted, Preempted

(* In every behaviour in which no iteration of the main loop raises, and   *)
(* for all values of the constants, the engine serves first come, first    *)
(* served: its queues, swaps, replaced layers and event loops only ever    *)
(* admit in the order of arrival and never over a preempted request, give  *)
(* first tokens to all new requests together, one token to all that run,   *)
(* and keep no finished request among the preempted.                       *)
THEOREM ServingImplementsFcfs ==
  Spec /\ []Undisturbed => ImplementsFcfsService
<1>1. Init => Service!Init
  BY ServiceInit
<1>2. IInv => ServiceMapped
  BY EngineMapped
<1>3. IInv => QueueTypes
  BY Zenon DEF IInv, QueueSide
<1>4. CountsTell /\ Undisturbed => Counts
  BY Zenon DEF CountsTell, Undisturbed, Counts
<1>5. IInv /\ QueueTypes' /\ Counts /\ ServiceMapped /\ ServiceMapped' /\ [Next]_vars
      => [Service!Next]_(Service!vars)
  BY ServiceStep
<1> QED BY <1>1, <1>2, <1>3, <1>4, <1>5, SpecIInv, ServingCountsTell, PTL
         DEF Spec, ImplementsFcfsService, Service!Spec

-----------------------------------------------------------------------------
(* Without quant_serve no layer is replaced or restored.                   *)

LEMMA LayersStay ==
  ASSUME ~QuantServe, LayerSide, [Next]_vars
  PROVE  /\ next_unquantized_layer' = next_unquantized_layer
         /\ upset' = "batch" => upset = "batch"
<1>1. ReplacedToDecode = 0 /\ ~AdmitsByReplacing /\ \A w : Restorable(w) = 0
  BY Zenon DEF ReplacedToDecode, AdmitsByReplacing, Restorable
<1>2. next_unquantized_layer \in Int
  BY DEF LayerSide, LayersTypeOK, Layers
<1>3. ReplaceLayers(0) \/ RestoreLayers(0) =>
        next_unquantized_layer' = next_unquantized_layer /\ upset' = upset
  BY <1>2 DEF ReplaceLayers, RestoreLayers, Org2Quant, Quant2Org
<1>4. CASE SchedulePrefill \/ ScheduleReplacing \/ SchedulePreempting \/ ScheduleDecode
  <2>1. ReplaceLayers(0) \/ RestoreLayers(0)
    BY <1>1, <1>4, Zenon DEF SchedulePrefill, ScheduleReplacing, SchedulePreempting, ScheduleDecode
  <2> QED BY <1>3, <2>1
<1>5. CASE AddRequest \/ TokenizationLoop
  <2>1. MainLoopUnchanged
    BY <1>5, Zenon DEF AddRequest, TokenizationLoop, TakeTokenized, TakeUntokenized, Tokenized
  <2> QED BY <2>1 DEF MainLoopUnchanged, planVars, layerVars
<1>6. CASE ScheduleExits \/ FinishBatch \/ UNCHANGED vars
  BY <1>6 DEF ScheduleExits, FinishBatch, vars, planVars, layerVars
<1>7. CASE SwapOut \/ SwapIn \/ Forward \/ ForwardNotAllocated \/ ForwardRaises
  <2>1. OutsideModelUnchanged
    BY <1>7, Zenon DEF SwapOut, SwapIn, Forward, ForwardNotAllocated, ForwardRaises
  <2>2. next_unquantized_layer' = next_unquantized_layer
    BY <2>1 DEF OutsideModelUnchanged, layerVars
  <2>3. upset' = "engine" \/ upset' = upset \/ upset' = IF upset = "batch" THEN "none" ELSE upset
    BY <1>7 DEF SwapOut, SwapIn, Forward, ForwardNotAllocated, ForwardRaises, IterationRaises
  <2> QED BY <2>2, <2>3
<1> QED BY <1>4, <1>5, <1>6, <1>7, Zenon DEF Next, MainLoop

(* Without quant_serve, for all sizes, and however the loops interleave: as *)
(* long as no iteration has raised, what the scheduler has counted covers   *)
(* what the forward pass needs two awaits later, and its batch is in the    *)
(* order forward() takes for granted.                                       *)
THEOREM ServingForwardFits ==
  ASSUME ~QuantServe
  PROVE  Spec => [](Undisturbed => ForwardFits)
<1> DEFINE J == upset # "batch"
<1>1. Init => J
  BY DEF Init
<1>2. IInv /\ J /\ [Next]_vars => J'
  <2> SUFFICES ASSUME IInv, J, [Next]_vars PROVE J'
    OBVIOUS
  <2>1. LayerSide
    BY Zenon DEF IInv
  <2> QED BY <2>1, LayersStay
<1>3. IInv /\ J /\ ReplacementMakesRoom => (Undisturbed => ForwardFits)
  <2> SUFFICES ASSUME IInv, J, ReplacementMakesRoom, Undisturbed PROVE ForwardFits
    OBVIOUS
  <2>1. upset \in {"none", "batch", "engine"}
    BY Zenon DEF IInv, LayerSide
  <2>2. upset = "none"
    BY <2>1 DEF Undisturbed
  <2> QED BY <2>2, Zenon DEF ReplacementMakesRoom
<1> QED BY <1>1, <1>2, <1>3, SpecIInv, ServingMakesRoom, PTL DEF Spec


-----------------------------------------------------------------------------
(* Copying rows to another device.                                         *)

(* What is in the rows t2 of a device, once the rows ids have been moved to *)
(* it: what was in them on the other device, and the other rows as before. *)
RowsCopied(rows, ids, ft, fk, t, tk, t2, tk2) ==
  /\ \A i \in DOMAIN ids : \A m \in DOMAIN t2[ids[i]] :
       m \in DOMAIN ft[ids[i]] /\ tk2[t2[ids[i]][m]] = fk[ft[ids[i]][m]]
  /\ \A s \in rows \ Elements(ids) : t2[s] = t[s] /\ \A m \in DOMAIN t[s] : tk2[t[s][m]] = tk[t[s][m]]

LEMMA CopiedRows ==
  ASSUME NEW rows, NEW A, NEW ft \in [rows -> Seq(A)], NEW fk,
         NEW size \in Nat, NEW pool, NEW free, NEW num, NEW t, DeviceTells(rows, size, pool, free, num, t),
         NEW tk, DOMAIN tk = 1 .. size,
         NEW ids \in Seq(rows), IsInjective(ids), \A i \in DOMAIN ids : t[ids[i]] = <<>>,
         NEW lens, lens = RowLengths(ft, ids),
         NEW total, total = SumFunctionOnSet(lens, DOMAIN ids), total <= num,
         NEW src, src = GatheredFrom(ft, ids), NEW dst, dst = SelectedFrom(free, total)
  PROVE  RowsCopied(rows, ids, ft, fk, t, tk, Extended(t, ids, lens, dst), Copied(src, dst, fk, tk))
<1> DEFINE t2 == Extended(t, ids, lens, dst)
           tk2 == Copied(src, dst, fk, tk)
<1>1. /\ pool \in SUBSET (1 .. size) /\ free \in SUBSET (1 .. size)
      /\ t \in [rows -> Seq(1 .. size)] /\ OnePlaceEach(rows, pool, free, num, t)
  BY DEF DeviceTells
<1>2. GatheredInOrder(ft, ids, src)
  BY GatheredPlaces, Zenon
<1>3. /\ lens \in [DOMAIN ids -> Nat] /\ total \in Nat /\ DOMAIN src = 1 .. total
      /\ \A i \in DOMAIN ids : \A m \in 1 .. lens[i] :
           /\ SliceStart(lens, i) + m \in 1 .. total
           /\ src[SliceStart(lens, i) + m] = ft[ids[i]][m]
  BY <1>2 DEF GatheredInOrder
<1>4. RowsAllocated(rows, size, pool, free, num, t, ids, lens, total, dst)
  BY <1>1, <1>3, Allocation, Zenon
<1>5. /\ dst \in [1 .. total -> free] /\ t2 \in [rows -> Seq(1 .. size)]
      /\ RowsExtended(rows, t, ids, lens, dst, total, t2)
  BY <1>4, Zenon DEF RowsAllocated
<1>6. \A k, l \in 1 .. total : dst[k] = dst[l] => k = l
  <2>1. IsFiniteSet(free) /\ num = Cardinality(free)
    BY <1>1, CounterInRange DEF OnePlaceEach
  <2>2. free \in SUBSET Int
    BY <1>1
  <2>3. TakenFrom(free, total, dst)
    BY <1>3, <2>1, <2>2, SelectedApart, Zenon
  <2> QED BY <2>3, Zenon DEF TakenFrom
<1>7. ASSUME NEW k \in 1 .. total
      PROVE  tk2[dst[k]] = fk[src[k]]
  <2> DEFINE j == CHOOSE i \in DOMAIN dst : dst[i] = dst[k]
  <2>1. DOMAIN dst = 1 .. total /\ Len(dst) = total /\ dst[k] \in DOMAIN tk
    <3>1. DOMAIN dst = 1 .. total /\ Len(dst) = total
      BY <1>3, SelectedShape, Zenon
    <3> QED BY <1>1, <1>5, <3>1
  <2>2. j \in DOMAIN dst /\ dst[j] = dst[k]
    BY <2>1, Zenon
  <2>3. Contains(dst, dst[k])
    BY <2>1 DEF Contains
  <2>4. tk2[dst[k]] = fk[src[j]]
    BY <2>1, <2>3, Zenon DEF Copied
  <2> HIDE DEF j
  <2>5. j = k
    BY <1>6, <2>1, <2>2
  <2> QED BY <2>4, <2>5
<1>8. ASSUME NEW b \in 1 .. size, b \notin free
      PROVE  tk2[b] = tk[b]
  <2>1. Len(dst) = total
    BY <1>3, SelectedShape, Zenon
  <2>2. \A k \in 1 .. total : dst[k] # b
    <3> TAKE k \in 1 .. total
    <3>1. dst[k] \in free
      BY <1>5, Zenon
    <3> QED BY <1>8, <3>1
  <2>3. ~Contains(dst, b)
    BY <2>1, <2>2, Zenon DEF Contains
  <2> QED BY <2>3, Zenon DEF Copied
<1> HIDE DEF t2, tk2
<1>9. ASSUME NEW i \in DOMAIN ids, NEW m \in DOMAIN t2[ids[i]]
      PROVE  m \in DOMAIN ft[ids[i]] /\ tk2[t2[ids[i]][m]] = fk[ft[ids[i]][m]]
  <2>1. /\ ids[i] \in rows /\ t[ids[i]] = <<>> /\ lens[i] \in Nat
        /\ lens[i] = Len(ft[ids[i]]) /\ DOMAIN ft[ids[i]] = 1 .. lens[i]
    BY <1>3 DEF RowLengths
  <2>2. Len(t2[ids[i]]) = Len(t[ids[i]]) + lens[i]
    BY <1>5, Zenon DEF RowsExtended
  <2>3. Len(t[ids[i]]) = 0
    BY <2>1
  <2>4. m \in 1 .. lens[i]
    BY <1>5, <2>1, <2>2, <2>3
  <2>5. t2[ids[i]][Len(t[ids[i]]) + m] = dst[SliceStart(lens, i) + m]
    BY <1>5, <2>4, Zenon DEF RowsExtended
  <2>6. t2[ids[i]][m] = dst[SliceStart(lens, i) + m]
    BY <2>3, <2>4, <2>5
  <2> DEFINE k == SliceStart(lens, i) + m
  <2>7. k \in 1 .. total /\ src[k] = ft[ids[i]][m]
    BY <1>3, <2>4
  <2> HIDE DEF k
  <2>8. tk2[dst[k]] = fk[src[k]]
    BY <1>7, <2>7, Zenon
  <2>9. t2[ids[i]][m] = dst[k]
    BY <2>6 DEF k
  <2> QED BY <2>1, <2>4, <2>7, <2>8, <2>9, Zenon
<1>10. ASSUME NEW s \in rows \ Elements(ids)
       PROVE  t2[s] = t[s] /\ \A m \in DOMAIN t[s] : tk2[t[s][m]] = tk[t[s][m]]
  <2>1. t2[s] = t[s]
    BY <1>5, Zenon DEF RowsExtended
  <2>2. \A m \in DOMAIN t[s] : t[s][m] \in pool \ free
    BY <1>1, Zenon DEF OnePlaceEach
  <2> QED BY <1>1, <1>8, <2>1, <2>2
<1> QED BY <1>9, <1>10, Zenon DEF RowsCopied, t2, tk2

-----------------------------------------------------------------------------
(* A request finds its own KV cache again.                                 *)

(* The memory of the device a request is on. *)
KvOf(r) == IF OnGpuNow(r) THEN gpu_kv ELSE cpu_kv

(* Each block in the row of a request stores the KV of that request. *)
KvKept == \A r \in Flying : \A i \in DOMAIN RowOf(r) : KvOf(r)[RowOf(r)[i]] = <<r, i>>

(* The blocks of all rows lie in the pool of their device. *)
LEMMA RowsPlaced ==
  ASSUME IInv
  PROVE  /\ \A r \in Flying : request_id[r] \in RequestIds
         /\ gpu_table \in [RequestIds -> Seq(1 .. MaxGpuBlocks)]
         /\ cpu_table \in [RequestIds -> Seq(1 .. NumCpuBlocks)]
         /\ \A id \in RequestIds : \A i \in DOMAIN gpu_table[id] : gpu_table[id][i] \in 1 .. gpu_num_blocks
         /\ DOMAIN gpu_kv = 1 .. MaxGpuBlocks /\ DOMAIN cpu_kv = 1 .. NumCpuBlocks
<1>1. IdsTell /\ GpuTells /\ CpuTells /\ KvSide
  BY Zenon DEF IInv, QueueSide
<1>2. \A r \in Flying : request_id[r] \in RequestIds
  BY <1>1 DEF IdsTell
<1>3. /\ gpu_table \in [RequestIds -> Seq(1 .. MaxGpuBlocks)]
      /\ OnePlaceEach(RequestIds, 1 .. gpu_num_blocks, gpu_free, gpu_num_free, gpu_table)
      /\ cpu_table \in [RequestIds -> Seq(1 .. NumCpuBlocks)]
  BY <1>1, Zenon DEF GpuTells, GpuPool, CpuTells, CpuPool, DeviceTells
<1>4. \A id \in RequestIds : \A i \in DOMAIN gpu_table[id] : gpu_table[id][i] \in (1 .. gpu_num_blocks) \ gpu_free
  BY <1>3, Zenon DEF OnePlaceEach
<1>5. DOMAIN gpu_kv = 1 .. MaxGpuBlocks /\ DOMAIN cpu_kv = 1 .. NumCpuBlocks
  BY <1>1 DEF KvSide
<1> QED BY <1>2, <1>3, <1>4, <1>5

(* A request whose row and device stay, with what the blocks of the row store. *)
SameRow(r) ==
  /\ r \in Flying /\ request_id'[r] = request_id[r] /\ (OnGpuNow(r)' <=> OnGpuNow(r))
  /\ IF OnGpuNow(r)
       THEN /\ gpu_table'[request_id[r]] = gpu_table[request_id[r]]
            /\ \A i \in DOMAIN gpu_table[request_id[r]] :
                 gpu_kv'[gpu_table[request_id[r]][i]] = gpu_kv[gpu_table[request_id[r]][i]]
       ELSE /\ cpu_table'[request_id[r]] = cpu_table[request_id[r]]
            /\ \A i \in DOMAIN cpu_table[request_id[r]] :
                 cpu_kv'[cpu_table[request_id[r]][i]] = cpu_kv[cpu_table[request_id[r]][i]]

LEMMA SameRowKept ==
  ASSUME KvKept, NEW r, SameRow(r), NEW i \in DOMAIN RowOf(r)'
  PROVE  KvOf(r)'[RowOf(r)'[i]] = <<r, i>>
<1>1. CASE OnGpuNow(r)
  <2>1. /\ RowOf(r) = gpu_table[request_id[r]] /\ RowOf(r)' = gpu_table'[request_id[r]]
        /\ KvOf(r) = gpu_kv /\ KvOf(r)' = gpu_kv'
    BY <1>1 DEF SameRow, RowOf, KvOf
  <2>2. /\ gpu_table'[request_id[r]] = gpu_table[request_id[r]] /\ r \in Flying
        /\ \A j \in DOMAIN RowOf(r) : gpu_kv'[RowOf(r)[j]] = gpu_kv[RowOf(r)[j]]
    BY <1>1, <2>1, Zenon DEF SameRow
  <2>3. \A j \in DOMAIN RowOf(r) : gpu_kv[RowOf(r)[j]] = <<r, j>>
    BY <2>1, <2>2, Zenon DEF KvKept
  <2>4. RowOf(r)' = RowOf(r)
    BY <2>1, <2>2, Zenon
  <2> QED BY <2>1, <2>2, <2>3, <2>4, Zenon
<1>2. CASE ~OnGpuNow(r)
  <2>1. /\ RowOf(r) = cpu_table[request_id[r]] /\ RowOf(r)' = cpu_table'[request_id[r]]
        /\ KvOf(r) = cpu_kv /\ KvOf(r)' = cpu_kv'
    BY <1>2 DEF SameRow, RowOf, KvOf
  <2>2. /\ cpu_table'[request_id[r]] = cpu_table[request_id[r]] /\ r \in Flying
        /\ \A j \in DOMAIN RowOf(r) : cpu_kv'[RowOf(r)[j]] = cpu_kv[RowOf(r)[j]]
    BY <1>2, <2>1, Zenon DEF SameRow
  <2>3. \A j \in DOMAIN RowOf(r) : cpu_kv[RowOf(r)[j]] = <<r, j>>
    BY <2>1, <2>2, Zenon DEF KvKept
  <2>4. RowOf(r)' = RowOf(r)
    BY <2>1, <2>2, Zenon
  <2> QED BY <2>1, <2>2, <2>3, <2>4, Zenon
<1> QED BY <1>1, <1>2

(* Morphing touches no block that is in use. *)
LEMMA PoolKv ==
  ASSUME IInv, NEW n, ReplaceLayers(n) \/ RestoreLayers(n)
  PROVE  \A id \in RequestIds : \A i \in DOMAIN gpu_table[id] : gpu_kv'[gpu_table[id][i]] = gpu_kv[gpu_table[id][i]]
<1>1. \A id \in RequestIds : \A i \in DOMAIN gpu_table[id] :
        gpu_table[id][i] \in 1 .. gpu_num_blocks /\ gpu_table[id][i] \in DOMAIN gpu_kv
  <2>1. /\ gpu_table \in [RequestIds -> Seq(1 .. MaxGpuBlocks)] /\ DOMAIN gpu_kv = 1 .. MaxGpuBlocks
        /\ \A id \in RequestIds : \A i \in DOMAIN gpu_table[id] : gpu_table[id][i] \in 1 .. gpu_num_blocks
    BY RowsPlaced, Zenon
  <2>2. \A id \in RequestIds : gpu_table[id] \in Seq(1 .. MaxGpuBlocks)
    BY <2>1
  <2>3. ASSUME NEW id \in RequestIds, NEW i \in DOMAIN gpu_table[id]
        PROVE  gpu_table[id][i] \in 1 .. MaxGpuBlocks
    <3>1. ASSUME NEW X, NEW q \in Seq(X), NEW j \in DOMAIN q PROVE q[j] \in X
      OBVIOUS
    <3> QED BY <2>2, <3>1, Zenon
  <2> QED BY <2>1, <2>3, Zenon
<1>2. \A b \in DOMAIN gpu_kv : b \in 1 .. gpu_num_blocks => gpu_kv'[b] = gpu_kv[b]
  <2>1. gpu_num_blocks \in Nat
    BY LayerFacts, Zenon DEF IInv
  <2> QED BY <2>1 DEF ReplaceLayers, RestoreLayers
<1> QED BY <1>1, <1>2

(* Preempted and returning requests have not moved yet. *)
LEMMA MovedKv ==
  ASSUME IInv, KvKept, stage = "schedule", OutsideSchedulerUnchanged, Moves,
         NEW n, ReplaceLayers(n) \/ RestoreLayers(n)
  PROVE  KvKept'
<1>1. gpu_table' = gpu_table /\ cpu_table' = cpu_table /\ cpu_kv' = cpu_kv
  BY DEF OutsideSchedulerUnchanged, cpuVars
<1>2. \A r \in Flying : (OnGpuNow(r) <=> r \in Running) /\ request_id[r] \in RequestIds
  BY RowsPlaced DEF OnGpuNow
<1>3. \A id \in RequestIds : \A i \in DOMAIN gpu_table[id] : gpu_kv'[gpu_table[id][i]] = gpu_kv[gpu_table[id][i]]
  BY PoolKv, Zenon
<1>4. \A r \in Flying' : SameRow(r)
  BY <1>1, <1>2, <1>3, Zenon DEF Moves, SameRow
<1> QED BY <1>4, SameRowKept DEF KvKept

(* New requests have no blocks. *)
LEMMA JoinedKv ==
  ASSUME IInv, KvKept, stage = "schedule", OutsideSchedulerUnchanged, NEW batch, Joins(batch),
         stage' \in {"forward", "schedule"}, NEW n, ReplaceLayers(n) \/ RestoreLayers(n)
  PROVE  KvKept'
<1>1. gpu_table' = gpu_table /\ cpu_table' = cpu_table /\ cpu_kv' = cpu_kv
  BY DEF OutsideSchedulerUnchanged, cpuVars
<1>2. \A r \in Flying : (OnGpuNow(r) <=> r \in Running) /\ request_id[r] \in RequestIds
  BY RowsPlaced DEF OnGpuNow
<1>3. \A id \in RequestIds : \A i \in DOMAIN gpu_table[id] : gpu_kv'[gpu_table[id][i]] = gpu_kv[gpu_table[id][i]]
  BY PoolKv, Zenon
<1>4. \A r \in Flying' : OnGpuNow(r)' /\ (r \in Running \/ r \in Elements(batch))
  BY DEF Joins, Flying, OnGpuNow
<1>5. ASSUME NEW r \in Flying', r \in Running
      PROVE  SameRow(r)
  <2>1. r \in Flying /\ request_id'[r] = request_id[r]
    BY <1>5 DEF Joins, Flying
  <2> QED BY <1>1, <1>2, <1>3, <1>4, <1>5, <2>1, Zenon DEF SameRow
<1>6. ASSUME NEW r \in Flying', r \in Elements(batch)
      PROVE  RowOf(r)' = <<>>
  <2>1. request_id'[r] \in Elements(available_ids)
    BY <1>6 DEF Joins
  <2>2. \A id \in Elements(available_ids) : gpu_table[id] = <<>>
    BY DEF IInv, DevicesTell
  <2>3. RowOf(r)' = gpu_table'[request_id'[r]]
    BY <1>4 DEF RowOf
  <2> QED BY <1>1, <2>1, <2>2, <2>3
<1> SUFFICES ASSUME NEW r \in Flying', NEW i \in DOMAIN RowOf(r)'
             PROVE  KvOf(r)'[RowOf(r)'[i]] = <<r, i>>
  BY DEF KvKept
<1>7. CASE r \in Running
  BY <1>5, <1>7, SameRowKept
<1>8. CASE r \in Elements(batch)
  <2>1. DOMAIN RowOf(r)' = {}
    BY <1>6, <1>8
  <2> QED BY <2>1
<1> QED BY <1>4, <1>7, <1>8

(* A preempted request finds on the CPU what it had on the GPU. *)
LEMMA SwapOutKv ==
  ASSUME IInv, KvKept, SwapOut, upset' # "engine"
  PROVE  KvKept'
<1> DEFINE q == cur_swap_out
           ids == IdsOf(q)
           src == GPU!Gathered(ids)
           dst == CPU!Selected(Len(src))
           targets == GPU!Lengths(ids)
           lens == RowLengths(gpu_table, ids)
           total == SumFunctionOnSet(lens, DOMAIN ids)
<1>1. /\ QueueTypes /\ IdsTell /\ BatchTells /\ DevicesTell /\ GpuTells /\ CpuTells /\ QueueSide /\ FlightTells
  BY Zenon DEF IInv, QueueSide
<1>2. /\ stage = "swap_out" /\ stage' = "forward" /\ OutsideModelUnchanged
      /\ CPU!EnoughFree(ids, targets) /\ CPU!AllocateForSeqs(ids, targets)
      /\ gpu_kv' = gpu_kv /\ cpu_kv' = Copied(src, dst, gpu_kv, cpu_kv)
  BY DEF SwapOut, IterationRaises
<1>3. /\ ids \in Seq(RequestIds) /\ IsInjective(ids)
      /\ DOMAIN ids = DOMAIN q /\ \A i \in DOMAIN q : ids[i] = request_id[q[i]]
      /\ \A r \in Flying : request_id[r] \in Elements(ids) <=> r \in Elements(q)
      /\ Elements(q) \subseteq Flying
  BY <1>1, <1>2, BatchFlies, FlyingIds
<1>4. \A i \in DOMAIN ids : cpu_table[ids[i]] = <<>>
  <2> TAKE i \in DOMAIN ids
  <2>1. ids[i] = request_id[q[i]] /\ q[i] \in Elements(q)
    BY <1>3, ElementsOf
  <2>2. OnGpuNow(q[i]) /\ q[i] \in Flying
    BY <1>2, <1>3, <2>1 DEF OnGpuNow
  <2> QED BY <1>1, <2>1, <2>2, Zenon DEF DevicesTell
<1> HIDE DEF ids
<1>5. /\ gpu_table \in [RequestIds -> Seq(1 .. MaxGpuBlocks)] /\ cpu_table \in [RequestIds -> Seq(1 .. NumCpuBlocks)]
      /\ DOMAIN cpu_kv = 1 .. NumCpuBlocks /\ DOMAIN cpu_table = RequestIds
      /\ DeviceTells(RequestIds, NumCpuBlocks, 1 .. NumCpuBlocks, cpu_free, cpu_num_free, cpu_table)
  <2>1. /\ gpu_table \in [RequestIds -> Seq(1 .. MaxGpuBlocks)] /\ cpu_table \in [RequestIds -> Seq(1 .. NumCpuBlocks)]
        /\ DOMAIN cpu_kv = 1 .. NumCpuBlocks
    BY RowsPlaced, Zenon
  <2>2. DOMAIN cpu_table = RequestIds
    BY <2>1
  <2> QED BY <1>1, <2>1, <2>2, Zenon DEF CpuTells, CpuPool
<1>6. targets = lens /\ src = GatheredFrom(gpu_table, ids)
  BY GpuGathered, Zenon
<1>7. /\ DOMAIN lens = DOMAIN ids /\ total \in Nat /\ Len(src) = total
      /\ \A i \in DOMAIN ids : lens[i] \in Nat
  <2>1. GatheredInOrder(gpu_table, ids, src)
    BY <1>3, <1>5, <1>6, GatheredPlaces, Zenon
  <2>2. lens \in [DOMAIN ids -> Nat] /\ total \in Nat /\ DOMAIN src = 1 .. total
    BY <2>1, Zenon DEF GatheredInOrder
  <2>3. src \in Seq(1 .. MaxGpuBlocks)
    <3>1. MaxGpuBlocks \in Nat
      BY PoolSizes, Constants
    <3>2. AfterRelease(RequestIds, MaxGpuBlocks, 1 .. gpu_num_blocks, gpu_free, gpu_num_free, gpu_table, ids)
      BY <1>1, <1>3, <3>1, ReleaseOnDevice, Zenon DEF GpuTells, GpuPool
    <3> QED BY <1>6, <3>2, Zenon DEF AfterRelease
  <2> HIDE DEF src, lens, total
  <2>4. DOMAIN src = 1 .. Len(src) /\ Len(src) \in Nat
    BY <2>3
  <2>5. Len(src) = total
    BY <2>2, <2>4
  <2> QED BY <2>2, <2>5
<1>8. lens = CPU!Missing(ids, targets)
  <2>1. CPU!Missing(ids, targets) = [i \in DOMAIN ids |-> targets[i] - Len(cpu_table[ids[i]])]
    BY DEF CPU!Missing
  <2> HIDE DEF targets
  <2>2. \A i \in DOMAIN ids : targets[i] - Len(cpu_table[ids[i]]) = lens[i]
    <3> TAKE i \in DOMAIN ids
    <3>1. Len(cpu_table[ids[i]]) = 0
      BY <1>4
    <3> HIDE DEF lens
    <3> QED BY <1>6, <1>7, <3>1
  <2>3. lens = [i \in DOMAIN ids |-> lens[i]]
    BY DEF RowLengths
  <2> HIDE DEF lens
  <2> QED BY <2>1, <2>2, <2>3
<1> HIDE DEF lens, targets
<1>9. /\ dst = SelectedFrom(cpu_free, total) /\ total <= cpu_num_free
      /\ cpu_table' = Extended(cpu_table, ids, lens, SelectedFrom(cpu_free, total))
  <2>1. cpu_table' = Extended(cpu_table, ids, lens, SelectedFrom(cpu_free, total))
    BY <1>2, <1>5, <1>7, <1>8, CpuExtended, Zenon
  <2>2. dst = SelectedFrom(cpu_free, total)
    BY <1>7, CpuSelected, Zenon
  <2>3. CPU!SumFunction(CPU!Missing(ids, targets)) = total
    BY <1>7, <1>8, CpuSum, Zenon
  <2> QED BY <1>2, <2>1, <2>2, <2>3, Zenon DEF CPU!EnoughFree
<1> HIDE DEF src, dst, total
<1>10. RowsCopied(RequestIds, ids, gpu_table, gpu_kv, cpu_table, cpu_kv, cpu_table', cpu_kv')
  <2>1. NumCpuBlocks \in Nat
    BY Constants, Zenon
  <2>2. RowsCopied(RequestIds, ids, gpu_table, gpu_kv, cpu_table, cpu_kv,
                   Extended(cpu_table, ids, lens, dst), Copied(src, dst, gpu_kv, cpu_kv))
    BY <1>3, <1>4, <1>5, <1>6, <1>9, <2>1, CopiedRows, SMTT(30) DEF lens, total
  <2> QED BY <1>2, <1>9, <2>2, Zenon
<1>11. /\ \A r : request_id'[r] = request_id[r] /\ (OnGpuNow(r)' <=> r \in Running)
       /\ Flying' = Flying
  <2>1. request_id' = request_id /\ Flying' = Flying /\ Running' = Running
    BY <1>2, SameQueues
  <2> QED BY <1>2, <2>1 DEF OnGpuNow
<1>12. ASSUME NEW r \in Flying, r \in Elements(q), NEW i \in DOMAIN RowOf(r)'
       PROVE  KvOf(r)'[RowOf(r)'[i]] = <<r, i>>
  <2>1. ~(r \in Running) /\ OnGpuNow(r)
    BY <1>1, <1>2, <1>12 DEF BatchTells, FlightTells, OnGpuNow
  <2>2. RowOf(r)' = cpu_table'[request_id[r]] /\ KvOf(r)' = cpu_kv'
    BY <1>11, <2>1 DEF RowOf, KvOf
  <2>3. RowOf(r) = gpu_table[request_id[r]] /\ KvOf(r) = gpu_kv
    BY <2>1 DEF RowOf, KvOf
  <2>4. PICK j \in DOMAIN ids : ids[j] = request_id[r]
    BY <1>3, <1>12, ElementsOf
  <2>5. i \in DOMAIN gpu_table[ids[j]] /\ cpu_kv'[cpu_table'[ids[j]][i]] = gpu_kv[gpu_table[ids[j]][i]]
    <3>1. i \in DOMAIN cpu_table'[ids[j]]
      BY <1>12, <2>2, <2>4
    <3> QED BY <1>10, <3>1, Zenon DEF RowsCopied
  <2>6. gpu_kv[gpu_table[ids[j]][i]] = <<r, i>>
    BY <2>3, <2>4, <2>5, Zenon DEF KvKept
  <2> QED BY <2>2, <2>4, <2>5, <2>6, Zenon
<1>13. ASSUME NEW r \in Flying, r \notin Elements(q)
       PROVE  SameRow(r)
  <2>1. request_id[r] \in RequestIds /\ request_id[r] \notin Elements(ids)
    BY <1>1, <1>3, <1>13 DEF IdsTell
  <2>2. OnGpuNow(r) <=> r \in Running
    BY <1>2, <1>13 DEF OnGpuNow
  <2>3. gpu_table'[request_id[r]] = gpu_table[request_id[r]]
    BY <1>13, SwapOutKeeps, Zenon DEF Carried
  <2>4. /\ cpu_table'[request_id[r]] = cpu_table[request_id[r]]
        /\ \A m \in DOMAIN cpu_table[request_id[r]] :
             cpu_kv'[cpu_table[request_id[r]][m]] = cpu_kv[cpu_table[request_id[r]][m]]
    BY <1>10, <2>1, Zenon DEF RowsCopied
  <2> QED BY <1>2, <1>11, <2>2, <2>3, <2>4, Zenon DEF SameRow
<1> SUFFICES ASSUME NEW r \in Flying', NEW i \in DOMAIN RowOf(r)'
             PROVE  KvOf(r)'[RowOf(r)'[i]] = <<r, i>>
  BY DEF KvKept
<1>14. CASE r \in Elements(q)
  BY <1>11, <1>12, <1>14
<1>15. CASE r \notin Elements(q)
  <2>1. SameRow(r)
    BY <1>11, <1>13, <1>15
  <2> QED BY <2>1, SameRowKept
<1> QED BY <1>14, <1>15

(* The copy back is the one of swap_blocks, which takes both numbers of a block
   as they are: no block beyond the original pool has a part in it.          *)
PlainSwapIns ==
  LET src == CPU!Gathered(IdsOf(cur_swap_in)) IN
  stage = "swap_in" => ~Combined(src, GPU!Selected(Len(src))) \/ k_cache_new = <<>>

(* A request that returns finds on the GPU what it had on the CPU. *)
LEMMA SwapInKv ==
  ASSUME IInv, KvKept, PlainSwapIns, SwapIn, upset' # "engine"
  PROVE  KvKept'
<1> DEFINE q == cur_swap_in
           ids == IdsOf(q)
           src == CPU!Gathered(ids)
           dst == GPU!Selected(Len(src))
           targets == CPU!Lengths(ids)
           lens == RowLengths(cpu_table, ids)
           total == SumFunctionOnSet(lens, DOMAIN ids)
<1>1. /\ QueueTypes /\ IdsTell /\ BatchTells /\ DevicesTell /\ CpuTells /\ GpuTells /\ QueueSide /\ FlightTells
  BY Zenon DEF IInv, QueueSide
<1>2. /\ stage = "swap_in" /\ stage' = "forward" /\ OutsideModelUnchanged
      /\ GPU!EnoughFree(ids, targets) /\ GPU!AllocateForSeqs(ids, targets)
      /\ cpu_kv' = cpu_kv /\ gpu_kv' = Copied(src, dst, cpu_kv, gpu_kv)
  <2> HIDE DEF src, dst, targets, ids
  <2>1. /\ stage = "swap_in" /\ stage' = "forward" /\ OutsideModelUnchanged
        /\ GPU!EnoughFree(ids, targets) /\ GPU!AllocateForSeqs(ids, targets)
        /\ cpu_kv' = cpu_kv /\ ~CopyRaises(src, dst) /\ gpu_kv' = CopiedIn(src, dst)
    BY DEF SwapIn, IterationRaises, src, dst, targets, ids
  <2>2. ~Combined(src, dst) \/ k_cache_new = <<>>
    BY <2>1, Zenon DEF PlainSwapIns, src, dst, ids
  <2>3. ~Combined(src, dst)
    BY <2>1, <2>2, Zenon DEF CopyRaises
  <2> QED BY <2>1, <2>3, Zenon DEF CopiedIn
<1>3. /\ ids \in Seq(RequestIds) /\ IsInjective(ids)
      /\ DOMAIN ids = DOMAIN q /\ \A i \in DOMAIN q : ids[i] = request_id[q[i]]
      /\ \A r \in Flying : request_id[r] \in Elements(ids) <=> r \in Elements(q)
      /\ Elements(q) \subseteq Flying
  BY <1>1, <1>2, BatchFlies, FlyingIds
<1>4. \A i \in DOMAIN ids : gpu_table[ids[i]] = <<>>
  <2> TAKE i \in DOMAIN ids
  <2>1. ids[i] = request_id[q[i]] /\ q[i] \in Elements(q)
    BY <1>3, ElementsOf
  <2>2. ~OnGpuNow(q[i]) /\ q[i] \in Flying
    BY <1>2, <1>3, <2>1 DEF OnGpuNow
  <2> QED BY <1>1, <2>1, <2>2, Zenon DEF DevicesTell
<1> HIDE DEF ids
<1>5. /\ cpu_table \in [RequestIds -> Seq(1 .. NumCpuBlocks)] /\ gpu_table \in [RequestIds -> Seq(1 .. MaxGpuBlocks)]
      /\ DOMAIN gpu_kv = 1 .. MaxGpuBlocks /\ DOMAIN gpu_table = RequestIds
      /\ DeviceTells(RequestIds, MaxGpuBlocks, 1 .. gpu_num_blocks, gpu_free, gpu_num_free, gpu_table)
  <2>1. /\ cpu_table \in [RequestIds -> Seq(1 .. NumCpuBlocks)] /\ gpu_table \in [RequestIds -> Seq(1 .. MaxGpuBlocks)]
        /\ DOMAIN gpu_kv = 1 .. MaxGpuBlocks
    BY RowsPlaced, Zenon
  <2>2. DOMAIN gpu_table = RequestIds
    BY <2>1
  <2> QED BY <1>1, <2>1, <2>2, Zenon DEF GpuTells, GpuPool
<1>6. targets = lens /\ src = GatheredFrom(cpu_table, ids)
  BY CpuGathered, Zenon
<1>7. /\ DOMAIN lens = DOMAIN ids /\ total \in Nat /\ Len(src) = total
      /\ \A i \in DOMAIN ids : lens[i] \in Nat
  <2>1. GatheredInOrder(cpu_table, ids, src)
    BY <1>3, <1>5, <1>6, GatheredPlaces, Zenon
  <2>2. lens \in [DOMAIN ids -> Nat] /\ total \in Nat /\ DOMAIN src = 1 .. total
    BY <2>1, Zenon DEF GatheredInOrder
  <2>3. src \in Seq(1 .. NumCpuBlocks)
    <3>1. NumCpuBlocks \in Nat
      BY Constants, Zenon
    <3>2. AfterRelease(RequestIds, NumCpuBlocks, 1 .. NumCpuBlocks, cpu_free, cpu_num_free, cpu_table, ids)
      BY <1>1, <1>3, <3>1, ReleaseOnDevice, Zenon DEF CpuTells, CpuPool
    <3> QED BY <1>6, <3>2, Zenon DEF AfterRelease
  <2> HIDE DEF src, lens, total
  <2>4. DOMAIN src = 1 .. Len(src) /\ Len(src) \in Nat
    BY <2>3
  <2>5. Len(src) = total
    BY <2>2, <2>4
  <2> QED BY <2>2, <2>5
<1>8. lens = GPU!Missing(ids, targets)
  <2>1. GPU!Missing(ids, targets) = [i \in DOMAIN ids |-> targets[i] - Len(gpu_table[ids[i]])]
    BY DEF GPU!Missing
  <2> HIDE DEF targets
  <2>2. \A i \in DOMAIN ids : targets[i] - Len(gpu_table[ids[i]]) = lens[i]
    <3> TAKE i \in DOMAIN ids
    <3>1. Len(gpu_table[ids[i]]) = 0
      BY <1>4
    <3> HIDE DEF lens
    <3> QED BY <1>6, <1>7, <3>1
  <2>3. lens = [i \in DOMAIN ids |-> lens[i]]
    BY DEF RowLengths
  <2> HIDE DEF lens
  <2> QED BY <2>1, <2>2, <2>3
<1> HIDE DEF lens, targets
<1>9. /\ dst = SelectedFrom(gpu_free, total) /\ total <= gpu_num_free
      /\ gpu_table' = Extended(gpu_table, ids, lens, SelectedFrom(gpu_free, total))
  <2>1. gpu_table' = Extended(gpu_table, ids, lens, SelectedFrom(gpu_free, total))
    BY <1>2, <1>5, <1>7, <1>8, GpuExtended, Zenon
  <2>2. dst = SelectedFrom(gpu_free, total)
    BY <1>7, GpuSelected, Zenon
  <2>3. GPU!SumFunction(GPU!Missing(ids, targets)) = total
    BY <1>7, <1>8, GpuSum, Zenon
  <2> QED BY <1>2, <2>1, <2>2, <2>3, Zenon DEF GPU!EnoughFree
<1> HIDE DEF src, dst, total
<1>10. RowsCopied(RequestIds, ids, cpu_table, cpu_kv, gpu_table, gpu_kv, gpu_table', gpu_kv')
  <2>1. MaxGpuBlocks \in Nat
    BY PoolSizes, Constants
  <2>2. RowsCopied(RequestIds, ids, cpu_table, cpu_kv, gpu_table, gpu_kv,
                   Extended(gpu_table, ids, lens, dst), Copied(src, dst, cpu_kv, gpu_kv))
    BY <1>3, <1>4, <1>5, <1>6, <1>9, <2>1, CopiedRows, SMTT(30) DEF lens, total
  <2> QED BY <1>2, <1>9, <2>2, Zenon
<1>11. /\ \A r : request_id'[r] = request_id[r] /\ (OnGpuNow(r)' <=> r \in Running)
       /\ Flying' = Flying
  <2>1. request_id' = request_id /\ Flying' = Flying /\ Running' = Running
    BY <1>2, SameQueues
  <2> QED BY <1>2, <2>1 DEF OnGpuNow
<1>12. ASSUME NEW r \in Flying, r \in Elements(q), NEW i \in DOMAIN RowOf(r)'
       PROVE  KvOf(r)'[RowOf(r)'[i]] = <<r, i>>
  <2>1. r \in Running /\ ~OnGpuNow(r)
    BY <1>1, <1>2, <1>12 DEF BatchTells, OnGpuNow
  <2>2. RowOf(r)' = gpu_table'[request_id[r]] /\ KvOf(r)' = gpu_kv'
    BY <1>11, <2>1 DEF RowOf, KvOf
  <2>3. RowOf(r) = cpu_table[request_id[r]] /\ KvOf(r) = cpu_kv
    BY <2>1 DEF RowOf, KvOf
  <2>4. PICK j \in DOMAIN ids : ids[j] = request_id[r]
    BY <1>3, <1>12, ElementsOf
  <2>5. i \in DOMAIN cpu_table[ids[j]] /\ gpu_kv'[gpu_table'[ids[j]][i]] = cpu_kv[cpu_table[ids[j]][i]]
    <3>1. i \in DOMAIN gpu_table'[ids[j]]
      BY <1>12, <2>2, <2>4
    <3> QED BY <1>10, <3>1, Zenon DEF RowsCopied
  <2>6. cpu_kv[cpu_table[ids[j]][i]] = <<r, i>>
    BY <2>3, <2>4, <2>5, Zenon DEF KvKept
  <2> QED BY <2>2, <2>4, <2>5, <2>6, Zenon
<1>13. ASSUME NEW r \in Flying, r \notin Elements(q)
       PROVE  SameRow(r)
  <2>1. request_id[r] \in RequestIds /\ request_id[r] \notin Elements(ids)
    BY <1>1, <1>3, <1>13 DEF IdsTell
  <2>2. OnGpuNow(r) <=> r \in Running
    BY <1>2, <1>13 DEF OnGpuNow
  <2>3. cpu_table'[request_id[r]] = cpu_table[request_id[r]]
    BY <1>13, SwapInKeeps, Zenon DEF Carried
  <2>4. /\ gpu_table'[request_id[r]] = gpu_table[request_id[r]]
        /\ \A m \in DOMAIN gpu_table[request_id[r]] :
             gpu_kv'[gpu_table[request_id[r]][m]] = gpu_kv[gpu_table[request_id[r]][m]]
    BY <1>10, <2>1, Zenon DEF RowsCopied
  <2> QED BY <1>2, <1>11, <2>2, <2>3, <2>4, Zenon DEF SameRow
<1> SUFFICES ASSUME NEW r \in Flying', NEW i \in DOMAIN RowOf(r)'
             PROVE  KvOf(r)'[RowOf(r)'[i]] = <<r, i>>
  BY DEF KvKept
<1>14. CASE r \in Elements(q)
  BY <1>11, <1>12, <1>14
<1>15. CASE r \notin Elements(q)
  <2>1. SameRow(r)
    BY <1>11, <1>13, <1>15
  <2> QED BY <2>1, SameRowKept
<1> QED BY <1>14, <1>15

-----------------------------------------------------------------------------
(* What a forward pass writes, and where.                                  *)

(* A token more opens a block when those before it fill theirs. *)
LEMMA CeilDivStep ==
  ASSUME NEW a \in Nat, NEW b \in Nat \ {0}
  PROVE  \/ CeilDiv(a + 1, b) = CeilDiv(a, b)
         \/ a % b = 0 /\ CeilDiv(a + 1, b) = CeilDiv(a, b) + 1
<1> DEFINE x == a + b - 1
           y == a + 1 + b - 1
<1>1. x \in Nat /\ y = x + 1 /\ y = a + b
  OBVIOUS
<1> HIDE DEF x, y
<1> DEFINE p == x \div b
           q == y \div b
           c == a \div b
           m == a % b
<1>2. /\ p \in Nat /\ b * p <= x /\ x < b * p + b
      /\ q \in Nat /\ b * q <= y /\ y < b * q + b
      /\ c \in Nat /\ m \in Nat /\ a = b * c + m /\ m < b
  BY <1>1
<1> HIDE DEF p, q, c, m
<1>3. q = c + 1
  <2>1. b * (c + 1) <= y /\ y < b * (c + 1) + b
    BY <1>1, <1>2
  <2>2. ~(q >= c + 2)
    <3> SUFFICES ASSUME q >= c + 2 PROVE FALSE
      OBVIOUS
    <3>1. b * q >= b * (c + 2)
      BY <1>2
    <3>2. b * (c + 2) = b * (c + 1) + b
      BY <1>2
    <3> QED BY <1>1, <1>2, <2>1, <3>1, <3>2
  <2>3. ~(q <= c)
    <3> SUFFICES ASSUME q <= c PROVE FALSE
      OBVIOUS
    <3>1. b * q <= b * c
      BY <1>2
    <3>2. b * (c + 1) = b * c + b
      BY <1>2
    <3> QED BY <1>1, <1>2, <2>1, <3>1, <3>2
  <2> QED BY <1>2, <2>2, <2>3
<1>4. CASE m = 0
  <2>1. ~(p >= c + 1)
    <3> SUFFICES ASSUME p >= c + 1 PROVE FALSE
      OBVIOUS
    <3>1. b * p >= b * (c + 1) /\ b * (c + 1) = b * c + b
      BY <1>2
    <3> QED BY <1>1, <1>2, <1>4, <3>1
  <2>2. ~(p <= c - 1)
    <3> SUFFICES ASSUME p <= c - 1 PROVE FALSE
      OBVIOUS
    <3>1. b * p <= b * (c - 1) /\ b * (c - 1) = b * c - b
      BY <1>2
    <3> QED BY <1>1, <1>2, <1>4, <3>1
  <2>3. p = c
    BY <1>2, <2>1, <2>2
  <2> QED BY <1>2, <1>3, <1>4, <2>3 DEF CeilDiv, x, y, p, q, m
<1>5. CASE m # 0
  <2>1. ~(p >= c + 2)
    <3> SUFFICES ASSUME p >= c + 2 PROVE FALSE
      OBVIOUS
    <3>1. b * p >= b * (c + 2) /\ b * (c + 2) = b * c + b + b
      BY <1>2
    <3> QED BY <1>1, <1>2, <3>1
  <2>2. ~(p <= c)
    <3> SUFFICES ASSUME p <= c PROVE FALSE
      OBVIOUS
    <3>1. b * p <= b * c
      BY <1>2
    <3> QED BY <1>1, <1>2, <1>5, <3>1
  <2>3. p = c + 1
    BY <1>2, <2>1, <2>2
  <2> QED BY <1>2, <1>3, <2>3 DEF CeilDiv, x, y, p, q
<1> QED BY <1>4, <1>5

(* What a pass writes in a block. *)
WritesTo(k, m, b) ==
  LET row == gpu_table'[request_id[cur_batch[k]]] IN
  m <= Len(row) /\ row[m] = b /\ m <= Targets[k] /\ Written(k, m)

LEMMA KvAfterPass ==
  ASSUME WriteKv, Aligned, NEW b \in 1 .. MaxGpuBlocks
  PROVE  /\ (\A k \in DOMAIN cur_batch : \A m \in 1 .. MaxGpuBlocks : ~WritesTo(k, m, b)) => gpu_kv'[b] = gpu_kv[b]
         /\ \A k \in DOMAIN cur_batch : \A m \in 1 .. MaxGpuBlocks :
              /\ WritesTo(k, m, b)
              /\ \A l \in DOMAIN cur_batch : \A n \in 1 .. MaxGpuBlocks : WritesTo(l, n, b) => l = k /\ n = m
              => gpu_kv'[b] = <<cur_batch[k], m>>
<1> DEFINE slots(x) == {s \in (DOMAIN cur_batch) \X (1 .. MaxGpuBlocks) :
                       LET row == gpu_table'[request_id[cur_batch[s[1]]]] IN
                       /\ s[2] <= Len(row) /\ row[s[2]] = x
                       /\ s[2] <= Targets[s[1]] /\ Written(s[1], s[2])}
           slot(x) == CHOOSE s \in slots(x) : TRUE
<1>1. gpu_kv'[b] = IF slots(b) = {} THEN gpu_kv[b] ELSE <<cur_batch[slot(b)[1]], slot(b)[2]>>
  <2>1. gpu_kv' = [x \in 1 .. MaxGpuBlocks |->
            IF slots(x) = {} THEN gpu_kv[x]
            ELSE IF Aligned THEN <<cur_batch[slot(x)[1]], slot(x)[2]>> ELSE NoKv]
    BY Zenon DEF WriteKv
  <2> HIDE DEF slots, slot
  <2> QED BY <2>1
<1>2. slots(b) # {} => slot(b) \in slots(b)
  BY Zenon
<1>3. \A s : s \in slots(b) <=> s \in (DOMAIN cur_batch) \X (1 .. MaxGpuBlocks) /\ WritesTo(s[1], s[2], b)
  BY Zenon DEF WritesTo
<1> HIDE DEF slots, slot
<1>4. ASSUME \A k \in DOMAIN cur_batch : \A m \in 1 .. MaxGpuBlocks : ~WritesTo(k, m, b)
      PROVE  gpu_kv'[b] = gpu_kv[b]
  <2>1. slots(b) = {}
    <3> SUFFICES ASSUME NEW s \in slots(b) PROVE FALSE
      OBVIOUS
    <3>1. s[1] \in DOMAIN cur_batch /\ s[2] \in 1 .. MaxGpuBlocks /\ WritesTo(s[1], s[2], b)
      BY <1>3
    <3> QED BY <1>4, <3>1
  <2> QED BY <1>1, <2>1
<1>5. ASSUME NEW k \in DOMAIN cur_batch, NEW m \in 1 .. MaxGpuBlocks, WritesTo(k, m, b),
             \A l \in DOMAIN cur_batch : \A n \in 1 .. MaxGpuBlocks : WritesTo(l, n, b) => l = k /\ n = m
      PROVE  gpu_kv'[b] = <<cur_batch[k], m>>
  <2>1. <<k, m>> \in slots(b)
    BY <1>3, <1>5
  <2>2. slot(b) \in (DOMAIN cur_batch) \X (1 .. MaxGpuBlocks) /\ WritesTo(slot(b)[1], slot(b)[2], b)
    BY <1>2, <1>3, <2>1
  <2>3. slot(b)[1] = k /\ slot(b)[2] = m
    <3>1. slot(b)[1] \in DOMAIN cur_batch /\ slot(b)[2] \in 1 .. MaxGpuBlocks
      BY <2>2
    <3> QED BY <1>5, <2>2, <3>1
  <2> QED BY <1>1, <2>1, <2>3
<1> QED BY <1>4, <1>5, Zenon

(* An allocation adds to the rows and changes nothing in them. *)
LEMMA GpuEntriesStay ==
  ASSUME NEW pool, GpuPool(pool), NEW ids \in Seq(RequestIds), IsInjective(ids),
         NEW targets, \A i \in DOMAIN ids : targets[i] \in Nat /\ Len(gpu_table[ids[i]]) <= targets[i],
         GPU!EnoughFree(ids, targets), GPU!AllocateForSeqs(ids, targets)
  PROVE  \A s \in RequestIds : \A k \in DOMAIN gpu_table[s] :
           k \in DOMAIN gpu_table'[s] /\ gpu_table'[s][k] = gpu_table[s][k]
<1> DEFINE lens == GPU!Missing(ids, targets)
           total == SumFunctionOnSet(lens, DOMAIN ids)
           sel == SelectedFrom(gpu_free, total)
<1>1. MaxGpuBlocks \in Nat
  BY PoolSizes, Constants
<1>2. /\ gpu_table \in [RequestIds -> Seq(1 .. MaxGpuBlocks)]
      /\ pool \in SUBSET (1 .. MaxGpuBlocks) /\ gpu_free \in SUBSET (1 .. MaxGpuBlocks)
      /\ OnePlaceEach(RequestIds, pool, gpu_free, gpu_num_free, gpu_table)
  BY Zenon DEF GpuPool, DeviceTells
<1>3. /\ \A i \in DOMAIN ids : ids[i] \in RequestIds /\ Len(gpu_table[ids[i]]) \in Nat
      /\ lens = [i \in DOMAIN ids |-> targets[i] - Len(gpu_table[ids[i]])]
  BY <1>2 DEF GPU!Missing
<1>4. lens \in [DOMAIN ids -> Nat] /\ DOMAIN lens = DOMAIN ids
  BY <1>3
<1>5. total <= gpu_num_free
  <2>1. GPU!SumFunction(lens) <= gpu_num_free
    BY Zenon DEF GPU!EnoughFree
  <2>2. GPU!SumFunction(lens) = SumFunctionOnSet(lens, DOMAIN lens)
    BY GpuSum, Zenon
  <2> QED BY <1>4, <2>1, <2>2
<1>6. gpu_table' = Extended(gpu_table, ids, lens, sel)
  <2>1. DOMAIN gpu_table = RequestIds
    BY <1>2
  <2> QED BY <1>4, <2>1, GpuExtended, Zenon
<1> HIDE DEF lens
<1>7. RowsAllocated(RequestIds, MaxGpuBlocks, pool, gpu_free, gpu_num_free, gpu_table, ids, lens, total, sel)
  BY <1>1, <1>2, <1>4, <1>5, Allocation, Zenon
<1>8. RowsExtended(RequestIds, gpu_table, ids, lens, sel, total, gpu_table')
  BY <1>6, <1>7, Zenon DEF RowsAllocated
<1> QED BY <1>8, Zenon DEF RowsExtended

(* A row has no more blocks than there are. *)
LEMMA RowFits ==
  ASSUME NEW rows, NEW size \in Nat, NEW pool, NEW free, NEW num, NEW table,
         DeviceTells(rows, size, pool, free, num, table), NEW s \in rows
  PROVE  /\ Len(table[s]) \in 0 .. size /\ DOMAIN table[s] = 1 .. Len(table[s])
         /\ \A m \in DOMAIN table[s] : table[s][m] \in 1 .. size
<1>1. table[s] \in Seq(1 .. size) /\ OnePlaceEach(rows, pool, free, num, table)
  BY DEF DeviceTells
<1> DEFINE q == table[s]
<1>2. q \in Seq(1 .. size) /\ \A i, j \in DOMAIN q : q[i] = q[j] => i = j
  BY <1>1 DEF OnePlaceEach
<1> HIDE DEF q
<1>3. IsInjective(q) /\ Elements(q) \in SUBSET (1 .. size)
  BY <1>2 DEF IsInjective, Elements
<1>4. Cardinality(Elements(q)) = Len(q)
  BY <1>2, <1>3, InjectiveElements, Zenon
<1>5. IsFiniteSet(1 .. size) /\ Cardinality(1 .. size) = size
  <2>1. 1 \in Int /\ size \in Int
    OBVIOUS
  <2>2. IsFiniteSet(1 .. size) /\ Cardinality(1 .. size) = IF 1 > size THEN 0 ELSE size - 1 + 1
    BY <2>1, FS_Interval, Zenon
  <2> QED BY <2>2
<1>6. Cardinality(Elements(q)) <= Cardinality(1 .. size)
  BY <1>3, <1>5, FS_Subset, Zenon
<1>7. Len(q) \in 0 .. size /\ DOMAIN q = 1 .. Len(q) /\ \A m \in DOMAIN q : q[m] \in 1 .. size
  BY <1>2, <1>4, <1>5, <1>6
<1> QED BY <1>7 DEF q

(* The blocks of a sequence after its pass: the ones the pass writes, and those it had. *)
LEMMA ForwardRows ==
  ASSUME IInv, IInv', Counts, Forward, NEW k \in DOMAIN cur_batch,
         NEW m \in DOMAIN gpu_table'[request_id[cur_batch[k]]]
  PROVE  LET id == request_id[cur_batch[k]] IN
         /\ m \in 1 .. MaxGpuBlocks /\ gpu_table'[id][m] \in 1 .. MaxGpuBlocks
         /\ m <= Len(gpu_table'[id]) /\ m <= Targets[k]
         /\ \/ Written(k, m)
            \/ m \in DOMAIN gpu_table[id] /\ gpu_table'[id][m] = gpu_table[id][m]
<1> DEFINE r == cur_batch[k]
           ids == IdsOf(cur_batch)
           id == request_id[r]
<1>1. /\ QueueTypes /\ IdsTell /\ BatchTells /\ GpuTells /\ GpuTells' /\ QueueSide /\ FlightTells
  BY Zenon DEF IInv, QueueSide
<1>2. /\ stage = "forward" /\ OutsideModelUnchanged /\ AllocationSucceeds
      /\ GPU!AllocateForSeqs(IdsOf(cur_batch), Targets) /\ Planned /\ BatchCounts /\ RowsCount
  BY Zenon DEF Forward, Planned, Counts
<1>3. /\ ids \in Seq(RequestIds) /\ IsInjective(ids) /\ DOMAIN ids = DOMAIN cur_batch
      /\ \A i \in DOMAIN cur_batch : ids[i] = request_id[cur_batch[i]]
      /\ Elements(cur_batch) \subseteq Flying
  BY <1>1, <1>2, BatchFlies, FlyingIds
<1>4. r \in Elements(cur_batch) /\ r \in Running /\ r \in Flying /\ r \in Requests /\ id \in RequestIds
  <2>1. r \in Elements(cur_batch) /\ r \in Flying
    BY <1>3, ElementsOf
  <2>2. r \in Running
    BY <1>1, <1>2, <2>1 DEF BatchTells
  <2>3. r \in Requests
    BY <1>1 DEF QueueTypes
  <2> QED BY <1>1, <2>1, <2>2, <2>3 DEF IdsTell
<1>5. /\ m \in 1 .. MaxGpuBlocks /\ gpu_table'[id][m] \in 1 .. MaxGpuBlocks
      /\ Len(gpu_table'[id]) \in Nat /\ m \in 1 .. Len(gpu_table'[id])
  <2>1. MaxGpuBlocks \in Nat
    BY PoolSizes, Constants
  <2>2. DeviceTells(RequestIds, MaxGpuBlocks, 1 .. gpu_num_blocks', gpu_free', gpu_num_free', gpu_table')
    BY <1>1 DEF GpuTells, GpuPool
  <2>3. /\ Len(gpu_table'[id]) \in 0 .. MaxGpuBlocks /\ DOMAIN gpu_table'[id] = 1 .. Len(gpu_table'[id])
        /\ \A n \in DOMAIN gpu_table'[id] : gpu_table'[id][n] \in 1 .. MaxGpuBlocks
    <3> HIDE DEF id
    <3> QED BY <1>4, <2>1, <2>2, RowFits, Zenon
  <2>4. m \in DOMAIN gpu_table'[id]
    OBVIOUS
  <2> HIDE DEF id
  <2> QED BY <2>1, <2>3, <2>4
<1>6. Len(gpu_table'[id]) = Targets[k]
  BY <1>2, ForwardAllocates, Zenon
<1>7. \A n \in DOMAIN gpu_table[id] : n \in DOMAIN gpu_table'[id] /\ gpu_table'[id][n] = gpu_table[id][n]
  <2>1. /\ GPU!TargetsMakeSense(ids, Targets) /\ GPU!EnoughFree(ids, Targets)
        /\ GPU!AllocateForSeqs(ids, Targets)
    BY <1>2, Zenon DEF AllocationSucceeds
  <2> HIDE DEF ids
  <2>2. \A i \in DOMAIN ids : Targets[i] \in Nat /\ Len(gpu_table[ids[i]]) <= Targets[i]
    <3>1. \A i \in DOMAIN ids : Targets[i] \in Nat
      BY <1>1, <1>3, TargetsNat, Zenon
    <3> QED BY <2>1, <3>1, Zenon DEF GPU!TargetsMakeSense
  <2>3. GpuPool(1 .. gpu_num_blocks)
    BY <1>1 DEF GpuTells
  <2> QED BY <1>3, <1>4, <2>1, <2>2, <2>3, GpuEntriesStay, SMTT(60)
<1>8. \/ Written(k, m)
      \/ m \in DOMAIN gpu_table[id]
  <2>1. CASE k <= NumPrefills
    BY <2>1 DEF Written
  <2>2. CASE ~(k <= NumPrefills)
    <3> DEFINE a == prompt_len[r] + num_outputs[r] - 1
    <3>1. /\ Targets[k] = BlocksNeeded[r] /\ SeqLen(k) = prompt_len[r] + num_outputs[r] /\ Aligned
      BY <1>1, <1>2, <2>2, HomogeneousBatch, Zenon
    <3>2. ~IsPrefillStage(r)
      BY <2>2, <3>1 DEF Aligned
    <3>3. num_outputs[r] \in Nat \ {0} /\ prompt_len[r] \in Nat
      <4>1. num_outputs[r] \in Nat /\ prompt_len[r] \in PromptLens
        BY <1>1, <1>4 DEF QueueTypes
      <4> QED BY <3>2, <4>1, Constants DEF IsPrefillStage
    <3>4. a \in Nat /\ SeqLen(k) = a + 1 /\ SeqLen(k) - 1 = a
      BY <3>1, <3>3
    <3>5. Targets[k] = CeilDiv(a + 1, BlockSize) /\ Holds[r] = CeilDiv(a, BlockSize)
      <4>1. BlocksNeeded[r] = CeilDiv(prompt_len[r] + num_outputs[r], BlockSize)
        BY <1>4 DEF BlocksNeeded
      <4>2. prompt_len[r] + num_outputs[r] = a + 1
        BY <3>3
      <4> QED BY <1>4, <3>1, <3>3, <4>1, <4>2 DEF Holds
    <3> HIDE DEF a
    <3>6. \/ Targets[k] = Holds[r]
          \/ (SeqLen(k) - 1) % BlockSize = 0 /\ Targets[k] = Holds[r] + 1
      BY <3>4, <3>5, CeilDivStep, Constants
    <3>7. Len(gpu_table[id]) = Holds[r] /\ DOMAIN gpu_table[id] = 1 .. Holds[r]
      <4>1. RowOf(r) = gpu_table[id]
        BY <1>2, <1>4 DEF RowOf, OnGpuNow
      <4>2. Len(gpu_table[id]) = Holds[r]
        BY <1>2, <1>4, <4>1, Zenon DEF RowsCount
      <4>3. gpu_table[id] \in Seq(1 .. MaxGpuBlocks)
        BY <1>4, RowsPlaced
      <4> QED BY <4>2, <4>3
    <3>8. Holds[r] \in Nat
      BY <1>1, <1>4, HoldsFacts
    <3> HIDE DEF id, r
    <3>9. CASE m <= Holds[r]
      BY <1>5, <3>7, <3>8, <3>9
    <3>10. CASE ~(m <= Holds[r])
      <4>1. m = Targets[k] /\ (SeqLen(k) - 1) % BlockSize = 0
        BY <1>5, <1>6, <3>6, <3>8, <3>10
      <4> QED BY <4>1, <2>2 DEF Written
    <3> QED BY <3>9, <3>10
  <2> QED BY <2>1, <2>2
<1> QED BY <1>5, <1>6, <1>7, <1>8

(* A pass writes in the blocks of its sequences, in their places, and in no others. *)
LEMMA ForwardKv ==
  ASSUME IInv, IInv', Counts, KvKept, Forward
  PROVE  KvKept'
<1>1. /\ QueueTypes /\ IdsTell /\ BatchTells /\ GpuTells' /\ FlightTells
  BY Zenon DEF IInv, QueueSide
<1>2. /\ stage = "forward" /\ stage' = "finish" /\ OutsideModelUnchanged /\ AllocationSucceeds
      /\ GPU!AllocateForSeqs(IdsOf(cur_batch), Targets) /\ Planned /\ BatchCounts /\ WriteKv
      /\ cpu_table' = cpu_table /\ cpu_kv' = cpu_kv
  BY Zenon DEF Forward, Planned, Counts, cpuVars
<1>3. request_id' = request_id /\ Flying' = Flying /\ Running' = Running
  BY <1>2, SameQueues
<1>4. \A r : (OnGpuNow(r) <=> r \in Running) /\ (OnGpuNow(r)' <=> r \in Running)
  BY <1>2, <1>3 DEF OnGpuNow
<1>5. Aligned
  BY <1>1, <1>2, HomogeneousBatch, Zenon
<1>6. /\ \A k \in DOMAIN cur_batch : cur_batch[k] \in Elements(cur_batch) /\ cur_batch[k] \in Flying
      /\ \A k, l \in DOMAIN cur_batch : cur_batch[k] = cur_batch[l] => k = l
      /\ \A r \in Flying : request_id[r] \in RequestIds
      /\ \A r, s \in Flying : request_id[r] = request_id[s] => r = s
  <2>1. Elements(cur_batch) \subseteq Running /\ IsInjective(cur_batch)
    BY <1>1, <1>2 DEF BatchTells
  <2> QED BY <1>1, <2>1, ElementsOf DEF IsInjective, IdsTell, Flying
<1>7. /\ gpu_table' \in [RequestIds -> Seq(1 .. MaxGpuBlocks)]
      /\ \A s, t \in RequestIds : \A i \in DOMAIN gpu_table'[s], j \in DOMAIN gpu_table'[t] :
           gpu_table'[s][i] = gpu_table'[t][j] => s = t /\ i = j
  <2>1. DeviceTells(RequestIds, MaxGpuBlocks, 1 .. gpu_num_blocks', gpu_free', gpu_num_free', gpu_table')
    BY <1>1 DEF GpuTells, GpuPool
  <2> QED BY <2>1, Zenon DEF DeviceTells, OnePlaceEach
(* Whose block a sequence writes in. *)
<1>8. ASSUME NEW r \in Flying, NEW i \in DOMAIN gpu_table'[request_id[r]],
             NEW l \in DOMAIN cur_batch, NEW n \in 1 .. MaxGpuBlocks, WritesTo(l, n, gpu_table'[request_id[r]][i])
      PROVE  cur_batch[l] = r /\ n = i
  <2> DEFINE id == request_id[cur_batch[l]]
  <2>1. n <= Len(gpu_table'[id]) /\ gpu_table'[id][n] = gpu_table'[request_id[r]][i]
    BY <1>8 DEF WritesTo
  <2>2. id \in RequestIds /\ request_id[r] \in RequestIds
    BY <1>6
  <2>3. n \in DOMAIN gpu_table'[id]
    <3>1. gpu_table'[id] \in Seq(1 .. MaxGpuBlocks)
      BY <1>7, <2>2
    <3> HIDE DEF id
    <3> QED BY <2>1, <3>1
  <2> DEFINE own == request_id[r]
  <2>4. id = own /\ n = i
    <3>1. own \in RequestIds /\ i \in DOMAIN gpu_table'[own] /\ gpu_table'[id][n] = gpu_table'[own][i]
      BY <2>1, <2>2
    <3> HIDE DEF id, own
    <3> QED BY <1>7, <2>2, <2>3, <3>1
  <2> QED BY <1>6, <2>4
<1>9. ASSUME NEW k \in DOMAIN cur_batch, NEW i \in DOMAIN gpu_table'[request_id[cur_batch[k]]]
      PROVE  gpu_kv'[gpu_table'[request_id[cur_batch[k]]][i]] = <<cur_batch[k], i>>
  <2> DEFINE r == cur_batch[k]
             row == gpu_table'[request_id[r]]
             b == row[i]
  <2>1. /\ i \in 1 .. MaxGpuBlocks /\ b \in 1 .. MaxGpuBlocks /\ i <= Len(row) /\ i <= Targets[k]
        /\ Written(k, i) \/ (i \in DOMAIN gpu_table[request_id[r]] /\ b = gpu_table[request_id[r]][i])
    BY ForwardRows
  <2>2. \A l \in DOMAIN cur_batch : \A n \in 1 .. MaxGpuBlocks : WritesTo(l, n, b) => l = k /\ n = i
    BY <1>6, <1>8
  <2>3. CASE Written(k, i)
    <3>1. WritesTo(k, i, b)
      BY <2>1, <2>3 DEF WritesTo
    <3> HIDE DEF b
    <3> QED BY <1>2, <1>5, <2>1, <2>2, <3>1, KvAfterPass, Zenon DEF b, r, row
  <2>4. CASE ~Written(k, i)
    <3>1. \A l \in DOMAIN cur_batch : \A n \in 1 .. MaxGpuBlocks : ~WritesTo(l, n, b)
      <4> SUFFICES ASSUME NEW l \in DOMAIN cur_batch, NEW n \in 1 .. MaxGpuBlocks, WritesTo(l, n, b)
                   PROVE  FALSE
        BY Zenon
      <4>1. l = k /\ n = i
        BY <2>2
      <4> QED BY <2>4, <4>1 DEF WritesTo
    <3>2. gpu_kv'[b] = gpu_kv[b]
      <4> HIDE DEF b
      <4> QED BY <1>2, <1>5, <2>1, <3>1, KvAfterPass, Zenon
    <3>3. r \in Flying /\ r \in Running
      BY <1>1, <1>2, <1>6 DEF BatchTells
    <3>4. RowOf(r) = gpu_table[request_id[r]] /\ KvOf(r) = gpu_kv
      BY <1>4, <3>3 DEF RowOf, KvOf
    <3>5. i \in DOMAIN gpu_table[request_id[r]] /\ b = gpu_table[request_id[r]][i]
      BY <2>1, <2>4
    <3>6. gpu_kv[gpu_table[request_id[r]][i]] = <<r, i>>
      <4> HIDE DEF r
      <4> QED BY <3>3, <3>4, <3>5, Zenon DEF KvKept
    <3> QED BY <3>2, <3>5, <3>6
  <2> QED BY <2>3, <2>4
<1>10. ASSUME NEW r \in Flying, r \in Running, r \notin Elements(cur_batch)
       PROVE  SameRow(r)
  <2>1. gpu_table'[request_id[r]] = gpu_table[request_id[r]]
    BY <1>2, <1>10, ForwardAllocates, Zenon
  <2>2. \A i \in DOMAIN gpu_table[request_id[r]] :
          gpu_kv'[gpu_table[request_id[r]][i]] = gpu_kv[gpu_table[request_id[r]][i]]
    <3> TAKE i \in DOMAIN gpu_table[request_id[r]]
    <3> DEFINE b == gpu_table[request_id[r]][i]
    <3>1. \A l \in DOMAIN cur_batch : \A n \in 1 .. MaxGpuBlocks : ~WritesTo(l, n, b)
      <4> SUFFICES ASSUME NEW l \in DOMAIN cur_batch, NEW n \in 1 .. MaxGpuBlocks, WritesTo(l, n, b)
                   PROVE  FALSE
        BY Zenon
      <4>1. i \in DOMAIN gpu_table'[request_id[r]] /\ b = gpu_table'[request_id[r]][i]
        BY <2>1
      <4>2. cur_batch[l] = r
        BY <1>8, <4>1
      <4> QED BY <1>6, <1>10, <4>2
    <3>2. b \in 1 .. MaxGpuBlocks
      <4>1. ASSUME NEW X, NEW q \in Seq(X), NEW j \in DOMAIN q PROVE q[j] \in X
        OBVIOUS
      <4>2. gpu_table[request_id[r]] \in Seq(1 .. MaxGpuBlocks)
        BY <1>6, RowsPlaced
      <4> QED BY <4>1, <4>2, Zenon
    <3> HIDE DEF b
    <3>3. gpu_kv'[b] = gpu_kv[b]
      BY <1>2, <1>5, <3>1, <3>2, KvAfterPass, Zenon
    <3> QED BY <3>3 DEF b
  <2> QED BY <1>3, <1>4, <1>10, <2>1, <2>2, Zenon DEF SameRow
<1>11. ASSUME NEW r \in Flying, r \notin Running
       PROVE  SameRow(r)
  BY <1>2, <1>3, <1>4, <1>11, Zenon DEF SameRow
<1> SUFFICES ASSUME NEW r \in Flying', NEW i \in DOMAIN RowOf(r)'
             PROVE  KvOf(r)'[RowOf(r)'[i]] = <<r, i>>
  BY DEF KvKept
<1>12. r \in Flying
  BY <1>3
<1>13. CASE r \in Elements(cur_batch)
  <2>1. r \in Running
    BY <1>1, <1>2, <1>13 DEF BatchTells
  <2>2. RowOf(r)' = gpu_table'[request_id[r]] /\ KvOf(r)' = gpu_kv'
    BY <1>3, <1>4, <2>1 DEF RowOf, KvOf
  <2>3. PICK k \in DOMAIN cur_batch : cur_batch[k] = r
    BY <1>13, ElementsOf, Zenon
  <2> QED BY <1>9, <2>2, <2>3
<1>14. CASE r \notin Elements(cur_batch)
  <2>1. SameRow(r)
    BY <1>10, <1>11, <1>12, <1>14
  <2> QED BY <2>1, SameRowKept
<1> QED BY <1>13, <1>14

-----------------------------------------------------------------------------
(* The other steps, and the whole.                                         *)

(* The requests of the batch that go on, and the preempted, stay where they are. *)
LEMMA FinishBatchKv ==
  ASSUME IInv, KvKept, FinishBatch
  PROVE  KvKept'
<1>1. FlightTells
  BY Zenon DEF IInv, QueueSide
<1>2. /\ stage = "finish" /\ stage' = "schedule"
      /\ request_id' = request_id /\ gpu_kv' = gpu_kv /\ cpu_kv' = cpu_kv
  BY DEF FinishBatch, OnBatchFinish, EndIteration, requestVars
<1>3. FinishedLeave
  BY FinishBatchKeeps, Zenon
<1>4. \A r : (OnGpuNow(r) <=> r \in Running) /\ (OnGpuNow(r)' <=> r \in Running')
  BY <1>2 DEF OnGpuNow
<1>5. \A r \in Flying' : r \in Flying /\ (r \in Running' <=> r \in Running)
  <2>1. Flying' = Running' \cup Swapped' /\ Running \cap Swapped = {}
    BY <1>1 DEF Flying, FlightTells
  <2> QED BY <1>3, <2>1 DEF FinishedLeave
<1>6. \A r \in Flying' : SameRow(r)
  BY <1>2, <1>3, <1>4, <1>5 DEF SameRow, FinishedLeave
<1> QED BY <1>6, SameRowKept DEF KvKept

(* Whatever else runs touches neither rows nor blocks. *)
LEMMA SameKv ==
  ASSUME KvKept, UNCHANGED <<request_id, running_q, swapped_q, cur_swap_in, cur_swap_out,
                             gpu_table, cpu_table, gpu_kv, cpu_kv>>,
         stage' = stage \/ {stage, stage'} \subseteq {"schedule", "exited"}
  PROVE  KvKept'
<1>1. Running' = Running /\ Flying' = Flying
  BY DEF Running, Swapped, Flying
<1>2. \A r : OnGpuNow(r)' <=> OnGpuNow(r)
  BY <1>1 DEF OnGpuNow
<1>3. \A r \in Flying' : SameRow(r)
  BY <1>1, <1>2 DEF SameRow
<1> QED BY <1>3, SameRowKept DEF KvKept

(* A plan puts requests in queues, and gives new ones rows that are empty. *)
LEMMA PlanKv ==
  ASSUME IInv, KvKept, SchedulePrefill \/ ScheduleReplacing \/ SchedulePreempting \/ ScheduleDecode
  PROVE  KvKept'
<1>1. QueueTypes /\ FlightTells
  BY Zenon DEF IInv, QueueSide
<1>2. ASSUME stage = "schedule", OutsideSchedulerUnchanged, swapped_q = <<>>,
             NEW pool, PrefillBatch(AdmissibleIn(pool)), Start(First(waiting_q, AdmissibleIn(pool)), <<>>, <<>>),
             NEW n, ReplaceLayers(n) \/ RestoreLayers(n)
      PROVE  KvKept'
  <2> DEFINE a == AdmissibleIn(pool)
  <2>1. a \in 0 .. Len(waiting_q) /\ Len(running_q) + a <= MaxBatchSize
    BY <1>1, <1>2, AdmissionBounds, Zenon
  <2>2. PrefillBatch(a) /\ Start(First(waiting_q, a), <<>>, <<>>)
    BY <1>2
  <2> HIDE DEF a
  <2>3. Joins(First(waiting_q, a))
    BY <1>2, <2>1, <2>2, PrefillKept, Zenon
  <2>4. stage' \in {"forward", "schedule"}
    BY <2>2 DEF Start
  <2> QED BY <1>2, <2>3, <2>4, JoinedKv, Zenon
<1>3. CASE SchedulePrefill
  <2>1. /\ stage = "schedule" /\ PrefillBatch(Admissible) /\ OutsideSchedulerUnchanged
        /\ Start(First(waiting_q, Admissible), <<>>, <<>>)
        /\ RestoreLayers(Restorable(Rest(waiting_q, Admissible)))
    BY <1>3, Zenon DEF SchedulePrefill
  <2>2. swapped_q = <<>> /\ Admissible = AdmissibleIn(num_gpu_blocks)
    BY <1>3 DEF SchedulePrefill, Admissible
  <2> QED BY <1>2, <2>1, <2>2, Zenon
<1>4. CASE ScheduleReplacing
  <2> DEFINE pool == PoolWith(NumLayersToQuantize)
  <2>1. /\ stage = "schedule" /\ PrefillBatch(AdmissibleIn(pool)) /\ OutsideSchedulerUnchanged
        /\ Start(First(waiting_q, AdmissibleIn(pool)), <<>>, <<>>)
        /\ ReplaceLayers(NumLayersToQuantize) /\ AdmitsByReplacing
    BY <1>4, Zenon DEF ScheduleReplacing
  <2>2. swapped_q = <<>>
    BY <2>1, Zenon DEF AdmitsByReplacing
  <2> HIDE DEF pool
  <2> QED BY <1>2, <2>1, <2>2, Zenon
<1>5. CASE SchedulePreempting
  <2> DEFINE pool == PoolWith(ReplacedToDecode)
  <2>1. /\ stage = "schedule" /\ Kept(pool) < Len(running_q) /\ OutsideSchedulerUnchanged
        /\ PreemptBatch(pool) /\ Start(First(running_q, Kept(pool)), <<>>, NewlySwappedOut(pool))
        /\ ReplaceLayers(ReplacedToDecode) \/ RestoreLayers(Restorable(waiting_q))
    BY <1>5, Zenon DEF SchedulePreempting, Decoding
  <2>2. Moves
    BY <2>1, PreemptKept, Zenon
  <2> QED BY <2>1, <2>2, MovedKv, Zenon
<1>6. CASE ScheduleDecode
  <2> DEFINE pool == PoolWith(ReplacedToDecode)
  <2>1. /\ stage = "schedule" /\ OutsideSchedulerUnchanged
        /\ DecodeBatch(pool) /\ Start(running_q', First(swapped_q, Returning(pool)), <<>>)
        /\ ReplaceLayers(ReplacedToDecode) \/ RestoreLayers(Restorable(waiting_q))
    BY <1>6, Zenon DEF ScheduleDecode, Decoding
  <2>2. Moves
    BY <2>1, DecodeKept, Zenon
  <2> QED BY <2>1, <2>2, MovedKv, Zenon
<1> QED BY <1>3, <1>4, <1>5, <1>6

(* Nothing lowers what an iteration has raised. *)
LEMMA EngineStays ==
  ASSUME LayerSide, [Next]_vars, upset' # "engine"
  PROVE  upset # "engine"
<1>1. CASE SchedulePrefill \/ ScheduleReplacing \/ SchedulePreempting \/ ScheduleDecode
  <2>1. \E n : ReplaceLayers(n) \/ RestoreLayers(n)
    BY <1>1, Zenon DEF SchedulePrefill, ScheduleReplacing, SchedulePreempting, ScheduleDecode
  <2> QED BY <2>1, UpsetStays, Zenon
<1>2. CASE AddRequest \/ TokenizationLoop
  <2>1. MainLoopUnchanged
    BY <1>2, Zenon DEF AddRequest, TokenizationLoop, TakeTokenized, TakeUntokenized, Tokenized
  <2> QED BY <2>1 DEF MainLoopUnchanged, planVars
<1>3. CASE ScheduleExits \/ FinishBatch \/ UNCHANGED vars
  BY <1>3 DEF ScheduleExits, FinishBatch, vars, planVars
<1>4. CASE SwapOut \/ SwapIn \/ Forward \/ ForwardNotAllocated \/ ForwardRaises
  <2>1. upset' = "engine" \/ upset' = upset \/ upset' = IF upset = "batch" THEN "none" ELSE upset
    BY <1>4 DEF SwapOut, SwapIn, Forward, ForwardNotAllocated, ForwardRaises, IterationRaises
  <2> QED BY <2>1
<1> QED BY <1>1, <1>2, <1>3, <1>4, Zenon DEF Next, MainLoop

(* One step per action. *)
LEMMA NextKv ==
  ASSUME IInv, IInv', Counts, KvKept, PlainSwapIns, [Next]_vars, upset' # "engine"
  PROVE  KvKept'
<1>1. CASE AddRequest \/ TokenizationLoop \/ UNCHANGED vars
  <2>1. ServingUnchanged
    <3>1. CASE UNCHANGED vars
      BY <3>1 DEF vars, ServingUnchanged
    <3>2. CASE AddRequest \/ TokenizationLoop
      BY <3>2, MainLoopStays, Zenon DEF AddRequest, TokenizationLoop, TakeTokenized, TakeUntokenized, Tokenized
    <3> QED BY <1>1, <3>1, <3>2
  <2> QED BY <2>1, SameKv DEF ServingUnchanged
<1>2. CASE ScheduleExits
  <2>1. /\ UNCHANGED <<request_id, running_q, swapped_q, cur_swap_in, cur_swap_out,
                       gpu_table, cpu_table, gpu_kv, cpu_kv>>
        /\ stage = "schedule" /\ stage' = "exited"
    BY <1>2 DEF ScheduleExits, OutsideSchedulerUnchanged, idVars, queueVars, batchVars, cpuVars
  <2> QED BY <2>1, SameKv
<1>3. CASE SchedulePrefill \/ ScheduleReplacing \/ SchedulePreempting \/ ScheduleDecode
  BY <1>3, PlanKv, Zenon
<1>4. CASE SwapOut
  BY <1>4, SwapOutKv, Zenon
<1>5. CASE SwapIn
  BY <1>5, SwapInKv, Zenon
<1>6. CASE Forward
  BY <1>6, ForwardKv, Zenon
<1>7. CASE ForwardNotAllocated \/ ForwardRaises
  BY <1>7, Zenon DEF ForwardNotAllocated, ForwardRaises, IterationRaises
<1>8. CASE FinishBatch
  BY <1>8, FinishBatchKv, Zenon
<1> QED BY <1>1, <1>2, <1>3, <1>4, <1>5, <1>6, <1>7, <1>8, Zenon DEF Next, MainLoop

(* Nobody is in flight at the start. *)
LEMMA InitKv == ASSUME Init PROVE KvKept
<1>1. running_q = <<>> /\ swapped_q = <<>>
  BY DEF Init, SchedulerInit
<1> QED BY <1>1 DEF KvKept, Flying, Running, Swapped, Elements

(* What is kept in the rows is what KvIntact asks for. *)
LEMMA KeptIsIntact ==
  ASSUME IInv, Counts, KvKept
  PROVE  KvIntact
<1>1. QueueTypes /\ BatchTells
  BY Zenon DEF IInv, QueueSide
<1>2. /\ running_q \in Seq(Requests) /\ swapped_q \in Seq(Requests)
      /\ cur_swap_out \in Seq(Requests) /\ cur_swap_in \in Seq(Requests)
  BY <1>1 DEF QueueTypes
<1>3. ToSet(InFlight) = Flying
  <2>1. InFlight \in Seq(Requests) /\ Elements(InFlight) = Flying
    BY <1>2, ConcatList, ZenonT(60) DEF InFlight, Flying, Running, Swapped
  <2> QED BY <2>1 DEF ToSet, Elements
<1>4. \A r : OnGpu(r) <=> OnGpuNow(r)
  <2> TAKE r
  <2>1. /\ running_q \o cur_swap_out \in Seq(Requests)
        /\ Elements(running_q \o cur_swap_out) = Running \cup Elements(cur_swap_out)
    BY <1>2, ConcatList, ZenonT(60) DEF Running
  <2>2. Contains(running_q \o cur_swap_out, r) <=> r \in Running \cup Elements(cur_swap_out)
    BY <2>1, ContainsElements, Zenon
  <2>3. Contains(running_q, r) <=> r \in Running
    BY <1>2, ContainsElements, Zenon DEF Running
  <2>4. Contains(cur_swap_in, r) <=> r \in Elements(cur_swap_in)
    BY <1>2, ContainsElements, Zenon
  <2> QED BY <2>2, <2>3, <2>4, Zenon DEF OnGpu, OnGpuNow
<1>5. ASSUME NEW r \in Flying, num_outputs[r] \in 1 .. output_len[r] - 1
      PROVE  IF OnGpu(r) THEN HoldsKv(gpu_table, gpu_kv, r) ELSE HoldsKv(cpu_table, cpu_kv, r)
  <2> DEFINE n == CeilDiv(prompt_len[r] + num_outputs[r] - 1, BlockSize)
  <2>1. r \in Requests /\ request_id[r] \in RequestIds
    BY <1>2, RowsPlaced DEF Flying, Running, Swapped, Elements
  <2>2. Holds[r] = n
    <3>1. num_outputs[r] # 0
      BY <1>5
    <3> QED BY <2>1, <3>1 DEF Holds
  <2>3. Len(RowOf(r)) = n
    BY <2>2, Zenon DEF Counts, RowsCount
  <2> HIDE DEF n
  <2>4. DOMAIN RowOf(r) = 1 .. n
    <3>1. RowOf(r) \in Seq(1 .. MaxGpuBlocks) \/ RowOf(r) \in Seq(1 .. NumCpuBlocks)
      BY <2>1, RowsPlaced DEF RowOf
    <3>2. DOMAIN RowOf(r) = 1 .. Len(RowOf(r))
      BY <3>1
    <3> QED BY <2>3, <3>2
  <2>5. \A i \in 1 .. n : i <= Len(RowOf(r)) /\ KvOf(r)[RowOf(r)[i]] = <<r, i>>
    <3> TAKE i \in 1 .. n
    <3>1. i <= Len(RowOf(r))
      BY <2>3
    <3> QED BY <2>4, <3>1, Zenon DEF KvKept
  <2>6. CASE OnGpuNow(r)
    <3>1. RowOf(r) = gpu_table[request_id[r]] /\ KvOf(r) = gpu_kv
      BY <2>6 DEF RowOf, KvOf
    <3> QED BY <1>4, <2>5, <2>6, <3>1, Zenon DEF HoldsKv, n
  <2>7. CASE ~OnGpuNow(r)
    <3>1. RowOf(r) = cpu_table[request_id[r]] /\ KvOf(r) = cpu_kv
      BY <2>7 DEF RowOf, KvOf
    <3> QED BY <1>4, <2>5, <2>7, <3>1, Zenon DEF HoldsKv, n
  <2> QED BY <2>6, <2>7
<1> QED BY <1>3, <1>5, Zenon DEF KvIntact

(* For all values of the constants, and however the loops interleave: as    *)
(* long as no iteration of the main loop has raised, a request that has     *)
(* produced tokens finds the KV cache of all of them again, block by block  *)
(* and in order, on the device where the queues say it is, however often it *)
(* is swapped out, given other blocks and other neighbours, and swapped in. *)
(* The copies back must be plain ones: swap_blocks_new_kv_combined, which   *)
(* copies when a lent block takes part, is the one that loses the cache.    *)
THEOREM ServingKvIntact ==
  Spec /\ []PlainSwapIns => [](Undisturbed => KvIntact)
<1> DEFINE J == Undisturbed => KvKept
<1>1. Init => J
  BY InitKv
<1>2. CountsTell /\ Undisturbed => Counts
  BY Zenon DEF CountsTell, Undisturbed, Counts
<1>3. IInv /\ IInv' /\ CountsTell /\ PlainSwapIns /\ J /\ [Next]_vars => J'
  <2> SUFFICES ASSUME IInv, IInv', CountsTell, PlainSwapIns, J, [Next]_vars, Undisturbed'
               PROVE  KvKept'
    OBVIOUS
  <2>1. upset' # "engine" /\ LayerSide
    BY Zenon DEF Undisturbed, IInv
  <2>2. Undisturbed
    BY <2>1, EngineStays, Zenon DEF Undisturbed
  <2> QED BY <1>2, <2>1, <2>2, NextKv, Zenon
<1>4. IInv /\ CountsTell /\ J => (Undisturbed => KvIntact)
  BY <1>2, KeptIsIntact
<1> HIDE DEF J
<1> QED BY <1>1, <1>3, <1>4, SpecIInv, ServingCountsTell, PTL DEF Spec

(* Without quant_serve and awq_mode no block is ever lent, so every copy is *)
(* a plain one, and the cache of every request stays its own.               *)
THEOREM ServingKvStaysIntact ==
  ASSUME ~QuantServe, AwqLayers = 0
  PROVE  Spec => [](Undisturbed => KvIntact)
<1> DEFINE J == next_unquantized_layer = NumLayers - 1
<1>1. Init => J
  <2> SUFFICES ASSUME Init PROVE J
    OBVIOUS
  <2>1. next_unquantized_layer = NumLayers - 1 - AwqLayers
    BY DEF Init, LayersInit
  <2> QED BY <2>1, Constants
<1>2. IInv /\ J /\ [Next]_vars => J'
  <2> SUFFICES ASSUME IInv, J, [Next]_vars PROVE J'
    OBVIOUS
  <2>1. LayerSide
    BY Zenon DEF IInv
  <2> QED BY <2>1, LayersStay
<1>3. IInv /\ J => PlainSwapIns
  <2> SUFFICES ASSUME IInv, J PROVE k_cache_new = <<>>
    BY Zenon DEF PlainSwapIns
  <2> DEFINE m == Len(layer_quant_list)
  <2>1. /\ m \in 0 .. NumLayers /\ k_cache_new = layer_quant_list /\ next_unquantized_layer = NumLayers - 1 - m
        /\ layer_quant_list = [i \in 1 .. m |-> NumLayers - i]
    BY LayerFacts, Zenon DEF IInv
  <2> HIDE DEF m
  <2>2. m = 0
    BY <2>1, Constants
  <2> QED BY <2>1, <2>2
<1> QED BY <1>1, <1>2, <1>3, SpecIInv, ServingKvIntact, PTL DEF Spec

=============================================================================
