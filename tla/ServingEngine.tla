---------------------------- MODULE ServingEngine ----------------------------
(***************************************************************************)
(* server/engine.py: the event loops of the engine, composed with the FCFS *)
(* scheduler, the layer replacement of quant_serve, the block managers of  *)
(* the GPU and the CPU, and the parts of worker/model.py that allocate,    *)
(* write and swap the KV cache.                                            *)
(*                                                                         *)
(* The main loop gives up the event loop while the model swaps, forwards   *)
(* or frees; the tokenization loop and new requests run in between.  An    *)
(* exception ends an iteration of the main loop wherever it is raised: it  *)
(* is printed, and the next iteration schedules again.                     *)
(*                                                                         *)
(* A KV block is abstracted to what it stores: block i of request r, or    *)
(* nothing that belongs to a request.                                      *)
(***************************************************************************)
EXTENDS LayerReplacement

CONSTANTS
  NumCpuBlocks,  (* engine_config.num_cpu_blocks                           *)
  ForwardFaults  (* bound of the model: forward passes that raise          *)

ASSUME EngineAssumption == NumCpuBlocks \in Nat \ {0} /\ ForwardFaults \in Nat

VARIABLES
  gpu_table,                          (* model.gpu_block_manager           *)
  cpu_free, cpu_num_free, cpu_table,  (* model.cpu_block_manager           *)
  gpu_kv, cpu_kv,                     (* k_cache/v_cache, k_swap/v_swap    *)
  untokenized,  (* untokenized_raw_requests                                *)
  tokenizing,   (* the requests the tokenization loop is awaiting          *)
  arrived,      (* requests that have entered the engine so far            *)
  stage,        (* where the main event loop is                            *)
  cur_batch, cur_swap_in, cur_swap_out,
  faults,       (* forward passes that raised so far                       *)
  upset         (* what the plan of the current batch has not counted on;  *)
                (* an observer, the code has no such variable              *)

gpuVars == <<gpu_free, gpu_num_free, gpu_num_blocks, gpu_table, gpu_kv>>
planVars == <<layerVars, num_gpu_blocks, upset>>
cpuVars == <<cpu_free, cpu_num_free, cpu_table, cpu_kv>>
arrivalVars == <<untokenized, tokenizing, arrived>>
batchVars == <<cur_batch, cur_swap_in, cur_swap_out>>
vars == <<prompt_len, output_len, num_outputs, request_id, available_ids,
          waiting_q, running_q, swapped_q, num_decoding_gpu_blocks, num_gpu_blocks,
          layer_quant_list, is_layer_quant_list, next_unquantized_layer, k_cache_new,
          gpu_free, gpu_num_free, gpu_num_blocks, gpu_table, gpu_kv,
          cpu_free, cpu_num_free, cpu_table, cpu_kv,
          untokenized, tokenizing, arrived, stage,
          cur_batch, cur_swap_in, cur_swap_out, faults, upset>>

GPU == INSTANCE BlockManager WITH NumBlocks <- MaxGpuBlocks, Ids <- RequestIds,
         free_blocks <- gpu_free, num_free_blocks <- gpu_num_free, block_table <- gpu_table
CPU == INSTANCE BlockManager WITH NumBlocks <- NumCpuBlocks, Ids <- RequestIds,
         free_blocks <- cpu_free, num_free_blocks <- cpu_num_free, block_table <- cpu_table

(* "exited": exit() has ended the process.                                 *)
Stages == {"schedule", "swap_out", "swap_in", "forward", "finish", "exited"}
NoKv == <<0, 0>>
KvContents == (Requests \X (1 .. MaxGpuBlocks)) \cup {NoKv}

TypeOK ==
  /\ SchedulerTypeOK
  /\ LayersTypeOK
  /\ GPU!BmTypeOK
  /\ CPU!BmTypeOK
  /\ gpu_kv \in [1 .. MaxGpuBlocks -> KvContents]
  /\ cpu_kv \in [1 .. NumCpuBlocks -> KvContents]
  /\ {untokenized, tokenizing, cur_batch, cur_swap_in, cur_swap_out} \subseteq Seq(Requests)
  /\ arrived \in Nat
  /\ stage \in Stages
  /\ faults \in 0 .. ForwardFaults
  /\ upset \in {"none", "batch", "engine"}

Init ==
  /\ SchedulerInit
  /\ LayersInit
  /\ gpu_free = 1 .. gpu_num_blocks
  /\ gpu_num_free = gpu_num_blocks
  /\ gpu_table = [i \in RequestIds |-> <<>>]
  /\ CPU!BmInit
  /\ gpu_kv = [b \in 1 .. MaxGpuBlocks |-> NoKv]
  /\ cpu_kv = [b \in 1 .. NumCpuBlocks |-> NoKv]
  /\ untokenized = <<>> /\ tokenizing = <<>>
  /\ arrived = 0
  /\ stage = "schedule"
  /\ cur_batch = <<>> /\ cur_swap_in = <<>> /\ cur_swap_out = <<>>
  /\ faults = 0
  /\ upset = "none"

-----------------------------------------------------------------------------
(* Arrival and the tokenization loop                                       *)

MainLoopUnchanged ==
  UNCHANGED <<requestVars, num_outputs, idVars, running_q, swapped_q, num_decoding_gpu_blocks,
              planVars, gpuVars, cpuVars, stage, batchVars, faults>>

AddRequest ==
  /\ stage # "exited"
  /\ arrived + 1 \in Requests
  /\ arrived' = arrived + 1
  /\ untokenized' = Append(untokenized, arrived + 1)
  /\ UNCHANGED <<tokenizing, waiting_q>>
  /\ MainLoopUnchanged

(* Requests that come as token ids go straight to the scheduler.           *)
TakeTokenized ==
  /\ stage # "exited"
  /\ tokenizing = <<>> /\ untokenized # <<>>
  /\ OnRequestsArrival(untokenized)
  /\ untokenized' = <<>>
  /\ UNCHANGED <<tokenizing, arrived>>
  /\ MainLoopUnchanged

(* The others are sent to the tokenization engine and awaited.             *)
TakeUntokenized ==
  /\ stage # "exited"
  /\ tokenizing = <<>> /\ untokenized # <<>>
  /\ tokenizing' = untokenized
  /\ untokenized' = <<>>
  /\ UNCHANGED <<arrived, waiting_q>>
  /\ MainLoopUnchanged

Tokenized ==
  /\ stage # "exited"
  /\ tokenizing # <<>>
  /\ OnRequestsArrival(tokenizing)
  /\ tokenizing' = <<>>
  /\ UNCHANGED <<untokenized, arrived>>
  /\ MainLoopUnchanged

-----------------------------------------------------------------------------
(* The main event loop: scheduling                                         *)

Start(batch, swapped_in, swapped_out) ==
  /\ cur_batch' = batch
  /\ cur_swap_in' = swapped_in
  /\ cur_swap_out' = swapped_out
  /\ stage' = CASE swapped_out # <<>> -> "swap_out"
                [] swapped_out = <<>> /\ swapped_in # <<>> -> "swap_in"
                [] swapped_out = <<>> /\ swapped_in = <<>> /\ batch # <<>> -> "forward"
                [] OTHER -> "schedule"

OutsideSchedulerUnchanged ==
  UNCHANGED <<requestVars, num_outputs, gpu_table, cpuVars, arrivalVars, faults>>

(* acquire_new_kvcache zeroes the group it makes.                          *)
ReplaceLayers(n) ==
  /\ Org2Quant(n)
  /\ gpu_kv' = [b \in DOMAIN gpu_kv |-> IF b > gpu_num_blocks /\ b <= gpu_num_blocks'
                                           THEN NoKv ELSE gpu_kv[b]]
  /\ UNCHANGED upset

(* Restoring layers takes blocks away that the batch was counted on.       *)
RestoreLayers(n) ==
  /\ Quant2Org(n)
  /\ upset' = IF n > 0 /\ upset = "none" THEN "batch" ELSE upset
  /\ UNCHANGED gpu_kv

SchedulePrefill ==
  /\ stage = "schedule" /\ Admissible > 0 /\ ~AdmitsByReplacing
  /\ PrefillBatch(Admissible)
  /\ Start(First(waiting_q, Admissible), <<>>, <<>>)
  /\ RestoreLayers(Restorable(Rest(waiting_q, Admissible)))
  /\ OutsideSchedulerUnchanged

ScheduleReplacing ==
  LET n == AdmissibleIn(PoolWith(NumLayersToQuantize)) IN
  /\ stage = "schedule" /\ AdmitsByReplacing /\ ~RunsOutOfLayers
  /\ PrefillBatch(n)
  /\ Start(First(waiting_q, n), <<>>, <<>>)
  /\ ReplaceLayers(NumLayersToQuantize)
  /\ OutsideSchedulerUnchanged

(* SystemExit is no Exception: it ends the loop and the process.           *)
ScheduleExits ==
  /\ stage = "schedule" /\ AdmitsByReplacing /\ RunsOutOfLayers
  /\ stage' = "exited"
  /\ UNCHANGED <<idVars, queueVars, planVars, gpu_free, gpu_num_free, gpu_num_blocks, gpu_kv, batchVars>>
  /\ OutsideSchedulerUnchanged

Decoding == stage = "schedule" /\ Admissible = 0 /\ ~AdmitsByReplacing

SchedulePreempting ==
  LET pool == PoolWith(ReplacedToDecode) IN
  /\ Decoding /\ Kept(pool) < Len(running_q)
  /\ PreemptBatch(pool)
  /\ Start(First(running_q, Kept(pool)), <<>>, NewlySwappedOut(pool))
  /\ IF ReplacedToDecode > 0 THEN ReplaceLayers(ReplacedToDecode)
                             ELSE RestoreLayers(Restorable(waiting_q))
  /\ OutsideSchedulerUnchanged

(* With nothing to do the batch is empty, and the loop sleeps.             *)
ScheduleDecode ==
  LET pool == PoolWith(ReplacedToDecode) IN
  /\ Decoding /\ Kept(pool) = Len(running_q)
  /\ DecodeBatch(pool)
  /\ Start(running_q', First(swapped_q, Returning(pool)), <<>>)
  /\ IF ReplacedToDecode > 0 \/ Returning(pool) > 0
       THEN ReplaceLayers(ReplacedToDecode)
       ELSE RestoreLayers(Restorable(waiting_q))
  /\ OutsideSchedulerUnchanged

-----------------------------------------------------------------------------
(* The main event loop: swapping                                           *)

EndIteration ==
  /\ stage' = "schedule"
  /\ cur_batch' = <<>> /\ cur_swap_in' = <<>> /\ cur_swap_out' = <<>>

(* The exception is printed; what the scheduler has done stays done.       *)
IterationRaises == EndIteration /\ upset' = "engine"

OutsideModelUnchanged ==
  UNCHANGED <<requestVars, idVars, queueVars, arrivalVars, layerVars, num_gpu_blocks, gpu_num_blocks>>

IdsOf(requests) == Map(requests, request_id)

(* Any block number beyond num_blocks_org selects the copy for lent        *)
(* regions, which needs a group: the list may be empty.                    *)
Combined(src, dst) == \E b \in ToSet(src \o dst) : b > NumGpuBlocks
CopyRaises(src, dst) == src = <<>> \/ (Combined(src, dst) /\ k_cache_new = <<>>)

Copied(src, dst, from, to) ==
  [b \in DOMAIN to |-> IF Contains(dst, b)
                         THEN from[src[CHOOSE i \in DOMAIN dst : dst[i] = b]]
                         ELSE to[b]]

(* swap_blocks_new_kv_combined computes the GPU address of a block that    *)
(* comes back from the number it had on the CPU.  Beyond the pool that is  *)
(* no KV memory.                                                           *)
CopiedIn(src, dst) ==
  IF Combined(src, dst) THEN Copied(src, src, cpu_kv, gpu_kv) ELSE Copied(src, dst, cpu_kv, gpu_kv)

(* _swap releases the source before it allocates the destination.          *)
SwapOut ==
  LET ids == IdsOf(cur_swap_out)
      src == GPU!Gathered(ids)
      dst == CPU!Selected(Len(src))
      targets == GPU!Lengths(ids)
  IN  /\ stage = "swap_out"
      /\ GPU!FreeForSeqs(ids)
      /\ IF CPU!EnoughFree(ids, targets)
           THEN CPU!AllocateForSeqs(ids, targets)
           ELSE UNCHANGED <<cpu_free, cpu_num_free, cpu_table>>
      /\ IF CPU!EnoughFree(ids, targets) /\ ~CopyRaises(src, dst)
           THEN /\ cpu_kv' = Copied(src, dst, gpu_kv, cpu_kv)
                /\ stage' = "forward"
                /\ UNCHANGED <<batchVars, upset>>
           ELSE IterationRaises /\ UNCHANGED cpu_kv
      /\ OutsideModelUnchanged
      /\ UNCHANGED <<gpu_kv, num_outputs, faults>>

(* The copy is made before the blocks of the source are looked up.         *)
SwapInUncopied ==
  LET ids == IdsOf(cur_swap_in) IN
  /\ stage = "swap_in"
  /\ CPU!FreeForSeqs(ids)
  /\ GPU!AllocateForSeqs(ids, CPU!Lengths(ids))
  /\ stage' = "forward"
  /\ OutsideModelUnchanged
  /\ UNCHANGED <<gpu_kv, cpu_kv, batchVars, num_outputs, faults, upset>>

SwapIn ==
  LET ids == IdsOf(cur_swap_in)
      src == CPU!Gathered(ids)
      dst == GPU!Selected(Len(src))
      targets == CPU!Lengths(ids)
  IN  /\ stage = "swap_in"
      /\ CPU!FreeForSeqs(ids)
      /\ IF GPU!EnoughFree(ids, targets)
           THEN GPU!AllocateForSeqs(ids, targets)
           ELSE UNCHANGED <<gpu_free, gpu_num_free, gpu_table>>
      /\ IF GPU!EnoughFree(ids, targets) /\ ~CopyRaises(src, dst)
           THEN /\ gpu_kv' = CopiedIn(src, dst)
                /\ stage' = "forward"
                /\ UNCHANGED <<batchVars, upset>>
           ELSE IterationRaises /\ UNCHANGED gpu_kv
      /\ OutsideModelUnchanged
      /\ UNCHANGED <<cpu_kv, num_outputs, faults>>

-----------------------------------------------------------------------------
(* The main event loop: the forward pass                                   *)

(* forward() takes the first num_prefill_seqs sequences for the prefills,  *)
(* whichever requests they are.                                            *)
NumPrefills == Cardinality({i \in DOMAIN cur_batch : IsPrefillStage(cur_batch[i])})

InputLen(r) == IF IsPrefillStage(r) THEN prompt_len[r] ELSE 1

DecodingLens ==
  LET decoding == Keep(cur_batch, {r \in Requests : ~IsPrefillStage(r)})
  IN  [i \in DOMAIN decoding |-> prompt_len[decoding[i]] + num_outputs[decoding[i]]]

SeqLen(i) == IF i <= NumPrefills THEN InputLen(cur_batch[i]) ELSE DecodingLens[i - NumPrefills]

Targets == [i \in DOMAIN cur_batch |-> CeilDiv(SeqLen(i), BlockSize)]

Aligned == \A i \in DOMAIN cur_batch : IsPrefillStage(cur_batch[i]) <=> i <= NumPrefills

AllocationSucceeds ==
  /\ GPU!TargetsMakeSense(IdsOf(cur_batch), Targets)
  /\ GPU!EnoughFree(IdsOf(cur_batch), Targets)

(* What the i-th sequence writes: a prefill all its blocks, a decode the   *)
(* slot of its last token, which opens a new block or extends one.  In a   *)
(* batch that is not aligned it writes other sequences' tokens.            *)
Written(i, block_index) ==
  IF i <= NumPrefills THEN TRUE
  ELSE block_index = Targets[i] /\ (SeqLen(i) - 1) % BlockSize = 0

WriteKv ==
  gpu_kv' = [b \in 1 .. MaxGpuBlocks |->
    LET slots == {s \in (DOMAIN cur_batch) \X (1 .. MaxGpuBlocks) :
                    LET row == gpu_table'[request_id[cur_batch[s[1]]]] IN
                    /\ s[2] <= Len(row) /\ row[s[2]] = b
                    /\ s[2] <= Targets[s[1]] /\ Written(s[1], s[2])}
    IN  IF slots = {} THEN gpu_kv[b]
        ELSE LET slot == CHOOSE s \in slots : TRUE
             IN  IF Aligned THEN <<cur_batch[slot[1]], slot[2]>> ELSE NoKv]

Forward ==
  /\ stage = "forward" /\ AllocationSucceeds
  /\ GPU!AllocateForSeqs(IdsOf(cur_batch), Targets)
  /\ WriteKv
  /\ num_outputs' = [r \in Requests |->
                       num_outputs[r] + IF Contains(cur_batch, r) THEN 1 ELSE 0]
  /\ stage' = "finish"
  /\ upset' = IF upset = "batch" THEN "none" ELSE upset
  /\ OutsideModelUnchanged
  /\ UNCHANGED <<cpuVars, batchVars, faults>>

(* The assertion or the RuntimeError of the block manager.                 *)
ForwardNotAllocated ==
  /\ stage = "forward" /\ ~AllocationSucceeds
  /\ IterationRaises
  /\ OutsideModelUnchanged
  /\ UNCHANGED <<gpu_free, gpu_num_free, gpu_table, gpu_kv, cpuVars, num_outputs, faults>>

(* The pass raises after the allocation, for instance out of GPU memory.   *)
ForwardRaises ==
  /\ stage = "forward" /\ AllocationSucceeds /\ faults < ForwardFaults
  /\ GPU!AllocateForSeqs(IdsOf(cur_batch), Targets)
  /\ faults' = faults + 1
  /\ IterationRaises
  /\ OutsideModelUnchanged
  /\ UNCHANGED <<gpu_kv, cpuVars, num_outputs>>

(* The GPU blocks of the finished requests are not released.               *)
FinishBatchLeaks ==
  /\ stage = "finish"
  /\ CPU!FreeForSeqs(IdsOf(Keep(cur_batch, Finished)))
  /\ OnBatchFinish(cur_batch)
  /\ EndIteration
  /\ UNCHANGED <<requestVars, num_outputs, planVars, gpuVars, cpu_kv, arrivalVars, faults>>

(* free_seqs_resources of the finished requests, then on_batch_finish.     *)
FinishBatch ==
  LET ids == IdsOf(Keep(cur_batch, Finished)) IN
  /\ stage = "finish"
  /\ GPU!FreeForSeqs(ids)
  /\ CPU!FreeForSeqs(ids)
  /\ OnBatchFinish(cur_batch)
  /\ EndIteration
  /\ UNCHANGED <<requestVars, num_outputs, planVars, gpu_num_blocks, gpu_kv, cpu_kv, arrivalVars, faults>>

-----------------------------------------------------------------------------
TokenizationLoop == TakeTokenized \/ TakeUntokenized \/ Tokenized

MainLoop ==
  \/ SchedulePrefill \/ ScheduleReplacing \/ ScheduleExits
  \/ SchedulePreempting \/ ScheduleDecode
  \/ SwapOut \/ SwapIn
  \/ Forward \/ ForwardNotAllocated \/ ForwardRaises
  \/ FinishBatch

Next == AddRequest \/ TokenizationLoop \/ MainLoop

Spec == Init /\ [][Next]_vars

(* asyncio runs every ready coroutine, and run_in_executor and the         *)
(* tokenization engine complete what they are given.                       *)
FairSpec == Spec /\ WF_vars(TokenizationLoop) /\ WF_vars(MainLoop)

-----------------------------------------------------------------------------
(* Properties                                                              *)

AllQueues == untokenized \o tokenizing \o waiting_q \o running_q \o swapped_q
InFlight == running_q \o swapped_q

(* Whatever raises, a request that has arrived and is not finished is in   *)
(* exactly one queue, exactly once, and a finished one is in none: no      *)
(* request is dropped, served twice or kept after its last token.          *)
NoRequestLost ==
  /\ IsInjective(AllQueues)
  /\ ToSet(AllQueues) = {r \in 1 .. arrived :
                           IsFinished(r) => stage = "finish" /\ Contains(cur_batch, r)}

(* On both devices: no block is leaked, given to two sequences or counted  *)
(* wrongly, through admissions, preemptions, returns, ends and exceptions, *)
(* and the pool the scheduler plans with is the one that is there.         *)
BlocksAccounted ==
  /\ GPU!EveryBlockHasOnePlace(1 .. gpu_num_blocks)
  /\ CPU!EveryBlockHasOnePlace(1 .. NumCpuBlocks)
  /\ num_gpu_blocks = gpu_num_blocks

(* Ids index the block tables, so reusing one too early mixes two caches:  *)
(* the ids in flight are distinct, the others are available once each, and *)
(* an available id owns no block on either device.                         *)
IdsAccounted ==
  /\ IsInjective(available_ids \o IdsOf(InFlight))
  /\ ToSet(available_ids \o IdsOf(InFlight)) = RequestIds
  /\ \A id \in ToSet(available_ids) : gpu_table[id] = <<>> /\ cpu_table[id] = <<>>

HoldsKv(table, kv, r) ==
  \A i \in 1 .. CeilDiv(prompt_len[r] + num_outputs[r] - 1, BlockSize) :
    /\ i <= Len(table[request_id[r]])
    /\ kv[table[request_id[r]][i]] = <<r, i>>

OnGpu(r) == IF stage = "swap_out" THEN Contains(running_q \o cur_swap_out, r)
            ELSE Contains(running_q, r) /\ ~(stage = "swap_in" /\ Contains(cur_swap_in, r))

(* "Swap out (move blocks from GPU to CPU) the specified sequences"        *)
(* (model.py:573): a request that has produced tokens finds the KV cache   *)
(* of all of them again, block by block and in order, on the device where  *)
(* the queues say it is, however often it is moved.                        *)
KvIntact ==
  \A r \in ToSet(InFlight) : num_outputs[r] \in 1 .. output_len[r] - 1 =>
    IF OnGpu(r) THEN HoldsKv(gpu_table, gpu_kv, r) ELSE HoldsKv(cpu_table, cpu_kv, r)

(* The scheduler counts blocks by itself and the block manager allocates   *)
(* them two awaits later: its count always covers what the forward pass    *)
(* then needs, and the batch is in the order forward() takes for granted.  *)
ForwardFits == stage = "forward" => AllocationSucceeds /\ Aligned

(* The layers replaced for a batch make the room it needs, also when the   *)
(* last of their groups is only partly needed: a pass that no restoration  *)
(* and no exception has come between fits the pool.                        *)
ReplacementMakesRoom == upset = "none" => ForwardFits

(* exit() is never called: the loops ask for no more layers than are left, *)
(* and running_q stays within a batch.                                     *)
KeepsRunning == stage # "exited" /\ Len(running_q) <= MaxBatchSize

(* Layer replacement in the scheduler is atomic morphing too: a step adds  *)
(* the memory of a whole run of replaced layers to the pool, or takes the  *)
(* newest groups back while none of their blocks is in use.                *)
Position(layers) == [i \in DOMAIN layers |-> NumLayers - layers[i]]
Morphing == INSTANCE AtomicMorphing WITH
              LayersPerAction <- NumLayersToQuantize,
              BaseBlocks <- NumGpuBlocks,
              GroupSize <- LentBlocks,
              w4 <- Position(layer_quant_list),
              lent <- Position(k_cache_new),
              used <- UNION {ToSet(gpu_table[i]) : i \in RequestIds},
              failed <- FALSE
ImplementsAtomicMorphing == Morphing!Spec

(* Lower precision is paid for only while there is load: once every        *)
(* request that has come is served, all layers are FP16 again, or the next *)
(* request comes.                                                          *)
AllServed == \A r \in 1 .. arrived : IsFinished(r)
PrecisionReturns ==
  (AllServed /\ stage = "schedule") ~> (layer_quant_list = <<>> \/ ~AllServed)

(* "Logic error: Some sequences have more blocks already allocated than    *)
(* needed" is asserted not to happen (block_manager.py:95).                *)
AssertionHolds == stage = "forward" => GPU!TargetsMakeSense(IdsOf(cur_batch), Targets)

(* The engine implements first come, first served serving.                 *)
Service == INSTANCE FcfsService WITH
             produced <- num_outputs,
             admitted <- Cardinality({r \in Requests : request_id[r] # -1}),
             preempted <- ToSet(swapped_q)
ImplementsFcfsService == Service!Spec

(* A request that can be served alone, as every request of the model can,  *)
(* is finished, however it is preempted on the way.                        *)
Servable(r) ==
  /\ prompt_len[r] + output_len[r] - 1 <= NumGpuBlocks * BlockSize
  /\ prompt_len[r] <= MaxTokensInBatch
EveryRequestFinishes ==
  \A r \in Requests :
    (r <= arrived /\ \A s \in Requests : Servable(s)) ~> IsFinished(r)
=============================================================================
