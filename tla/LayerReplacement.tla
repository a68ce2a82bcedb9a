-------------------------- MODULE LayerReplacement --------------------------
(***************************************************************************)
(* Layer replacement inside the scheduler (quant_serve): the branches of   *)
(* server/scheduler.py that replace layers to make room or restore them,   *)
(* and the functions of server/memory_utils.py they call.                  *)
(*                                                                         *)
(* Layers are replaced from the last one down.  A replaced layer lends the *)
(* tail of its memory to the KV cache as a group of LentBlocks blocks at   *)
(* the end of the pool; restoring it takes that group away again.  All     *)
(* layers have the same size, so every group has.                          *)
(***************************************************************************)
EXTENDS FcfsScheduler

CONSTANTS
  QuantServe,             (* engine_config.quant_serve                     *)
  NumLayers,              (* model_config.num_layers                       *)
  NumLayersToQuantize,    (* engine_config.num_layers_to_quantize          *)
  NumLayersToQuantizeMax, (* engine_config.num_layers_to_quantize_max      *)
  LentBlocks,             (* kv_cache_new_block_size                       *)
  AwqLayers               (* layers awq_mode replaces for good at the start *)

ASSUME ReplacementAssumption ==
  /\ QuantServe \in BOOLEAN
  /\ {NumLayers, NumLayersToQuantize, LentBlocks} \subseteq Nat \ {0}
  /\ NumLayersToQuantize <= NumLayers \* the warm-up replaces that many
  /\ NumLayersToQuantizeMax \in Nat
  /\ AwqLayers \in 0 .. NumLayers
  /\ AwqLayers > 0 => ~QuantServe

VARIABLES
  layer_quant_list,       (* the replaced layers, oldest first             *)
  is_layer_quant_list,    (* per layer                                     *)
  next_unquantized_layer,
  k_cache_new,            (* the layers in whose memory the groups lie     *)
  gpu_num_blocks,         (* gpu_block_manager.num_blocks                  *)
  gpu_free, gpu_num_free  (* its is_block_free and num_free_blocks         *)

layerVars == <<layer_quant_list, is_layer_quant_list, next_unquantized_layer, k_cache_new>>
poolVars == <<gpu_num_blocks, gpu_free, gpu_num_free, num_gpu_blocks>>

Layers == 0 .. NumLayers - 1
MaxGpuBlocks == NumGpuBlocks + NumLayers * LentBlocks

LayersTypeOK ==
  /\ {layer_quant_list, k_cache_new} \subseteq Seq(Layers)
  /\ is_layer_quant_list \in [Layers -> BOOLEAN]
  /\ next_unquantized_layer \in Layers \cup {-1}
  /\ gpu_num_blocks \in NumGpuBlocks .. MaxGpuBlocks

(* The next n layers to replace.                                           *)
NextLayers(n) == [i \in 1 .. n |-> next_unquantized_layer - i + 1]

(* The warm-up replaces and restores NumLayersToQuantize layers.           *)
LayersInit ==
  /\ layer_quant_list = [i \in 1 .. AwqLayers |-> NumLayers - i]
  /\ is_layer_quant_list = [l \in Layers |-> l >= NumLayers - AwqLayers]
  /\ next_unquantized_layer = NumLayers - 1 - AwqLayers
  /\ k_cache_new = layer_quant_list
  /\ gpu_num_blocks = NumGpuBlocks + AwqLayers * LentBlocks
  /\ num_gpu_blocks = gpu_num_blocks

-----------------------------------------------------------------------------
(* org2quant_and_update_kvcache and quant2org_and_update_kvcache, n times  *)

Org2Quant(n) ==
  /\ layer_quant_list' = layer_quant_list \o NextLayers(n)
  /\ is_layer_quant_list' = [l \in Layers |-> is_layer_quant_list[l] \/ Contains(NextLayers(n), l)]
  /\ next_unquantized_layer' = next_unquantized_layer - n
  /\ k_cache_new' = k_cache_new \o NextLayers(n)
  /\ gpu_num_blocks' = gpu_num_blocks + n * LentBlocks
  /\ gpu_num_free' = gpu_num_free + n * LentBlocks
  /\ gpu_free' = gpu_free \cup (gpu_num_blocks + 1 .. gpu_num_blocks')
  /\ num_gpu_blocks' = num_gpu_blocks + n * LentBlocks

(* The scheduler is not told that the blocks are gone.                     *)
Quant2OrgUntold(n) ==
  LET restored == {next_unquantized_layer + i : i \in 1 .. n} IN
  /\ layer_quant_list' = Keep(layer_quant_list, Layers \ restored)
  /\ is_layer_quant_list' = [l \in Layers |-> is_layer_quant_list[l] /\ l \notin restored]
  /\ next_unquantized_layer' = next_unquantized_layer + n
  /\ k_cache_new' = First(k_cache_new, Len(k_cache_new) - n)
  /\ gpu_num_blocks' = gpu_num_blocks - n * LentBlocks
  /\ gpu_num_free' = gpu_num_free - n * LentBlocks
  /\ gpu_free' = gpu_free \cap (1 .. gpu_num_blocks')
  /\ UNCHANGED num_gpu_blocks

(* is_block_free is cut at its end, whichever blocks those are.            *)
Quant2Org(n) ==
  LET restored == {next_unquantized_layer + i : i \in 1 .. n} IN
  /\ layer_quant_list' = Keep(layer_quant_list, Layers \ restored)
  /\ is_layer_quant_list' = [l \in Layers |-> is_layer_quant_list[l] /\ l \notin restored]
  /\ next_unquantized_layer' = next_unquantized_layer + n
  /\ k_cache_new' = First(k_cache_new, Len(k_cache_new) - n)
  /\ gpu_num_blocks' = gpu_num_blocks - n * LentBlocks
  /\ gpu_num_free' = gpu_num_free - n * LentBlocks
  /\ gpu_free' = gpu_free \cap (1 .. gpu_num_blocks')
  /\ num_gpu_blocks' = num_gpu_blocks - n * LentBlocks

(* The group at this position is not looked at.                            *)
KvCacheUnusedUnchecked(group) == TRUE

KvCacheUnused(group) ==
  LET start == NumGpuBlocks + LentBlocks * (group - 1)
  IN  start + 1 .. start + LentBlocks \subseteq gpu_free

(* Only whole batches of layers are restored.                              *)
RestorableWholeBatches(waiting) ==
  IF /\ QuantServe
     /\ Len(layer_quant_list) >= NumLayersToQuantize /\ waiting = <<>>
     /\ gpu_num_free >= LentBlocks * NumLayersToQuantize
    THEN Longest({n \in 1 .. NumLayersToQuantize :
           /\ gpu_num_free - (n - 1) * LentBlocks > LentBlocks * (NumLayersToQuantize \div 2)
           /\ KvCacheUnused(Len(k_cache_new) - n + 1)})
    ELSE 0

(* try_quant2org: how many layers it restores.                             *)
Restorable(waiting) ==
  IF /\ QuantServe
     /\ layer_quant_list # <<>> /\ waiting = <<>>
     /\ gpu_num_free >= LentBlocks * NumLayersToQuantize
    THEN Longest({n \in 1 .. NumLayersToQuantize :
           /\ n <= Len(layer_quant_list)
           /\ gpu_num_free - (n - 1) * LentBlocks > LentBlocks * (NumLayersToQuantize \div 2)
           /\ KvCacheUnused(Len(k_cache_new) - n + 1)})
    ELSE 0

-----------------------------------------------------------------------------
(* get_next_batch: replacing layers for new requests                       *)

PoolWith(n) == num_gpu_blocks + n * LentBlocks

ReplacementNeeded(n) == CeilDiv(BlocksWith(n) - num_gpu_blocks, LentBlocks)

(* The layers that are left are not counted.                               *)
AdmitsByReplacingAny ==
  LET n == AdmissibleIn(num_gpu_blocks) + 1 IN
  /\ QuantServe /\ swapped_q = <<>>
  /\ n \in DOMAIN waiting_q /\ WithinLimits(n)
  /\ next_unquantized_layer >= NumLayersToQuantizeMax
  /\ ReplacementNeeded(n) <= NumLayersToQuantize

(* The first request that finds no room is worth replacing layers for.     *)
AdmitsByReplacing ==
  LET n == AdmissibleIn(num_gpu_blocks) + 1 IN
  /\ QuantServe /\ swapped_q = <<>>
  /\ n \in DOMAIN waiting_q /\ WithinLimits(n)
  /\ next_unquantized_layer >= NumLayersToQuantizeMax
  /\ ReplacementNeeded(n) <= NumLayersToQuantize
  /\ next_unquantized_layer - ReplacementNeeded(n) >= 0

(* The loop replaces NumLayersToQuantize layers, however many are needed   *)
(* and left: org2quant calls exit() when it is asked for one too many.     *)
RunsOutOfLayers == next_unquantized_layer + 1 < NumLayersToQuantize

(* The layers the decoding branch replaces before it preempts anyone.      *)
ReplacedToDecode ==
  LET most == Min({NumLayersToQuantize, next_unquantized_layer + 1}) IN
  IF QuantServe
    THEN Min({n \in 0 .. most : BlocksOf(running_q) <= PoolWith(n)} \cup {most})
    ELSE 0
=============================================================================
