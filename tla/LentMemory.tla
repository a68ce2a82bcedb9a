----------------------------- MODULE LentMemory -----------------------------
(***************************************************************************)
(* Forward passes over a KV cache that lies partly in the memory of        *)
(* replaced layers, cell by cell: morphserve/real_executor.py replaces,    *)
(* lends, takes back and restores one layer after the other in any order;  *)
(* worker/layers/transformer_layer.py stores and reads the cache through   *)
(* the kernels that order calls for.                                       *)
(*                                                                         *)
(* Layers change between passes only.  How copies overlap with passes is   *)
(* the subject of AsyncTransfer, what happens when one raises that of      *)
(* MorphExecutor; here a copy is complete when the next pass begins.       *)
(***************************************************************************)
EXTENDS PagedAttention

CONSTANTS
  NumRequests,   (* bound of the model: requests that ever arrive          *)
  PromptLens,    (* bound of the model: lengths of prompts                 *)
  MaxLen,        (* bound of the model: tokens of one request              *)
  MaxBatch,      (* engine_config.max_batch_size                           *)
  NumBlocksOrg   (* gpu_block_manager.num_blocks_org                       *)

ASSUME LentAssumption ==
  /\ {NumRequests, MaxLen, MaxBatch, NumBlocksOrg} \subseteq Nat \ {0}
  /\ PromptLens \subseteq 1 .. MaxLen

VARIABLES
  mem,                  (* the memory of the GPU                           *)
  precision,            (* what transformer_layers holds per layer         *)
  kv_groups,            (* executor.kv_groups, in the order of lending     *)
  explicit_kv_regions,  (* model.explicit_kv_regions                       *)
  is_block_free, num_free_blocks, block_table,  (* gpu_block_manager       *)
  seq_len,              (* per request its tokens so far; 0: not arrived   *)
  finished,             (* requests that were freed                        *)
  pass,                 (* the forward pass that is under way, or NoPass   *)
  o                     (* what attention of the current layer has put out *)

poolVars == <<is_block_free, num_free_blocks, block_table>>
requestVars == <<seq_len, finished>>
layerVars == <<precision, kv_groups, explicit_kv_regions>>
vars == <<mem, precision, kv_groups, explicit_kv_regions,
          is_block_free, num_free_blocks, block_table, seq_len, finished, pass, o>>

Requests == 1 .. NumRequests
MaxBlocks == NumBlocksOrg + NumLayers * TailBlocks(0)

Gpu == INSTANCE BlockManager WITH NumBlocks <- MaxBlocks, Ids <- Requests,
         free_blocks <- is_block_free

(* The original cache lies behind the weights, keys first.                 *)
OriginalK == TopLevelSize + NumLayers * LayerSize
OriginalV == OriginalK + NumBlocksOrg * HalfBlock
Addresses == 0 .. OriginalV + NumBlocksOrg * HalfBlock - 1

NoPass == [kind |-> "none", batch |-> <<>>, layer |-> 0, stored |-> FALSE, attended |-> FALSE]

Grouped == {kv_groups[i].layer : i \in DOMAIN kv_groups}
GroupSize == IF kv_groups = <<>> THEN 0 ELSE kv_groups[1].blocks

(* What the kernels are given; blocks are numbered from 0 there.           *)
Caches ==
  [k |-> OriginalK, v |-> OriginalV, groups |-> kv_groups,
   num_blocks_org |-> NumBlocksOrg, kv_cache_new_block_size |-> GroupSize,
   org_layer_param_size |-> LayerSize]

Table == [r \in Requests |-> [i \in DOMAIN block_table[r] |-> block_table[r][i] - 1]]

Live == {r \in Requests \ finished : seq_len[r] > 0}

TypeOK ==
  /\ DOMAIN mem = Addresses
  /\ precision \in [Layers -> {"fp16", "w4"}]
  /\ \A i \in DOMAIN kv_groups :
       /\ kv_groups[i].layer \in Layers
       /\ CellsOf(kv_groups[i]) \subseteq Addresses
  /\ IsInjective([i \in DOMAIN kv_groups |-> kv_groups[i].layer])
  /\ Gpu!EveryBlockHasOnePlace(1 .. NumBlocksOrg + Len(kv_groups) * GroupSize)
  /\ seq_len \in [Requests -> 0 .. MaxLen]
  /\ pass.kind \in {"none", "prefill", "decode"}
  /\ \A r \in Requests : Len(block_table[r]) =
       IF r \in Live THEN CeilDivide(seq_len[r], BlockSize) ELSE 0

(* The weights are loaded and the cache is allocated with zeros.           *)
Init ==
  /\ mem = [a \in Addresses |->
       IF a < TopLevelSize \/ a >= OriginalK THEN Zero
         ELSE Fp16Image((a - TopLevelSize) \div LayerSize)[((a - TopLevelSize) % LayerSize) + 1]]
  /\ precision = [l \in Layers |-> "fp16"]
  /\ kv_groups = <<>> /\ explicit_kv_regions = FALSE
  /\ is_block_free = 1 .. NumBlocksOrg
  /\ num_free_blocks = NumBlocksOrg
  /\ block_table = [r \in Requests |-> <<>>]
  /\ seq_len = [r \in Requests |-> 0] /\ finished = {}
  /\ pass = NoPass /\ o = <<>>

-----------------------------------------------------------------------------
(* Changes of layers                                                       *)

(* The combined kernels are always taken.                                  *)
ExplicitNever(groups) == FALSE

(* _sync_model_state: fixed strides will do as long as the groups follow   *)
(* each other downwards, one layer apart.                                  *)
ExplicitNeeded(groups) ==
  /\ Len(groups) >= 2
  /\ \E i \in DOMAIN groups : groups[i].k # groups[1].k - (i - 1) * LayerSize

(* morph_to_w4 for one layer.                                              *)
MorphToW4(l) ==
  /\ precision[l] = "fp16"
  /\ mem' = Copied(mem, l, W4Image(l), PackedLayerSize)
  /\ precision' = [precision EXCEPT ![l] = "w4"]
  /\ UNCHANGED <<kv_groups, explicit_kv_regions, poolVars>>

(* expand_kv for one layer.  An expansion that raises changes nothing.     *)
ExpandKv(l) ==
  LET group == AcquireNewKvCache(l) IN
  /\ precision[l] = "w4" /\ l \notin Grouped
  /\ ~LendsNothing(l)
  /\ kv_groups # <<>> => group.blocks = GroupSize
  /\ mem' = Zeroed(mem, group)
  /\ kv_groups' = Append(kv_groups, group)
  /\ explicit_kv_regions' = ExplicitNeeded(kv_groups')
  /\ LET size == NumBlocksOrg + Len(kv_groups) * GroupSize
     IN  is_block_free' = is_block_free \cup (size + 1 .. size + group.blocks)
  /\ num_free_blocks' = num_free_blocks + group.blocks
  /\ UNCHANGED <<precision, block_table>>

(* shrink_kv_before_restore for the newest group, when all its blocks are  *)
(* free.                                                                   *)
ShrinkKv ==
  LET size == NumBlocksOrg + (Len(kv_groups) - 1) * GroupSize IN
  /\ kv_groups # <<>>
  /\ size + 1 .. size + GroupSize \subseteq is_block_free
  /\ kv_groups' = Front(kv_groups)
  /\ explicit_kv_regions' = ExplicitNeeded(kv_groups')
  /\ is_block_free' = is_block_free \cap (1 .. size)
  /\ num_free_blocks' = num_free_blocks - GroupSize
  /\ UNCHANGED <<mem, precision, block_table>>

(* restore_fp16 for one layer, whatever it lends.                          *)
RestoreFp16Lending(l) ==
  /\ precision[l] = "w4"
  /\ mem' = Copied(mem, l, Fp16Image(l), LayerSize)
  /\ precision' = [precision EXCEPT ![l] = "fp16"]
  /\ UNCHANGED <<kv_groups, explicit_kv_regions, poolVars>>

(* restore_fp16 for one layer.                                             *)
RestoreFp16(l) ==
  /\ precision[l] = "w4" /\ l \notin Grouped
  /\ mem' = Copied(mem, l, Fp16Image(l), LayerSize)
  /\ precision' = [precision EXCEPT ![l] = "fp16"]
  /\ UNCHANGED <<kv_groups, explicit_kv_regions, poolVars>>

ChangeLayers ==
  /\ pass = NoPass
  /\ UNCHANGED <<requestVars, pass, o>>
  /\ ShrinkKv \/ \E l \in Layers : MorphToW4(l) \/ ExpandKv(l) \/ RestoreFp16(l)

-----------------------------------------------------------------------------
(* A forward pass                                                          *)

BlocksFor(batch) == [i \in DOMAIN batch |-> CeilDivide(seq_len'[batch[i]], BlockSize)]

(* forward: the blocks of the pass are allocated before anything runs.     *)
StartPass(kind, batch) ==
  /\ pass = NoPass
  /\ pass' = [NoPass EXCEPT !.kind = kind, !.batch = batch]
  /\ Gpu!EnoughFree(batch, BlocksFor(batch))
  /\ Gpu!AllocateForSeqs(batch, BlocksFor(batch))
  /\ UNCHANGED <<mem, layerVars, finished, o>>

InOrder(requests) ==
  [i \in 1 .. Cardinality(requests) |->
     CHOOSE r \in requests : Cardinality({q \in requests : q <= r}) = i]

(* Requests are numbered as they arrive.                                   *)
StartPrefill ==
  LET arrived == {r \in Requests : seq_len[r] > 0} IN
  \E last \in Requests \ arrived :
  \E prompt \in [(1 .. last) \ arrived -> PromptLens] :
    /\ Cardinality(DOMAIN prompt) + Cardinality(Live) <= MaxBatch
    /\ seq_len' = [r \in Requests |-> IF r \in DOMAIN prompt THEN prompt[r] ELSE seq_len[r]]
    /\ StartPass("prefill", InOrder(DOMAIN prompt))

(* Every request that is being served decodes its next token.              *)
StartDecoding ==
  /\ Live # {} /\ \A r \in Live : seq_len[r] < MaxLen
  /\ seq_len' = [r \in Requests |-> IF r \in Live THEN seq_len[r] + 1 ELSE seq_len[r]]
  /\ StartPass("decode", InOrder(Live))

Tokens(r) ==
  IF pass.kind = "prefill" THEN PrefillTokens(r, seq_len[r]) ELSE DecodingTokens(r, seq_len[r])

Writes ==
  LET tokens == UNION {Tokens(r) : r \in ToSet(pass.batch)}
  IN  IF explicit_kv_regions THEN StoresExplicitly(Caches, Table, pass.layer, tokens)
                             ELSE StoresCombined(Caches, Table, pass.layer, tokens)

(* The default stream stores the keys and values of the layer, then        *)
(* records store_kvcache_event.  Prompts attend to k and v directly.       *)
StoreKv ==
  /\ pass.kind # "none" /\ ~pass.stored
  /\ mem' = Stored(mem, Writes)
  /\ pass' = [pass EXCEPT !.stored = TRUE]
  /\ UNCHANGED <<layerVars, poolVars, requestVars, o>>

Attended(stale) ==
  Attention(mem, Caches, explicit_kv_regions, Table, stale, pass.batch,
            [i \in DOMAIN pass.batch |-> seq_len[pass.batch[i]]], pass.layer)

(* Without store_kvcache_event the stream need not wait for the store.     *)
AttendAtOnce ==
  /\ pass.kind = "decode" /\ ~pass.attended
  /\ \E stale \in BOOLEAN : o' = Attended(stale)
  /\ pass' = [pass EXCEPT !.attended = TRUE]
  /\ UNCHANGED <<mem, layerVars, poolVars, requestVars>>

(* decoding_piggyback_stream waits for store_kvcache_event and attends.    *)
Attend ==
  /\ pass.kind = "decode" /\ pass.stored /\ ~pass.attended
  /\ \E stale \in BOOLEAN : o' = Attended(stale)
  /\ pass' = [pass EXCEPT !.attended = TRUE]
  /\ UNCHANGED <<mem, layerVars, poolVars, requestVars>>

(* The default stream waits for the attention and goes on to the output    *)
(* projection, the feed-forward network and the next layer.                *)
FinishLayer ==
  /\ pass.stored /\ (pass.kind = "decode" => pass.attended)
  /\ o' = <<>>
  /\ pass' = IF pass.layer = NumLayers - 1 THEN NoPass
               ELSE [pass EXCEPT !.layer = @ + 1, !.stored = FALSE, !.attended = FALSE]
  /\ UNCHANGED <<mem, layerVars, poolVars, requestVars>>

(* free_seqs_resources: the request has produced its last token.           *)
FreeSeq(r) ==
  /\ pass = NoPass /\ r \in Live
  /\ Gpu!FreeForSeqs(<<r>>)
  /\ finished' = finished \cup {r}
  /\ UNCHANGED <<mem, layerVars, seq_len, pass, o>>

Next ==
  \/ ChangeLayers
  \/ StartPrefill \/ StartDecoding
  \/ StoreKv \/ Attend \/ FinishLayer
  \/ \E r \in Requests : FreeSeq(r)

Spec == Init /\ [][Next]_vars

-----------------------------------------------------------------------------
(* Whatever order layers are replaced, lent and restored in, and whatever  *)
(* passes store in lent memory: every attribute of every layer reads the   *)
(* weights of that layer in the precision that is installed.               *)
WeightsReadBack ==
  \A l \in Layers : IF precision[l] = "fp16" THEN Fp16ReadBack(mem, l) ELSE W4ReadBack(mem, l)

(* The keys and values of a live request are in the slots its block table  *)
(* gives it, in the tensor of the group each block belongs to, although a  *)
(* store computes most addresses without that tensor, and although groups  *)
(* come and go and with them the kernels that are chosen.                  *)
KvReadBack ==
  pass = NoPass =>
    \A r \in Live : \A p \in 0 .. seq_len[r] - 1 : \A l \in Layers : \A kv \in KV :
      mem[OwnAddress(Caches, kv, BlockOf(Table, <<r, p>>), l, OffsetOf(<<r, p>>))]
        = <<kv, <<r, p>>, l>>

(* Whatever the order of lending, the group of each layer lies within its  *)
(* own region and behind the packed weights that are installed there.      *)
LentTailsApart ==
  \A i \in DOMAIN kv_groups :
    LET l == kv_groups[i].layer IN
    /\ precision[l] = "w4"
    /\ CellsOf(kv_groups[i]) \subseteq RegionOf(l) + PackedLayerSize .. RegionOf(l) + LayerSize - 1
    /\ \A j \in DOMAIN kv_groups \ {i} : kv_groups[j].layer # l

(* Where explicit regions are not asked for, the address the combined      *)
(* kernels compute for a slot of any block of the pool, from the first     *)
(* group alone, is the one of the block's own group.                       *)
CombinedReaches ==
  ~explicit_kv_regions =>
    \A kv \in KV, index \in 0 .. NumBlocksOrg + Len(kv_groups) * GroupSize - 1 :
    \A layer \in Layers, offset \in 0 .. BlockSize - 1 :
      CombinedAddress(Caches, kv, index, layer, offset)
        = OwnAddress(Caches, kv, index, layer, offset)

(* The slots of lent blocks never hold what is left of weights: the        *)
(* kernels load whole blocks, and a weight times a zero score may be NaN.  *)
LentCellsHoldKv ==
  \A i \in DOMAIN kv_groups : \A a \in CellsOf(kv_groups[i]) :
    mem[a] = Zero \/ mem[a][1] \in KV

(* Decoding attends to every token of the request itself, each weighted by *)
(* its own score, and to nothing else, in every head of every sequence.    *)
AttendsToOwnTokens ==
  \A p \in DOMAIN o :
    LET r == pass.batch[p[1]]
    IN  IsSoftmaxOf(o[p], Dense(r, seq_len[r], p[2], pass.layer))

(* The same where the mid phase addresses every row it has to, that is,    *)
(* where it is not used, or the batch or the model has one row per head.   *)
AttendsWhereRowsAreMet ==
  \/ explicit_kv_regions /\ Len(pass.batch) > 1 /\ NumHeads > 1
  \/ AttendsToOwnTokens
=============================================================================
