---------------------------- MODULE KvAddressing ----------------------------
(***************************************************************************)
(* worker/kernels/kvcache_mgmt.py: the address of a slot of the KV cache   *)
(* when part of the pool lies in the lent tails of layers, in the two ways *)
(* the kernels compute it, and what a pass stores.                         *)
(*                                                                         *)
(* `caches` is a record: k, v (the original cache), groups (the lent ones, *)
(* as LayerMemory makes them), num_blocks_org, kv_cache_new_block_size and *)
(* org_layer_param_size.  A block index is at least 0; -1 is no block.     *)
(***************************************************************************)
EXTENDS LayerMemory

KV == {"k", "v"}

(* offs_kvcache within a tensor [num_blocks, num_layers, .., block_size]   *)
SlotOf(index, layer, offset) == (index * NumLayers + layer) * BlockSize + offset

-----------------------------------------------------------------------------
(* The combined kernels know the first lent group only, and subtract one   *)
(* layer's size for each group before the one the block is in.             *)
CombinedAddress(caches, kv, index, layer, offset) ==
  IF index < caches.num_blocks_org
    THEN caches[kv] + SlotOf(index, layer, offset)
    ELSE LET lent == index - caches.num_blocks_org
             layer_skip == lent \div caches.kv_cache_new_block_size
         IN  caches.groups[1][kv] - layer_skip * caches.org_layer_param_size
               + SlotOf(lent - layer_skip * caches.kv_cache_new_block_size, layer, offset)

(* The tables the explicit launches are given: the original cache and each *)
(* lent group see only their own blocks, renumbered from 0.                *)
OriginalTable(caches, index) == IF index >= caches.num_blocks_org THEN -1 ELSE index

LocalTable(caches, group, index) ==
  LET start == caches.num_blocks_org + (group - 1) * caches.kv_cache_new_block_size
      end == start + caches.kv_cache_new_block_size
  IN  IF index < start \/ index >= end THEN -1 ELSE index - start

(* The launches of a store or an attention through explicit regions: where *)
(* each finds a block, or -1.  Launch 0 is the original cache.             *)
ExplicitLaunches(caches) == 0 .. Len(caches.groups)

LaunchTable(caches, launch, index) ==
  IF launch = 0 THEN OriginalTable(caches, index) ELSE LocalTable(caches, launch, index)

LaunchBase(caches, kv, launch) == IF launch = 0 THEN caches[kv] ELSE caches.groups[launch][kv]

-----------------------------------------------------------------------------
(* What a pass stores.  A token is <<sequence, position>>.                 *)

(* The prefill kernel, one program per block of the prompt: the positions  *)
(* past its end are masked.                                                *)
PrefillTokens(seq, len) ==
  {<<seq, b * BlockSize + i>> : b \in 0 .. (len - 1) \div BlockSize, i \in 0 .. BlockSize - 1}
    \cap ({seq} \X (0 .. len - 1))

(* The decoding kernel: the last token of the sequence.                    *)
DecodingTokens(seq, len) == {<<seq, len - 1>>}

BlockOf(table, token) == table[token[1]][token[2] \div BlockSize + 1]
OffsetOf(token) == token[2] % BlockSize

(* What one launch writes: nothing where its table says -1.                *)
LaunchWrites(caches, launch, table, layer, tokens) ==
  {<<LaunchBase(caches, kv, launch)
       + SlotOf(LaunchTable(caches, launch, BlockOf(table, t)), layer, OffsetOf(t)),
     <<kv, t, layer>>>> :
    kv \in KV, t \in {u \in tokens : LaunchTable(caches, launch, BlockOf(table, u)) >= 0}}

(* store_kvcache_explicit_regions                                          *)
StoresExplicitly(caches, table, layer, tokens) ==
  UNION {LaunchWrites(caches, launch, table, layer, tokens) : launch \in ExplicitLaunches(caches)}

(* store_kvcache: the combined kernels also serve the original blocks; as  *)
(* long as no lent block is in the table the plain kernels do the same.    *)
StoresCombined(caches, table, layer, tokens) ==
  {<<CombinedAddress(caches, kv, BlockOf(table, t), layer, OffsetOf(t)), <<kv, t, layer>>>> :
    kv \in KV, t \in tokens}

Stored(mem, writes) ==
  [a \in DOMAIN mem |-> IF \E w \in writes : w[1] = a
                          THEN (CHOOSE w \in writes : w[1] = a)[2] ELSE mem[a]]

-----------------------------------------------------------------------------
(* Where the tensor of its own group has a slot: no kernel computes this.  *)
OwnAddress(caches, kv, index, layer, offset) ==
  IF index < caches.num_blocks_org
    THEN caches[kv] + SlotOf(index, layer, offset)
    ELSE LET group == (index - caches.num_blocks_org) \div caches.kv_cache_new_block_size + 1
         IN  caches.groups[group][kv] + SlotOf(LocalTable(caches, group, index), layer, offset)
=============================================================================
