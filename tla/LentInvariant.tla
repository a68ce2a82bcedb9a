--------------------------- MODULE LentInvariant ---------------------------
(***************************************************************************)
(* The inductive invariant of the memory: where the groups lie, what is    *)
(* installed in the regions, and which keys and values have been stored so *)
(* far, also in the middle of a pass.                                      *)
(***************************************************************************)
EXTENDS LentMemory

LentGroups == {AcquireNewKvCache(l) : l \in {m \in Layers : ~LendsNothing(m)}}

(* Groups are of distinct layers running W4, each what acquire_new_kvcache *)
(* makes of its layer, and all of one size.                                *)
GroupsInv ==
  /\ precision \in [Layers -> {"fp16", "w4"}]
  /\ kv_groups \in Seq(LentGroups)
  /\ \A i \in DOMAIN kv_groups :
       /\ kv_groups[i].blocks = GroupSize
       /\ precision[kv_groups[i].layer] = "w4"
       /\ \A j \in DOMAIN kv_groups \ {i} : kv_groups[j].layer # kv_groups[i].layer
  /\ explicit_kv_regions = ExplicitNeeded(kv_groups)

PoolSize == NumBlocksOrg + Len(kv_groups) * GroupSize

(* The requests of a pass are being served, and only what has arrived can  *)
(* have finished.                                                          *)
PassInv ==
  /\ pass \in [kind : {"none", "prefill", "decode"}, batch : Seq(Requests),
               layer : Layers, stored : BOOLEAN, attended : BOOLEAN]
  /\ pass.kind = "none" => pass = NoPass
  /\ ToSet(pass.batch) \subseteq Live
  /\ block_table \in [Requests -> Seq(1 .. PoolSize)]
  /\ finished \subseteq {r \in Requests : seq_len[r] > 0}

(* Each region starts with the image of what is installed.                 *)
WeightsInPlace ==
  \A l \in Layers :
    IF precision[l] = "fp16"
      THEN LET image == Fp16Image(l) IN \A j \in 1 .. LayerSize : mem[RegionOf(l) + j - 1] = image[j]
      ELSE LET image == W4Image(l) IN \A j \in 1 .. PackedLayerSize : mem[RegionOf(l) + j - 1] = image[j]

(* The tokens a pass stores, one layer after the other.                    *)
PassTokens == UNION {Tokens(r) : r \in ToSet(pass.batch)}

StoredBy(t, l) ==
  \/ t \notin PassTokens
  \/ l < pass.layer
  \/ l = pass.layer /\ pass.stored

TokenAddress(t, l, kv) == OwnAddress(Caches, kv, BlockOf(Table, t), l, OffsetOf(t))

Holds(t, l, kv) == mem[TokenAddress(t, l, kv)] = <<kv, t, l>>

KvInPlace ==
  \A r \in Live : \A p \in 0 .. seq_len[r] - 1 : \A l \in Layers :
    StoredBy(<<r, p>>, l) => \A kv \in KV : Holds(<<r, p>>, l, kv)

LentInv ==
  /\ TypeOK
  /\ GroupsInv
  /\ PassInv
  /\ WeightsInPlace
  /\ KvInPlace
  /\ LentCellsHoldKv
=============================================================================
