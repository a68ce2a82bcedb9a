----------------------------- MODULE LayerMemory -----------------------------
(***************************************************************************)
(* Where the weights of the layers lie in GPU memory, how both precisions  *)
(* of a layer share its region, and the tail a replaced layer lends to the *)
(* KV cache: worker/weight.py, server/quantized_layer_manager.py, the      *)
(* registration in server/memory_utils.py and morphserve/autoawq_adapter.py*)
(* and memory_manager.cpp.                                                 *)
(*                                                                         *)
(* Memory is a function from addresses to contents.  One cell is one       *)
(* element, and an element is told by the tensor it comes from.            *)
(***************************************************************************)
EXTENDS Integers, Sequences, SequencesExt

CONSTANTS
  NumLayers,      (* model_config.num_layers                               *)
  BlockSize,      (* engine_config.block_size, in tokens                   *)
  TopLevelSize,   (* wte, lm_head and final_norm together                  *)
  NormSize,       (* a norm, in both precisions                            *)
  ProjSize,       (* an attention projection in FP16                       *)
  FfnSize,        (* a projection of the feed-forward network in FP16      *)
  PackedSize,     (* qweight, qzeros and scales of one W4 module together  *)
  Align           (* 256 bytes in the code                                 *)

ASSUME LayoutAssumption ==
  /\ {NumLayers, BlockSize, NormSize, ProjSize, FfnSize, PackedSize, Align} \subseteq Nat \ {0}
  /\ TopLevelSize \in Nat

Layers == 0 .. NumLayers - 1

(* The lengths of the two images of a layer below, as they are registered. *)
LayerSize == 2 * NormSize + 4 * ProjSize + 3 * FfnSize
PackedLayerSize == 2 * NormSize + 7 * PackedSize

(* "Layer requires .. bytes, but only .. bytes available" is not raised.   *)
ASSUME PackedFits == PackedLayerSize <= LayerSize

-----------------------------------------------------------------------------
(* Tensors packed back to back                                             *)

Norms == {"attn_norm", "ffn_norm"}
Ffn == {"up_proj", "gate_proj", "down_proj"}

(* register_weight, in order.                                              *)
RegisteredWeights == <<"attn_norm", "q_proj", "k_proj", "v_proj", "o_proj",
                       "ffn_norm", "up_proj", "gate_proj", "down_proj">>

(* The parameters, then the buffers, of a W4 layer.                        *)
PackedTensors == <<"attn_norm", "ffn_norm", "q_proj", "k_proj", "v_proj", "o_proj",
                   "gate_proj", "up_proj", "down_proj">>

TensorNames == ToSet(RegisteredWeights)
Fp16Size == [name \in TensorNames |->
  IF name \in Norms THEN NormSize ELSE IF name \in Ffn THEN FfnSize ELSE ProjSize]
W4Size == [name \in TensorNames |-> IF name \in Norms THEN NormSize ELSE PackedSize]

TensorOf(l, precision, name, size) == [j \in 1 .. size[name] |-> <<precision, l, name, j>>]

(* The elements of layer l in the order of the names, each tensor whole.   *)
Image(l, precision, names, size) ==
  FlattenSeq([i \in DOMAIN names |-> TensorOf(l, precision, names[i], size)])

(* The buffer load_weights copies a layer from, and the FP16 backup.       *)
Fp16Image(l) == Image(l, "fp16", RegisteredWeights, Fp16Size)

(* The pinned buffer of a W4 layer.                                        *)
W4Image(l) == Image(l, "w4", PackedTensors, W4Size)

OffsetIn(names, size, i) == FoldLeft(LAMBDA sum, n : sum + size[n], 0, SubSeq(names, 1, i - 1))

(* The views of a layer, in the order in which result tensors are bound to *)
(* the attributes of the layer: by name, from the offsets of tensor_map.   *)
Views(names, size) ==
  [i \in DOMAIN names |-> [name |-> names[i], offset |-> OffsetIn(names, size, i), size |-> size[names[i]]]]

(* up_proj and gate_proj were registered one after the other and are one   *)
(* strided view from then on.                                              *)
UpGateProj(up, gate) == [name |-> "up_gate_proj", offset |-> up.offset, size |-> up.size + gate.size]

Fp16Views ==
  LET views == Views(RegisteredWeights, Fp16Size)
  IN  SubSeq(views, 1, 6) \o <<UpGateProj(views[7], views[8]), views[9]>>

W4Views == Views(PackedTensors, W4Size)

-----------------------------------------------------------------------------
(* Regions                                                                 *)

(* register_layer_memory_org_gpu: where the region of a layer starts.      *)
RegionOf(l) == TopLevelSize + l * LayerSize

(* replace_layer_org2quant, replace_layer_quant2org and the async copier:  *)
(* an image of the registered size is copied to the start of the region.   *)
Copied(mem, l, image, size) ==
  [a \in DOMAIN mem |-> IF a - RegionOf(l) \in 0 .. size - 1
                          THEN image[a - RegionOf(l) + 1] ELSE mem[a]]

Aligned(address) == ((address + Align - 1) \div Align) * Align

Zero == <<"zero">>

HalfBlock == NumLayers * BlockSize   \* the K, or the V, of one block

(* The start of the lent tail when the padding is forgotten ...            *)
TailStartUnaligned(l) == RegionOf(l) + (PackedLayerSize \div Align) * Align

TailStart(l) == Aligned(RegionOf(l) + PackedLayerSize)

(* acquire_new_kvcache: as many whole blocks as the tail holds, first the  *)
(* keys of all of them, then the values, all set to zero.                  *)
TailBlocks(l) == (LayerSize - (TailStart(l) - RegionOf(l))) \div (2 * HalfBlock)

LendsNothing(l) == TailStart(l) - RegionOf(l) >= LayerSize \/ TailBlocks(l) = 0

AcquireNewKvCache(l) ==
  [layer |-> l, blocks |-> TailBlocks(l),
   k |-> TailStart(l), v |-> TailStart(l) + TailBlocks(l) * HalfBlock]

CellsOf(group) == group.k .. group.v + group.blocks * HalfBlock - 1

(* The tail with whatever bytes it held ...                                *)
NotZeroed(mem, group) == mem

Zeroed(mem, group) == [a \in DOMAIN mem |-> IF a \in CellsOf(group) THEN Zero ELSE mem[a]]

-----------------------------------------------------------------------------
(* What a view of a layer has to read: its own tensor, element by element. *)
Reads(mem, l, view, content) ==
  \A j \in 1 .. view.size : mem[RegionOf(l) + view.offset + j - 1] = content[j]

Fp16Tensor(l, name) ==
  IF name = "up_gate_proj"
    THEN TensorOf(l, "fp16", "up_proj", Fp16Size) \o TensorOf(l, "fp16", "gate_proj", Fp16Size)
    ELSE TensorOf(l, "fp16", name, Fp16Size)

W4Tensor(l, name) == TensorOf(l, "w4", name, W4Size)

(* rebuild_original_layer and restore_fp16_layer; swap_layer_in_place and  *)
(* install_autoawq_layer: the attributes of a layer read what they should. *)
Fp16ReadBack(mem, l) ==
  \A i \in DOMAIN Fp16Views : Reads(mem, l, Fp16Views[i], Fp16Tensor(l, Fp16Views[i].name))

W4ReadBack(mem, l) ==
  \A i \in DOMAIN W4Views : Reads(mem, l, W4Views[i], W4Tensor(l, W4Views[i].name))
=============================================================================
