--------------------------- MODULE MorphExecutor ----------------------------
(***************************************************************************)
(* runtime/morphserve/real_executor.py: the executor that swaps layers     *)
(* between FP16 and W4 and lends the memory a W4 layer leaves free to the  *)
(* KV cache.                                                               *)
(*                                                                         *)
(* Each operation is a loop over a batch of layers whose iterations call   *)
(* into CUDA and may raise.  An operation is therefore several steps, one  *)
(* per iteration, with a "run" phase and, after an exception, the "undo"   *)
(* phase of its except clause, whose own copies may raise again: then the  *)
(* executor is poisoned.  A copy that raises has not touched the region.   *)
(* `ret` is what the caller gets back: True, False or an exception.        *)
(*                                                                         *)
(* Layers are named by their position in the coordinator's profile_order.  *)
(***************************************************************************)
EXTENDS Integers, Sequences, FiniteSets, Sublists

CONSTANTS
  NumLayers,     (* layers with both an FP16 backup and a packed W4 form   *)
  BaseBlocks,    (* gpu_block_manager.num_blocks_org                       *)
  GroupSize,     (* KV blocks that fit into the region of one W4 layer     *)
  Unreclaimable  (* layers whose registered region leaves no room for KV   *)

ASSUME ExecutorAssumption ==
  /\ NumLayers \in Nat \ {0}
  /\ BaseBlocks \in Nat
  /\ GroupSize \in Nat \ {0}
  /\ Unreclaimable \subseteq 1 .. NumLayers

VARIABLES
  active_layers,      (* layers running in W4, in the order they morphed   *)
  transformer_layers, (* what the model runs for each layer: fp16 or w4    *)
  kv_groups,          (* layers whose region is lent to the KV cache       *)
  poisoned,           (* executor.poisoned                                 *)
  is_block_free,      (* gpu_block_manager: one flag per block             *)
  num_blocks,         (* gpu_block_manager.num_blocks                      *)
  num_free_blocks,    (* gpu_block_manager.num_free_blocks                 *)
  call,               (* the operation in progress                         *)
  phase,              (* its loop, or the loop of its except clause        *)
  batch,              (* the layers it was called with                     *)
  k,                  (* how many of them are committed so far             *)
  saved,              (* the state it snapshots before it mutates          *)
  ret                 (* what the last operation returned                  *)

poolVars == <<kv_groups, is_block_free, num_blocks, num_free_blocks>>
layerVars == <<active_layers, transformer_layers>>
callVars == <<call, phase, batch, k, saved, ret>>
execVars == <<active_layers, transformer_layers, kv_groups, poisoned,
              is_block_free, num_blocks, num_free_blocks,
              call, phase, batch, k, saved, ret>>

Layers == 1 .. NumLayers
Operations == {"none", "morph_to_w4", "expand_kv", "restore_fp16", "recover_fp16"}

Snapshot == [active |-> active_layers, groups |-> kv_groups,
             free |-> is_block_free, blocks |-> num_blocks, nfree |-> num_free_blocks]

(* The operations' local variables, when none of them is running.          *)
NoSnapshot == [active |-> <<>>, groups |-> <<>>, free |-> <<>>, blocks |-> 0, nfree |-> 0]

ExecutorTypeOK ==
  /\ active_layers \in Seq(Layers)
  /\ transformer_layers \in [Layers -> {"fp16", "w4"}]
  /\ kv_groups \in Seq(Layers)
  /\ poisoned \in BOOLEAN
  /\ is_block_free \in Seq(BOOLEAN)
  /\ num_blocks \in Nat
  /\ num_free_blocks \in Nat
  /\ call \in Operations
  /\ phase \in {"run", "undo"}
  /\ batch \in Seq(Layers)
  /\ k \in 0 .. Len(batch)
  /\ saved \in [active : Seq(Layers), groups : Seq(Layers), free : Seq(BOOLEAN),
                blocks : Nat, nfree : Nat]
  /\ ret \in {"none", "true", "false", "raised"}

ExecutorInit ==
  /\ active_layers = <<>>
  /\ transformer_layers = [l \in Layers |-> "fp16"]
  /\ kv_groups = <<>>
  /\ poisoned = FALSE
  /\ is_block_free = [b \in 1 .. BaseBlocks |-> TRUE]
  /\ num_blocks = BaseBlocks
  /\ num_free_blocks = BaseBlocks
  /\ call = "none"
  /\ phase = "run"
  /\ batch = <<>>
  /\ k = 0
  /\ saved = NoSnapshot
  /\ ret = "none"

-----------------------------------------------------------------------------
(* Calls and returns                                                       *)

Enter(operation, layers) ==
  /\ call' = operation
  /\ phase' = "run"
  /\ batch' = layers
  /\ k' = 0
  /\ ret' = "none"

(* A check at the head of the operation returns before anything is touched. *)
Refuse(layers) ==
  /\ call' = "none"
  /\ phase' = "run"
  /\ batch' = layers
  /\ k' = 0
  /\ ret' = "false"

Return(result) ==
  /\ call' = "none"
  /\ phase' = "run"
  /\ ret' = result
  /\ UNCHANGED <<batch, saved>>

(* The caller has seen the result: the operation's locals are gone.        *)
Idle ==
  /\ call' = "none"
  /\ phase' = "run"
  /\ batch' = <<>>
  /\ k' = 0
  /\ saved' = NoSnapshot
  /\ ret' = "none"

Iterating == phase = "run" /\ k < Len(batch)

(* One more layer is committed; the last one makes the operation return.   *)
Advance ==
  /\ k' = k + 1
  /\ IF k + 1 = Len(batch)
       THEN Return("true")
       ELSE UNCHANGED <<call, phase, batch, saved, ret>>

Raise ==
  /\ phase' = "undo"
  /\ UNCHANGED <<call, batch, k, saved, ret>>

-----------------------------------------------------------------------------
(* morph_to_w4                                                             *)

CallMorphToW4(layers) ==
  /\ IF poisoned \/ Elements(layers) \cap Elements(active_layers) # {}
       THEN Refuse(layers)
       ELSE Enter("morph_to_w4", layers)
  /\ UNCHANGED <<layerVars, poolVars, poisoned, saved>>

MorphLayer ==
  /\ call = "morph_to_w4" /\ Iterating
  /\ transformer_layers' = [transformer_layers EXCEPT ![batch[k + 1]] = "w4"]
  /\ active_layers' = Append(active_layers, batch[k + 1])
  /\ Advance
  /\ UNCHANGED <<poolVars, poisoned>>

MorphRaises ==
  /\ call = "morph_to_w4" /\ Iterating
  /\ Raise
  /\ UNCHANGED <<layerVars, poolVars, poisoned>>

MorphUndo ==
  /\ call = "morph_to_w4" /\ phase = "undo" /\ k > 0
  /\ transformer_layers' = [transformer_layers EXCEPT ![batch[k]] = "fp16"]
  /\ active_layers' = Keep(active_layers, Layers \ {batch[k]})
  /\ k' = k - 1
  /\ UNCHANGED <<call, phase, batch, saved, ret, poolVars, poisoned>>

MorphUndoRaises ==
  /\ call = "morph_to_w4" /\ phase = "undo" /\ k > 0
  /\ poisoned' = TRUE
  /\ Return("false")
  /\ UNCHANGED <<k, layerVars, poolVars>>

MorphUndone ==
  /\ call = "morph_to_w4" /\ phase = "undo" /\ k = 0
  /\ Return("false")
  /\ UNCHANGED <<k, layerVars, poolVars, poisoned>>

-----------------------------------------------------------------------------
(* expand_kv                                                               *)

ExpandRefused(layers) ==
  \/ poisoned
  \/ ~(Elements(layers) \subseteq Elements(active_layers))
  \/ Elements(layers) \cap Elements(kv_groups) # {}
  \/ Elements(layers) \cap Unreclaimable # {}

CallExpandKv(layers) ==
  /\ IF ExpandRefused(layers)
       THEN Refuse(layers) /\ UNCHANGED saved
       ELSE Enter("expand_kv", layers) /\ saved' = Snapshot
  /\ UNCHANGED <<layerVars, poolVars, poisoned>>

(* The group is appended before its blocks are.  What raises in between is *)
(* part of ExpandRaises where the snapshot is put back, and otherwise of   *)
(* ExpandLeavesGroup.                                                      *)
ExpandLayer ==
  /\ call = "expand_kv" /\ Iterating
  /\ kv_groups' = Append(kv_groups, batch[k + 1])
  /\ is_block_free' = is_block_free \o [b \in 1 .. GroupSize |-> TRUE]
  /\ num_blocks' = num_blocks + GroupSize
  /\ num_free_blocks' = num_free_blocks + GroupSize
  /\ Advance
  /\ UNCHANGED <<layerVars, poisoned>>

ReattachSnapshot ==
  /\ kv_groups' = saved.groups
  /\ is_block_free' = saved.free
  /\ num_blocks' = saved.blocks
  /\ num_free_blocks' = saved.nfree

(* The rollback of expand_kv as it would be without the free counter.      *)
ExpandRaisesKeepsCount ==
  /\ call = "expand_kv" /\ Iterating
  /\ kv_groups' = saved.groups
  /\ is_block_free' = saved.free
  /\ num_blocks' = saved.blocks
  /\ Return("false")
  /\ UNCHANGED <<k, layerVars, poisoned, num_free_blocks>>

(* Waiting for the layer's copy, acquiring its region, the check that all  *)
(* groups have one size or allocating the flags of the new blocks raises:  *)
(* whatever the iteration has done so far, the snapshot is put back.       *)
ExpandRaises ==
  /\ call = "expand_kv" /\ Iterating
  /\ ReattachSnapshot
  /\ Return("false")
  /\ UNCHANGED <<k, layerVars, poisoned>>

(* Recording the rollback event raises inside the except clause, before    *)
(* any of the snapshot is put back: the exception leaves expand_kv.  With  *)
(* k = 0 this is also the outcome when taking the snapshot raises.         *)
ExpandRollbackRaises ==
  /\ call = "expand_kv" /\ Iterating
  /\ Return("raised")
  /\ UNCHANGED <<k, layerVars, poolVars, poisoned>>

(* The same, after the allocation of the new blocks' flags has raised: the *)
(* group is in the lists of caches and of groups, but has no blocks.       *)
ExpandLeavesGroup ==
  /\ call = "expand_kv" /\ Iterating
  /\ kv_groups' = Append(kv_groups, batch[k + 1])
  /\ Return("raised")
  /\ UNCHANGED <<k, layerVars, is_block_free, num_blocks, num_free_blocks, poisoned>>

-----------------------------------------------------------------------------
(* restore_fp16, alone or as the second half of recover_fp16               *)

Restoring == call \in {"restore_fp16", "recover_fp16"}

RestoreRefused(layers, groups) ==
  \/ poisoned
  \/ Elements(layers) \cap Elements(groups) # {}
  \/ ~(Elements(layers) \subseteq Elements(active_layers))

CallRestoreFp16(layers) ==
  /\ IF RestoreRefused(layers, kv_groups)
       THEN Refuse(layers) /\ UNCHANGED saved
       ELSE Enter("restore_fp16", layers) /\ saved' = Snapshot
  /\ UNCHANGED <<layerVars, poolVars, poisoned>>

RestoreLayer ==
  /\ Restoring /\ Iterating
  /\ transformer_layers' = [transformer_layers EXCEPT ![batch[k + 1]] = "fp16"]
  /\ active_layers' = Keep(active_layers, Layers \ {batch[k + 1]})
  /\ Advance
  /\ UNCHANGED <<poolVars, poisoned>>

RestoreRaises ==
  /\ Restoring /\ Iterating
  /\ Raise
  /\ UNCHANGED <<layerVars, poolVars, poisoned>>

RestoreUndo ==
  /\ Restoring /\ phase = "undo" /\ k > 0
  /\ transformer_layers' = [transformer_layers EXCEPT ![batch[k]] = "w4"]
  /\ k' = k - 1
  /\ UNCHANGED <<call, phase, batch, saved, ret, active_layers, poolVars, poisoned>>

StillFp16 == {batch[i] : i \in 1 .. k}

(* The snapshot is reattached whatever became of the layers.               *)
RestoreUndoRaisesReattaches ==
  /\ Restoring /\ phase = "undo" /\ k > 0
  /\ poisoned' = TRUE
  /\ active_layers' = Keep(saved.active, Layers \ StillFp16)
  /\ ReattachSnapshot
  /\ Return("false")
  /\ UNCHANGED <<k, transformer_layers>>

RestoreUndoRaises ==
  /\ Restoring /\ phase = "undo" /\ k > 0
  /\ poisoned' = TRUE
  /\ active_layers' = Keep(saved.active, Layers \ StillFp16)
  /\ Return("false")
  /\ UNCHANGED <<k, transformer_layers, poolVars>>

RestoreUndone ==
  /\ call = "restore_fp16" /\ phase = "undo" /\ k = 0
  /\ active_layers' = saved.active
  /\ Return("false")
  /\ UNCHANGED <<k, transformer_layers, poolVars, poisoned>>

-----------------------------------------------------------------------------
(* recover_fp16: shrink_kv_before_restore, restore_fp16, or reattach       *)

(* The blocks of the n newest groups.                                      *)
NewestBlocks(n) ==
  BaseBlocks + (Len(kv_groups) - n) * GroupSize + 1 .. BaseBlocks + Len(kv_groups) * GroupSize

GroupsIdle(n) == \A b \in NewestBlocks(n) : is_block_free[b]

(* The occupancy of the groups is not looked at.                           *)
ShrinkUnchecked(layers) ==
  /\ Len(layers) <= Len(kv_groups)
  /\ layers = NewestFirst(kv_groups, Len(layers))

(* Only the newest groups, newest first, and only if all of them are idle. *)
ShrinkAccepted(layers) ==
  /\ Len(layers) <= Len(kv_groups)
  /\ layers = NewestFirst(kv_groups, Len(layers))
  /\ GroupsIdle(Len(layers))

PopGroups(n) ==
  /\ kv_groups' = DropLast(kv_groups, n)
  /\ is_block_free' = DropLast(is_block_free, n * GroupSize)
  /\ num_blocks' = num_blocks - n * GroupSize
  /\ num_free_blocks' = num_free_blocks - n * GroupSize

(* Each group is popped as soon as it is found idle, so an older group     *)
(* that is occupied is noticed after the newer ones are gone.              *)
CallRecoverFp16Eager(layers) ==
  LET accepted == ~poisoned /\ Len(layers) <= Len(kv_groups) /\ GroupsIdle(1)
  IN  /\ IF accepted
           THEN Enter("recover_fp16", layers) /\ PopGroups(Len(layers)) /\ saved' = Snapshot
           ELSE Refuse(layers) /\ UNCHANGED <<poolVars, saved>>
      /\ UNCHANGED <<layerVars, poisoned>>

(* A restore that is refused after the shrink has the snapshot reattached, *)
(* so it too is a refusal that leaves everything as it was.                *)
CallRecoverFp16(layers) ==
  LET accepted == /\ ~poisoned
                  /\ ShrinkAccepted(layers)
                  /\ ~RestoreRefused(layers, DropLast(kv_groups, Len(layers)))
  IN  /\ IF accepted
           THEN Enter("recover_fp16", layers) /\ PopGroups(Len(layers)) /\ saved' = Snapshot
           ELSE Refuse(layers) /\ UNCHANGED <<poolVars, saved>>
      /\ UNCHANGED <<layerVars, poisoned>>

(* Reading the occupancy flags back from the GPU raises: poisoned.         *)
CallRecoverFp16Raises(layers) ==
  /\ ~poisoned
  /\ Refuse(layers)
  /\ poisoned' = TRUE
  /\ UNCHANGED <<layerVars, poolVars, saved>>

(* Taking the snapshot raises, outside the try statement.                  *)
CallRecoverFp16NotSaved(layers) ==
  /\ ~poisoned
  /\ call' = "none" /\ phase' = "run" /\ batch' = layers /\ k' = 0 /\ ret' = "raised"
  /\ UNCHANGED <<layerVars, poolVars, poisoned, saved>>

(* The failed recovery leaves the KV groups it popped detached.            *)
RecoverForgetsGroups ==
  /\ call = "recover_fp16" /\ phase = "undo" /\ k = 0
  /\ active_layers' = saved.active
  /\ Return("false")
  /\ UNCHANGED <<k, transformer_layers, poolVars, poisoned>>

RecoverReattach ==
  /\ call = "recover_fp16" /\ phase = "undo" /\ k = 0
  /\ active_layers' = saved.active
  /\ ReattachSnapshot
  /\ Return("false")
  /\ UNCHANGED <<k, transformer_layers, poisoned>>

(* Waiting for the W4 copies before the reattachment raises.               *)
RecoverReattachRaises ==
  /\ call = "recover_fp16" /\ phase = "undo" /\ k = 0
  /\ active_layers' = saved.active
  /\ Return("raised")
  /\ UNCHANGED <<k, transformer_layers, poolVars, poisoned>>

-----------------------------------------------------------------------------
ExecutorStep ==
  \/ MorphLayer \/ MorphRaises \/ MorphUndo \/ MorphUndoRaises \/ MorphUndone
  \/ ExpandLayer \/ ExpandRaises \/ ExpandRollbackRaises \/ ExpandLeavesGroup
  \/ RestoreLayer \/ RestoreRaises \/ RestoreUndo \/ RestoreUndoRaises \/ RestoreUndone
  \/ RecoverReattach \/ RecoverReattachRaises

FreeBlocks == {b \in DOMAIN is_block_free : is_block_free[b]}

(* Blocks that hold the KV cache of some request.                          *)
Occupied == {b \in DOMAIN is_block_free : ~is_block_free[b]}
=============================================================================
