------------------------ MODULE CoordinatorInvariant ------------------------
(***************************************************************************)
(* The inductive invariant of the adaptive coordinator.                    *)
(*                                                                         *)
(* Every list of layers the code keeps is a run of consecutive positions   *)
(* of profile_order: upwards while it morphs, downwards while it recovers. *)
(* So a state of the executor is determined by a few lengths, and the      *)
(* invariant says, for each point of a step of the coordinator, how these  *)
(* lengths are related.                                                    *)
(***************************************************************************)
EXTENDS AdaptiveCoordinator, SublistTheorems

IsPrefix(s) == Len(s) \in 0 .. NumLayers /\ s = Prefix(Len(s))
W4UpTo(n) == [l \in Layers |-> IF l <= n THEN "w4" ELSE "fp16"]

numActive == Len(active_layers)
numCoord == Len(coord_active)
numLent == Len(kv_groups)
numSelected == Len(selected)

Prefixes ==
  /\ IsPrefix(active_layers)
  /\ IsPrefix(coord_active)
  /\ IsPrefix(kv_groups)
  /\ numLent <= numActive

SavedLists ==
  /\ IsPrefix(saved.active) /\ IsPrefix(saved.groups)
  /\ saved = [active |-> saved.active, groups |-> saved.groups,
              free |-> saved.free, blocks |-> saved.blocks, nfree |-> saved.nfree]

Scalars ==
  /\ transformer_layers \in [Layers -> {"fp16", "w4"}]
  /\ poisoned \in BOOLEAN /\ coord_poisoned \in BOOLEAN /\ draining \in BOOLEAN
  /\ pressure_count \in Nat /\ recovery_count \in Nat

Lists == Prefixes /\ SavedLists /\ Scalars

InCall(operation) ==
  call = operation /\ phase \in {"run", "undo"} /\ k < numSelected /\ ret = "none" /\ ~poisoned

Returned(result) ==
  call = "none" /\ phase = "run" /\ ret = result

(* Between two steps.                                                      *)
AtRestInv ==
  /\ call = "none" /\ phase = "run" /\ batch = <<>> /\ k = 0 /\ saved = NoSnapshot
  /\ ret = "none" /\ delta = 0 /\ selected = <<>>
  /\ numActive = numCoord /\ quantized_layers = numCoord
  /\ transformer_layers = W4UpTo(numActive)
  /\ ~coord_poisoned => ~poisoned /\ numLent = numCoord

(* The layers of the step under pressure follow those already morphed.     *)
PressureInv ==
  /\ numCoord + numSelected <= NumLayers
  /\ selected = Up(numCoord, numSelected)
  /\ delta = numSelected /\ quantized_layers = numCoord + numSelected

MorphingInv ==
  /\ PressureInv
  /\ saved = NoSnapshot /\ batch = selected
  /\ numActive = numCoord + k /\ numLent = numCoord
  /\ transformer_layers = W4UpTo(numActive)
  /\ \/ InCall("morph_to_w4")
     \/ Returned("true") /\ k = numSelected /\ ~poisoned
     \/ Returned("false") /\ (poisoned <=> k > 0)

ExpandingInv ==
  /\ PressureInv
  /\ batch = selected /\ ~poisoned
  /\ numActive = numCoord + numSelected
  /\ transformer_layers = W4UpTo(numActive)
  /\ \/ /\ InCall("expand_kv") /\ phase = "run" /\ numLent = numCoord + k
        /\ Len(saved.groups) = numCoord
     \/ Returned("true") /\ numLent = numActive
     \/ Returned("false") /\ numLent = numCoord
     \/ Returned("raised") /\ numLent >= numCoord

(* restore_fp16 takes the layers from top downwards; while it undoes that, *)
(* active_layers still lacks the layers it had restored.                   *)
RestoringInv(top) ==
  /\ batch = Down(top, numSelected)
  /\ saved.active = Prefix(top)
  /\ Len(saved.groups) = numCoord
  /\ transformer_layers = W4UpTo(top - k)
  /\ phase = "run" => numActive = top - k
  /\ phase = "undo" => numActive <= top - k /\ numActive > top - numSelected

RollingBackInv ==
  /\ PressureInv
  /\ numActive \in numCoord .. numCoord + numSelected /\ numLent >= numCoord
  /\ batch \in Seq(Layers) /\ k \in 0 .. Len(batch)
  /\ \/ InCall("restore_fp16") /\ RestoringInv(numCoord + numSelected) /\ numLent = numCoord
     \/ /\ Returned("true") /\ transformer_layers = W4UpTo(numActive)
        /\ numActive = numCoord /\ numLent = numCoord /\ ~poisoned
     \/ Returned("false") /\ transformer_layers = W4UpTo(numActive)

RecoveringInv ==
  /\ numSelected <= numCoord
  /\ selected = Down(numCoord, numSelected)
  /\ delta = -numSelected /\ quantized_layers = numCoord - numSelected
  /\ batch = selected
  /\ numActive \in numCoord - numSelected .. numCoord
  /\ numLent \in numCoord - numSelected .. numCoord
  /\ \/ InCall("recover_fp16") /\ RestoringInv(numCoord) /\ numLent = numCoord - numSelected
     \/ /\ Returned("true") /\ transformer_layers = W4UpTo(numActive) /\ ~poisoned
        /\ numActive = numCoord - numSelected /\ numLent = numActive
     \/ /\ Returned("false") /\ transformer_layers = W4UpTo(numActive)
        /\ poisoned \/ (numActive = numCoord /\ numLent = numCoord)
     \/ Returned("raised") /\ transformer_layers = W4UpTo(numActive) /\ numActive = numCoord

Steps ==
  \/ pc \in Driving /\ AtRestInv
  \/ /\ pc \in Stepping /\ ~coord_poisoned /\ numSelected \in Nat \ {0} /\ k \in 0 .. numSelected
     /\ \/ pc = "morphing" /\ MorphingInv
        \/ pc = "expanding" /\ ExpandingInv
        \/ pc = "rolling_back" /\ RollingBackInv
        \/ pc = "recovering" /\ RecoveringInv

(* The lengths of the lists, at every point of a step.                     *)
ListInv == Lists /\ Steps

(* The block manager's three attributes agree with so many lent groups.    *)
UsedIn(free) == {b \in DOMAIN free : ~free[b]}

PoolConsistent(groups, free, blocks, nfree) ==
  /\ blocks = BaseBlocks + groups * GroupSize
  /\ free \in Seq(BOOLEAN) /\ Len(free) = blocks
  /\ nfree = blocks - Cardinality(UsedIn(free))

(* The pool has the blocks of every lent group, or of all but the newest,  *)
(* which the step in progress had lent when expand_kv raised.              *)
AllBooked == PoolConsistent(numLent, is_block_free, num_blocks, num_free_blocks)

(* An exception has left expand_kv, not before its first group was lent.   *)
MayLack == ExpandEscaped /\ (pc = "expanding" => numLent > numCoord)

NewestLacksBlocks ==
  /\ MayLack
  /\ PoolConsistent(numLent - 1, is_block_free, num_blocks, num_free_blocks)

(* The saved attributes agree with the saved groups and mark the same      *)
(* blocks as used.                                                         *)
PoolInv ==
  /\ AllBooked \/ NewestLacksBlocks
  /\ saved.free \in Seq(BOOLEAN) /\ saved.blocks \in Nat /\ saved.nfree \in Nat
  /\ call \in {"expand_kv", "restore_fp16", "recover_fp16"} =>
       /\ PoolConsistent(Len(saved.groups), saved.free, saved.blocks, saved.nfree)
       /\ UsedIn(saved.free) = Occupied

(* What TLAPS proves inductive.                                            *)
IInv == ListInv /\ PoolInv
=============================================================================
