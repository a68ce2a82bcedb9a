------------------------- MODULE CoordinatorProofs --------------------------
(***************************************************************************)
(* Proofs about AdaptiveCoordinator, for every number of layers, batch     *)
(* size, threshold and group size.                                         *)
(***************************************************************************)
EXTENDS CoordinatorInvariant

USE ControllerAssumption, ExecutorAssumption

(* ----------------------------------------------------------------------- *)
(* Prefixes of the profile and the modules the model runs                  *)

(* A prefix of the profile within NumLayers is one in the sense of the invariant, with
   its length. *)
LEMMA PrefixIsPrefix ==
  ASSUME NEW n \in 0 .. NumLayers
  PROVE  IsPrefix(Prefix(n)) /\ Len(Prefix(n)) = n
BY ListLengths DEF IsPrefix

(* The empty list, of a model with every layer in FP16, is a prefix of the profile. *)
LEMMA EmptyIsPrefix == <<>> = Prefix(0) /\ IsPrefix(<<>>) /\ Len(<<>>) = 0
<1>1. <<>> = Prefix(0)
  BY DEF Prefix
<1> QED BY <1>1, PrefixIsPrefix

(* The model in which the first n layers are W4 assigns a variant to every layer. *)
LEMMA W4Type ==
  ASSUME NEW n
  PROVE  W4UpTo(n) \in [Layers -> {"fp16", "w4"}]
BY DEF W4UpTo

(* Replacing the next layer by its W4 variant extends the W4 layers by one. *)
LEMMA W4Add ==
  ASSUME NEW n \in 0 .. NumLayers - 1
  PROVE  [W4UpTo(n) EXCEPT ![n + 1] = "w4"] = W4UpTo(n + 1)
<1>1. \A l \in Layers : (l <= n \/ l = n + 1) <=> l <= n + 1
  BY DEF Layers
<1>2. n + 1 \in Layers
  BY DEF Layers
<1>3. \A l \in Layers : [W4UpTo(n) EXCEPT ![n + 1] = "w4"][l] = W4UpTo(n + 1)[l]
  BY <1>1, <1>2 DEF W4UpTo
<1>4. [W4UpTo(n) EXCEPT ![n + 1] = "w4"] = [l \in Layers |-> W4UpTo(n + 1)[l]]
  BY <1>3 DEF W4UpTo
<1> QED BY <1>4 DEF W4UpTo

(* Replacing the newest W4 layer by its FP16 variant shortens the W4 layers by one. *)
LEMMA W4Remove ==
  ASSUME NEW n \in 1 .. NumLayers
  PROVE  [W4UpTo(n) EXCEPT ![n] = "fp16"] = W4UpTo(n - 1)
<1>1. \A l \in Layers : (l <= n /\ l # n) <=> l <= n - 1
  BY DEF Layers
<1>2. n \in Layers
  BY DEF Layers
<1>3. \A l \in Layers : [W4UpTo(n) EXCEPT ![n] = "fp16"][l] = W4UpTo(n - 1)[l]
  BY <1>1, <1>2 DEF W4UpTo
<1>4. [W4UpTo(n) EXCEPT ![n] = "fp16"] = [l \in Layers |-> W4UpTo(n - 1)[l]]
  BY <1>3 DEF W4UpTo
<1> QED BY <1>4 DEF W4UpTo

(* active_layers without its newest layer is the prefix one shorter. *)
LEMMA PrefixDrops ==
  ASSUME NEW n \in 1 .. NumLayers
  PROVE  Keep(Prefix(n), Layers \ {n}) = Prefix(n - 1)
<1>1. \A i \in 1 .. n : i \in Layers \ {n} <=> i <= n - 1
  BY DEF Layers
<1> QED BY <1>1, PrefixKeep

(* active_layers after the failed undo of a failed restore.                *)
LEMMA PrefixWithout ==
  ASSUME NEW n \in 0 .. NumLayers, NEW m \in 0 .. n
  PROVE  Keep(Prefix(n), Layers \ (n - m + 1 .. n)) = Prefix(n - m)
<1>1. \A i \in 1 .. n : i \in Layers \ (n - m + 1 .. n) <=> i <= n - m
  BY DEF Layers
<1>2. n - m \in 0 .. n
  OBVIOUS
<1> QED BY <1>1, <1>2, PrefixKeep

(* ----------------------------------------------------------------------- *)
(* Initial state                                                           *)

(* The constructed controller, executor and coordinator satisfy the list invariant. *)
LEMMA InitListInv == Init => ListInv
<1> SUFFICES ASSUME Init PROVE ListInv
  OBVIOUS
<1>0. /\ saved.active = <<>> /\ saved.groups = <<>>
      /\ saved = [active |-> saved.active, groups |-> saved.groups,
                  free |-> saved.free, blocks |-> saved.blocks, nfree |-> saved.nfree]
  BY DEF Init, ExecutorInit, NoSnapshot
<1>1. Lists
  <2>1. IsPrefix(active_layers) /\ IsPrefix(coord_active) /\ IsPrefix(kv_groups)
    BY EmptyIsPrefix, Zenon DEF Init, ExecutorInit
  <2>2. numLent <= numActive
    BY EmptyIsPrefix DEF Init, ExecutorInit, numLent, numActive
  <2>3. SavedLists
    BY <1>0, EmptyIsPrefix, Zenon DEF SavedLists
  <2>4. Scalars
    BY DEF Init, ControllerInit, ExecutorInit, Scalars
  <2> QED BY <2>1, <2>2, <2>3, <2>4, Zenon DEF Lists, Prefixes
<1>2. W4UpTo(0) = [l \in Layers |-> "fp16"]
  BY DEF W4UpTo, Layers
<1>3. AtRestInv
  BY <1>2, EmptyIsPrefix DEF Init, ControllerInit, ExecutorInit, AtRestInv, numActive, numCoord, numLent
<1> QED BY <1>1, <1>3 DEF ListInv, Steps, Init, Driving

(* ----------------------------------------------------------------------- *)
(* What a step that leaves the saved state or the counters alone keeps     *)

(* A step that leaves the snapshot alone keeps what the invariant says of it. *)
LEMMA SavedKept ==
  ASSUME ListInv, UNCHANGED saved
  PROVE  SavedLists'
BY Zenon DEF ListInv, Lists, SavedLists, IsPrefix

(* A step that leaves counters, coordinator flags and drain alone keeps the scalar part
   of the invariant. *)
LEMMA ScalarsKept ==
  ASSUME ListInv, NEW n, transformer_layers' = W4UpTo(n), poisoned' \in BOOLEAN,
         UNCHANGED <<pressure_count, recovery_count, coord_poisoned, draining>>
  PROVE  Scalars'
BY W4Type DEF ListInv, Lists, Scalars

(* A step that leaves coord_active alone leaves it a prefix of the profile. *)
LEMMA CoordPrefixKept ==
  ASSUME ListInv, UNCHANGED coord_active
  PROVE  IsPrefix(coord_active)'
BY Zenon DEF ListInv, Lists, Prefixes, IsPrefix

(* A step that leaves kv_groups alone leaves it a prefix of the same length. *)
LEMMA LentPrefixKept ==
  ASSUME ListInv, UNCHANGED kv_groups
  PROVE  IsPrefix(kv_groups)' /\ numLent' = numLent
BY Zenon DEF ListInv, Lists, Prefixes, IsPrefix, numLent

(* A step that touches neither lists nor layers keeps the list part of the invariant and
   all lengths. *)
LEMMA LayersKept ==
  ASSUME ListInv, UNCHANGED <<layerVars, kv_groups, coord_active, saved>>, poisoned' \in BOOLEAN,
         UNCHANGED <<pressure_count, recovery_count, coord_poisoned, draining>>
  PROVE  Lists' /\ numActive' = numActive /\ numLent' = numLent /\ numCoord' = numCoord
<1>1. UNCHANGED <<active_layers, transformer_layers>>
  BY DEF layerVars
<1>2. numActive' = numActive /\ numLent' = numLent /\ numCoord' = numCoord
  BY <1>1 DEF numActive, numLent, numCoord
<1>3. IsPrefix(active_layers)'
  BY <1>1, Zenon DEF ListInv, Lists, Prefixes, IsPrefix
<1>4. Prefixes'
  BY <1>2, <1>3, CoordPrefixKept, LentPrefixKept DEF Prefixes, ListInv, Lists
<1>5. Scalars'
  BY <1>1 DEF Scalars, ListInv, Lists
<1> QED BY <1>2, <1>4, <1>5, SavedKept DEF Lists

(* ----------------------------------------------------------------------- *)
(* morph_to_w4                                                             *)

(* While morph_to_w4 runs, the coordinator waits for it, the layers below k are W4 and
   nothing is saved. *)
LEMMA InMorph ==
  ASSUME ListInv, call = "morph_to_w4"
  PROVE  /\ pc = "morphing" /\ InCall("morph_to_w4") /\ PressureInv /\ saved = NoSnapshot
         /\ ~coord_poisoned /\ numSelected \in Nat \ {0} /\ k \in 0 .. numSelected - 1
         /\ numCoord \in Nat /\ numActive = numCoord + k /\ numActive \in 0 .. NumLayers - 1
         /\ numLent = numCoord
         /\ batch = selected /\ Len(batch) = numSelected /\ batch = Up(numCoord, numSelected)
         /\ active_layers = Prefix(numActive) /\ transformer_layers = W4UpTo(numActive)
<1>1. pc = "morphing" /\ MorphingInv /\ ~coord_poisoned /\ numSelected \in Nat \ {0} /\ k \in 0 .. numSelected
  BY DEF ListInv, Steps, AtRestInv, ExpandingInv, RollingBackInv, RecoveringInv, InCall, Returned
<1>2. InCall("morph_to_w4")
  BY <1>1 DEF MorphingInv, Returned
<1>3. numCoord \in Nat /\ numCoord + numSelected <= NumLayers
  BY <1>1 DEF ListInv, Lists, Prefixes, IsPrefix, numCoord, MorphingInv, PressureInv
<1>4. /\ PressureInv /\ saved = NoSnapshot /\ batch = selected /\ batch = Up(numCoord, numSelected)
      /\ numActive = numCoord + k /\ numLent = numCoord /\ transformer_layers = W4UpTo(numActive)
  BY <1>1 DEF MorphingInv, PressureInv
<1>5. Len(batch) = numSelected
  BY <1>1, <1>3, <1>4, ListLengths
<1>6. active_layers = Prefix(numActive)
  BY DEF ListInv, Lists, Prefixes, IsPrefix, numActive
<1> QED BY <1>1, <1>2, <1>3, <1>4, <1>5, <1>6 DEF InCall

(* One layer moved to W4 by morph_to_w4 keeps the invariant. *)
LEMMA MorphLayerKeeps ==
  ASSUME ListInv, MorphLayer, UNCHANGED <<ctlVars, coordVars>>
  PROVE  ListInv'
<1> DEFINE n == numActive
<1>1. call = "morph_to_w4"
  BY DEF MorphLayer
<1>2. n \in 0 .. NumLayers - 1 /\ batch[k + 1] = n + 1 /\ n \in Nat
  BY <1>1, InMorph DEF Up
<1>3. active_layers' = Prefix(n + 1)
  <2>1. Append(Prefix(n), n + 1) = Prefix(n + 1)
    BY <1>2, PrefixGrows
  <2> QED BY <1>1, <1>2, <2>1, InMorph DEF MorphLayer
<1>4. transformer_layers' = W4UpTo(n + 1)
  BY <1>1, <1>2, InMorph, W4Add DEF MorphLayer
<1>5. numActive' = n + 1 /\ IsPrefix(active_layers)'
  BY <1>2, <1>3, PrefixIsPrefix DEF numActive
<1>6. /\ numCoord' = numCoord /\ numSelected' = numSelected /\ numLent' = numLent
      /\ UNCHANGED <<coord_active, coord_poisoned, delta, selected, pc, draining>>
      /\ UNCHANGED <<quantized_layers, pressure_count, recovery_count, kv_groups, poisoned, batch, saved>>
      /\ k' = k + 1
  BY DEF MorphLayer, Advance, Return, numCoord, numSelected, numLent, coordVars, ctlVars, poolVars
<1>7. IF k + 1 = numSelected THEN Returned("true")' ELSE UNCHANGED <<call, phase, ret>>
  BY <1>1, InMorph DEF MorphLayer, Advance, Return, Returned
<1>8. Lists'
  <2>1. Prefixes'
    BY <1>1, <1>2, <1>5, <1>6, InMorph, CoordPrefixKept, LentPrefixKept DEF Prefixes
  <2>2. Scalars'
    BY <1>4, <1>6, ScalarsKept DEF ListInv, Lists, Scalars
  <2> QED BY <1>6, <2>1, <2>2, SavedKept DEF Lists
<1>9. MorphingInv'
  BY <1>1, <1>2, <1>4, <1>5, <1>6, <1>7, InMorph DEF MorphingInv, PressureInv, InCall
<1> QED BY <1>1, <1>6, <1>8, <1>9, InMorph DEF ListInv, Steps, Stepping

(* A copy that raises in morph_to_w4, which then starts to undo, keeps the invariant. *)
LEMMA MorphRaisesKeeps ==
  ASSUME ListInv, MorphRaises, UNCHANGED <<ctlVars, coordVars>>
  PROVE  ListInv'
<1>1. call = "morph_to_w4"
  BY DEF MorphRaises
<1>2. /\ UNCHANGED <<coord_active, coord_poisoned, delta, selected, pc, draining>>
      /\ UNCHANGED <<quantized_layers, pressure_count, recovery_count, transformer_layers, kv_groups,
                     poisoned, batch, saved, call, k, ret>>
      /\ numSelected' = numSelected /\ phase' = "undo"
  BY DEF MorphRaises, Raise, numSelected, coordVars, ctlVars, poolVars, layerVars
<1>3. Lists' /\ numActive' = numActive /\ numLent' = numLent /\ numCoord' = numCoord
  BY <1>2, LayersKept DEF MorphRaises, ListInv, Lists, Scalars
<1>4. MorphingInv'
  BY <1>1, <1>2, <1>3, InMorph DEF MorphingInv, PressureInv, InCall
<1> QED BY <1>1, <1>2, <1>3, <1>4, InMorph DEF ListInv, Steps, Stepping

(* One layer put back by the rollback of morph_to_w4 keeps the invariant. *)
LEMMA MorphUndoKeeps ==
  ASSUME ListInv, MorphUndo, UNCHANGED <<ctlVars, coordVars>>
  PROVE  ListInv'
<1> DEFINE n == numActive
<1>1. call = "morph_to_w4" /\ k > 0
  BY DEF MorphUndo
<1>2. n \in 1 .. NumLayers /\ batch[k] = n
  BY <1>1, InMorph DEF Up
<1>3. active_layers' = Prefix(n - 1)
  BY <1>1, <1>2, InMorph, PrefixDrops DEF MorphUndo
<1>4. transformer_layers' = W4UpTo(n - 1)
  BY <1>1, <1>2, InMorph, W4Remove DEF MorphUndo
<1>5. numActive' = n - 1 /\ IsPrefix(active_layers)'
  BY <1>2, <1>3, PrefixIsPrefix DEF numActive
<1>6. /\ numCoord' = numCoord /\ numSelected' = numSelected
      /\ UNCHANGED <<coord_active, coord_poisoned, delta, selected, pc, draining>>
      /\ UNCHANGED <<quantized_layers, pressure_count, recovery_count, kv_groups, poisoned,
                     call, phase, batch, saved, ret>>
      /\ k' = k - 1
  BY DEF MorphUndo, numCoord, numSelected, coordVars, ctlVars, poolVars
<1>7. Lists'
  <2>1. Prefixes'
    BY <1>1, <1>2, <1>5, <1>6, InMorph, CoordPrefixKept, LentPrefixKept DEF Prefixes
  <2>2. Scalars'
    BY <1>4, <1>6, ScalarsKept DEF ListInv, Lists, Scalars
  <2> QED BY <1>6, <2>1, <2>2, SavedKept DEF Lists
<1>8. MorphingInv'
  BY <1>1, <1>2, <1>4, <1>5, <1>6, InMorph, LentPrefixKept DEF MorphingInv, PressureInv, InCall
<1> QED BY <1>1, <1>6, <1>7, <1>8, InMorph DEF ListInv, Steps, Stepping

(* morph_to_w4 returning after its rollback, or poisoned by it, keeps the invariant. *)
LEMMA MorphFailsKeeps ==
  ASSUME ListInv, MorphUndoRaises \/ MorphUndone, UNCHANGED <<ctlVars, coordVars>>
  PROVE  ListInv'
<1>1. call = "morph_to_w4"
  BY DEF MorphUndoRaises, MorphUndone
<1>2. /\ UNCHANGED <<coord_active, coord_poisoned, delta, selected, pc, draining>>
      /\ UNCHANGED <<quantized_layers, pressure_count, recovery_count, layerVars, transformer_layers,
                     kv_groups, batch, saved, k>>
      /\ numSelected' = numSelected /\ Returned("false")'
  BY DEF MorphUndoRaises, MorphUndone, Return, Returned, numSelected, coordVars,
     ctlVars, poolVars, layerVars
<1>p. poisoned' \in BOOLEAN /\ (poisoned' <=> k > 0)
  <2>1. CASE MorphUndoRaises
    BY <2>1 DEF MorphUndoRaises
  <2>2. CASE MorphUndone
    <3>1. k = 0 /\ poisoned' = poisoned /\ ~poisoned /\ poisoned \in BOOLEAN
      BY <1>1, <2>2, InMorph DEF MorphUndone, InCall, ListInv, Lists, Scalars
    <3>2. ~(k > 0)
      BY <3>1
    <3> QED BY <3>1, <3>2, Zenon
  <2> QED BY <2>1, <2>2
<1>3. Lists' /\ numActive' = numActive /\ numLent' = numLent /\ numCoord' = numCoord
  BY <1>2, <1>p, LayersKept
<1>4. MorphingInv'
  BY <1>1, <1>2, <1>p, <1>3, InMorph DEF MorphingInv, PressureInv
<1> QED BY <1>1, <1>2, <1>3, <1>4, InMorph DEF ListInv, Steps, Stepping

(* ----------------------------------------------------------------------- *)
(* expand_kv                                                               *)

(* While expand_kv runs, the coordinator waits for it and the selected layers are all W4. *)
LEMMA InExpand ==
  ASSUME ListInv, call = "expand_kv"
  PROVE  /\ pc = "expanding" /\ InCall("expand_kv") /\ phase = "run" /\ PressureInv
         /\ ~coord_poisoned /\ numSelected \in Nat \ {0} /\ k \in 0 .. numSelected - 1
         /\ numCoord \in Nat /\ numActive = numCoord + numSelected /\ numActive \in 0 .. NumLayers
         /\ numLent = numCoord + k /\ kv_groups = Prefix(numLent)
         /\ Len(saved.groups) = numCoord /\ saved.groups = Prefix(numCoord)
         /\ batch = selected /\ Len(batch) = numSelected /\ batch = Up(numCoord, numSelected)
         /\ transformer_layers = W4UpTo(numActive)
<1>1. pc = "expanding" /\ ExpandingInv /\ ~coord_poisoned /\ numSelected \in Nat \ {0} /\ k \in 0 .. numSelected
  BY DEF ListInv, Steps, AtRestInv, MorphingInv, RollingBackInv, RecoveringInv, InCall, Returned
<1>2. InCall("expand_kv") /\ phase = "run" /\ numLent = numCoord + k /\ Len(saved.groups) = numCoord
  BY <1>1 DEF ExpandingInv, Returned
<1>3. numCoord \in Nat /\ numCoord + numSelected <= NumLayers
  BY <1>1 DEF ListInv, Lists, Prefixes, IsPrefix, numCoord, ExpandingInv, PressureInv
<1>4. /\ PressureInv /\ batch = selected /\ batch = Up(numCoord, numSelected)
      /\ numActive = numCoord + numSelected /\ transformer_layers = W4UpTo(numActive)
  BY <1>1 DEF ExpandingInv, PressureInv
<1>5. Len(batch) = numSelected
  BY <1>1, <1>3, <1>4, ListLengths
<1>6. kv_groups = Prefix(numLent)
  BY DEF ListInv, Lists, Prefixes, IsPrefix, numLent
<1>7. saved.groups = Prefix(numCoord)
  BY <1>2, Zenon DEF ListInv, Lists, SavedLists, IsPrefix
<1> QED BY <1>1, <1>2, <1>3, <1>4, <1>5, <1>6, <1>7 DEF InCall

(* One group lent by expand_kv keeps the invariant. *)
LEMMA ExpandLayerKeeps ==
  ASSUME ListInv, ExpandLayer, UNCHANGED <<ctlVars, coordVars>>
  PROVE  ListInv'
<1> DEFINE n == numLent
<1>1. call = "expand_kv"
  BY DEF ExpandLayer
<1>2. n \in 0 .. NumLayers - 1 /\ batch[k + 1] = n + 1 /\ n \in Nat /\ n < numActive
  <2>1. /\ batch = Up(numCoord, numSelected) /\ k + 1 \in 1 .. numSelected
        /\ n = numCoord + k /\ numCoord \in Nat /\ k \in Nat
    BY <1>1, InExpand
  <2>2. batch[k + 1] = n + 1
    BY <2>1 DEF Up
  <2>3. n \in 0 .. NumLayers - 1 /\ n \in Nat /\ n < numActive
    BY <1>1, <2>1, InExpand
  <2> QED BY <2>2, <2>3
<1>3. kv_groups' = Prefix(n + 1)
  <2>1. Append(Prefix(n), n + 1) = Prefix(n + 1)
    BY <1>2, PrefixGrows
  <2> QED BY <1>1, <1>2, <2>1, InExpand DEF ExpandLayer
<1>4. numLent' = n + 1 /\ IsPrefix(kv_groups)'
  BY <1>2, <1>3, PrefixIsPrefix DEF numLent
<1>5. /\ numCoord' = numCoord /\ numSelected' = numSelected /\ numActive' = numActive
      /\ UNCHANGED <<coord_active, coord_poisoned, delta, selected, pc, draining>>
      /\ UNCHANGED <<quantized_layers, pressure_count, recovery_count, active_layers,
                     transformer_layers, poisoned, batch, saved>>
      /\ k' = k + 1
  BY DEF ExpandLayer, Advance, Return, numCoord, numSelected, numActive, coordVars, ctlVars, layerVars
<1>6. IF k + 1 = numSelected THEN Returned("true")' ELSE UNCHANGED <<call, phase, ret>>
  BY <1>1, InExpand DEF ExpandLayer, Advance, Return, Returned
<1>7. IsPrefix(active_layers)'
  BY <1>5, Zenon DEF ListInv, Lists, Prefixes, IsPrefix
<1>8. Lists'
  <2>1. Prefixes'
    BY <1>1, <1>2, <1>4, <1>5, <1>7, InExpand, CoordPrefixKept DEF Prefixes
  <2>2. Scalars'
    BY <1>5 DEF ListInv, Lists, Scalars
  <2> QED BY <1>5, <2>1, <2>2, SavedKept DEF Lists
<1>9. ExpandingInv'
  BY <1>1, <1>2, <1>4, <1>5, <1>6, InExpand DEF ExpandingInv, PressureInv, InCall
<1> QED BY <1>1, <1>5, <1>8, <1>9, InExpand DEF ListInv, Steps, Stepping

(* An expand_kv that fails and restores its snapshot keeps the invariant. *)
LEMMA ExpandRaisesKeeps ==
  ASSUME ListInv, ExpandRaises, UNCHANGED <<ctlVars, coordVars>>
  PROVE  ListInv'
<1>1. call = "expand_kv"
  BY DEF ExpandRaises
<1>2. /\ numCoord' = numCoord /\ numSelected' = numSelected /\ numActive' = numActive
      /\ UNCHANGED <<coord_active, coord_poisoned, delta, selected, pc, draining>>
      /\ UNCHANGED <<quantized_layers, pressure_count, recovery_count, active_layers,
                     transformer_layers, poisoned, batch, saved, k>>
      /\ Returned("false")' /\ kv_groups' = Prefix(numCoord)
  BY <1>1, InExpand DEF ExpandRaises, ReattachSnapshot, Return, Returned, numCoord, numSelected,
     numActive, coordVars, ctlVars, layerVars
<1>3. numCoord \in 0 .. NumLayers /\ numCoord <= numActive
  BY <1>1, InExpand
<1>4. numLent' = numCoord /\ IsPrefix(kv_groups)'
  BY <1>2, <1>3, PrefixIsPrefix DEF numLent
<1>5. IsPrefix(active_layers)'
  BY <1>2, Zenon DEF ListInv, Lists, Prefixes, IsPrefix
<1>6. Lists'
  <2>1. Prefixes'
    BY <1>2, <1>3, <1>4, <1>5, CoordPrefixKept DEF Prefixes
  <2>2. Scalars'
    BY <1>2 DEF ListInv, Lists, Scalars
  <2> QED BY <1>2, <2>1, <2>2, SavedKept DEF Lists
<1>7. ExpandingInv'
  BY <1>1, <1>2, <1>4, InExpand DEF ExpandingInv, PressureInv, InCall
<1> QED BY <1>1, <1>2, <1>6, <1>7, InExpand DEF ListInv, Steps, Stepping

(* An expand_kv whose rollback raises keeps the invariant. *)
LEMMA ExpandRollbackRaisesKeeps ==
  ASSUME ListInv, ExpandRollbackRaises, UNCHANGED <<ctlVars, coordVars>>
  PROVE  ListInv'
<1>1. call = "expand_kv"
  BY DEF ExpandRollbackRaises
<1>2. /\ numSelected' = numSelected
      /\ UNCHANGED <<coord_active, coord_poisoned, delta, selected, pc, draining>>
      /\ UNCHANGED <<quantized_layers, pressure_count, recovery_count, layerVars, transformer_layers,
                     kv_groups, poisoned, batch, saved, k>>
      /\ Returned("raised")'
  BY DEF ExpandRollbackRaises, Return, Returned, numSelected, coordVars, ctlVars, layerVars, poolVars
<1>3. Lists' /\ numActive' = numActive /\ numLent' = numLent /\ numCoord' = numCoord
  BY <1>2, LayersKept DEF ListInv, Lists, Scalars
<1>4. ExpandingInv'
  BY <1>1, <1>2, <1>3, InExpand DEF ExpandingInv, PressureInv, InCall
<1> QED BY <1>1, <1>2, <1>3, <1>4, InExpand DEF ListInv, Steps, Stepping

(* A group that such an expand_kv leaves behind is the next of the profile. *)
LEMMA ExpandLeavesGroupKeeps ==
  ASSUME ListInv, ExpandLeavesGroup, UNCHANGED <<ctlVars, coordVars>>
  PROVE  ListInv' /\ numLent' = numLent + 1
<1> DEFINE n == numLent
<1>1. call = "expand_kv"
  BY DEF ExpandLeavesGroup
<1>2. n \in 0 .. NumLayers - 1 /\ batch[k + 1] = n + 1 /\ n \in Nat /\ n < numActive
  <2>1. /\ batch = Up(numCoord, numSelected) /\ k + 1 \in 1 .. numSelected
        /\ n = numCoord + k /\ numCoord \in Nat /\ k \in Nat
    BY <1>1, InExpand
  <2>2. batch[k + 1] = n + 1
    BY <2>1 DEF Up
  <2>3. n \in 0 .. NumLayers - 1 /\ n \in Nat /\ n < numActive
    BY <1>1, <2>1, InExpand
  <2> QED BY <2>2, <2>3
<1>3. kv_groups' = Prefix(n + 1)
  <2>1. Append(Prefix(n), n + 1) = Prefix(n + 1)
    BY <1>2, PrefixGrows
  <2> QED BY <1>1, <1>2, <2>1, InExpand DEF ExpandLeavesGroup
<1>4. numLent' = n + 1 /\ IsPrefix(kv_groups)'
  BY <1>2, <1>3, PrefixIsPrefix DEF numLent
<1>5. /\ numCoord' = numCoord /\ numSelected' = numSelected /\ numActive' = numActive
      /\ UNCHANGED <<coord_active, coord_poisoned, delta, selected, pc, draining>>
      /\ UNCHANGED <<quantized_layers, pressure_count, recovery_count, active_layers,
                     transformer_layers, poisoned, batch, saved, k>>
      /\ Returned("raised")'
  BY DEF ExpandLeavesGroup, Return, Returned, numCoord, numSelected, numActive, coordVars, ctlVars, layerVars
<1>6. IsPrefix(active_layers)'
  BY <1>5, Zenon DEF ListInv, Lists, Prefixes, IsPrefix
<1>7. Lists'
  <2>1. Prefixes'
    BY <1>1, <1>2, <1>4, <1>5, <1>6, InExpand, CoordPrefixKept DEF Prefixes
  <2>2. Scalars'
    BY <1>5 DEF ListInv, Lists, Scalars
  <2> QED BY <1>5, <2>1, <2>2, SavedKept DEF Lists
<1>8. ExpandingInv'
  BY <1>1, <1>2, <1>4, <1>5, InExpand DEF ExpandingInv, PressureInv, InCall
<1> QED BY <1>1, <1>4, <1>5, <1>7, <1>8, InExpand DEF ListInv, Steps, Stepping

(* ----------------------------------------------------------------------- *)
(* restore_fp16, in a rollback or in recover_fp16                          *)

(* How many layers were W4 when the restore was called.                    *)
Top == IF pc = "recovering" THEN numCoord ELSE numCoord + numSelected

(* While FP16 layers are restored, the call is the coordinator's rollback or its
   recovery, and Top bounds both. *)
LEMMA InRestore ==
  ASSUME ListInv, Restoring
  PROVE  /\ \/ pc = "rolling_back" /\ PressureInv /\ call = "restore_fp16" /\ numLent = numCoord
            \/ /\ pc = "recovering" /\ call = "recover_fp16" /\ numLent = numCoord - numSelected
               /\ delta = -numSelected /\ quantized_layers = numCoord - numSelected
               /\ batch = selected /\ selected = Down(numCoord, numSelected)
         /\ InCall(call) /\ RestoringInv(Top)
         /\ ~coord_poisoned /\ numSelected \in Nat \ {0} /\ k \in 0 .. numSelected - 1
         /\ numCoord \in 0 .. NumLayers /\ Top \in numSelected .. NumLayers
         /\ numActive \in Top - numSelected .. Top /\ numLent = Top - numSelected
         /\ numLent \in 0 .. NumLayers
         /\ batch = Down(Top, numSelected) /\ Len(batch) = numSelected /\ batch \in Seq(Layers)
<1>1. /\ ~coord_poisoned /\ numSelected \in Nat \ {0} /\ k \in 0 .. numSelected
      /\ \/ pc = "rolling_back" /\ RollingBackInv
         \/ pc = "recovering" /\ RecoveringInv
  BY DEF ListInv, Steps, AtRestInv, MorphingInv, ExpandingInv, InCall, Returned, Restoring
<1>2. numCoord \in 0 .. NumLayers
  BY DEF ListInv, Lists, Prefixes, IsPrefix, numCoord
<1>3. CASE pc = "rolling_back"
  <2>1. /\ PressureInv /\ InCall("restore_fp16") /\ RestoringInv(numCoord + numSelected)
        /\ numLent = numCoord /\ numActive \in numCoord .. numCoord + numSelected
    BY <1>1, <1>3 DEF RollingBackInv, Returned, Restoring
  <2>2. Top = numCoord + numSelected /\ Top \in numSelected .. NumLayers
    BY <1>1, <1>2, <1>3, <2>1 DEF Top, PressureInv
  <2>3. numActive \in Top - numSelected .. Top /\ numLent = Top - numSelected
    BY <1>1, <1>2, <2>1, <2>2
  <2>4. call = "restore_fp16" /\ k < numSelected
    BY <2>1 DEF InCall
  <2>5. batch = Down(Top, numSelected)
    BY <2>1, <2>2 DEF RestoringInv
  <2>6. Len(batch) = numSelected
    BY <1>1, <2>2, <2>5, ListLengths
  <2>7. batch \in Seq(Layers)
    BY <1>1, <2>2, <2>5 DEF Down, Layers
  <2> QED BY <1>1, <1>2, <1>3, <2>1, <2>2, <2>3, <2>4, <2>5, <2>6, <2>7
<1>4. CASE pc = "recovering"
  <2>1. /\ InCall("recover_fp16") /\ RestoringInv(numCoord)
        /\ numLent = numCoord - numSelected /\ numActive \in numCoord - numSelected .. numCoord
        /\ numSelected <= numCoord
        /\ delta = -numSelected /\ quantized_layers = numCoord - numSelected
        /\ batch = selected /\ selected = Down(numCoord, numSelected)
    BY <1>1, <1>4 DEF RecoveringInv, Returned, Restoring
  <2>2. Top = numCoord /\ Top \in numSelected .. NumLayers
    BY <1>1, <1>2, <1>4, <2>1 DEF Top
  <2>4. call = "recover_fp16" /\ k < numSelected
    BY <2>1 DEF InCall
  <2>5. batch = Down(Top, numSelected)
    BY <2>1, <2>2 DEF RestoringInv
  <2>6. Len(batch) = numSelected
    BY <1>1, <2>2, <2>5, ListLengths
  <2>7. batch \in Seq(Layers)
    BY <1>1, <2>2, <2>5 DEF Down, Layers
  <2> QED BY <1>1, <1>2, <1>4, <2>1, <2>2, <2>4, <2>5, <2>6, <2>7
<1> QED BY <1>1, <1>3, <1>4

(* What the three ways a step of a restore may end have in common.         *)
RestoreFrame ==
  /\ numCoord' = numCoord /\ numSelected' = numSelected
  /\ UNCHANGED <<coord_active, coord_poisoned, delta, selected, pc, draining>>
  /\ UNCHANGED <<quantized_layers, pressure_count, recovery_count, batch, saved>>

(* What a step that stays inside a restoration has to establish to keep the invariant. *)
LEMMA RestoreGoesOn ==
  ASSUME ListInv, Restoring, RestoreFrame, Lists',
         numLent' = numLent, UNCHANGED <<call, ret, poisoned>>,
         k' \in 0 .. numSelected - 1, phase' \in {"run", "undo"},
         transformer_layers' = W4UpTo(Top - k'),
         phase' = "run" => numActive' = Top - k',
         phase' = "undo" => numActive' <= Top - k' /\ numActive' > Top - numSelected
  PROVE  ListInv'
<1>0. Top' = Top /\ numActive' \in Nat
  BY DEF RestoreFrame, Top, Lists, Prefixes, IsPrefix, numActive
<1>1. RestoringInv(Top)' /\ InCall(call)'
  BY <1>0, InRestore DEF RestoringInv, InCall, RestoreFrame
<1>2. numActive' \in Top - numSelected .. Top
  BY <1>0, InRestore
<1>3. CASE pc = "rolling_back"
  <2>1. Top = numCoord + numSelected /\ Top' = (numCoord + numSelected)'
    BY <1>3 DEF Top, RestoreFrame
  <2>2. PressureInv'
    BY <1>3, InRestore DEF PressureInv, RestoreFrame
  <2>3. RestoringInv(numCoord + numSelected)' /\ InCall("restore_fp16")'
    BY <1>1, <1>3, <2>1, InRestore DEF RestoringInv, InCall
  <2>4. /\ (numActive \in numCoord .. numCoord + numSelected)' /\ numLent' >= numCoord'
        /\ numLent' = numCoord'
    BY <1>2, <1>3, <2>1, InRestore DEF RestoreFrame
  <2>5. (batch \in Seq(Layers))' /\ Len(batch)' = numSelected
    BY InRestore, Zenon DEF RestoreFrame
  <2>6. (k \in 0 .. Len(batch))'
    BY <2>5, InRestore
  <2>7. RollingBackInv'
    BY <2>2, <2>3, <2>4, <2>5, <2>6, Zenon DEF RollingBackInv
  <2> QED BY <1>3, <2>7, InRestore DEF ListInv, Steps, Stepping, RestoreFrame
<1>4. CASE pc = "recovering"
  <2>1. Top = numCoord /\ Top' = numCoord'
    BY <1>4 DEF Top, RestoreFrame
  <2>2. RecoveringInv'
    BY <1>1, <1>2, <1>4, <2>1, InRestore DEF RecoveringInv, RestoreFrame
  <2> QED BY <1>4, <2>2, InRestore DEF ListInv, Steps, Stepping, RestoreFrame
<1> QED BY <1>3, <1>4, InRestore

(* What a step that ends a restoration has to establish to keep the invariant. *)
LEMMA RestoreReturns ==
  ASSUME ListInv, Restoring, RestoreFrame, Lists', NEW result, Returned(result)',
         k' \in 0 .. numSelected,
         transformer_layers' = W4UpTo(numActive'), numActive' \in Top - numSelected .. Top,
         \/ /\ result = "true" /\ ~poisoned'
            /\ numActive' = Top - numSelected /\ numLent' = numLent
         \/ result = "false" /\ poisoned' /\ numLent' = numLent
         \/ /\ result = "false" /\ numActive' = Top
            /\ numLent' = numCoord
         \/ result = "raised" /\ call = "recover_fp16" /\ numActive' = Top /\ numLent' = numLent
  PROVE  ListInv'
<1>1. CASE pc = "rolling_back"
  <2>1. Top = numCoord + numSelected
    BY <1>1 DEF Top
  <2>2. PressureInv'
    BY <1>1, InRestore DEF PressureInv, RestoreFrame
  <2>3. RollingBackInv'
    BY <1>1, <2>1, <2>2, InRestore, SMTT(30) DEF RollingBackInv, RestoreFrame, Returned
  <2> QED BY <1>1, <2>3, InRestore DEF ListInv, Steps, Stepping, RestoreFrame
<1>2. CASE pc = "recovering"
  <2>1. Top = numCoord
    BY <1>2 DEF Top
  <2>2. RecoveringInv'
    BY <1>2, <2>1, InRestore DEF RecoveringInv, RestoreFrame, Returned
  <2> QED BY <1>2, <2>2, InRestore DEF ListInv, Steps, Stepping, RestoreFrame
<1> QED BY <1>1, <1>2, InRestore

(* A step of a restoration that leaves a prefix of active layers keeps the list part of
   the invariant. *)
LEMMA RestoreLists ==
  ASSUME ListInv, Restoring, RestoreFrame, UNCHANGED kv_groups, NEW n \in 0 .. Top,
         n >= Top - numSelected,
         active_layers' = Prefix(n), NEW m, transformer_layers' = W4UpTo(m), poisoned' \in BOOLEAN
  PROVE  Lists' /\ numActive' = n /\ numLent' = numLent
<1>1. n \in 0 .. NumLayers /\ numLent <= n
  BY InRestore
<1>2. numActive' = n /\ IsPrefix(active_layers)'
  BY <1>1, PrefixIsPrefix DEF numActive
<1>3. Prefixes'
  BY <1>1, <1>2, CoordPrefixKept, LentPrefixKept DEF Prefixes, RestoreFrame
<1>4. Scalars'
  BY ScalarsKept DEF RestoreFrame
<1> QED BY <1>2, <1>3, <1>4, SavedKept, LentPrefixKept DEF Lists, RestoreFrame

(* One layer restored to FP16 keeps the invariant. *)
LEMMA RestoreLayerKeeps ==
  ASSUME ListInv, RestoreLayer, UNCHANGED <<ctlVars, coordVars>>
  PROVE  ListInv'
<1> DEFINE n == Top - k
<1>1. Restoring /\ phase = "run"
  BY DEF RestoreLayer, Iterating
<1>2. n \in 1 .. NumLayers /\ n \in 1 .. Top /\ k + 1 \in 1 .. numSelected
  BY <1>1, InRestore
<1>3. batch[k + 1] = n
  <2>1. batch = Down(Top, numSelected) /\ Top \in Int /\ k \in Int
    BY <1>1, InRestore
  <2> QED BY <1>2, <2>1 DEF Down
<1>4. active_layers = Prefix(n) /\ transformer_layers = W4UpTo(n)
  BY <1>1, InRestore DEF RestoringInv, ListInv, Lists, Prefixes, IsPrefix, numActive
<1>5. active_layers' = Prefix(n - 1)
  BY <1>2, <1>3, <1>4, PrefixDrops DEF RestoreLayer
<1>6. transformer_layers' = W4UpTo(n - 1)
  BY <1>2, <1>3, <1>4, W4Remove DEF RestoreLayer
<1>7. RestoreFrame /\ UNCHANGED <<kv_groups, poisoned>> /\ k' = k + 1
  BY DEF RestoreLayer, RestoreFrame, Advance, Return, numCoord, numSelected, coordVars, ctlVars, poolVars
<1>8. IF k + 1 = numSelected THEN Returned("true")' ELSE UNCHANGED <<call, phase, ret>>
  BY <1>1, InRestore DEF RestoreLayer, Advance, Return, Returned
<1>9. n - 1 \in 0 .. Top /\ n - 1 >= Top - numSelected /\ n - 1 = Top - (k + 1) /\ poisoned' \in BOOLEAN
  <2>1. poisoned' \in BOOLEAN
    BY <1>7, Zenon DEF ListInv, Lists, Scalars
  <2>2. Top \in Int /\ k \in Int /\ numSelected \in Int /\ k + 1 <= numSelected /\ Top - numSelected >= 0
    BY <1>1, InRestore
  <2> QED BY <1>2, <2>1, <2>2
<1>10. Lists' /\ numActive' = n - 1 /\ numLent' = numLent
  BY <1>1, <1>5, <1>6, <1>7, <1>9, RestoreLists
<1>11. CASE k + 1 = numSelected
  <2>1. /\ numActive' = Top - numSelected /\ k' \in 0 .. numSelected
        /\ numActive' \in Top - numSelected .. Top /\ ~poisoned'
    BY <1>1, <1>7, <1>9, <1>10, <1>11, InRestore DEF InCall
  <2>2. Returned("true")' /\ transformer_layers' = W4UpTo(numActive')
    BY <1>6, <1>8, <1>10, <1>11
  <2> QED BY <1>1, <1>7, <1>10, <2>1, <2>2, RestoreReturns
<1>12. CASE k + 1 # numSelected
  <2>1. /\ k' \in 0 .. numSelected - 1 /\ n - 1 = Top - k' /\ phase' = "run"
        /\ UNCHANGED <<call, ret, poisoned>>
    BY <1>1, <1>7, <1>8, <1>9, <1>12, InRestore, SMTT(30)
  <2>2. transformer_layers' = W4UpTo(Top - k') /\ numActive' = Top - k'
    BY <1>6, <1>10, <2>1
  <2> QED BY <1>1, <1>7, <1>10, <2>1, <2>2, RestoreGoesOn
<1> QED BY <1>11, <1>12

(* A copy that raises in a restoration, which then starts to undo, keeps the invariant. *)
LEMMA RestoreRaisesKeeps ==
  ASSUME ListInv, RestoreRaises, UNCHANGED <<ctlVars, coordVars>>
  PROVE  ListInv'
<1>1. Restoring /\ phase = "run" /\ phase' = "undo"
  BY DEF RestoreRaises, Iterating, Raise
<1>2. RestoreFrame /\ UNCHANGED <<layerVars, transformer_layers, kv_groups, poisoned, call, ret, k>>
  BY DEF RestoreRaises, RestoreFrame, Raise, numCoord, numSelected, coordVars, ctlVars, poolVars, layerVars
<1>3. poisoned' \in BOOLEAN
  BY <1>2 DEF ListInv, Lists, Scalars
<1>4. Lists' /\ numActive' = numActive /\ numLent' = numLent
  BY <1>2, <1>3, LayersKept DEF RestoreFrame
<1>5. /\ transformer_layers' = W4UpTo(Top - k') /\ k' \in 0 .. numSelected - 1
      /\ numActive' <= Top - k' /\ numActive' > Top - numSelected
  BY <1>1, <1>2, <1>4, InRestore DEF RestoringInv
<1> QED BY <1>1, <1>2, <1>4, <1>5, RestoreGoesOn

(* One layer put back to W4 by the undo of a restoration keeps the invariant. *)
LEMMA RestoreUndoKeeps ==
  ASSUME ListInv, RestoreUndo, UNCHANGED <<ctlVars, coordVars>>
  PROVE  ListInv'
<1> DEFINE n == Top - k
<1>1. Restoring /\ phase = "undo" /\ k > 0
  BY DEF RestoreUndo
<1>2. n \in 0 .. NumLayers - 1 /\ k \in 1 .. numSelected /\ n + 1 = Top - (k - 1) /\ k - 1 \in 0 .. numSelected - 1
  BY <1>1, InRestore
<1>3. batch[k] = n + 1
  <2>1. batch = Down(Top, numSelected) /\ Top \in Int
    BY <1>1, InRestore
  <2> QED BY <1>2, <2>1 DEF Down
<1>4. transformer_layers = W4UpTo(n)
  BY <1>1, InRestore DEF RestoringInv
<1>5. transformer_layers' = W4UpTo(n + 1)
  BY <1>2, <1>3, <1>4, W4Add DEF RestoreUndo
<1>6. /\ RestoreFrame /\ UNCHANGED <<active_layers, kv_groups, poisoned, call, ret, phase>>
      /\ k' = k - 1
  BY DEF RestoreUndo, RestoreFrame, numCoord, numSelected, coordVars, ctlVars, poolVars
<1>7. active_layers' = Prefix(numActive) /\ poisoned' \in BOOLEAN
  BY <1>6 DEF ListInv, Lists, Prefixes, Scalars, IsPrefix, numActive
<1>8. numActive \in 0 .. Top /\ numActive >= Top - numSelected
  BY <1>1, InRestore
<1>9. Lists' /\ numActive' = numActive /\ numLent' = numLent
  BY <1>1, <1>5, <1>6, <1>7, <1>8, RestoreLists
<1>10. numActive' <= Top - k' /\ numActive' > Top - numSelected /\ transformer_layers' = W4UpTo(Top - k')
  BY <1>1, <1>2, <1>5, <1>6, <1>9, InRestore DEF RestoringInv
<1> QED BY <1>1, <1>2, <1>6, <1>9, <1>10, RestoreGoesOn

(* The layers the undo could not put back are the k newest of those active at the call. *)
LEMMA StillFp16Run ==
  ASSUME ListInv, Restoring
  PROVE  StillFp16 = Top - k + 1 .. Top
<1>1. /\ batch = Down(Top, numSelected) /\ Top \in Int /\ k \in Nat /\ numSelected \in Nat
      /\ k <= numSelected
  BY InRestore
<1>2. \A i \in 1 .. k : batch[i] = Top + 1 - i
  BY <1>1 DEF Down
<1>3. StillFp16 = {Top + 1 - i : i \in 1 .. k}
  BY <1>2 DEF StillFp16
<1>4. ASSUME NEW l \in Top - k + 1 .. Top
      PROVE  \E i \in 1 .. k : l = Top + 1 - i
  <2>1. Top + 1 - l \in 1 .. k /\ l = Top + 1 - (Top + 1 - l)
    BY <1>1
  <2> QED BY <2>1
<1>5. \A i \in 1 .. k : Top + 1 - i \in Top - k + 1 .. Top
  BY <1>1
<1> QED BY <1>3, <1>4, <1>5

(* An undo that raises, which poisons the executor and drops the layers still FP16,
   keeps the invariant. *)
LEMMA RestoreUndoRaisesKeeps ==
  ASSUME ListInv, RestoreUndoRaises, UNCHANGED <<ctlVars, coordVars>>
  PROVE  ListInv'
<1> DEFINE n == Top - k
<1>1. Restoring
  BY DEF RestoreUndoRaises
<1>2. n \in 0 .. Top /\ n >= Top - numSelected /\ k \in 0 .. Top /\ Top \in 0 .. NumLayers
      /\ k \in 0 .. numSelected /\ n \in Top - numSelected .. Top
  BY <1>1, InRestore
<1>3. active_layers' = Prefix(n)
  <2>1. Keep(Prefix(Top), Layers \ (Top - k + 1 .. Top)) = Prefix(Top - k)
    BY <1>2, PrefixWithout
  <2>2. saved.active = Prefix(Top)
    BY <1>1, InRestore DEF RestoringInv
  <2> QED BY <1>1, <2>1, <2>2, StillFp16Run, Zenon DEF RestoreUndoRaises
<1>4. RestoreFrame /\ UNCHANGED <<kv_groups, transformer_layers, k>> /\ poisoned' /\ poisoned' \in BOOLEAN
      /\ Returned("false")'
  BY DEF RestoreUndoRaises, Return, Returned, RestoreFrame, numCoord, numSelected, coordVars, ctlVars, poolVars
<1>5. transformer_layers' = W4UpTo(n)
  BY <1>1, <1>4, InRestore DEF RestoringInv
<1>6. Lists' /\ numActive' = n /\ numLent' = numLent
  BY <1>1, <1>2, <1>3, <1>4, <1>5, RestoreLists
<1>7. k' \in 0 .. numSelected /\ numActive' \in Top - numSelected .. Top
      /\ transformer_layers' = W4UpTo(numActive')
  BY <1>2, <1>4, <1>5, <1>6
<1> QED BY <1>1, <1>4, <1>6, <1>7, RestoreReturns

(* A restoration that was undone, or whose groups could not be reattached, keeps the
   invariant. *)
LEMMA RestoreUndoneKeeps ==
  ASSUME ListInv, RestoreUndone \/ RecoverReattachRaises, UNCHANGED <<ctlVars, coordVars>>
  PROVE  ListInv'
<1>1. Restoring /\ k = 0
  BY DEF RestoreUndone, RecoverReattachRaises, Restoring
<1>2. Top \in 0 .. Top /\ Top >= Top - numSelected /\ Top - k = Top
      /\ Top \in Top - numSelected .. Top /\ k \in 0 .. numSelected
  BY <1>1, InRestore
<1>3. active_layers' = Prefix(Top)
  BY <1>1, InRestore DEF RestoringInv, RestoreUndone, RecoverReattachRaises
<1>4. RestoreFrame /\ UNCHANGED <<kv_groups, transformer_layers, poisoned, k>>
  BY DEF RestoreUndone, RecoverReattachRaises, Return, RestoreFrame, numCoord, numSelected,
     coordVars, ctlVars, poolVars
<1>5. transformer_layers' = W4UpTo(Top)
  BY <1>1, <1>2, <1>4, InRestore DEF RestoringInv
<1>6. poisoned' \in BOOLEAN
  BY <1>4, Zenon DEF ListInv, Lists, Scalars
<1>7. Lists' /\ numActive' = Top /\ numLent' = numLent
  BY <1>1, <1>2, <1>3, <1>4, <1>5, <1>6, RestoreLists
<1>8. k' \in 0 .. numSelected /\ numActive' \in Top - numSelected .. Top
      /\ transformer_layers' = W4UpTo(numActive')
  BY <1>2, <1>4, <1>5, <1>7
<1>9. CASE RestoreUndone
  <2>1. Returned("false")' /\ numLent' = numCoord
    BY <1>1, <1>7, <1>9, InRestore DEF RestoreUndone, Return, Returned
  <2> QED BY <1>1, <1>4, <1>7, <1>8, <2>1, RestoreReturns
<1>10. CASE RecoverReattachRaises
  <2>1. Returned("raised")' /\ call = "recover_fp16"
    BY <1>10 DEF RecoverReattachRaises, Return, Returned
  <2> QED BY <1>1, <1>4, <1>7, <1>8, <2>1, RestoreReturns
<1> QED BY <1>9, <1>10

(* A recovery that failed and took its KV groups back keeps the invariant. *)
LEMMA RecoverReattachKeeps ==
  ASSUME ListInv, RecoverReattach, UNCHANGED <<ctlVars, coordVars>>
  PROVE  ListInv'
<1>1. Restoring /\ k = 0 /\ call = "recover_fp16"
  BY DEF RecoverReattach, Restoring
<1>2. /\ Top - k = Top /\ Top \in Top - numSelected .. Top /\ k \in 0 .. numSelected
      /\ Top = numCoord /\ Top \in 0 .. NumLayers
  BY <1>1, InRestore DEF Top
<1>3. active_layers' = Prefix(Top)
  BY <1>1, InRestore DEF RestoringInv, RecoverReattach
<1>4. /\ RestoreFrame /\ UNCHANGED <<transformer_layers, poisoned, k>>
      /\ kv_groups' = saved.groups /\ Returned("false")'
  BY DEF RecoverReattach, ReattachSnapshot, Return, Returned, RestoreFrame, numCoord, numSelected,
     coordVars, ctlVars
<1>5. transformer_layers' = W4UpTo(Top)
  BY <1>1, <1>2, <1>4, InRestore DEF RestoringInv
<1>6. kv_groups' = Prefix(Top)
  <2>1. Len(saved.groups) = Top /\ saved.groups = Prefix(Len(saved.groups))
    BY <1>1, <1>2, InRestore DEF RestoringInv, ListInv, Lists, SavedLists, IsPrefix
  <2> QED BY <1>4, <2>1
<1>7. /\ numActive' = Top /\ IsPrefix(active_layers)'
      /\ numLent' = Top /\ IsPrefix(kv_groups)'
  BY <1>2, <1>3, <1>6, PrefixIsPrefix DEF numActive, numLent
<1>8. Lists'
  <2>1. Prefixes'
    BY <1>2, <1>4, <1>7, CoordPrefixKept DEF Prefixes, RestoreFrame
  <2>2. poisoned' \in BOOLEAN
    BY <1>4, Zenon DEF ListInv, Lists, Scalars
  <2>3. Scalars'
    BY <1>4, <1>5, <2>2, ScalarsKept DEF RestoreFrame
  <2> QED BY <1>4, <2>1, <2>3, SavedKept DEF Lists, RestoreFrame
<1>9. k' \in 0 .. numSelected /\ numActive' \in Top - numSelected .. Top
      /\ transformer_layers' = W4UpTo(numActive') /\ numLent' = numCoord
  BY <1>2, <1>4, <1>5, <1>7
<1> QED BY <1>1, <1>4, <1>7, <1>8, <1>9, RestoreReturns

(* ----------------------------------------------------------------------- *)
(* The driver, and the samples the controller does not act on              *)

(* Between steps the three modules agree on how many layers are W4. *)
LEMMA InRest ==
  ASSUME ListInv, pc \in Driving
  PROVE  /\ AtRestInv /\ numCoord \in 0 .. NumLayers /\ quantized_layers = numCoord
         /\ active_layers = Prefix(numCoord) /\ coord_active = Prefix(numCoord)
         /\ numActive = numCoord /\ transformer_layers = W4UpTo(numCoord)
<1>1. AtRestInv
  BY DEF ListInv, Steps, Driving
<1>2. numActive = numCoord /\ quantized_layers = numCoord /\ transformer_layers = W4UpTo(numCoord)
  BY <1>1 DEF AtRestInv
<1> QED BY <1>1, <1>2 DEF ListInv, Lists, Prefixes, IsPrefix, numCoord, numActive

(* A move of the driving loop that changes only counters, drain and pc keeps the invariant. *)
LEMMA RestStays ==
  ASSUME ListInv, pc \in Driving, pc' \in Driving,
         UNCHANGED <<layerVars, kv_groups, poisoned, callVars>>,
         UNCHANGED <<quantized_layers, coord_active, coord_poisoned, delta, selected>>,
         pressure_count' \in Nat, recovery_count' \in Nat, draining' \in BOOLEAN
  PROVE  ListInv'
<1>1. UNCHANGED <<active_layers, transformer_layers, kv_groups, coord_active, saved>>
  BY DEF layerVars, callVars
<1>2. numActive' = numActive /\ numLent' = numLent /\ numCoord' = numCoord
  BY <1>1 DEF numActive, numLent, numCoord
<1>3. IsPrefix(active_layers)'
  BY <1>1, Zenon DEF ListInv, Lists, Prefixes, IsPrefix
<1>4. Lists'
  <2>1. Prefixes'
    BY <1>1, <1>2, <1>3, CoordPrefixKept, LentPrefixKept DEF Prefixes, ListInv, Lists
  <2>2. Scalars'
    BY <1>1 DEF Scalars, ListInv, Lists
  <2> QED BY <1>1, <2>1, <2>2, SavedKept DEF Lists
<1>5. AtRestInv'
  BY <1>1, <1>2, InRest DEF AtRestInv, callVars
<1> QED BY <1>4, <1>5 DEF ListInv, Steps

(* Every move of the serving loop around the coordinator keeps the invariant. *)
LEMMA DriveKeeps ==
  ASSUME ListInv, Drive
  PROVE  ListInv'
<1>1. draining \in BOOLEAN /\ pressure_count \in Nat /\ recovery_count \in Nat
  BY DEF ListInv, Lists, Scalars
<1>2. ASSUME NEW taken, Forward(taken)
      PROVE  ListInv'
  <2>1. /\ pc \in Driving /\ pc' \in Driving
        /\ UNCHANGED <<layerVars, kv_groups, poisoned, callVars, quantized_layers, coord_active,
                       coord_poisoned, delta, selected, pressure_count, recovery_count, draining>>
    BY <1>2 DEF Forward, Driving, ctlVars
  <2> QED BY <1>1, <2>1, RestStays
<1>3. ASSUME NEW blocks, Finish(blocks)
      PROVE  ListInv'
  <2>1. /\ pc \in Driving /\ pc' \in Driving
        /\ UNCHANGED <<layerVars, kv_groups, poisoned, callVars, quantized_layers, coord_active,
                       coord_poisoned, delta, selected, pressure_count, recovery_count, draining>>
    BY <1>3 DEF Finish, Driving, ctlVars, coordVars
  <2> QED BY <1>1, <2>1, RestStays
<1>4. CASE Drain \/ StepDisabled
  <2>1. /\ pc \in Driving /\ pc' \in Driving
        /\ UNCHANGED <<layerVars, kv_groups, poisoned, callVars, quantized_layers, coord_active,
                       coord_poisoned, delta, selected, pressure_count, recovery_count>>
        /\ draining' \in BOOLEAN
    BY <1>1, <1>4 DEF Drain, StepDisabled, Driving, ctlVars, execVars, layerVars, callVars
  <2> QED BY <1>1, <2>1, RestStays
<1>5. CASE Stopped
  <2>1. /\ pc \in Driving /\ pc' \in Driving
        /\ UNCHANGED <<layerVars, kv_groups, poisoned, callVars, quantized_layers, coord_active,
                       coord_poisoned, delta, selected, pressure_count, recovery_count, draining>>
    BY <1>5 DEF Stopped, Driving, vars, layerVars, callVars
  <2> QED BY <1>1, <2>1, RestStays
<1> QED BY <1>2, <1>3, <1>4, <1>5 DEF Drive

(* Counting a sample leaves both counters natural numbers. *)
LEMMA CountersStayNaturals ==
  ASSUME ListInv, NEW signal, CountSample(signal)
  PROVE  pressure_count' \in Nat /\ recovery_count' \in Nat
BY DEF CountSample, ListInv, Lists, Scalars

(* A sample after which the controller orders nothing keeps the invariant. *)
LEMMA NoActionKeeps ==
  ASSUME ListInv, NEW signal, NoAction(signal) \/ ProfileExhausted(signal)
  PROVE  ListInv'
<1>1. pc \in Driving /\ CountSample(signal) /\ EndStep
  BY DEF NoAction, ProfileExhausted, SampleStarts, Driving
<1>2. /\ UNCHANGED <<layerVars, kv_groups, poisoned, callVars, quantized_layers, coord_active,
                     coord_poisoned, draining>>
  BY DEF NoAction, ProfileExhausted, execVars, layerVars, callVars
<1>3. UNCHANGED <<delta, selected>> /\ pc' \in Driving
  BY <1>1, InRest DEF EndStep, Driving, AtRestInv
<1>4. draining' \in BOOLEAN
  BY <1>2, Zenon DEF ListInv, Lists, Scalars
<1> QED BY <1>1, <1>2, <1>3, <1>4, CountersStayNaturals, RestStays

(* ----------------------------------------------------------------------- *)
(* The samples that start a batch                                          *)

(* The controller never asks to recover more layers than are quantized. *)
LEMMA LayerDeltaRange ==
  ASSUME ListInv, pc \in Driving, NEW signal
  PROVE  LayerDelta(signal) \in Int /\ -LayerDelta(signal) <= quantized_layers
<1>1. quantized_layers \in Nat
  BY InRest
<1> QED BY <1>1 DEF LayerDelta, Smaller

(* The layers chosen under pressure follow those already morphed; fewer    *)
(* than asked for when the profile is exhausted.                           *)
LEMMA NextOfProfileIsUp ==
  ASSUME ListInv, pc \in Driving, NEW d \in Nat
  PROVE  /\ NextOfProfile(d) = Up(numCoord, Len(NextOfProfile(d)))
         /\ Len(NextOfProfile(d)) = IF d < NumLayers - numCoord THEN d ELSE NumLayers - numCoord
<1> DEFINE rest == NumLayers - numCoord
           n == IF d < rest THEN d ELSE rest
           S == Layers \ Elements(coord_active)
<1>1. numCoord \in 0 .. NumLayers /\ numCoord \in Nat /\ rest \in Nat /\ n \in Nat
  BY InRest
<1>2. Elements(coord_active) = 1 .. numCoord
  BY <1>1, InRest, ListElements
<1>3. \A i \in 1 .. NumLayers : i \in S <=> i > numCoord
  BY <1>1, <1>2 DEF Layers
<1>4. Keep(Prefix(NumLayers), S) = Up(numCoord, rest)
  <2> HIDE DEF S
  <2> QED BY <1>1, <1>3, PrefixKeepRest
<1>5. NextOfProfile(d) = Up(numCoord, n)
  <2>1. NextOfProfile(d) = Take(Up(numCoord, rest), d)
    BY <1>4 DEF NextOfProfile, Prefix
  <2> QED BY <1>1, <2>1, UpTaken
<1>6. Len(NextOfProfile(d)) = n
  BY <1>1, <1>5, ListLengths
<1> QED BY <1>5, <1>6

(* A sample that starts a pressure action keeps the invariant. *)
LEMMA StartPressureKeeps ==
  ASSUME ListInv, NEW signal, StartPressure(signal)
  PROVE  ListInv'
<1> DEFINE d == LayerDelta(signal)
           chosen == NextOfProfile(d)
<1>1. pc \in Driving /\ ~coord_poisoned /\ ~poisoned /\ d \in Nat \ {0} /\ CountSample(signal)
  BY LayerDeltaRange DEF StartPressure, SampleStarts, Driving
<1>2. chosen = Up(numCoord, d) /\ Len(chosen) = d /\ numCoord + d <= NumLayers
  <2>1. Len(chosen) = d
    BY DEF StartPressure
  <2>2. /\ chosen = Up(numCoord, Len(chosen))
        /\ Len(chosen) = IF d < NumLayers - numCoord THEN d ELSE NumLayers - numCoord
    BY <1>1, NextOfProfileIsUp
  <2>3. numCoord \in Int
    BY <1>1, InRest
  <2> QED BY <1>1, <2>1, <2>2, <2>3
<1>3. /\ UNCHANGED <<layerVars, transformer_layers, kv_groups, poisoned, saved, coord_active,
                     coord_poisoned, draining>>
      /\ batch' = chosen /\ selected' = chosen /\ k' = 0 /\ delta' = d
      /\ quantized_layers' = quantized_layers + d /\ pc' = "morphing"
  BY DEF StartPressure, CallMorphToW4, Refuse, Enter, layerVars, poolVars
<1>4. \/ Returned("false")'
      \/ call' = "morph_to_w4" /\ phase' = "run" /\ ret' = "none"
  BY DEF StartPressure, CallMorphToW4, Refuse, Enter, Returned
<1> HIDE DEF d, chosen
<1>5. numActive' = numActive /\ numLent' = numLent /\ numCoord' = numCoord /\ numSelected' = d
  BY <1>2, <1>3 DEF numActive, numLent, numCoord, numSelected, layerVars
<1>6. Lists'
  <2>1. IsPrefix(active_layers)'
    BY <1>3, Zenon DEF ListInv, Lists, Prefixes, IsPrefix, layerVars
  <2>2. Prefixes'
    BY <1>3, <1>5, <2>1, CoordPrefixKept, LentPrefixKept DEF Prefixes, ListInv, Lists
  <2>3. Scalars'
    BY <1>1, <1>3, CountersStayNaturals DEF Scalars, ListInv, Lists
  <2> QED BY <1>3, <2>2, <2>3, SavedKept DEF Lists
<1>7. /\ numActive = numCoord /\ numLent = numCoord /\ quantized_layers = numCoord /\ numCoord \in Nat
      /\ transformer_layers = W4UpTo(numActive) /\ saved = NoSnapshot
  BY <1>1, InRest DEF AtRestInv
<1>8. PressureInv'
  BY <1>1, <1>2, <1>3, <1>5, <1>7 DEF PressureInv
<1>9. (k \in 0 .. numSelected)' /\ (numSelected \in Nat \ {0})' /\ k' < numSelected' /\ ~(k' > 0)
  BY <1>1, <1>3, <1>5
<1>10. ~poisoned' /\ ~coord_poisoned' /\ poisoned' \in BOOLEAN
  BY <1>1, <1>3, Zenon DEF ListInv, Lists, Scalars
<1>11. numActive' = numCoord' + k' /\ numLent' = numCoord'
  BY <1>3, <1>5, <1>7
<1>12. transformer_layers' = W4UpTo(numActive') /\ saved' = NoSnapshot /\ batch' = selected'
  BY <1>3, <1>5, <1>7
<1>13. MorphingInv'
  BY <1>4, <1>8, <1>9, <1>10, <1>11, <1>12 DEF MorphingInv, InCall
<1> QED BY <1>3, <1>6, <1>9, <1>10, <1>13 DEF ListInv, Steps, Stepping

(* A sample that starts a recovery, or whose recovery is refused at once, keeps the
   invariant. *)
LEMMA StartRecoveryKeeps ==
  ASSUME ListInv, NEW signal, StartRecovery(signal)
  PROVE  ListInv'
<1> DEFINE d == -LayerDelta(signal)
           c == numCoord
           chosen == NewestFirst(coord_active, d)
<1>1. pc \in Driving /\ ~coord_poisoned /\ ~poisoned /\ CountSample(signal)
  BY DEF StartRecovery, SampleStarts, Driving
<1>2. /\ d \in 1 .. c /\ c \in 0 .. NumLayers /\ d \in Nat \ {0} /\ c \in Nat /\ c - d \in 0 .. NumLayers
      /\ LayerDelta(signal) = -d
  BY <1>1, LayerDeltaRange, InRest DEF StartRecovery
<1>3. /\ numActive = c /\ numLent = c /\ quantized_layers = c
      /\ active_layers = Prefix(c) /\ kv_groups = Prefix(c) /\ coord_active = Prefix(c)
      /\ transformer_layers = W4UpTo(c)
  BY <1>1, InRest DEF AtRestInv, ListInv, Lists, Prefixes, IsPrefix, numLent
<1>4. chosen = Down(c, d) /\ Len(chosen) = d
  BY <1>2, <1>3, PrefixNewest, ListLengths
<1>5. /\ UNCHANGED <<active_layers, transformer_layers, coord_active, coord_poisoned, draining>>
      /\ batch' = chosen /\ selected' = chosen /\ k' = 0 /\ delta' = LayerDelta(signal)
      /\ quantized_layers' = quantized_layers + LayerDelta(signal) /\ pc' = "recovering"
      /\ phase' = "run"
  BY DEF StartRecovery, CallRecoverFp16, CallRecoverFp16Raises, CallRecoverFp16NotSaved, Refuse, Enter, layerVars
<1>6. \/ /\ call' = "recover_fp16" /\ ret' = "none" /\ UNCHANGED poisoned
         /\ kv_groups' = DropLast(kv_groups, Len(chosen)) /\ saved' = Snapshot
      \/ /\ Returned("false")' \/ Returned("raised")'
         /\ UNCHANGED <<kv_groups, saved>> /\ (UNCHANGED poisoned \/ poisoned' = TRUE)
  BY DEF StartRecovery, CallRecoverFp16, CallRecoverFp16Raises, CallRecoverFp16NotSaved, Refuse, Enter, Returned, PopGroups, poolVars
<1>7. DropLast(kv_groups, Len(chosen)) = Prefix(c - d)
  BY <1>2, <1>3, <1>4, PrefixCut
<1> HIDE DEF d, chosen, c
<1>8. numActive' = c /\ numCoord' = c /\ numSelected' = d
  BY <1>3, <1>4, <1>5 DEF numActive, numCoord, numSelected, c
<1>9. IsPrefix(active_layers)' /\ IsPrefix(coord_active)'
  BY <1>2, <1>3, <1>5, PrefixIsPrefix
<1>10. poisoned' \in BOOLEAN /\ Scalars'
  <2>1. poisoned' \in BOOLEAN
    BY <1>6, Zenon DEF ListInv, Lists, Scalars
  <2> QED BY <1>5, <2>1, <1>1, CountersStayNaturals DEF Scalars, ListInv, Lists
<1>11. /\ (numSelected <= numCoord)' /\ (selected = Down(numCoord, numSelected))'
       /\ (delta = -numSelected)' /\ (quantized_layers = numCoord - numSelected)'
       /\ batch' = selected'
       /\ (k \in 0 .. numSelected)' /\ (numSelected \in Nat \ {0})' /\ ~coord_poisoned'
       /\ (numActive \in numCoord - numSelected .. numCoord)'
       /\ k' < numSelected' /\ transformer_layers' = W4UpTo(numActive') /\ numActive' = numCoord'
  BY <1>1, <1>2, <1>3, <1>4, <1>5, <1>8
<1>12. CASE call' = "recover_fp16"
  <2>1. /\ kv_groups' = Prefix(c - d) /\ saved' = Snapshot /\ UNCHANGED poisoned /\ ret' = "none"
        /\ ~poisoned'
    BY <1>1, <1>6, <1>7, <1>12 DEF Returned
  <2>2. numLent' = c - d /\ IsPrefix(kv_groups)'
    BY <1>2, <2>1, PrefixIsPrefix DEF numLent
  <2>3. saved'.active = Prefix(c) /\ saved'.groups = Prefix(c)
    BY <1>3, <2>1 DEF Snapshot
  <2>4. SavedLists'
    <3>1. IsPrefix(saved'.active) /\ IsPrefix(saved'.groups)
      BY <1>2, <2>3, PrefixIsPrefix
    <3>2. saved' = [active |-> saved'.active, groups |-> saved'.groups,
                    free |-> saved'.free, blocks |-> saved'.blocks, nfree |-> saved'.nfree]
      BY <2>1 DEF Snapshot
    <3> QED BY <3>1, <3>2 DEF SavedLists, IsPrefix
  <2>5. Lists'
    BY <1>2, <1>8, <1>9, <1>10, <2>2, <2>4 DEF Lists, Prefixes
  <2>6. RestoringInv(numCoord)'
    <3>1. Len(saved'.groups) = c
      BY <1>2, <2>3, PrefixIsPrefix
    <3> QED BY <1>2, <1>3, <1>4, <1>5, <1>8, <2>3, <3>1 DEF RestoringInv
  <2>7. InCall("recover_fp16")'
    BY <1>5, <1>11, <1>12, <2>1 DEF InCall
  <2>8. (numLent \in numCoord - numSelected .. numCoord)' /\ (numLent = numCoord - numSelected)'
    BY <1>2, <1>8, <2>2
  <2>9. RecoveringInv'
    BY <1>11, <2>6, <2>7, <2>8, Zenon DEF RecoveringInv
  <2> QED BY <1>5, <1>11, <2>5, <2>9 DEF ListInv, Steps, Stepping
<1>13. CASE (Returned("false")' \/ Returned("raised")') /\ UNCHANGED <<kv_groups, saved>>
  <2>1. numLent' = c /\ IsPrefix(kv_groups)'
    BY <1>2, <1>3, <1>13, PrefixIsPrefix DEF numLent
  <2>2. Lists'
    BY <1>2, <1>8, <1>9, <1>10, <1>13, <2>1, SavedKept DEF Lists, Prefixes
  <2>3. (numLent \in numCoord - numSelected .. numCoord)' /\ numLent' = numCoord'
    BY <1>2, <1>8, <2>1
  <2>4. RecoveringInv'
    BY <1>11, <1>13, <2>3 DEF RecoveringInv
  <2> QED BY <1>5, <1>11, <2>2, <2>4 DEF ListInv, Steps, Stepping
<1> QED BY <1>6, <1>12, <1>13

(* ----------------------------------------------------------------------- *)
(* The ends of a step                                                      *)

(* What the end of a coordinator step has to establish to be at rest again. *)
LEMMA StepEnds ==
  ASSUME ListInv, UNCHANGED <<layerVars, kv_groups, poisoned, pressure_count, recovery_count, draining>>,
         EndStep, Idle,
         transformer_layers = W4UpTo(numActive),
         coord_active' = Prefix(numActive), coord_poisoned' \in BOOLEAN,
         quantized_layers' = numActive,
         ~coord_poisoned' => ~poisoned /\ numLent = numActive
  PROVE  ListInv'
<1>1. UNCHANGED <<active_layers, transformer_layers>>
  BY DEF layerVars
<1>2. numActive \in 0 .. NumLayers /\ active_layers = Prefix(numActive)
  BY DEF ListInv, Lists, Prefixes, IsPrefix, numActive
<1>3. /\ numActive' = numActive /\ numLent' = numLent /\ numCoord' = numActive
      /\ IsPrefix(active_layers)' /\ IsPrefix(coord_active)'
  BY <1>1, <1>2, PrefixIsPrefix DEF numActive, numLent, numCoord
<1>4. Prefixes'
  BY <1>1, <1>3, LentPrefixKept DEF Prefixes, ListInv, Lists
<1>5. Scalars'
  BY <1>1 DEF Scalars, ListInv, Lists
<1>6. SavedLists'
  <2>1. saved' = NoSnapshot
    BY DEF Idle
  <2>2. /\ saved'.active = <<>> /\ saved'.groups = <<>>
        /\ saved' = [active |-> saved'.active, groups |-> saved'.groups,
                     free |-> saved'.free, blocks |-> saved'.blocks, nfree |-> saved'.nfree]
    BY <2>1 DEF NoSnapshot
  <2>3. IsPrefix(saved'.active) /\ IsPrefix(saved'.groups)
    BY <2>2, EmptyIsPrefix
  <2> QED BY <2>2, <2>3 DEF SavedLists, IsPrefix
<1>7. AtRestInv'
  BY <1>1, <1>3 DEF AtRestInv, EndStep, Idle
<1>8. pc' \in Driving
  BY DEF EndStep, Driving
<1> QED BY <1>4, <1>5, <1>6, <1>7, <1>8 DEF ListInv, Lists, Steps

(* A step that concludes after a rollback is at rest with the old lists, or poisoned. *)
LEMMA RollbackConcludes ==
  ASSUME ListInv, PressureInv, ~coord_poisoned,
         transformer_layers = W4UpTo(numActive), numLent >= numCoord,
         NEW rolled_back \in BOOLEAN,
         rolled_back => active_layers = coord_active /\ ~poisoned,
         Conclude(rolled_back), Idle,
         UNCHANGED <<layerVars, kv_groups, poisoned, pressure_count, recovery_count, draining>>
  PROVE  ListInv'
<1>1. /\ numActive \in Nat /\ numLent \in Nat /\ numCoord \in Nat /\ active_layers = Prefix(numActive)
      /\ numLent <= numActive /\ numSelected \in Int
  BY DEF ListInv, Lists, Prefixes, IsPrefix, numActive, numCoord, numLent, Steps, AtRestInv, numSelected
<1>2. EndStep
  BY DEF Conclude
<1>3. CASE rolled_back
  <2>1. numActive = numCoord /\ numLent = numActive /\ coord_active = Prefix(numActive)
    BY <1>1, <1>3 DEF numActive, numCoord
  <2>2. /\ quantized_layers' = numActive /\ UNCHANGED <<coord_active, coord_poisoned>>
    BY <1>1, <1>3, <2>1 DEF Conclude, PressureInv
  <2>3. coord_poisoned' \in BOOLEAN
    BY <2>2, Zenon DEF ListInv, Lists, Scalars
  <2> QED BY <1>2, <1>3, <2>1, <2>2, <2>3, StepEnds
<1>4. CASE ~rolled_back
  <2>1. coord_poisoned' = TRUE /\ coord_active' = active_layers /\ quantized_layers' = numActive
    BY <1>4 DEF Conclude, numActive
  <2> QED BY <1>1, <1>2, <2>1, StepEnds
<1> QED BY <1>3, <1>4

(* What rollback_pressure is called with: it restores every layer of the   *)
(* batch that is active, newest first.                                     *)
LEMMA ToRollBackIsDown ==
  ASSUME ListInv, PressureInv, numSelected \in Nat,
         numActive \in numCoord .. numCoord + numSelected
  PROVE  /\ ToRollBack = Down(numActive, numActive - numCoord)
         /\ Len(ToRollBack) = numActive - numCoord
         /\ Elements(ToRollBack) = numCoord + 1 .. numActive
<1>1. /\ numActive \in Nat /\ numCoord \in Nat /\ active_layers = Prefix(numActive)
      /\ numActive - numCoord \in Nat
  BY DEF ListInv, Lists, Prefixes, IsPrefix, numActive, numCoord
<1>2. Elements(active_layers) = 1 .. numActive
  BY <1>1, ListElements
<1>3. ToRollBack = Keep(Reversed(Up(numCoord, numSelected)), 1 .. numActive)
  BY <1>2, Zenon DEF ToRollBack, PressureInv
<1>4. ToRollBack = Down(numActive, numActive - numCoord)
  BY <1>1, <1>3, UpReversedKeep
<1>5. numActive - (numActive - numCoord) + 1 = numCoord + 1 /\ numActive \in Int
  BY <1>1
<1>6. Len(ToRollBack) = numActive - numCoord
  BY <1>1, <1>4, <1>5, ListLengths, Zenon
<1>7. Elements(ToRollBack) = numActive - (numActive - numCoord) + 1 .. numActive
  BY <1>1, <1>4, <1>5, ListElements, Zenon
<1> QED BY <1>4, <1>5, <1>6, <1>7, Zenon

(* The rollback of a failed pressure action, started or found unnecessary, keeps the
   invariant. *)
LEMMA RollbackPressureKeeps ==
  ASSUME ListInv, PressureInv, ~coord_poisoned, numSelected \in Nat \ {0},
         transformer_layers = W4UpTo(numActive), numLent >= numCoord,
         numActive \in numCoord .. numCoord + numSelected,
         numActive = numCoord => ~poisoned,
         numActive # numCoord /\ ~poisoned => numActive = numCoord + numSelected,
         RollbackPressure, UNCHANGED <<pressure_count, recovery_count, draining>>
  PROVE  ListInv'
<1>1. /\ numActive \in 0 .. NumLayers /\ numCoord \in 0 .. NumLayers /\ numLent \in Nat
      /\ active_layers = Prefix(numActive) /\ coord_active = Prefix(numCoord)
      /\ kv_groups = Prefix(numLent) /\ numLent <= numActive
  BY DEF ListInv, Lists, Prefixes, IsPrefix, numActive, numCoord, numLent
<1>2. /\ ToRollBack = Down(numActive, numActive - numCoord)
      /\ Len(ToRollBack) = numActive - numCoord
      /\ Elements(ToRollBack) = numCoord + 1 .. numActive
  BY ToRollBackIsDown
<1>3. CASE ToRollBack = <<>>
  <2>1. numActive = numCoord
    BY <1>1, <1>2, <1>3
  <2>2. active_layers = coord_active /\ ~poisoned
    BY <1>1, <2>1
  <2>3. /\ Conclude(TRUE) /\ Idle
        /\ UNCHANGED <<layerVars, kv_groups, poisoned>>
    BY <1>3, <2>2 DEF RollbackPressure, poolVars
  <2> QED BY <2>2, <2>3, RollbackConcludes
<1>4. CASE ToRollBack # <<>>
  <2>1. /\ UNCHANGED <<layerVars, active_layers, transformer_layers, kv_groups, poisoned>>
        /\ UNCHANGED <<quantized_layers, coord_active, coord_poisoned, delta, selected>>
        /\ batch' = ToRollBack /\ k' = 0 /\ phase' = "run" /\ pc' = "rolling_back"
    BY <1>4 DEF RollbackPressure, CallRestoreFp16, Refuse, Enter, layerVars, poolVars
  <2>2. /\ numActive' = numActive /\ numCoord' = numCoord /\ numLent' = numLent
        /\ numSelected' = numSelected
    BY <2>1 DEF numActive, numCoord, numLent, numSelected
  <2>3. Prefixes'
    <3>1. IsPrefix(active_layers)'
      BY <2>1, Zenon DEF ListInv, Lists, Prefixes, IsPrefix
    <3> QED BY <1>1, <2>1, <2>2, <3>1, CoordPrefixKept, LentPrefixKept DEF Prefixes
  <2>4. Scalars'
    BY <2>1 DEF Scalars, ListInv, Lists
  <2>5. PressureInv'
    BY <2>1, <2>2 DEF PressureInv
  <2>6. /\ (numSelected \in Nat \ {0})' /\ ~coord_poisoned'
        /\ (numActive \in numCoord .. numCoord + numSelected)' /\ numLent' >= numCoord'
        /\ (k \in 0 .. numSelected)' /\ k' < numSelected'
        /\ transformer_layers' = W4UpTo(numActive')
    BY <2>1, <2>2
  <2>7. (batch \in Seq(Layers))'
    BY <1>1, <1>2, <2>1 DEF Down, Layers
  <2>8. (k \in 0 .. Len(batch))'
    BY <1>1, <1>2, <2>1
  <2>9. CASE Refuse(ToRollBack) /\ UNCHANGED saved
    <3>1. Returned("false")'
      BY <2>9 DEF Refuse, Returned
    <3>2. RollingBackInv'
      BY <2>5, <2>6, <2>7, <2>8, <3>1 DEF RollingBackInv
    <3>3. SavedLists'
      BY <2>9, SavedKept
    <3> QED BY <2>1, <2>3, <2>4, <2>6, <3>2, <3>3 DEF ListInv, Lists, Steps, Stepping
  <2>10. CASE /\ ~RestoreRefused(ToRollBack, kv_groups)
              /\ Enter("restore_fp16", ToRollBack) /\ saved' = Snapshot
    <3>1. ~poisoned /\ Elements(ToRollBack) \cap Elements(kv_groups) = {}
      BY <2>10 DEF RestoreRefused
    <3>2. numActive = numCoord + numSelected
      <4>1. numActive # numCoord
        <5>1. SUFFICES ASSUME numActive = numCoord PROVE FALSE
          OBVIOUS
        <5>2. Len(ToRollBack) = 0 /\ ToRollBack = [i \in 1 .. 0 |-> numActive + 1 - i]
          BY <1>1, <1>2, <5>1 DEF Down
        <5> QED BY <1>4, <5>2
      <4> QED BY <3>1, <4>1
    <3>3. numLent = numCoord
      <4>1. Elements(kv_groups) = 1 .. numLent
        BY <1>1, ListElements
      <4>2. SUFFICES ASSUME numLent >= numCoord + 1 PROVE FALSE
        BY <1>1
      <4>3. numCoord + 1 \in numCoord + 1 .. numActive /\ numCoord + 1 \in 1 .. numLent
        BY <1>1, <4>2
      <4> QED BY <1>2, <3>1, <4>1, <4>3
    <3>4. saved'.active = Prefix(numActive) /\ saved'.groups = Prefix(numLent)
      BY <1>1, <2>10 DEF Snapshot
    <3>5. /\ IsPrefix(saved'.active) /\ IsPrefix(saved'.groups)
          /\ Len(saved'.groups) = numCoord
      BY <1>1, <3>3, <3>4, PrefixIsPrefix
    <3>6. SavedLists'
      <4>1. saved' = [active |-> saved'.active, groups |-> saved'.groups,
                      free |-> saved'.free, blocks |-> saved'.blocks, nfree |-> saved'.nfree]
        BY <2>10 DEF Snapshot
      <4> QED BY <3>5, <4>1 DEF SavedLists, IsPrefix
    <3>7. RestoringInv(numCoord + numSelected)'
      <4>1. batch' = Down(numActive, numSelected) /\ numActive - 0 = numActive
        BY <1>1, <1>2, <2>1, <3>2
      <4> QED BY <2>1, <2>2, <3>2, <3>4, <3>5, <4>1 DEF RestoringInv
    <3>8. InCall("restore_fp16")'
      BY <2>1, <2>6, <2>10, <3>1 DEF InCall, Enter
    <3>9. RollingBackInv'
      BY <2>2, <2>5, <2>6, <2>7, <2>8, <3>3, <3>7, <3>8 DEF RollingBackInv
    <3> QED BY <2>1, <2>3, <2>4, <2>6, <3>6, <3>9 DEF ListInv, Lists, Steps, Stepping
  <2> QED BY <1>4, <2>9, <2>10 DEF RollbackPressure, CallRestoreFp16
<1> QED BY <1>3, <1>4

(* The coordinator handling the result of its rollback keeps the invariant. *)
LEMMA RollbackReturnedKeeps ==
  ASSUME ListInv, RollbackReturned
  PROVE  ListInv'
<1>1. /\ pc = "rolling_back" /\ call = "none" /\ ~coord_poisoned /\ RollingBackInv
  BY DEF RollbackReturned, ListInv, Steps, Driving
<1>2. /\ PressureInv /\ numLent >= numCoord /\ transformer_layers = W4UpTo(numActive)
      /\ ret = "true" => ~poisoned
  BY <1>1 DEF RollingBackInv, InCall, Returned
<1>3. /\ Conclude(ret = "true" /\ active_layers = coord_active) /\ Idle
      /\ UNCHANGED <<layerVars, kv_groups, poisoned, pressure_count, recovery_count, draining>>
  BY DEF RollbackReturned, poolVars
<1> QED BY <1>1, <1>2, <1>3, RollbackConcludes

(* The coordinator handling the result of morph_to_w4 keeps the invariant. *)
LEMMA MorphReturnedKeeps ==
  ASSUME ListInv, MorphReturned
  PROVE  ListInv'
<1>1. /\ pc = "morphing" /\ call = "none" /\ ~coord_poisoned /\ MorphingInv
      /\ numSelected \in Nat \ {0} /\ k \in 0 .. numSelected
  BY DEF MorphReturned, ListInv, Steps, Driving
<1>2. /\ PressureInv /\ numActive = numCoord + k /\ numLent = numCoord
      /\ transformer_layers = W4UpTo(numActive) /\ batch = selected
  BY <1>1 DEF MorphingInv
<1>3. /\ numCoord \in 0 .. NumLayers /\ numActive \in 0 .. NumLayers
      /\ active_layers = Prefix(numActive) /\ kv_groups = Prefix(numLent)
  BY DEF ListInv, Lists, Prefixes, IsPrefix, numActive, numCoord, numLent
<1>4. CASE ret = "true"
  <2>1. k = numSelected /\ ~poisoned
    BY <1>1, <1>4 DEF MorphingInv, InCall, Returned
  <2>2. /\ UNCHANGED <<layerVars, active_layers, transformer_layers, kv_groups, poisoned>>
        /\ UNCHANGED <<quantized_layers, coord_active, coord_poisoned, delta, selected, pressure_count,
                       recovery_count, draining>>
        /\ batch' = selected /\ k' = 0 /\ phase' = "run" /\ pc' = "expanding"
        /\ \/ Returned("false")' /\ UNCHANGED saved
           \/ call' = "expand_kv" /\ ret' = "none" /\ saved' = Snapshot
    BY <1>4 DEF MorphReturned, CallExpandKv, Refuse, Enter, Returned, layerVars, poolVars
  <2>3. /\ numActive' = numActive /\ numCoord' = numCoord /\ numLent' = numLent
        /\ numSelected' = numSelected
    BY <2>2 DEF numActive, numCoord, numLent, numSelected
  <2>4. Prefixes'
    <3>1. IsPrefix(active_layers)'
      BY <2>2, Zenon DEF ListInv, Lists, Prefixes, IsPrefix
    <3>2. numLent' <= numActive'
      BY <2>3 DEF ListInv, Lists, Prefixes
    <3> QED BY <2>2, <3>1, <3>2, CoordPrefixKept, LentPrefixKept DEF Prefixes
  <2>5. Scalars'
    BY <2>2 DEF Scalars, ListInv, Lists
  <2>6. PressureInv'
    BY <1>2, <2>2, <2>3 DEF PressureInv
  <2>7. /\ (numSelected \in Nat \ {0})' /\ ~coord_poisoned' /\ ~poisoned'
        /\ (numActive = numCoord + numSelected)' /\ (numLent = numCoord)' /\ (numLent = numCoord + k)'
        /\ (k \in 0 .. numSelected)' /\ k' < numSelected' /\ batch' = selected'
        /\ transformer_layers' = W4UpTo(numActive')
    BY <1>1, <1>2, <1>3, <2>1, <2>2, <2>3
  <2>8. CASE Returned("false")' /\ UNCHANGED saved
    <3>1. ExpandingInv'
      BY <2>6, <2>7, <2>8 DEF ExpandingInv
    <3>2. SavedLists'
      BY <2>8, SavedKept
    <3> QED BY <2>2, <2>4, <2>5, <2>7, <3>1, <3>2 DEF ListInv, Lists, Steps, Stepping
  <2>9. CASE call' = "expand_kv" /\ ret' = "none" /\ saved' = Snapshot
    <3>1. saved'.active = Prefix(numActive) /\ saved'.groups = Prefix(numCoord)
      BY <1>2, <1>3, <2>9 DEF Snapshot
    <3>2. /\ IsPrefix(saved'.active) /\ IsPrefix(saved'.groups) /\ Len(saved'.groups) = numCoord
      BY <1>3, <3>1, PrefixIsPrefix
    <3>3. SavedLists'
      <4>1. saved' = [active |-> saved'.active, groups |-> saved'.groups,
                      free |-> saved'.free, blocks |-> saved'.blocks, nfree |-> saved'.nfree]
        BY <2>9 DEF Snapshot
      <4> QED BY <3>2, <4>1 DEF SavedLists, IsPrefix
    <3>4. InCall("expand_kv")'
      BY <2>2, <2>7, <2>9 DEF InCall
    <3>5. ExpandingInv'
      BY <2>2, <2>3, <2>6, <2>7, <3>2, <3>4 DEF ExpandingInv
    <3> QED BY <2>2, <2>4, <2>5, <2>7, <3>3, <3>5 DEF ListInv, Lists, Steps, Stepping
  <2> QED BY <2>2, <2>8, <2>9
<1>5. CASE ret # "true"
  <2>1. poisoned <=> k > 0
    BY <1>1, <1>5 DEF MorphingInv, InCall, Returned
  <2>2. numActive = numCoord => ~poisoned
    BY <1>1, <1>2, <1>3, <2>1
  <2>3. ~(numActive # numCoord /\ ~poisoned)
    BY <1>1, <1>2, <1>3, <2>1
  <2>4. numLent >= numCoord /\ numActive \in numCoord .. numCoord + numSelected
    BY <1>1, <1>2, <1>3
  <2>5. RollbackPressure /\ UNCHANGED <<pressure_count, recovery_count, draining>>
    BY <1>5 DEF MorphReturned
  <2> QED BY <1>1, <1>2, <2>2, <2>3, <2>4, <2>5, RollbackPressureKeeps
<1> QED BY <1>4, <1>5

(* The coordinator handling the result of expand_kv, commit or rollback, keeps the invariant. *)
LEMMA ExpandReturnedKeeps ==
  ASSUME ListInv, ExpandReturned
  PROVE  ListInv'
<1>1. /\ pc = "expanding" /\ call = "none" /\ ~coord_poisoned /\ ExpandingInv
      /\ numSelected \in Nat \ {0}
  BY DEF ExpandReturned, ListInv, Steps, Driving
<1>2. /\ PressureInv /\ numActive = numCoord + numSelected /\ ~poisoned
      /\ transformer_layers = W4UpTo(numActive)
  BY <1>1 DEF ExpandingInv
<1>3. /\ numCoord \in 0 .. NumLayers /\ numActive \in 0 .. NumLayers /\ numLent \in Nat
      /\ active_layers = Prefix(numActive) /\ coord_active = Prefix(numCoord)
  BY DEF ListInv, Lists, Prefixes, IsPrefix, numActive, numCoord, numLent
<1>4. CASE ret = "true"
  <2>1. numLent = numActive
    BY <1>1, <1>4 DEF ExpandingInv, InCall, Returned
  <2>2. /\ coord_active' = coord_active \o selected /\ EndStep /\ Idle
        /\ UNCHANGED <<quantized_layers, coord_poisoned, layerVars, kv_groups, poisoned,
                       pressure_count, recovery_count, draining>>
    BY <1>4 DEF ExpandReturned, poolVars
  <2>3. coord_active' = Prefix(numActive)
    <3>1. Prefix(numCoord) \o Up(numCoord, numSelected) = Prefix(numCoord + numSelected)
      <4>1. numCoord \in Nat /\ numSelected \in Nat
        BY <1>1, <1>3
      <4> QED BY <4>1, PrefixThenUp, Zenon
    <3> QED BY <1>2, <1>3, <2>2, <3>1, Zenon DEF PressureInv
  <2>4. quantized_layers' = numActive
    BY <1>2, <2>2 DEF PressureInv
  <2>5. coord_poisoned' \in BOOLEAN
    BY <2>2, Zenon DEF ListInv, Lists, Scalars
  <2> QED BY <1>2, <2>1, <2>2, <2>3, <2>4, <2>5, StepEnds
<1>5. CASE ret # "true"
  <2>1. numLent >= numCoord /\ numActive \in numCoord .. numCoord + numSelected
    BY <1>1, <1>2, <1>3, <1>5 DEF ExpandingInv, InCall, Returned
  <2>2. RollbackPressure /\ UNCHANGED <<pressure_count, recovery_count, draining>>
    BY <1>5 DEF ExpandReturned
  <2> QED BY <1>1, <1>2, <2>1, <2>2, RollbackPressureKeeps
<1> QED BY <1>4, <1>5

(* The coordinator handling the result of recover_fp16 keeps the invariant. *)
LEMMA RecoverReturnedKeeps ==
  ASSUME ListInv, RecoverReturned
  PROVE  ListInv'
<1>1. /\ pc = "recovering" /\ call = "none" /\ ~coord_poisoned /\ RecoveringInv
      /\ numSelected \in Nat \ {0}
  BY DEF RecoverReturned, ListInv, Steps, Driving
<1>2. /\ numSelected <= numCoord /\ selected = Down(numCoord, numSelected)
      /\ quantized_layers = numCoord - numSelected /\ transformer_layers = W4UpTo(numActive)
  BY <1>1 DEF RecoveringInv, InCall
<1>3. /\ numCoord \in 0 .. NumLayers /\ numActive \in 0 .. NumLayers /\ numLent \in Nat
      /\ active_layers = Prefix(numActive) /\ coord_active = Prefix(numCoord)
      /\ poisoned \in BOOLEAN
  BY DEF ListInv, Lists, Prefixes, Scalars, IsPrefix, numActive, numCoord, numLent
<1>4. /\ EndStep /\ Idle
      /\ UNCHANGED <<layerVars, kv_groups, poisoned, pressure_count, recovery_count, draining>>
  BY DEF RecoverReturned, poolVars
<1>5. CASE ret = "true"
  <2>1. numActive = numCoord - numSelected /\ numLent = numActive /\ ~poisoned
    BY <1>1, <1>5 DEF RecoveringInv, InCall, Returned
  <2>2. /\ coord_active' = Keep(coord_active, Layers \ Elements(selected))
        /\ UNCHANGED <<quantized_layers, coord_poisoned>>
    BY <1>5 DEF RecoverReturned
  <2>3. Elements(selected) = numCoord - numSelected + 1 .. numCoord
    BY <1>1, <1>2, <1>3, ListElements
  <2>4. numSelected \in 0 .. numCoord
    BY <1>1, <1>2, <1>3
  <2>5. coord_active' = Prefix(numActive)
    BY <1>3, <2>1, <2>2, <2>3, <2>4, PrefixWithout
  <2>6. quantized_layers' = numActive
    BY <1>2, <2>1, <2>2
  <2>7. coord_poisoned' \in BOOLEAN
    BY <2>2, Zenon DEF ListInv, Lists, Scalars
  <2> QED BY <1>2, <1>4, <2>1, <2>5, <2>6, <2>7, StepEnds
<1>6. CASE ret # "true"
  <2>1. /\ coord_poisoned' = (ret = "raised" \/ poisoned \/ active_layers # coord_active)
        /\ coord_active' = (IF coord_poisoned' THEN active_layers ELSE coord_active)
        /\ quantized_layers' = Len(coord_active')
    BY <1>6 DEF RecoverReturned
  <2>2. coord_poisoned' \in BOOLEAN
    BY <2>1
  <2>3. coord_active' = active_layers
    BY <2>1
  <2>4. coord_active' = Prefix(numActive) /\ quantized_layers' = numActive
    BY <1>3, <2>1, <2>3 DEF numActive
  <2>5. ASSUME ~coord_poisoned' PROVE ~poisoned /\ numLent = numActive
    <3>1. ret # "raised" /\ ~poisoned
      BY <2>1, <2>5
    <3>2. Returned("false") /\ numActive = numCoord /\ numLent = numCoord
      BY <1>1, <1>6, <3>1 DEF RecoveringInv, InCall, Returned
    <3> QED BY <3>1, <3>2
  <2> QED BY <1>2, <1>4, <2>2, <2>4, <2>5, StepEnds
<1> QED BY <1>5, <1>6

(* ----------------------------------------------------------------------- *)
(* The lists at every point of a step, and what follows from them          *)

(* Every step keeps the list invariant: one case per action. *)
LEMMA NextKeepsListInv == ListInv /\ [Next]_vars => ListInv'
<1> SUFFICES ASSUME ListInv, [Next]_vars PROVE ListInv'
  OBVIOUS
<1>1. ASSUME NEW signal, Sample(signal) PROVE ListInv'
  BY <1>1, NoActionKeeps, StartPressureKeeps, StartRecoveryKeeps DEF Sample
<1>2. CASE MorphReturned
  BY <1>2, MorphReturnedKeeps
<1>3. CASE ExpandReturned
  BY <1>3, ExpandReturnedKeeps
<1>4. CASE RollbackReturned
  BY <1>4, RollbackReturnedKeeps
<1>5. CASE RecoverReturned
  BY <1>5, RecoverReturnedKeeps
<1>6. CASE ExecutorStep /\ UNCHANGED <<ctlVars, coordVars>>
  BY <1>6, MorphLayerKeeps, MorphRaisesKeeps, MorphUndoKeeps, MorphFailsKeeps, ExpandLayerKeeps,
     ExpandRaisesKeeps, ExpandRollbackRaisesKeeps, ExpandLeavesGroupKeeps, RestoreLayerKeeps,
     RestoreRaisesKeeps, RestoreUndoKeeps, RestoreUndoRaisesKeeps, RestoreUndoneKeeps, RecoverReattachKeeps
     DEF ExecutorStep
<1>7. CASE Drive
  BY <1>7, DriveKeeps
<1>8. CASE UNCHANGED vars
  BY <1>8, Zenon DEF vars, ListInv, Lists, Prefixes, SavedLists, Scalars, IsPrefix, numActive, numCoord,
     numLent, numSelected, Steps, AtRestInv, MorphingInv, ExpandingInv, RollingBackInv, RecoveringInv,
     PressureInv, RestoringInv, InCall, Returned
<1> QED BY <1>1, <1>2, <1>3, <1>4, <1>5, <1>6, <1>7, <1>8 DEF Next, Act

(* Every list of layers is the run of the profile its length says.         *)
THEOREM ListsAreRuns == Spec => []ListInv
<1> QED BY InitListInv, NextKeepsListInv, PTL DEF Spec

(* The list invariant implies that executor and coordinator agree whenever no step is
   under way. *)
LEMMA ListInvNeverDiverged == ListInv => NeverDiverged
<1> SUFFICES ASSUME ListInv, AtRest PROVE /\ active_layers = coord_active
                                          /\ quantized_layers = Len(active_layers)
                                          /\ InW4 = Elements(active_layers)
  BY DEF NeverDiverged
<1>1. /\ numCoord \in 0 .. NumLayers /\ active_layers = Prefix(numCoord) /\ coord_active = Prefix(numCoord)
      /\ transformer_layers = W4UpTo(numCoord) /\ quantized_layers = numCoord
  BY InRest DEF AtRest
<1>2. Len(active_layers) = numCoord /\ Elements(active_layers) = 1 .. numCoord
  BY <1>1, ListLengths, ListElements
<1>3. InW4 = 1 .. numCoord
  BY <1>1 DEF InW4, W4UpTo, Layers
<1> QED BY <1>1, <1>2, <1>3

(* Between two steps the coordinator, the controller, the executor and the *)
(* model agree on which layers are W4, whatever raised before.             *)
THEOREM SpecNeverDiverged == Spec => []NeverDiverged
<1> QED BY ListsAreRuns, ListInvNeverDiverged, PTL

(* The list invariant implies that memory is lent only by layers that are W4. *)
LEMMA ListInvLentFromW4 == ListInv => LentFromW4
<1> SUFFICES ASSUME ListInv PROVE LentFromW4
  OBVIOUS
<1>1. /\ numLent \in 0 .. NumLayers /\ numLent <= numActive /\ numActive \in Int
      /\ kv_groups = Prefix(numLent)
  BY DEF ListInv, Lists, Prefixes, IsPrefix, numLent, numActive
<1>2. \E m \in Int : m >= numLent /\ transformer_layers = W4UpTo(m)
  <2>1. CASE Restoring
    <3>1. /\ numLent = Top - numSelected /\ k \in 0 .. numSelected - 1 /\ Top \in Int
          /\ numSelected \in Nat /\ transformer_layers = W4UpTo(Top - k)
      BY <2>1, InRestore DEF RestoringInv
    <3>2. Top - k \in Int /\ Top - k >= numLent
      BY <3>1
    <3> QED BY <3>1, <3>2
  <2>2. CASE ~Restoring
    <3>1. transformer_layers = W4UpTo(numActive)
      BY <2>2 DEF ListInv, Steps, AtRestInv, MorphingInv, ExpandingInv, RollingBackInv, RecoveringInv,
         InCall, Restoring
    <3> QED BY <1>1, <3>1
  <2> QED BY <2>1, <2>2
<1>3. PICK m \in Int : m >= numLent /\ transformer_layers = W4UpTo(m)
  BY <1>2
<1>4. Elements(kv_groups) = 1 .. numLent
  BY <1>1, ListElements
<1>5. ASSUME NEW l \in 1 .. numLent PROVE l \in InW4
  BY <1>1, <1>3 DEF InW4, W4UpTo, Layers
<1> QED BY <1>4, <1>5 DEF LentFromW4

(* An FP16 layer never shares its region with KV blocks, at no instant.    *)
THEOREM SpecLentFromW4 == Spec => []LentFromW4
<1> QED BY ListsAreRuns, ListInvLentFromW4, PTL

-----------------------------------------------------------------------------
(***************************************************************************)
(* Second part: the block manager's capacity, whoever changes it, and the   *)
(* blocks of live requests; and then that AdaptiveCoordinator implements   *)
(* AtomicMorphing, for every number of layers, batch size and threshold.   *)
(***************************************************************************)

(* ----------------------------------------------------------------------- *)
(* Block flags                                                             *)

(* The used blocks of a block table are finitely many. *)
LEMMA UsedInFinite ==
  ASSUME NEW free \in Seq(BOOLEAN)
  PROVE  /\ DOMAIN free = 1 .. Len(free) /\ Len(free) \in Nat
         /\ IsFiniteSet(UsedIn(free)) /\ Cardinality(UsedIn(free)) \in 0 .. Len(free)
<1>1. DOMAIN free = 1 .. Len(free) /\ Len(free) \in Nat /\ Len(free) \in Int /\ 1 \in Int
  OBVIOUS
<1> DEFINE all == 1 .. Len(free)
<1>2. IsFiniteSet(all) /\ Cardinality(all) = Len(free)
  <2>1. IsFiniteSet(all) /\ Cardinality(all) = IF 1 > Len(free) THEN 0 ELSE Len(free) - 1 + 1
    BY <1>1, FS_Interval, Zenon
  <2> QED BY <1>1, <2>1
<1>3. UsedIn(free) \subseteq all
  BY <1>1 DEF UsedIn
<1>4. IsFiniteSet(UsedIn(free)) /\ Cardinality(UsedIn(free)) <= Cardinality(all)
  BY <1>2, <1>3, FS_Subset, Zenon
<1>5. Cardinality(UsedIn(free)) \in Nat
  BY <1>4, FS_CardinalityType, Zenon
<1> QED BY <1>1, <1>2, <1>4, <1>5

(* num_free_blocks is right as soon as num_blocks and the flags are.       *)
LEMMA FreeAppended ==
  ASSUME NEW free \in Seq(BOOLEAN), NEW m \in Nat
  PROVE  LET grown == free \o [b \in 1 .. m |-> TRUE]
         IN  /\ grown \in Seq(BOOLEAN) /\ Len(grown) = Len(free) + m
             /\ UsedIn(grown) = UsedIn(free)
<1> DEFINE more == [b \in 1 .. m |-> TRUE]
           grown == free \o more
<1>1. more \in Seq(BOOLEAN) /\ Len(more) = m /\ \A b \in 1 .. m : more[b] = TRUE
  OBVIOUS
<1>2. grown \in Seq(BOOLEAN) /\ Len(grown) = Len(free) + m
  BY <1>1
<1>3. /\ \A b \in 1 .. Len(free) : grown[b] = free[b]
      /\ \A b \in Len(free) + 1 .. Len(free) + m : grown[b] = TRUE
  <2> HIDE DEF more
  <2>1. \A b \in 1 .. Len(free) : grown[b] = free[b]
    BY <1>1
  <2>2. \A b \in Len(free) + 1 .. Len(free) + m : grown[b] = more[b - Len(free)]
    BY <1>1
  <2>3. \A b \in Len(free) + 1 .. Len(free) + m : b - Len(free) \in 1 .. m
    BY <1>1
  <2> QED BY <1>1, <2>1, <2>2, <2>3, Zenon
<1>4. DOMAIN grown = 1 .. Len(free) + m /\ DOMAIN free = 1 .. Len(free) /\ Len(free) \in Nat
  BY <1>2
<1> HIDE DEF grown
<1>5. ASSUME NEW b \in DOMAIN grown PROVE b \in DOMAIN free \/ grown[b]
  BY <1>3, <1>4
<1>6. DOMAIN free \subseteq DOMAIN grown /\ \A b \in DOMAIN free : grown[b] = free[b]
  BY <1>3, <1>4
<1>7. UsedIn(grown) = UsedIn(free)
  BY <1>5, <1>6, Zenon DEF UsedIn
<1> QED BY <1>2, <1>7 DEF grown

(* Popping blocks that are free leaves the used blocks and lowers the free count by as many. *)
LEMMA FreeDropped ==
  ASSUME NEW free \in Seq(BOOLEAN), NEW m \in 0 .. Len(free),
         \A b \in Len(free) - m + 1 .. Len(free) : free[b]
  PROVE  LET cut == DropLast(free, m)
         IN  /\ cut \in Seq(BOOLEAN) /\ Len(cut) = Len(free) - m
             /\ UsedIn(cut) = UsedIn(free)
<1> DEFINE cut == DropLast(free, m)
           n == Len(free)
<1>1. n \in Nat /\ m \in 0 .. n /\ DOMAIN free = 1 .. n
  OBVIOUS
<1>2. cut \in Seq(BOOLEAN) /\ Len(cut) = n - m /\ \A b \in 1 .. n - m : cut[b] = free[b]
  BY DEF DropLast
<1>3. DOMAIN cut = 1 .. n - m
  BY <1>2
<1> HIDE DEF cut
<1>4. UsedIn(cut) = UsedIn(free)
  BY <1>1, <1>2, <1>3 DEF UsedIn
<1> QED BY <1>2, <1>4 DEF cut

(* The blocks of a shorter list of groups: products of a difference, for the provers. *)
LEMMA GroupsTimesSize ==
  ASSUME NEW n \in Nat, NEW m \in 0 .. n
  PROVE  /\ (n - m) * GroupSize = n * GroupSize - m * GroupSize
         /\ (n + 1) * GroupSize = n * GroupSize + GroupSize
         /\ m * GroupSize \in 0 .. n * GroupSize
         /\ n * GroupSize \in Nat /\ m * GroupSize \in Nat
<1>1. GroupSize \in Nat /\ n \in Int /\ m \in Int
  OBVIOUS
<1>2. n * GroupSize \in Nat /\ m * GroupSize \in Nat /\ (n - m) * GroupSize \in Nat
  BY <1>1
<1>3. (n - m) * GroupSize = n * GroupSize - m * GroupSize
  BY <1>1
<1>4. (n + 1) * GroupSize = n * GroupSize + GroupSize
  BY <1>1
<1> QED BY <1>2, <1>3, <1>4

(* The occupied blocks of the coordinator are the used blocks of the block table. *)
LEMMA OccupiedIsUsed == Occupied = UsedIn(is_block_free)
BY Zenon DEF Occupied, UsedIn

(* ----------------------------------------------------------------------- *)
(* The ways a step treats the pool and its snapshot                        *)

(* The numbers of a pool that is left alone, while a group may still lack its blocks. *)
LEMMA PoolUntouched ==
  ASSUME PoolInv, UNCHANGED <<kv_groups, is_block_free, num_blocks, num_free_blocks>>,
         MayLack => MayLack'
  PROVE  (AllBooked \/ NewestLacksBlocks)' /\ Occupied' = Occupied
<1>1. Occupied' = Occupied
  BY DEF Occupied
<1>2. numLent' = numLent
  BY DEF numLent
<1>3. CASE AllBooked
  BY <1>1, <1>2, <1>3, Zenon DEF AllBooked, PoolConsistent, UsedIn
<1>4. CASE NewestLacksBlocks
  BY <1>1, <1>2, <1>4, Zenon DEF NewestLacksBlocks, PoolConsistent, UsedIn
<1> QED BY <1>1, <1>3, <1>4 DEF PoolInv

(* A step that touches neither the pool nor the snapshot keeps the pool invariant. *)
LEMMA PoolSame ==
  ASSUME PoolInv, UNCHANGED <<kv_groups, is_block_free, num_blocks, num_free_blocks, saved>>,
         MayLack => MayLack', call' = call \/ call' = "none"
  PROVE  PoolInv' /\ Occupied' = Occupied
<1>1. (AllBooked \/ NewestLacksBlocks)' /\ Occupied' = Occupied
  BY PoolUntouched
<1>2. (saved.free \in Seq(BOOLEAN) /\ saved.blocks \in Nat /\ saved.nfree \in Nat)'
  BY Zenon DEF PoolInv
<1>3. ASSUME call' \in {"expand_kv", "restore_fp16", "recover_fp16"}
      PROVE  /\ PoolConsistent(Len(saved.groups), saved.free, saved.blocks, saved.nfree)'
             /\ (UsedIn(saved.free) = Occupied)'
  <2>1. call' = call
    BY <1>3
  <2>2. /\ PoolConsistent(Len(saved.groups), saved.free, saved.blocks, saved.nfree)
        /\ UsedIn(saved.free) = Occupied
    BY <1>3, <2>1, Zenon DEF PoolInv
  <2> QED BY <1>1, <2>2, Zenon DEF PoolConsistent, UsedIn
<1> QED BY <1>1, <1>2, <1>3, Zenon DEF PoolInv

(* A step that leaves the pool alone and ends the executor call keeps the pool invariant. *)
LEMMA PoolIdle ==
  ASSUME PoolInv, UNCHANGED <<kv_groups, is_block_free, num_blocks, num_free_blocks>>,
         MayLack => MayLack', Idle
  PROVE  PoolInv' /\ Occupied' = Occupied
<1>1. (AllBooked \/ NewestLacksBlocks)' /\ Occupied' = Occupied
  BY PoolUntouched
<1>2. saved' = NoSnapshot /\ call' = "none"
  BY DEF Idle
<1>3. (saved.free \in Seq(BOOLEAN) /\ saved.blocks \in Nat /\ saved.nfree \in Nat)'
  BY <1>2 DEF NoSnapshot
<1> QED BY <1>1, <1>2, <1>3 DEF PoolInv

(* The types of the block table and of the counts, as the later proofs use them. *)
LEMMA PoolTypes ==
  ASSUME PoolInv, ListInv
  PROVE  /\ is_block_free \in Seq(BOOLEAN) /\ Len(is_block_free) = num_blocks /\ num_blocks \in Nat
         /\ num_blocks <= BaseBlocks + numLent * GroupSize /\ numLent \in Nat
         /\ num_free_blocks = num_blocks - Cardinality(Occupied) /\ num_free_blocks \in Nat
         /\ IsFiniteSet(Occupied) /\ Cardinality(Occupied) \in Nat
         /\ DOMAIN is_block_free = 1 .. num_blocks
<1>1. numLent \in Nat
  BY DEF ListInv, Lists, Prefixes, IsPrefix, numLent
<1>2. /\ is_block_free \in Seq(BOOLEAN) /\ Len(is_block_free) = num_blocks
      /\ num_free_blocks = num_blocks - Cardinality(Occupied)
      /\ \/ num_blocks = BaseBlocks + numLent * GroupSize
         \/ num_blocks = BaseBlocks + (numLent - 1) * GroupSize
  BY OccupiedIsUsed, Zenon DEF PoolInv, AllBooked, NewestLacksBlocks, PoolConsistent
<1>3. num_blocks <= BaseBlocks + numLent * GroupSize
  <2>1. BaseBlocks \in Nat /\ GroupSize \in Nat
    BY ExecutorAssumption
  <2>2. (numLent - 1) * GroupSize = numLent * GroupSize - GroupSize /\ numLent * GroupSize \in Nat
    BY <1>1, <2>1
  <2> QED BY <1>2, <2>1, <2>2
<1>4. num_blocks \in Nat /\ IsFiniteSet(Occupied) /\ Cardinality(Occupied) \in 0 .. num_blocks
      /\ DOMAIN is_block_free = 1 .. num_blocks
  BY <1>2, UsedInFinite, OccupiedIsUsed
<1> QED BY <1>1, <1>2, <1>3, <1>4

(* Only where expand_kv raised may a group lack its blocks. *)
LEMMA PoolBooked ==
  ASSUME PoolInv, ~MayLack
  PROVE  AllBooked /\ num_blocks = BaseBlocks + numLent * GroupSize
BY DEF PoolInv, NewestLacksBlocks, AllBooked, PoolConsistent

(* No operation of the executor runs in a step whose expand_kv raised. *)
LEMMA CallsAreBooked ==
  ASSUME ListInv, call # "none"
  PROVE  ~MayLack
BY DEF ListInv, Steps, AtRestInv, ExpandingInv, RollingBackInv, InCall, Returned, ExpandEscaped,
   MayLack, Driving, Stepping

(* A snapshot of a consistent pool is consistent. *)
LEMMA SnapshotIsConsistent ==
  ASSUME PoolInv, ListInv, ~MayLack, saved' = Snapshot
  PROVE  /\ (saved.free \in Seq(BOOLEAN) /\ saved.blocks \in Nat /\ saved.nfree \in Nat)'
         /\ PoolConsistent(Len(saved.groups), saved.free, saved.blocks, saved.nfree)'
         /\ UsedIn(saved.free)' = Occupied
<1>1. /\ saved'.groups = kv_groups /\ saved'.free = is_block_free /\ saved'.blocks = num_blocks
      /\ saved'.nfree = num_free_blocks
  BY DEF Snapshot
<1>2. PoolConsistent(Len(kv_groups), is_block_free, num_blocks, num_free_blocks)
  BY PoolBooked DEF AllBooked, numLent
<1>3. PoolConsistent(Len(saved.groups), saved.free, saved.blocks, saved.nfree)'
  BY <1>1, <1>2, Zenon DEF PoolConsistent, UsedIn
<1> QED BY <1>1, <1>3, PoolTypes, OccupiedIsUsed, Zenon DEF UsedIn

(* Taking a snapshot keeps the pool invariant and moves no block. *)
LEMMA PoolSnapshotted ==
  ASSUME PoolInv, ListInv, UNCHANGED <<kv_groups, is_block_free, num_blocks, num_free_blocks>>,
         ~MayLack, saved' = Snapshot
  PROVE  PoolInv' /\ Occupied' = Occupied
<1>1. (AllBooked \/ NewestLacksBlocks)' /\ Occupied' = Occupied
  BY PoolUntouched
<1> QED BY <1>1, SnapshotIsConsistent, Zenon DEF PoolInv

(* Restoring the snapshot brings back a consistent pool with the same used blocks. *)
LEMMA PoolReattached ==
  ASSUME PoolInv, ReattachSnapshot, UNCHANGED saved, call' = "none",
         call \in {"expand_kv", "restore_fp16", "recover_fp16"}
  PROVE  PoolInv' /\ Occupied' = Occupied
<1>1. /\ PoolConsistent(Len(saved.groups), saved.free, saved.blocks, saved.nfree)
      /\ UsedIn(saved.free) = Occupied
  BY DEF PoolInv
<1>2. AllBooked'
  BY <1>1, Zenon DEF ReattachSnapshot, PoolConsistent, UsedIn, AllBooked, numLent
<1>3. Occupied' = Occupied
  BY <1>1, Zenon DEF ReattachSnapshot, UsedIn, Occupied
<1>4. (saved.free \in Seq(BOOLEAN) /\ saved.blocks \in Nat /\ saved.nfree \in Nat)'
  BY Zenon DEF PoolInv
<1> QED BY <1>2, <1>3, <1>4 DEF PoolInv

(* A group without its blocks is what expand_kv may leave when it raises. *)
LEMMA PoolLeftBehind ==
  ASSUME PoolInv, ListInv, ExpandLeavesGroup, UNCHANGED <<ctlVars, coordVars>>
  PROVE  PoolInv' /\ Occupied' = Occupied
<1>1. call = "expand_kv" /\ ret' = "raised" /\ call' = "none" /\ UNCHANGED saved
      /\ UNCHANGED <<is_block_free, num_blocks, num_free_blocks, pc, coord_active>>
  BY DEF ExpandLeavesGroup, Return, coordVars
<1>2. /\ pc = "expanding" /\ numLent = numCoord + k /\ numCoord \in Nat /\ k \in Nat
      /\ numLent' = numLent + 1
  BY <1>1, InExpand, ExpandLeavesGroupKeeps
<1>3. MayLack'
  BY <1>1, <1>2 DEF MayLack, ExpandEscaped, numCoord
<1>4. PoolConsistent(numLent, is_block_free, num_blocks, num_free_blocks)
  BY <1>1, PoolBooked, CallsAreBooked DEF AllBooked
<1>5. numLent' - 1 = numLent
  BY <1>2
<1>6. NewestLacksBlocks'
  BY <1>1, <1>3, <1>4, <1>5, Zenon DEF NewestLacksBlocks, PoolConsistent, UsedIn
<1>7. Occupied' = Occupied
  BY <1>1 DEF Occupied
<1>8. (saved.free \in Seq(BOOLEAN) /\ saved.blocks \in Nat /\ saved.nfree \in Nat)'
  BY <1>1, Zenon DEF PoolInv
<1> QED BY <1>1, <1>6, <1>7, <1>8 DEF PoolInv

(* One lent group adds GroupSize free blocks: counts still agree and no used block moves. *)
LEMMA PoolExpanded ==
  ASSUME PoolInv, ListInv, ExpandLayer
  PROVE  PoolInv' /\ Occupied' = Occupied
<1>1. /\ is_block_free \in Seq(BOOLEAN) /\ Len(is_block_free) = num_blocks /\ num_blocks \in Nat
      /\ num_blocks = BaseBlocks + numLent * GroupSize /\ numLent \in Nat /\ GroupSize \in Nat
      /\ num_free_blocks = num_blocks - Cardinality(Occupied) /\ Cardinality(Occupied) \in Nat
  BY PoolTypes, PoolBooked, CallsAreBooked, ExecutorAssumption DEF ExpandLayer
<1>2. /\ is_block_free' = is_block_free \o [b \in 1 .. GroupSize |-> TRUE]
      /\ num_blocks' = num_blocks + GroupSize /\ num_free_blocks' = num_free_blocks + GroupSize
      /\ kv_groups' = Append(kv_groups, batch[k + 1]) /\ UNCHANGED saved
      /\ call' = call \/ call' = "none"
  BY DEF ExpandLayer, Advance, Return
<1>3. /\ is_block_free' \in Seq(BOOLEAN) /\ Len(is_block_free') = num_blocks'
      /\ UsedIn(is_block_free') = UsedIn(is_block_free)
  BY <1>1, <1>2, FreeAppended
<1>4. Occupied' = Occupied /\ UsedIn(is_block_free') = Occupied
  BY <1>3, OccupiedIsUsed, Zenon DEF Occupied, UsedIn
<1>5. Len(kv_groups') = numLent + 1
  <2>1. kv_groups = Prefix(numLent) /\ numLent \in Nat
    BY DEF ListInv, Lists, Prefixes, IsPrefix, numLent
  <2>2. kv_groups \in Seq(1 .. numLent)
    BY <2>1, ListLengths
  <2> QED BY <1>2, <2>2 DEF numLent
<1>6. num_blocks' = BaseBlocks + Len(kv_groups') * GroupSize
  BY <1>1, <1>2, <1>5, GroupsTimesSize
<1>7. num_free_blocks' = num_blocks' - Cardinality(UsedIn(is_block_free'))
  <2>1. Cardinality(UsedIn(is_block_free')) = Cardinality(Occupied)
    BY <1>4, Zenon
  <2>2. num_free_blocks' = num_blocks' - Cardinality(Occupied)
    BY <1>1, <1>2
  <2> QED BY <2>1, <2>2, Zenon
<1>8. AllBooked'
  BY <1>3, <1>6, <1>7 DEF AllBooked, PoolConsistent, UsedIn, numLent
<1>9. (saved.free \in Seq(BOOLEAN) /\ saved.blocks \in Nat /\ saved.nfree \in Nat)'
  BY <1>2, Zenon DEF PoolInv
<1>10. /\ PoolConsistent(Len(saved.groups), saved.free, saved.blocks, saved.nfree)'
       /\ (UsedIn(saved.free) = Occupied)'
  <2>1. call = "expand_kv"
    BY DEF ExpandLayer
  <2>2. /\ PoolConsistent(Len(saved.groups), saved.free, saved.blocks, saved.nfree)
        /\ UsedIn(saved.free) = Occupied
    BY <2>1 DEF PoolInv
  <2> QED BY <1>2, <1>4, <2>2, Zenon DEF PoolConsistent, UsedIn
<1> QED BY <1>4, <1>8, <1>9, <1>10, Zenon DEF PoolInv

(* Popping the newest groups when all of their blocks are idle.            *)
LEMMA PoolPopped ==
  ASSUME PoolInv, ListInv, ~MayLack, NEW n \in 0 .. numLent,
         GroupsIdle(n), PopGroups(n), saved' = Snapshot
  PROVE  PoolInv' /\ Occupied' = Occupied
<1> DEFINE m == n * GroupSize
<1>1. /\ is_block_free \in Seq(BOOLEAN) /\ Len(is_block_free) = num_blocks /\ num_blocks \in Nat
      /\ num_blocks = BaseBlocks + numLent * GroupSize /\ numLent \in Nat /\ GroupSize \in Nat
      /\ num_free_blocks = num_blocks - Cardinality(Occupied) /\ Cardinality(Occupied) \in Nat
  BY PoolTypes, PoolBooked, ExecutorAssumption
<1>2. /\ m \in 0 .. num_blocks /\ BaseBlocks + (numLent - n) * GroupSize = num_blocks - m
      /\ m \in Nat
  BY <1>1, GroupsTimesSize
<1>3. \A b \in num_blocks - m + 1 .. num_blocks : is_block_free[b]
  BY <1>1, <1>2 DEF GroupsIdle, NewestBlocks, numLent
<1>4. /\ is_block_free' = DropLast(is_block_free, m) /\ num_blocks' = num_blocks - m
      /\ num_free_blocks' = num_free_blocks - m /\ kv_groups' = DropLast(kv_groups, n)
  BY DEF PopGroups
<1> HIDE DEF m
<1>5. /\ is_block_free' \in Seq(BOOLEAN) /\ Len(is_block_free') = num_blocks'
      /\ UsedIn(is_block_free') = UsedIn(is_block_free)
  BY <1>1, <1>2, <1>3, <1>4, FreeDropped
<1>6. Occupied' = Occupied /\ UsedIn(is_block_free') = Occupied
  BY <1>5, OccupiedIsUsed, Zenon DEF Occupied, UsedIn
<1>7. Len(kv_groups') = numLent - n
  <2>1. kv_groups = Prefix(numLent) /\ numLent \in Nat /\ numLent - n \in Nat /\ numLent \in Int
    BY DEF ListInv, Lists, Prefixes, IsPrefix, numLent
  <2>2. DropLast(Prefix(numLent), n) = Prefix(numLent - n)
    BY <2>1, PrefixCut
  <2>3. kv_groups' = Prefix(numLent - n)
    BY <1>4, <2>1, <2>2
  <2> QED BY <2>1, <2>3, ListLengths
<1>8. num_blocks' = BaseBlocks + Len(kv_groups') * GroupSize
  BY <1>2, <1>4, <1>7
<1>9. num_free_blocks' = num_blocks' - Cardinality(UsedIn(is_block_free'))
  BY <1>1, <1>2, <1>4, <1>6
<1>10. AllBooked'
  BY <1>5, <1>8, <1>9 DEF AllBooked, PoolConsistent, UsedIn, numLent
<1> QED BY <1>6, <1>10, SnapshotIsConsistent, Zenon DEF PoolInv

(* Flags that change within a pool of the same size leave the lists and the size related. *)
LEMMA StillBooked ==
  ASSUME PoolInv, UNCHANGED <<kv_groups, num_blocks>>, MayLack => MayLack',
         is_block_free' \in Seq(BOOLEAN), Len(is_block_free') = num_blocks,
         num_free_blocks' = num_blocks' - Cardinality(UsedIn(is_block_free'))
  PROVE  (AllBooked \/ NewestLacksBlocks)'
<1>1. numLent' = numLent
  BY DEF numLent
<1>2. CASE AllBooked
  BY <1>1, <1>2, Zenon DEF AllBooked, PoolConsistent, UsedIn
<1>3. CASE NewestLacksBlocks
  BY <1>1, <1>3, Zenon DEF NewestLacksBlocks, PoolConsistent, UsedIn
<1> QED BY <1>2, <1>3 DEF PoolInv

(* Taking free blocks for a pass keeps the free count right. *)
LEMMA PoolForward ==
  ASSUME PoolInv, ListInv, NEW taken \in SUBSET FreeBlocks, Forward(taken)
  PROVE  PoolInv'
<1>1. /\ is_block_free \in Seq(BOOLEAN) /\ Len(is_block_free) = num_blocks /\ num_blocks \in Nat
      /\ num_free_blocks = num_blocks - Cardinality(Occupied) /\ Cardinality(Occupied) \in Nat
      /\ IsFiniteSet(Occupied) /\ DOMAIN is_block_free = 1 .. num_blocks
  BY PoolTypes
<1>2. /\ is_block_free' = [b \in DOMAIN is_block_free |-> is_block_free[b] /\ b \notin taken]
      /\ num_free_blocks' = num_free_blocks - Cardinality(taken)
      /\ UNCHANGED <<kv_groups, num_blocks, saved, call>>
  BY DEF Forward, callVars
<1>3. is_block_free' \in Seq(BOOLEAN) /\ Len(is_block_free') = num_blocks
  BY <1>1, <1>2
<1>4. UsedIn(is_block_free') = Occupied \cup taken
  BY <1>2 DEF UsedIn, Occupied, FreeBlocks
<1>5. IsFiniteSet(taken) /\ Cardinality(taken) \in Nat
  <2>1. IsFiniteSet(1 .. num_blocks)
    <3>1. num_blocks \in Int /\ 1 \in Int
      BY <1>1
    <3> QED BY <3>1, FS_Interval, Zenon
  <2>2. taken \subseteq 1 .. num_blocks
    BY <1>1 DEF FreeBlocks
  <2>3. IsFiniteSet(taken)
    BY <2>1, <2>2, FS_Subset, Zenon
  <2> QED BY <2>3, FS_CardinalityType, Zenon
<1>6. Cardinality(Occupied \cup taken) = Cardinality(Occupied) + Cardinality(taken)
  <2>1. Occupied \cap taken = {}
    BY DEF Occupied, FreeBlocks
  <2>2. Cardinality(Occupied \cup taken)
          = Cardinality(Occupied) + Cardinality(taken) - Cardinality(Occupied \cap taken)
    BY <1>1, <1>5, FS_Union, Zenon
  <2>3. Cardinality({}) = 0
    BY FS_EmptySet
  <2>4. Cardinality(Occupied \cap taken) = 0
    BY <2>1, <2>3, Zenon
  <2>5. ASSUME NEW x \in Nat, NEW y \in Nat, NEW z, z = x + y - 0 PROVE z = x + y
    BY <2>5
  <2> QED BY <1>1, <1>5, <2>2, <2>4, <2>5, Zenon
<1>7. num_free_blocks' = num_blocks' - Cardinality(UsedIn(is_block_free'))
  <2>1. Cardinality(UsedIn(is_block_free')) = Cardinality(Occupied) + Cardinality(taken)
    BY <1>4, <1>6, Zenon
  <2>2. num_free_blocks' = num_blocks' - (Cardinality(Occupied) + Cardinality(taken))
    BY <1>1, <1>2, <1>5
  <2> QED BY <2>1, <2>2, Zenon
<1>8. MayLack => MayLack'
  BY <1>2 DEF Forward, MayLack, ExpandEscaped, coordVars
<1>9. (AllBooked \/ NewestLacksBlocks)'
  BY <1>2, <1>3, <1>7, <1>8, StillBooked
<1>10. (saved.free \in Seq(BOOLEAN) /\ saved.blocks \in Nat /\ saved.nfree \in Nat)'
  BY <1>2, Zenon DEF PoolInv
<1>11. call = "none"
  BY InRest DEF Forward, Driving, AtRestInv
<1> QED BY <1>2, <1>9, <1>10, <1>11 DEF PoolInv

(* Freeing blocks of finished requests keeps the free count right. *)
LEMMA PoolFinish ==
  ASSUME PoolInv, ListInv, NEW blocks \in SUBSET Occupied, Finish(blocks)
  PROVE  PoolInv'
<1>1. /\ is_block_free \in Seq(BOOLEAN) /\ Len(is_block_free) = num_blocks /\ num_blocks \in Nat
      /\ num_free_blocks = num_blocks - Cardinality(Occupied) /\ Cardinality(Occupied) \in Nat
      /\ IsFiniteSet(Occupied) /\ DOMAIN is_block_free = 1 .. num_blocks
  BY PoolTypes
<1>2. /\ is_block_free' = [b \in DOMAIN is_block_free |-> is_block_free[b] \/ b \in blocks]
      /\ num_free_blocks' = num_free_blocks + Cardinality(blocks)
      /\ UNCHANGED <<kv_groups, num_blocks, saved, call>>
  BY DEF Finish, callVars
<1>3. is_block_free' \in Seq(BOOLEAN) /\ Len(is_block_free') = num_blocks
  BY <1>1, <1>2
<1>4. UsedIn(is_block_free') = Occupied \ blocks
  BY <1>2 DEF UsedIn, Occupied
<1>5. IsFiniteSet(blocks) /\ Cardinality(blocks) \in Nat
  BY <1>1, FS_Subset, FS_CardinalityType
<1>6. Cardinality(Occupied \ blocks) = Cardinality(Occupied) - Cardinality(blocks)
  <2>1. Occupied \cap blocks = blocks
    OBVIOUS
  <2>2. Cardinality(Occupied \ blocks) = Cardinality(Occupied) - Cardinality(Occupied \cap blocks)
    BY <1>1, FS_Difference, Zenon
  <2> QED BY <2>1, <2>2
<1>7. num_free_blocks' = num_blocks' - Cardinality(UsedIn(is_block_free'))
  <2>1. Cardinality(UsedIn(is_block_free')) = Cardinality(Occupied) - Cardinality(blocks)
    BY <1>4, <1>6, Zenon
  <2>2. num_free_blocks' = num_blocks' - (Cardinality(Occupied) - Cardinality(blocks))
    BY <1>1, <1>2, <1>5
  <2> QED BY <2>1, <2>2, Zenon
<1>8. MayLack => MayLack'
  BY <1>2 DEF Finish, MayLack, ExpandEscaped, coordVars
<1>9. (AllBooked \/ NewestLacksBlocks)'
  BY <1>2, <1>3, <1>7, <1>8, StillBooked
<1>10. (saved.free \in Seq(BOOLEAN) /\ saved.blocks \in Nat /\ saved.nfree \in Nat)'
  BY <1>2, Zenon DEF PoolInv
<1>11. call = "none"
  BY InRest DEF Finish, Driving, AtRestInv
<1> QED BY <1>2, <1>9, <1>10, <1>11 DEF PoolInv

(* ----------------------------------------------------------------------- *)
(* Every action                                                            *)

(* Every outcome of a sample keeps the pool invariant and the used blocks. *)
LEMMA SampleKeepsPool ==
  ASSUME ListInv, PoolInv, NEW signal, Sample(signal)
  PROVE  PoolInv' /\ Occupied' = Occupied
<1>1. ~MayLack
  BY DEF Sample, NoAction, ProfileExhausted, StartPressure, StartRecovery, SampleStarts, MayLack,
     ExpandEscaped
<1>2. CASE NoAction(signal) \/ ProfileExhausted(signal)
  <2>1. UNCHANGED <<kv_groups, is_block_free, num_blocks, num_free_blocks, saved, call>>
    BY <1>2 DEF NoAction, ProfileExhausted, execVars
  <2> QED BY <1>1, <2>1, PoolSame
<1>3. CASE StartPressure(signal)
  <2>1. /\ UNCHANGED <<kv_groups, is_block_free, num_blocks, num_free_blocks, saved>>
        /\ call' \in {"none", "morph_to_w4"}
    BY <1>3 DEF StartPressure, CallMorphToW4, Refuse, Enter, poolVars
  <2>2. (AllBooked \/ NewestLacksBlocks)' /\ Occupied' = Occupied
    BY <1>1, <2>1, PoolUntouched
  <2>3. (saved.free \in Seq(BOOLEAN) /\ saved.blocks \in Nat /\ saved.nfree \in Nat)'
    BY <2>1, Zenon DEF PoolInv
  <2> QED BY <2>1, <2>2, <2>3 DEF PoolInv
<1>4. CASE StartRecovery(signal)
  <2> DEFINE chosen == NewestFirst(coord_active, -LayerDelta(signal))
  <2>1. CallRecoverFp16(chosen) \/ CallRecoverFp16Raises(chosen) \/ CallRecoverFp16NotSaved(chosen)
    BY <1>4 DEF StartRecovery
  <2>2. CASE /\ call' = "none"
             /\ UNCHANGED <<kv_groups, is_block_free, num_blocks, num_free_blocks, saved>>
    BY <1>1, <2>2, PoolSame
  <2>3. CASE /\ ShrinkAccepted(chosen) /\ PopGroups(Len(chosen)) /\ saved' = Snapshot
    <3>1. pc \in Driving
      BY <1>4 DEF StartRecovery, SampleStarts, Driving
    <3>2. Len(chosen) \in Nat
      <4>1. -LayerDelta(signal) \in Nat
        BY <1>4, <3>1, LayerDeltaRange DEF StartRecovery
      <4> QED BY <4>1 DEF NewestFirst
    <3>3. Len(chosen) <= numLent /\ GroupsIdle(Len(chosen))
      BY <2>3 DEF ShrinkAccepted, numLent
    <3>4. Len(chosen) \in 0 .. numLent
      BY <3>2, <3>3, PoolTypes
    <3> HIDE DEF chosen
    <3> QED BY <1>1, <2>3, <3>3, <3>4, PoolPopped
  <2> QED
    BY <2>1, <2>2, <2>3 DEF CallRecoverFp16, CallRecoverFp16Raises, CallRecoverFp16NotSaved, Refuse, poolVars
<1> QED BY <1>2, <1>3, <1>4 DEF Sample

(* Starting or skipping a rollback keeps the pool invariant and the used blocks. *)
LEMMA RollbackKeepsPool ==
  ASSUME ListInv, PoolInv, RollbackPressure, pc \in {"morphing", "expanding"}, ListInv'
  PROVE  PoolInv' /\ Occupied' = Occupied
<1>1. MayLack => pc = "expanding" /\ numLent > numCoord
  BY DEF ListInv, Steps, Driving, MayLack, ExpandEscaped
<1>2. CASE Conclude(active_layers = coord_active) /\ Idle /\ UNCHANGED poolVars
  <2>1. MayLack => MayLack'
    <3> SUFFICES ASSUME MayLack PROVE MayLack'
      OBVIOUS
    <3>1. numActive # numCoord
      BY <1>1 DEF ListInv, Steps, Driving, ExpandingInv, numActive, numCoord, numSelected
    <3>2. coord_poisoned' /\ pc' # "expanding"
      BY <1>2, <3>1 DEF Conclude, EndStep, numActive, numCoord
    <3> QED BY <3>2 DEF MayLack, ExpandEscaped
  <2> QED BY <1>2, <2>1, PoolIdle DEF poolVars
<1>3. CASE CallRestoreFp16(ToRollBack) /\ pc' = "rolling_back" /\ UNCHANGED coord_active
  <2>1. UNCHANGED <<kv_groups, is_block_free, num_blocks, num_free_blocks>>
    BY <1>3 DEF CallRestoreFp16, poolVars
  <2>2. \/ saved' = Snapshot /\ call' = "restore_fp16"
        \/ UNCHANGED saved /\ call' = "none" /\ ret' = "false"
    BY <1>3 DEF CallRestoreFp16, Refuse, Enter
  <2>3. call' = "none" => MayLack'
    BY <1>3, <2>2 DEF MayLack, ExpandEscaped
  <2>4. call' = "restore_fp16" => numLent' = numCoord'
    BY <1>3 DEF ListInv, Steps, Driving, RollingBackInv, Returned
  <2>5. call' = "restore_fp16" => ~MayLack
    BY <1>1, <1>3, <2>1, <2>4 DEF numLent, numCoord
  <2> QED BY <2>1, <2>2, <2>3, <2>5, PoolSame, PoolSnapshotted
<1> QED BY <1>2, <1>3 DEF RollbackPressure

(* Every step of an action, of executor or coordinator, keeps the pool invariant and the
   used blocks. *)
LEMMA ActKeepsPool ==
  ASSUME ListInv, PoolInv, Act, ListInv'
  PROVE  PoolInv' /\ Occupied' = Occupied
<1>1. CASE MorphReturned
  <2>1. ~MayLack
    BY <1>1 DEF MorphReturned, ListInv, Steps, Driving, MayLack, ExpandEscaped
  <2>2. CASE CallExpandKv(selected)
    <3>1. UNCHANGED <<kv_groups, is_block_free, num_blocks, num_free_blocks>>
      BY <2>2 DEF CallExpandKv, poolVars
    <3>2. saved' = Snapshot \/ (UNCHANGED saved /\ call' = "none")
      BY <2>2 DEF CallExpandKv, Refuse
    <3> QED BY <2>1, <3>1, <3>2, PoolSame, PoolSnapshotted
  <2> QED BY <1>1, <2>2, RollbackKeepsPool DEF MorphReturned
<1>2. CASE ExpandReturned
  <2>1. CASE ret = "true" /\ Idle /\ UNCHANGED poolVars
    <3>1. ~MayLack
      BY <1>2, <2>1 DEF ExpandReturned, ListInv, Steps, Driving, MayLack, ExpandEscaped
    <3> QED BY <2>1, <3>1, PoolIdle DEF poolVars
  <2> QED BY <1>2, <2>1, RollbackKeepsPool DEF ExpandReturned
<1>3. CASE RollbackReturned \/ RecoverReturned
  <2>1. Idle /\ UNCHANGED <<kv_groups, is_block_free, num_blocks, num_free_blocks>>
    BY <1>3 DEF RollbackReturned, RecoverReturned, poolVars
  <2>2. ~coord_poisoned /\ (pc = "rolling_back" \/ pc = "recovering")
    BY <1>3 DEF RollbackReturned, RecoverReturned, ListInv, Steps, Driving
  <2>3. MayLack => RollbackReturned /\ ret = "false"
    BY <1>3, <2>2 DEF MayLack, ExpandEscaped, RecoverReturned
  <2>4. MayLack => MayLack'
    BY <2>3 DEF RollbackReturned, Conclude, EndStep, MayLack, ExpandEscaped
  <2> QED BY <2>1, <2>4, PoolIdle
<1>4. CASE ExecutorStep /\ UNCHANGED <<ctlVars, coordVars>>
  <2>1. CASE ExpandLayer
    BY <2>1, PoolExpanded
  <2>2. CASE ExpandLeavesGroup
    BY <1>4, <2>2, PoolLeftBehind
  <2>3. CASE ExpandRaises \/ RecoverReattach
    <3>1. /\ ReattachSnapshot /\ UNCHANGED saved /\ call' = "none"
          /\ call \in {"expand_kv", "restore_fp16", "recover_fp16"}
      BY <2>3 DEF ExpandRaises, RecoverReattach, Return
    <3> QED BY <3>1, PoolReattached
  <2>4. CASE \/ MorphLayer \/ MorphRaises \/ MorphUndo \/ MorphUndoRaises \/ MorphUndone
             \/ ExpandRollbackRaises
             \/ RestoreLayer \/ RestoreRaises \/ RestoreUndo \/ RestoreUndoRaises \/ RestoreUndone
             \/ RecoverReattachRaises
    <3>1. /\ UNCHANGED <<kv_groups, is_block_free, num_blocks, num_free_blocks, saved>>
          /\ call' = call \/ call' = "none"
      BY <2>4 DEF MorphLayer, MorphRaises, MorphUndo, MorphUndoRaises, MorphUndone, ExpandRollbackRaises,
         RestoreLayer, RestoreRaises, RestoreUndo, RestoreUndoRaises, RestoreUndone,
         RecoverReattachRaises, Advance, Raise, Return, poolVars
    <3>2. call # "none"
      BY <2>4 DEF MorphLayer, MorphRaises, MorphUndo, MorphUndoRaises, MorphUndone, ExpandRollbackRaises,
         RestoreLayer, RestoreRaises, RestoreUndo, RestoreUndoRaises, RestoreUndone,
         RecoverReattachRaises, Restoring
    <3> QED BY <3>1, <3>2, CallsAreBooked, PoolSame
  <2> QED BY <1>4, <2>1, <2>2, <2>3, <2>4 DEF ExecutorStep
<1> QED BY <1>1, <1>2, <1>3, <1>4 DEF Act

(* Every move of the serving loop keeps the pool invariant; only it changes the used blocks. *)
LEMMA DriveKeepsPool ==
  ASSUME ListInv, PoolInv, Drive
  PROVE  /\ PoolInv'
         /\ \/ Occupied' = Occupied
            \/ pc = "forward"
            \/ \E blocks \in SUBSET Occupied : Finish(blocks)
<1>1. CASE Drain \/ StepDisabled \/ Stopped
  <2>1. UNCHANGED <<kv_groups, is_block_free, num_blocks, num_free_blocks, saved, call>>
    BY <1>1 DEF Drain, StepDisabled, Stopped, execVars, vars
  <2>2. coord_poisoned' = coord_poisoned /\ pc \in Driving /\ pc' \in Driving
    BY <1>1 DEF Drain, StepDisabled, Stopped, vars, Driving
  <2>3. MayLack => MayLack'
    BY <2>2 DEF MayLack, ExpandEscaped, Driving
  <2> QED BY <2>1, <2>3, PoolSame
<1>2. ASSUME NEW taken \in SUBSET FreeBlocks, Forward(taken)
      PROVE  PoolInv' /\ pc = "forward"
  BY <1>2, PoolForward DEF Forward
<1>3. ASSUME NEW blocks \in SUBSET Occupied, Finish(blocks)
      PROVE  PoolInv' /\ \E b \in SUBSET Occupied : Finish(b)
  BY <1>3, PoolFinish
<1> QED BY <1>1, <1>2, <1>3 DEF Drive

(* The pool of the base blocks, all free, satisfies the pool invariant. *)
LEMMA InitPoolInv == Init => PoolInv
<1> SUFFICES ASSUME Init PROVE PoolInv
  OBVIOUS
<1>1. /\ kv_groups = <<>> /\ is_block_free = [b \in 1 .. BaseBlocks |-> TRUE]
      /\ num_blocks = BaseBlocks /\ num_free_blocks = BaseBlocks
      /\ call = "none" /\ saved = NoSnapshot
  BY DEF Init, ExecutorInit
<1>2. is_block_free \in Seq(BOOLEAN) /\ Len(is_block_free) = BaseBlocks /\ UsedIn(is_block_free) = {}
  BY <1>1 DEF UsedIn
<1>3. Cardinality(UsedIn(is_block_free)) = 0
  BY <1>2, FS_EmptySet, Zenon
<1>4. num_blocks = BaseBlocks + Len(kv_groups) * GroupSize
  BY <1>1
<1>5. num_free_blocks = num_blocks - Cardinality(UsedIn(is_block_free))
  BY <1>1, <1>3
<1>6. AllBooked
  BY <1>1, <1>2, <1>4, <1>5 DEF AllBooked, PoolConsistent, numLent
<1>7. saved.free \in Seq(BOOLEAN) /\ saved.blocks \in Nat /\ saved.nfree \in Nat
  BY <1>1 DEF NoSnapshot
<1> QED BY <1>1, <1>6, <1>7 DEF PoolInv

(* Every step keeps the pool invariant, given the list invariant. *)
LEMMA NextKeepsPoolInv == ListInv /\ PoolInv /\ [Next]_vars => PoolInv'
<1> SUFFICES ASSUME ListInv, PoolInv, [Next]_vars PROVE PoolInv'
  OBVIOUS
<1>1. CASE UNCHANGED vars
  <2>1. UNCHANGED <<kv_groups, is_block_free, num_blocks, num_free_blocks, saved, call>>
    BY <1>1 DEF vars
  <2>2. MayLack => MayLack'
    BY <1>1 DEF vars, MayLack, ExpandEscaped, numLent, numCoord
  <2> QED BY <2>1, <2>2, PoolSame
<1>2. ListInv'
  BY NextKeepsListInv
<1> QED BY <1>1, <1>2, SampleKeepsPool, ActKeepsPool, DriveKeepsPool DEF Next

(* The inductive invariant, whole.                                         *)
THEOREM SpecIInv == Spec => []IInv
<1>1. Init => IInv
  BY InitListInv, InitPoolInv DEF IInv
<1>2. IInv /\ [Next]_vars => IInv'
  BY NextKeepsListInv, NextKeepsPoolInv DEF IInv
<1> QED BY <1>1, <1>2, PTL DEF Spec

(* num_blocks, num_free_blocks and the block flags never disagree, nor do  *)
(* they disagree with the lent groups, unless an exception left expand_kv: *)
(* then one group at most is without its blocks.                           *)
THEOREM SpecCapacityConsistent == Spec => []CapacityConsistent
<1>1. IInv => CapacityConsistent
  <2> SUFFICES ASSUME IInv PROVE CapacityConsistent
    OBVIOUS
  <2>1. /\ Len(is_block_free) = num_blocks /\ numLent \in Nat
        /\ num_free_blocks = num_blocks - Cardinality(Occupied)
    BY PoolTypes DEF IInv
  <2>2. \A n \in Int : n * GroupSize = GroupSize * n
    BY ExecutorAssumption
  <2>3. \/ num_blocks = BaseBlocks + numLent * GroupSize
        \/ ExpandEscaped /\ num_blocks = BaseBlocks + (numLent - 1) * GroupSize
    BY DEF IInv, PoolInv, AllBooked, NewestLacksBlocks, PoolConsistent, MayLack
  <2>4. \/ num_blocks = BaseBlocks + GroupSize * numLent
        \/ ExpandEscaped /\ num_blocks = BaseBlocks + GroupSize * (numLent - 1)
    BY <2>1, <2>2, <2>3
  <2> QED BY <2>1, <2>4, Zenon DEF CapacityConsistent, numLent
<1> QED BY <1>1, SpecIInv, PTL

(* No morph, expansion, shrink, rollback or reattachment frees or takes a  *)
(* block of a live request.                                                *)
THEOREM SpecLiveBlocksKept == Spec => LiveBlocksKept
<1>1. ASSUME IInv, [Next]_vars
      PROVE  [Occupied' # Occupied =>
                pc = "forward" \/ \E blocks \in SUBSET Occupied : Finish(blocks)]_vars
  BY <1>1, NextKeepsListInv, SampleKeepsPool, ActKeepsPool, DriveKeepsPool DEF Next, IInv
<1> QED BY <1>1, SpecIInv, PTL DEF Spec, LiveBlocksKept

(* A poisoned coordinator changes neither layers nor lent memory, for good. *)
THEOREM SpecPoisonIsFinal == Spec => PoisonIsFinal
<1>1. ASSUME IInv, [Next]_vars
      PROVE  [coord_poisoned =>
                coord_poisoned' /\ UNCHANGED <<ctlVars, layerVars, kv_groups, coord_active>>]_vars
  <2> SUFFICES ASSUME Next, coord_poisoned
               PROVE  coord_poisoned' /\ UNCHANGED <<ctlVars, layerVars, kv_groups, coord_active>>
    BY <1>1
  <2>1. pc \in Driving /\ call = "none"
    BY <1>1 DEF IInv, ListInv, Steps, AtRestInv
  <2>2. ~Act
    BY <2>1 DEF Act, MorphReturned, ExpandReturned, RollbackReturned, RecoverReturned, Driving,
       ExecutorStep, MorphLayer, MorphRaises, MorphUndo, MorphUndoRaises, MorphUndone,
       ExpandLayer, ExpandRaises, ExpandRollbackRaises, ExpandLeavesGroup, RestoreLayer, RestoreRaises, RestoreUndo,
       RestoreUndoRaises, RestoreUndone, RecoverReattach, RecoverReattachRaises, Restoring
  <2>3. \A signal : ~Sample(signal)
    BY DEF Sample, NoAction, ProfileExhausted, StartPressure, StartRecovery, SampleStarts
  <2>4. Drive
    BY <2>2, <2>3 DEF Next
  <2> QED BY <2>4 DEF Drive, Forward, Finish, Drain, StepDisabled, Stopped, ctlVars, layerVars, poolVars,
          execVars, coordVars, vars
<1> QED BY <1>1, SpecIInv, PTL DEF Spec, PoisonIsFinal

(* ----------------------------------------------------------------------- *)
(* Types                                                                   *)

(* A prefix of the profile is a sequence of layers. *)
LEMMA PrefixType ==
  ASSUME NEW s, IsPrefix(s)
  PROVE  s \in Seq(Layers)
<1>1. Len(s) \in 0 .. NumLayers /\ s = [i \in 1 .. Len(s) |-> i]
  BY DEF IsPrefix, Prefix
<1> DEFINE n == Len(s)
<1>2. [i \in 1 .. n |-> i] \in Seq(Layers)
  <2>1. n \in 0 .. NumLayers
    BY <1>1
  <2> HIDE DEF n
  <2> QED BY <2>1 DEF Layers
<1> QED BY <1>1, <1>2, Zenon

(* The inductive invariant implies the type invariant. *)
LEMMA IInvTypes == IInv => TypeOK
<1> SUFFICES ASSUME IInv PROVE TypeOK
  OBVIOUS
<1>1. ListInv /\ PoolInv /\ Lists /\ Prefixes /\ SavedLists /\ Scalars /\ Steps
  BY DEF IInv, ListInv, Lists
<1>2. active_layers \in Seq(Layers) /\ coord_active \in Seq(Layers) /\ kv_groups \in Seq(Layers)
  BY <1>1, PrefixType DEF Prefixes
<1>3. saved \in [active : Seq(Layers), groups : Seq(Layers), free : Seq(BOOLEAN), blocks : Nat, nfree : Nat]
  <2>1. saved.active \in Seq(Layers) /\ saved.groups \in Seq(Layers)
    BY <1>1, PrefixType DEF SavedLists
  <2>2. saved.free \in Seq(BOOLEAN) /\ saved.blocks \in Nat /\ saved.nfree \in Nat
    BY <1>1 DEF PoolInv
  <2>3. saved = [active |-> saved.active, groups |-> saved.groups,
                 free |-> saved.free, blocks |-> saved.blocks, nfree |-> saved.nfree]
    BY <1>1 DEF SavedLists
  <2> QED BY <2>1, <2>2, <2>3
<1>4. numCoord \in 0 .. NumLayers /\ numSelected \in Nat
  <2>1. numCoord \in 0 .. NumLayers
    BY <1>1 DEF Prefixes, IsPrefix, numCoord
  <2> QED BY <1>1, <2>1 DEF Steps, AtRestInv, numSelected
<1>5. CASE pc \in Driving
  <2>1. /\ call = "none" /\ phase = "run" /\ batch = <<>> /\ k = 0 /\ ret = "none" /\ delta = 0
        /\ selected = <<>> /\ quantized_layers = numCoord
    BY <1>1, <1>5, InRest DEF AtRestInv
  <2>2. ExecutorTypeOK
    BY <1>1, <1>2, <1>3, <2>1, PoolTypes DEF ExecutorTypeOK, Scalars, Operations
  <2> QED BY <1>1, <1>2, <1>4, <1>5, <2>1, <2>2 DEF TypeOK, ControllerTypeOK, Scalars
<1>6. CASE pc \notin Driving
  <2>1. /\ pc \in Stepping /\ k \in 0 .. numSelected
        /\ \/ pc = "morphing" /\ MorphingInv
           \/ pc = "expanding" /\ ExpandingInv
           \/ pc = "rolling_back" /\ RollingBackInv
           \/ pc = "recovering" /\ RecoveringInv
    BY <1>1, <1>6 DEF Steps
  <2>2. /\ quantized_layers \in Nat /\ delta \in Int
        /\ selected \in Seq(Layers) /\ Len(selected) = numSelected
    <3>1. CASE PressureInv
      <4>1. selected = [i \in 1 .. numSelected |-> numCoord + i] /\ numCoord + numSelected <= NumLayers
        BY <3>1 DEF PressureInv, Up
      <4>2. [i \in 1 .. numSelected |-> numCoord + i] \in Seq(Layers)
        BY <1>4, <4>1 DEF Layers
      <4> QED BY <1>4, <3>1, <4>1, <4>2 DEF PressureInv, numSelected
    <3>2. CASE RecoveringInv
      <4>1. selected = [i \in 1 .. numSelected |-> numCoord + 1 - i] /\ numSelected <= numCoord
        BY <3>2 DEF RecoveringInv, Down
      <4>2. [i \in 1 .. numSelected |-> numCoord + 1 - i] \in Seq(Layers)
        BY <1>4, <4>1 DEF Layers
      <4> QED BY <1>4, <3>2, <4>1, <4>2 DEF RecoveringInv, numSelected
    <3> QED BY <2>1, <3>1, <3>2 DEF MorphingInv, ExpandingInv, RollingBackInv
  <2>3. batch \in Seq(Layers) /\ k \in 0 .. Len(batch)
    BY <2>1, <2>2 DEF MorphingInv, ExpandingInv, RollingBackInv, RecoveringInv
  <2>4. /\ call \in Operations /\ phase \in {"run", "undo"}
        /\ ret \in {"none", "true", "false", "raised"}
    BY <2>1 DEF MorphingInv, ExpandingInv, RollingBackInv, RecoveringInv, InCall, Returned, Operations
  <2>5. ExecutorTypeOK
    BY <1>1, <1>2, <1>3, <2>3, <2>4, PoolTypes DEF ExecutorTypeOK, Scalars
  <2> QED BY <1>1, <1>2, <2>1, <2>2, <2>5 DEF TypeOK, ControllerTypeOK, Scalars
<1> QED BY <1>5, <1>6

(* Every variable keeps to its type.                                       *)
THEOREM SpecTypeOK == Spec => []TypeOK
<1> QED BY IInvTypes, SpecIInv, PTL

(* ----------------------------------------------------------------------- *)
(* Atomic morphing                                                         *)

USE ControllerAssumption

(* A step never acts on more layers than the mode allows.                  *)
BatchBounded == numSelected <= LayersPerAction

mappedW4 == IF AtRest THEN active_layers ELSE coord_active
mappedLent == IF AtRest THEN kv_groups ELSE coord_active
mappedVars == <<mappedW4, mappedLent, Occupied, coord_poisoned>>

(* No step selects more layers than LayersPerAction. *)
LEMMA NextKeepsBatchBounded ==
  ASSUME ListInv, BatchBounded, [Next]_vars
  PROVE  BatchBounded'
<1>1. CASE UNCHANGED selected
  BY <1>1 DEF BatchBounded, numSelected
<1>2. CASE selected' = <<>>
  BY <1>2 DEF BatchBounded, numSelected
<1>3. ASSUME NEW signal, StartPressure(signal) PROVE BatchBounded'
  <2>1. pc \in Driving
    BY <1>3 DEF StartPressure, SampleStarts, Driving
  <2>2. LayerDelta(signal) \in Int /\ LayerDelta(signal) <= LayersPerAction
    <3>1. quantized_layers \in Nat
      BY <2>1, InRest
    <3> QED BY <3>1 DEF LayerDelta, Smaller
  <2>3. selected' = NextOfProfile(LayerDelta(signal))
        /\ Len(NextOfProfile(LayerDelta(signal))) = LayerDelta(signal)
    BY <1>3 DEF StartPressure
  <2> QED BY <2>2, <2>3 DEF BatchBounded, numSelected
<1>4. ASSUME NEW signal, StartRecovery(signal) PROVE BatchBounded'
  <2>1. pc \in Driving
    BY <1>4 DEF StartRecovery, SampleStarts, Driving
  <2>2. LayerDelta(signal) \in Int /\ -LayerDelta(signal) <= LayersPerAction /\ LayerDelta(signal) < 0
    <3>1. quantized_layers \in Nat /\ LayerDelta(signal) < 0
      BY <1>4, <2>1, InRest DEF StartRecovery
    <3> QED BY <3>1 DEF LayerDelta, Smaller, PressureDue
  <2>3. selected' = NewestFirst(coord_active, -LayerDelta(signal))
    BY <1>4 DEF StartRecovery
  <2> DEFINE d == -LayerDelta(signal)
  <2>4. d \in Nat /\ d <= LayersPerAction
    BY <2>2
  <2> HIDE DEF d
  <2>5. Len(NewestFirst(coord_active, d)) = d
    BY <2>4 DEF NewestFirst
  <2> QED BY <2>3, <2>4, <2>5 DEF BatchBounded, numSelected, d
<1>5. ASSUME NEW signal, NoAction(signal) \/ ProfileExhausted(signal) PROVE BatchBounded'
  BY <1>2, <1>5 DEF NoAction, ProfileExhausted, EndStep
<1>6. CASE Act
  <2>1. UNCHANGED selected \/ selected' = <<>>
    BY <1>6 DEF Act, MorphReturned, ExpandReturned, RollbackReturned, RecoverReturned, RollbackPressure,
       Conclude, EndStep, coordVars
  <2> QED BY <1>1, <1>2, <2>1
<1>7. CASE Drive \/ UNCHANGED vars
  <2>1. UNCHANGED selected
    BY <1>7 DEF Drive, Forward, Finish, Drain, StepDisabled, Stopped, coordVars, vars
  <2> QED BY <1>1, <2>1
<1> QED BY <1>3, <1>4, <1>5, <1>6, <1>7 DEF Next, Sample

(* The mapped lists are prefixes of the profile, as long as the coordinator's list and
   the lent groups say. *)
LEMMA Mapped ==
  ASSUME ListInv
  PROVE  /\ mappedW4 = Prefix(numCoord) /\ numCoord \in 0 .. NumLayers
         /\ mappedLent = Prefix(IF AtRest THEN numLent ELSE numCoord)
         /\ numLent \in 0 .. NumLayers
<1>1. /\ coord_active = Prefix(numCoord) /\ numCoord \in 0 .. NumLayers
      /\ kv_groups = Prefix(numLent) /\ numLent \in 0 .. NumLayers
  BY DEF ListInv, Lists, Prefixes, IsPrefix, numCoord, numLent
<1>2. AtRest => active_layers = Prefix(numCoord)
  BY InRest DEF AtRest
<1> QED BY <1>1, <1>2 DEF mappedW4, mappedLent

(* A step whose end is not reached yet is invisible.                       *)
LEMMA InvisibleStep ==
  ASSUME ListInv, ListInv', Occupied' = Occupied, UNCHANGED <<coord_active, coord_poisoned>>,
         ~AtRest',
         AtRest => ~coord_poisoned
  PROVE  UNCHANGED mappedVars
<1>1. numCoord' = numCoord
  BY DEF numCoord
<1>2. mappedW4' = mappedW4
  <2>1. mappedW4' = Prefix(numCoord')
    BY Mapped DEF mappedW4, ListInv, Lists, Prefixes, IsPrefix, numCoord
  <2> QED BY <1>1, <2>1, Mapped
<1>3. mappedLent' = mappedLent
  <2>1. mappedLent' = coord_active' /\ coord_active' = coord_active
    BY DEF mappedLent
  <2>2. coord_active = Prefix(numCoord)
    BY DEF ListInv, Lists, Prefixes, IsPrefix, numCoord
  <2>3. AtRest => numLent = numCoord
    BY InRest DEF AtRest, AtRestInv
  <2> QED BY <2>1, <2>2, <2>3, Mapped
<1> QED BY <1>2, <1>3 DEF mappedVars

(* ----------------------------------------------------------------------- *)
(* The end of a step is one step of the abstract specification             *)

(* The mapped lists after a step that ends at rest. *)
LEMMA MappedNext ==
  ASSUME ListInv', AtRest'
  PROVE  /\ mappedW4' = Prefix(numCoord') /\ mappedLent' = Prefix(numLent')
         /\ numCoord' \in 0 .. NumLayers /\ numLent' \in 0 .. numCoord'
         /\ coord_poisoned' \/ numLent' = numCoord'
<1>1. AtRestInv'
  BY DEF ListInv, Steps, AtRest, Driving, Stepping
<1>2. numActive' = numCoord' /\ (coord_poisoned' \/ numLent' = numCoord')
  BY <1>1 DEF AtRestInv
<1>3. /\ active_layers' = Prefix(numActive') /\ kv_groups' = Prefix(numLent')
      /\ numActive' \in 0 .. NumLayers /\ numLent' \in 0 .. NumLayers /\ numLent' <= numActive'
  BY DEF ListInv, Lists, Prefixes, IsPrefix, numActive, numLent
<1> QED BY <1>2, <1>3 DEF mappedW4, mappedLent

(* A finished pressure action is an atomic Commit of its layers. *)
LEMMA AtomicCommit ==
  ASSUME NEW d \in 1 .. LayersPerAction, ListInv, ListInv', ~AtRest, AtRest', ~coord_poisoned,
         ~coord_poisoned', Occupied' = Occupied, numCoord' = numCoord + d
  PROVE  Atomic!Commit(d)
<1>1. /\ mappedW4 = Prefix(numCoord) /\ numCoord \in 0 .. NumLayers
      /\ mappedW4' = Prefix(numCoord + d) /\ mappedLent' = Prefix(numCoord + d)
      /\ numCoord + d <= NumLayers
  BY Mapped, MappedNext
<1>2. Len(mappedW4) = numCoord
  BY <1>1, PrefixIsPrefix
<1>3. Prefix(numCoord + d) = [i \in 1 .. Len(mappedW4) + d |-> IF i <= Len(mappedW4) THEN mappedW4[i] ELSE i]
  BY <1>1, <1>2 DEF Prefix
<1>4. coord_poisoned' = coord_poisoned
  BY DEF ListInv, Lists, Scalars
<1> QED BY <1>1, <1>2, <1>3, <1>4, Zenon DEF Atomic!Commit, mappedW4, mappedLent

(* After a step the used blocks lie within the base pool and the groups still lent. *)
LEMMA UsedWithinLent ==
  ASSUME ListInv, PoolInv, ListInv', PoolInv'
  PROVE  Occupied' \subseteq Atomic!Blocks(numLent')
<1>1. numLent' \in Nat /\ GroupSize \in Nat /\ BaseBlocks \in Nat
  BY ExecutorAssumption DEF ListInv, Lists, Prefixes, IsPrefix, numLent
<1>2. num_blocks' <= BaseBlocks + numLent' * GroupSize /\ num_blocks' \in Int
  <2>1. \/ num_blocks' = BaseBlocks + numLent' * GroupSize
        \/ num_blocks' = BaseBlocks + (numLent' - 1) * GroupSize
    BY DEF PoolInv, AllBooked, NewestLacksBlocks, PoolConsistent
  <2>2. \A n \in Nat : (n - 1) * GroupSize = n * GroupSize - GroupSize /\ n * GroupSize \in Nat
    BY <1>1
  <2>3. /\ (numLent' - 1) * GroupSize = numLent' * GroupSize - GroupSize
        /\ numLent' * GroupSize \in Nat
    BY <1>1, <2>2, Zenon
  <2> QED BY <1>1, <2>1, <2>3
<1>3. Occupied' \subseteq 1 .. num_blocks'
  <2>1. is_block_free' \in Seq(BOOLEAN) /\ Len(is_block_free') = num_blocks'
    BY DEF PoolInv, AllBooked, NewestLacksBlocks, PoolConsistent
  <2>2. DOMAIN is_block_free' = 1 .. num_blocks'
    BY <2>1
  <2> QED BY <2>2 DEF Occupied
<1>4. \A m \in Nat : m * GroupSize \in Nat
  BY <1>1
<1>5. numLent' * GroupSize \in Nat
  BY <1>1, <1>4, Zenon
<1>6. \A b \in Int : \A c \in Int : b <= c => 1 .. b \subseteq 1 .. c
  OBVIOUS
<1>7. BaseBlocks + numLent' * GroupSize \in Int
  BY <1>1, <1>5
<1>8. 1 .. num_blocks' \subseteq 1 .. BaseBlocks + numLent' * GroupSize
  BY <1>2, <1>6, <1>7, Zenon
<1> QED BY <1>3, <1>8, Zenon DEF Atomic!Blocks

(* A finished recovery is an atomic Release of its layers. *)
LEMMA AtomicRelease ==
  ASSUME NEW d \in 1 .. LayersPerAction, ListInv, ListInv', PoolInv, PoolInv', ~AtRest, AtRest',
         ~coord_poisoned, ~coord_poisoned', Occupied' = Occupied, numCoord' = numCoord - d
  PROVE  Atomic!Release(d)
<1>1. /\ mappedW4 = Prefix(numCoord) /\ numCoord \in 0 .. NumLayers /\ numLent' = numCoord - d
      /\ mappedW4' = Prefix(numCoord - d) /\ mappedLent' = Prefix(numCoord - d)
      /\ numCoord - d >= 0
  BY Mapped, MappedNext
<1>2. Len(mappedW4) = numCoord
  BY <1>1, PrefixIsPrefix
<1>3. Prefix(numCoord - d) = SubSeq(mappedW4, 1, Len(mappedW4) - d)
  <2>1. d \in 0 .. numCoord /\ numCoord \in Nat
    BY <1>1
  <2>2. DropLast(Prefix(numCoord), d) = Prefix(numCoord - d)
    BY <2>1, PrefixCut, Zenon
  <2> QED BY <1>1, <1>2, <2>2, Zenon DEF DropLast
<1>4. coord_poisoned' = coord_poisoned
  BY DEF ListInv, Lists, Scalars
<1>5. Occupied \subseteq Atomic!Blocks(Len(mappedW4) - d)
  BY <1>1, <1>2, UsedWithinLent
<1> QED BY <1>1, <1>2, <1>3, <1>4, <1>5 DEF Atomic!Release, mappedW4, mappedLent

(* A step that ends poisoned is an atomic FailClosed. *)
LEMMA AtomicFailClosed ==
  ASSUME ListInv, ListInv', PoolInv, PoolInv', AtRest', ~coord_poisoned, coord_poisoned',
         Occupied' = Occupied
  PROVE  Atomic!FailClosed
<1>1. /\ mappedW4' = Prefix(numCoord') /\ mappedLent' = Prefix(numLent')
      /\ numCoord' \in 0 .. NumLayers /\ numLent' \in 0 .. numCoord'
  BY MappedNext
<1>2. Occupied \subseteq Atomic!Blocks(numLent')
  BY UsedWithinLent
<1>3. numLent' \in 0 .. NumLayers /\ numLent' <= numCoord'
  BY <1>1
<1>4. /\ mappedW4' = [i \in 1 .. numCoord' |-> i]
      /\ mappedLent' = [i \in 1 .. numLent' |-> i]
  BY <1>1, Zenon DEF Prefix
<1> QED BY <1>1, <1>2, <1>3, <1>4, Zenon DEF Atomic!FailClosed, mappedW4, mappedLent

(* A pass or a finished request between steps is an atomic Serve. *)
LEMMA AtomicServe ==
  ASSUME ListInv, ListInv', PoolInv, PoolInv', AtRest, AtRest',
         UNCHANGED <<coord_active, coord_poisoned, active_layers, kv_groups>>
  PROVE  Atomic!Serve
<1>1. numLent' = numLent /\ numLent \in 0 .. NumLayers /\ mappedLent = Prefix(numLent)
  BY Mapped DEF numLent
<1>2. Len(mappedLent) = numLent
  BY <1>1, PrefixIsPrefix
<1>3. Occupied' \subseteq Atomic!Blocks(Len(mappedLent))
  BY <1>1, <1>2, UsedWithinLent
<1>4. mappedW4' = mappedW4 /\ mappedLent' = mappedLent
  BY DEF mappedW4, mappedLent
<1> QED BY <1>3, <1>4, Zenon DEF Atomic!Serve, mappedW4, mappedLent

(* A step that changed nothing in the end was invisible.                   *)
LEMMA StepForNothing ==
  ASSUME ListInv, ListInv', ~AtRest, AtRest', ~coord_poisoned, ~coord_poisoned',
         Occupied' = Occupied, numCoord' = numCoord
  PROVE  UNCHANGED mappedVars
<1>1. /\ mappedW4 = Prefix(numCoord) /\ mappedLent = Prefix(numCoord)
      /\ mappedW4' = Prefix(numCoord) /\ mappedLent' = Prefix(numCoord)
  BY Mapped, MappedNext
<1>2. coord_poisoned' = coord_poisoned
  BY DEF ListInv, Lists, Scalars
<1> QED BY <1>1, <1>2 DEF mappedVars

(* Inside a step the coordinator is not poisoned and at least one layer is selected. *)
LEMMA InStep ==
  ASSUME ListInv, ~AtRest
  PROVE  ~coord_poisoned /\ numSelected \in Nat \ {0} /\ pc \in Stepping
BY DEF ListInv, Steps, AtRest

(* A step that concludes after a rollback fails closed, or nothing happened. *)
LEMMA ConcludeRefines ==
  ASSUME ListInv, ListInv', PoolInv, PoolInv', ~AtRest, Occupied' = Occupied,
         NEW rolled_back, Conclude(rolled_back)
  PROVE  Atomic!FailClosed \/ UNCHANGED mappedVars
<1>1. AtRest'
  BY DEF Conclude, EndStep, AtRest, Driving
<1>2. CASE coord_poisoned'
  BY <1>1, <1>2, InStep, AtomicFailClosed
<1>3. CASE ~coord_poisoned'
  <2>1. numCoord' = numCoord
    BY <1>3 DEF Conclude, numCoord
  <2> QED BY <1>1, <1>3, <2>1, InStep, StepForNothing
<1> QED BY <1>2, <1>3

(* Evaluating a sample and starting an action is invisible to the atomic specification. *)
LEMMA SampleRefines ==
  ASSUME ListInv, ListInv', Occupied' = Occupied, NEW signal, Sample(signal)
  PROVE  UNCHANGED mappedVars
<1>1. CASE NoAction(signal) \/ ProfileExhausted(signal)
  <2>1. /\ UNCHANGED <<active_layers, kv_groups, coord_active, coord_poisoned>>
        /\ AtRest /\ AtRest'
    BY <1>1 DEF NoAction, ProfileExhausted, SampleStarts, EndStep, execVars, AtRest, Driving
  <2> QED BY <2>1 DEF mappedVars, mappedW4, mappedLent
<1>2. CASE StartPressure(signal) \/ StartRecovery(signal)
  <2>1. UNCHANGED <<coord_active, coord_poisoned>> /\ ~AtRest' /\ ~coord_poisoned
    BY <1>2 DEF StartPressure, StartRecovery, SampleStarts, AtRest, Driving
  <2> QED BY <2>1, InvisibleStep
<1> QED BY <1>1, <1>2 DEF Sample

(* Each step of an action is invisible, or is the atomic Commit, Release or FailClosed
   that ends it. *)
LEMMA ActRefines ==
  ASSUME ListInv, ListInv', PoolInv, PoolInv', BatchBounded, Act
  PROVE  Atomic!Next \/ UNCHANGED mappedVars
<1>1. Occupied' = Occupied
  BY ActKeepsPool
<1>2. ~AtRest
  <2>1. AtRest => call = "none" /\ pc \in Driving
    BY InRest DEF AtRest, AtRestInv
  <2> QED BY <2>1 DEF Act, MorphReturned, ExpandReturned, RollbackReturned, RecoverReturned, Driving,
      AtRest, ExecutorStep, MorphLayer, MorphRaises, MorphUndo, MorphUndoRaises, MorphUndone,
      ExpandLayer, ExpandRaises, ExpandRollbackRaises, ExpandLeavesGroup, RestoreLayer, RestoreRaises, RestoreUndo,
      RestoreUndoRaises, RestoreUndone, RecoverReattach, RecoverReattachRaises, Restoring
<1>3. ~coord_poisoned /\ numSelected \in 1 .. LayersPerAction
  BY <1>2, InStep DEF BatchBounded
<1>4. CASE UNCHANGED <<coord_active, coord_poisoned>> /\ ~AtRest'
  BY <1>1, <1>2, <1>4, InvisibleStep
<1>5. CASE RollbackPressure
  <2>1. CASE UNCHANGED <<coord_active, coord_poisoned>> /\ pc' = "rolling_back"
    BY <1>4, <2>1 DEF AtRest, Driving
  <2> QED BY <1>1, <1>2, <1>5, <2>1, ConcludeRefines DEF RollbackPressure, Atomic!Next
<1>6. CASE MorphReturned
  <2>1. CASE UNCHANGED <<coord_active, coord_poisoned>> /\ pc' = "expanding"
    BY <1>4, <2>1 DEF AtRest, Driving
  <2> QED BY <1>5, <1>6, <2>1 DEF MorphReturned
<1>7. CASE ExpandReturned /\ ret = "true"
  <2>1. AtRest' /\ UNCHANGED <<quantized_layers, coord_poisoned>>
    BY <1>7 DEF ExpandReturned, EndStep, AtRest, Driving
  <2>2. quantized_layers = numCoord + numSelected
    BY <1>7 DEF ExpandReturned, ListInv, Steps, Driving, ExpandingInv, PressureInv
  <2>3. quantized_layers' = numCoord'
    BY <2>1 DEF ListInv, Steps, AtRest, Driving, Stepping, AtRestInv
  <2>4. Atomic!Commit(numSelected)
    <3>1. ~coord_poisoned' /\ numCoord' = numCoord + numSelected
      BY <1>3, <2>1, <2>2, <2>3
    <3> DEFINE d == numSelected
    <3>2. d \in 1 .. LayersPerAction /\ numCoord' = numCoord + d
      BY <1>3, <3>1
    <3> QED BY <1>1, <1>2, <1>3, <2>1, <3>1, <3>2, AtomicCommit
  <2> QED BY <1>3, <2>4 DEF Atomic!Next
<1>8. CASE ExpandReturned /\ ret # "true"
  BY <1>5, <1>8 DEF ExpandReturned
<1>9. CASE RollbackReturned
  BY <1>1, <1>2, <1>9, ConcludeRefines DEF RollbackReturned, Atomic!Next
<1>10. CASE RecoverReturned /\ ret = "true"
  <2>1. AtRest' /\ UNCHANGED <<quantized_layers, coord_poisoned>>
    BY <1>10 DEF RecoverReturned, EndStep, AtRest, Driving
  <2>2. quantized_layers = numCoord - numSelected
    BY <1>10 DEF RecoverReturned, ListInv, Steps, Driving, RecoveringInv
  <2>3. quantized_layers' = numCoord'
    BY <2>1 DEF ListInv, Steps, AtRest, Driving, Stepping, AtRestInv
  <2>4. Atomic!Release(numSelected)
    <3>1. ~coord_poisoned' /\ numCoord' = numCoord - numSelected
      BY <1>3, <2>1, <2>2, <2>3
    <3> QED BY <1>1, <1>2, <1>3, <2>1, <3>1, AtomicRelease
  <2> QED BY <1>3, <2>4 DEF Atomic!Next
<1>11. CASE RecoverReturned /\ ret # "true"
  <2>1. AtRest'
    BY <1>11 DEF RecoverReturned, EndStep, AtRest, Driving
  <2>2. CASE coord_poisoned'
    BY <1>1, <1>3, <2>1, <2>2, AtomicFailClosed DEF Atomic!Next
  <2>3. CASE ~coord_poisoned'
    <3>1. numCoord' = numCoord
      BY <1>11, <2>3 DEF RecoverReturned, numCoord
    <3> QED BY <1>1, <1>2, <1>3, <2>1, <2>3, <3>1, StepForNothing
  <2> QED BY <2>2, <2>3
<1>12. CASE ExecutorStep /\ UNCHANGED <<ctlVars, coordVars>>
  BY <1>2, <1>4, <1>12 DEF coordVars, AtRest
<1> QED BY <1>6, <1>7, <1>8, <1>9, <1>10, <1>11, <1>12 DEF Act

(* Each move of the serving loop is an atomic Serve or invisible. *)
LEMMA DriveRefines ==
  ASSUME ListInv, ListInv', PoolInv, PoolInv', Drive
  PROVE  Atomic!Next \/ UNCHANGED mappedVars
<1>1. ASSUME NEW taken, Forward(taken) PROVE Atomic!Next
  <2>1. /\ AtRest /\ AtRest'
        /\ UNCHANGED <<coord_active, coord_poisoned, active_layers, kv_groups>>
    BY <1>1 DEF Forward, AtRest, Driving, layerVars
  <2> QED BY <2>1, AtomicServe DEF Atomic!Next
<1>2. ASSUME NEW blocks, Finish(blocks) PROVE Atomic!Next
  <2>1. /\ AtRest /\ AtRest'
        /\ UNCHANGED <<coord_active, coord_poisoned, active_layers, kv_groups>>
    BY <1>2 DEF Finish, AtRest, Driving, layerVars, coordVars
  <2> QED BY <2>1, AtomicServe DEF Atomic!Next
<1>3. CASE Drain \/ StepDisabled \/ Stopped
  <2>1. /\ AtRest /\ AtRest'
        /\ UNCHANGED <<coord_active, coord_poisoned, active_layers, kv_groups, is_block_free>>
    BY <1>3 DEF Drain, StepDisabled, Stopped, AtRest, Driving, execVars, vars
  <2> QED BY <2>1 DEF mappedVars, mappedW4, mappedLent, Occupied
<1> QED BY <1>1, <1>2, <1>3 DEF Drive

(* Every step of the coordinator maps to an atomic step or to none. *)
LEMMA StepRefines ==
  ASSUME ListInv, ListInv', PoolInv, PoolInv', BatchBounded, [Next]_vars
  PROVE  [Atomic!Next]_mappedVars
<1>1. ASSUME NEW signal, Sample(signal) PROVE UNCHANGED mappedVars
  BY <1>1, SampleKeepsPool, SampleRefines
<1>2. CASE UNCHANGED vars
  <2>1. UNCHANGED <<pc, coord_active, coord_poisoned, active_layers, kv_groups, is_block_free>>
    BY <1>2 DEF vars
  <2> QED BY <2>1 DEF mappedVars, mappedW4, mappedLent, Occupied, AtRest
<1> QED BY <1>1, <1>2, ActRefines, DriveRefines DEF Next

(* The initial state maps to the atomic initial state. *)
LEMMA InitRefines == Init => Atomic!Init
<1> SUFFICES ASSUME Init PROVE Atomic!Init
  OBVIOUS
<1>1. /\ active_layers = <<>> /\ coord_active = <<>> /\ kv_groups = <<>> /\ coord_poisoned = FALSE
      /\ is_block_free = [b \in 1 .. BaseBlocks |-> TRUE]
  BY DEF Init, ExecutorInit
<1>2. Occupied = {}
  BY <1>1 DEF Occupied
<1> QED BY <1>1, <1>2 DEF Atomic!Init

(* Whatever raises, and wherever it raises, a step of the coordinator      *)
(* commits a whole batch with its memory, takes a whole idle batch back,   *)
(* changes nothing, or fails closed.                                       *)
THEOREM SpecImplementsAtomicMorphing == Spec => ImplementsAtomicMorphing
<1>1. Init => BatchBounded
  BY DEF Init, BatchBounded, numSelected
<1>2. IInv /\ BatchBounded /\ [Next]_vars => BatchBounded'
  BY NextKeepsBatchBounded DEF IInv
<1>3. IInv /\ IInv' /\ BatchBounded /\ [Next]_vars => [Atomic!Next]_mappedVars
  BY StepRefines DEF IInv
<1>4. [Atomic!Next]_mappedVars => [Atomic!Next]_(Atomic!vars)
  BY DEF mappedVars, mappedW4, mappedLent, Atomic!vars
<1> QED BY <1>1, <1>2, <1>3, <1>4, InitRefines, SpecIInv, PTL
        DEF Spec, ImplementsAtomicMorphing, Atomic!Spec
=============================================================================
