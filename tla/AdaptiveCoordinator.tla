------------------------ MODULE AdaptiveCoordinator -------------------------
(***************************************************************************)
(* runtime/morphserve/integration.py: AdaptiveCoordinator.step composes    *)
(* the controller and the executor, and the serving loop of                *)
(* scripts/end_to_end_benchmark.py drives it: one step of the coordinator, *)
(* then one forward pass, which allocates KV blocks; requests that finish  *)
(* or time out give theirs back.  When the workload has drained, the loop  *)
(* goes on sampling without forward passes.                                *)
(*                                                                         *)
(* step() is synchronous: the driver does nothing while it runs, so its    *)
(* pc covers both.  A layer is its position in profile_order.              *)
(***************************************************************************)
EXTENDS MorphingController, MorphExecutor

VARIABLES
  coord_active,   (* coordinator.active_layers                             *)
  coord_poisoned, (* coordinator.poisoned                                  *)
  delta,          (* command["layer_delta"] of the step in progress        *)
  selected,       (* the layers the step selected                          *)
  pc,             (* where the driver or the step is                       *)
  draining        (* the driver is past its workload, in its cleanup loop  *)

coordVars == <<coord_active, coord_poisoned, delta, selected, pc, draining>>
vars == <<quantized_layers, pressure_count, recovery_count,
          active_layers, transformer_layers, kv_groups, poisoned,
          is_block_free, num_blocks, num_free_blocks,
          call, phase, batch, k, saved, ret,
          coord_active, coord_poisoned, delta, selected, pc, draining>>

Driving == {"ready", "forward", "stopped"}
Stepping == {"morphing", "expanding", "rolling_back", "recovering"}

TypeOK ==
  /\ ControllerTypeOK
  /\ ExecutorTypeOK
  /\ coord_active \in Seq(Layers)
  /\ coord_poisoned \in BOOLEAN
  /\ delta \in Int
  /\ selected \in Seq(Layers)
  /\ pc \in Driving \cup Stepping
  /\ draining \in BOOLEAN

Init ==
  /\ ControllerInit
  /\ ExecutorInit
  /\ coord_active = <<>>
  /\ coord_poisoned = FALSE
  /\ delta = 0
  /\ selected = <<>>
  /\ pc = "ready"
  /\ draining = FALSE

-----------------------------------------------------------------------------
(* Serving                                                                 *)

(* The block manager hands out the free blocks with the lowest numbers.    *)
LowestFree(taken) == \A b \in taken, c \in FreeBlocks : c < b => c \in taken

Forward(taken) ==
  /\ pc = "forward"
  /\ LowestFree(taken) /\ Cardinality(taken) <= num_free_blocks
  /\ is_block_free' = [b \in DOMAIN is_block_free |-> is_block_free[b] /\ b \notin taken]
  /\ num_free_blocks' = num_free_blocks - Cardinality(taken)
  /\ pc' = "ready"
  /\ UNCHANGED <<ctlVars, layerVars, kv_groups, num_blocks, poisoned, callVars,
                 coord_active, coord_poisoned, delta, selected, draining>>

(* A request finishes or times out and frees the blocks it holds.          *)
Finish(blocks) ==
  /\ pc = "ready" /\ blocks # {}
  /\ is_block_free' = [b \in DOMAIN is_block_free |-> is_block_free[b] \/ b \in blocks]
  /\ num_free_blocks' = num_free_blocks + Cardinality(blocks)
  /\ UNCHANGED <<ctlVars, layerVars, kv_groups, num_blocks, poisoned, callVars, coordVars>>

Drain ==
  /\ pc = "ready" /\ ~draining /\ Occupied = {}
  /\ draining' = TRUE
  /\ UNCHANGED <<ctlVars, execVars, coord_active, coord_poisoned, delta, selected, pc>>

-----------------------------------------------------------------------------
(* AdaptiveCoordinator.step                                                *)

(* step() returns its event; only the serving loop runs the model next.    *)
EndStep ==
  /\ pc' = IF draining THEN "ready" ELSE "forward"
  /\ delta' = 0
  /\ selected' = <<>>

(* The check at the head of step(): the exception ends the driver.         *)
StepDisabled ==
  /\ pc = "ready" /\ (coord_poisoned \/ poisoned)
  /\ pc' = "stopped"
  /\ UNCHANGED <<ctlVars, execVars, coord_active, coord_poisoned, delta, selected, draining>>

(* [layer for layer in profile_order if layer not in active_layers][:d]    *)
NextOfProfile(d) ==
  Take(Keep([l \in 1 .. NumLayers |-> l], Layers \ Elements(coord_active)), d)

(* step() without the check at its head.                                   *)
SampleStartsUnchecked(signal) ==
  /\ pc = "ready"
  /\ WithinCountBound(signal)
  /\ CountSample(signal)

SampleStarts(signal) ==
  /\ pc = "ready" /\ ~coord_poisoned /\ ~poisoned
  /\ WithinCountBound(signal)
  /\ CountSample(signal)

NoAction(signal) ==
  /\ SampleStarts(signal)
  /\ LayerDelta(signal) = 0
  /\ EndStep
  /\ UNCHANGED <<quantized_layers, execVars, coord_active, coord_poisoned, draining>>

(* Too few layers of the profile are left for the controller's command:    *)
(* the exception makes the step take the command back.                     *)
ProfileExhausted(signal) ==
  /\ SampleStarts(signal)
  /\ LayerDelta(signal) > 0
  /\ Len(NextOfProfile(LayerDelta(signal))) # LayerDelta(signal)
  /\ EndStep
  /\ UNCHANGED <<quantized_layers, execVars, coord_active, coord_poisoned, draining>>

StartPressure(signal) ==
  LET d == LayerDelta(signal) IN
  /\ SampleStarts(signal)
  /\ d > 0
  /\ Len(NextOfProfile(d)) = d
  /\ quantized_layers' = quantized_layers + d
  /\ delta' = d
  /\ selected' = NextOfProfile(d)
  /\ CallMorphToW4(NextOfProfile(d))
  /\ pc' = "morphing"
  /\ UNCHANGED <<coord_active, coord_poisoned, draining>>

StartRecovery(signal) ==
  LET d == LayerDelta(signal)
      chosen == NewestFirst(coord_active, -d)
  IN  /\ SampleStarts(signal)
      /\ d < 0
      /\ quantized_layers' = quantized_layers + d
      /\ delta' = d
      /\ selected' = chosen
      /\ \/ CallRecoverFp16(chosen)
         \/ CallRecoverFp16Raises(chosen)
         \/ CallRecoverFp16NotSaved(chosen)
      /\ pc' = "recovering"
      /\ UNCHANGED <<coord_active, coord_poisoned, draining>>

(* The end of rollback_pressure.                                           *)
Conclude(rolled_back) ==
  /\ IF rolled_back
       THEN /\ quantized_layers' = quantized_layers - delta
            /\ UNCHANGED <<coord_active, coord_poisoned>>
       ELSE /\ coord_poisoned' = TRUE
            /\ coord_active' = active_layers
            /\ quantized_layers' = Len(active_layers)
  /\ EndStep

ToRollBack == Keep(Reversed(selected), Elements(active_layers))

RollbackPressure ==
  IF ToRollBack = <<>>
    THEN /\ Conclude(active_layers = coord_active)
         /\ Idle
         /\ UNCHANGED <<layerVars, poolVars, poisoned>>
    ELSE /\ CallRestoreFp16(ToRollBack)
         /\ pc' = "rolling_back"
         /\ UNCHANGED <<quantized_layers, coord_active, coord_poisoned, delta, selected>>

MorphReturned ==
  /\ pc = "morphing" /\ call = "none"
  /\ IF ret = "true"
       THEN /\ CallExpandKv(selected)
            /\ pc' = "expanding"
            /\ UNCHANGED <<quantized_layers, coord_active, coord_poisoned, delta, selected>>
       ELSE RollbackPressure
  /\ UNCHANGED <<pressure_count, recovery_count, draining>>

ExpandReturned ==
  /\ pc = "expanding" /\ call = "none"
  /\ IF ret = "true"
       THEN /\ coord_active' = coord_active \o selected
            /\ EndStep
            /\ Idle
            /\ UNCHANGED <<quantized_layers, coord_poisoned, layerVars, poolVars, poisoned>>
       ELSE RollbackPressure
  /\ UNCHANGED <<pressure_count, recovery_count, draining>>

(* The result of the rollback is not looked at: the step goes on serving.  *)
RollbackReturnedUnchecked ==
  /\ pc = "rolling_back" /\ call = "none"
  /\ quantized_layers' = quantized_layers - delta
  /\ EndStep
  /\ Idle
  /\ UNCHANGED <<pressure_count, recovery_count, layerVars, poolVars, poisoned,
                 coord_active, coord_poisoned, draining>>

RollbackReturned ==
  /\ pc = "rolling_back" /\ call = "none"
  /\ Conclude(ret = "true" /\ active_layers = coord_active)
  /\ Idle
  /\ UNCHANGED <<pressure_count, recovery_count, layerVars, poolVars, poisoned, draining>>

RecoverReturned ==
  /\ pc = "recovering" /\ call = "none"
  /\ IF ret = "true"
       THEN /\ coord_active' = Keep(coord_active, Layers \ Elements(selected))
            /\ UNCHANGED <<quantized_layers, coord_poisoned>>
       ELSE /\ coord_poisoned' = (ret = "raised" \/ poisoned \/ active_layers # coord_active)
            /\ coord_active' = IF coord_poisoned' THEN active_layers ELSE coord_active
            /\ quantized_layers' = Len(coord_active')
  /\ EndStep
  /\ Idle
  /\ UNCHANGED <<pressure_count, recovery_count, layerVars, poolVars, poisoned, draining>>

-----------------------------------------------------------------------------
Stopped == pc = "stopped" /\ UNCHANGED vars

(* A monitor sample reaches step().                                        *)
Sample(signal) ==
  \/ NoAction(signal)
  \/ ProfileExhausted(signal)
  \/ StartPressure(signal)
  \/ StartRecovery(signal)

(* The rest of a step() that acts.                                         *)
Act ==
  \/ MorphReturned
  \/ ExpandReturned
  \/ RollbackReturned
  \/ RecoverReturned
  \/ ExecutorStep /\ UNCHANGED <<ctlVars, coordVars>>

Drive ==
  \/ \E taken \in SUBSET FreeBlocks : Forward(taken)
  \/ \E blocks \in SUBSET Occupied : Finish(blocks)
  \/ Drain
  \/ StepDisabled
  \/ Stopped

Next ==
  \/ \E signal \in Signals : Sample(signal)
  \/ Act
  \/ Drive

Spec == Init /\ [][Next]_vars

-----------------------------------------------------------------------------
(* Properties                                                              *)

AtRest == pc \in Driving
InW4 == {l \in Layers : transformer_layers[l] = "w4"}

(* Between two steps the coordinator, the controller's count, the executor *)
(* and the modules the model would run name the same W4 layers, poisoned   *)
(* or not: the RuntimeErrors of integration.py:128-134 are never raised.   *)
NeverDiverged ==
  AtRest =>
    /\ active_layers = coord_active
    /\ quantized_layers = Len(active_layers)
    /\ InW4 = Elements(active_layers)

(* At every instant, in the middle of an operation or after a failed       *)
(* rollback too, memory is lent to the KV cache only by layers that run    *)
(* the W4 module: an FP16 layer never shares its region with KV blocks.    *)
LentFromW4 == Elements(kv_groups) \subseteq InW4

(* An exception has left expand_kv through its except clause: the step is  *)
(* about to poison the coordinator, or has done so.                        *)
ExpandEscaped ==
  \/ pc = "expanding" /\ ret = "raised"
  \/ pc = "rolling_back" /\ ret = "false"
  \/ coord_poisoned

(* num_blocks, num_free_blocks and is_block_free, three attributes that    *)
(* expand_kv, its rollback and the shrink update separately, always agree  *)
(* with each other, and with the base blocks and the lent groups.  Only an *)
(* exception that leaves expand_kv may leave a group without its blocks,   *)
(* one at most, never blocks without their group; and no such step ends    *)
(* but with the coordinator poisoned.                                      *)
CapacityConsistent ==
  /\ Len(is_block_free) = num_blocks
  /\ num_free_blocks = num_blocks - Cardinality(Occupied)
  /\ \/ num_blocks = BaseBlocks + GroupSize * Len(kv_groups)
     \/ ExpandEscaped /\ num_blocks = BaseBlocks + GroupSize * (Len(kv_groups) - 1)

(* Only a forward pass or a finished request changes which blocks are in   *)
(* use: no expansion, shrink, rollback or reattachment of a snapshot frees *)
(* or takes a block of a live request.                                     *)
LiveBlocksKept ==
  [][Occupied' # Occupied =>
       pc = "forward" \/ \E blocks \in SUBSET Occupied : Finish(blocks)]_vars

(* Once the coordinator is poisoned nothing morphs, recovers or moves KV   *)
(* memory any more, and it stays poisoned.                                 *)
PoisonIsFinal ==
  [][coord_poisoned =>
       coord_poisoned' /\ UNCHANGED <<ctlVars, layerVars, kv_groups, coord_active>>]_vars

(* The steps of an operation are invisible until step() returns.           *)
Atomic == INSTANCE AtomicMorphing WITH
            w4     <- IF AtRest THEN active_layers ELSE coord_active,
            lent   <- IF AtRest THEN kv_groups ELSE coord_active,
            used   <- Occupied,
            failed <- coord_poisoned

(* The coordinator and the executor implement atomic morphing.             *)
ImplementsAtomicMorphing == Atomic!Spec
=============================================================================
