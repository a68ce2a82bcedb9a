--------------------------- MODULE AsyncTransfer ---------------------------
(***************************************************************************)
(* The GPU under the executor.  Layer copies are queued on the stream of   *)
(* AsyncLayerCopier (autoawq_adapter.py), passes and the zeroing of new KV *)
(* memory on the compute stream; the host returns before either is done.   *)
(* Every action of the coordinator is taken over unchanged and queues the  *)
(* work that its line of code queues.                                      *)
(*                                                                         *)
(* A stream is a queue whose head may start once `after`, the number of    *)
(* operations of the other stream it waits for, is 0.  An event is kept as *)
(* the number of operations its stream has to finish until it completes,   *)
(* so an event that is complete equals one that is not there.              *)
(*                                                                         *)
(* The region of a layer has two parts: the W4 weights fit into its head,  *)
(* the FP16 weights fill it, and its tail is what is lent to the KV cache. *)
(***************************************************************************)
EXTENDS AdaptiveCoordinator

CONSTANTS
  CopyQueueBound, (* bound of the model on the copies that are queued      *)
  EventsMayFail   (* whether creating, recording or awaiting an event may  *)
                  (* raise after the work before it has been queued        *)

ASSUME StreamAssumption ==
  /\ CopyQueueBound \in Nat \ {0}
  /\ EventsMayFail \in BOOLEAN

VARIABLES
  compute,      (* operations queued on the compute stream                 *)
  copies,       (* copies queued on AsyncLayerCopier.stream                *)
  pending,      (* model.layer_transfer_events                             *)
  last_forward, (* model.last_forward_event                                *)
  region,       (* what the two parts of each layer's region contain       *)
  syncing       (* the host waits for the compute stream                   *)

streamVars == <<compute, copies, pending, last_forward, region, syncing>>
asyncVars == <<quantized_layers, pressure_count, recovery_count,
               active_layers, transformer_layers, kv_groups, poisoned,
               is_block_free, num_blocks, num_free_blocks,
               call, phase, batch, k, saved, ret,
               coord_active, coord_poisoned, delta, selected, pc, draining,
               compute, copies, pending, last_forward, region, syncing>>

(* Stands for the model's layers that are not in profile_order.            *)
OtherLayers == 0

Copy == [layer : Layers, variant : {"fp16", "w4"}, after : Nat]
Work == [kind : {"kernel", "zero", "wait"}, layer : Layers \cup {OtherLayers},
         variant : {"fp16", "w4"}, kv : SUBSET Layers, first : SUBSET Layers, after : Nat]

StreamTypeOK ==
  /\ compute \in Seq(Work)
  /\ copies \in Seq(Copy)
  /\ pending \in [Layers -> Nat]
  /\ last_forward \in Nat
  /\ region \in [Layers -> [head : {"fp16", "w4"}, tail : {"fp16", "zero", "kv"}]]
  /\ syncing \in BOOLEAN

AsyncInit ==
  /\ Init
  /\ compute = <<>>
  /\ copies = <<>>
  /\ pending = [l \in Layers |-> 0]
  /\ last_forward = 0
  /\ region = [l \in Layers |-> [head |-> "fp16", tail |-> "fp16"]]
  /\ syncing = FALSE

-----------------------------------------------------------------------------
(* What the host queues                                                    *)

(* The host runs, inside an operation of the executor.                     *)
InOperation == ~syncing /\ UNCHANGED <<ctlVars, coordVars>>

(* The copy does not wait for last_forward_event.                          *)
QueuedCopyAtOnce(l, v) == Append(copies, [layer |-> l, variant |-> v, after |-> 0])

QueuedCopy(l, v) == Append(copies, [layer |-> l, variant |-> v, after |-> last_forward])

(* AsyncLayerCopier.enqueue.  Its wait for the layer's previous copy is    *)
(* implied by the order of the stream.                                     *)
Enqueue(l, v) ==
  /\ InOperation
  /\ Len(copies) < CopyQueueBound
  /\ copies' = QueuedCopy(l, v)
  /\ pending' = [pending EXCEPT ![l] = Len(copies) + 1]
  /\ UNCHANGED <<compute, last_forward, region, syncing>>

(* An enqueue that raises: before the copy, or after it and before its     *)
(* event is registered.                                                    *)
EnqueueRaises(l, v) ==
  /\ InOperation
  /\ \/ UNCHANGED copies
     \/ EventsMayFail /\ Len(copies) < CopyQueueBound /\ copies' = QueuedCopy(l, v)
  /\ UNCHANGED <<compute, pending, last_forward, region, syncing>>

WaitFor(n) == [kind |-> "wait", layer |-> OtherLayers, variant |-> "fp16",
               kv |-> {}, first |-> {}, after |-> n]

Zero(l) == [kind |-> "zero", layer |-> l, variant |-> "w4", kv |-> {}, first |-> {},
            after |-> pending[l]]

(* wait_current and acquire_new_kvcache.                                   *)
QueueZero(l) ==
  /\ compute' = Append(compute, Zero(l))
  /\ pending' = [pending EXCEPT ![l] = 0]

(* How far an iteration of expand_kv gets that raises.                     *)
ExpandBegun(l) ==
  \/ UNCHANGED <<compute, pending>>
  \/ compute' = Append(compute, WaitFor(pending[l])) /\ pending' = [pending EXCEPT ![l] = 0]
  \/ QueueZero(l)
  \/ EventsMayFail /\ pending' = [pending EXCEPT ![l] = 0] /\ UNCHANGED compute

(* Lent groups that hold blocks of requests once the pool is `free`.       *)
BusyGroups(free) ==
  LET used == {b \in DOMAIN free : ~free[b]}
  IN  {kv_groups[i] : i \in {j \in DOMAIN kv_groups :
         \E b \in 1 .. GroupSize : BaseBlocks + (j - 1) * GroupSize + b \in used}}

(* The transfer events are not waited for.                                 *)
KernelUnordered(l, busy, fresh) ==
  [kind |-> "kernel", layer |-> l,
   variant |-> IF l = OtherLayers THEN "fp16" ELSE transformer_layers[l],
   kv |-> busy,
   first |-> IF l = OtherLayers THEN fresh ELSE {},
   after |-> 0]

(* A layer's turn in a pass: the wait for its transfer, if there is one,   *)
(* then its kernels, which read and store their part of every KV block.    *)
(* Blocks that are new in this pass are first stored to by the layer that  *)
(* comes first.                                                            *)
Kernel(l, busy, fresh) ==
  [kind |-> "kernel", layer |-> l,
   variant |-> IF l = OtherLayers THEN "fp16" ELSE transformer_layers[l],
   kv |-> busy,
   first |-> IF l = OtherLayers THEN fresh ELSE {},
   after |-> IF l = OtherLayers THEN 0 ELSE pending[l]]

(* Profile positions stand in for the model's layer order; some kernel     *)
(* that touches the KV blocks always precedes the waits of the others.     *)
Pass(busy, fresh) == [i \in 1 .. NumLayers + 1 |-> Kernel(i - 1, busy, fresh)]

-----------------------------------------------------------------------------
(* The host                                                                *)

MorphCopies == MorphLayer /\ Enqueue(batch[k + 1], "w4")
MorphCopyRaises == MorphRaises /\ EnqueueRaises(batch[k + 1], "w4")
MorphUndoCopies == MorphUndo /\ Enqueue(batch[k], "fp16")
MorphUndoCopyRaises == MorphUndoRaises /\ EnqueueRaises(batch[k], "fp16")

RestoreCopies == RestoreLayer /\ Enqueue(batch[k + 1], "fp16")
RestoreCopyRaises == RestoreRaises /\ EnqueueRaises(batch[k + 1], "fp16")
RestoreUndoCopies == RestoreUndo /\ Enqueue(batch[k], "w4")
RestoreUndoCopyRaises == RestoreUndoRaises /\ EnqueueRaises(batch[k], "w4")

ExpandQueues ==
  /\ ExpandLayer
  /\ InOperation
  /\ QueueZero(batch[k + 1])
  /\ UNCHANGED <<copies, last_forward, region, syncing>>

(* The rollback without its event.                                         *)
ExpandRaisesUnordered ==
  /\ ExpandRaises
  /\ InOperation
  /\ ExpandBegun(batch[k + 1])
  /\ UNCHANGED <<copies, last_forward, region, syncing>>

(* The rollback event takes the place of last_forward_event, so a copy     *)
(* queued from now on waits for the zeroing that is under way.             *)
ExpandRaisesOrdered ==
  /\ ExpandRaises
  /\ InOperation
  /\ ExpandBegun(batch[k + 1])
  /\ last_forward' = Len(compute')
  /\ UNCHANGED <<copies, region, syncing>>

(* The rollback event itself fails, or the snapshot before the first       *)
(* layer.  A group that is left without blocks has been zeroed.            *)
ExpandEscapes ==
  /\ InOperation
  /\ IF EventsMayFail
       THEN \/ ExpandRollbackRaises /\ ExpandBegun(batch[k + 1])
            \/ ExpandLeavesGroup /\ QueueZero(batch[k + 1])
       ELSE ExpandRollbackRaises /\ k = 0 /\ UNCHANGED <<compute, pending>>
  /\ UNCHANGED <<copies, last_forward, region, syncing>>

Furthest(S) == CHOOSE n \in S : \A m \in S : m <= n

(* wait_current for the first n layers of the batch.                       *)
AwaitBatch(n) ==
  LET awaited == {batch[i] : i \in 1 .. n}
  IN  /\ compute' = Append(compute, WaitFor(Furthest({0} \cup {pending[l] : l \in awaited})))
      /\ pending' = [l \in Layers |-> IF l \in awaited THEN 0 ELSE pending[l]]
      /\ UNCHANGED <<copies, last_forward, region, syncing>>

ReattachUnordered == RecoverReattach /\ InOperation /\ UNCHANGED streamVars

ReattachOrdered == RecoverReattach /\ InOperation /\ AwaitBatch(Len(batch))

(* Something raises after n waits; the event of a wait that failed is gone. *)
ReattachFails ==
  /\ RecoverReattachRaises
  /\ InOperation
  /\ \E n \in 0 .. Len(batch) : AwaitBatch(n)

(* shrink_kv_before_restore reads is_block_free back from the device, so   *)
(* the host has waited for the compute stream when the recovery goes on.   *)
RecoverySynchronizes ==
  /\ compute = <<>> /\ ~syncing
  /\ \E signal \in Signals : StartRecovery(signal)
  /\ UNCHANGED streamVars

(* Reading the tokens of a pass back makes the host wait for it.           *)
PassQueued ==
  /\ ~syncing
  /\ \E taken \in SUBSET FreeBlocks : Forward(taken)
  /\ compute' = compute \o Pass(BusyGroups(is_block_free'),
                                BusyGroups(is_block_free') \ BusyGroups(is_block_free))
  /\ pending' = [l \in Layers |-> 0]
  /\ last_forward' = Len(compute')
  /\ syncing' = TRUE
  /\ UNCHANGED <<copies, region>>

(* The steps of the host that queue nothing.                               *)
HostOnly ==
  /\ ~syncing
  /\ \/ \E signal \in Signals :
          NoAction(signal) \/ ProfileExhausted(signal) \/ StartPressure(signal)
     \/ MorphReturned \/ ExpandReturned \/ RollbackReturned \/ RecoverReturned
     \/ (MorphUndone \/ RestoreUndone) /\ UNCHANGED <<ctlVars, coordVars>>
     \/ \E blocks \in SUBSET Occupied : Finish(blocks)
     \/ Drain \/ StepDisabled \/ Stopped
  /\ UNCHANGED streamVars

-----------------------------------------------------------------------------
(* The streams                                                             *)

OneLess(n) == IF n > 0 THEN n - 1 ELSE 0

(* The events and waits of one stream after the other has finished an      *)
(* operation.                                                              *)
Released(queue) == [i \in DOMAIN queue |-> [queue[i] EXCEPT !.after = OneLess(@)]]

ComputeRuns == compute # <<>> /\ Head(compute).after = 0
CopyRuns == copies # <<>> /\ Head(copies).after = 0

(* The tail of a region after an operation of the compute stream.  What    *)
(* the later layers of a pass store does not bring back the rest.          *)
TailAfter(work, l) ==
  CASE work.kind = "zero" /\ l = work.layer -> "zero"
    [] work.kind = "kernel" /\ l \in work.first -> "kv"
    [] OTHER -> region[l].tail

RunCompute ==
  /\ ComputeRuns
  /\ compute' = Tail(compute)
  /\ copies' = Released(copies)
  /\ last_forward' = OneLess(last_forward)
  /\ region' = [l \in Layers |-> [region[l] EXCEPT !.tail = TailAfter(Head(compute), l)]]
  /\ syncing' = (syncing /\ Len(compute) > 1)
  /\ UNCHANGED <<pending, quantized_layers, pressure_count, recovery_count, execVars, coordVars>>

RunCopy ==
  /\ CopyRuns
  /\ copies' = Tail(copies)
  /\ compute' = Released(compute)
  /\ pending' = [l \in Layers |-> OneLess(pending[l])]
  /\ LET done == Head(copies)
     IN  region' = [region EXCEPT ![done.layer] =
           [head |-> done.variant,
            tail |-> IF done.variant = "fp16" THEN "fp16" ELSE region[done.layer].tail]]
  /\ UNCHANGED <<last_forward, syncing, quantized_layers, pressure_count, recovery_count,
                 execVars, coordVars>>

-----------------------------------------------------------------------------
AsyncNext ==
  \/ MorphCopies \/ MorphCopyRaises \/ MorphUndoCopies \/ MorphUndoCopyRaises
  \/ RestoreCopies \/ RestoreCopyRaises \/ RestoreUndoCopies \/ RestoreUndoCopyRaises
  \/ ExpandQueues \/ ExpandRaisesOrdered \/ ExpandEscapes
  \/ ReattachOrdered \/ ReattachFails
  \/ RecoverySynchronizes
  \/ PassQueued
  \/ HostOnly
  \/ RunCompute
  \/ RunCopy

AsyncSpec == AsyncInit /\ [][AsyncNext]_asyncVars

-----------------------------------------------------------------------------
(* Properties                                                              *)

WholeRegion(l) == {<<l, "head">>, <<l, "tail">>}

CopyTouches(c) ==
  IF c.variant = "fp16" THEN WholeRegion(c.layer) ELSE {<<c.layer, "head">>}

WeightsOf(l, v) ==
  IF l = OtherLayers THEN {} ELSE IF v = "fp16" THEN WholeRegion(l) ELSE {<<l, "head">>}

ComputeTouches(w) ==
  CASE w.kind = "zero" -> {<<w.layer, "tail">>}
    [] w.kind = "kernel" -> WeightsOf(w.layer, w.variant) \cup {<<l, "tail">> : l \in w.kv}
    [] w.kind = "wait" -> {}

(* A copy never runs while the compute stream works on the same part of a  *)
(* region: neither weights nor KV blocks are read or written while they    *)
(* are overwritten, whatever failed and was rolled back before.            *)
NoRace ==
  ComputeRuns /\ CopyRuns =>
    CopyTouches(Head(copies)) \cap ComputeTouches(Head(compute)) = {}

(* When a layer's kernels start, its region holds the weights of the       *)
(* module that the host had installed when it queued them.                 *)
RunsInstalledWeights ==
  ComputeRuns /\ Head(compute).kind = "kernel" /\ Head(compute).layer # OtherLayers =>
    LET w == Head(compute)
    IN  /\ region[w.layer].head = w.variant
        /\ w.variant = "fp16" => region[w.layer].tail = "fp16"

(* "poison both serving paths when compensation cannot be proven"          *)
(* (doc/debug-report-async-executor.md:38): between two steps, with no     *)
(* copy under way, every region holds the weights of the installed module, *)
(* or the coordinator is poisoned.                                         *)
UnprovenIsPoisoned ==
  AtRest /\ copies = <<>> /\ ~coord_poisoned =>
    \A l \in Layers : region[l].head = transformer_layers[l]

(* The KV blocks that a pass stored in lent memory are still there as long *)
(* as a request holds them: no late copy or zeroing has replaced them.     *)
LentKvKept ==
  compute = <<>> => \A l \in BusyGroups(is_block_free) : region[l].tail = "kv"
=============================================================================
