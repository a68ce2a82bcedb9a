-------------------------- MODULE ServingInvariant --------------------------
(***************************************************************************)
(* The inductive invariant of the serving engine: what the queues, the     *)
(* ids, the two block tables, the layers and the stage of the main loop    *)
(* tell of each other between any two steps, whatever was raised before.   *)
(***************************************************************************)
EXTENDS ServingEngine

(* The requests the scheduler has not admitted yet, in the order in which  *)
(* the tokenization loop hands them over.                                  *)
Pending == waiting_q \o tokenizing \o untokenized
NumAdmitted == arrived - Len(Pending)

Running == Elements(running_q)
Swapped == Elements(swapped_q)
Flying == Running \cup Swapped

(* A batch has been planned and is not over yet.                           *)
Planned == stage \in {"swap_out", "swap_in", "forward"}

(* The NumLayers - m .. NumLayers - 1 are replaced, the last one first, and *)
(* each lends its group.                                                   *)
LayersTell ==
  LET m == Len(layer_quant_list) IN
  /\ m <= NumLayers
  /\ layer_quant_list = [i \in 1 .. m |-> NumLayers - i]
  /\ k_cache_new = layer_quant_list
  /\ is_layer_quant_list = [l \in Layers |-> l >= NumLayers - m]
  /\ next_unquantized_layer = NumLayers - 1 - m
  /\ gpu_num_blocks = NumGpuBlocks + m * LentBlocks
  /\ num_gpu_blocks = gpu_num_blocks

(* Nobody overtakes: the pending requests are the last to arrive, in order. *)
PendingInOrder ==
  /\ arrived <= NumRequests
  /\ NumAdmitted >= 0
  /\ Pending = [i \in 1 .. Len(Pending) |-> NumAdmitted + i]

(* The admitted requests are in flight until they end.                     *)
FlightTells ==
  /\ IsInjective(running_q) /\ IsInjective(swapped_q)
  /\ Running \cap Swapped = {}
  /\ Len(running_q) <= MaxBatchSize
  /\ \A r \in Requests :
       /\ r \in Flying <=> /\ r <= NumAdmitted
                           /\ IsFinished(r) => stage = "finish" /\ r \in Elements(cur_batch)
       /\ num_outputs[r] <= output_len[r]
       /\ r > NumAdmitted => num_outputs[r] = 0

(* The requests of a batch stay where the plan has put them.               *)
BatchTells ==
  /\ Planned \/ stage = "finish" =>
       IsInjective(cur_batch) /\ Elements(cur_batch) \subseteq Running
  /\ stage = "swap_out" => IsInjective(cur_swap_out) /\ Elements(cur_swap_out) \subseteq Swapped
  /\ stage = "swap_in" => IsInjective(cur_swap_in) /\ Elements(cur_swap_in) \subseteq Running

(* Every id is available or belongs to one request in flight.              *)
IdsTell ==
  /\ IsInjective(available_ids)
  /\ \A r \in Flying : request_id[r] \in RequestIds \ Elements(available_ids)
  /\ \A r, s \in Flying : request_id[r] = request_id[s] => r = s
  /\ \A id \in RequestIds \ Elements(available_ids) : \E r \in Flying : request_id[r] = id
  /\ \A r \in Requests : request_id[r] = -1 <=> r > NumAdmitted

(* An id has blocks on one device at most, the one its request is on.      *)
OnGpuNow(r) ==
  IF stage = "swap_out" THEN r \in Running \cup Elements(cur_swap_out)
  ELSE r \in Running /\ ~(stage = "swap_in" /\ r \in Elements(cur_swap_in))

DevicesTell ==
  /\ \A id \in Elements(available_ids) : gpu_table[id] = <<>> /\ cpu_table[id] = <<>>
  /\ \A r \in Flying : IF OnGpuNow(r) THEN cpu_table[request_id[r]] = <<>>
                                      ELSE gpu_table[request_id[r]] = <<>>

SInv ==
  /\ TypeOK
  /\ LayersTell /\ PendingInOrder /\ FlightTells /\ BatchTells /\ IdsTell /\ DevicesTell
  /\ GPU!EveryBlockHasOnePlace(1 .. gpu_num_blocks)
  /\ CPU!EveryBlockHasOnePlace(1 .. NumCpuBlocks)

-----------------------------------------------------------------------------
(* What the scheduler counts on, as long as no iteration has raised.       *)

(* The blocks a request holds between two passes.                          *)
Holds == [r \in Requests |->
  IF num_outputs[r] = 0 THEN 0 ELSE CeilDiv(prompt_len[r] + num_outputs[r] - 1, BlockSize)]

(* What the running requests hold once the planned pass has its blocks.    *)
WillHold == [r \in Requests |->
  IF Planned /\ r \in Elements(cur_batch) THEN BlocksNeeded[r] ELSE Holds[r]]

(* The blocks a request has, on the device it is on.                       *)
RowOf(r) == (IF OnGpuNow(r) THEN gpu_table ELSE cpu_table)[request_id[r]]

(* Each request holds the blocks of its tokens.                            *)
RowsCount == \A r \in Flying : Len(RowOf(r)) = Holds[r]

(* Only a request of the planned batch has no token yet.                   *)
StagesCount ==
  /\ \A r \in Swapped : ~IsPrefillStage(r)
  /\ \A r \in Running : IsPrefillStage(r) => Planned

(* A planned batch is all who have no token yet, or all who run.           *)
BatchCounts ==
  Planned =>
    \/ Elements(cur_batch) = {r \in Running : IsPrefillStage(r)}
    \/ Elements(cur_batch) = Running /\ \A r \in Running : ~IsPrefillStage(r)

(* The account of the scheduler covers what the running requests will      *)
(* hold, and the pool covers the account.                                  *)
AccountCovers ==
  /\ SumFunctionOnSet(WillHold, Running) <= num_decoding_gpu_blocks
  /\ Planned /\ upset = "none" => num_decoding_gpu_blocks <= num_gpu_blocks

CountsTell == upset # "engine" => RowsCount /\ StagesCount /\ BatchCounts /\ AccountCovers
=============================================================================
