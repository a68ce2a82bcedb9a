---------------------------- MODULE FcfsScheduler ----------------------------
(***************************************************************************)
(* server/scheduler.py: the strict FCFS scheduler of the engine, its three *)
(* queues, its account of GPU blocks and the manager of request ids, with  *)
(* the parts of server/structs.py it reads.  What it does to the layers    *)
(* under quant_serve is module LayerReplacement.                           *)
(*                                                                         *)
(* Requests are numbered by arrival.  A request is abstracted to the       *)
(* length of its prompt, the number of tokens it asks for and the number   *)
(* of tokens it has produced so far.                                       *)
(***************************************************************************)
EXTENDS Integers, FiniteSets, SequencesExt, Sublists

CONSTANTS
  NumRequests,      (* bound of the model: requests that ever arrive        *)
  PromptLens,       (* the prompt lengths requests come with               *)
  OutputLens,       (* the output lengths requests ask for                 *)
  NumGpuBlocks,     (* the GPU blocks of the engine at its start           *)
  BlockSize,        (* engine_config.block_size                            *)
  MaxBatchSize,     (* engine_config.max_batch_size                        *)
  MaxTokensInBatch, (* engine_config.max_tokens_in_batch                   *)
  MaxSeqs           (* engine_config.max_seqs_in_block_table               *)

ASSUME SchedulerAssumption ==
  /\ NumRequests \in Nat
  /\ PromptLens \subseteq Nat \ {0}
  /\ OutputLens \subseteq Nat \ {0}
  /\ {NumGpuBlocks, BlockSize, MaxBatchSize, MaxTokensInBatch} \subseteq Nat \ {0}
  /\ MaxSeqs \in Nat /\ MaxSeqs >= MaxBatchSize

VARIABLES
  prompt_len,             (* per request                                   *)
  output_len,             (* per request                                   *)
  num_outputs,            (* len(output_token_ids) per request             *)
  request_id,             (* per request, -1 before it is admitted         *)
  available_ids,          (* request_id_manager.available_ids              *)
  waiting_q, running_q, swapped_q,
  num_decoding_gpu_blocks,
  num_gpu_blocks          (* the blocks the scheduler may plan with        *)

requestVars == <<prompt_len, output_len>>
queueVars == <<waiting_q, running_q, swapped_q, num_decoding_gpu_blocks>>
idVars == <<request_id, available_ids>>

Requests == 1 .. NumRequests
RequestIds == 0 .. MaxSeqs - 1

SchedulerTypeOK ==
  /\ prompt_len \in [Requests -> PromptLens]
  /\ output_len \in [Requests -> OutputLens]
  /\ num_outputs \in [Requests -> Nat]
  /\ request_id \in [Requests -> RequestIds \cup {-1}]
  /\ available_ids \in Seq(RequestIds)
  /\ {waiting_q, running_q, swapped_q} \subseteq Seq(Requests)
  /\ {num_decoding_gpu_blocks, num_gpu_blocks} \subseteq Nat

(* list(range(max_id)), reversed.                                          *)
AllIds == [i \in 1 .. MaxSeqs |-> MaxSeqs - i]

SchedulerInit ==
  /\ prompt_len \in [Requests -> PromptLens]
  /\ output_len \in [Requests -> OutputLens]
  /\ num_outputs = [r \in Requests |-> 0]
  /\ request_id = [r \in Requests |-> -1]
  /\ available_ids = AllIds
  /\ waiting_q = <<>> /\ running_q = <<>> /\ swapped_q = <<>>
  /\ num_decoding_gpu_blocks = 0

CeilDiv(a, b) == (a + b - 1) \div b
Map(queue, f) == [i \in DOMAIN queue |-> f[queue[i]]]
First(queue, n) == SubSeq(queue, 1, n)
Rest(queue, n) == SubSeq(queue, n + 1, Len(queue))

IsFinished(r) == num_outputs[r] = output_len[r]
IsPrefillStage(r) == num_outputs[r] = 0
Finished == {r \in Requests : IsFinished(r)}

BlocksNeeded == [r \in Requests |-> CeilDiv(prompt_len[r] + num_outputs[r], BlockSize)]
BlocksOf(queue) == SumFunction(Map(queue, BlocksNeeded))

OnRequestsArrival(requests) == waiting_q' = waiting_q \o requests

-----------------------------------------------------------------------------
(* get_next_batch.  Its loops move requests one by one from the end of one *)
(* queue to another while a bound holds; as the amounts only grow, a loop  *)
(* moves the longest run of requests that keeps the bound.                 *)

(* `fitting` are the lengths of the runs that keep the bound.              *)
Longest(fitting) == Max({n \in fitting \cup {0} : 1 .. n \subseteq fitting})

WithinLimits(n) ==
  /\ n <= MaxBatchSize
  /\ Len(running_q) + n <= MaxBatchSize
  /\ SumFunction(Map(First(waiting_q, n), prompt_len)) <= MaxTokensInBatch

(* The blocks that are spoken for once n waiting requests are admitted.    *)
BlocksWith(n) == BlocksOf(First(waiting_q, n)) + num_decoding_gpu_blocks

(* The requests at the head of waiting_q that `pool` blocks have room for. *)
AdmissibleIn(pool) ==
  Longest({n \in DOMAIN waiting_q : WithinLimits(n) /\ BlocksWith(n) <= pool})

(* New requests are admitted over the heads of the preempted ones.         *)
AdmissibleWhilePreempted == AdmissibleIn(num_gpu_blocks)

(* The requests at the head of waiting_q that can be prefilled together.   *)
Admissible == IF swapped_q = <<>> THEN AdmissibleIn(num_gpu_blocks) ELSE 0

(* get_id() pops from the end, free_ids() appends to it.                   *)
HandOutIds(requests) ==
  LET n == Len(available_ids) IN
  /\ request_id' = [r \in Requests |->
       IF Contains(requests, r)
         THEN available_ids[n + 1 - (CHOOSE i \in DOMAIN requests : requests[i] = r)]
         ELSE request_id[r]]
  /\ available_ids' = First(available_ids, n - Len(requests))

(* The blocks of the new batch are not added to the scheduler's account.  *)
PrefillBatchUncounted(n) ==
  /\ HandOutIds(First(waiting_q, n))
  /\ waiting_q' = Rest(waiting_q, n)
  /\ running_q' = running_q \o First(waiting_q, n)
  /\ UNCHANGED <<swapped_q, num_decoding_gpu_blocks>>

PrefillBatch(n) ==
  LET batch == First(waiting_q, n) IN
  /\ HandOutIds(batch)
  /\ waiting_q' = Rest(waiting_q, n)
  /\ running_q' = running_q \o batch
  /\ num_decoding_gpu_blocks' = num_decoding_gpu_blocks + BlocksOf(batch)
  /\ UNCHANGED swapped_q

(* The decoding batch keeps this many requests at the head of running_q.   *)
Kept(pool) == Longest({n \in DOMAIN running_q : BlocksOf(First(running_q, n)) <= pool})

Victims(pool) == Reverse(Rest(running_q, Kept(pool)))

(* newly_swapped_out is reversed, and extendleft() pushes its elements     *)
(* onto the left of swapped_q one after the other.                         *)
NewlySwappedOut(pool) == Reverse(Victims(pool))
ExtendLeft(queue, requests) == Reverse(requests) \o queue

PreemptBatch(pool) ==
  /\ running_q' = First(running_q, Kept(pool))
  /\ swapped_q' = ExtendLeft(swapped_q, NewlySwappedOut(pool))
  /\ num_decoding_gpu_blocks' = BlocksOf(First(running_q, Kept(pool)))
  /\ UNCHANGED <<waiting_q, idVars>>

FitsSwapped(n, pool) ==
  /\ Len(running_q) + n <= MaxBatchSize
  /\ BlocksOf(running_q) + BlocksOf(First(swapped_q, n)) <= pool

(* The requests at the head of swapped_q that fit beside the running ones. *)
Returning(pool) == Longest({n \in DOMAIN swapped_q : FitsSwapped(n, pool)})

(* The requests that come back stay in swapped_q.                          *)
DecodeBatchKeepsSwapped(pool) ==
  LET back == First(swapped_q, Returning(pool)) IN
  /\ running_q' = running_q \o back
  /\ num_decoding_gpu_blocks' = BlocksOf(running_q) + BlocksOf(back)
  /\ UNCHANGED <<waiting_q, swapped_q, idVars>>

DecodeBatch(pool) ==
  LET back == First(swapped_q, Returning(pool)) IN
  /\ running_q' = running_q \o back
  /\ swapped_q' = Rest(swapped_q, Returning(pool))
  /\ num_decoding_gpu_blocks' = BlocksOf(running_q) + BlocksOf(back)
  /\ UNCHANGED <<waiting_q, idVars>>

-----------------------------------------------------------------------------
(* on_batch_finish                                                         *)

(* Every id of the batch is given back, finished or not.                   *)
OnBatchFinishFreesAll(batch) ==
  /\ available_ids' = available_ids \o Map(batch, request_id)
  /\ running_q' = Keep(running_q, Requests \ Finished)
  /\ UNCHANGED <<waiting_q, swapped_q, num_decoding_gpu_blocks, request_id>>

OnBatchFinish(batch) ==
  /\ available_ids' = available_ids \o Map(Keep(batch, Finished), request_id)
  /\ running_q' = Keep(running_q, Requests \ Finished)
  /\ UNCHANGED <<waiting_q, swapped_q, num_decoding_gpu_blocks, request_id>>
=============================================================================
