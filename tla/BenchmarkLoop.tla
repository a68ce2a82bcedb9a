--------------------------- MODULE BenchmarkLoop ---------------------------
(***************************************************************************)
(* scripts/end_to_end_benchmark.py: the serving loop that drives the       *)
(* coordinator, _run_requests, with its own admission, selection of the    *)
(* decoding batch and timeouts.  It takes the place of the unconstrained   *)
(* passes and releases of AdaptiveCoordinator.                             *)
(*                                                                         *)
(* Requests are numbered as in the manifest, which is sorted by arrival    *)
(* and in which all requests have one prompt and one output length.  The   *)
(* loop is one coroutine: arrivals and the passing of time are seen where  *)
(* it awaits.  `turn` is the place in the loop body.                       *)
(***************************************************************************)
EXTENDS AdaptiveCoordinator, FiniteSetsExt

CONSTANTS
  NumRequests,  (* len(specs)                                              *)
  PromptLen,    (* len(payload["token_ids"])                               *)
  OutputLen,    (* spec["output_len"]                                      *)
  BlockSize,    (* engine_config.block_size                                *)
  MaxBatchSize, (* engine_config.max_batch_size                            *)
  MaxActive     (* cfg["max_active_requests"]                              *)

ASSUME LoopAssumption ==
  {NumRequests, PromptLen, OutputLen, BlockSize, MaxBatchSize, MaxActive} \subseteq Nat \ {0}

VARIABLES
  status,    (* state["status"]                                            *)
  overdue,   (* requests submitted at least request_timeout_s ago          *)
  active,    (* the requests being served, in the order of admission       *)
  passing,   (* the batch of this iteration                                *)
  generated, (* len(state["generated"])                                    *)
  held,      (* the row of the block table                                 *)
  records,   (* the requests that have a record, in order                  *)
  turn

loopVars == <<status, overdue, active, passing, generated, held, records, turn>>
benchVars == <<quantized_layers, pressure_count, recovery_count,
               active_layers, transformer_layers, kv_groups, poisoned,
               is_block_free, num_blocks, num_free_blocks,
               call, phase, batch, k, saved, ret,
               coord_active, coord_poisoned, delta, selected, pc, draining,
               status, overdue, active, passing, generated, held, records, turn>>

Requests == 1 .. NumRequests
Recorded == {"done", "timeout"}
Turns == {"top", "select", "idle", "sample", "pass", "finish", "cleanup", "failed"}

(* Whether a request is done is asked after a decoding pass only, so one   *)
(* of a single token gets two.                                             *)
MaxTokens == IF OutputLen < 2 THEN 2 ELSE OutputLen

(* With the bound on what is served at the same time.                      *)
BTypeOK ==
  /\ status \in [Requests -> {"scheduled", "waiting", "running"} \cup Recorded]
  /\ overdue \subseteq Requests
  /\ active \in Seq(Requests) /\ Len(active) <= MaxActive
  /\ passing \in Seq(Requests) /\ Len(passing) <= MaxBatchSize
  /\ generated \in [Requests -> 0 .. MaxTokens]
  /\ held \in [Requests -> SUBSET (1 .. num_blocks)]
  /\ records \in Seq(Requests)
  /\ turn \in Turns

BenchInit ==
  /\ Init
  /\ status = [r \in Requests |-> "scheduled"]
  /\ overdue = {}
  /\ active = <<>> /\ passing = <<>> /\ records = <<>>
  /\ generated = [r \in Requests |-> 0]
  /\ held = [r \in Requests |-> {}]
  /\ turn = "top"

-----------------------------------------------------------------------------
(* What the loop awaits                                                    *)

Awaiting == turn \in {"top", "idle"} /\ UNCHANGED vars

(* mark_arrival.  Arrivals during a pass are seen when it has ended.       *)
Arrive(r) ==
  /\ Awaiting
  /\ status[r] = "scheduled" /\ \A q \in 1 .. r - 1 : status[q] # "scheduled"
  /\ status' = [status EXCEPT ![r] = "waiting"]
  /\ UNCHANGED <<overdue, active, passing, generated, held, records, turn>>

(* The timeout of a request passes, not before that of earlier ones.       *)
Expire(r) ==
  /\ Awaiting
  /\ status[r] \in {"waiting", "running"} /\ r \notin overdue
  /\ \A q \in 1 .. r - 1 : status[q] \in {"waiting", "running"} => q \in overdue
  /\ overdue' = overdue \cup {r}
  /\ UNCHANGED <<status, active, passing, generated, held, records, turn>>

-----------------------------------------------------------------------------
(* finish_state                                                            *)

(* What a pass and a release leave alone.                                  *)
PoolOnly == UNCHANGED <<ctlVars, layerVars, kv_groups, num_blocks, poisoned, callVars,
                        coord_active, coord_poisoned, delta, selected, draining>>

HeldBy(requests) == UNION {held[r] : r \in Elements(requests)}

(* finish_state without free_seqs_resources.                               *)
FinishStatesKeepBlocks(requests, how) ==
  /\ status' = [r \in Requests |-> IF r \in Elements(requests) THEN how ELSE status[r]]
  /\ records' = records \o requests
  /\ active' = Keep(active, Requests \ Elements(requests))
  /\ held' = [r \in Requests |-> IF r \in Elements(requests) THEN {} ELSE held[r]]
  /\ UNCHANGED <<is_block_free, num_free_blocks, overdue, generated, pc>>
  /\ PoolOnly

(* finish_state for each of the requests, which leave `active`.            *)
FinishStates(requests, how) ==
  /\ status' = [r \in Requests |-> IF r \in Elements(requests) THEN how ELSE status[r]]
  /\ records' = records \o requests
  /\ active' = Keep(active, Requests \ Elements(requests))
  /\ held' = [r \in Requests |-> IF r \in Elements(requests) THEN {} ELSE held[r]]
  /\ is_block_free' = [b \in DOMAIN is_block_free |->
                         is_block_free[b] \/ b \in HeldBy(requests)]
  /\ num_free_blocks' = num_free_blocks + Cardinality(HeldBy(requests))
  /\ UNCHANGED <<overdue, generated, pc>>
  /\ PoolOnly

-----------------------------------------------------------------------------
(* Selection                                                               *)

CeilDiv(a, b) == (a + b - 1) \div b

(* request_blocks, and the blocks of the prompt before the first pass.     *)
NewBlocks(r) ==
  LET missing == CeilDiv(PromptLen + generated[r], BlockSize) - Cardinality(held[r])
  IN  IF missing > 0 THEN missing ELSE 0

(* The new blocks of the first n requests.                                 *)
BlocksNeeded(requests, n) ==
  SumFunctionOnSet([i \in 1 .. n |-> NewBlocks(requests[i])], 1 .. n)

(* The first requests, at most `limit`, whose new blocks fit together.     *)
Fitting(requests, limit) ==
  LET fits == {n \in 0 .. Len(requests) :
                 n <= limit /\ BlocksNeeded(requests, n) <= num_free_blocks}
  IN  SubSeq(requests, 1, Max(fits))

(* The requests that wait, the latest first.                               *)
WaitingLatestFirst == Reversed(Keep([r \in Requests |-> r], {r \in Requests : status[r] = "waiting"}))

Waiting == Keep([r \in Requests |-> r], {r \in Requests : status[r] = "waiting"})

Admissible == Fitting(Waiting, Smaller(MaxBatchSize, MaxActive - Len(active)))

Decodable == Fitting(active, MaxBatchSize)

-----------------------------------------------------------------------------
(* The loop                                                                *)

(* Timeouts of active requests are looked at only when others wait.        *)
TimeOutActiveIfWaiting ==
  /\ turn = "top" /\ Len(records) < NumRequests
  /\ FinishStates(IF Waiting = <<>> THEN <<>> ELSE Keep(active, overdue), "timeout")
  /\ turn' = "select"
  /\ UNCHANGED passing

TimeOutActive ==
  /\ turn = "top" /\ Len(records) < NumRequests
  /\ FinishStates(Keep(active, overdue), "timeout")
  /\ turn' = "select"
  /\ UNCHANGED passing

Admit ==
  /\ turn = "select" /\ Admissible # <<>>
  /\ passing' = Admissible
  /\ status' = [r \in Requests |-> IF r \in Elements(passing') THEN "running" ELSE status[r]]
  /\ turn' = "sample"
  /\ UNCHANGED <<vars, overdue, active, generated, held, records>>

SelectDecode ==
  /\ turn = "select" /\ Admissible = <<>> /\ Decodable # <<>>
  /\ passing' = Decodable
  /\ turn' = "sample"
  /\ UNCHANGED <<vars, status, overdue, active, generated, held, records>>

(* No pass, and no sample of the controller either.                        *)
NothingFits ==
  /\ turn = "select" /\ Admissible = <<>> /\ active # <<>> /\ Decodable = <<>>
  /\ turn' = "top"
  /\ UNCHANGED <<vars, status, overdue, active, passing, generated, held, records>>

Sleep ==
  /\ turn = "select" /\ Admissible = <<>> /\ active = <<>>
  /\ turn' = "idle"
  /\ UNCHANGED <<vars, status, overdue, active, passing, generated, held, records>>

(* Whatever is overdue is timed out, its status not looked at.             *)
TimeOutAll ==
  /\ turn = "idle"
  /\ FinishStates(Keep([r \in Requests |-> r], overdue), "timeout")
  /\ turn' = "top"
  /\ UNCHANGED passing

(* After the sleep only requests that still wait are timed out.            *)
TimeOutWaiting ==
  /\ turn = "idle"
  /\ FinishStates(Keep(Waiting, overdue), "timeout")
  /\ turn' = "top"
  /\ UNCHANGED passing

(* _controller_sample before the pass.                                     *)
SampleBeforePass ==
  /\ turn = "sample"
  /\ \E signal \in Signals : Sample(signal)
  /\ turn' = "pass"
  /\ UNCHANGED <<status, overdue, active, passing, generated, held, records>>

(* step() goes on.                                                         *)
StepContinues == Act /\ UNCHANGED loopVars

(* step() refuses, and the exception ends the loop.                        *)
StepRefuses ==
  /\ turn \in {"sample", "cleanup"}
  /\ StepDisabled
  /\ turn' = "failed"
  /\ UNCHANGED <<status, overdue, active, passing, generated, held, records>>

(* The free blocks with the lowest numbers, in the order of the batch.     *)
BlocksFor(i) ==
  LET before == BlocksNeeded(passing, i - 1)
      rank(b) == Cardinality({c \in FreeBlocks : c <= b})
  IN  {b \in FreeBlocks : rank(b) \in before + 1 .. before + NewBlocks(passing[i])}

Allocated == UNION {BlocksFor(i) : i \in DOMAIN passing}

ServePass ==
  /\ is_block_free' = [b \in DOMAIN is_block_free |-> is_block_free[b] /\ b \notin Allocated]
  /\ num_free_blocks' = num_free_blocks - BlocksNeeded(passing, Len(passing))
  /\ held' = [r \in Requests |-> held[r] \cup
                UNION {BlocksFor(i) : i \in {j \in DOMAIN passing : passing[j] = r}}]
  /\ generated' = [r \in Requests |-> generated[r] + IF r \in Elements(passing) THEN 1 ELSE 0]
  /\ active' = active \o Keep(passing, Requests \ Elements(active))
  /\ pc' = "ready"
  /\ PoolOnly
  /\ turn' = IF Elements(passing) \subseteq Elements(active) THEN "finish" ELSE "top"
  /\ UNCHANGED <<status, overdue, passing, records>>

(* The pass without the check of the block manager.                        *)
PassUnchecked == turn = "pass" /\ pc = "forward" /\ ServePass

Pass ==
  /\ turn = "pass" /\ pc = "forward"
  /\ BlocksNeeded(passing, Len(passing)) <= num_free_blocks
  /\ ServePass

(* The block manager has too few blocks: the exception ends the loop.      *)
PassRaises ==
  /\ turn = "pass" /\ pc = "forward"
  /\ BlocksNeeded(passing, Len(passing)) > num_free_blocks
  /\ turn' = "failed"
  /\ UNCHANGED <<vars, status, overdue, active, passing, generated, held, records>>

(* Done only with one token more than asked for.                           *)
FinishDoneLate ==
  /\ turn = "finish"
  /\ FinishStates(Keep(passing, {r \in Requests : generated[r] > OutputLen}), "done")
  /\ turn' = "top"
  /\ UNCHANGED passing

FinishDone ==
  /\ turn = "finish"
  /\ FinishStates(Keep(passing, {r \in Requests : generated[r] >= OutputLen}), "done")
  /\ turn' = "top"
  /\ UNCHANGED passing

(* Every request has its record: the workload has drained.                 *)
AllRecorded ==
  /\ turn = "top" /\ Len(records) >= NumRequests
  /\ draining' = TRUE
  /\ turn' = "cleanup"
  /\ UNCHANGED <<ctlVars, execVars, coord_active, coord_poisoned, delta, selected, pc,
                 status, overdue, active, passing, generated, held, records>>

CleanupSample ==
  /\ turn = "cleanup"
  /\ \E signal \in Signals : Sample(signal)
  /\ UNCHANGED loopVars

Ended == turn = "failed" /\ UNCHANGED benchVars

Iterate ==
  \/ TimeOutActive \/ Admit \/ SelectDecode \/ NothingFits \/ Sleep \/ TimeOutWaiting
  \/ SampleBeforePass \/ StepContinues \/ StepRefuses
  \/ Pass \/ PassRaises \/ FinishDone
  \/ AllRecorded \/ CleanupSample

BenchNext ==
  \/ \E r \in Requests : Arrive(r)
  \/ \E r \in Requests : Expire(r)
  \/ Iterate
  \/ Ended

BenchSpec == BenchInit /\ [][BenchNext]_benchVars

(* The coroutine goes on, and at its awaits the timers that are due fire.  *)
FairBenchSpec ==
  /\ BenchSpec
  /\ WF_benchVars(Iterate)
  /\ \A r \in Requests : SF_benchVars(Arrive(r)) /\ SF_benchVars(Expire(r))

-----------------------------------------------------------------------------
(* Properties                                                              *)

(* The loop does to the coordinator and to the pool what the abstract      *)
(* serving loop of AdaptiveCoordinator does: what is shown and proved of   *)
(* that one is true of the benchmark.                                      *)
DrivesCoordinator == Spec

(* Whatever is morphed, shrunk, timed out or finished in between, the      *)
(* occupied blocks are exactly those of the requests being served, each    *)
(* held by one of them, and as many as its tokens need.                    *)
HeldBlocksOccupied ==
  /\ Occupied = UNION {held[r] : r \in Requests}
  /\ \A r, q \in Requests : r # q => held[r] \cap held[q] = {}
  /\ \A r \in Requests : Cardinality(held[r]) =
       IF r \in Elements(active) THEN CeilDiv(PromptLen + generated[r] - 1, BlockSize) ELSE 0

(* A request has one record once it is done or timed out, and none before. *)
OneRecordEach ==
  /\ Cardinality(Elements(records)) = Len(records)
  /\ Elements(records) = {r \in Requests : status[r] \in Recorded}

(* "Waiting requests are admitted in FCFS order"                           *)
(* (end_to_end_benchmark.py:395): none gets its first token before an      *)
(* earlier one that is still waiting.                                      *)
ServedInOrder ==
  \A r, q \in Requests : q < r /\ generated[r] > 0 => status[q] # "waiting"

(* The pass of the iteration in which the coordinator was poisoned is the  *)
(* last: no token is produced after it.                                    *)
NoServingOncePoisoned ==
  [][pc = "ready" /\ coord_poisoned => UNCHANGED <<generated, pc>> \/ pc' = "stopped"]_benchVars

(* Every request is done or timed out in the end, unless an exception ends *)
(* the loop: also when nothing fits and the controller is not sampled.     *)
EveryRequestRecorded ==
  \A r \in Requests : <>(status[r] \in Recorded \/ turn = "failed")
=============================================================================
