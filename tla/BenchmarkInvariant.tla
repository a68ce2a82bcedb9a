------------------------- MODULE BenchmarkInvariant -------------------------
(***************************************************************************)
(* The inductive invariant of the benchmark's serving loop, beside that of *)
(* the coordinator it drives (IInv): where the loop can be while the       *)
(* coordinator is at some point of a step, which list a request is in for  *)
(* its status, and which blocks it holds.                                  *)
(***************************************************************************)
EXTENDS BenchmarkLoop, CoordinatorInvariant

ActiveSet == Elements(active)
PassingSet == Elements(passing)

LoopTypes ==
  /\ status \in [Requests -> {"scheduled", "waiting", "running"} \cup Recorded]
  /\ overdue \subseteq Requests
  /\ active \in Seq(Requests) /\ IsInjective(active) /\ Len(active) <= MaxActive
  /\ passing \in Seq(Requests) /\ IsInjective(passing) /\ Len(passing) <= MaxBatchSize
  /\ generated \in [Requests -> 0 .. MaxTokens]
  /\ held \in [Requests -> SUBSET Occupied]
  /\ records \in Seq(Requests) /\ IsInjective(records)

(* The loop and the coordinator take turns.                                *)
TurnsTaken ==
  \/ turn \in {"top", "select", "idle", "sample", "finish"} /\ pc = "ready" /\ ~draining
  \/ turn = "pass" /\ pc \in Stepping \cup {"forward"} /\ ~draining
  \/ turn = "cleanup" /\ pc \in Stepping \cup {"ready"} /\ draining
  \/ turn = "failed" /\ pc \in Driving

(* What a request's status says of it.                                     *)
StatusTells ==
  /\ Elements(records) = {r \in Requests : status[r] \in Recorded}
  /\ \A r \in ActiveSet : status[r] = "running" /\ generated[r] > 0
  /\ \A r \in Requests : status[r] \in {"scheduled", "waiting"} => generated[r] = 0

(* The batch of this iteration is a part of what is active, or was just    *)
(* admitted and will be active.                                            *)
JustAdmitted ==
  /\ PassingSet \cap ActiveSet = {}
  /\ \A r \in PassingSet : status[r] = "running" /\ generated[r] = 0
  /\ Len(active) + Len(passing) <= MaxActive

PassingTells ==
  /\ turn \in {"sample", "pass"} => PassingSet \subseteq ActiveSet \/ JustAdmitted
  /\ turn = "finish" => PassingSet \subseteq ActiveSet

(* An active request has tokens left to generate, unless it has just had   *)
(* its first one or is about to be asked.                                  *)
TokensLeft ==
  \A r \in ActiveSet : \/ generated[r] < OutputLen \/ generated[r] = 1
                       \/ turn = "finish" /\ r \in PassingSet

BlocksHeld ==
  /\ Occupied = UNION {held[r] : r \in Requests}
  /\ \A r, q \in Requests : r # q => held[r] \cap held[q] = {}
  /\ \A r \in Requests : Cardinality(held[r]) =
       IF r \in ActiveSet THEN CeilDiv(PromptLen + generated[r] - 1, BlockSize) ELSE 0

(* Requests arrive and are admitted in the order of their numbers.         *)
InOrder ==
  \A q, r \in Requests : q < r =>
    /\ status[r] # "scheduled" => status[q] # "scheduled"
    /\ status[r] = "running" \/ generated[r] > 0 => status[q] # "waiting"

BInv ==
  /\ LoopTypes /\ TurnsTaken
  /\ StatusTells /\ PassingTells /\ TokensLeft
  /\ BlocksHeld /\ InOrder
=============================================================================
