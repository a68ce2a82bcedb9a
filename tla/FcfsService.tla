---------------------------- MODULE FcfsService -----------------------------
(***************************************************************************)
(* What "a strict FCFS scheduler ... which supports paged attention as     *)
(* well as swapping in/out" (server/scheduler.py) promises its clients,    *)
(* without queues, blocks or event loops: requests are admitted in the     *)
(* order they arrive, none while another is preempted; their first tokens  *)
(* come in that order too; every admitted request that is not preempted    *)
(* advances by one token at a time and stops at its last.                  *)
(***************************************************************************)
EXTENDS Integers

CONSTANT NumRequests

VARIABLES
  output_len,  (* the tokens each request asks for                         *)
  produced,    (* the tokens each request has got                          *)
  admitted,    (* requests 1 .. admitted have been admitted                *)
  preempted    (* the requests that are swapped out                        *)

Requests == 1 .. NumRequests
vars == <<output_len, produced, admitted, preempted>>

Unfinished == {r \in 1 .. admitted : produced[r] < output_len[r]}

Init ==
  /\ output_len \in [Requests -> Nat]
  /\ produced = [r \in Requests |-> 0]
  /\ admitted = 0
  /\ preempted = {}

Admit ==
  /\ preempted = {}
  /\ admitted' > admitted /\ admitted' \in Requests
  /\ UNCHANGED <<produced, preempted>>

(* One pass: either first tokens, for all that have none, or next tokens,  *)
(* for all that are not preempted.                                         *)
Prefill ==
  LET new == {r \in Unfinished : produced[r] = 0}
  IN  /\ new # {}
      /\ produced' = [r \in Requests |-> produced[r] + IF r \in new THEN 1 ELSE 0]
      /\ UNCHANGED <<admitted, preempted>>

Decode ==
  LET live == Unfinished \ preempted
  IN  /\ \A r \in live : produced[r] > 0
      /\ produced' = [r \in Requests |-> produced[r] + IF r \in live THEN 1 ELSE 0]
      /\ UNCHANGED <<admitted, preempted>>

(* Swapping out and swapping back in; a finished request is never kept.    *)
Swap ==
  /\ preempted' \subseteq Unfinished
  /\ preempted \subseteq preempted' \/ preempted' \subseteq preempted
  /\ UNCHANGED <<produced, admitted>>

Next ==
  /\ Admit \/ Prefill \/ Decode \/ Swap
  /\ UNCHANGED output_len

Spec == Init /\ [][Next]_vars
=============================================================================
