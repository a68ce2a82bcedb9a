--------------------------- MODULE AtomicMorphing ---------------------------
(***************************************************************************)
(* What the serving loop relies on (the docstrings "Controller-to-executor *)
(* coordination that leaves FCFS queues untouched", "Atomically shrink     *)
(* reclaimed KV groups and restore their W4 layers" and the claims of      *)
(* doc/debug-report-async-executor.md): whatever raises on the way, a step *)
(* of the coordinator either commits a whole batch of layers together with *)
(* the KV blocks their memory gives, or takes a whole idle batch back, or  *)
(* changes nothing, or fails closed.                                       *)
(***************************************************************************)
EXTENDS Integers, Sequences

CONSTANTS NumLayers, LayersPerAction, BaseBlocks, GroupSize

VARIABLES
  w4,     (* the layers served in W4, in the order they were morphed       *)
  lent,   (* the layers whose memory the KV cache borrows                  *)
  used,   (* the KV blocks that hold some request's cache                  *)
  failed  (* morphing has failed closed                                    *)

vars == <<w4, lent, used, failed>>

Blocks(n) == 1 .. BaseBlocks + n * GroupSize

Init ==
  /\ w4 = <<>> /\ lent = <<>> /\ used = {}
  /\ failed = FALSE

(* The next d layers of the profile morph and lend their memory.           *)
Commit(d) ==
  LET grown == [i \in 1 .. Len(w4) + d |-> IF i <= Len(w4) THEN w4[i] ELSE i]
  IN  /\ ~failed
      /\ Len(w4) + d <= NumLayers
      /\ w4' = grown /\ lent' = grown
      /\ UNCHANGED <<used, failed>>

(* The d newest layers return to FP16: none of their blocks is in use.     *)
Release(d) ==
  LET left == Len(w4) - d
  IN  /\ ~failed
      /\ left >= 0
      /\ used \subseteq Blocks(left)
      /\ w4' = SubSeq(w4, 1, left) /\ lent' = SubSeq(w4, 1, left)
      /\ UNCHANGED <<used, failed>>

(* Failing closed may leave only part of the memory lent, never more than  *)
(* is W4 and never less than the requests use.                             *)
FailClosed ==
  /\ ~failed /\ failed'
  /\ \E n \in 0 .. NumLayers, m \in 0 .. NumLayers :
       /\ m <= n
       /\ w4' = [i \in 1 .. n |-> i]
       /\ lent' = [i \in 1 .. m |-> i]
       /\ used \subseteq Blocks(m)
  /\ UNCHANGED used

Serve ==
  /\ used' \subseteq Blocks(Len(lent))
  /\ UNCHANGED <<w4, lent, failed>>

Next ==
  \/ \E d \in 1 .. LayersPerAction : Commit(d) \/ Release(d)
  \/ FailClosed
  \/ Serve

Spec == Init /\ [][Next]_vars
=============================================================================
