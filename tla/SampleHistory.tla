---------------------------- MODULE SampleHistory ---------------------------
(***************************************************************************)
(* The adaptive coordinator with the samples it has seen since its last    *)
(* action, to state what the two sample windows of the controller are for. *)
(***************************************************************************)
EXTENDS CoordinatorInvariant

VARIABLE recent \* the samples since the last action, as far as a window reaches

LongestWindow == IF PressureSamples > RecoverySamples THEN PressureSamples ELSE RecoverySamples

Latest(s) == SubSeq(s, IF Len(s) > LongestWindow THEN Len(s) - LongestWindow + 1 ELSE 1, Len(s))

HInit == Init /\ recent = <<>>

HNext ==
  \/ \E signal \in Signals : Sample(signal) /\ recent' = Latest(Append(recent, signal))
  \/ Act /\ recent' = IF AtRest' THEN <<>> ELSE recent
  \/ Drive /\ UNCHANGED recent

HSpec == HInit /\ [][HNext]_<<vars, recent>>

AllLast(n, signal) == Len(recent) >= n /\ \A i \in Len(recent) - n + 1 .. Len(recent) : recent[i] = signal

ActedOn == IF delta > 0 THEN AllLast(PressureSamples, "pressure")
                        ELSE AllLast(RecoverySamples, "recovery")

(* No action on a transient: while the coordinator morphs, the samples     *)
(* since its previous action end with a full window of pressure, and while *)
(* it recovers with a full window of recovery, so that an expansion and    *)
(* the recovery undoing it are always a whole window apart.                *)
ActsOnFullWindow == ~AtRest => ActedOn

(* What makes it inductive: the counters say how the history ends, as far  *)
(* back as it is kept, and both are 0 while the coordinator acts.          *)
WindowInv ==
  /\ recent \in Seq(Signals)
  /\ AllLast(Smaller(pressure_count, LongestWindow), "pressure")
  /\ AllLast(Smaller(recovery_count, LongestWindow), "recovery")
  /\ ~AtRest => pressure_count = 0 /\ recovery_count = 0 /\ ActedOn
=============================================================================
