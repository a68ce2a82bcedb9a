---------------------------- MODULE HistoryProofs ---------------------------
(***************************************************************************)
(* The coordinator never acts on a transient, for every length of the two  *)
(* sample windows and every batch size.                                    *)
(***************************************************************************)
EXTENDS SampleHistory, CoordinatorProofs

USE ControllerAssumption

(* A history that ends with n equal samples ends with any fewer of them. *)
LEMMA FewerAreLast ==
  ASSUME recent \in Seq(Signals), NEW signal, NEW n \in Nat, NEW m \in 0 .. n, AllLast(n, signal)
  PROVE  AllLast(m, signal)
BY DEF AllLast

(* One more sample of the same kind makes n of them n + 1, up to the longest window. *)
LEMMA SampleExtends ==
  ASSUME recent \in Seq(Signals), NEW signal \in Signals, NEW n \in 0 .. LongestWindow - 1,
         AllLast(n, signal), recent' = Latest(Append(recent, signal))
  PROVE  AllLast(n + 1, signal)'
<1> DEFINE s == Append(recent, signal)
           first == IF Len(s) > LongestWindow THEN Len(s) - LongestWindow + 1 ELSE 1
<1>1. LongestWindow \in Nat \ {0}
  BY DEF LongestWindow
<1>2. /\ Len(recent) \in Nat /\ s \in Seq(Signals) /\ Len(s) = Len(recent) + 1
      /\ s[Len(s)] = signal /\ \A i \in 1 .. Len(recent) : s[i] = recent[i]
  OBVIOUS
<1>3. Len(recent) >= n /\ \A i \in Len(recent) - n + 1 .. Len(recent) : recent[i] = signal
  BY DEF AllLast
<1>4. first \in 1 .. Len(s) /\ Len(s) - first + 1 >= n + 1 /\ n \in Nat
  <2>1. n \in Nat /\ n + 1 <= LongestWindow
    BY <1>1
  <2> HIDE DEF s
  <2>2. CASE Len(s) > LongestWindow
    BY <1>1, <1>2, <1>3, <2>1, <2>2
  <2>3. CASE ~(Len(s) > LongestWindow)
    BY <1>1, <1>2, <1>3, <2>1, <2>3
  <2> QED BY <2>2, <2>3
<1>5. recent' = SubSeq(s, first, Len(s))
  BY DEF Latest
<1> HIDE DEF s, first
<1>6. /\ Len(recent') = Len(s) - first + 1
      /\ \A i \in 1 .. Len(s) - first + 1 : recent'[i] = s[first + i - 1]
  BY <1>2, <1>4, <1>5
<1>7. ASSUME NEW i \in Len(recent') - (n + 1) + 1 .. Len(recent') PROVE recent'[i] = signal
  <2>1. i \in 1 .. Len(s) - first + 1 /\ first + i - 1 \in Len(s) - n .. Len(s)
    BY <1>2, <1>4, <1>6
  <2>2. recent'[i] = s[first + i - 1]
    BY <1>6, <2>1
  <2>3. CASE first + i - 1 = Len(s)
    BY <1>2, <2>2, <2>3
  <2>4. CASE first + i - 1 # Len(s)
    <3>1. first + i - 1 \in Len(recent) - n + 1 .. Len(recent) /\ first + i - 1 \in 1 .. Len(recent)
      <4> DEFINE j == first + i - 1
      <4>1. j \in Int /\ j >= Len(s) - n /\ j <= Len(s) /\ j # Len(s)
        BY <1>2, <1>4, <2>1, <2>4
      <4>2. Len(s) \in Int /\ Len(s) = Len(recent) + 1 /\ Len(recent) \in Nat /\ Len(recent) >= n
        BY <1>2, <1>3
      <4> HIDE DEF j
      <4>3. j \in Len(recent) - n + 1 .. Len(recent) /\ j \in 1 .. Len(recent)
        BY <1>4, <4>1, <4>2
      <4> QED BY <4>3 DEF j
    <3> QED BY <1>2, <1>3, <2>2, <3>1
  <2> QED BY <2>3, <2>4
<1> QED BY <1>4, <1>6, <1>7 DEF AllLast

(* The history is a list of samples again after a sample. *)
LEMMA LatestType ==
  ASSUME recent \in Seq(Signals), NEW signal \in Signals
  PROVE  Latest(Append(recent, signal)) \in Seq(Signals)
<1> DEFINE s == Append(recent, signal)
<1>1. s \in Seq(Signals) /\ Len(s) \in Nat \ {0} /\ LongestWindow \in Nat \ {0}
  BY DEF LongestWindow
<1> HIDE DEF s
<1>2. ASSUME NEW m \in 1 .. Len(s) PROVE SubSeq(s, m, Len(s)) \in Seq(Signals)
  BY <1>1
<1>3. (IF Len(s) > LongestWindow THEN Len(s) - LongestWindow + 1 ELSE 1) \in 1 .. Len(s)
  BY <1>1
<1>4. Latest(s) \in Seq(Signals)
  BY <1>2, <1>3 DEF Latest
<1> QED BY <1>4 DEF s

(* A counter that grows by one with its sample still says how the history ends. *)
LEMMA CountedIsLast ==
  ASSUME recent \in Seq(Signals), NEW signal \in Signals, NEW count \in Nat,
         AllLast(Smaller(count, LongestWindow), signal), recent' = Latest(Append(recent, signal)),
         NEW n \in Nat, n <= count + 1, n <= LongestWindow
  PROVE  AllLast(n, signal)'
<1>1. LongestWindow \in Nat \ {0}
  BY DEF LongestWindow
<1>2. recent' \in Seq(Signals)
  BY LatestType
<1> DEFINE m == IF n = 0 THEN 0 ELSE n - 1
<1>3. m \in 0 .. Smaller(count, LongestWindow) /\ m \in 0 .. LongestWindow - 1
      /\ Smaller(count, LongestWindow) \in Nat
  BY <1>1 DEF Smaller
<1>4. AllLast(m, signal)
  BY <1>3, FewerAreLast
<1>5. AllLast(m + 1, signal)'
  BY <1>3, <1>4, SampleExtends
<1>6. n \in 0 .. m + 1 /\ m + 1 \in Nat
  OBVIOUS
<1> HIDE DEF m
<1> QED BY <1>2, <1>5, <1>6 DEF AllLast

(* A command is only issued when its window is full. *)
LEMMA CommandIsDue ==
  ASSUME ListInv, pc \in Driving, NEW signal
  PROVE  /\ LayerDelta(signal) > 0 => PressureDue(signal)
         /\ LayerDelta(signal) < 0 => RecoveryDue(signal)
<1>1. quantized_layers \in Nat
  BY InRest
<1>2. ~(PressureDue(signal) /\ RecoveryDue(signal))
  BY DEF PressureDue, RecoveryDue
<1>3. CASE PressureDue(signal)
  <2>1. LayerDelta(signal) = Smaller(LayersPerAction, MaxQuantized - quantized_layers)
    BY <1>2, <1>3 DEF LayerDelta
  <2> QED BY <1>1, <1>3, <2>1 DEF Smaller, PressureDue
<1>4. CASE RecoveryDue(signal)
  <2>1. LayerDelta(signal) = -Smaller(LayersPerAction, quantized_layers)
    BY <1>2, <1>4 DEF LayerDelta
  <2> QED BY <1>1, <1>4, <2>1 DEF Smaller, RecoveryDue
<1>5. CASE ~PressureDue(signal) /\ ~RecoveryDue(signal)
  BY <1>5 DEF LayerDelta
<1> QED BY <1>3, <1>4, <1>5

(* A sample keeps the invariant, whether or not it starts an action. *)
LEMMA SampleKeepsWindow ==
  ASSUME ListInv, WindowInv, NEW signal \in Signals, Sample(signal),
         recent' = Latest(Append(recent, signal))
  PROVE  WindowInv'
<1>1. /\ recent \in Seq(Signals) /\ pressure_count \in Nat /\ recovery_count \in Nat
      /\ AllLast(Smaller(pressure_count, LongestWindow), "pressure")
      /\ AllLast(Smaller(recovery_count, LongestWindow), "recovery")
  BY DEF WindowInv, ListInv, Lists, Scalars
<1>2. CountSample(signal) /\ pc \in Driving
  BY DEF Sample, NoAction, ProfileExhausted, StartPressure, StartRecovery, SampleStarts, Driving
<1>3. recent' \in Seq(Signals) /\ LongestWindow \in Nat \ {0}
      /\ PressureSamples <= LongestWindow /\ RecoverySamples <= LongestWindow
  BY <1>1, LatestType DEF LongestWindow
<1>4. AllLast(0, "pressure")' /\ AllLast(0, "recovery")'
  BY <1>3 DEF AllLast
<1>5. AllLast(Smaller(pressure_count, LongestWindow), "pressure")'
  <2>1. CASE signal = "pressure" /\ pressure_count' = pressure_count + 1
    <3>1. /\ Smaller(pressure_count', LongestWindow) \in Nat
          /\ Smaller(pressure_count', LongestWindow) <= pressure_count + 1
          /\ Smaller(pressure_count', LongestWindow) <= LongestWindow
      BY <1>1, <1>3, <2>1 DEF Smaller
    <3>2. AllLast(Smaller(pressure_count, LongestWindow), signal)
      BY <1>1, <2>1
    <3>3. \A n \in Nat : n <= pressure_count + 1 /\ n <= LongestWindow => AllLast(n, signal)'
      BY <1>1, <3>2, CountedIsLast
    <3> QED BY <2>1, <3>1, <3>3 DEF AllLast, Smaller, LongestWindow
  <2>2. CASE pressure_count' = 0
    <3>1. Smaller(pressure_count', LongestWindow) = 0
      BY <1>3, <2>2 DEF Smaller
    <3> QED BY <1>4, <3>1 DEF AllLast, Smaller, LongestWindow
  <2> QED BY <1>2, <2>1, <2>2 DEF CountSample
<1>6. AllLast(Smaller(recovery_count, LongestWindow), "recovery")'
  <2>1. CASE signal = "recovery" /\ recovery_count' = recovery_count + 1
    <3>1. /\ Smaller(recovery_count', LongestWindow) \in Nat
          /\ Smaller(recovery_count', LongestWindow) <= recovery_count + 1
          /\ Smaller(recovery_count', LongestWindow) <= LongestWindow
      BY <1>1, <1>3, <2>1 DEF Smaller
    <3>2. AllLast(Smaller(recovery_count, LongestWindow), signal)
      BY <1>1, <2>1
    <3>3. \A n \in Nat : n <= recovery_count + 1 /\ n <= LongestWindow => AllLast(n, signal)'
      BY <1>1, <3>2, CountedIsLast
    <3> QED BY <2>1, <3>1, <3>3 DEF AllLast, Smaller, LongestWindow
  <2>2. CASE recovery_count' = 0
    <3>1. Smaller(recovery_count', LongestWindow) = 0
      BY <1>3, <2>2 DEF Smaller
    <3> QED BY <1>4, <3>1 DEF AllLast, Smaller, LongestWindow
  <2> QED BY <1>2, <2>1, <2>2 DEF CountSample
<1>7. (~AtRest => pressure_count = 0 /\ recovery_count = 0 /\ ActedOn)'
  <2>1. CASE NoAction(signal) \/ ProfileExhausted(signal)
    BY <2>1 DEF NoAction, ProfileExhausted, EndStep, AtRest, Driving
  <2>2. CASE StartPressure(signal)
    <3>1. delta' > 0 /\ PressureDue(signal)
      BY <1>2, <2>2, CommandIsDue DEF StartPressure
    <3>2. signal = "pressure" /\ pressure_count + 1 >= PressureSamples
      BY <3>1 DEF PressureDue
    <3>3. pressure_count' = 0 /\ recovery_count' = 0
      BY <1>2, <3>1, <3>2 DEF CountSample
    <3>4. AllLast(Smaller(pressure_count, LongestWindow), signal)
      BY <1>1, <3>2
    <3>5. AllLast(PressureSamples, signal)'
      BY <1>1, <1>3, <3>2, <3>4, CountedIsLast
    <3> QED BY <3>1, <3>2, <3>3, <3>5 DEF ActedOn, AllLast
  <2>3. CASE StartRecovery(signal)
    <3>1. ~(delta' > 0) /\ RecoveryDue(signal)
      <4>1. LayerDelta(signal) \in Int /\ LayerDelta(signal) < 0 /\ delta' = LayerDelta(signal)
        BY <1>2, <2>3, LayerDeltaRange DEF StartRecovery
      <4> QED BY <1>2, <4>1, CommandIsDue
    <3>2. signal = "recovery" /\ recovery_count + 1 >= RecoverySamples
      BY <3>1 DEF RecoveryDue
    <3>3. pressure_count' = 0 /\ recovery_count' = 0
      BY <1>2, <3>1, <3>2 DEF CountSample
    <3>4. AllLast(Smaller(recovery_count, LongestWindow), signal)
      BY <1>1, <3>2
    <3>5. AllLast(RecoverySamples, signal)'
      BY <1>1, <1>3, <3>2, <3>4, CountedIsLast
    <3> QED BY <3>1, <3>2, <3>3, <3>5 DEF ActedOn, AllLast
  <2> QED BY <2>1, <2>2, <2>3 DEF Sample
<1> QED BY <1>3, <1>5, <1>6, <1>7 DEF WindowInv

(* The rest of a step keeps the invariant: the counters stay 0 and the history is forgotten
   when the step ends, and with it the command. *)
LEMMA ActKeepsWindow ==
  ASSUME ListInv, WindowInv, Act, recent' = IF AtRest' THEN <<>> ELSE recent
  PROVE  WindowInv'
<1>1. ~AtRest
  <2>1. AtRest => call = "none"
    BY DEF ListInv, Steps, AtRest, AtRestInv, Driving, Stepping
  <2>2. ExecutorStep => call # "none"
    BY DEF ExecutorStep, MorphLayer, MorphRaises, MorphUndo, MorphUndoRaises, MorphUndone, ExpandLayer,
       ExpandRaises, ExpandRollbackRaises, ExpandLeavesGroup, RestoreLayer, RestoreRaises, RestoreUndo, RestoreUndoRaises,
       RestoreUndone, RecoverReattach, RecoverReattachRaises, Restoring
  <2> QED BY <2>1, <2>2 DEF Act, MorphReturned, ExpandReturned, RollbackReturned, RecoverReturned,
          AtRest, Driving
<1>2. pressure_count' = 0 /\ recovery_count' = 0
  <2>1. UNCHANGED <<pressure_count, recovery_count>>
    BY DEF Act, MorphReturned, ExpandReturned, RollbackReturned, RecoverReturned, ctlVars
  <2> QED BY <1>1, <2>1 DEF WindowInv
<1>3. AtRest' \/ delta' = delta
  BY DEF Act, MorphReturned, ExpandReturned, RollbackReturned, RecoverReturned, RollbackPressure,
     Conclude, EndStep, coordVars, AtRest, Driving
<1>4. recent' \in Seq(Signals) /\ Len(recent') \in Nat
  BY DEF WindowInv
<1>5. Smaller(0, LongestWindow) = 0
  BY DEF Smaller, LongestWindow
<1>6. AllLast(Smaller(pressure_count, LongestWindow), "pressure")'
      /\ AllLast(Smaller(recovery_count, LongestWindow), "recovery")'
  BY <1>2, <1>4, <1>5 DEF AllLast, Smaller, LongestWindow
<1>7. (~AtRest => ActedOn)'
  BY <1>1, <1>3 DEF WindowInv, ActedOn, AllLast
<1> QED BY <1>2, <1>4, <1>6, <1>7 DEF WindowInv

(* The driver and stuttering leave counters and history alone. *)
LEMMA DriveKeepsWindow ==
  ASSUME WindowInv, UNCHANGED recent, Drive \/ UNCHANGED vars
  PROVE  WindowInv'
<1>1. UNCHANGED <<pressure_count, recovery_count>> /\ (AtRest' \/ (~AtRest /\ delta' = delta))
  BY DEF Drive, Forward, Finish, Drain, StepDisabled, Stopped, vars, ctlVars, coordVars, AtRest, Driving
<1> QED BY <1>1 DEF WindowInv, ActedOn, AllLast, Smaller, LongestWindow

(* The invariant of the sample windows, next to that of the lists. *)
LEMMA HistoryInvariants == HSpec => [](ListInv /\ WindowInv)
<1>1. HInit => ListInv /\ WindowInv
  <2> SUFFICES ASSUME HInit PROVE ListInv /\ WindowInv
    OBVIOUS
  <2>1. recent = <<>> /\ pressure_count = 0 /\ recovery_count = 0 /\ AtRest
    BY DEF HInit, Init, ControllerInit, AtRest, Driving
  <2>2. Smaller(0, LongestWindow) = 0
    BY DEF Smaller, LongestWindow
  <2> QED BY <2>1, <2>2, InitListInv DEF HInit, WindowInv, AllLast
<1>2. ListInv /\ WindowInv /\ [HNext]_<<vars, recent>> => (ListInv /\ WindowInv)'
  <2> SUFFICES ASSUME ListInv, WindowInv, [HNext]_<<vars, recent>> PROVE ListInv' /\ WindowInv'
    OBVIOUS
  <2>1. [Next]_vars
    BY DEF HNext, Next
  <2>2. ListInv'
    BY <2>1, NextKeepsListInv
  <2>3. WindowInv'
    BY SampleKeepsWindow, ActKeepsWindow, DriveKeepsWindow DEF HNext
  <2> QED BY <2>2, <2>3
<1> QED BY <1>1, <1>2, PTL DEF HSpec

(* Keeping the history changes nothing: what is proved of the coordinator holds with it. *)
THEOREM HistoryIsCoordinator == HSpec => Spec
<1>1. HInit => Init
  BY DEF HInit
<1>2. [HNext]_<<vars, recent>> => [Next]_vars
  BY DEF HNext, Next
<1> QED BY <1>1, <1>2, PTL DEF HSpec, Spec

(* The counters of the controller stand for real samples: a counter of n is backed by the last
   n samples since the previous action, and during an operation by a full window of its kind. *)
THEOREM HistoryKeepsWindow == HSpec => []WindowInv
BY HistoryInvariants, PTL

(* The coordinator never acts on a transient: a full window of pressure lies behind every
   expansion, and a full window of recovery behind every recovery. *)
THEOREM HistoryActsOnFullWindow == HSpec => []ActsOnFullWindow
<1>1. WindowInv => ActsOnFullWindow
  BY DEF WindowInv, ActsOnFullWindow
<1> QED BY <1>1, HistoryKeepsWindow, PTL
=============================================================================
