------------------------- MODULE MorphingController -------------------------
(***************************************************************************)
(* runtime/morphserve/controller.py: the threshold controller that turns a *)
(* stream of monitor samples into requests to quantize or restore layers.  *)
(*                                                                         *)
(* A smoothed sample is abstracted to what the thresholds tell apart:      *)
(* "pressure" (kv_usage >= 0.85 or queue_delay >= 0.1), "recovery"         *)
(* (kv_usage <= 0.65 and queue_delay <= 0.025) or "neutral".  No sample is *)
(* both, so the if/elif of the code is a choice between disjoint cases.    *)
(***************************************************************************)
EXTENDS Integers

CONSTANTS
  LayersPerAction,  (* ModeConfig.layers_per_action                        *)
  MaxQuantized,     (* ModeConfig.max_quantized_layers                     *)
  PressureSamples,  (* PRESSURE_SAMPLES                                    *)
  RecoverySamples,  (* RECOVERY_SAMPLES                                    *)
  CountBound        (* bound of the model on the two sample counters       *)

ASSUME ControllerAssumption ==
  /\ LayersPerAction \in Nat \ {0}
  /\ MaxQuantized \in Nat \ {0}
  /\ PressureSamples \in Nat \ {0}
  /\ RecoverySamples \in Nat \ {0}
  /\ CountBound \in Nat

VARIABLES
  quantized_layers, (* layers the controller believes to be in W4          *)
  pressure_count,   (* consecutive pressure samples since the last action  *)
  recovery_count    (* consecutive recovery samples since the last action  *)

ctlVars == <<quantized_layers, pressure_count, recovery_count>>

Signals == {"pressure", "recovery", "neutral"}

Smaller(a, b) == IF a <= b THEN a ELSE b

ControllerTypeOK ==
  /\ quantized_layers \in Nat
  /\ pressure_count \in Nat
  /\ recovery_count \in Nat

ControllerInit ==
  /\ quantized_layers = 0
  /\ pressure_count = 0
  /\ recovery_count = 0

PressureDue(signal) ==
  /\ signal = "pressure"
  /\ pressure_count + 1 >= PressureSamples
  /\ quantized_layers < MaxQuantized

RecoveryDue(signal) ==
  /\ signal = "recovery"
  /\ recovery_count + 1 >= RecoverySamples
  /\ quantized_layers > 0

(* The layer_delta of the command that update() issues for a sample.       *)
LayerDelta(signal) ==
  CASE PressureDue(signal) ->
         Smaller(LayersPerAction, MaxQuantized - quantized_layers)
    [] RecoveryDue(signal) ->
         -Smaller(LayersPerAction, quantized_layers)
    [] OTHER -> 0

(* Neutral samples keep the counters: the window need not be consecutive.  *)
CountStickyNeutral(signal) ==
  /\ pressure_count' = CASE signal = "neutral" -> pressure_count
                         [] signal = "pressure" /\ ~PressureDue(signal) -> pressure_count + 1
                         [] OTHER -> 0
  /\ recovery_count' = CASE signal = "neutral" -> recovery_count
                         [] signal = "recovery" /\ ~RecoveryDue(signal) -> recovery_count + 1
                         [] OTHER -> 0

(* An action leaves its own window open.                                   *)
CountUnreset(signal) ==
  /\ pressure_count' = IF signal = "pressure" THEN pressure_count + 1 ELSE 0
  /\ recovery_count' = IF signal = "recovery" THEN recovery_count + 1 ELSE 0

(* A sample extends one window and closes the other; an action closes both. *)
CountSample(signal) ==
  /\ pressure_count' = IF signal = "pressure" /\ ~PressureDue(signal)
                         THEN pressure_count + 1 ELSE 0
  /\ recovery_count' = IF signal = "recovery" /\ ~RecoveryDue(signal)
                         THEN recovery_count + 1 ELSE 0

(* The counters are unbounded in the code and grow while the controller    *)
(* sits at its maximum or at zero; the model stops sampling at CountBound. *)
WithinCountBound(signal) ==
  /\ signal = "pressure" => pressure_count < CountBound
  /\ signal = "recovery" => recovery_count < CountBound
=============================================================================
