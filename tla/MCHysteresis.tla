---------------------------- MODULE MCHysteresis ----------------------------
(* Five layers in batches of two, so that a batch can be cut short by the  *)
(* end of the profile, and windows of different lengths.                   *)
EXTENDS SampleHistory
=============================================================================
