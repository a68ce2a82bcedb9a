-------------------------- MODULE MCServingEngine ---------------------------
(* Three requests are enough for a preemption of two at once.              *)
EXTENDS ServingInvariant
=============================================================================
