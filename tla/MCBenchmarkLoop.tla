-------------------------- MODULE MCBenchmarkLoop ---------------------------
(* BenchmarkLoop and its inductive invariant, for TLC.                     *)
EXTENDS BenchmarkInvariant
=============================================================================
