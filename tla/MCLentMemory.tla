---------------------------- MODULE MCLentMemory ----------------------------
(* The memory with its inductive invariant, for the runs.                  *)
EXTENDS LentInvariant
=============================================================================
