---------------------------- MODULE BlockManager ----------------------------
(***************************************************************************)
(* worker/block_manager.py and the kernels of worker/kernels/block_mgmt.py *)
(* it calls: one manager of the KV blocks of one device.  The engine has   *)
(* two, so this module is instantiated once for the GPU and once for the   *)
(* CPU.  Sequences are request ids: indices into the block table.          *)
(***************************************************************************)
EXTENDS Integers, FiniteSets, SequencesExt

CONSTANTS
  NumBlocks,   (* num_blocks of this device                                *)
  Ids          (* 0 .. max_seqs_in_block_table - 1                         *)

VARIABLES
  free_blocks,     (* the blocks b with is_block_free[b]                   *)
  num_free_blocks, (* the counter kept beside the flags                    *)
  block_table      (* per id its blocks; Len is num_seq_allocated_blocks   *)

bmVars == <<free_blocks, num_free_blocks, block_table>>

Blocks == 1 .. NumBlocks

BmTypeOK ==
  /\ free_blocks \subseteq Blocks
  /\ num_free_blocks \in 0 .. NumBlocks
  /\ block_table \in [Ids -> Seq(Blocks)]

BmInit ==
  /\ free_blocks = Blocks
  /\ num_free_blocks = NumBlocks
  /\ block_table = [i \in Ids |-> <<>>]

-----------------------------------------------------------------------------
(* allocate_blocks_for_seqs                                                *)

(* `targets` are numbers of blocks, one per element of `ids`.              *)
Missing(ids, targets) == [i \in DOMAIN ids |-> targets[i] - Len(block_table[ids[i]])]

(* "Logic error: Some sequences have more blocks already allocated than    *)
(* needed" is asserted not to happen.                                      *)
TargetsMakeSense(ids, targets) == \A i \in DOMAIN ids : Len(block_table[ids[i]]) <= targets[i]

EnoughFree(ids, targets) == SumFunction(Missing(ids, targets)) <= num_free_blocks

(* The free blocks with the lowest numbers, handed out in the order of ids. *)
Selected(n) == [i \in 1 .. n |->
  CHOOSE b \in free_blocks : Cardinality({c \in free_blocks : c <= b}) = i]

(* cumsum: where the part of the i-th sequence starts.                     *)
Before(lens, i) == SumFunctionOnSet(lens, 1 .. i - 1)

NewBlocksOf(ids, targets, i) ==
  LET missing == Missing(ids, targets)
      start == Before(missing, i)
  IN  SubSeq(Selected(SumFunction(missing)), start + 1, start + missing[i])

AllocateForSeqs(ids, targets) ==
  LET total == SumFunction(Missing(ids, targets)) IN
  /\ free_blocks' = free_blocks \ ToSet(Selected(total))
  /\ num_free_blocks' = num_free_blocks - total
  /\ block_table' = [s \in Ids |->
       IF \E i \in DOMAIN ids : ids[i] = s
         THEN LET i == CHOOSE j \in DOMAIN ids : ids[j] = s
              IN  block_table[s] \o NewBlocksOf(ids, targets, i)
         ELSE block_table[s]]

-----------------------------------------------------------------------------
(* free_blocks_for_seqs and gather_allocated_blocks_and_free               *)

(* The lengths of the ids, as blocks.                                      *)
Lengths(ids) == [i \in DOMAIN ids |-> Len(block_table[ids[i]])]

(* The blocks of the ids in order, which the gathering returns.            *)
Gathered(ids) ==
  LET lens == Lengths(ids) IN
  [k \in 1 .. SumFunction(lens) |->
     LET i == CHOOSE j \in DOMAIN ids : k - Before(lens, j) \in 1 .. lens[j]
     IN  block_table[ids[i]][k - Before(lens, i)]]

(* The release as it would be if the counter were forgotten.               *)
FreeKeepsCount(ids) ==
  /\ free_blocks' = free_blocks \cup ToSet(Gathered(ids))
  /\ block_table' = [s \in Ids |-> IF s \in ToSet(ids) THEN <<>> ELSE block_table[s]]
  /\ UNCHANGED num_free_blocks

FreeForSeqs(ids) ==
  /\ free_blocks' = free_blocks \cup ToSet(Gathered(ids))
  /\ num_free_blocks' = num_free_blocks + Len(Gathered(ids))
  /\ block_table' = [s \in Ids |-> IF s \in ToSet(ids) THEN <<>> ELSE block_table[s]]

-----------------------------------------------------------------------------
(* Every block of the pool is either free or in exactly one place of the   *)
(* block table, and the counter, which is what an allocation is checked    *)
(* against, counts the free ones.                                          *)
EveryBlockHasOnePlace(pool) ==
  /\ num_free_blocks = Cardinality(free_blocks)
  /\ LET placed == UNION {{<<s, i>> : i \in DOMAIN block_table[s]} : s \in Ids}
         block == [p \in placed |-> block_table[p[1]][p[2]]]
     IN  IsInjective(block) /\ Range(block) = pool \ free_blocks
  /\ free_blocks \subseteq pool
=============================================================================
