--------------------------- MODULE PagedAttention ---------------------------
(***************************************************************************)
(* worker/kernels/paged_attn.py: attention of decoding sequences over the  *)
(* KV cache.  A sequence is cut into seq blocks; the first phase makes one *)
(* partial softmax of each, the second merges them.                        *)
(*                                                                         *)
(* Arithmetic is exact.  A score is a number in 0 .. MaxScore, an          *)
(* exponential is scaled by 2^MaxScore, and the weighted sum of the values *)
(* is the bag of the <<key, value>> cells that went into it.  Scaling by   *)
(* the running maximum, which is what keeps the kernels from overflowing,  *)
(* is kept: a sum and its maximum have to stay in step.                    *)
(***************************************************************************)
EXTENDS KvAddressing, Sublists

CONSTANTS
  NumHeads,      (* model_config.num_q_heads                               *)
  SeqBlockSize,  (* infer_state.seq_block_size, a multiple of BlockSize    *)
  MaxScore       (* bound of the model: the largest score                  *)

ASSUME AttentionAssumption ==
  /\ {NumHeads, SeqBlockSize} \subseteq Nat \ {0}
  /\ MaxScore \in Nat
  /\ SeqBlockSize % BlockSize = 0   \* asserted by every variant

CeilDivide(a, b) == (a + b - 1) \div b

(* q . k: keys at different positions get different scores in each head.   *)
Score(head, key) ==
  IF key[1] = "k" THEN (key[2][2] + head) % (MaxScore + 1) ELSE MaxScore

-----------------------------------------------------------------------------
(* A partial softmax                                                       *)

NoScore == -1   \* -1e20
Fresh == [max |-> NoScore, sum |-> 0, acc |-> EmptyBag]

(* torch.empty: whatever the memory held.                                  *)
Unwritten == [max |-> 0, sum |-> 1, acc |-> SetToBag({<<<<"unwritten">>, <<"unwritten">>>>})]

(* x * exp2(old - new)                                                     *)
Scaled(x, old, new) == IF old = NoScore THEN 0 ELSE x \div 2 ^ (new - old)

ScaledBag(bag, old, new) == [t \in DOMAIN bag |-> Scaled(bag[t], old, new)]

Weight(score, max) == 2 ^ (MaxScore - (max - score))

(* One step of the loops of phase 1: `read` are the <<key, value>> cells   *)
(* of the live slots of a block.                                           *)
Absorb(part, head, read) ==
  LET new == Max({part.max} \cup {Score(head, read[i][1]) : i \in DOMAIN read})
      weight == [i \in DOMAIN read |-> Weight(Score(head, read[i][1]), new)]
  IN  [max |-> new,
       sum |-> Scaled(part.sum, part.max, new) + SumFunction(weight),
       acc |-> FoldLeftDomain(
                 LAMBDA bag, i : bag (+) [t \in {read[i]} |-> weight[i]],
                 ScaledBag(part.acc, part.max, new), read)]

(* Seq block s of a sequence of len tokens: the numbers of its blocks.     *)
BlocksOfSeqBlock(s, len) ==
  LET first == s * (SeqBlockSize \div BlockSize)
      number == CeilDivide(Min({SeqBlockSize, len - s * SeqBlockSize}), BlockSize)
  IN  [i \in 1 .. number |-> first + i - 1]

(* The slots of a block that are not masked.                              *)
LiveSlots(block, len) == Min({BlockSize, len - block * BlockSize})

(* The <<key, value>> cells of the live slots of a block, which follow     *)
(* each other from its first key and its first value on.                   *)
ReadBlock(mem, block, len, k, v) ==
  [i \in 1 .. LiveSlots(block, len) |-> <<mem[k + i - 1], mem[v + i - 1]>>]

(* The loop of phase 1 over the blocks of a seq block; `read` has the      *)
(* cells of each.                                                          *)
SeqBlockPart(part, head, blocks, read) ==
  FoldLeft(LAMBDA p, block : Absorb(p, head, read[block]), part, blocks)

-----------------------------------------------------------------------------
(* The rows of mid_o and of the buffers: one per sequence of the batch,    *)
(* head and seq block.  `lens` are the lengths of the batch.               *)
NumSeqBlocks(lens) == CeilDivide(Max(ToSet(lens)), SeqBlockSize)

Programs(lens) ==
  {p \in (0 .. Len(lens) - 1) \X (0 .. NumHeads - 1) \X (0 .. NumSeqBlocks(lens) - 1) :
    p[3] * SeqBlockSize < lens[p[1] + 1]}

Row(lens, p) == (p[1] * NumHeads + p[2]) * NumSeqBlocks(lens) + p[3]

Rows(lens) == 0 .. Len(lens) * NumHeads * NumSeqBlocks(lens) - 1

RowsOf(lens, rest, part) ==
  [row \in Rows(lens) |->
    IF \E p \in Programs(lens) : Row(lens, p) = row
      THEN part[CHOOSE p \in Programs(lens) : Row(lens, p) = row]
      ELSE rest]

(* paged_attention: phase 1 writes mid_o.  The combined kernel serves both *)
(* kinds of blocks; without lent blocks in the table it is the plain one.  *)
CombinedMid(mem, caches, table, batch, lens, layer) ==
  RowsOf(lens, Unwritten, [p \in Programs(lens) |->
    LET len == lens[p[1] + 1]
        blocks == BlocksOfSeqBlock(p[3], len)
        start(kv, block) == CombinedAddress(caches, kv, table[batch[p[1] + 1]][block + 1], layer, 0)
    IN  SeqBlockPart(Fresh, p[2], blocks,
          [block \in ToSet(blocks) |->
            ReadBlock(mem, block, len, start("k", block), start("v", block))])])

(* paged_attention_multi_kernels: one launch for the original cache and    *)
(* one for each lent group add to the buffers in turn.                     *)
Launched(mem, caches, table, batch, lens, layer, buffers, launch) ==
  RowsOf(lens, Fresh, [p \in Programs(lens) |->
    LET len == lens[p[1] + 1]
        index(block) == LaunchTable(caches, launch, table[batch[p[1] + 1]][block + 1])
        all == BlocksOfSeqBlock(p[3], len)
        blocks == Keep(all, {block \in ToSet(all) : index(block) # -1})
        start(kv, block) == LaunchBase(caches, kv, launch) + SlotOf(index(block), layer, 0)
    IN  SeqBlockPart(buffers[Row(lens, p)], p[2], blocks,
          [block \in ToSet(blocks) |->
            ReadBlock(mem, block, len, start("k", block), start("v", block))])])

Buffers(mem, caches, table, batch, lens, layer) ==
  FoldLeft(
    LAMBDA buffers, launch :
      Launched(mem, caches, table, batch, lens, layer, buffers, launch - 1),
    [row \in Rows(lens) |-> Fresh],
    [i \in 1 .. Len(caches.groups) + 1 |-> i])

(* The mid phase reads and writes the row s + (b + h) * num_seq_blocks of  *)
(* its program: it does not skip the heads of the sequences before b.      *)
MidRow(lens, b, h, s) == (b + h) * NumSeqBlocks(lens) + s

MidPhase(lens, buffers) ==
  [row \in Rows(lens) |->
    IF \E b \in 0 .. Len(lens) - 1, h \in 0 .. NumHeads - 1, s \in 0 .. NumSeqBlocks(lens) - 1 :
         MidRow(lens, b, h, s) = row
      THEN buffers[row] ELSE Unwritten]

(* Phase 2 merges the seq blocks of a sequence and head.                   *)
Merged(lens, mid, b, h) ==
  LET parts == [s \in 1 .. CeilDivide(lens[b + 1], SeqBlockSize) |-> mid[Row(lens, <<b, h, s - 1>>)]]
      top == Max({parts[s].max : s \in DOMAIN parts})
  IN  [sum |-> SumFunction([s \in DOMAIN parts |-> Scaled(parts[s].sum, parts[s].max, top)]),
       acc |-> FoldLeft(LAMBDA bag, part : bag (+) ScaledBag(part.acc, part.max, top),
                        EmptyBag, parts)]

(* Whether lent memory is used is asked of the whole block table, which    *)
(* keeps the entries of freed sequences: `stale` says that one of those is *)
(* a lent block.                                                           *)
LentBlocksUsed(caches, table, stale) ==
  /\ caches.groups # <<>>
  /\ stale \/ \E r \in DOMAIN table : \E index \in ToSet(table[r]) : index >= caches.num_blocks_org

Attention(mem, caches, explicit, table, stale, batch, lens, layer) ==
  LET mid == IF explicit /\ LentBlocksUsed(caches, table, stale)
               THEN MidPhase(lens, Buffers(mem, caches, table, batch, lens, layer))
               ELSE CombinedMid(mem, caches, table, batch, lens, layer)
  IN  [p \in (1 .. Len(lens)) \X (0 .. NumHeads - 1) |-> Merged(lens, mid, p[1] - 1, p[2])]

-----------------------------------------------------------------------------
(* Attention as it is defined: every token of the sequence, and no other,  *)
(* with the weight of its own score.                                       *)
Dense(seq, len, head, layer) ==
  LET cell(kv, t) == <<kv, <<seq, t>>, layer>>
  IN  [p \in {<<cell("k", t), cell("v", t)>> : t \in 0 .. len - 1} |-> 2 ^ Score(head, p[1])]

IsSoftmaxOf(out, dense) ==
  /\ DOMAIN out.acc = DOMAIN dense
  /\ \A t \in DOMAIN dense : out.acc[t] * SumFunction(dense) = dense[t] * out.sum
=============================================================================
