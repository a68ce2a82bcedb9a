# MorphServe in TLA+

MorphServe serves a language model whose transformer layers can change between
FP16 and W4 weights while requests are running. A W4 layer needs less memory,
and what it leaves free is lent to the KV cache as additional blocks; when the
load falls the blocks are taken back and the FP16 weights are restored. The
state that decides whether this is correct is small and spread out: lists of
layers, counters of blocks, flags. It is changed by long operations that may
raise at any line, and by event loops that interleave.

This directory holds TLA+ specifications of that state, the TLC configurations
that check them, and proofs checked by TLAPS. Paths below are relative to
`src/`; `runtime/` stands for `reproduction/runtime/`, and `swiftllm/` for
`runtime/candidate-python/swiftllm/`.

There are three cores. The first two are two ways the repository runs the same
workers, and they share no process; the third is the memory under both:

* **Morphing** (`runtime/morphserve/`, driven by
  `reproduction/scripts/end_to_end_benchmark.py`): a threshold controller, an
  executor whose operations are meant to be transactions, and a coordinator.
* **Serving** (`swiftllm/server/`, `swiftllm/worker/`): the FCFS scheduler, the
  block managers of GPU and CPU and the event loops of the engine, with
  preemption by swapping, and with layers replaced inside the scheduler when
  `quant_serve` is on.
* **Memory** (`memory_manager.cpp`, `weight.py`, `quantized_layer_manager.py`,
  `kernels/kvcache_mgmt.py`, `kernels/paged_attn.py`): where weights of both
  precisions and blocks of the KV cache lie, which kernels address them, and
  what attention makes of what it finds there.

## 1. Inventory

### Morphing

| Component | State | Operations | Correct when |
|---|---|---|---|
| `MorphingController` (`controller.py`) | `quantized_layers`, two sample counters | `update(sample)`; the coordinator corrects `quantized_layers` | an action needs a full window of like samples, and none survives an action |
| `RealMorphingExecutor` (`real_executor.py`) | `active_layers`, the model's layers, the lent KV groups, the block manager's `num_blocks`, `num_free_blocks`, `is_block_free`, `poisoned` | `morph_to_w4`, `expand_kv`, `shrink_kv_before_restore`, `restore_fp16`, `recover_fp16` | each is all, nothing, or poisoned; no block of a live request moves; no FP16 layer lends its memory |
| `AdaptiveCoordinator` (`integration.py`) | its own `active_layers`, `poisoned` | `step(sample, queue_state)` | its list, the controller's count, the executor's list and the model agree after every exit |
| `AsyncLayerCopier` (`autoawq_adapter.py`), `MemoryManager` (`memory_manager.cpp`) | the copy stream, `layer_transfer_events`, `last_forward_event`, one GPU region per layer | `enqueue`, `wait_current`, `acquire_new_kvcache` | no memory is written while it is used; a pass finds the weights of the installed modules |
| Serving loop of the benchmark (`_run_requests`) | status, tokens, blocks and record of each request; the active ones | arrival, admission, decode selection, sample, pass, timeouts, cleanup | occupied blocks are those of active requests; each request ends once; no pass is served by a model in an unknown state |

Calls are synchronous: `step()` calls `update()`, then one or two executor
operations, then perhaps a compensation; the loop then runs a forward pass,
which allocates blocks from the pool the step has just resized. What is hard is
partial failure. Every copy, allocation and event record of every iteration may
raise, and so may those of the rollback and of the rollback's rollback. Under all of it the
GPU runs late: copies and zeroing are queued on two streams, and the host goes on
before they are done.

### Serving

| Component | State | Operations | Correct when |
|---|---|---|---|
| `Scheduler`, `RequestIdManager` (`scheduler.py`) | three queues, available ids, `num_decoding_gpu_blocks` | `on_requests_arrival`, `get_next_batch`, `on_batch_finish` | no request is lost or overtaken; ids have one owner; the batch fits the device |
| `BlockManager` (`block_manager.py`), one per device | `is_block_free`, `num_free_blocks`, the block table | `allocate_blocks_for_seqs`, `free_blocks_for_seqs`, `gather_allocated_blocks_and_free` | every block has one place |
| Layer replacement (`memory_utils.py`, scheduler branches) | `layer_quant_list`, `is_layer_quant_list`, `next_unquantized_layer`, `k_cache_new`, the pool | `org2quant_and_update_kvcache`, `quant2org_and_update_kvcache`, `try_quant2org` | the pool is what the lists say; no block in use is taken back; FP16 returns |
| `Engine` (`engine.py`) | raw requests, the batch in flight | arrival, tokenization loop, main loop | whatever raises, nothing is lost; every request ends |
| `LlamaModel` (`model.py`), `block_swapping.cpp` | KV cache contents on both devices | `forward`, `_swap`, `free_seqs_resources` | a request always finds its own KV cache |

The two loops are coroutines of one event loop: they interleave wherever one
awaits the model or the tokenizer. The scheduler decides before the awaits and
the block manager allocates after them. An exception is caught at the end of an
iteration, printed and forgotten; what the scheduler had already changed stays.

### Memory

| Component | State | Operations | Correct when |
|---|---|---|---|
| `MemoryManager` (`memory_manager.cpp`) | one GPU region per layer | `replace_layer_org2quant`, `replace_layer_quant2org`, `acquire_new_kvcache` | a layer reads its own weights; the tail it lends lies behind them |
| Weights and layer managers (`weight.py`, `quantized_layer_manager.py`, `memory_utils.py`, `autoawq_adapter.py`) | images of each layer in pinned memory, views into regions | registration, loading, `swap_layer_in_place`, `rebuild_original_layer`, `install_autoawq_layer`, `restore_fp16_layer` | views and images agree on the order and size of tensors |
| KV kernels (`kvcache_mgmt.py`) | the cache, original and lent | `store_kvcache`, `store_kvcache_explicit_regions` | a token is stored in the slot its table gives it, and nowhere else |
| Paged attention (`paged_attn.py`) | rows of partial results | phase 1 in its three variants, the mid phase, phase 2 | a sequence attends to all of its tokens and to no others |
| Transformer layers (`transformer_layer.py`) | two streams, `store_kvcache_event` | store, attend, finish | attention comes after the store |

Which kernels run depends on the order in which layers happen to lend: when the
groups follow each other downwards one layer apart, one kernel computes every
address from the first group (*combined*); otherwise each group gets a launch
of its own with a renumbered block table (*explicit regions*). The KV cache
outlives the decision: what was stored one way is read the other.

### Not modelled

* Reading AWQ checkpoints from disk (`autoawq_adapter.py:136-195` in part), the
  profiling of free memory, model loading, warm-up, the static modes and the
  summaries of `end_to_end_benchmark.py`: start-up code and output.
* `transfer_layer_to_gpu`, `free_layer_memory`, `check_continuity`,
  `store_kvcache_org_version`, `paged_attention_old_version`,
  `store_kvcache_performance_test`: nothing calls them.
* `profiling.py` (`LisRanking`), `replay.py` (`Replay`): planned.
* Projections, norms, rotary embedding, prefill attention and the feed-forward
  network: they compute on activations no other part reads.
* HTTP front end, tokenizer process, extension bindings, configuration, trace
  analysis, experiment scripts: I/O or straight-line code without state of
  interest here.
* `reproduction/vendor/`: the upstream sources the candidate is derived from.

`PROJECT.json` lists every component with its status, and every hazard found in
the code at its line with the properties that are about it.

## 2. Modules

```
Sublists            list comprehensions and slices, without recursion
 |- MorphExecutor             real_executor.py
 |   `- AdaptiveCoordinator   integration.py and the loop around it
 |       |- MorphingController    controller.py              (extended)
 |       |- AtomicMorphing        what a step promises       (refined)
 |       |- CoordinatorInvariant  the inductive invariant
 |       |   `- CoordinatorProofs
 |       |- SampleHistory         with a history of samples
 |       |   |- MCHysteresis          and CoordinatorInvariant
 |       |   `- HistoryProofs         and CoordinatorProofs
 |       |- AsyncTransfer         autoawq_adapter.py, memory_manager.cpp
 |       |   `- TransferInvariant     and CoordinatorInvariant
 |       |       |- MCAsyncTransfer
 |       |       `- TransferProofs        and CoordinatorProofs
 |       `- BenchmarkLoop         end_to_end_benchmark.py   (implements its Spec)
 |           `- BenchmarkInvariant     and CoordinatorInvariant
 |               |- MCBenchmarkLoop
 |               `- BenchmarkProofs    and CoordinatorProofs
 `- SublistTheorems           lemmas about lists, slices, sums and block tables

BlockManager            block_manager.py, kernels/block_mgmt.py
FcfsScheduler           scheduler.py, structs.py
 `- LayerReplacement    memory_utils.py, the quant_serve branches
     `- ServingEngine   engine.py, model.py, block_swapping.cpp;
         |              BlockManager twice (GPU, CPU)
         |- FcfsService     what the service promises       (refined)
         |- AtomicMorphing  what replacing layers promises  (refined)
         `- ServingInvariant    the inductive invariant, and the counts
             |- MCServingEngine
             `- ServingProofs       and SublistTheorems
                 `- ServingServiceProofs

LayerMemory             regions, images, views, lent tails
 `- KvAddressing        kernels/kvcache_mgmt.py
     `- PagedAttention  kernels/paged_attn.py
         `- LentMemory  passes and layer changes over one memory; BlockManager
             `- LentInvariant       the inductive invariant
                 |- MCLentMemory
                 `- LentMemoryProofs    and SublistTheorems
```

### Morphing

**MorphingController.** A smoothed sample is reduced to what the thresholds can
tell: pressure, recovery or neutral. The moving average in front of it is
abstracted, so every sequence of verdicts is possible, more than any stream of
measurements would give. `LayerDelta` is the command, `CountSample` what a
sample does to the counters. The coordinator commits or takes back
`quantized_layers`.

**MorphExecutor.** One variable per attribute; `call`, `k`, `phase`, `batch`,
`saved` and `ret` are the activation record of the running operation: which
operation, how many layers it has done, whether it is in its `try` body or its
`except` clause, its argument, its snapshot, and what it returned. One loop
iteration is one action (`MorphLayer`, `ExpandLayer`, `RestoreLayer`), one
iteration of a rollback is one (`MorphUndo`, `RestoreUndo`), and each outcome of
a line that raises has an action of its own (`MorphRaises`, `ExpandRaises`,
`ExpandRollbackRaises`, `RestoreUndoRaises`, `CallRecoverFp16NotSaved`, ...).
`expand_kv` appends a group to `kv_groups` before it allocates the flags of its
blocks. Where the allocation raises, the rollback hides that order; where the
rollback's event raises too, `ExpandLeavesGroup` leaves a group without blocks.
The state is therefore visible in the middle of an operation, although nothing
else runs then. Restoring the snapshot puts back the saved lists, flags and
counts as the code does. A layer is named by its position in `profile_order`.
`Unreclaimable` is the set of layers whose region the memory manager refuses to
lend. A copy that raises has not landed.

**AdaptiveCoordinator.** `Sample(signal)` is the head of `step()` up to the
first executor call, with the early returns as alternatives; `MorphReturned`,
`ExpandReturned`, `RollbackReturned` and `RecoverReturned` are what `step()`
does with each result. `Forward` and `Finish` are what the serving loop does to
the pool between steps, `Drain` its change to the cleanup loop, `StepDisabled`
the exception of a poisoned step, which ends the process. The forward pass takes
any set of lowest-numbered free blocks, at most as many as there are: an
abstraction of the serving loop, which `BenchmarkLoop` implements.

**AtomicMorphing** is the abstract specification: a step commits a batch with
its memory, releases an idle batch, changes nothing, or fails closed. The
refinement mapping hides the middle of a step: the list served and the list
lent are the coordinator's until `step()` returns, and the executor's own once
it has.

**AsyncTransfer** puts the GPU under the coordinator. Every action of the
coordinator is taken over as it is and conjoined with what its line of code
queues: `MorphCopies` is `MorphLayer` and an `Enqueue`, `ExpandQueues` is
`ExpandLayer`, the wait for the layer's copy and the zeroing of the lent memory,
`PassQueued` the kernels of a pass with the waits before each layer. `compute`
and `copies` are the two streams, `RunCompute` and `RunCopy` let the head of one
finish. An operation carries in `after` how many operations of the other stream
it still waits for, and an event (`pending[l]`, `last_forward`) is the same
number, so waiting for an event is copying a number. A region has a head and a
tail, since a W4 copy writes only the head and the zeroing and the KV blocks
only the tail; `region` is what they contain. `EnqueueRaises`, `ExpandBegun` and
`ReattachFails` are how far a line that raises may have got.

**BenchmarkLoop** is the loop itself, in place of the abstract one: one action
per stage of the body (`turn` says which is next), with `Admit`, `SelectDecode`,
`NothingFits` and `Sleep` as the four ways an iteration can go, and `Pass` or
`PassRaises` at its end. Arrivals and the passing of timeouts are seen only where
the coroutine awaits. The step in between is the coordinator's, action for
action. Allocation and release change the pool as `block_manager.py` does, and
`DrivesCoordinator` checks that this is a behaviour of `AdaptiveCoordinator`:
what is proved there is true here.

### Serving

**BlockManager.** Free blocks, the counter beside them, the block table. An
allocation takes the lowest-numbered free blocks in the order of the ids, as the
kernels do.

**FcfsScheduler.** `get_next_batch` is three guarded operators: `PrefillBatch`,
`PreemptBatch`, `DecodeBatch`. Its loops pop requests one by one while a bound
holds; since the amounts only grow, a loop moves the longest run that keeps the
bound (`Longest`). `ExtendLeft` reverses what it is given, as
`deque.extendleft` does.

Each takes the size of the pool it plans with, since replacing layers changes
that in the middle of a decision.

**LayerReplacement.** With equal layers a decision to replace is arithmetic:
`ReplacementNeeded` layers for the first request that finds no room,
`NumLayersToQuantize` of them replaced at once, and the admission loop goes on
with `PoolWith` that many. `Org2Quant` and `Quant2Org` are the runs of one-layer
calls a decision makes, since nothing runs between them. `RunsOutOfLayers` is
the call with layer -1 that ends the process. `KvCacheUnused` is asked for each
group to be taken back, newest first; `Restorable` counts how many pass.

**ServingEngine.** `AddRequest` and the three actions of the tokenization loop
may happen between any two stages of the main loop: `schedule`, `swap_out`,
`swap_in`, `forward`, `finish`. A stage is one action, since nothing that runs
during its await touches what the stage reads. `ForwardNotAllocated`,
`ForwardRaises` and the failing halves of `SwapOut` and `SwapIn` end the
iteration where the exception does and keep what was changed before it. The
contents of a block are the request and the block index it stores, so
`KvIntact` can say that a request reads its own cache. `CopiedIn` takes its GPU
addresses from where each copy function does. The observer `upset` remembers
what has come between a plan and its pass: blocks taken back
(`try_quant2org` after the count), or an iteration that raised before it;
`ReplacementMakesRoom` is about every other pass.

**FcfsService** is the abstract specification of the service: admission in
arrival order and never over the head of a preempted request, first tokens in
that order, one token per pass for everything that runs. `AtomicMorphing`, the
abstract specification of the morphing side, is implemented here a second time:
a position of the profile is a layer counted from the last one, and no step may
fail half-way.

### Memory

**LayerMemory.** Memory is a function from addresses to contents, and a cell
holds an element of a named tensor (`<<"w4", 2, "k_proj", 1>>`), a key or value
(`<<"k", <<sequence, position>>, layer>>`), or zero. `Fp16Image` and `W4Image`
are the buffers as they are packed, in the order the code packs them;
`Fp16Views` and `W4Views` what the attributes of a layer are bound to after a
change. The two are written in different files of the code and meet only in
memory: `WeightsReadBack` compares them cell by cell. `AcquireNewKvCache`
rounds, halves and zeroes as the C++ does. The sizes of the seven packed modules
are one constant, `PackedSize`.

**KvAddressing.** The two ways of computing an address, the writes of one store
with either, and `OwnAddress`, the reference no kernel computes.

**PagedAttention.** A partial softmax is a maximum, a scaled sum and the bag of
cells that went into it. Scores are small numbers and the exponential is
2^score, so the arithmetic is exact and rescaling by the running maximum is
kept. The intermediate buffers are functions from rows to partial results, made
by `torch.empty` (`Unwritten`), so a row nobody writes, or two write, shows in
the output. `Dense` is attention as it is defined.

**LentMemory** composes them: `MorphToW4`, `ExpandKv`, `ShrinkKv`, `RestoreFp16`
for any layer in any order between passes; a pass starts (`StartPrefill`,
`StartDecoding`), and each layer stores (`StoreKv`), attends (`Attend`) and hands
over (`FinishLayer`). `block_table` keeps stale entries behind the length of a
sequence and after its end, and the code asks the whole row whether a lent block
is used: `stale` is that answer when only stale entries would give it.

## 3. Runs

| Run | Checks | Distinct states |
|---|---|---|
| `morph_txn` | `ActsOnFullWindow`, `WindowInv`, `IInv`, `NeverDiverged`, `LentFromW4`, `CapacityConsistent`, `LiveBlocksKept`, `PoisonIsFinal`, `ImplementsAtomicMorphing` | 52475 |
| `benchmark_loop` | `BInv`, `HeldBlocksOccupied`, `OneRecordEach`, `ServedInOrder`, `NoServingOncePoisoned`, `DrivesCoordinator`, `EveryRequestRecorded` | 12841 |
| `async_streams` | `StreamInv`, `NoRace`, `RunsInstalledWeights`, `LentKvKept` | 6176 |
| `serving` | `KvIntact`, `ForwardFits`, `ImplementsFcfsService`, `EveryRequestFinishes` | 21672 |
| `serving_faults` | `SInv`, `NoRequestLost`, `BlocksAccounted`, `IdsAccounted` | 326894 |
| `quant_serve` | `CountsTell`, `ReplacementMakesRoom`, `KeepsRunning`, `ImplementsAtomicMorphing`, `PrecisionReturns` | 15652 |
| `lent_memory` | `LentInv`, `WeightsReadBack`, `KvReadBack`, `LentCellsHoldKv`, `LentTailsApart`, `CombinedReaches`, `AttendsWhereRowsAreMet` | 109020 |
| `swap_loses_kv` | `KvIntact`, violated | |
| `swap_in_combined` | `KvIntact`, violated | |
| `mixed_batch` | `AssertionHolds`, violated | |
| `mid_phase` | `AttendsToOwnTokens`, violated | |
| `late_copy` | `UnprovenIsPoisoned`, violated | |

`morph_txn` shows that the morphing side keeps its promise: whatever raises in
whichever iteration of an operation, of its rollback or of the compensation, the
step is atomic or fails closed. The bookkeeping of coordinator, controller,
executor and model agrees at every exit; the block manager's three attributes
agree with each other at every instant. With the lent groups they agree unless an
exception left `expand_kv`: then one group at most lacks its blocks, there are
never blocks without their group, and the step ends poisoned
(`CapacityConsistent`). A live block is never touched; memory is only ever lent
by W4 layers. `ActsOnFullWindow`, stated over a history of samples that `SampleHistory`
adds, shows that the two windows do what they are for, also when an action was
rolled back or refused.

The invariants of the proofs are checked where they could most easily fail:
`IInv` and `WindowInv` in `morph_txn`, `BInv` in `benchmark_loop`, `StreamInv` in
`async_streams`, `SInv` in `serving_faults`, `CountsTell` in `quant_serve`, `LentInv`
in `lent_memory`. `SInv` and `LentInv` contain the `TypeOK` of their modules,
`StreamInv` contains `StreamTypeOK`, `IInv` implies its `TypeOK`, and `BInv` has the
type of every variable of the loop as its first part.

`benchmark_loop` shows that the loop is one of those the coordinator was checked
under, that its blocks, records and statuses stay in step through timeouts,
morphing and recovery, and that every request ends: by its last token, by a
timeout, or by an exception that ends the loop. Such an exception can happen: a
batch is fitted to the pool before `step()`, which may shrink it
(`end_to_end_benchmark.py:401-418`). The frozen configuration stays clear of it,
as its five requests of 96 blocks fit the 512 base blocks.

`async_streams` shows that the ordering by hand is enough: the rollback event of
a failed expansion, the waits of a failed recovery, the wait of every layer at
its first use and that of every copy for the last pass, in any interleaving of
the two streams. Taking any one of the first three away breaks a property.

`serving` shows first come, first served service with intact caches through
repeated preemption, when there are CPU blocks enough and passes succeed, and
that every request ends. `serving_faults` drops both assumptions, replaces
layers and may call `exit()`: still nothing is lost, leaked or owned twice, and
the scheduler's pool is the block manager's.

`quant_serve` asks what replacing layers is for. Replaced layers make the room
the decision was taken for, also when the last group is only partly needed;
`KeepsRunning` shows that the guard before the aggressive loop keeps it within
the layers left in this configuration; no group is taken back with a block in
use; and once all requests are served every layer returns to FP16 or the next
request comes, although restoring happens only when the scheduler is asked for a
batch and only for groups that are free.

`lent_memory` shows that registration, images and views agree through any
sequence of replacements, that a lent tail never overlaps weights, that the
decision for the combined kernels is right each time it is taken, that KV stored
through one kind of kernels is read through the other, and that attention over
all of it is attention: except where the mid phase merges wrong rows, which
`mid_phase` shows.

### What the code does otherwise

* **A preemption may lose the KV cache** (`swap_loses_kv`). `_swap` releases the
  GPU blocks (`model.py:527`) before it allocates CPU blocks (528). With too few
  of them it raises; nothing compares a preemption with the free CPU blocks.
* **A swap in copies to the wrong blocks** (`swap_in_combined`).
  `swap_blocks_new_kv_combined` takes the GPU address from the source block id in
  both directions (`block_swapping.cpp:156`); on a swap in that is a CPU block.
* **The mid phase merges wrong rows** (`mid_phase`). `paged_attn.py:642` lacks
  the factor `num_q_heads`: with more than one sequence and more than one head,
  rows coincide and others are never merged. The test of explicit regions has one
  sequence and one head.
* **A copy may land that the rollback does not know of** (`late_copy`).
  `enqueue` queues the copy before it creates and records its event; when that
  raises, the caller takes the layer for untouched. Its region is overwritten,
  its module stays installed and nothing is poisoned
  (`autoawq_adapter.py:54-56`, `real_executor.py:135`).
* **A batch loses the blocks it was counted on** (`mixed_batch`). `try_quant2org`
  runs after the count (`scheduler.py:175`). The pass raises, the exception is
  printed, and the batch is in `running_q` without tokens; the next batch mixes
  both stages, `forward()` takes the wrong requests for prefills, and the
  assertion at `block_manager.py:95` fails in every iteration that follows.

Divergences that are translated as they are and have no run of their own:

* After the step that poisons the coordinator the loop still runs the pass of
  that iteration (`end_to_end_benchmark.py:415-418`), against
  `integration.py:41`; `NoServingOncePoisoned` says that it is the last one.
* `newly_swapped_out` is in arrival order and `extendleft` (`scheduler.py:215`)
  reverses it, against the comment at line 49.
* With more CPU blocks than GPU blocks in use, `model.py:531` takes the copy for
  lent regions and indexes an empty list while none is lent (`CopyRaises`).
* The comment at `scheduler.py:120` calls a replacement of the last layer valid;
  the loop at 129 ends the process when fewer than `num_layers_to_quantize` are
  left (`ScheduleExits`).
* `infer_state.py:15` says `num_prefill_tokens` where `model.py:461-464` puts
  `num_tokens`; they differ in mixed batches only.

### Bounds

`CountBound` stops the sample counters, which grow without bound while the
controller sits at a limit. It lies at or above both windows, so every window
can fill. Elsewhere the models are finite by themselves.

* `morph_txn`: five layers and actions of two, so the controller acts twice in
  full and then asks for two layers where one is left, which the step takes back;
  groups of two blocks, so a group can be half in use; one base block. Batches of
  two suffice for a rollback of a rollback. The profile is shorter than the
  maximum, and the two windows have different lengths.
* `benchmark_loop`: three requests of which two may be active, on two base
  blocks and one lent: each needs a second block halfway, so that batches are cut
  short, nothing fits, and a shrink takes the block a batch was fitted to.
* `async_streams`: three layers and actions of two, so that a batch of two and a
  single layer follow each other, and layer 3 cannot lend, so that an expansion
  is also refused without an exception; `CopyQueueBound` is 4, the copies of a batch
  and of its complete rollback with the streams standing still, or two batches
  one after the other. Windows of one sample, since `morph_txn` is about longer
  ones. `late_copy` needs one layer.
* `serving`: three requests, three GPU blocks of two tokens: prompts of one and
  two tokens, outputs of one and four, so that all three are admitted, outgrow
  the device, are preempted singly and in pairs, return, and end in any order.
* `serving_faults`: two ids for three requests, so that ids are reused; one CPU
  block, so that swaps fail; one raising pass; outputs of one, three and five, so
  that requests end at many points; five layers replaced three at a time, so that
  the second time two are left and the process exits.
* `quant_serve`: two GPU blocks, three layers that lend one block each, two
  replaced at a time: one replacement in full, one more on decoding, groups taken
  back one and two at a time, and requests that outgrow the original pool.
* `lent_memory`: three layers, the fewest whose groups can follow each other
  downwards or not, and of which one lies between two others; one block of two
  tokens in the original cache and one per layer, so every sequence soon crosses
  into lent memory; two requests of one and four tokens growing to five, two seq
  blocks each; two heads. The sizes leave padding before the aligned tail. Every
  order of lending, of layer changes around passes and of ends occurs.
* `swap_in_combined`: one layer replaced at the start (`awq_mode`) and ten CPU
  blocks, so the copy for lent regions is taken and finds a group.

### Fairness

Safety is checked without any. `EveryRequestRecorded` is checked under
`FairBenchSpec`: the coroutine of the loop goes on (weak fairness of an
iteration), and at its awaits asyncio runs the timers that are due (strong
fairness of arrivals and timeouts, which are enabled only there). `EveryRequestFinishes` is checked under
`FairSpec`: weak fairness of the tokenization loop and of the main loop. asyncio
runs every ready coroutine, and `run_in_executor` and the tokenizer's remote
call complete what they are given. There is none on arrivals, none on failures,
and none on any single branch of a loop. `EveryRequestFinishes` is about requests that could be served alone (`Servable`):
the scheduler never rejects the others, and they block the queue, which is listed
as a hazard. `PrecisionReturns` is checked under `FairSpec` too. `lent_memory` has
no liveness: how long a pass takes is not its subject.

### Assumptions of the models

* A copy that raises changes nothing at its destination; a pass that raises
  leaves the KV contents as they were (its retry writes the same slots).
* In `AsyncTransfer`: the host waits for a pass, since it reads the tokens back;
  `shrink_kv_before_restore` waits for the compute stream, since it reads
  `is_block_free` back from the device; the copy stream runs in order, so waiting
  for the layer's previous copy adds nothing; the default stream does not order
  the copy stream, which PyTorch creates as non-blocking. The stream on which a
  layer overlaps attention with its projections is waited for at both ends and is
  part of that layer's kernel. In `async_streams` an enqueue that raises may raise
  before its copy only (`EventsMayFail` is off); `late_copy` is about the rest.
* Free blocks are handed out lowest number first (`torch.nonzero`).
* `MaxSeqs >= MaxBatchSize`, as in the defaults (4096 and 512), so `get_id()`
  finds an id.
* Prompts and outputs have at least one token; the raw requests of a batch are
  all text or all token ids.
* In the models of morphing, derived attributes (what `_sync_model_state` copies)
  are not kept: each is a function of the ones that are. `LentMemory` keeps
  `explicit_kv_regions`, since the decision is one of its subjects.
* All layers have the same size, as in the supported models; in `LentMemory`
  layers change between passes and a copy is complete when it returns
  (`AsyncTransfer` is about copies under way, `MorphExecutor` about failures).
* In `PagedAttention` an element is one number; scores, exponentials and sums
  are exact; the maximum of a fresh row is below every score.
* A forward pass over an empty batch, after everything was preempted, changes
  nothing.

## 4. Proofs

TLAPS proves the following for every number of layers, requests and ids, every
batch size, every window, every pool on either device, every set of layers that
cannot lend, and every layout: sizes of tensors, blocks, alignment. The
assumptions are those the modules name, and TLC evaluates them:
`ControllerAssumption`, `ExecutorAssumption`, `LoopAssumption`,
`SchedulerAssumption`, `ReplacementAssumption`, `EngineAssumption`,
`LayoutAssumption`, `AttentionAssumption`, `LentAssumption` and
`StreamAssumption` say that the
constants are numbers or sets of the right kind, that there are ids for a batch,
and that the layers replaced at once are no more than there are; `PackedFits`
says that a packed layer is no larger than its region, which the code checks
before it copies.

| Theorem | Module |
|---|---|
| `ListsAreRuns`: `Spec => []ListInv` | `CoordinatorProofs` |
| `SpecNeverDiverged`, `SpecLentFromW4` | `CoordinatorProofs` |
| `SpecIInv`, `SpecTypeOK`, `SpecCapacityConsistent` | `CoordinatorProofs` |
| `SpecLiveBlocksKept`, `SpecPoisonIsFinal` | `CoordinatorProofs` |
| `SpecImplementsAtomicMorphing` | `CoordinatorProofs` |
| `HistoryIsCoordinator`, `HistoryKeepsWindow`, `HistoryActsOnFullWindow` | `HistoryProofs` |
| `AsyncStreamTypeOK` | `TransferProofs` |
| `AsyncStreamInv`, `AsyncNoRace`, given `~EventsMayFail` | `TransferProofs` |
| `AsyncRunsInstalledWeights`, `AsyncLentKvKept`, given `~EventsMayFail` | `TransferProofs` |
| `BenchInvariants`, `BenchTypeOK` | `BenchmarkProofs` |
| `BenchHeldBlocksOccupied`, `BenchOneRecordEach`, `BenchServedInOrder` | `BenchmarkProofs` |
| `BenchDrivesCoordinator`, `BenchCoordinatorCorrect`, `BenchNoServingOncePoisoned` | `BenchmarkProofs` |
| `ServingInvariantHolds`, `ServingTypeOK` | `ServingProofs` |
| `ServingLosesNoRequest`, `ServingBlocksAccounted`, `ServingIdsAccounted` | `ServingProofs` |
| `ServingKeepsRunning`, given `NeverOneTooMany` | `ServingProofs` |
| `ServingImplementsAtomicMorphing`, given `AwqLayers = 0` | `ServingProofs` |
| `ServingCountsTell`, `ServingMakesRoom` | `ServingServiceProofs` |
| `ServingImplementsFcfs`, given `[]Undisturbed` | `ServingServiceProofs` |
| `ServingForwardFits`, given `~QuantServe` | `ServingServiceProofs` |
| `ServingKvIntact`, given `[]PlainSwapIns` | `ServingServiceProofs` |
| `ServingKvStaysIntact`, given `~QuantServe` and `AwqLayers = 0` | `ServingServiceProofs` |
| `SpecGroupsInv`, `SpecLentTailsApart`, `SpecCombinedReaches`, `SpecSlotsApart` | `LentMemoryProofs` |
| `SpecLentInv`, `SpecLentTypeOK` | `LentMemoryProofs` |
| `SpecKvReadBack`, `SpecWeightsReadBack`, `SpecLentCellsHoldKv` | `LentMemoryProofs` |
| `SpecAttendsWhereRowsAreMet` | `LentMemoryProofs` |

Some theorems have a hypothesis, each because the claim is false without it.

* `~EventsMayFail`: creating and recording a CUDA event does not raise. Where it
  does, a copy is under way that neither the rollback nor an event knows of, and
  all three properties of the streams are false (`late_copy` shows what is left of
  the rollback). Every other line may still raise.
* `NeverOneTooMany` says
  `NumLayersToQuantize <= 2 \/ NumLayersToQuantize <= NumLayersToQuantizeMax + 1`;
  the defaults are 1 and 0 (`engine_config.py:17-18`). `serving_faults`, which
  replaces three layers at a time, reaches `exit()`.
* `AwqLayers = 0` leaves out `awq_mode`, in which layers are replaced before the
  engine starts: the abstract specification of morphing starts with none, and
  the swaps of such an engine lose KV (`swap_in_combined`).
* `Undisturbed` says that no iteration of the main loop has raised. After an
  exception requests keep tokens they never got blocks for, and an engine with too
  few CPU blocks loses their KV (`swap_loses_kv`). `ServingForwardFits` and the
  two theorems about KV have it inside the box: they say what holds up to the
  first exception of a behaviour, whatever comes after.
* `~QuantServe`, for `ForwardFits`: restoring layers takes blocks away that a
  planned batch was counted on, so a pass of an engine that restores may raise.
  What remains there is `ServingMakesRoom`.
* `PlainSwapIns` says that a swap back from the CPU meets no lent block, or that
  there is no lent group: `swap_blocks_new_kv_combined` takes the GPU address of
  such a copy from the wrong number. The condition is about the state at the swap
  only; `ServingKvStaysIntact` names configurations that always meet it.

### The coordinator

**Why a stronger invariant.** `NeverDiverged` speaks only about the time between
two steps, so it says nothing of the states in which a step is under way, and
`LentFromW4` does not follow from itself: a recovery returns layers to FP16 and
relies on their groups having been popped before. `IInv`, in
`CoordinatorInvariant`, is the conjunction of two parts.

*`ListInv`.* Every list in the program is a run of consecutive profile
positions: upwards in `active_layers`, `coord_active`, `kv_groups` and a
selection under pressure; downwards in a recovery or a rollback. So a state is
determined by the lengths of its lists. For each point of a step (`MorphingInv`,
`ExpandingInv`, `RollingBackInv`, `RecoveringInv`, `AtRestInv`) the invariant
gives the arithmetic between the lengths, the progress `k` and the result
returned. `SublistTheorems` turns the list operations of the code (slices,
comprehensions, concatenation, reversal) into that arithmetic; it is done with
functions rather than recursive operators for that reason.

*`PoolInv`.* The block manager's three attributes agree with the number of lent
groups (`AllBooked`) or with one group fewer (`NewestLacksBlocks`). The latter is
limited to the states after an exception left `expand_kv` (`MayLack`). Its steps
end poisoned because the restore that is to compensate finds the newest layers
still lent and is refused; so no operation starts from such a pool
(`CallsAreBooked`) and no snapshot is taken of one. While a snapshot is held its
attributes agree too and mark the same blocks as used. That is why reattaching the snapshot is harmless: nothing runs
between taking and restoring it. The arithmetic is about cardinalities of used
blocks under appending, cutting and marking.

**Layout.** The first part of `CoordinatorProofs` has one lemma per action: it
keeps `ListInv`. The second shows the same of `PoolInv`, given `ListInv`, and that
steps of an operation leave the used blocks alone, from which the two action
properties follow. Its last section shows that each step maps to an atomic one
or a stutter: the last action of a step is `Commit`, `Release`, `FailClosed` or
nothing, the others are invisible. That needs one more invariant,
`BatchBounded`: no step selects more than `LayersPerAction` layers.

### The sample windows

`ActsOnFullWindow` is about the past: the samples before an action all asked for
it. The counters remember the past only as a number, so `WindowInv` says what
the number means: the last `pressure_count` samples asked for pressure, the last
`recovery_count` for a recovery, and during an action both are zero, since the
controller resets them before the executor is called. `HistoryIsCoordinator`
says that a behaviour with its history is one of the coordinator, so `IInv` holds.

### The streams

`NoRace` is about the heads of the two streams, and which operations get there
together is decided when they are queued. `StreamInv`, in `TransferInvariant`,
speaks of every pair (`StreamOrder`). Two operations on the same memory are ordered in one of two
ways: the later one waits itself, or it is queued behind something of its own
stream that waits far enough (`CopyFirst`, `ComputeFirst`). From this:

* `PassIsLast`, `PassFindsLayers`: only the pass the host waits for has kernels on
  the stream, at its end, each behind every copy into what it reads or stores.
* `CopiesCovered`: whatever the compute stream does not wait for yet has its
  event registered. So the wait at the first use of a layer is enough, although
  an event is taken off the list by whoever waits first.
* `LentCopiesWaited`, `ZeroesOfLent`, `ZeroesOrdered`: the copies into a region
  that is lent are waited for, and a zeroing that `last_forward_event` does not
  cover is of a region still lent, into which no FP16 copy is queued: which is
  what the rollback event is for.
* `WillBeInstalled`, `WillBeStored`: the last copy queued for a layer is that of
  the installed module, and a tail with blocks of requests has nothing queued that
  would overwrite it.

Each step of the coordinator is still one here (`AsyncIsCoordinator`), so `IInv`
holds and says which layers can be lent, morphed or restored next. A step of a
stream takes one from every wait for it, and the orders are kept because both
sides are counted from the head. The layers of a batch that is restored are not
lent (`CopiedIsNotLent`), and those of one that is reattached have been waited for
first: that is where the recovery relies on its waits.

### The benchmark loop

`BenchDrivesCoordinator` says that the loop, with its own admission, allocation
and timeouts, is an environment the coordinator was proved for, so
`BenchCoordinatorCorrect` carries the theorems above over to it. A pass of the
loop is a `Forward` of the coordinator only if the blocks it takes are the lowest
free ones and no more than there are, and an end is a `Finish` only if the
blocks freed were occupied: so the refinement needs to know which request holds
which blocks, and `BInv` is kept together with `IInv`, each step using both.

`BInv` relates the stage of the loop (`turn`) to the point of the step the
coordinator is at (`TurnsTaken`), the status of a request to the list it is in
(`StatusTells`, `PassingTells`), and its tokens to the blocks it holds
(`BlocksHeld`). The part that is easy to get wrong is `TokensLeft`: with an
output length of 1 a request is still decoded once after its prefill, so
"an active request has tokens left" is false, and what is kept instead says when
it may have none. `InOrder` is stated over statuses rather than records, since
a timeout may record a request before an earlier one.

### The serving engine

`NoRequestLost`, `BlocksAccounted` and `IdsAccounted` are about the state
between any two steps of three interleaved loops, after any exceptions, and none
is inductive. `SInv`, in `ServingInvariant`, is what they follow from:

* `PendingInOrder`: whatever lies before the scheduler is, read in order, the
  last requests to arrive, without a gap. So admission, by however many requests
  at once, is a cut in a run of numbers, and the same lemmas about runs apply as
  for the coordinator.
* `FlightTells`: a request is running or swapped exactly from its admission to
  its end. In the stage `finish` a finished request of the batch is still there;
  nowhere else is a finished request in a queue.
* `BatchTells`: the batch of an iteration stays where its plan has put it. After
  an exception there is no batch, and its requests are still in the queues.
* `IdsTell`, `DevicesTell`: an id is available or belongs to one request, and has
  blocks only on the device its request is on. A preemption or a return counts as
  done for the queues when it is scheduled and for the device when it is carried
  out, so which device that is depends on the stage (`OnGpuNow`).
* `GPU!EveryBlockHasOnePlace`, `CPU!EveryBlockHasOnePlace`: kept by allocation,
  release, growing and shrinking of a device. `SublistTheorems` proves this of
  `BlockManager` once, and both instances use it.
* `LayersTell`: the layers replaced are the last ones, newest lowest, and the
  pool is what they lend. `ServingImplementsAtomicMorphing` follows from it: a
  decision adds to the end of the list of layers and takes from it, and a group
  taken back has no block in use.

**The counts.** `ReplacementMakesRoom` is about a number the scheduler keeps by
itself, `num_decoding_gpu_blocks`, and a table it never looks at: the pass
allocates two awaits after the decision. `CountsTell` connects the two, as long
as no iteration has raised. Each request holds the blocks of its tokens, on the
device it is on (`RowsCount`); a batch is all prefills or all decodes
(`BatchCounts`); the account covers what the running requests will hold once the
planned batch has its blocks (`WillHold`); and the pool covers the account, unless
layers were restored after the count (`AccountCovers`). In between the account is
an upper bound only: it drops with a preemption at once, but an end of a request
is seen when the batch is over. From that the room follows in two steps: the
free blocks and the rows make up the device (`DeviceAdds`), so what is free is
the pool less what is held, and what a batch lacks is what it will hold less
what it holds (`BatchLacks`).

**The service.** `FcfsService` knows who is admitted and who is preempted, and
nothing else of the engine. `SInv` gives both back: admitted are the first
`NumAdmitted` arrivals, since who has an id is who was admitted (`IdsTell`), and
what the service calls unfinished is what is in flight (`UnfinishedFly`), except
while a batch ends, which is not seen from outside. So a plan that admits is
`Admit`; one that moves requests either way between the queues is `Swap`, and
who is swapped is in flight and thus unfinished. A pass is `Prefill` or `Decode`
because of `BatchCounts`: that a batch is all who have no token or all who run is
not a test anywhere in the code, but the outcome of the order in which the
scheduler asks its questions.

**The contents.** `KvIntact` speaks of blocks of unfinished requests, and to be
inductive it has to speak of all blocks of all rows: `KvKept` says that the i-th
block in the row of r, on the device r is on, stores `<<r, i>>`. `RowsCount` then
says that the row is as long as `KvIntact` asks. Of each action one has to show
that no row but the intended ones has a block written:

* A pass writes through the new table. One place for each block
  (`GPU!EveryBlockHasOnePlace`) makes the writer of a block unique
  (`KvAfterPass`), so a block either gets what its own sequence writes, or is in
  no row of the batch and keeps what it had. A decode writes one slot; that all
  blocks it does not write were there before is arithmetic on the boundary
  between two blocks (`CeilDivStep`, `ForwardRows`): a token more opens a block
  exactly when those before it fill theirs.
* A swap gathers the rows of several requests into one list, allocates that many
  blocks elsewhere and copies by position. `GatheredPlaces` and `Allocation` say
  that the k-th block of the list and the k-th one handed out belong to the same
  place of the same row (`CopiedRows`).
* A layer replaced zeroes its group; groups are above the pool the rows lie in
  (`PoolKv`). A layer restored takes blocks away, and they are free.

Sums are folds, defined by recursion over the parts of a finite set, and no
induction over data is available. `SublistTheorems` proves `SumIsTally` all the
same: a sum of naturals is the number of pairs `<<x, i>>` with `i` from 1 to
`f[x]`. The subsets for which it fails form a set, and a smallest one of a
finite set leads to a contradiction. The sums of a disjoint union, of an enlarged
function, of a renamed domain are then facts about cardinalities.

### Lent memory

`LentTailsApart` and `CombinedReaches` follow from `GroupsInv`,
which says how the groups came about: distinct layers running W4, each group what
`AcquireNewKvCache` makes of its layer, all of one size, and
`explicit_kv_regions` what `ExplicitNeeded` says of them. The code decides by
comparing addresses of keys only; that the values and all slots then follow the
stride is the lemma `GroupsStride`. `SpecSlotsApart` is stronger than what the run
checks: addresses are injective over tensor, group, block, layer and offset, and
none falls among installed weights. Its arithmetic is division with remainder
(`Digits`) and the disjointness of regions, tails and the original cache.

**The contents.** What the memory holds between passes says too little to be
kept by a pass: it stores layer after layer, and the token it is about is in no
slot of the layers it has not reached. `LentInv`, in `LentInvariant`, speaks of
every instant:

* `WeightsInPlace`: each region starts with the image of what is installed.
* `KvInPlace`: a token is in its slot of a layer unless the pass under way has
  yet to store it there (`StoredBy`).
* `LentCellsHoldKv`, `GroupsInv`, and `PassInv`: the requests of a pass are live.
* `TypeOK`: one place for each block, and as many blocks in the row of a request
  as its tokens need.

In the proofs it has a form without the cardinalities of the block manager's
`TypeOK` (`MemoryInv`), and `MemoryInvIsLentInv` shows the two to be the same. Of
each step one has to show that it writes no cell somebody relies on:

* A layer change writes its own region. `SpecSlotsApart` keeps the slots of all
  blocks in use out of installed weights, and a layer that lends is neither
  replaced nor restored. An expansion zeroes a tail no block of which is in a
  row yet; a shrink takes blocks that are free, so no slot of a token moves.
* A pass starts by allocating. Rows grow at their ends and free blocks are in no
  row, so tokens stored before keep their addresses (`PoolAllocates`), and those
  the pass is about are exempt until it stores them.
* A store writes the slots of its tokens (`WritesAreSlots`): through the combined
  kernels, because `CombinedReaches` makes their address the one in the own group;
  through the explicit ones launch by launch, each block belonging to exactly one
  launch (`LaunchOfBlock`). Two tokens of two requests, or of one, have different
  slots (`TokensApart`): one place for each block, and a block holds `BlockSize`
  tokens in a row. So what is read after the store is what it wrote.
* The end of a request takes its row only.

**The weights.** `SpecWeightsReadBack` follows from `WeightsInPlace` and from what
an image is: `FlattenSeq` of nine tensors, read through offsets that `FoldLeft`
adds up. Both are recursive functions of the library. A recursive function is a
`CHOOSE`, so one first shows that some function satisfies the recursion; then
the smallest index at which it differs from the expected value leads to a
contradiction (`FlattenPlaces`, `OffsetIsStart`), as for `SumIsTally` above. The
view of `up_gate_proj` is the case that needs more: it reads two tensors as one
(`UpGateRead`), which is right because they were registered one after the other.

**The attention.** `SpecAttendsWhereRowsAreMet` follows the partial results
through the kernels. `PartOf` says what a partial result should be as a function
of the set of cells that went into it, a key and a value for each token: the
largest score, each cell weighted by its own, and the sum of the weights.

* A step of phase 1 turns the part of a set into the part of that set and the
  cells it reads (`AbsorbAdds`), because rescaling by powers of two is exact
  (`Rescaled`) and no cell is read twice; so does a loop over blocks
  (`SeqBlockAdds`). That powers of two are positive numbers needs induction, which
  is had from counting subsets (`PowerOfTwo`); folds are compared through the
  smallest set or index at which they would differ (`FoldsAgree`).
* The combined kernel reads each block where it is because of `CombinedReaches`
  (`CombinedMidIs`). The others add to a buffer launch by launch, and after each
  launch a row holds the blocks of the groups launched so far (`LaunchAdds`,
  `BuffersAre`); each block is in exactly one.
* The mid phase copies every row if there is one sequence or one head
  (`MidPhaseCopies`): the case the property asks for, and the code is wrong in
  the other (`mid_phase`). Either way row and tokens of a program agree (`MidIs`).
* Phase 2 merges parts like phase 1 (`MergeAdds`), and the seq blocks of a
  sequence tile its tokens (`SeqBlocksTile`), so what comes out is `Dense`
  (`AttentionIsSoftmax`).

What is read are the keys and values of the tokens because attention comes after
the store: `KvInPlace` holds without exemption once the pass has stored. The
inductive invariant is `MemoryInv /\ AttentionInv`, and the latter says that there
is an output only between the attention of a layer and its end.

### Only model-checked

All liveness (`EveryRequestRecorded`, `EveryRequestFinishes`,
`PrecisionReturns`), which is beyond the prover. Every invariant and action
property of the passing runs is a theorem above, some under the hypotheses named
there.

## 5. Plan

* **`LisRanking`**, **`Replay`**: the greedy ranking against a reference
  definition, and the accounting of arrivals and timeouts.
