# A TLA+ model of MegaBake

MegaBake compiles a PyTorch function into one persistent CUDA kernel (a *megakernel*): it captures the function
as a graph, lowers it to regions with a body each, schedules the regions as phases, assigns storage, generates a
CuTe kernel that every CTA of a cooperative launch runs in lockstep of grid barriers, and binds the compiled kernel
to a callable that launches it on a stream.

What is hard about it is not a single function: it is that a *plan* made by sequential compiler code has to be safe
for every interleaving of CTAs that synchronise through a few device words, across calls, resets, launches prepared
ahead and CUDA graph replays, none of which the host sees happen. The specifications in this directory model that
core, the compiler that makes the plans, and the programs the plans run. All paths below are relative to
`src/src/megabake/` unless they start with `src/`.

## Inventory

| Part | State it keeps | Operations | Interacts with | Correct when |
|---|---|---|---|---|
| Grid barrier on a release flag (`runtime.py` `grid_barrier`, `cooperative_worker_loop`; `compiler.py` `forward`) | `ready[workers]` (flag), `ready[workers+1]` (arrivals), `next_epoch` of the callable | arrive, clear, release, poll; launch, reset | CTAs through the words, host through the stream | barriers separate intervals, no stale release, every barrier opens |
| Counting grid barrier (`counting_grid_arrive/_wait`, the generated kernel's ordinals, `_wrap_calls`) | one word that only grows, a call counter | arrive, wait, next call, reset | as above | same, within int32 |
| Table-launch runtime state (`compiler.py` `_RuntimeState`, `GraphedCall`; kernel prologue in `codegen.py`; bindings from `memory.py`) | `_calls`, `_prepared_calls`, `_calls_run`, root pointers and slot distances of the last binding, the address mirror, the ring with its events, graph rings, `next_epoch`; device call counter and address table | `rebind` in full or from roots, upload, `prepare_launch`, `run_launch`, capture, replay, `_wrap_calls`, `reset_ready`; kernel: read call, check, copy, advance | host and device through pinned memory, events and the stream | each kernel finds each operand where the tensors of its own call have it; host and device number calls alike |
| Dependencies and phase schedule (`schedule.py`) | none (pure) | `derive_dependencies`, `make_phase_schedule`, `_fold_small_intervals`, `simulate_phase_schedule` | its plan drives storage and code generation | independent regions share an interval; folding moves work without breaking it |
| Workspace storage (`memory.py`) | none (pure) | `assign_storage`, `verify_plan` | lifetimes come from the schedule | values alive together share no bytes on any CTA's timeline |
| Megakernel execution (`codegen.py` table kernel) | phase and tile of each CTA, memory | phase loop, tile rotation, recompute phases, interval barriers | plan, storage, barrier | reads find producers' values; outputs are complete |
| GEMM phases (`bodies/cuda/sm90/cutlass_gemm.py`, `codegen.py`) | shared-memory stages with full and empty mbarriers, the tag of the stream, phase scratch, one counter per split tile | load, land, multiply, hand over a stage, stream weights ahead, publish a split, sum, reset | warps of one CTA; CTAs of one phase; phases through the stream | each product is of its own phase's operands; each split is summed once; counters rest at zero |
| Region events and tile events (`schedule.py` `make_region_event_schedule`, `make_event_schedule`; `planner.py` `make_tile_maps`; `wait_for_event`, `publish_event`, `execute_event_plan`) | one growing word per event, `next_epoch` | wait, publish, call, wrap | as for barriers | consumers run behind the producers of the elements they read, of the same call; calls end |
| Decode attention chunk exchange (`bodies/cuda/sm90/attention.py`) | two counters per row, statistics and partials in phase scratch, the caches | publish, wait, combine, reset, append | CTAs of one phase, without a grid barrier | statistics and partials complete; counters zero for the next phase; each row once; the new key once; nobody waits for ever |
| KV length publication (`codegen.py`) | the cache's length tensor | block 0 adds one behind the closing barrier | readers of the interval | readers see one length per interval |
| Plan search and admission (`plan.py`, `compiler.py` `compile_plan` and the evaluator) | candidates, budget, deadline, workers seen, private copies of the caller's state | preflight, reference, try, compile, admit, call, compare, time, choose | CUDA occupancy; the caller's state | a legal plan or an error; the kernel was made for the grid it is launched with; the caller's state is untouched |
| Plan cache (`cache.py`) | entries, lock | get or compile | threads | one compilation per key at a time, none overlapping, nothing left behind by a failure |
| Length buckets (`buckets.py`) | compiled function per bucket, verified set | choose, pad, verify, call | compiler | smallest bucket that holds the length; padding compared before it is trusted |
| Frontend (`frontend.py`) | the captured graph | common-subexpression elimination, fallback to Inductor | AOT autograd, compiler | merged operators meant the same; no fallback behind a call with effects |
| Lowering, fusion, body selection (`lowering.py`, `regions.py`, `ops/*`, `planner.py`) | none (pure) | one indexed program per operator; fused candidates; covers and their order | graph in, regions out | the regions compute what the operators mean |
| Generic bodies (`bodies/cuda/generic.py`) | threads' accumulators, warp scratch | tiles of maps, staged reductions, guarded loads | threads of a CTA, CTAs | every output element is what its program says, once |
| FX handlers, command line, vendored CUTLASS | - | - | - | not in scope, see below |

The behaviours that are hard: the two-step clear and release of a barrier while other CTAs already poll; equality
against a flag that outlives launches; int32 counters that grow for the life of a process; a host counter that has
to mirror a device counter through calls prepared ahead, replays the host only hears of, and resets that are
enqueued behind kernels; addresses derived from what an earlier call left; CTAs that may be in different phases of
one interval when bytes are released, reused, or written in place; a producer warp that fetches operands of phases
whose barrier has not opened; event words that are never cleared; a compiler that calls candidate kernels on copies
of the caller's state and may fail at every step. `PROJECT.json` lists each at its line, with the properties that
would catch it.

## Modules

| Module | Models | State ↔ code |
|---|---|---|
| `GridBarrier` | the abstract promise of a grid barrier: a CTA leaves barrier *k* only after all arrived at *k* | barriers each CTA arrived at and left, numbered over launches and resets |
| `FlagBarrier` | parameter launches | `flag` = `ready[workers]`, `arrivals` = `ready[workers+1]`, `epoch` the kernel argument, `nextEpoch`/`reset` the callable; `Arrive`, `Clear`, `Release`, `Poll` are the atomics of `grid_barrier`, one step each; `FinishPhase` and `Exit` the worker loop; `Launch` and `ResetReady` the host and the stream |
| `CountingBarrier` | barriers of table launches | `counter` = the growing word, `call` = number of the call since the reset, `Arrive`/`Wait` the two halves, `NextCall` with `MustReset` = `_wrap_calls` |
| `Bindings` | which tensor is behind each value: `assign_storage`'s bindings, `_refresh_values`, `_prepare_table_rebind`, `_fast_table_rebind`, and the columns of the address table | operators on a graph with views, workspace places and boundary values; what a runtime state keeps of a binding is one record |
| `TableLaunch` | runtime state, stream, ring, prologue, barriers, over `Bindings` | host variables carry the fields' names, `bound` is the last binding and `mirror` `_address_mirror`; `stream` is the CUDA stream; `Prepare`, `RunLaunch`, `Capture`, `Replay` are the host's methods; `ReadCall`, `Check`, `Copy`, `Arrive`, `Wait`, `Advance` the kernel in program order |
| `PhaseSchedule` | dependencies, topological and level order, folding, the simulator's test | operators on a graph record: values with storage, tiles, cost of one CTA |
| `Workspace` | lifetimes, best fit, `verify_plan`'s overlap test, memory cells | operators on a schedule; `AssignStorage` makes the plan |
| `MegaKernel` | one launch under phases | composes `PhaseSchedule`, `Workspace` and the abstract barrier; `RunTile`, `EndPhase`, `ArriveBarrier`, `LeaveBarrier` per CTA |
| `TileMaps` | `make_tile_maps`: the boxes a tile writes and reads, through output, reduced, fixed, affine and data axes | operators on a region |
| `EventSchedule` | region and tile event schedules and `_verify_event_schedule` | operators; a schedule is tasks in the common order and prerequisites |
| `EventKernel` | calls of an event kernel under either schedule | composes `EventSchedule`, `Workspace` and the event words; `Call`/`CallEnds` the host, `Wait`, `RunTile`, `EndTask` per CTA |
| `DecodeAttention` | split-context decode and the lengths of its layers | `keys`, `item` are the body's variables; `counters[r].exchange` and `.finish` the row's two counters, `stats` and `partials` the phase scratch (holding which phase wrote it); `ReadLength` … `Append` the body in program order, `ArriveBarrier`, `LeaveBarrier`, `AdvanceLength` the phase loop |
| `GemmPhases` | warp-specialised GEMM phases with weight streaming and split-K | `full`/`empty` the mbarriers with their parities, stages hold (phase, tile, step) tokens, `tag` the stream's set-up tag, split counters and partials in scratch; one action per step of the producer warp, the copies and the MMA warps |
| `PlanCache` | what the cache promises its clients | `lock`, `entries`, and each client's stage |
| `PlanSearch` | `search_plans`: candidates, order, budget, choice | operators on selections and measurements |
| `Compilation` | what runs under the lock: preflight, reference calls, both schedulers, admission, comparison, timing, choice, fallback | extends `PlanCache` and `PlanSearch`; one action per outcome of each step |
| `HostCalls` | clients that request, call and request again | composes the above |
| `TensorPrograms` | indexed tensor programs and how one is evaluated | elements are terms |
| `Aten` | what an ATen operator means, one result at a time | external reference, independent of programs |
| `Lowering` | `lowering.py`: one program per operator, or refusal | one operator per rule |
| `Fusion` | elementwise chains, GEMM epilogues, norms | candidates: operators replaced and the program that stands for them |
| `BodySelection` | which bodies cover the graph and in which order | covers of the operators by options |
| `Frontend` | `eliminate_common_subexpressions` | graph to graph |
| `GenericKernel` | the generic bodies' threads running the selected programs | composes the six above; CTAs, warps, scratch, memory by storage and address |
| `Buckets` | `bucketed` | verified buckets and what calls were answered |
| `*Proofs` | theorems about the module of that name | - |
| `MC*` | instances for TLC | graphs, plans and constants |

Compositions: `FlagBarrier` and `CountingBarrier` both implement `GridBarrier` (checked and proved), which is why
`MegaKernel` uses the abstract barrier only. `TableLaunch` repeats the counting barrier's words
because the question there is whether its *ordinals* are right, and puts `Bindings` under them. `MegaKernel` and
`EventKernel` run what `PhaseSchedule`, `Workspace` and `EventSchedule` make of a graph. `GenericKernel` runs what
`Frontend`, `Lowering`, `Fusion` and `BodySelection` make of one. `HostCalls` implements `PlanCache` (proved: every
step is a step of the cache or leaves it alone).

### Abstractions

* **Threads of a CTA** are one actor where `sync_threads` brackets every access to the synchronisation words and one
  thread makes it; `GemmPhases` tells the producer warp from the MMA warps, `GenericKernel` every warp.
* **Memory order**: words are sequentially consistent, and a phase's writes are visible behind the barrier. The code
  pays for that with release and acquire operations and proxy fences; weak memory itself is not modelled.
* **A tile** (in `MegaKernel`, `EventKernel`) reads its region's inputs while it is the CTA's next tile and writes one
  cell when it runs. Cells carry the number of the value written last, which is all the properties need there. In
  `GenericKernel` cells carry terms, so two results are equal only if the same operators met the same elements.
* **Addresses** are pairs of a storage and a place in it; a storage is a name and the call that allocated it.
* **Prepare** waits for the ring entry's event; since waiting only lets the stream drain, wait and write are one
  step, enabled when the entry is free. **Capture** uses the arguments of the last call, as `GraphedCall` does, which
  warms up with the arguments it then captures.
* **Copies** into shared memory land in any order and at any time behind the step that asked for them.
* **Times, comparisons and compilers** answer anything: `Compilation` lets the environment choose.
* In `DecodeAttention` a store that a fence and an atomic add follow is one step with them; a row is one head tile of
  one KV head; each attention phase closes its own interval, which is what `deferred_publishes` requires; the rotation
  of a phase, which renames the CTAs of its items, is left out. Prompts are what a prefill left in the caches.
* A model warp of `GenericKernel` has one lane: what a warp does by shuffles is one step.
* The words `Init` of `FlagBarrier` starts with are those of `make_ready`, with the first launch already enqueued.
* Operators marked `Fault:` are not part of the system. Each is a plausible bug in the definition that follows it,
  used to confirm that the properties notice.

## Runs

| Run | Question | Bounds |
|---|---|---|
| `flag_barrier` | Does the flag barrier separate intervals, its flag never stale, its epochs in int32, all barriers opening, and does it implement `GridBarrier`? | 3 CTAs, so that a last arrival, a poller and a CTA still running coexist; phases inside and at the end of intervals; `MaxInt` small enough that epochs restart within the launches allowed |
| `counting_barrier` | The same for the growing counter, and do calls stay dense? | 3 CTAs, 2 barriers a call, resets every two calls |
| `table_launch` | Do host and device number calls alike, and does each kernel find its own call's operands? | 2 CTAs, a ring of 2 entries, `MaxInt` = 9: the call counter wraps every second call and `next_epoch` every fourth; 6 calls, in any mix of the callable or the sampler preparing ahead, a capture and replays. One graph with an input written in place and read through a view, a weight, a workspace value read through a view, an output and a view of an output; two argument sets, of which the second passes another part of the first input's storage and another weight |
| `mega_kernel` | Are the compiler's plans safe for every interleaving? | all 1512 graphs of four regions with one or two inputs each, at most one in-place write to a state, six placements of small bodies against the folding limits; 24 graphs of two branches with five regions, the least in which a value can be offered bytes that its own interval still reads; values of 1, 2 and 3 tiles on 2 CTAs |
| `event_kernel` | Do events that are never cleared keep consumers behind the producers of what they read, call after call? | all graphs of three regions read whole, under both schedules, and three graphs whose tiles do not line up (row sums, a shifted view and a reshape, a strided gather); three calls of two CTAs, of which the device words admit one or two |
| `decode_attention` | Do the chunks of a row meet without a barrier, and do lengths, caches and counters survive from phase to phase? | 4 CTAs, 3 rows, 2 layers, two steps behind prompts of 4, 7 and 11 keys: one chunk (because of the wave limit), two, three and four chunks a row, so a phase takes one, two or three passes; `MinChunkKeys` = 4 and at most 4 chunks keep the code's relation between 64 and 16 |
| `gemm_phases` | Do the streamed weights, the stages and the split counters hold across phases? | 2 CTAs, 2 stages; a norm, two split-K GEMMs in one interval, a streamed GEMM deeper than the stages with three tiles, one whose weight an earlier phase writes, one of a single tile |
| `host_calls` | Does one backend serve concurrent clients with kernels made for their grid, and leave their state alone, whatever fails? | 2 clients making two requests between them, 4 keys: one with four selections under both schedulers, a small one, one the frontend refuses, one without a plan; 2 tries of admission; a deadline that may pass at any time; caches of two slots and up to two calls of a client, so that a search may find room for two calls, for one or for none |
| `generic_kernel` | Do lowering, fusion, body selection and the generic bodies compute what the graph means? | graphs of one to four operators with at most a few elements per dimension, one for each rule of `Lowering` and each pattern of `Fusion`, in-place writes, views and merged duplicates; 2 CTAs of 2 warps, 2 elements a thread, reductions in chunks of 2 |
| `fold_in_place`, `fused_shift`, `bucket_full_first` | the findings below | the smallest instance that shows each |

Why small bounds are enough: the barrier protocols treat CTAs symmetrically but for the last arrival (and block 0),
so three CTAs show every role at once; both counters matter only where they wrap, and wrap several times; scheduling
and storage decisions depend on pairs of regions and on the interval in between, which four regions realise in all
ways with two inputs. Folding limits are scaled with the cost of a body (2 rounds of 4, and 3 phases), so that runs
fit, overflow by rounds, overflow by phases and conflict. Index programs are affine with small coefficients, so a
wrong stride, offset or guard shows on two or three elements per dimension.

Every property of a passing run has a mutant in `PROJECT.json`: a definition of the model replaced by a plausible
mistake, with which TLC finds the property violated. `TypeOK` of each module, and `EntriesIntact`, `SameCall` and
`TargetsFit` of `TableLaunch`, `ClearBeforeNextArrival` of `FlagBarrier` and the like that no run lists, hold as well
and are kept for proofs and for reading; they can be added to a configuration.

### Fairness

* `WF` on every CTA step: a cooperative launch is refused unless all CTAs are resident, so every CTA keeps being
  executed; that is the code's own reason to use cooperative launches.
* `WF` on the stream (`ResetReady`, `UploadTable`, `KernelEnds`, `CallEnds`): the device works off what is enqueued.
* `WF` on the warps and the copies of `GemmPhases`: hardware makes progress.
* `WF` on a client that is inside the backend (`Serve` of `HostCalls`): a thread that holds or waits for the lock
  keeps running.
* No fairness on callers: one may stop at any time, so nothing is claimed about calls it does not make.

### What the runs show

All passing runs complete with no error. Three runs end in a violation, each of a statement the repository makes:

1. `fold_in_place`: a small `aten.copy_` folds with the reader of the old state into one recompute run; CTAs that
   recompute without synchronising then see the new state. `_fold_small_intervals` compares the run with the
   interval that receives it, and never the run's own members.
2. `fused_shift`: `compose_scalar_chain` keeps one load per value, so fusing an operator that reads a value where it
   stands with one that reads it shifted (a pad, a slice) leaves one load for both. The compiler's comparison with the
   eager reference refuses such a plan: the user sees a failed compilation, not a wrong number.
3. `bucket_full_first`: a bucket whose first call has exactly its length is marked verified without any padding
   having been compared.

### Also seen

What follows holds of the code as modelled, with the switch or definition that shows it; no run lists it, because no
passing run may fail and the repository does not promise otherwise, or because the case needs something a passing
run leaves out on purpose.

* **Exceptions between numbering and enqueueing.** `TableLaunch` under `FailingSpec`: `LaunchFails` leaves `_calls`
  ahead of the device counter. The stamp check is meant to trap then, but the ring entry the kernel reads can carry a
  matching stamp of a launch that never ran, and `RightAddresses` fails. `BindingFails`: an allocation that raises in
  `_fast_table_rebind` (`compiler.py:2181`) leaves the pointers of new inputs without the inputs they belong to; the
  next call with the earlier inputs finds them unchanged and keeps the other call's pointers.
* **Two launches in one graph.** `LaunchesPerGraph = 2`: a captured function that calls one callable twice advances
  the device counter by two per replay and `_calls` by one; `Mirror` fails.
* **A reset inside a capture.** `CaptureMayWrap = TRUE`: a capture that happens to be the call at which `next_epoch`
  runs out records the reset of the words into the graph, every replay resets the counter, and `Mirror` fails.
* **Output views listed first.** `Models <- MCViewFirst` (outputs `y.view(-1), y`): `memory.py:173` makes no workspace
  binding for `y` because it is an output, and `_refresh_values` resolves outputs in their order, so the view finds
  no base and is allocated apart from it. Nothing ever writes it; `RightAddresses` fails where a region reads it.
* **Output in the first slot.** `Models <- MCOutputFirst`: padding of the resolved columns repeats slot 0
  (`codegen.py:1360`). If that slot's address changes with every call the static table is uploaded on every call, and
  no call can be captured, since a copy from pageable memory cannot: `Capture` never fires.
* **Event kernels share workspace bytes by barrier lifetimes.** `EventKernel`'s `ReadsProducers` with
  `Graphs <- MCTwoBranches`: storage lifetimes end at barriers, which event kernels do not have.
* **An event callable gets stuck.** `EventKernel`'s `EpochAdmitted`: `forward` restarts the epoch near 2^31 - 1, while
  `execute_event_plan` refuses epochs from (2^31 - 1) / grid on.
* **Tile dependencies look at one load.** `MCHalves`: `_tile_prerequisites` and the dependency records take the first
  load of a value (`schedule.py:801`); an operator that reads two parts of one value waits for the first only.
  `MCWrapped`: the bounds of an affine axis with a modulus are those of its ends, which is wrong where the modulus
  wraps inside the tile. The compiler's own path uses the region schedule, which waits for whole regions.
* **Lowering and fusion.** `slice_scatter` takes a negative start as it is (`lowering.py:298`); a pooling without
  padding is refused by the padded form (`lowering.py:1402`); `aten.index` with negative indices traps in the generic
  body (`generic.py:1085`); a norm's axis is not compared with the reduced one (`ops/norm.py:66`); an operand used
  twice by one contraction is bound once (`codegen.py:405`, `generic.py:683`); a chosen overlap of candidates may leave
  an operator uncovered, which is refused later (`planner.py:262`). `Lowering`, `Fusion` and `BodySelection` follow the
  code in each.
* **The last slot.** The reference run advances the copies (`compiler.py:420`), and the check at emission looks at the
  copies as they are: with one free slot left every plan is refused (`Refuse`), although the call it would be compiled
  for fits.
* **Not reachable by a property here.** `_refresh_values` keys values by id, so a "workspace" and a "conversion"
  binding of one value resolve to the same tensor; `_validate_state_capacities` sees only the lengths at creation,
  so a caller that keeps calling beyond its capacity is not refused (`Call` leaves such callers out);
  `GraphedCall` copies its arguments one by one, so a failure in between leaves a mix; the eager calls of a bucket's
  `_verify` advance a state; `_cut` cuts every output dimension that happens to have the bucket's length; in decode
  mode only the first selection is tried with more than one worker count (`plan.py:541`);
  `backend.megabake_last_*` is shared by threads.

## Proofs

Each proof module is about one specification and holds for every value of its constants.

`CountingBarrierProofs`:

| Theorem | Says |
|---|---|
| `TypeCorrect` | `Spec => []TypeOK` |
| `BarrierSeparation` | `Spec => []Separation` |
| `CallerKeepsInt32` | `Spec => []TargetsFit` |
| `CallsStayDense` | `Spec => []DenseOrdinals` |
| `Refinement` | `Spec => ImplementsGridBarrier` |

Assumptions: the grid and the barriers of a call are positive, and one call's arrivals fit the word (the code's
`_wrap_calls` assumes as much: a reset has to make room for a call).

The argument. `Separation` is not inductive: it speaks of CTAs, and what a CTA tests is one number. The inductive
invariant `IInv` adds what that number stands for. `Counts`: there is an *m* such that every CTA has arrived *m* or
*m* + 1 times since the reset, and the counter is *m* · `Workers` plus the number of CTAs that arrived *m* + 1 times.
`TargetsFit` keeps `Int32` the identity, and `InCall` says that a waiting CTA waits for a barrier of its call. From
`Counts`, a counter of at least (*n* + 1) · `Workers` means that everyone has arrived at barrier *n*
(`LevelReached`); an arrival either adds to those ahead or, when it completes them, shifts *m* (`ArriveStep`); at the
end of a kernel the counter is exactly the next call's first (`LevelAtEnd`), which is what makes numbering by
`call * Epochs` right. The same facts map every step to an `Arrive` or a `Leave` of `GridBarrier`, or a stutter.

The module also proves of the abstract barrier, `GridBarrier` instanced as `Grid`, that a barrier separates
(`BarrierSeparates`) and that no CTA is two intervals ahead of another (`GridInLockstep`).

`FlagBarrierProofs`:

| Theorem | Says |
|---|---|
| `TypeCorrect` | `Spec => []TypeOK` |
| `BarrierSeparation` | `Spec => []IntervalSeparation` |
| `CounterClearedInTime` | `Spec => []ClearBeforeNextArrival` |
| `FlagNeverStale` | `Spec => []NoStaleRelease` |
| `CallerKeepsInt32` | `Spec => []EpochsFit` |
| `Refinement` | `Spec => ImplementsGridBarrier` |

Assumptions: `WorkersAssumption`, `PhasesAssumption` and `MaxIntAssumption`, which leaves room for one launch's epochs.
A poller tests one word for equality, so what has to be invariant is what that word says of every CTA: `FlagBehind`
puts the flag below every CTA's next epoch, save that a poller whose barrier is open finds it equal; `PassedReleased`
says that a CTA past a barrier left the flag at its epoch or later; `Counted` that the arrival word is the number of
CTAs at a barrier that is not open, which with `LastAlone` makes the last arrival's clear and store safe one after the
other; and `HostAhead` carries the flag's bound over launches and resets to the callable's next epoch. The refinement
counts barriers across launches: a launch ends with every CTA through all its barriers, so the next one starts where
the abstract barriers of all CTAs are level (`LaunchKeepsNumbers`), and `BarrierSeparation` is what lets a CTA leave.

`DecodeAttentionProofs`:

| Theorem | Says |
|---|---|
| `SameLength` | `Spec => []OneLength` |
| `NewKeyCounted` | `Spec => []NewKeyOnce` |
| `RowInvariance` | `Spec => []RowInv` |
| `ExchangeIsComplete` | `Spec => []ExchangeComplete` |
| `RowsAreAtRest` | `Spec => []RowsRestAtZero` |
| `WrittenOnce` | `Spec => []RowsWrittenOnce` |
| `ReadsAreSettled` | `Spec => []ReadsSettledKeys` |

`OneLength` compares two CTAs that read the length at different times, so it needs where CTA 0 may be meanwhile: the
invariant `Inv` says that a CTA behind another stands at the barrier (`LockStep`), that a layer's length is one ahead
once CTA 0 has gone on and not before (`LengthsBehind`), and that what a CTA read is the step's number of keys
(`KeysOfStep`). `NewKeyOnce` then is arithmetic on rounded divisions (`ChunksPartition`): with at most `MinChunkKeys`
chunks, a chunk has at least as many keys as there are chunks, so rounding up cannot empty the last. The assumption
`ChunksAssumption` is exactly that, and the code's 16 and 64 satisfy it; with more chunks than that the code would
count the new key twice for some lengths.

The exchange of a row's chunks is the work of several CTAs, each of which takes items in its own order, so what the
two counters hold has to be said of the chunks and not of the CTAs. `Stages` gives each chunk of a row a stage: not
begun, where its CTA is with it, or done; `ItemsDealt` says that an item has one owner, whatever the grid and the number
of passes. `RowState` is the invariant about one row: the exchange counter is the number of chunks that have published
unless the closing chunk has reset it, the finish counter likewise, no chunk is past a wait that another has not
arrived at (`Crossed`), and one chunk closes (`OneCloses`); `RowHolds` adds that published statistics and partial sums
are those of this phase. Every step of a CTA moves one chunk of one row (the lemmas `RowPublish` to
`RowResetFinish`; `RowMoved` and `RowsKept` carry the rest), and a new phase finds
every row at rest (`FreshRows`), because a CTA passes the barrier only when it has no item left. For `ReadsSettledKeys`,
`CacheHolds` gives every place of the cache the step that put it there.

`HostCallsProofs`:

| Theorem | Says |
|---|---|
| `CompilersNeverOverlap` | `Spec => []SoleCompiler` |
| `KernelsNeverReplaced` | `Spec => EntriesStable` |
| `CallersStayIsolated` | `Spec => []StateIsolated` |
| `SearchCallsFitCaches` | `Spec => []CallsFitCaches` |
| `NoFallbackBehindACall` | `Spec => FallbackBeforeAnyCall` |
| `EveryKernelResident` | `Spec => []KernelsResident` |
| `SelectionIsBest` | `Spec => []SelectedPlan` |

The first two go by refinement: `SearchIsCacheStep` and `NextIsCacheStep` show that every step of a client or a search
is a step of the plan cache (`AnyStep`, which leaves open what is stored) or leaves it alone, and `CacheInv` is an
invariant of those: who compiles holds the lock, alone, and compiles a key that has no entry. The next three need
where a search may be and what it has run (`called` is reset with the search and only grows in it), and not what its
choices were, so they hold for every budget, set of schedulers and behaviour of the compilers. `CallsFitCaches` says of
a call what only the emission, several steps and possibly many calls earlier, has checked, on a copy whose length has
moved since. `RoomInv` bridges the two: the copy is never shorter than the captured state, so a check that passes on
the copy holds of the captured state, which no step of a search changes, and every call starts from that one.

The last two are about those choices. `CandidateInv` follows the lists of candidates and kernels a search keeps per
scheduler: they have the same places (`Lists`), a measured candidate has a kernel that was emitted for the grid it
launches with and fits the device, while one not yet measured has a grid (`Listed`), the trial in progress is a plan
and later a kernel that fits (`Tried`), and behind the place the search has reached nothing is unmeasured unless that
was reported (`NoneLeft`). A kernel gets into the lists only through `Admit`, where the smaller of the plan's grid and
what the device keeps resident is the plan's grid. The rest is about the choice: there is a candidate close to the
fastest that `Better` puts before all others (`PreferredExists`), so the one `Choose` takes is it, and what is close
to the fastest time is close to every other (`ChooseSelects`); the same for the schedulers (`BestIsFound`). They rest on
`PlansAssumption`, which says of the candidates `Enumerate` returns that none has been measured and that one with
a plan has a grid, and on `CompilationAssumption`, that numbers are numbers. The first is what a proof by induction
over the folds of `Enumerate` would give; TLC evaluates both.

`GemmPhasesProofs`:

| Theorem | Says |
|---|---|
| `TilesSummed` | `Spec => []SplitsSummed` |
| `CountersAtRest` | `Spec => []CountersRest` |
| `OperandsInPlace` | `Spec => []OperandsRight` |

Assumptions: `GridAssumption`, `PhasesAssumption`, and `WeightsAssumption`: a weight that a launch itself writes is
written behind an earlier barrier than the phase that loads it, which the compiler's schedule check ensures. TLC evaluates them. There
is no bound on phases, tiles, splits, stages or warps.

The argument. `Walk` says where the warps of a CTA may be, and that no CTA is behind a barrier another has not reached
(`Working`, `Written`). For the splits, `Summing` says that a tile's counter is the number of splits that have added
their part, and which of them publishes or sums; a counter serves many tiles of a launch, but at most one open tile at
a time, because the tiles of the phases between two barriers are given counters and scratch of their own
(`ScratchApart`), and behind a barrier every tile is whole (`Whole`) and its counter at rest. For the operands, `Pipes`
gives each stage of a CTA's ring one use at a time: before its copy (`Before`), being filled (`Filling`) or free (`Idle`), with the
parities of its two mbarriers those of the number of times it was used, which `Counts` bounds between producer and
consumers. Stages the stream loads ahead of a barrier are carried over it (`Pending`, `Awaited`, `NextGemm`): the
phase behind finds in them the tokens it would have loaded itself.

`Offset` and `Scratch` add up what earlier phases of an interval take. What such a sum is for every phase is usually
shown by induction, which is out of reach here; the proof takes the least phase for which it fails instead
(`TallyExists`, `OffsetIs`, `ScratchIs`), so no assumption about sums is left.

`EventKernelProofs`:

| Theorem | Says |
|---|---|
| `TypeCorrect` | `Spec /\ PlanOK(plan) => []TypeOK` |
| `EventsOrderTasks` | `Spec /\ PlanGood => []PrerequisitesComplete` |
| `WordsMatchEpoch` | `Spec /\ PlanOK(plan) => []CountersMatchEpoch` |
| `RegionEventsCoverNeeds` | the events of a region schedule include all that a task must not start before |
| `RegionKernelsAreOrdered` | `Spec /\ plan \in RegionPlans => [](NeedsComplete /\ CountersMatchEpoch /\ TypeOK)`, with no hypothesis on the plan |

Event words grow from call to call, so what a wait proves depends on all earlier calls. The invariant `EventInv` says
what a word holds: the epoch times the trigger count, and, while a call runs, the producers that are past their tasks
in this call (`Counted`). A CTA publishes each of its tasks once a call, since its list holds them once and in the
common order (`CompletedOneMore`), so the word can reach the next multiple of the trigger count only if every producer
is past (`ReachedIsComplete`), and a CTA that waited stays entitled to what it saw (`Waited`) because words fall only
between calls, when every CTA has ended (`Walk`). At the end of a call all producers are past and the word is the
next multiple. The type theorem needs the admission: an epoch below `MaxInvocations` leaves room for the counts of its
call (`AdmittedFits`), for a trigger count as large as the grid or larger.

The hypothesis of the first three is what the second conjunct of `PrerequisitesComplete` says of the plan, and TLC
checks it on every plan of the run `event_kernel`: `PlanOK`, that each CTA finds its own tasks in its list, in order
and once; `NeedsCovered`, that what a task needs is among the producers of its events; and `RecordsMatch`, which only
the property speaks of. For the region schedules, which are those the compiler uses, the first two are proved too
(`RegionPlansOK`), for every graph that `GraphsAssumption` admits and every grid, so `RegionKernelsAreOrdered` has no
hypothesis left: it proves the first conjunct of `PrerequisitesComplete`, which `NeedsComplete` names. That the phases
are regions of the graph comes from `MegaKernelProofs`, taken in as an instance (`PhasesAreRegions`); its definitions
are the same ones under other names, which `SameOrders` and `SameFolds` say. For tile schedules `NeedsCovered` stays an
assumption: it is not true of every graph (see *Tile dependencies look at one load*).

`MegaKernelProofs`:

| Theorem | Says |
|---|---|
| `MegaKernelTypeCorrect` | `Spec => []TypeOK` |
| `SchedulesAreShortest` | `Spec => []FewestBarriers` |
| `CompiledPlansVerify` | `Spec => []PlanVerifies`, if in-place writers do not fold |
| `CompiledPlansReadProducers` | `Spec => []ReadsProducers`, under the same hypothesis |
| `CompiledPlansCompleteOutputs` | `Spec => []OutputsComplete`, under the same hypothesis |
| `VerifiedPlansReadProducers` | `Spec /\ PlanVerifies => []ReadsProducers` |
| `VerifiedPlansCompleteOutputs` | `Spec /\ PlanVerifies => []OutputsComplete` |
| `RegionSchedulesVerify` | `_verify_event_schedule` accepts the region schedule of every graph, on every grid |

The compiler checks a plan one phase after the other; that this is enough for CTAs that run side by side, for every
graph, plan and grid, is what the two theorems on verified plans say. `PlanVerifies` is their hypothesis: the plan has
the shape `PlanOK`, `simulate_phase_schedule` and `verify_plan` accept it, and in-place writes keep apart from other uses
of their storage (`StateWritesApart`), which neither of them looks at. `CompiledPlansVerify` discharges it for the plans
that `make_phase_schedule` and `assign_storage` make, for all graphs.

The assumption on `Graphs` (`GraphOK` of `PhaseSchedule`) is what lowering delivers: regions in an order in which each
reads only earlier values, at least one tile for each value, and a write into the caller's tensor returns the new
state, so that nobody reads the old one behind it (`StateThreaded`). `WritersStay`, that a region writing in place is
not among the small ones that fold, is a hypothesis of three theorems and not an assumption, because without it they are
false: the run `fold_in_place` has the counterexample. `FewestBarriers` and the type need no such hypothesis.

The argument for the schedule. Recursion over data is a recursive function here (`Level`, `TopologicalOrders`, `Folds`,
`Sweeps`), whose existence follows from a least counterexample over the natural numbers (`LevelIs`, `FoldsAre`).
The topological order is the selection order, since dependencies go forward in it. A region's level is the length
of the longest chain of prerequisites in front of it; such a chain needs an interval for each of its members,
which gives `FewestBarriers`. The fold loop keeps `Settled`: the intervals it has settled are in ascending levels, and
inside one (`PairOK`), levels ascend, recomputed regions lead, a region with deeper ones behind it is recomputed, and
what is not recomputed writes no storage that they use. `Scheduled` is what is left of it behind the loop, and
`simulate_phase_schedule`, `StateWritesApart` and `_verify_event_schedule` follow from it (`PrerequisitePhases`). The
allocator's sweep keeps `Swept`: values that live on lie under the peak and outside the free units, and values that
coexist lie apart; behind the last phase that is `StorageVerified`.

The argument for the kernel. `Walk` says where a CTA may be: at a tile dealt to it, and never behind a barrier that
another CTA has not reached (`Lockstep`). The rotation deals every tile of a phase to some CTA (`EveryTileDealt`, a
matter of remainders), so a CTA that is through with a phase has run all its tiles. `Kept` is the invariant about
memory: a tile that has been run (`Ran`) and whose byte no later tile has taken over (`Overwritten`) is still there. It
survives a write because two values share a byte only when a barrier separates one's users from the other's writer
(`Sharing`, from lifetimes that end behind the barrier closing the last reader's interval, or from `StateWritesApart`):
so the write comes either from the one that takes over, or before the other was written. A reader then finds its
producers run (`ReadsApart`: behind a barrier, or recomputed by the same CTA) and not yet overwritten, since the writer
that would take over waits behind a barrier for this reader.

`TableLaunchProofs`:

| Theorem | Says |
|---|---|
| `TableInvariance` | `Spec /\ OneGraph => []TableInv` |
| `NeverTraps` | `Spec /\ OneGraph => []NoTrap` |
| `HostMirrorsDevice` | `Spec /\ OneGraph => []Mirror` |
| `EntriesStay` | `Spec /\ OneGraph => []EntriesIntact` |
| `OperandsFound` | `Spec /\ OneGraph /\ SoundPlans => []RightAddresses` |
| `OneNumber` | `Spec /\ OneGraph /\ SoundPlans => []SameCall` |

The hypothesis `OneGraph` leaves out the two uses listed under *Also seen* that the code counts wrong: two launches in
one graph, and a capture of the call that resets the words. `Mirror` speaks of a drained stream; the invariant has to say
what holds while work is enqueued. `Queue` gives every operation of the stream a number: the first one's is the
device's counter, with the advance of a running kernel taken back, a launch or replay adds one, a reset starts over
at 0, and the number after the last is the host's `_calls` less the launches prepared and not yet run. Launches carry
their number, and the ring entry of the number is stamped with it. The lemmas `QueueAppend`, `QueueTail` and `QueueRing`
say what enqueueing, finishing and rewriting an entry do to a queue; an entry is rewritten only if no enqueued launch
uses it (its event), and those prepared ahead are less than a ring apart (`EntriesApart`). Block 0 reads and advances
the counter alone, so nothing about the other CTAs is needed.

`OperandsFound` needs more: that a binding is right, that what is enqueued stays right until its turn, and that no CTA
looks at the table too early.

* *A binding is right.* `Meant` says where a value lies by what the graph says: at its offset in the tensor of the
  value its views go back to. `FullRight` follows `_refresh_values` one binding after the other and shows each value
  bound there (`TensorRight`, `BindStep`). `TracedRight` shows that the root and the distance `_prepare_table_rebind`
  keeps for a slot give the value's address in *every* later call, because a view stays as far from the base of its
  storage; so `FastRight` gets all of `_fast_table_rebind` without repeating the walk. Pointers that it does not read
  again are still right, because an input passed as the same object is the same tensor.
* *It stays right.* `ColumnsRight` splits the columns as the code does: those that are uploaded once hold workspace
  values, whose addresses no call changes; the others go with the launch. `OpsRight` says of every operation of the
  stream, and of those prepared, that what it brings or finds in its ring entry is right for its own call; `TableReady`
  that an upload comes before the first kernel. `Queue` then gives the row the kernel reads.
* *Nobody looks too early.* `Level` counts the arrivals since the kernel that runs began: all CTAs have arrived at the
  same number of barriers, or some at one more, and the counter is that many arrivals past the number the kernel was
  given times the arrivals of a kernel. A CTA past the address barrier has therefore seen block 0 arrive, which is
  after its copy (`Apart`, `InStep`, `Copied`).

`SoundPlans` says that every plan has the shape `PlanSound`: no value is a view of itself through others; what a
binding takes its tensor from is an input or bound before it; a workspace value that is a view is placed inside what
it is a view of; operands sit in slots that are sent anew or in the workspace. It leaves out the plan of *Output views
listed first*, for which the theorem is false, and TLC checks it of the run's graph (`MCModelsSound`). The assumption on
`Arguments` says that a call passes a tensor for every input, and that one object is one tensor: a caller who moves
a tensor to other storage in place (`Tensor.set_`) would not be noticed by `_fast_table_rebind`.

Only model-checked: liveness under fairness, which the prover does not reason about; that tile schedules cover what
their tasks need, and `RecordsMatch`; the programs of `GenericKernel` (`OutputsMatchSource`), whose values are computed
by folds over instructions; and what the folds over sequences in `Bindings` (the lists of bindings and columns),
`Lowering` and `Fusion` return. What a fold computes for every input needs induction over data; for the phase schedule
and the allocator it could be avoided, since their properties follow from a loop invariant.

## Not modelled

* **Numbers**: dtypes, casts, rounding, the order of additions, tolerances of the comparison with the reference.
* **Operators**: scatter into states and embedding bags; rope and attention patterns of fusion; the arithmetic of
  attention; prefill and sliding windows; several head tiles of one KV group. They are per-operator translation
  with no state of their own, and need numeric references.
* **Layouts**: layout conversions between regions, tile shapes and swizzles, TMA descriptors, GEMM views of slots, worker
  scratch and the shared-memory limits `verify_plan` checks: data about one plan.
* **State accesses of KV caches in the dependencies** (`schedule.py`), which order attention regions by the cache they
  share; `DecodeAttention` takes that order as given.
* **Costs**: body catalogs, cost ranking, the beam over alternatives. `PlanSearch` takes the order it is given.
* **Concurrency outside the program's promise**: two streams or two callables driving one runtime state. A callable binds
  one stream per call and `runtime_lock` serialises threads; order across streams is left to the caller.
* **Weak memory**: see the abstractions.
* **Other parts**: FX handlers (adapters for Transformers models), the command line and diagnostics (I/O), the SM100
  body, and the vendored CUTLASS kernel.
