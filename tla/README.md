# A formal model of the Snitch cluster runtime

This directory holds TLA+ modules, TLC configurations and TLAPS proofs about the
runtime library of the Snitch cluster (`sw/runtime/src`) and the parts of the
hardware it depends on. A Snitch system is a set of clusters; a cluster has a few
compute cores and one data-movement (DM) core, a hardware barrier, an interrupt
register per core (the cluster CLINT), a scratchpad (TCDM, "L1") and a DMA engine.
There are no caches between cores and no operating system: everything that cores
agree on, they agree on by loads, stores, atomics, interrupts and barriers that
this library issues. On top of it run kernels (`sw/kernels`): programs for the
cores of a few clusters that move tiles with the DMA engine, divide the work, and
run inner loops in which the integer core, the FPU and the streamers work apart.
The project has three layers accordingly: the runtime's protocols, the jobs that
several cores run together, and the streaming loops of one core. In all three,
correctness is a matter of interleavings.

## Inventory

| Component (source) | State | Operations | Interacts with | What is hard |
|---|---|---|---|---|
| Partial barrier (`sync.h`) | `cnt`, `iteration` | `snrt_partial_barrier` | `__kmpc_barrier` | two words updated separately, re-entry, wrap-around |
| Data mover (`dm.h`, `dm.c`) | `dm_t`: ring, fill count, mutex, request and answer words, sleep flag | `dm_main`; `dm_memcpy_async`, `dm_memcpy2d_async`, `dm_start`, `dm_wait`, `dm_wait_ready`, `dm_exit` | DMA engine, cluster interrupt, OpenMP session | lost wake-ups, ring at its limit, stale answers, exit while busy |
| Event unit (`omp/eu.h`, `omp/eu.c`) | `eu_t`: workers in loop and asleep, exit flag, event, finish count | `eu_event_loop`, `eu_dispatch_push`, `eu_run_empty`, `eu_exit` | OpenMP fork, cluster interrupts | late workers, torn events, lost wake-ups |
| OpenMP runtime (`omp/kmp.c`, `omp/omp.c`, `omp/omp.h`) | `kmpc_args`, the team | `__kmpc_fork_call`, `__microtask_wrapper`, `__kmpc_for_static_init_4`, `__kmpc_barrier`, bootstrap, destroy | event unit, partial barrier, allocators | division of loops at their boundaries, argument counts |
| Global barrier, communicators (`sync.h`, `sync.c`) | one counter per communicator, cluster interrupts | `snrt_global_barrier`, `snrt_inter_cluster_barrier`, `snrt_wake_clusters`, `snrt_comm_create` | hardware barrier, cluster CLINT | reset against re-entry, stale interrupts, overlapping communicators |
| Reductions (`sync.h`) | `cls()->reduction`, `_reduction_result`; buffers in L1 | `snrt_global_all_to_all_reduction`, `snrt_global_reduction_dma` | the barriers, DMA | buffers and sums reused between calls and levels |
| Mutex (`sync.h`) | one word | `snrt_mutex_acquire`, `snrt_mutex_release` | data mover | mutual exclusion |
| Start-up and exit (`start.c`, `start.h`, `hw/bootrom/bootrom.S`) | `.bss`, TLS, CLS, reset interrupts | `snrt_main` and its initialisation steps, `snrt_exit` | hardware barrier, DMA, CLINT, allocators, reduction | order of initialisation between cores and clusters |
| Allocators (`alloc.h`, `alloc_v2.h`) | `next` pointers in CLS, `.bss` and every TLS | `snrt_l1_alloc`, `snrt_l3_alloc`, `snrt_l1_alloc_cluster_local`, `snrt_l1_alloc_compute_core_local`, `snrt_l3_alloc_v2`, `snrt_compute_core_local_ptr` | start-up, OpenMP bootstrap, communicators | copies of the allocator that must agree without communication; a shared one without a lock |
| Cluster interrupts (`cluster_interrupts.h`) | one pending bit per core | set, posted clear, wait for clear | data mover, event unit, global barrier, start-up | a clear that lands late |
| DMA driver (`dma.h`) | transfers under way | `snrt_dma_start_1d`, `_2d`, tile loads and stores, `snrt_dma_memset`, `snrt_dma_wait_all` | jobs, data mover | a transfer runs beside the core that issued it |
| Stream registers (`ssr.h`) | configuration, running and pending job, FIFO of every data mover | loops, repeat, start, indirect start, enable, chaining, fence | kernels | configuration runs ahead, stores lag behind, counts must match exactly |
| Jobs (`kernels/blas`, `misc`, `dnn`) | tiles in L1, tile and buffer indices | a pipeline of load, compute, store over tiles | DMA, hardware and global barrier, kernels | double buffering, work division, barriers in every branch |
| Inner loops (`gemm_fp*.h`, stencils, `syrk.h`, ...) | FP registers, streams | SSR, ISSR, FREP, SIMD and chained loops | stream registers | the address pattern and number of elements of every stream, order of FPU and data movers |
| COPIFT, performance counters, team queries | registers | wrappers of single instructions, pure functions | | |
| Integer core, LSU, interconnect (`hw/`) | pipelines, queues | | provide the ordering the runtime relies on | |
| Tests, benchmarks, SARIS, generators, simulation | | | | |

`PROJECT.json` lists every component with its status, every definition with the
lines it models, and the hazards of the code with the properties that cover them.

## Modules

A step of a model is one access of one core to something another core can see: a
load, store or atomic on a shared word, an interrupt register, the hardware
barrier, the DMA engine. Everything between two accesses is private to a core and
is part of the step. A program counter per core names the next access; its values
are short labels (`"wait_req"`, `"hw_sum"`) of the place in the function.

* **`PartialBarrier`** - `snrt_partial_barrier`, six steps per call. `ItMod` is the
  number of values of the iteration word (2^32 in the code). **`AbstractBarrier`**
  says what any barrier promises: it opens when everybody has arrived, and a
  released participant may come back while others still leave.
  **`PartialBarrierProofs`** holds the theorems.
* **`DataMover`** - `dm_main` on the DM core and all six calls on the clients.
  `dm` is the `dm_t` record; `irq` the DM core's interrupt with a clear that may
  be on its way; `engine` the DMA engine, which accepts `DmaDepth` transfers and
  completes them in order. `submitted`, `issued`, `due` and `asked` are history.
  `fresh` expresses the caller's discipline: a client queues at most `QueueSize`
  tasks before it wakes the DM core, because a full ring is only drained by a core
  that has been woken. Otherwise the calls come in any order and at any moment, until
  an exit request has ended `dm_main`.
* **`EventUnit`** - workers in `eu_event_loop`, the master in bootstrap,
  `eu_dispatch_push`, `eu_run_empty` and `eu_exit`, in any order a caller may
  use. Regions have every team size from one to all cores.
* **`Kmp`** - consecutive parallel loops through the compiler's interface: for each
  region the copy of the arguments into the one block all regions share, the
  dispatch to the team, each thread's way through the switch over their number with
  its breaks and fall-throughs, and its part of a statically scheduled loop.
  `kmpc_args` holds, per entry, the region that wrote it; the entry behind the last
  allocated one is the first word of `omp_p`, which every dispatch writes.
* **`GlobalBarrier`** - `snrt_global_barrier` with the inter-cluster barrier of the
  DM cores, for two communicators: the world and one of the first `SubSize`
  clusters. `plan` is the sequence of communicators the program uses.
* **`Startup`** EXTENDS **`AllToAllReduction`** - `snrt_main` from the bootrom to
  the write of `tohost`. The actions of the reduction and of the start-up share the
  program counters of the cores, and one action releases all hardware barriers,
  because the hardware cannot tell them apart. A word of a sum is represented by how
  often each core's value is in it; uninitialised words hold `Garbage`.
* **`ReductionTree`** - `snrt_global_reduction_dma`. A buffer is represented by how
  often each cluster's contribution is in it, per slice of a compute core. `Shl` is
  the code's `1 << level`.
* **`Heap`** - the allocators of one cluster. A program is a sequence of calls that
  every core executes at its own pace: those of `alloc_v2.h` on its own copy, those of
  `snrt_l1_alloc` on the shared one. The latter is read and written in two steps, on
  the DM core (`v1_dm`, `dm_init`) or on core 0 (`v1`, `eu_init` and `omp_init`),
  while the other cores wait for the pointer to be published.
* **`Cluster`** - cores that each run a sequence of operations: compute, start a
  transfer, wait, meet in a barrier. A computation or a transfer is an access that
  lasts from its first to its last step, and is `torn` when another access writes
  its locations meanwhile. Data is symbolic: a location holds the set of products
  of initial values that were summed up in it, so that an operand that is stale,
  missing or added twice is seen whatever the numbers are. **`Dma`**
  gives the calls of `dma.h` and the barriers as such operations, and
  **`BlasJobs`**, **`MiscJobs`** and **`DnnJobs`** (each EXTENDS the one before) build the program of every core of a job from its
  C function, together with the output the job is documented to produce
  (`expect`). `MCJobs` puts `Cluster` and the jobs together.
* **`Streams`** - one core running an inner loop: `ipc` is the integer core, which
  runs ahead by up to `Queue` instructions and programs the data movers; `fpc` is
  the FPU, in order; a data mover fetches up to `depth` words ahead and holds back
  as many, and `stale` remembers that a location was read while one held its word; a chained register is a queue of `ChainDepth` words. **`Ssr`** holds
  `ssr.h` and the instructions. **`GemmKernels`**, **`StreamKernels`**,
  **`StencilKernels`**, **`MonteCarlo`** and **`DnnKernels`** translate the kernels
  to sequences of instructions, with the sums of products the plain loops compute
  as `expect`. A SIMD word is the sequence of its lanes, a content a bag of
  products; rounding is not modelled, and divisions, roots and elementary
  functions are opaque (`Apply`).
* **`...Proofs`** modules hold the theorems about the module they are named after,
  with the inductive invariants and lemmas they need (see Proofs).
* **`MC...`** modules are what TLC runs; they say what the chosen instance covers.

Definitions named `...Not`, `...Early`, `...Short` and the like, introduced by a
comment `Mutant:`, are deliberately wrong versions of the definition that follows
them. They are used by no specification; each one breaks the property that
`PROJECT.json` pairs it with, which shows that the property depends on the code.

### What the models assume of the hardware

* **Order of one core's accesses.** A core's load returns only after its earlier
  stores were acknowledged: the LSU returns responses in order
  (`hw/snitch/src/snitch_lsu.sv`, the FIFO of outstanding transactions). Therefore
  a posted clear of an interrupt has landed once the core has completed a later
  load; before that, its landing is a separate step that may be delayed. Several
  modules depend on this: the mutant `CheckExitEarly` shows the event unit without it.
* **Stores of one core take effect in program order**, also when they go to
  different targets. `snrt_inter_cluster_barrier` resets its counter and then sets
  interrupts without a fence, and would need one on an interconnect that reorders.
* **WFI** ends when an enabled interrupt is pending, and does not wait if it
  already is (`hw/snitch/src/snitch.sv`).
* **The hardware barrier** releases the cores of a cluster when all of them read
  its CSR.
* **The DMA engine** completes transfers in the order they were started, those of
  each core for themselves. In `Cluster` a later transfer of the same core may not
  read what an earlier one still writes without being torn.
* **Streamers**: a data mover takes a second job while one runs, and configuration
  writes wait while both places are taken. Neither `snrt_fpu_fence` nor the hardware
  barrier waits for a write stream to reach memory; only `__builtin_ssr_barrier` does.
* **FPU**: instructions execute in program order; enabling streams and chaining are
  in that order too; a register that enters chaining mode is empty.
* **The host** sets the interrupts of cluster 0 only
  (`set_cl_clint_interrupt` in `target/sim/tb/vip_snitch_cluster.sv`).

These are external to the modelled code and are marked so in the map where they
are actions of their own (`ClearLands`, `DmaComplete`, `CopyTls`).

## Runs

| Run | Instance | Checks |
|---|---|---|
| `partial_barrier` | 4 harts, iteration word of 2 values | `IInv` (counter, iteration and positions describe one round), `ImplementsBarrier` (refinement of `AbstractBarrier`), `EveryoneReturns` |
| `data_mover` | 1 client, ring of 2, 3 tasks, all calls | `FifoExactlyOnce`, `FillIsOccupancy`, `WaitMeansDone`; `CallsReturn`, `StartedTasksComplete`, `CleanExit` |
| `dm_two_clients` | 2 clients, ring of 2, 2 tasks | `FifoExactlyOnce`, `WaitMeansDone` |
| `dm_overflow` | 2 clients, ring of 2, 3 tasks | `QueueBound` is **violated** |
| `event_unit` | 3 workers, 2 regions of any size, exit at any idle point | `ExactlyOnce`, `NoTornEvent`, `RegionCompletes`, `WorkersExit` |
| `global_barrier` | 3 clusters of 2 cores, 3 barriers over 2 communicators in every order | `NobodyPassesEarly`, `HwBarriersMatch`, `NoStaleWakeup`, `Terminates` |
| `startup` | 2 clusters of 2 cores | `InitialisedBeforeMain`, `WokenAfterBss`, `HwBarriersMatch`, `NoStaleReset`, `ExitCodeIsTheSum`, `Terminates` |
| `kmp` | 2 regions, up to 4 threads, loops of up to 8 iterations, both schedules, 0, 2, 11, 12 and 13 arguments | `OwnArguments`, `PartsPartitionTheLoop`, `LastFlagIsRight` |
| `reduction_tree` | 8 clusters, 3 levels | `SumUnlessOverwritten` |
| `heap` | 3 cores, every program of 3 calls | `CoresAgree`, `ChunksDisjoint`, `ChunksInHeap` |
| `jobs` | 42 jobs on 1 to 3 clusters of 1 or 2 compute cores | `ComputeUndisturbed`, `OutputsRight`, `Terminates` |
| `streams` | 76 kernel instances, `Queue` = 32, `depth` of 1 to 3, `ChainDepth` = 4 | `StreamsConsumed`, `StreamsInBounds`, `ResultsRight`, `KernelReturns` |

The modules' `TypeOK` documents the shape of their state and is not part of a run's
question; it holds in all of these instances.

Why the bounds are enough to be interesting:

* An iteration word of two values is the hardest case of the wrap-around: the word
  has its old value again after two rounds, and a hart that were two rounds late
  would not notice. With four harts, rounds close while others re-enter.
* Three tasks on a ring of two use a slot twice, fill the ring and empty it; one
  engine slot makes the DM core wait for the engine. Two clients are enough for
  every race on the mutex and the request word; `dm_two_clients` queues no more
  tasks than the ring holds, because beyond that the ring overflows
  (`dm_overflow`).
* Two consecutive regions are the distance over which a worker, an interrupt or the
  finish count of one region could disturb the next; three workers allow teams
  that leave a worker out.
* The two regions of `kmp` are what it takes to overwrite the block of arguments. Of
  their numbers, 11 is one whose case has no `break`, 12 as many as there are cases
  and one more than the block holds beside the function, 13 the default case.
* Three barriers over two communicators contain every pair of consecutive barriers
  (equal, nested, and left by a cluster that does not participate) followed by a
  third one in which a leftover would show.
* In the start-up two clusters distinguish cluster 0 from the others, and a compute
  core beside the DM core makes every hardware barrier a real one. With
  `NumCompute = 2`, which adds a core that is neither core 0 nor the DM core, all
  properties hold as well (394175 states, about two minutes).
* The heap has room for some programs of three calls and not for others, so every
  bounds check is met from both sides; bounds that are not multiples of the
  alignments exercise the rounding.
* A job that is tiled has at least two tiles, and double-buffered ones as many as
  there are buffers or more; gemm runs with its tiles along each of the three
  dimensions, split over clusters by rows and by k, with and without partitioned
  banks. One element per tile and core is enough, because the operands are symbols.
* A kernel runs with at least two iterations of every loop that it unrolls or hands
  to FREP or a stream, as far as its sizes allow. `Queue` is the number of
  instructions the sequencer holds (`num_sequencer_instructions` of
  `cfg/default.json`); `ChainDepth` the number of stages of the FPU. `depth` is
  two words (`Words`), and one (`FewWords`) for the stencils and four more kernels,
  which have the most states; one word is the least with which reads and writes of
  a stream pass the accesses of the core.
* Six instances of three kernels (`timed`: Monte Carlo, covariance, layernorm) read
  back what they have streamed out, behind a fence or a barrier that does not wait
  for the data mover. `ResultsRight` asks for their results in the behaviours in
  which no word was read before it had landed; in the others, which the run
  contains for each of the three kernels, they may be wrong (Disagreements). A row
  of eight in layernorm needs three words for that (`MoreWords`). All other kernels
  are right in every behaviour.

`CHECK_DEADLOCK FALSE` is set for the data mover and the event unit: they are
services, and their callers may stop calling. All other runs check for deadlock;
a finished program stutters explicitly.

### Fairness

Weak fairness of each core's steps: every core is its own processor and executes
its next instruction; a spin loop is a step that is enabled once its condition
holds. Weak fairness of the landing of a posted write and of the completion of a
started DMA transfer. Nobody is obliged to *call* an operation, with two
exceptions that the code's documentation asks for: all harts keep calling a
partial barrier ("Exactly the specified number of harts must invoke this
function"), and all cores of a program of global barriers run through it.
In `Startup` and `GlobalBarrier`, where the program is finite, no actor can run
forever, so that it suffices that the machine as a whole does not stop
(`WF_vars(Next)`).
`Cluster` and `Streams` assume `WF_vars(Step)` for the same reason: a job and a
kernel are finite programs, every step of which uses up an operation, a transfer
or an element of a stream.

## Proofs

TLC checks the runs' instances; TLAPS proves the following for every value of the
constants. Each `...Proofs` module states an inductive invariant `IInv`, proves
`Spec => []IInv`, and derives the properties from it. The named assumptions on
constants (`HartsAssumption`, `DataMoverAssumption`, ...) say only that counts are
natural numbers, sets are finite and the like; TLC evaluates them in the runs.

| Module | Theorems | Run property | Hypotheses beyond the module's assumptions |
|---|---|---|---|
| `PartialBarrierProofs` | `BarrierInvariant` | `IInv` | |
| | `BarrierRefinement` | `ImplementsBarrier` | |
| `DataMoverProofs` | `DataMoverInvariant` | | |
| | `WaitWaits`, `MutexExcludes` | `WaitMeansDone`, - | |
| | `RingNeverOverrun`, `RingInvariant` | | `NoOverrun` |
| | `TasksInOrder` | `FifoExactlyOnce` | `NoOverrun` |
| | `FillCounts` | `FillIsOccupancy` | `NoOverrun` |
| `EventUnitProofs` | `EventUnitInvariant` | | |
| | `EachCoreOnce` | `ExactlyOnce` | |
| | `EventsAreNotTorn` | `NoTornEvent` | |
| `KmpProofs` | `KmpInvariant`, `ArgumentsAreOwn` | -, `OwnArguments` | |
| | `LoopIsDivided` | `PartsPartitionTheLoop` | `UnitIncrement` |
| | `LastIsFlagged` | `LastFlagIsRight` | `UnitIncrement`, `Lowers \subseteq {0}` |
| `GlobalBarrierProofs` | `GlobalBarrierInvariant` | | |
| | `BarrierHolds` | `NobodyPassesEarly` | |
| | `HardwareBarriersMatch` | `HwBarriersMatch` | |
| | `WakeupsAreConsumed` | `NoStaleWakeup` | |
| | `BarriersImplementAbstract` | | |
| `StartupProofs` | `StartupInvariant` | | |
| | `StartupBarriersMatch` | `HwBarriersMatch` | |
| | `OthersWokenAfterBss` | `WokenAfterBss` | |
| | `MemoryInitialised` | `InitialisedBeforeMain` | |
| | `ResetIsGone` | `NoStaleReset` | |
| | `ReductionInvariant`, `EveryoneGetsTheSum` | | `MainReduces = 0` |
| | `ExitCode` | `ExitCodeIsTheSum` | `MainReduces = 0` |
| `ReductionTreeProofs` | `TreeInvariant` | | `FullTree` |
| | `SumUnlessTooEarly` | `SumUnlessOverwritten` | `FullTree` |
| | `TwoClustersSum` | | `FullTree`, `NumLevels = 1` |
| `HeapProofs` | `HeapInvariant` | | |
| | `CoresAgreeOnChunks` | `CoresAgree` | |
| | `ChunksStayInHeap` | `ChunksInHeap` | |
| | `ChunksAreDisjoint` | `ChunksDisjoint` | `~Mixed` |

The hypotheses in the last column mark where the code stops being right; each
negation is a row of the tables under Disagreements, and the runs satisfy them:

* `NoOverrun`: one client, or no more tasks than slots. The poll of `queue_fill`
  precedes the lock, so two clients can overrun the ring (`dm_overflow`).
* `UnitIncrement`, and a lower bound of zero for the last-iteration flag: what clang
  emits; `__kmpc_for_static_init_4` does not handle the rest.
* `MainReduces = 0`: the reduction of `snrt_exit` is the program's only one. Its words
  are not reset, so a second call returns more than the sum.
* `FullTree`: the number of clusters is a power of two, `Size = Shl[NumLevels]`. For
  other sizes a cluster can be active in a level without having a sender, and then
  adds what its destination buffer still holds.
* `NumLevels = 1`: with more levels a buffer may be overwritten while it is added, so
  the sum is only right in behaviours without such a send (`SumUnlessOverwritten`);
  between two clusters it is right in all behaviours (`RootHasTheSum`).
* `~Mixed`: one kind of L1 allocator per program.

What the inductive invariants add, and why:

* **Partial barrier.** That no hart passes early is not inductive. `IInv` relates the
  two shared words to the positions of the harts: a hart about to be counted holds
  the current iteration (`FreshIteration`); at most one hart closes a round, and then
  everybody waits (`ClosedByLast`); `cnt` is the number of waiting harts, or zero
  between the reset and the bump (`CountIsWaiting`). `ClosedByLast` makes the two
  separate stores of the last hart safe: while it is between them, everybody else
  spins. The refinement maps `AddFetch` to `Arrive`, `BumpIteration` to
  `Open`, `SpinExit` and `Return` to `Leave`, the others to stuttering steps.
* **Data mover.** `queue_fill`, the two indices and the slots are updated by different
  accesses. `FillRight` says what `queue_fill` is between them, `RingRight` describes
  the ring as it will be once a started bump is done (`Back`, `Front`), and `RoomRight`
  that a client which has polled still finds room when it has the lock.
  `RequestRight` is the core of `WaitWaits`: an answer is given at most once per
  request and only while its client waits, so that a client cannot take the
  answer of an earlier request for its own, although nobody acknowledges answers.
* **Event unit.** `CountsRight` says that the three counters of `eu_t` are the
  cardinalities of sets of workers; a master that waits for a count therefore waits
  for everybody. `PhaseRight` and `IrqRight` bound where workers and their interrupts
  can be for each position of the master: while it writes an event,
  all workers are idle without a pending interrupt.
* **OpenMP loops.** `OwnArguments` needs two facts about the whole team: a thread that
  is not asleep is in the current region (`AwakeInRegion`), whose entries of the block
  are all written, and the master starts to write the next ones when everybody
  sleeps. For the parts of a loop (`PartsRight`) the work is in the arithmetic. For the static schedule the parts are consecutive intervals,
  the first `leftOver` of them one longer; for the chunked schedule iteration `x`
  belongs to the thread `((x - lower) / chunk) % nthreads`, which follows from the
  uniqueness of quotient and remainder.
* **Global barrier.** `Hardware` keeps the cores of a cluster together, so that a
  cluster is represented by its DM core. `Software` speaks of instances of
  software barriers: `DoneAfterArrival` (nobody sees one complete before all have
  arrived), `CountIsGathering` (the counter counts those gathering for the current
  instance, also while slow clusters of the instance before still sleep),
  `ResetIsLast`, and `WakerIsAlone`, the key one: clusters the loop of
  `snrt_wake_clusters` has not reached yet still sleep in the completed instance
  without an interrupt, so no wake-up comes from two sides. `WakeupRight` rules out
  interrupts that outlive their barrier, whatever communicator is next. From these,
  `BarriersImplementAbstract` shows that each communicator's software barrier refines
  `AbstractBarrier` with its clusters as participants, whatever barriers over the
  other one lie in between: `AddFetch` is `Arrive`, `ResetCounter` is `Open`,
  `WakeDone` and `PollMcip` are `Leave`, all else stutters.
* **Start-up.** `Stage` is the stretch between two hardware barriers a core is in and
  `Round` the number of reductions behind it; `InStep` says they agree in a
  cluster. `TlsRight`, `ClsRight`, `BssRight` and `ResetRight` tie each piece of memory
  to the stage from which on it is initialised, including the DMA writes of the TLS
  images of other cores.
* **All-to-all reduction.** `SumsRight` says what the two words hold at every moment,
  as vectors: a cluster's word contains the values of exactly those of its cores that
  have added theirs (`Part`) until its DM core copies the result back; the global
  word contains the clusters whose DM core has added its word (`Collected`).
  `AllMet` carries the step from one to the other: a DM core past the inter-cluster
  barrier finds every other one behind its addition. Both need from `IInv` that the
  cluster's image and `.bss` were initialised before the first addition. As the words
  are vectors, no sum over a set of cores has to be computed in the proof.
* **Reduction tree.** `Lockstep` is what the global barrier gives: two clusters are at
  most one level apart, and the one ahead waits before the barrier of its level.
  `Blocks` says that a cluster `k` that is active in level `l` holds the contributions
  of the clusters `k .. k + 2^l - 1`, each once; `Sent` and `Arrived` follow a
  sender's block into its receiver's buffer and across the barrier. The three hold
  until a send overwrites a buffer that is still to be added. The arithmetic is
  that of `Shl`: that it exists as a recursive function, doubles, and divides its own
  later values, each by `SetInduction`, an induction over sets of naturals
  which is proved from the well-foundedness of `<`.
* **Heap.** The cores are at different calls, so their states cannot be compared.
  `OneTrace` says that there is one sequence of next pointers, as long as the core
  furthest ahead has come, that every core follows as far as it is. When the
  foremost core makes a call, the sequence is extended; when another one does, the
  call repeats what the sequence holds. For the shared allocator, `Published` says
  that who has a pointer has it from the caller; therefore nobody is past a call
  that is being made, two cores are never in `snrt_l1_alloc` at once (`OneReader`),
  and what one has read is still the current value when it writes (`Reading`).
  `UnsignedStride` is the arithmetic of
  `snrt_compute_core_local_ptr` for a difference of indices that wraps.

Numbers are mathematical where the code's are 32 bits wide. In `Heap` the assumption
`NoWrapAssumption` excludes requests for which they differ; the loop bounds of `Kmp`
are meant to be such that `int` does not overflow.

Model-checked only:

* Liveness in all modules (`EveryoneReturns`, `CallsReturn`, `StartedTasksComplete`,
  `CleanExit`, `RegionCompletes`, `WorkersExit`, `Terminates`, `KernelReturns`): the
  prover handles neither fairness nor `ENABLED`.
* `Cluster` and `Streams` (`ComputeUndisturbed`, `OutputsRight`, `StreamsConsumed`,
  `StreamsInBounds`, `ResultsRight`): these are properties of the programs, which the
  job and kernel modules compute from their sizes with recursive operators. What such
  an operator computes for every size is out of the prover's reach.

## Disagreements between the code and its documentation

One is a run of its own, with a finding in `PROJECT.json`: `dm_overflow` -
`dm_memcpy_async` polls `queue_fill` before it takes the mutex (`dm.h:269-272`); two
clients that see the last free slot both use it.

In the protocols of the runtime the others show when the constants of a run are
changed as given:

| Code | Shown by | What happens |
|---|---|---|
| `dm.h:213` `dm_wait_ready` after another request | `data_mover` with `PROPERTY ReadyReturns` | `dm_main` answers a request (line 212 or 221) and then clears `stat_q`; a `STAT_READY` posted in between is wiped out and its caller polls forever ("Wait for the DM core to be ready", `dm.h:373`). `dm_wait` looks at `stat_q` first (line 355), `dm_wait_ready` does not |
| `dm.h:246` `dm_exit` | `data_mover` with `PROPERTY ExitReturns` | the exit request may be wiped out in the same way, or the DM core sees it while awake and leaves without sleeping, and the caller waits in `wake_dm` for its sleep forever ("Destroy an OpenMP session so all cores exit cleanly", `omp.h:64`); `tests/data_mover.c` calls `dm_exit` right after `dm_wait` |
| `dm.h:363` two clients in `dm_wait` | `dm_two_clients` with `PROPERTY NoRequestOverwritten` | the second request is posted before the first is cleared, and then cleared with it ("no request be pending", `dm.h:351`) |
| `eu.h:187` inverted test in `eu_exit` | `event_unit` with `INVARIANT ExitDrainsQueue` | a pushed event that was not run is dropped ("make sure queue is empty", `eu.h:186`) |
| `kmp.c:78` cases 8 to 11 without `break` | `kmp` with `Argcs = {8}`, `INVARIANT MicrotaskCalledOnce` | the microtask runs up to five times in each thread, where it should be called once ("call the microtask in the relevant number of threads", `kmp.c:168`) |
| `kmp.c:189` twelve arguments | `kmp` with `Argcs = {12}`, `INVARIANT AllArguments` | the block has 12 entries, one for the function; the twelfth argument lands in the first word behind it, the size of the team in `omp_p`, which the dispatch overwrites before the threads read the argument |
| `kmp.c:282` increments other than one | `kmp` with `Incrs = {2}`: `PartsPartitionTheLoop` fails | `leftOver` is not multiplied by the increment; clang normalises its loops, so this needs another caller |
| `kmp.c:267` loops that do not start at zero | `kmp` with `Lowers = {1}`: `LastFlagIsRight` fails | the last chunk is computed relative to zero; same remark |
| `alloc.h:128` L3 allocator | `startup` with `MaxAllocs = 2`, `INVARIANT L3ChunksDisjoint` | the DM core of a slow cluster resets the allocator after a core of a fast cluster has allocated in `main` |
| `sync.h:268` reduction not reset | `startup` with `MainReduces = 1`, `INVARIANT ReturnsTheSum` | neither word of `snrt_global_all_to_all_reduction` is reset, so a second call adds to the first; `snrt_exit` makes one ("@return The result of the sum reduction.", `sync.h:261`) |
| `sync.h:359` reduction tree | `reduction_tree` with `Size = 4`, `NumLevels = 2`, `INVARIANT RootHasTheSum` | after adding its buffer a cluster only synchronises with itself; the sender of the next level may overwrite the buffer while the receiver still adds it |
| `sync.h:343` reduction tree, numbers of clusters that are not a power of two | `reduction_tree` with `Size = 6`, `NumLevels = 3`: `SumUnlessOverwritten` fails | in the second level cluster 4 has no sender and adds the block of the first level again ("Half of the clusters active in every level", `sync.h:287`); with five clusters it adds a buffer nobody has written, which the model takes as empty |
| `alloc_v2.h:118` two allocators | `heap` with `Mixed = TRUE`: `ChunksDisjoint` fails | `snrt_l1_alloc` and the allocators of `alloc_v2.h` hand out the same memory |

In the jobs and kernels, a property of `jobs` or `streams` fails when the instance
named is added to `MCJobs` or to `OtherRuns` of `MCStreams`:

| Code | Shown by | What happens |
|---|---|---|
| `kmeans.h:69` | `kmeans_job(1, 2, 1, 2, 1, 2)`: `ComputeUndisturbed` | the barrier is commented out; with two iterations core 0 clears partial centroids that another core still reads |
| `flashattention_2_fp32.h:249` | `flashattention_2_layer([Fa2 EXCEPT !.B_r = 2, !.baseline = FALSE], 2)`: `ComputeUndisturbed` | all cores transpose parts of V into one buffer and multiply with all of it without a barrier; the FP16 and FP8 versions do the same |
| `gemm.h:282` | `gemm([Gemm EXCEPT !.kt = 3, !.parallelize_k = TRUE], 2, 1)`: `OutputsRight` | the division of the k tiles over the clusters leaves tiles out or adds them twice |
| `gemm.h:295` | `gemm([Gemm EXCEPT !.kt = 2, !.mt = 2, !.parallelize_k = TRUE], 2, 1)`: `ComputeUndisturbed` | with more than one (m, n) tile the reduction buffer is overwritten by a cluster that is one tile ahead |
| `correlation.h:161` | `correlation_job(3, 2, 2, 1)`: `OutputsRight` | the tiles of all clusters are collected in place, over rows not read yet |
| `layernorm_fp32.h:199`, `covariance.h:162-165`, `pi_estimation/main.c:447-482` | `streams` with `INVARIANT NeverStale`; `ResultsRight` without its first disjunct fails for a row of eight | data that a write stream has put out is read back behind `snrt_fpu_fence` or the hardware barrier, while the data mover may still hold it; the default `data_credits` is 4 (`util/clustergen/snitch_cluster.schema.json`) |
| `gemm_fp64.h:60` and `:110` | `call(gemm_fp64_naive, TransA(Args(2, 2, 3)))`: `ResultsRight`; `call(gemm_fp64_opt, TransA(Args(2, 8, 3)))`: `StreamsInBounds` | for a transposed A the naive kernel reads `A[k * M * lda + m * lda]` and the optimised one steps eight elements per row; `datagen.py:128` and `:147` store element `(m, k)` at `k * lda + m`. They agree for M = 1, which is what the run has |

Others were seen in reading and lie outside what the instances run: `gemv/src/main.c`
starts its transfers and never waits for them; `kmeans.h:231-232` scale a size by
`sizeof(double)` twice; `gemm_fp32_opt` steps over the left-over columns it means to
clean up when N is at least 8 and not a multiple of 8 (`gemm_fp32.h:346-349`);
`gemm_fp64_opt` with K < 3 and `gemm_fp32_opt` with K < 4 underflow their FREP count;
`syrk_opt`, `doitgen_opt` and the gemm kernels configure three loops of a stream and
start four, so that the fourth bound must be zero (`syrk.h:124`); `batchnorm.h:179`
and `maxpool.h:172` store to uninitialised coordinates in a cluster without tiles;
`transpose_kernel` drops the last rows when their number is not a multiple of the
cores; softmax and maxpool use the global core index where an index in the cluster
is meant; `flashattention_2` divides by a factor it should multiply with; the
first and second pass of `layernorm_fp8_opt` differ in element width.

## Not modelled

* Of the DMA driver: multicast, several channels, transfer identifiers, the variants
  for interleaved banks. COPIFT and performance-counter headers: wrappers of single
  instructions.
* `conv2d.h`: it calls `gemm_fp64_opt` with a parameter list that function no longer
  has, so there is no program to model; `fusedconv` and the SARIS stencils, which
  depend on generated code. The SIMD kernels of `layernorm_fp16.h` and
  `layernorm_fp8.h`, whose order of operations does not compute a variance (above).
* Numbers: rounding, the elementary functions (exp, log), the pseudo-random
  generators of the Monte Carlo kernel. Bit widths appear only where an index is
  stored in 16 bits.
* The self-checks at the end of the `main` functions, and the benchmarks, which are
  copies of kernels that are modelled.
* The variants of data mover and event unit that use the global CLINT, and the
  multicast variant of `snrt_wake_clusters`: not selected by the configurations of
  the repository.
* Nested parallel regions (reported as an error by the code) and dynamic
  scheduling (commented out in the code).
* The OpenMP bootstrap as one sequence (its allocations and the wait for the global
  pointers `dm_p_global` and `eu_p_global` are calls of `Heap`); `snrt_comm_create`, whose result `GlobalBarrier` takes as given.
* `snrt_mutex_ttas_acquire`, `snrt_l1_update_next`, `snrt_remote_l1_ptr`.
* The hardware: core, LSU, interconnect, streamers, page table walker. What the
  runtime needs of them is listed above.
* Tests, generators, simulation harness, trace tools.

## Plan

Done, in this order: partial barrier with its abstraction and proofs, data mover,
event unit, global barrier, reductions, OpenMP loop interface, start-up and exit,
heap; DMA driver and jobs; stream registers and streaming kernels. Next:

1. *OpenMP bootstrap*: `omp_init`, `dm_init`, `eu_init` and the order in which their
   allocations and global pointers become visible to the other cores; the destroy
   sequence `eu_exit` then `dm_exit`. Composes `EventUnit` and `DataMover`.
2. *Communicators*: `snrt_comm_create` in `GlobalBarrier`.
3. *Load-store unit and request-response interconnect* (`snitch_lsu.sv`,
   `reqrsp_demux.sv`, `reqrsp_mux.sv`): in-order responses as a property, which is
   now an assumption of the runtime modules.
4. Theorems: a condition on where the barriers of a `Cluster` program lie that implies
   `ComputeUndisturbed`, for any program given as a constant.
