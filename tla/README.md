# RUDA in TLA+

TLA+ models of the concurrent and stateful parts of RUDA, TLC runs that check
them on small instances, and TLAPS proofs for the task channel, the registry, the
workers, the barrier, both kinds of streams and the page manager. `PROJECT.json` maps every
definition to the lines it models, lists the runs, the hazards each property is
aimed at, and the findings.

## The system and its models

A client thread never touches a device. It hands a closure to the *runner*
thread of the device through a **task channel**; a process-wide **registry**
starts runners, creates services on them and shuts them down. On the runner a
server executes the commands: the CUDA and HIP servers enqueue kernels on
**event streams**, the wgpu and CPU servers collect tasks in **scheduler
streams**, and the CPU driver runs kernels on **workers**, whose units meet in a
**barrier**. On top, ruLLM serves language models with a **continuous batch
scheduler** over a **paged KV cache**.

| module | models | state and actions |
|---|---|---|
| `DeviceChannel` | `ruda-core/src/device/handle/channel.rs`, `custom_channel` | the atomics, two slot buffers and a program counter per thread; one action per access to shared memory |
| `TaskQueue` | what the channel promises | a FIFO of accepted tasks, open or closed |
| `DeviceChannelQueue` | the refinement | `INSTANCE TaskQueue WITH` accepted at the `fetch_add`, closed when a shutdown sees no submission in flight |
| `DeviceRegistry` | the rest of `channel.rs` | `CHANNELS`, `RUNNERS`, `STATES`; `init`, `initialize_service`, nested init, `shutdown_runners`. The channel of a runner is the FIFO of `TaskQueue` |
| `CpuBarrier` | `ruda-driver/cpu/src/execution/barrier.rs` | the counters `arrived` and `exited`; one action per atomic access |
| `CpuWorkers` | `queue.rs`, `runner.rs`, `worker.rs`, `progress.rs` beside it | channels of the workers, stream sequences, the `parallel` slot |
| `SchedulerStreams` | `ruda-runtime/src/runtime/stream/scheduler.rs` | task lists per stream and the shared compute queue; `register`, alignment, both strategies |
| `EventStreams` | `stream/event.rs`, `stream/base.rs`, `record_allocation` of the CUDA server's `interop.rs` | cursors, `last_synced`, the slices and who keeps them, the GC thread and its channel, a device that may be poisoned; events are vector clocks |
| `PagedKv` | `ruLLM/src/paged_kv.rs` | the manager is one value, `kv`; each method is an operator from old to new value. `KvSpec` is the manager alone, under any sequence of the calls it accepts |
| `ContinuousBatch` | `ruLLM/src/continuous_batch.rs`, `continuous_batch/lifecycle.rs` | extends `PagedKv`; one action per public operation; `Schedule` is the whole of `schedule`, promotion, preemption and lookahead included |

`MC*` modules give the constants their values. `DeviceChannelInv` and
`DeviceChannelOrderInv` hold the inductive invariants of the channel.
`DeviceChannelSteps` (slots and counters, contents of the buffers, shutdown) and
`DeviceChannelProofs` (the theorems) are their proof.
`DeviceRegistryInv` and `DeviceRegistryProofs` are the same for the registry;
`CpuWorkersProofs`, `EventStreamsProofs`, `SchedulerStreamsProofs`,
`CpuBarrierProofs` and `PagedKvProofs` hold both the invariant and the proof.

Abstractions worth knowing: a task is the name of its caller; the hash of a run
of KV blocks is the run of tokens (no collisions); LRU ticks are renumbered, only
their order is kept; the KV entry of a position is the run of tokens up to it,
so that a wrong page shows as a wrong entry, and the language model is the
function `NextToken`, which answers right exactly when the block table holds the
row's own past. With dynamic RoPE scaling an entry depends on more than the
tokens: the contexts that `paged_engine/rotary.rs` keeps beside the pages are not
modelled. In `EventStreams` a GC task is what it keeps alive: the handle of a
recorded allocation keeps its slice, the ids of a command's buffers keep nothing.
Numbers of the map for `external` definitions (the device's
memory and streams) have no source lines: they are modelled from how the code
uses the device.

## The runs

| run | instance | what it shows |
|---|---|---|
| `channel_safety` | 2 clients, 3 calls between them, 1 shutdown, buffers of 2 slots, symmetry | nobody writes to a buffer the runner takes (`NoTornFetch`), no closure is overwritten or run twice (`NoOverwrite`, `NoStaleRun`), the runner leaves with everything run (`DrainedBeforeExit`), the stack slot of a blocking call is alive while its task is (`BorrowedStackAlive`), and the channel implements `TaskQueue` |
| `channel_liveness` | 1 client, 2 shutdowns, all call kinds | calls and shutdowns return, flushed tasks run |
| `channel_partial_buffer` | 1 client, buffers of 3 | *violation*, see Findings |
| `registry_safety` | 2 callers, 1 exiting thread, 2 runners, 3 services, nested init on the own runner | a service is created once, a handle leads to a live service, downstream is open while upstream shuts down and runners are joined by the one exiting thread |
| `registry_liveness` | 1 caller, 2 exiting threads, no nested init | `init` and `shutdown_runners` return |
| `registry_nested_init` | 2 callers, a task that asks for a service | *violation*, see Findings |
| `barrier` | 4 units, 3 calls | nobody leaves a call before all have arrived; the barrier opens for everybody |
| `workers` | 2 streams, launches of 1 and 2 units, 1 initial worker | stream order, one barrier launch at a time, writes run alone, everything dispatched completes |
| `scheduler_safety` | 4 streams on 3 slots, lists of 3, 4 tasks, both strategies | no task lost or run twice, arguments are created before they are used |
| `events` | 3 streams on 2, 2 slices, 4 commands, GC channel of 1, failing waits, a fault of the device | `last_synced` is never ahead of the device's order, a recorded allocation is not given out again before the work it was recorded with is finished, a full GC channel drains |
| `batch` | 3 requests, 4 pages of 2 tokens, 2 active, limits 4 and 8, both drivers, 1 failure or changed setting | answers equal greedy decoding of each request alone, pages are accounted for and written privately, `schedule` never stalls, preemption comes to an end if prefill is not chunked |
| `batch_progress` | the same, limit 4, paged driver, no failures | *violation*, see Findings |

Bounds. Two clients and buffers of two slots are the smallest where a submission
is between its reservation and its publication while another completes the
buffer and the runner swaps; three calls make a buffer be reused. An `IdleBudget`
of 0 or 1 makes the runner park soon. The registry needs two runners for a
downstream one and three services for two on one runner. Four pages of two
tokens hold one request of the longest kind and not two, so that requests are
preempted, cached pages evicted and prefixes shared; drafts are accepted and
rejected; batches have one and two rows. `GcCapacity` 1 makes the channel fill.
Four commands are an allocation, a kernel on another stream, a recorded
allocation and the next allocation of its slice. On two device streams a command waits
for one other stream at most, so that waits which fail after some have been
enqueued are covered by the proof only (`SkippedWaitsAreOrdered`, any number of
streams). The three requests of `batch` say nothing of an endless supply of new
ones: `schedule_prefill` prefers the fuller batch, so newer requests overtake an
older one and may starve it if they never cease.

Deadlock is not checked: in all the modelled systems clients make a bounded
number of calls and then the system rests. What must not get stuck is stated as
a liveness property instead.

## Fairness

Weak fairness of the steps of a thread inside a call and of the service threads
(runner, workers, GC): the operating system schedules a runnable thread.
Nobody is obliged to start a call, a shutdown, a cancellation or to change a
setting; `park` need not return without a token; no failure is ever required.
The device finishes the kernels it is given unless it is poisoned, and a poisoned
device fails the waits under way. In `ContinuousBatch` the driver loops
(`PagedLlamaBatcher::run_until_idle`, the device executor's step) call `schedule`
while there is work. `PagedLlamaBatcher::step` completes or fails each batch it
scheduled, hence weak fairness of that; the device executor does not when
`sync_batch` fails (device.rs:157-160): the batch then stays in flight for good.
No fairness is assumed there, and `WholeHistoriesFinish` has as a premise that
batches do not stay in flight. Weak fairness of `Schedule`
is written out as a `[]<>` formula because its enabling condition is plain (no
batch is in flight) and TLC would evaluate the whole action again to find it.

## Proofs

- **Channel** (`~Wraps /\ Spec => []...`, for any number of clients, closers and
  calls and any buffer size): `TypeCorrect`, `FetchIsNotTorn`,
  `NoClosureOverwritten`, `NoClosureRunTwice`. The inductive invariant
  `SafetyInv` says what the counters count (`CountInv`), that each slot below
  `available_index` is published or held by exactly one thread (`SlotInv`), so
  that a full count means a full buffer nobody holds, and which slots contain a
  closure not yet run (`BufferInv`). The properties alone are not inductive: they
  speak of the swap, and why the swap is safe lies in the reservations before
  it. `~Wraps` excludes a wrap-around of the u32 `available_index`.
- **Channel, order and shutdown** (same assumptions): `ShutdownDrains`,
  `BorrowedStacksLive` and the refinement `ChannelImplementsTaskQueue`, whose
  conclusion is the abstract specification. `SafetyInv` says which slots are in
  use and not what is in them. `OrderInv` says that the two buffers, read in turn,
  hold the accepted tasks in the order of their `fetch_add`, with the no-ops of a
  flush behind them, and that the runner has run a prefix. `CoverInv` says that no
  slot below `available_index` is forgotten, and `GateInv` that past the wait of
  a shutdown nobody is inside a submission and its flush leaves a complete buffer
  or none. Together they give that a runner which sees `stopping` and no complete
  buffer has run everything. `BorrowInv` adds that the caller of a scoped task
  that has not run is blocked in the call that sent it, and has one such task.
- **Registry** (`Spec => []...`, for any number of callers, exiting threads,
  runners, services and calls): `RegistryTypes`, `ServicesInitializedOnce`,
  `HandlesBacked`. `RegistryInv` says that `CHANNELS` is held by the one thread
  inside `init` (`LockInv`), that an `initialize_service` in a queue belongs to
  that thread and is alone there (`QueueInv`), that `S::init` has run exactly for
  the services entered in `CHANNELS` or about to be (`CreatedInv`), and that a
  runner leaves its loop only closed and drained (`EndInv`). The middle two are
  needed since between `S::init` on the runner and the entry made by the caller
  the service exists and `CHANNELS` does not show it; what keeps a second thread
  from creating it again is the lock.
- **Registry shutdown** (`OneExiter /\ Spec => []...`): `ShutdownJoinsRunners`,
  `DownstreamStaysAvailable`. `ExitInv` says that every closed runner is done
  except the one being joined, and that no downstream runner is closed before
  the upstream ones found are done. It takes that at most one thread runs
  `shutdown_runners`: `is_shutdown` reads `stopping`, which is set before the join
  (channel.rs:794), so a second thread skips a runner that the first is still
  joining, and goes on. `STARTED` keeps the atexit hook from running twice;
  nothing keeps a host that calls `shutdown_device_services` from running beside
  it. In `RegistryAssumption` threads of different kinds are different, each
  service has a runner, and what an upstream service submits to is downstream.
- **Event streams** (`Spec => []...`, for any set of logical streams on at most
  254 device streams, any slices, commands and GC capacity above 0): `EventTypes`,
  `SkippedWaitsAreOrdered`, `RecordedAllocationsKept`. The invariant adds that
  `last_synced` never notes a cursor the other stream has not reached
  (`ServerInv`): otherwise a kernel launched later would be covered by an older
  note. For a recorded allocation, `Safe` says that until the work it was recorded
  with is finished, or the device is poisoned, its slice has not been given out
  again and is kept: forgotten by `release_or_leak`, or held by a GC task whose
  event does not precede any of that work (`Covers`), in whichever of the three
  places the task passes through. `RecordedIsKept` alone is not inductive, since
  what keeps the next allocation from taking the slice is that task.
- **Scheduler streams** (`Spec => []...`, for any set of streams on any number of
  slots, any list length, buffers and argument lists, both strategies):
  `TypeCorrect`, `TasksKept`, `ArgumentsFirst`. The invariant `Ordered` says that
  each list holds tasks of its slot in the order of registration (`Listed`), that
  a task is in its list or once on the compute queue (`Placed`), and that a task
  which still waits needs none that waits in the list of another slot (`Aligned`).
  The last is what `register` establishes when it flushes the streams of the
  arguments; without it a later flush of one list could overtake a task in
  another. The loops of both strategies are a sequence of sends (`InOrder`); what
  they send is proved by induction over that sequence, as the least place where
  the statement fails.
- **Workers** (`Spec => []...`, for any set of streams, any initial number of
  workers, any finite set of launch sizes and any number of calls):
  `WorkerTypesHold`, `StreamsRunInOrder`, `BarrierLaunchesExclude`,
  `WritesMeetNoUnit`. `completed` is one number per stream, and a unit runs when
  it has reached the launch's prerequisite. So the invariant `WorkersInv` says
  that `completed` stands at a border of two launches and that what lies before it
  is over (`StreamInv`). It moves there when `remaining` reaches 0, and that
  happens once, after the last unit, since `remaining` is never below the number
  of units that are unsent, in an inbox, pending or running (`UnitsInv`); the
  places of the units are a finite set, and a step that moves units maps the new
  places one to one to the old ones. `WorkerInv` says that one worker finishes a
  launch and that a barrier launch keeps `parallel` until then. The sequence
  numbers, u64 in the code, are unbounded in the model.
- **Barrier** (any number of units and calls): `BarrierTypeCorrect`,
  `BarrierSafe`. The counters mean different things while the barrier fills
  (`exited = 0`, `arrived` counts the units inside) and while it empties
  (`exited` counts those that left); the invariant has a conjunct for each phase,
  one for the unit that clears the counters, and one that relates the rounds.
- **Page manager** (`KvSpec => []...`, for any pool, block size, finite set of
  requests and token set, and any sequence of accepted calls, so also for callers
  other than the batch scheduler): `PagesAreAccounted`, `WritesAreExclusive`. The
  inductive invariant `KvInv` adds to the accounting (`Accounted`) that a table
  holds a page once and has the pages its tokens need (`Covered`), that free
  pages are unpublished, that a published page is a complete block of each of its
  holders, and that a page with two holders is published (`Shared`). Without
  them a release could free a page twice, and an append could meet a shared page:
  it writes past the complete blocks, and the invariant says that sharing ends
  there. The proof has one lemma per method of the manager; begin and extend rest
  on `Grown`, commit and cancel on `Shrunk`, the two ways to create on `Mapped`.
  `KvConfig` is what `PagedKvCacheConfig::validate` requires.

Only model-checked:

- all liveness properties: fairness and `ENABLED` are out of the prover's reach;
- `ContinuousBatch`: `ScheduleFrom` is a recursive operator, which the prover does
  not support. What its pages rest on is proved for `PagedKv` alone.

## Findings

- `registry_nested_init`: a task that calls `init` on a runner thread spins for
  ever on `CHANNELS` if another thread holds that lock while it waits for the
  same runner (channel.rs:327).
- `channel_partial_buffer`: a task submitted while the runner parks stays in a
  partial buffer until some other call flushes it (channel.rs:852).
- `batch_progress`: with chunked prefill, a preempted request can take the pages
  it gave up before the older request for which they were released gets them,
  again and again (continuous_batch.rs:908). `WholeHistoriesFinish` shows that
  chunks are what it takes.

## Not modelled

- **ruLLM**: samplers, deferred prefill with an admission ceiling, on-demand
  paging without preemption, statistics, `FencedBatchScheduler`, active swap and
  the disk tier of the prefix cache. The last three are further state machines
  over the scheduler; composed with it they exceed what TLC explores in minutes.
- **Event streams**: capture, and the bookkeeping of deferred errors. What the GC
  task of a command holds are ids, so nothing is said of buffers used across
  streams that were not recorded.
- **Registry**: `atexit` is taken to succeed; `shutdown` is not called on a runner
  (the assertion at channel.rs:787 would fail).
- **CPU workers**: a kernel that panics.
- **ruCCL, ruda-communication**: the collective servers are message-driven state
  machines that would be a module of their own. None has been written.
- **Numerical libraries, tensors, autodiff, fusion, training, front ends**:
  functions over floating-point data and shapes; nothing for a model checker to
  interleave.
- **Compiler, kernel DSL, macros**: functions over terms far larger than TLC can
  enumerate.
- **Drivers' vendor calls, sys crates, file formats, servers' HTTP, tools,
  website**: I/O or generated code.
- **ruda-runtime memory pools and autotuner**: sequential arithmetic, and choices
  by measured time.
- The wrap-around of `available_index`, `max_streams = 255`, and requests larger
  than the page pool are outside the assumptions of the models; they are listed
  as hazards.

The share of the repository's lines that is modelled is small because most of
the repository is numerical kernels and their generated variants. The modelled
files are those in which threads, streams or requests interact.
