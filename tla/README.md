# ART in TLA+: a verification project for `art-mlx`

ART (Agent Reinforcement Trainer) trains LoRA adapters of language models with
reinforcement learning: rollouts sample trajectories from a vLLM server, a training
service makes a new adapter from them, the server loads it, and so on. The
repository is a Python program of many cooperating tasks, threads and processes; what
is hard about it is not the arithmetic of a training step but who waits for whom,
which adapter and which checkpoint exist when, and what survives an exception, a
signal or a dead process. This project models those parts in TLA+, checks them with
TLC on small instances, and proves the most important results with TLAPS for every
value of the constants. Paths below are relative to the repository root.

* [The system](#the-system): inventory of the components
* [What is modelled](#what-is-modelled): module by module, how state and actions correspond to the code
* [The runs](#the-runs): what each checks and shows, bounds, fairness
* [The proofs](#the-proofs)
* [What the code does otherwise than it says](#what-the-code-does-otherwise-than-it-says)
* [Not modelled](#not-modelled) and [the plan](#the-plan)

## The system

### Components and their interactions

| component | where | state it keeps | operations | hard behaviours |
|---|---|---|---|---|
| **Pipeline trainer** | `src/art/pipeline_trainer/` | the output queue, the eval queue, `PipelineState` (policy version, next step, scenario offset, evals), leases of scheduled evals; `state.json` through the model | `train`, the rollout, training and eval stages, `request_stop`, `_persist_state` | three stages of one event loop, bounded queue, conditions, stop requests, exceptions in any stage, crash and resume |
| **Checkpoint retention and leases** | `pipeline_trainer/checkpoint_retention.py`, `local/adapter_leases.py`, trainer | lease counters per step in the trainer and in the backend | take and drop a lease, prune loaded adapters, delete checkpoints | prune awaits an HTTP call per adapter while leases come and go; orphaned evals |
| **Local backend** | `local/backend.py`, `local/checkpoints.py` | a service per model, checkpoint directories, lease manager | `register`, `train`, `_get_step`, `prune_model_adapters`, `close` | skipped steps that copy a checkpoint, partial failure |
| **Unsloth service** | `unsloth/service.py` | `_loaded_adapter_steps`, `_latest_step`, the vLLM runtime | start, train (dedicated or shared), reload and unload adapters, prune, close | HTTP requests with time-outs, GPU handed between trainer and server |
| **Unsloth training** | `unsloth/train.py` | adapter, optimizer and its moments, the two queues of a background task | RL and SFT calls, warm-up, moves to and from the GPU | the task runs the event loop from inside; calls cancelled or failing while they wait for it |
| **Process actors** | `src/mp_actors/` | futures of pending calls, two queues, flags, child process, threads | `move_to_child_process`, a call, cancellation, dispatch, close, the child's request loop and its monitor | three threads and two processes, flags written without the lock, death of either process, cancelled callers |
| **vLLM runtime** | `vllm_runtime.py` | a cache directory shared by the machine's processes, a file lock; the server process | install and clean up runtimes; start, watch and stop the server | processes dying half-way, file operations that are not atomic |
| **Service lifecycle, managed processes** | `utils/lifecycle.py`, `utils/managed_process.py` | saved signal handlers, atexit hooks, watched children | install and restore handlers, supervise children, clean up process groups | signal handlers nested by several services, a signal between two statements |
| **Megatron service and worker** | `megatron/service.py`, `megatron/train.py`, `megatron/runtime/` | job files, logs, wake lock, checkpoint and optimizer directories | submit a job, stream its log, run it on all ranks, publish the checkpoint, wake vLLM | a protocol over files between processes, crashes between two writes |
| **Megatron kernels** | `megatron/training/`, `context_parallel/`, `gdn/`, `dsv4/`, `weights/` | tensors, streamed weights in slots, exchanges under way | training arithmetic, sharding, streaming of frozen weights, context-parallel attention | loads on another thread and stream; ranks that must make the same collective calls |
| **Trainer rank** | `trainer_rank/` | adapter slots, tensors | forward requests packed in one row, backward, optimizer steps | collective calls |
| **Tinker backends** | `tinker/`, `tinker_native/` | clients of a remote service, an LRU trie of prefix caches | train, sample, cache | eviction from a compressed trie |
| **Serverless backend** | `serverless/` | none beside the remote service's | REST calls, polling | outside the repository |
| **MLX backend** | `mlx/` | model, step counter | train (the update is a placeholder), export, checkpoint | none yet |
| **Model, metrics, costs** | `model.py`, `metrics.py`, `costs.py`, `api_costs.py` | `state.json`, logs | log, `merge_state`, count costs | persisted state |
| **Preprocessing** | `preprocessing/`, `megatron/prefix_tree*.py` | local | tokenize, pack sequences into rows that share prefixes, the tree and the mask read back from a row | boundaries: what may be shared, what fits, which block of a mask may be skipped |
| **Gathering** | `gather.py`, `batches.py`, `trajectories.py` | none or local | gather with an exception budget | exceptions inside `asyncio.gather` |
| **Weight transfer** | `weight_transfer/` | packed buffers | broadcast weights | buffer reuse on streams |
| **Helpers** | `utils/retry.py`, `utils/limit_concurrency.py` | a semaphore | retry, bound concurrency | cancellation |

How they work together: the trainer's rollout workers sample from the adapter of the
current policy step, which the local backend names and its service has loaded into
vLLM. A lease pins that step in both the trainer (files) and the backend (loaded
adapters) until the rollout is over. The training stage hands a batch to
`LocalBackend.train`, whose service (possibly a process actor, possibly Megatron behind
job files) writes a checkpoint and loads it. The trainer publishes the step, wakes the
workers, has the adapters outside the off-policy window unloaded, applies the retention
strategy to the files, and may schedule an evaluation, which holds a lease of its own.
vLLM itself runs from an installed runtime, as a managed process whose cleanup hangs on
the service's signal handlers.

### What makes each component correct

* *Pipeline trainer*: no group is trained on that is older than allowed; the versions in
  use have checkpoints; no rollout result is lost or counted twice; each scheduled eval
  runs once and its lease goes with it; what is persisted never goes back, nor behind it
  the run that resumes; the step limit holds; the run ends.
* *Retention*: what rollouts and evals sample from stays loaded; what the KL penalty will
  read stays on disk; the newest checkpoint stays; nothing stays in vLLM that nobody
  can unload.
* *Process actors*: each accepted call ends once, with the answer of a method that
  was run or with an error; no call hangs; no child process is left over.
* *vLLM runtime*: no runtime is handed out half installed or half deleted; nothing in use
  is deleted; a failed install does not prevent the next one.
* *Lifecycle*: a closed service leaves no process behind, whatever its server does; a
  signal closes every service that is open; no server outlives the parent; a
  server that ends is noticed.
* *Megatron service and worker*: a job takes effect once, its checkpoint appears whole or not
  at all, the optimizer state belongs to it, all ranks are in the same job, trainer and
  server take turns on a shared GPU, and a submitted job ends.
* *Unsloth training*: trainer and server take turns on a shared GPU; what is served is made
  of whole calls; an optimizer's moments belong to the kind of call; a call ends.
* *Packing*: a sequence in a packed row is trained as if it were alone in it.
* *Context-parallel attention*: each query is given each of its keys once, each key its
  gradients once, and no rank waits in an exchange the others do not enter.
* *Weight streaming*: a kernel sees its layer's weights; slots suffice; a job ends.
* *Prefix cache*: it is a bounded list of prefixes in the order of their use.

The hazards, one by one with their source lines, are in `PROJECT.json`.

## What is modelled

The order of the modules is that of their importance to the program: the trainer, the
adapters it depends on, the actors the services run in, the runtime they start,
how services and servers end, the two training services, and the discrete algorithms
below them.

| module | models | proofs |
|---|---|---|
| `PipelineTrainer` | `src/src/art/pipeline_trainer/trainer.py` | `PipelineTrainerProofs` |
| `AdapterRetention` | the leases, `prune_model_adapters`, `prune_loaded_adapters`, checkpoint retention | `AdapterRetentionProofs` |
| `RemoteCalls` | abstract: what an actor's proxy promises its callers | |
| `ProxyActor` | `src/src/mp_actors/move.py`; refines `RemoteCalls` | `ProxyActorProofs` |
| `RuntimeInstall` | the installer in `src/src/art/vllm_runtime.py` | `RuntimeInstallProofs` |
| `ManagedProcess` | `src/src/art/utils/managed_process.py`: the wrapper of a server | in `ServiceLifecycleProofs` |
| `ServiceLifecycle` | `src/src/art/utils/lifecycle.py`, `ManagedVllmRuntime`, the start and close of `UnslothService` and `LocalBackend.close`; extends `ManagedProcess` | `ServiceLifecycleProofs` |
| `CheckpointHistory` | abstract: what a training service promises of its checkpoints | |
| `MegatronJobs` | `src/src/art/megatron/service.py` and the ranks of `megatron/train.py`; refines `CheckpointHistory` | `MegatronJobsProofs` |
| `UnslothTraining` | `src/src/art/unsloth/train.py`, the calls of `unsloth/service.py`, the two ways to close | `UnslothTrainingProofs` |
| `PrefixTree`, `PrefixMask`, `PackedRows` | packing into rows with shared prefixes, its parser, its attention mask, the calls that pack | the block mask in `MegatronKernelsProofs`; packing and parsing are recursive: TLC only |
| `ContextParallel` | `src/src/art/megatron/context_parallel/`: planner, exchanges, execution | the exchanges in `MegatronKernelsProofs` |
| `WeightStreaming` | `src/src/art/megatron/training/streaming_weight_offload.py` | `MegatronKernelsProofs` |
| `PrefixList` | abstract: a bounded list of prefixes in the order of their use | |
| `PrefixCache` | `src/src/art/tinker/prefix_cache.py`; refines `PrefixList` | recursive: TLC only |

The `MC...` modules give TLC model values, the named sets the configurations choose from, and
symmetry sets. `MCTrainingParts` combines five modules that share no state,
`UnslothTraining`, `PackedRows`, `ContextParallel`, `WeightStreaming` and `PrefixCache`: the
variable `part`, chosen in the initial state, says which of them takes steps while the
variables of the others keep their initial values, so that one run explores each by itself. The
`Mutant:` operators in the modules are plausible errors of the definition they stand
before; nothing uses them. They show, when they replace that definition, that the
property they are listed with can fail.

### PipelineTrainer

All stages are asyncio tasks of one loop, so **an action is the code between two points
where a task may lose the loop**. The variables are the fields of the trainer and of
`PipelineState` (`pv` is `policy_version`, `nts` is `next_training_step`, `outq` is
`_output_queue`, `scheduled` is `_scheduled_eval_steps`) and, for each stage, where it is
(`wpc` per worker, `rpc` for the rollout stage, `tpc`, `epc`). `saved` is what
`state.json` holds and `bstep` the newest checkpoint.

* A worker (`_rollout_worker`): `BeginFetch`, `TakeScenario` or `NoScenarioLeft`,
  `Recheck` (woken in `_wait_for_policy`), `RolloutReturns` or `RolloutFails`, `PutGroup`,
  and `PutTimesOut` for `_put_output_group`'s second-long `wait_for`.
* `_collect_batch` awaits `get()` on a queue that has items without giving the loop away
  (asyncio's `Queue.get` does not suspend then). It is therefore written one item at a
  time (`TakeGood`, `TakeStale`, `TakeFlat`, `TakeFailed`, `TakeSentinel`, `Collapse`) with
  `tpc = "drain"`, during which `LoopFree` keeps every other task out, until it is over
  or blocks (`BlockOnQueue`).
* A train step is `BeginTrainStep`, `BackendSaves` (the checkpoint is there, the trainer
  does not know), `TrainReturns`, `Publish`. `BackendSaves` may leave the step where it
  was: the backend can return without a new one.
* `Fail` is an exception in any stage: the `TaskGroup` cancels the others, but an eval that
  the eval stage is not awaiting is a task of its own and survives in the process
  (`orphans`), to persist its trainer's state when it ends (`OrphanPersists`).
* `Crash` keeps `saved` and `bstep` only. `Resume` is a new `train()`: it reads both,
  skips the scenarios already consumed and may schedule a first eval. Each run has a
  `max_steps` of its own (`limit`, any of `StepLimits`).

Groups are records of the policy version they were sampled with and a kind: `good`,
`flat` (no variance in the rewards), `empty` (no trajectories), `failed` (every rollout
raised). `RolloutFails` is a `rollout_fn` that raises. Left out: `train(resume=False)`,
the batching of metrics, and the wall-clock part of `wait_for`: a put may time out
whenever the queue is full.

Properties of the runs: `FreshBatch` (off-policy bound at training time); `StepsSaved`;
`GroupsConserved` (a balance of all scenarios consumed); `EvalLeasesAccounted`; the action
properties `SavedMonotone` and `NoEvalLeftBehind` (no eval is overdue between two
steps, and none is left when a run nobody stopped ends); the liveness
properties `AlwaysEnds` and `StopRequestEndsRun`. Proved for every value of the constants and
therefore in no run: `TypeOK`, `VersionGate` (the gate workers wait at closes only while
`backend.train` runs) and `StepsBounded`.

### AdapterRetention

Composes what the trainer, the local backend and the Unsloth service of dedicated mode
know of a step: `leases` (the backend's `AdapterLeaseManager._counts`), `held` (the
trainer's `_checkpoint_lease_counts`), `ckpts` (directories), `loaded` (what vLLM
serves), `known` and `latest` (what the service believes); `unsure` is a history variable,
the copied checkpoints whose load failed in this process. The train loop of
`PipelineTrainer` is reduced to the steps that touch them; queues and batches are left to
that module and an eval may be due at any step, any number of them queued.

* `BeginTrain`, `WriteCheckpoint` (written by training, or copied when no group is
  trainable), `VllmLoads` and `LoadReplies` (an HTTP request and its reply: the reply may
  be lost), `Publish`, then per adapter `VllmUnloads` and `UnloadReplies`, `PruneEnds`,
  `RetainCheckpoints` (any subset of what is not protected may be deleted: any
  strategy), `StepEnds`.
* `EvalStarts`, `EvalReturns`, `EvalEnds`, `OrphanEnds` and the rollouts
  (`RolloutStarts`, `RolloutEnds`) take and drop leases.
* `UnloadTimesOut`, `CopyTimesOut`, `StageRaises` end the run and leave the service alive;
  `Retry` starts another run on it; `Dies` and `Restart` replace the process.

Properties: `LeasedServed` (what is sampled from is loaded, and a queued eval finds its adapter
and checkpoint; failed copies excepted), `KlReferenceKept`, `LeasesCounted` (the types, and
counters equal holders), `NothingLeaked`, `StepNeverGoesBack`.

### RemoteCalls and ProxyActor

`RemoteCalls` is the abstract specification: a call is accepted or refused, an
accepted call ends once and keeps its end, an answer is given only by a method that
was run, nothing is accepted once the proxy is shut.

`ProxyActor` has the caller's coroutine (`Check`, `Register`, `Send`, `Cancel`), the
child (`Fetch`, `Return`: methods run concurrently and finish in any order; `ChildEnds`
leaves a prefix of what was queued, its last response perhaps torn), the child's monitor
thread (`MonitorSees`, `ObjectCloses`, `ForcedExit`), the dispatcher thread
(`GetResponse`, `PopFuture`, `Deliver`, `GetTimesOut`, `GetRaises`, `OnEmpty`,
`DispListsPending`, `DispFailsOne`, `DispFailed`) and `close()` (`CloseBegins` to
`CloseQueues`). Threads interleave between any two of these. `_closing` and
`_dead_process_error` are read under `_futures_lock` but written without it, which is why
reading them and registering the future are two actions.

The refinement mapping (`Promise` in `ProxyActor`): a call is `new` until its future is
registered, `pending` until the future is resolved, then `over`; the proxy is shut once
`close()` has listed the pending futures. `KeepsPromise == Promise!Spec`.

Other properties: `PendingTracked` (a pending future is in `_futures`, being
delivered or on a list being failed); `NoneAfterListing` (no registration slips in after
the last listing), proved and in no run; and the liveness properties `EveryCallEnds`, `AnsweredCallEnds` (the same
but for the calls the child sent no answer for, or that were pending when the dispatcher met
a response it cannot read) and `NoOrphanChild`. `silent` is a history variable: the
calls no response was sent for. Not in the module: the
start-up handshake (`ready`, time-outs), attribute access and async generators.

### RuntimeInstall

The state is the cache directory: for each version the parts its directory has, stage
directories and the file lock; for each process where it is in `ensure_vllm_runtime`. The
parts are `dir`, `config` (`.venv/pyvenv.cfg`), `server` (the executable in `.venv/bin`),
`marker` (a readable `install.json`), the four the validator looks at (`Managed`,
`Validated`), and `packages`: the rest of `.venv`, many files of which nobody checks one, as
one part that is there when all of them are. `rmtree` deletes part after part in any order (`Delete`),
may fail (`DeleteFails`, `Undone`) and the process may die between any two
(`Dies`, which stands for a `KeyboardInterrupt` as well: the handler catches
`Exception` only). The second look at the directory in `_install_managed_runtime` cannot
differ from the first, both are made under the lock: `SyncFails` covers the case in
which a directory is there that does not validate. Two history variables: `abandoned`, the
directories that were there and not managed when the lock was last released, and `cutShort`, the
versions whose directory a deletion left incomplete and that were not installed since.

Properties: `ReturnsWhole` (what is returned validates, and is whole, all its parts there,
unless it is in `cutShort`); `UsedUntouched` (the directory of a runtime in use does not change, when
the processes of other versions are all in `Keepers`, those with `ART_VLLM_RUNTIME_KEEP_OLD`);
`OnlyMishapsAbandon`; `AbandonedKept`, proved and in no run.

### ManagedProcess and ServiceLifecycle

`ManagedProcess` is the wrapper each server runs under and what lives of the server's
process group: `leader` (the server) and `helpers` (another process of the group).
The wrapper boots (`Boot`), polls (`PollLoop`: it was `asked` by a SIGTERM, its parent is
gone, or the server ended), waits for the server it sent a SIGTERM (`GraceEnds`) and
sweeps the group (`SweepEnds`). Time is counted in sleeps: `Passes` happens only when no
sleep is over, so that a wrapper is as prompt as the code's `time.sleep`; nothing at all
is assumed of the servers, which may end (`LeaderExits`, `HelpersExit`) or not.
`WrapperLost` is a SIGKILL of the wrapper by somebody else.

`ServiceLifecycle` adds the services of one backend in one process (`in_process`; a service
moved to a child process is the same with one service). `close()` runs on the event
loop's thread and blocks it, but a signal's handler runs on top of whatever that
thread is doing: `frames` is its stack, of `close` frames, `signal` frames (with the handlers
still to run, one service's calling the one it found) and, at the end, the `exit` frame
that runs the atexit `callbacks`.

* `Start`, `Ready`, `StartCancelled`, `Fails` (the server ends or does not answer in time,
  or a training step raises), `WatchExit` (the supervisor's task).
* `CallClose` (`begin_close`), `CloseAsks`, `CloseReleases`, `CloseKills` (time-out),
  `CloseReturns` (`restore_parent_cleanup`).
* `BackendCloses`, `BackendClosesNext`, `BackendClosed`; `Signal`, `RunHandler`, `Raises` and
  `Raised` (the last handler raises, through the frames it interrupted), `Exit`,
  `ExitCloses`, `Exited`, `ParentDies`.

SIGINT and SIGTERM are one signal: both are saved, installed and restored together.
`doubled`, `revived`, `cut` and `disordered` are history variables for what the properties
except. The server's NCCL group and log file are left out.

Properties: `ClosedMeansGone` (of a service and of the whole backend), `CloseKillsServers`
(the same without the exception of revived services), `SignalClosesAll` (with the types), and the
liveness properties `NoOrphans` and `EndNoticed`.

### CheckpointHistory and MegatronJobs

`MegatronJobs` is one service and the ranks of its worker. They share files only:
`jobFile` (the job in the jobs directory, `whole` once its writer has closed it), `done`
(the logs that say "all done"), `lock` (the file that says vLLM is waking), `staging`, `ckpts`
and `shards` (adapters and optimizer shards). The weights of a checkpoint are the jobs
that trained them, in order; an adapter being written in place is `Torn`.

* The service: `StartServer`, `Sleep`, `Submit` (up to the opened job file), `WriteJob`,
  `SyncDone`, `Publish`, `Refuse`, `Wake`, `Reload`, `Copy` (the backend's step without
  trainable groups), and its ends `Fail`, `CloseVllm`, `CloseEnds`, `Crash`. `mode` is shared GPUs, own
  GPUs with LoRA, or own GPUs with merged weights; merged mode starts with a `sync` job.
* A rank: `Boot`, `List`, `Ready` (`wait_until_ready`), `Load`, `Begin`, `SaveShard`, `Reread`,
  `After`; rank 0 also `WriteAdapter`, `AdapterWritten`, `RemoveJob`, `LogDone`. `Barrier`,
  `TrainTogether`, `Merge` and `Finalize` are collectives: one action for all ranks, which have
  to be there. `WorkerFails` ends all ranks, as `torchrun` does, for any error, out of memory or a
  collective's watchdog; a wrapper ends the worker (`WorkerEnds`) possibly after `close()` gave up
  waiting for it, since 5 s are less than its wrapper may need.

The refinement mapping to `CheckpointHistory` is the list of published checkpoints:
`KeepsHistory` says that each is the one before it trained by one job that was in none, or a copy.
`GpuExclusive`, `DoneMeansSaved` (the log's last line comes after everything else, on every rank),
`OptimizerFits`, `RanksTogether` (with the types), `StepsAgree` (disk, service and vLLM agree on the
step) and the liveness property `JobEnds` are the others. `split`, `unregistered` and `interrupted` are
history variables for what they except. Left out: the interim checkpoints of SFT jobs, the
contents of a training step, and the log's other lines.

### UnslothTraining

The background task, `trainer.train()`, is synchronous and **runs the event loop from inside itself**
while it waits for an input: a whole training step, from the input taken to the result put, is
one action (`TrainStep`). `inputs` and `getters` are the two queues' contents, `unfinished` the
results not marked done, `call` the one call that runs, and `weights` the updates made, each with
its call and its place in it.

* RL: `Start`, `Sleep` (shared mode: vLLM sleeps, the trainer takes the GPU), `Join`, `TrainStep`,
  `WarmedUp`, `Rested`, `Yield`, `Save`, `Wake`, `Reload`. SFT: `SftBatch` instead of the task's steps.
* `TrainFails`, `TrainerOver`, `StepFails` and `Cancel` (at any await) raise: `Raise` asks the
  trainer to stop and closes the service, which waits for it (`Stopped`). `VllmExits` is the supervisor's.
* `BackendCloses` is `await close()`, `BackendClosesNow` the synchronous exit of `with LocalBackend()`,
  `LoopEnds` the end of the event loop, which nothing may run from inside by then.

Properties: `GpuExclusive`, `ServedWhole`, `UpdatesSound` (a training step has its parameters on the
GPU and moments of its own kind of call only) and the liveness property `CallsEnd`. Left out: losses,
the trainer's configuration, and the merged-weight mode's update of vLLM.

### PrefixTree, PrefixMask and PackedRows

`PrefixTree` is the packing (`Walk`, `Segments`, `Pack`): a prefix shared by several sequences
becomes a segment, each branch a segment under it. `PrefixMask` reads a row back as the
attention does: `Accepted` and `ParseRow` (the parser, which raises on malformed rows), `Slices`
and `Intervals` (two encodings of who sees whom) and the block mask (`Touches`, `Fills`, `BlockKind`):
`Attended` is what the kernel attends to in the end, with the skipped, full and partial blocks.
`PackedRows` has the two callers: `TakeResult`, `SkipResult` and `PackRows` for training
(truncation, how much may be shared, whether one more result fits), `TakeRequest` and
`PackRequests` for the trainer rank's forward calls. `PackedAsAlone` puts five statements together:
packing is never refused, nothing is cut, a token attends to its own prefix within the window
and nothing else, the token before a trainable one is at its side, where the shifted
loss reads it, and the slices hold every pair that the intervals let see. The reference definition is the sequence alone. Left out: images, weights and
MoE routes, which follow the tokens.

### ContextParallel

The initial state is a plan: a row cut in chunks, chunks assigned to ranks, slices cut along
them (`Pieces`), stages with the keys in the order they come out of the exchange, and their block
masks. The planner's estimate of time is abstracted: any assignment that leaves no rank
without a chunk may come out. A rank launches all fetches, runs its local stage, then each remote
stage as its exchange completes (`RunReady`, in any order), drains what is left, launches the
reductions of the backward pass and merges what returns. The n-th calls of all ranks are one
exchange (`Exchange`), which takes place only when all have launched it with sizes that fit. `out` and
`grad` count how often each query was given each key, and each key the gradient from each query.
`AttentionExact` compares them with the visible pairs of the tree, and says that the calls of all
ranks agree, that no exchange gets stuck, and that each stage receives the keys its mask was built
for. Left out: the other
collectives, GDN's and DSv4's plans; `remote_dkv_reduce_plan`'s global branch, which no caller reaches.

### WeightStreaming

The training thread's hooks are lists of things done to layers (`todo`), the loader thread takes
loads from a queue (`Take`, `Pin`, `RunLoad`, `LoadFails`), and the GPU has two streams, `kernels`
and `transfers`, that advance in their own time; a copy waits for the kernels launched before it
when its slot was released on their stream. `StreamingSafe` is four statements: a kernel sees its
layer's weights from launch to end (`KernelsSeeWeights`), slots suffice (`SlotsSuffice`), no more than
`resident_layers` are on the GPU (`ResidentBound`), and between jobs all layers are offloaded
(`IdleMeansOffloaded`). That a job ends or fails (`JobsEnd`) is part of `PartsEnd`. Left out: growing of the buffers (`ensure_capacity`) and
`record_stream`. A new GPU buffer is allocated on the loader thread's current stream and filled on the
transfer stream, which does not wait for it: the model, whose slots always have their
buffers, says nothing about that.

### PrefixList and PrefixCache

`PrefixCache` is the radix trie with its nodes, `Lookup`, `Insert` (with the splitting of an edge),
eviction (`Evicted`, `Prune`, `Merged`). `PrefixList` is a list of at most `MaxEntries` prefixes,
oldest first, of which a lookup finds the longest that fits; the mapping reads the text of each listed
node off the trie. `CacheKeepsPrefixList` is the refinement, the shape of the trie is in
`PartsWellFormed`.

## The runs

| run | module | checks | distinct states |
|---|---|---|---|
| `pipeline_restarts` | `MCPipelineTrainer` | `FreshBatch`, `StepsSaved`, `GroupsConserved`, `EvalLeasesAccounted`, `SavedMonotone`, `NoEvalLeftBehind` | 2.3 million |
| `pipeline_ends` | `MCPipelineTrainer` | `AlwaysEnds` | 500,000 |
| `pipeline_stop_hangs` | `MCPipelineTrainer` | `StopRequestEndsRun`: violated | |
| `adapters_retained` | `MCAdapterRetention` | `LeasedServed`, `KlReferenceKept`, `LeasesCounted`, `NothingLeaked`, `StepNeverGoesBack` | 170,000 |
| `proxy_calls` | `MCProxyActor` | `PendingTracked`, `KeepsPromise`, `AnsweredCallEnds`, `NoOrphanChild` | 120,000 |
| `proxy_undecodable` | `MCProxyActor` | `EveryCallEnds`: violated | |
| `runtime_shared` | `MCRuntimeInstall` | `ReturnsWhole`, `UsedUntouched`, `OnlyMishapsAbandon` | 200,000 |
| `services_close` | `MCServiceLifecycle` | `ClosedMeansGone`, `SignalClosesAll` | 2.6 million |
| `services_end` | `MCServiceLifecycle` | `NoOrphans`, `EndNoticed` | 140,000 |
| `services_revived` | `MCServiceLifecycle` | `CloseKillsServers`: violated | |
| `megatron_jobs` | `MCMegatronJobs` | `GpuExclusive`, `DoneMeansSaved`, `OptimizerFits`, `RanksTogether`, `StepsAgree`, `KeepsHistory`, `JobEnds` | 550,000 |
| `training_parts` | `MCTrainingParts` | `PartsWellFormed`, `GpuExclusive`, `ServedWhole`, `UpdatesSound`, `CallsEnd`, `PackedAsAlone`, `AttentionExact`, `StreamingSafe`, `PartsEnd`, `CacheKeepsPrefixList` | 170,000 |

The types of the modules without a proof of them are checked as conjuncts: of `LeasesCounted`,
`SignalClosesAll`, `RanksTogether` and `PartsWellFormed`.

### Bounds, and why they are enough

* *Pipeline*: two workers (two can race for the queue and for the policy gate; they are
  interchangeable, so symmetric), three scenarios (enough for two train steps and leftovers,
  or one step and a resumed run), batches of one to two groups (a batch can be partial), a
  queue of one or two (it is often full), `max_steps_off_policy` 0 or 1 (the gate closes and
  opens), a discard limit of two, an eval after each step, two runs of `train()`
  (`MaxRuns`), so that one crash or failure and one resumption happen anywhere, each with
  `max_steps` of none, 0 or 2. Collapses, stale groups, all-failed groups, empty queues and
  stops all occur, as TLC's action coverage shows.
* *Adapters*: two workers, `StepMax` four train steps (steps leave the off-policy window of
  one while pinned; the retention interval of two comes twice), a KL reference one step back,
  `RunMax` two runs.
* *Actors*: two calls, enough for one to race the other's failure and for two futures on a
  list; the safety properties are proved for any number. No symmetry, which would not be
  sound for liveness.
* *Runtime*: three processes, two of one version and one, after an upgrade, of another that
  keeps old runtimes: installers race with each other and with the clean-up.
* *Services*: two services and two servers (each its own, or one service starts both), one
  signal, every sleep one unit and `close()` as patient as `PatienceAssumption` asks, no
  more (the code's 15 s against 0.5 + 5 + 0.5 s). Services and servers are symmetric; the
  liveness run has one service and no signal, and no symmetry.

* *Megatron*: two ranks, one of which is the one that writes, three jobs (a failed one can lie between
  two that succeed), one copied step, two starts of the service, all three modes.
* *Training parts*: three Unsloth calls of up to two items; up to three results of nine kinds
  (repeated prefixes, prompts that end inside a shared prefix, one longer than the row of six) and three
  requests; three rows of attention on two or three ranks with two or three chunks each and
  up to two waves, with and without a window, blocks that do not divide the row; five texts that share
  prefixes in a cache of three entries.
* *Weight streaming*: four layers and three slots with one to three resident (a layer is fetched when it is
  needed, or every slot is taken; a slot passes from layer to layer), two passes, with and without
  gradients, in each of two jobs, so that a pass starts from what another left.

Deadlock is not checked for the trainer, the adapters, the actors and the services, which
come to rest: a run over, the last run of the bound, a closed proxy, the end of the
process. It is checked for
`RuntimeInstall`.

### Fairness

`PipelineTrainer!Fairness`: the event loop runs every task that can run, and `rollout_fn`,
`eval_fn` and `backend.train` return: weak fairness of each worker, each stage and the
collection. asyncio's ready queue is first in, first out, which is what justifies it. Nothing
makes a signal, an exception, a crash or a resumption happen.

`ProxyActor!Fairness`: threads and processes keep running and methods end in the child.
The dispatcher's loop and `close()` are strongly fair: they share a queue and a
lock with callers who come and go, and each is asked for its next step again and again.
Nobody has to call, close or die.

`ServiceLifecycle!Fairness`: time passes, wrappers keep running, the main thread goes on with
what it is in the middle of, the supervisor's tasks are run, and the start of a server polls its
wrapper until it answers (`PollFails`). No server has to end, no service to start or close.

`MegatronJobs!FairSpec`: the service goes on with what it began, each rank and each collective all ranks
have joined goes on, the exit of the worker is noticed, and wrappers end what they have to. Nothing
makes a job start, a failure or a kill happen.

`MCTrainingParts!PartsSpec` gives each part its own fairness: a step of the event loop that
can be taken is taken and requests end, with an answer or an error (`UnslothTraining`); every rank goes on
and an exchange all have launched takes place (`ContextParallel`); both threads and both
streams advance (`WeightStreaming`). No call has to be made, no job begun, and a load may fail.

### Conditions under which a property holds

Some properties hold only under a condition the configuration names; they fail without
it, and the code is the reason.

* `SavedMonotone` is about what was saved: after a crash the scenarios taken since the last save are
  handed out again. It is checked with a failed `train()` resumed in a new process. Retried in
  the same process (`RetryInProcess = TRUE`), an orphaned eval of the failed run may end
  later and overwrite newer state with its own.
* `NoEvalLeftBehind` speaks of runs nobody stopped. On a stop during a train step the eval stage may be
  over before the step schedules its eval, which is then never run (`trainer.py:722`).
* `AlwaysEnds` holds without `max_steps` (`pipeline_stop_hangs` is the case with it).
* `LeasedServed` and `NothingLeaked` except the copied checkpoints whose load failed
  (`unsure`): such a copy is the newest step and may not be served (`local/backend.py:1058`), or, when vLLM executed
  the load and only the reply was lost, stays loaded because the service never hears of it.
* `AnsweredCallEnds` excepts a method whose result cannot be pickled, or that is cancelled
  in the child: no response is sent and its caller waits until `close()`. It excepts the
  calls pending when the dispatcher meets a response it cannot read: one that does not
  unpickle (`proxy_undecodable`), or one torn by the death of the child, at which `get`
  blocks. These too end with `close()`.
* `ReturnsWhole` excepts the runtimes of which a deletion was cut short (`cutShort`), by a death or
  an error of `rmtree`: the clean-up's (`vllm_runtime.py:551`) or, after it failed in a process that had
  just installed, that of the undo (`vllm_runtime.py:629`). Whatever that took of `.venv` but
  `pyvenv.cfg` and the server's executable, the validator does not miss it: the next process of that version is
  handed a runtime without, say, its packages, and so is each one after it, as nobody
  installs what validates. Without the exception TLC shows this in 15 steps.
* `UsedUntouched` depends on `ART_VLLM_RUNTIME_KEEP_OLD` in the environment of the processes
  of other versions; a process without it deletes the runtime in use.
* `ClosedMeansGone` excepts services started again while they had a
  server (the first is then forgotten), started again after they were closed
  (`services_revived`), and those whose `close()` a signal cut short; and servers whose
  wrapper somebody killed, which the kernel only sends a SIGTERM.
* `SignalClosesAll` holds while services are closed newest first. `LocalBackend.close` closes
  the oldest first: between its steps, and after a single service is closed early, the
  handlers installed are no longer those of the open services.
* A process that dies between the rename and the marker leaves a directory that
  `AbandonedKept` shows nobody repairs: installs of that version then raise until it is
  removed by hand. `OnlyMishapsAbandon` says that nothing else leaves one.

* `RanksTogether` and `JobEnds` except the case in which a job came or went while the ranks listed
  the directory (`split`, `megatron/train.py:447`): one rank then waits inside a job, the others in
  the loop's barrier, until a watchdog ends the worker. `JobEnds` also excepts a wake lock left
  by a killed service (`StaleLock`, `megatron/service.py:915`), for which the ranks wait without end.
* `OptimizerFits` excepts jobs that had saved a shard when they were interrupted, whose optimizer
  state is then ahead of the weights (`interrupted`, `megatron/train.py:877`).
* `StepsAgree` excepts copied checkpoints whose registration failed (`unregistered`): in shared mode
  the service goes by the step it remembers, trains a step that exists and is refused at the end.
* In merged mode a rank may read the staged adapter while rank 0 writes it (`megatron/train.py:1631`);
  the torn read ends the worker. `KeepsHistory` and `DoneMeansSaved` hold nevertheless.
* `CallsEnd` excepts what follows a call cancelled while it waited for a result (`leaked`): the getter it
  leaves behind takes the next call's result. It speaks of `await close()`: after the synchronous
  exit of `with LocalBackend()` the trainer still runs the event loop, which does not end.
* `ServedWhole` excepts a call that failed and could not close the service because stopping the
  trainer raised (`unclosed`): the service goes on with half a call's updates.

## The proofs

TLAPS checks these with no step left open; the only assumptions are the `ASSUME`s of the
modules, which say of which kind the constants are (and which TLC evaluates in every run).

**`PipelineTrainerProofs`**, for any number of workers, any sizes, limits and outcomes, and
any number of runs:

* `TypeCorrect` (`TypeOK`). The invariant is `Typed`, which adds `DiscardRoom`: the discard
  queue is below its limit as long as the training stage lives, without which the next flat
  group would leave its range.
* `VersionGateHolds`, `FreshBatchHolds`, `StepsSavedHolds` (`VersionGate`, `FreshBatch`,
  `StepsSaved`) from one inductive invariant, `VersionInv`. None of the three is
  inductive alone: a batch is fresh because a group was compared with `cur` when taken
  and `cur` is constant while the batch exists, and no group is newer than `cur` because
  every group anywhere, in a worker's hands, in the queue, in the batch, was made by now
  (`MadeByNow`).
* `StepsBoundedHolds` (`StepsBounded`) from `LimitInv`, which says in which stages of a train
  step the checkpoint may be one ahead of `cur`.
* `EvalLeasesHold` (`EvalLeasesAccounted`) from `LeaseInv`, which adds that the stage holds
  a dequeued step exactly while it awaits the previous eval.
* `GroupsConservedHolds` (`GroupsConserved`). Groups are counted as sets, the workers that hold one and
  the places of the queue that are no sentinel, and each step is shown to move one element: a put adds
  the place `Len(outq) + 1` (`AppendCounted`), a get takes the first and shifts the others by a
  bijection (`TailCounted`).
* `NoEvalLeftBehindHolds` (`NoEvalLeftBehind`) from three invariants. `DueInv`: whether an eval is due is
  decided before `train`, when it is not known whether the step advances, and the decision is not lost
  because no eval of the next step can be scheduled in between. `QuietInv`: once the stages were told
  to end and the eval stage passed its last look at the queue, nothing is queued any more, as the training
  stage is the one that tells. `OverInv`: a run that is over has left nothing but orphaned evals.
* `SavedMonotoneHolds` (`SavedMonotone`), for `~RetryInProcess`, the case `pipeline_restarts` checks and
  without which the property is false (below "Conditions"). `SavedInv` says that what is saved is not ahead of
  the run, and that the orphaned
  eval of a run that ended would persist what that run had, and that nobody has overtaken it.

**`AdapterRetentionProofs`**, for any number of workers, evals and steps, any `max_steps_off_policy`, any
lag of the KL reference, and every cancellation, failure and restart, from one inductive invariant `IInv`:

* `Invariant`. `CountInv` counts the holders of each step as sets of workers and orphaned evals;
  `Believed` says of which adapters the service is wrong: what it believes loaded and vLLM lacks is out of
  the window and has no lease, so nobody can come to sample from it (`Outdated`); `Pruning` follows the
  set a prune has yet to unload from call to call; `Serves` says what is sampled from is loaded.
* `LeasesCountedHolds` (`LeasesCounted`), `LeasedServedHolds` (`LeasedServed`), `NothingLeakedHolds`
  (`NothingLeaked`). The argument for the second is that an adapter outside the window without a lease
  stays so, since leases are taken on the current version only and the version does not go back; so the
  decision of a prune is still right when its last HTTP call returns.
* `KlReferenceKeptHolds` (`KlReferenceKept`) from `References`: with a lag of `k`, every step from the
  reference of this train step to the newest is on disk, although each retention protects but one.
* `StepNeverGoesBackHolds` (`StepNeverGoesBack`): only a train step and a retention change the checkpoints, and
  a retention keeps the newest.

**`ProxyActorProofs`**, for any set of calls and every failure:

* `TypeCorrect` (`TypeOK`), with `Answering`: only decodable responses are delivered.
* `NoneAfterListingHolds` (`NoneAfterListing`) from `Ordered`: a call between its check and
  its registration holds the lock, the flags are set before the listing, so when the
  lister gets the lock, whoever read the flags before has registered. This is
  why the unlocked writes of the flags are harmless.
* `PendingTrackedHolds` (`PendingTracked`).
* `ProxyImplementsRemoteCalls` (`KeepsPromise`): the initial state maps to the initial
  state and each step to a step of `RemoteCalls` or a stutter. It needs the trace
  invariants `SentAccepted`, `AnsweredExecuted` and `ResultsLater`: whatever is in a
  queue or running belongs to a registered call, and an answer on its way belongs to
  a call the child has run.

**`RuntimeInstallProofs`**, for any processes and versions:

* `TypeCorrect` (`TypeOK`), which includes mutual exclusion, with `Targets` and `Progress`
  (`Steady`): what a process in the critical section deletes, and what it has of its own
  runtime.
* `ReturnsWholeHolds` (`ReturnsWhole`): a process reaches the end of the clean-up with a
  runtime that validates because it never deletes its own version there and no other process is
  inside. By `LossesKnown`, what validates without being whole is being deleted, or was left
  so by a deletion that was cut short; who returns deletes nothing.
* `AbandonedKeptHolds` (`AbandonedKept`), from `LeftAlone`.
* `OnlyMishapsAbandonHolds` (`OnlyMishapsAbandon`), from `HalfDoneOwned`: a half-done directory, there
  and not managed, is abandoned already or belongs to what the process with the lock is doing.
* `UsedUntouchedHolds` (`UsedUntouched`), from `Undisturbed`: a version is installed, or its
  failed install undone, only while nobody uses it, and a spared one is never cleaned up, so that
  it validates while it is used.

**`ServiceLifecycleProofs`**, for any number of services, servers and signals, any kill from outside and
any places where `close()` is interrupted by a signal handler that closes on its own. It assumes finitely many
services and that the patience of a `close()` exceeds what a wrapper sleeps at most, `CloseTimeout > Poll +
Grace + Sweep` (the code's 15 s against 0.5 + 5 + 0.5 s, `PatienceAssumption`):

* `Invariant`. `Wrappers` says in which phase of a wrapper something of its group may be left; `Waiting` that
  the `close()` on top of the stack is more patient than the wrapper it asked has sleep left
  (`Remaining`), which each second of both preserves, so that the `kill` never hits a wrapper before it has
  swept its group; `Releases` and `LetGo` that a service lets go only of a server that ended; `Chained`
  that each service saved the handlers of those registered before it.
* `ClosedMeansGoneHolds` (`ClosedMeansGone`) from `LetGo`, `Releases` and `ClosesAll`.
* `SignalClosesAllHolds` (`SignalClosesAll`) from `Chained`: the chain of handlers is the list of `atexit` callbacks as
  long as services are closed newest first.

**`UnslothTrainingProofs`**, for any number of calls and items:

* `GpuExclusiveHolds` (`GpuExclusive`) from `TurnsInv`, which adds that the parameters have left the GPU
  when vLLM is about to be woken up; every way a call raises preserves it (`RaisePreserves`).
* `Invariant`: the inductive invariant of the whole. The getter of the running call is the last of those that
  wait on the result queue (`Owners`), and there is a getter for every input (`Balance`): a call that was
  cancelled leaves its getter, which takes the result of the next call. `Fed` says what the trainer may find
  in its queue when no call waits, `Placed` where the parameters and whose moments the optimizer's are, and
  `Progress` that, as long as no failure left half a call behind, the weights end with
  exactly the items the running call has done.
* `ServedWholeHolds` (`ServedWhole`): vLLM reloads where `Progress` says that the call is complete.
* `UpdatesSoundHolds` (`UpdatesSound`), from `Placed`.

**`MegatronJobsProofs`**, for any number of ranks, jobs, copies and starts, and every failure and
kill of either side, from one inductive invariant `IInv`:

* `GpuExclusiveHolds` (`GpuExclusive`). `Turns` adds that a rank which waits for the others or for vLLM
  has offloaded its weights, and that vLLM is awake only while no rank is in a job or can find one
  (`Quiet`). That in turn rests on the files: the job file and the log are those of the last job
  submitted (`Sound`), rank 0 ends a job alone and removes the file before it logs "all done"
  (`EndsAlone`), and the service submits, or wakes vLLM, only after that (`Submits`).
* `DoneMeansSavedHolds` (`DoneMeansSaved`) from `Staged` and `Stored`, which follow the job through the
  worker: what the staging directory holds in each place of rank 0, and which part of the job's state
  is stored from which place of each rank on.
* `ServiceKeepsHistory` (`KeepsHistory`): the initial state maps to the initial state and each step to a
  step of `CheckpointHistory` or a stutter. Publishing maps to `Trained` because the staged adapter is the
  last checkpoint trained by the current job (`Staged`), whose number no checkpoint has yet (`Numbered`).

A second part, `WholeInvariant`, adds four parts to `IInv` (`WholeInv`):

* `StepsAgreeHolds` (`StepsAgree`) from `Agree`: at each place of the service, which of the last step on
  disk, the remembered one, that of the job and what vLLM serves are equal; a failed registration of a copy breaks the
  first equality only, and `unregistered` remembers it.
* `OptimizerFitsHolds` (`OptimizerFits`) from `Bases`, what a rank trains is the last checkpoint, also when the
  service has died, and `Fits`, the shards of a kind belong to the last checkpoint or to
  the job being streamed. The last job of a kind in a history (`LastOf`) is characterised by a greatest
  index, which exists because `<` is well-founded.
* `RanksTogetherHolds` (`RanksTogether`) from `Phases`: when one rank is past a collective of the job, all are, and
  while one starts up none is further than the barrier of the loop.

**`MegatronKernelsProofs`** is about three modules. `WeightStreaming`, for any number of layers, slots, jobs and
passes, and every order in which the two threads and the two streams go on: it assumes (`SizesAssumption`) at least one layer (`install`
refuses a model without any), and each number of resident layers at least 1 and at most the
number of slots (the config's `ge=1`, and `from_env`, which raises otherwise), and is one
inductive invariant:

* `Invariant`: `ThreadInv` is about the rest of the hook the training thread is in, read as a sequence.
  `WindowInv` says that what is loaded, and what the hook still fetches, lies in a window of
  `resident` consecutive layers: the old one as long as the layer to drop is not dropped, and the one
  of `Base` afterwards. `EmptyInv` says that a finished job drops every layer, `FedInv` that the layer of a kernel is
  there or finished before it, and not dropped between. Each operation is shown to keep these for any sequence
  (`Continues`, `Feeds`), the hooks to establish them. `Owners` says that `slotOf` and `owner` are
  inverse, `LoadsInv` that a load is in one of the queue, the thread and the stream of
  copies, and that a slot a kernel reads is still its layer's, or is released, or has a copy that waits
  for the kernel.
* `SlotsSufficeHolds` (`SlotsSuffice`): otherwise each slot would have a loaded
  layer of its own (`Owners` makes it an injection), which with the one to be loaded are more than
  a window has. `ResidentBoundHolds` (`ResidentBound`) is the size of the window.
* `KernelsSeeWeightsHolds` (`KernelsSeeWeights`) from `LoadsInv`, `IdleMeansOffloadedHolds`
  (`IdleMeansOffloaded`) from `EmptyInv`; `StreamingIsSafe` (`StreamingSafe`) is the four
  together, and `TypeCorrect` (`StreamTypeOK`) follows from `Owners`.

`PrefixMask`, for any sequences of queries and keys with or without padding, any block sizes and any
window:

* `BlocksExact`: the blocks attend every pair that `mask_mod` lets see and no other. It needs of a mask only
  `MaskFits`: the slices hold no padding, and each pair that sees is in one of them. That the masks of
  packed rows and of stages are such is what TLC checks (`SlicesCover` in `PackedAsAlone`,
  `StageSlicesCover` in `AttentionExact`), for it depends on the recursive parser. `FullSees` says that a
  full block has no pair that does not see, whichever of the three tests decided, `NoneSees` that a
  pair that sees keeps its block from being passed over: the slice the pair is in touches the block
  (`PairTouches`, by the extremes of its values and places, whose existence is `MaxIs`, from a
  well-founded order). `BlockOf` puts each index in one of the blocks, also where the last is not full.

`ContextParallel`, for any rows, any assignment of chunks, any number of ranks and waves, and every order in which
the ranks go on, from `CasesGood` (a row has a token, and there are a rank, a chunk size and a wave):

* `ExchangesAgree`: the ranks enter the same collectives in the same order and each sends what the other
  expects (`CallsAgree`), so that an exchange all have launched takes place (`ExchangesFit`), and what
  a rank receives in a wave is, key by key, what the mask of its stage was built for
  (`StagesGetTheirKeys`). `PlanInv` says that the two sides of a plan, made by each rank for itself,
  are equal; `ExchangeInv` that a rank's calls are an initial part of the plan's, and its buffer
  holds of each exchange that is over what its peers put in their calls. The gradients that come back
  have the sizes of the keys that were sent because each row of `ReduceCall` stands for a key received.

Model-checked only:

* every liveness property (`AlwaysEnds`, `AnsweredCallEnds`, `NoOrphanChild`, `NoOrphans`, `EndNoticed`, `JobEnds`, `CallsEnd`, `PartsEnd`): liveness under fairness
  and `ENABLED` are beyond the prover;
* of the properties of `MCTrainingParts`: `PartsWellFormed`, `CacheKeepsPrefixList`, `PackedAsAlone` (but for the
  blocks, `BlocksExact`), and of `AttentionExact` the sums `EachPairOnce` and `GradientsHome`: `PrefixTree`,
  which `PackedRows` extends, and `PrefixCache` are recursive; the parser is a fold over the runs of a
  row, and gradients are folds over waves and ranks. What these compute on every input needs
  an induction over data that no installed prover does.

## What the code does otherwise than it says

1. `pipeline_stop_hangs`: `trainer.py:528`. When the training stage leaves at `max_steps`
   with the queue full, the rollout stage waits in `put(None)` for ever, and a stop
   request, documented as "a clean shutdown of the pipeline stages", does not end the run.
2. `proxy_undecodable`: `move.py:204`. A response that does not unpickle in the parent ends
   the dispatcher, so neither the exception reaches its caller nor does the proxy recover.
3. `services_revived`: `lifecycle.py:155`. `closing` is never reset, so a service that a failed
   start or training step closed, and that is registered again, keeps its new server when the
   backend is closed, which is documented to "kill that process".

## Not modelled

* Tensor programs (Megatron's and the trainer rank's kernels, model handlers, LoRA layers, losses,
  weight conversion): floating-point arithmetic, for which TLC has nothing to offer. They are
  most of the repository's lines. What is discrete below them and not modelled yet, GDN's
  prefix-tree plans, routing replay, adapter slots, is in the plan.
* Remote services (serverless, Tinker): the state is on the other side of the network.
* The MLX backend: its update is a placeholder in the code.
* Displays, logging, metrics, costs, command line, integrations, benchmarks, examples,
  vLLM patches: no state that anything decides by.
* In the modelled components: what is said above under each module.

## The plan

Done: the trainer, adapters, actors, runtime, lifecycle, `MegatronJobs`, `UnslothTraining`, packing with its
mask, context-parallel attention, weight streaming, the prefix cache. Left, in order:

1. A composition of `PipelineTrainer` with `AdapterRetention`, whose training stage is the trainer's.
2. An abstract specification of off-policy training (a step consumes groups of bounded
   age, each once) that `PipelineTrainer` is shown to implement.
3. The trainer rank's adapter slots and micro-batches; GDN's plans over the prefix tree; routing replay.
4. `retry`, `limit_concurrency`, `gather_trajectory_groups` with its exception budget; the rotation of
   buffers in `weight_transfer/`.
5. The interim checkpoints of SFT jobs; the retention strategies themselves.
6. The MLX backend, once its update exists.
