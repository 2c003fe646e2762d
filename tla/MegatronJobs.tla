---------------------------- MODULE MegatronJobs ----------------------------
(***************************************************************************)
(* MegatronService (src/art/megatron/service.py) and the ranks of its      *)
(* worker (src/art/megatron/train.py).  They share no memory: a job is a   *)
(* file the ranks find in a directory, its end a line of a log the service *)
(* polls, its result an adapter written over a staged copy of the last     *)
(* checkpoint, which the service publishes by renaming it.                 *)
(*                                                                         *)
(* mode is "shared" when vLLM and the worker use the same GPUs in turn,    *)
(* "lora" when they have their own and vLLM loads the checkpoints, and     *)
(* "merged" when the worker sends vLLM the weights.                        *)
(***************************************************************************)
EXTENDS Integers, Sequences, SequencesExt, FiniteSets

CONSTANTS
    Modes,       \* the modes a service may be configured with
    World,       \* the number of ranks
    MaxJobs,     \* bound: the jobs submitted
    MaxCopies,   \* bound: the steps that copy a checkpoint
    MaxStarts    \* bound: the times the service is started

ASSUME ModesAssumption == Modes \subseteq {"shared", "lora", "merged"}
ASSUME BoundsAssumption ==
    /\ World \in Nat \ {0} /\ MaxJobs \in Nat /\ MaxCopies \in Nat /\ MaxStarts \in Nat

Ranks == 0 .. World - 1
Kinds == {"rl", "sft"}

\* A trained job, as the weights record it.
Effects == [id : 1 .. MaxJobs, kind : Kinds]

NoJob == [id |-> 0, kind |-> "none", step |-> 0]
NoFile == [job |-> NoJob, whole |-> TRUE]
Torn == <<[id |-> 0, kind |-> "none"]>>
Nothing == [step |-> -1, weights |-> <<>>]

VARIABLES
    mode,
    service,     \* where the service is
    latest,      \* _latest_step
    current,     \* the job it submitted last
    vllm,        \* whether vLLM is "off", "awake" or "asleep"
    served,      \* the step and the weights it serves
    ckpts,       \* the published checkpoints, from step 0 on
    staging,     \* the adapter in the staging directory of the current job
    jobFile,     \* the .json file in the jobs directory
    done,        \* the jobs whose log says "all done"
    lock,        \* vllm_waking.lock exists
    shards,      \* the job after which each rank saved its optimizer, of each kind
    worker,      \* whether the worker is "off", "up" or has "ended" by itself
    rank,        \* where each rank is
    held,        \* the job it loaded
    weights,     \* the adapter it trains
    onGpu,       \* the ranks whose weights are on the GPU
    starts, copies,
    split,       \* history: a job came or went while the ranks listed the directory
    unregistered,\*          a copied checkpoint was not registered
    interrupted  \*          a job saved a shard and its checkpoint was not published

serviceVars == <<service, latest, current>>
vllmVars == <<vllm, served>>
fileVars == <<ckpts, staging, jobFile, done, lock, shards>>
rankVars == <<rank, held, weights, onGpu>>
countVars == <<starts, copies>>
vars == <<mode, serviceVars, vllmVars, fileVars, worker, rankVars, countVars,
          split, unregistered, interrupted>>

LatestStep == Len(ckpts) - 1
Serving(step, w) == [step |-> step, weights |-> w]
Effect(job) == [id |-> job.id, kind |-> job.kind]

Init ==
    /\ mode \in Modes
    /\ service = "down" /\ latest = 0 /\ current = NoJob
    /\ vllm = "off" /\ served = Nothing
    /\ ckpts = << <<>> >> /\ staging = <<>> /\ jobFile = NoFile /\ done = {} /\ lock = FALSE
    /\ shards = [k \in Kinds |-> [r \in Ranks |-> 0]]
    /\ worker = "off" /\ rank = [r \in Ranks |-> "off"] /\ held = [r \in Ranks |-> NoJob]
    /\ weights = [r \in Ranks |-> <<>>] /\ onGpu = {}
    /\ starts = 0 /\ copies = 0
    /\ split = FALSE /\ unregistered = FALSE /\ interrupted = FALSE

(***************************************************************************)
(* The service.                                                            *)
(***************************************************************************)

\* start_openai_server, in a process that finds nothing of an earlier one running.
StartServer ==
    /\ service \in {"down", "closed"} /\ starts < MaxStarts
    /\ vllm = "off" /\ worker = "off"
    /\ starts' = starts + 1
    /\ latest' = LatestStep
    /\ vllm' = "awake"
    /\ IF mode = "merged" THEN service' = "starting" /\ UNCHANGED served
       ELSE service' = "idle" /\ served' = Serving(LatestStep, Last(ckpts))
    /\ UNCHANGED <<mode, current, fileVars, worker, rankVars, copies,
                   split, unregistered, interrupted>>

\* _sleep_runtime, before a job in shared mode.
Sleep ==
    /\ service = "idle" /\ mode = "shared" /\ current.id < MaxJobs
    /\ service' = "asleep" /\ vllm' = "asleep"
    /\ UNCHANGED <<mode, latest, current, served, fileVars, worker, rankVars, countVars,
                   split, unregistered, interrupted>>

\* The calls that submit a job, where they may be made.
MaySubmit(kind) ==
    \/ mode = "shared" /\ service = "asleep" /\ kind \in {"rl", "sft"}
    \/ mode # "shared" /\ service = "idle" /\ kind = "rl"
    \/ mode = "merged" /\ service = "starting" /\ kind = "sync"

\* _ensure_megatron_running
EnsureRunning ==
    IF worker = "off"
    THEN /\ worker' = "up" /\ rank' = [r \in Ranks |-> "boot"] /\ onGpu' = Ranks
         /\ UNCHANGED <<held, weights>>
    ELSE UNCHANGED <<worker, rankVars>>

\* Mutant: the adapter staged for an earlier job is trained again.
SubmitUnstaged(kind) ==
    /\ MaySubmit(kind) /\ current.id < MaxJobs /\ worker # "ended"
    /\ EnsureRunning
    /\ latest' = IF mode = "shared" THEN latest ELSE LatestStep
    /\ LET job == [id |-> current.id + 1, kind |-> kind,
                   step |-> IF kind = "sync" THEN latest' ELSE latest' + 1]
       IN  /\ current' = job
           /\ jobFile' = [job |-> job, whole |-> FALSE]
    /\ service' = "writing"
    /\ UNCHANGED <<mode, vllmVars, ckpts, staging, done, lock, shards, countVars,
                   split, unregistered, interrupted>>

\* train, train_sft and _sync_dedicated_merged_weights, up to the job file, which is
\* opened: earlier job files are cleared and the last checkpoint is staged.  In shared
\* mode the service goes by the step it remembers.
Submit(kind) ==
    /\ MaySubmit(kind) /\ current.id < MaxJobs /\ worker # "ended"
    /\ EnsureRunning
    /\ latest' = IF mode = "shared" THEN latest ELSE LatestStep
    /\ LET job == [id |-> current.id + 1, kind |-> kind,
                   step |-> IF kind = "sync" THEN latest' ELSE latest' + 1]
       IN  /\ current' = job
           /\ jobFile' = [job |-> job, whole |-> FALSE]
    /\ IF kind = "sync" THEN UNCHANGED staging ELSE staging' = Last(ckpts)
    /\ service' = "writing"
    /\ UNCHANGED <<mode, vllmVars, ckpts, done, lock, shards, countVars,
                   split, unregistered, interrupted>>

\* write_megatron_job has closed the file: before, a reader finds it empty.
WriteJob ==
    /\ service = "writing"
    /\ service' = "streaming"
    /\ jobFile' = [jobFile EXCEPT !.whole = TRUE]
    /\ UNCHANGED <<mode, latest, current, vllmVars, ckpts, staging, done, lock, shards, worker,
                   rankVars, countVars, split, unregistered, interrupted>>

\* stream_megatron_job ends, however it does: its files are removed.
RemoveFiles ==
    /\ jobFile' = IF jobFile.job = current THEN NoFile ELSE jobFile
    /\ done' = done \ {current.id}

\* It reads "all done" from the log of a worker that runs.
AllDone == service = "streaming" /\ worker = "up" /\ current.id \in done

SyncDone ==
    /\ AllDone /\ current.kind = "sync"
    /\ RemoveFiles
    /\ latest' = current.step /\ service' = "idle"
    /\ UNCHANGED <<mode, current, vllmVars, ckpts, staging, lock, shards, worker, rankVars,
                   countVars, split, unregistered, interrupted>>

Unpublished == \E k \in Kinds, r \in Ranks : shards[k][r] = current.id

\* _publish_staged_training_checkpoint, and in shared mode the wake lock after it.
Publish ==
    /\ AllDone /\ current.kind # "sync" /\ Len(ckpts) = current.step
    /\ RemoveFiles
    /\ ckpts' = Append(ckpts, staging)
    /\ CASE mode = "shared" -> service' = "waking" /\ lock' = TRUE /\ UNCHANGED latest
         [] mode = "lora" -> service' = "reloading" /\ UNCHANGED <<lock, latest>>
         [] mode = "merged" -> service' = "idle" /\ latest' = current.step /\ UNCHANGED lock
    /\ UNCHANGED <<mode, current, vllmVars, staging, shards, worker, rankVars, countVars,
                   split, unregistered, interrupted>>

\* It refuses to publish over a checkpoint.
Refuse ==
    /\ AllDone /\ current.kind # "sync" /\ Len(ckpts) # current.step
    /\ RemoveFiles
    /\ service' = "closing" /\ interrupted' = TRUE
    /\ UNCHANGED <<mode, latest, current, vllmVars, ckpts, staging, lock, shards, worker,
                   rankVars, countVars, split, unregistered>>

\* _wake_and_reload_training_checkpoint: vLLM answers and the lock is removed.
Wake ==
    /\ service = "waking"
    /\ vllm' = "awake" /\ lock' = FALSE /\ service' = "reloading"
    /\ UNCHANGED <<mode, latest, current, served, ckpts, staging, jobFile, done, shards, worker,
                   rankVars, countVars, split, unregistered, interrupted>>

\* _reload_adapter
Reload ==
    /\ service = "reloading"
    /\ served' = Serving(current.step, ckpts[current.step + 1])
    /\ latest' = current.step /\ service' = "idle"
    /\ UNCHANGED <<mode, current, vllm, fileVars, worker, rankVars, countVars,
                   split, unregistered, interrupted>>

\* LocalBackend's step without trainable groups copies the last checkpoint and
\* register_lora_for_step tells vLLM, or fails and leaves the service as it was.
Copy ==
    /\ service = "idle" /\ copies < MaxCopies
    /\ copies' = copies + 1
    /\ ckpts' = Append(ckpts, Last(ckpts))
    /\ \/ /\ latest' = Len(ckpts) /\ served' = Serving(Len(ckpts), Last(ckpts))
          /\ UNCHANGED unregistered
       \/ unregistered' = TRUE /\ UNCHANGED <<latest, served>>
    /\ UNCHANGED <<mode, service, current, vllm, staging, jobFile, done, lock, shards, worker,
                   rankVars, starts, split, interrupted>>

\* Mutant: the stream does not look at the process of the worker.
FailUnnoticed ==
    /\ \/ service \in {"starting", "asleep", "waking", "reloading"}
       \/ service = "streaming" /\ worker # "ended"
       \/ service = "idle" /\ (mode = "shared" \/ worker = "ended")
    /\ service' = "closing"
    /\ IF service = "streaming"
       THEN RemoveFiles /\ interrupted' = (interrupted \/ Unpublished)
       ELSE UNCHANGED <<jobFile, done, interrupted>>
    /\ lock' = IF service = "waking" THEN FALSE ELSE lock
    /\ UNCHANGED <<mode, latest, current, vllmVars, ckpts, staging, shards, worker, rankVars,
                   countVars, split, unregistered>>

\* A request fails, the call is cancelled, or the worker has ended and the stream or the
\* supervisor notices: the finally clauses run and the service is closed.
Fail ==
    /\ \/ service \in {"starting", "asleep", "streaming", "waking", "reloading"}
       \/ service = "idle" /\ (mode = "shared" \/ worker = "ended")
    /\ service' = "closing"
    /\ IF service = "streaming"
       THEN RemoveFiles /\ interrupted' = (interrupted \/ Unpublished)
       ELSE UNCHANGED <<jobFile, done, interrupted>>
    /\ lock' = IF service = "waking" THEN FALSE ELSE lock
    /\ UNCHANGED <<mode, latest, current, vllmVars, ckpts, staging, shards, worker, rankVars,
                   countVars, split, unregistered>>

\* close(): vLLM is stopped first.
CloseVllm ==
    /\ service = "closing"
    /\ service' = "killing" /\ vllm' = "off" /\ served' = Nothing
    /\ UNCHANGED <<mode, latest, current, fileVars, worker, rankVars, countVars,
                   split, unregistered, interrupted>>

\* Then the worker was asked to end and 5 s have passed, or it has ended; the wake lock
\* is cleared.  Its wrapper may need longer than that.
CloseEnds ==
    /\ service = "killing"
    /\ service' = "closed" /\ lock' = FALSE
    /\ UNCHANGED <<mode, latest, current, vllmVars, ckpts, staging, jobFile, done, shards, worker,
                   rankVars, countVars, split, unregistered, interrupted>>

\* The process of the service is killed.
Crash ==
    /\ service \notin {"down", "closed"}
    /\ service' = "down"
    /\ interrupted' = (interrupted \/ (service = "streaming" /\ Unpublished))
    /\ UNCHANGED <<mode, latest, current, vllmVars, fileVars, worker, rankVars, countVars,
                   split, unregistered>>

\* The wrappers end what the service leaves behind.
VllmEnds ==
    /\ service = "down" /\ vllm # "off"
    /\ vllm' = "off" /\ served' = Nothing
    /\ UNCHANGED <<mode, serviceVars, fileVars, worker, rankVars, countVars,
                   split, unregistered, interrupted>>

WorkerStops(how) ==
    /\ worker' = how
    /\ rank' = [r \in Ranks |-> "off"] /\ held' = [r \in Ranks |-> NoJob]
    /\ weights' = [r \in Ranks |-> <<>>] /\ onGpu' = {}

WorkerEnds ==
    /\ service \in {"killing", "closed", "down"} /\ worker # "off"
    /\ WorkerStops("off")
    /\ UNCHANGED <<mode, serviceVars, vllmVars, fileVars, countVars,
                   split, unregistered, interrupted>>

(***************************************************************************)
(* The ranks.                                                              *)
(***************************************************************************)

ServiceSide == <<mode, serviceVars, countVars, unregistered>>

At(r, here) == worker = "up" /\ rank[r] = here
Goes(r, there) == rank' = [rank EXCEPT ![r] = there]

\* A collective call: it returns once every rank has made it.
Together(here, there(_)) ==
    /\ worker = "up" /\ \A r \in Ranks : rank[r] = here
    /\ rank' = [r \in Ranks |-> there(r)]

\* offload_to_cpu, when vLLM shares the GPUs.
Offload(r) == onGpu' = IF mode = "shared" THEN onGpu \ {r} ELSE onGpu

\* The model is built and offloaded before the loop is entered.
Boot(r) ==
    /\ At(r, "boot") /\ Goes(r, "barrier") /\ Offload(r)
    /\ UNCHANGED <<ServiceSide, vllmVars, fileVars, worker, held, weights, split, interrupted>>

Barrier ==
    /\ Together("barrier", LAMBDA r : "list")
    /\ UNCHANGED <<ServiceSide, vllmVars, fileVars, worker, held, weights, onGpu, split,
                   interrupted>>

\* A rank that found the job, before the first collective of the job.
Found == {"ready", "load", "begin", "step", "merge"}

\* Each rank lists the directory by itself: one may find a job another does not.
List(r) ==
    /\ At(r, "list")
    /\ Goes(r, IF jobFile = NoFile THEN "barrier" ELSE "ready")
    /\ split' = (split \/ \E q \in Ranks :
                    rank[q] \in (IF jobFile = NoFile THEN Found
                                                     ELSE {"barrier"}))
    /\ UNCHANGED <<ServiceSide, vllmVars, fileVars, worker, held, weights, onGpu, interrupted>>

\* wait_until_ready and before_job: the weights return to the GPU once vLLM is up.
Ready(r) ==
    /\ At(r, "ready") /\ ~lock
    /\ Goes(r, "load") /\ onGpu' = onGpu \cup {r}
    /\ UNCHANGED <<ServiceSide, vllmVars, fileVars, worker, held, weights, split, interrupted>>

\* _load_megatron_job: a file that is gone, or not written yet, ends the worker.
Load(r) ==
    /\ At(r, "load")
    /\ IF jobFile # NoFile /\ jobFile.whole
       THEN /\ held' = [held EXCEPT ![r] = jobFile.job] /\ Goes(r, "begin")
            /\ UNCHANGED <<worker, weights, onGpu>>
       ELSE WorkerStops("ended")
    /\ UNCHANGED <<ServiceSide, vllmVars, fileVars, split, interrupted>>

\* _load_lora_and_optimizer, or the adapter alone for a sync job.
Begin(r) ==
    /\ At(r, "begin")
    /\ IF held[r].kind = "sync"
       THEN /\ weights' = [weights EXCEPT ![r] = ckpts[held[r].step + 1]] /\ Goes(r, "merge")
       ELSE /\ weights' = [weights EXCEPT ![r] = staging] /\ Goes(r, "step")
    /\ UNCHANGED <<ServiceSide, vllmVars, fileVars, worker, held, onGpu, split, interrupted>>

\* The training steps, and the exchange that gives rank 0 the whole adapter.
TrainTogether ==
    /\ Together("step", LAMBDA r : IF r = 0 THEN "write" ELSE "shard")
    /\ weights' = [r \in Ranks |-> Append(weights[r], Effect(held[r]))]
    /\ UNCHANGED <<ServiceSide, vllmVars, fileVars, worker, held, onGpu, split, interrupted>>

\* save_vllm_lora_tensors: rank 0 writes over the staged adapter, in place.
WriteAdapter ==
    /\ At(0, "write") /\ Goes(0, "written")
    /\ staging' = Torn
    /\ UNCHANGED <<ServiceSide, vllmVars, ckpts, jobFile, done, lock, shards, worker, held,
                   weights, onGpu, split, interrupted>>

AdapterWritten ==
    /\ At(0, "written") /\ Goes(0, "shard")
    /\ staging' = weights[0]
    /\ UNCHANGED <<ServiceSide, vllmVars, ckpts, jobFile, done, lock, shards, worker, held,
                   weights, onGpu, split, interrupted>>

\* Mutant: RL and SFT jobs share the directory of the optimizer state.
SaveShardOneDir(r) ==
    /\ At(r, "shard")
    /\ Goes(r, IF mode = "merged" THEN "reread" ELSE "after")
    /\ shards' = [k \in Kinds |-> [shards[k] EXCEPT ![r] = held[r].id]]
    /\ interrupted' = (interrupted \/ service # "streaming")
    /\ UNCHANGED <<ServiceSide, vllmVars, ckpts, staging, jobFile, done, lock, worker, held,
                   weights, onGpu, split>>

\* _save_optimizer: every rank replaces its own shard.
SaveShard(r) ==
    /\ At(r, "shard")
    /\ Goes(r, IF mode = "merged" THEN "reread" ELSE "after")
    /\ shards' = [shards EXCEPT ![held[r].kind][r] = held[r].id]
    /\ interrupted' = (interrupted \/ service # "streaming")
    /\ UNCHANGED <<ServiceSide, vllmVars, ckpts, staging, jobFile, done, lock, worker, held,
                   weights, onGpu, split>>

\* _sync_merged_weights_to_vllm reads the adapter back; rank 0 may still be writing it.
Reread(r) ==
    /\ At(r, "reread")
    /\ IF staging = Torn THEN WorkerStops("ended")
       ELSE Goes(r, "merge") /\ UNCHANGED <<worker, held, weights, onGpu>>
    /\ UNCHANGED <<ServiceSide, vllmVars, fileVars, split, interrupted>>

\* Mutant: the served name is left as it was.
MergeKeepsName ==
    /\ IF vllm = "awake"
       THEN /\ Together("merge", LAMBDA r : "after")
            /\ served' = [served EXCEPT !.weights = weights[0]]
            /\ UNCHANGED <<worker, held, weights, onGpu>>
       ELSE /\ worker = "up" /\ \A r \in Ranks : rank[r] = "merge"
            /\ WorkerStops("ended") /\ UNCHANGED served
    /\ UNCHANGED <<ServiceSide, vllm, fileVars, split, interrupted>>

\* sync_merged_weights_to_vllm: vLLM gets the weights and the name of their step.  Its
\* status reaches every rank.
Merge ==
    /\ IF vllm = "awake"
       THEN /\ Together("merge", LAMBDA r : "after")
            /\ served' = Serving(held[0].step, weights[0])
            /\ UNCHANGED <<worker, held, weights, onGpu>>
       ELSE /\ worker = "up" /\ \A r \in Ranks : rank[r] = "merge"
            /\ WorkerStops("ended") /\ UNCHANGED served
    /\ UNCHANGED <<ServiceSide, vllm, fileVars, split, interrupted>>

\* Mutant: the GPUs are left to the next job.
AfterKeepsGpu(r) ==
    /\ At(r, "after") /\ Goes(r, "finalize")
    /\ UNCHANGED <<ServiceSide, vllmVars, fileVars, worker, held, weights, onGpu, split,
                   interrupted>>

\* after_job
After(r) ==
    /\ At(r, "after") /\ Goes(r, "finalize") /\ Offload(r)
    /\ UNCHANGED <<ServiceSide, vllmVars, fileVars, worker, held, weights, split, interrupted>>

\* Mutant: finalize_megatron_job without its barrier.
FinalizeApart ==
    /\ \E r \in Ranks : At(r, "finalize") /\ Goes(r, IF r = 0 THEN "remove" ELSE "barrier")
    /\ UNCHANGED <<ServiceSide, vllmVars, fileVars, worker, held, weights, onGpu, split,
                   interrupted>>

\* finalize_megatron_job: the barrier, then rank 0 alone.
Finalize ==
    /\ Together("finalize", LAMBDA r : IF r = 0 THEN "remove" ELSE "barrier")
    /\ UNCHANGED <<ServiceSide, vllmVars, fileVars, worker, held, weights, onGpu, split,
                   interrupted>>

RemoveJob ==
    /\ At(0, "remove") /\ Goes(0, "log")
    /\ jobFile' = IF jobFile.job = held[0] THEN NoFile ELSE jobFile
    /\ UNCHANGED <<ServiceSide, vllmVars, ckpts, staging, done, lock, shards, worker, held,
                   weights, onGpu, split, interrupted>>

LogDone ==
    /\ At(0, "log") /\ Goes(0, "barrier")
    /\ done' = done \cup {held[0].id}
    /\ UNCHANGED <<ServiceSide, vllmVars, ckpts, staging, jobFile, lock, shards, worker, held,
                   weights, onGpu, split, interrupted>>

\* A rank fails, or the watchdog of a collective some rank never joins ends the worker.
WorkerFails ==
    /\ worker = "up" /\ WorkerStops("ended")
    /\ UNCHANGED <<ServiceSide, vllmVars, fileVars, split, interrupted>>

RankSteps(r) ==
    Boot(r) \/ List(r) \/ Ready(r) \/ Load(r) \/ Begin(r) \/ SaveShard(r) \/ Reread(r) \/ After(r)

RankZeroSteps == WriteAdapter \/ AdapterWritten \/ RemoveJob \/ LogDone

Collectives == Barrier \/ TrainTogether \/ Merge \/ Finalize

ServiceSteps ==
    \/ \E kind \in {"rl", "sft", "sync"} : Submit(kind)
    \/ WriteJob \/ SyncDone \/ Publish \/ Refuse \/ Wake \/ Reload \/ CloseVllm \/ CloseEnds

Next ==
    \/ StartServer \/ Sleep \/ Copy \/ Fail \/ Crash
    \/ ServiceSteps
    \/ VllmEnds \/ WorkerEnds \/ WorkerFails
    \/ \E r \in Ranks : RankSteps(r)
    \/ RankZeroSteps \/ Collectives

Spec == Init /\ [][Next]_vars

\* What was begun goes on; the worker's exit is noticed and its wrapper ends it.
FairSpec ==
    /\ Spec
    /\ WF_vars(ServiceSteps)
    /\ WF_vars(service = "streaming" /\ worker = "ended" /\ Fail)
    /\ WF_vars(VllmEnds) /\ WF_vars(WorkerEnds)
    /\ \A r \in Ranks : WF_vars(RankSteps(r))
    /\ WF_vars(RankZeroSteps) /\ WF_vars(Collectives)

(***************************************************************************)
(* Properties.                                                             *)
(***************************************************************************)

TypeOK ==
    /\ mode \in Modes
    /\ service \in {"down", "starting", "idle", "asleep", "writing", "streaming", "waking",
                    "reloading", "closing", "killing", "closed"}
    /\ latest \in 0 .. LatestStep
    /\ current \in [id : 0 .. MaxJobs, kind : Kinds \cup {"none", "sync"}, step : Nat]
    /\ vllm \in {"off", "awake", "asleep"}
    /\ ckpts \in Seq(Seq(Effects)) /\ ckpts # <<>>
    /\ jobFile.whole \in BOOLEAN /\ done \subseteq 1 .. MaxJobs /\ lock \in BOOLEAN
    /\ shards \in [Kinds -> [Ranks -> 0 .. MaxJobs]]
    /\ worker \in {"off", "up", "ended"} /\ onGpu \subseteq Ranks
    /\ rank \in [Ranks -> {"off", "boot", "barrier", "list", "ready", "load", "begin", "step",
                           "write", "written", "shard", "reread", "merge", "after", "finalize",
                           "remove", "log"}]

\* vLLM runs on GPUs it shares only while no rank has its weights there
\* (service.py:874, "Shared-GPU Megatron must start after vLLM has released GPU memory").
GpuExclusive == mode = "shared" /\ vllm = "awake" => onGpu = {}

\* "all done" means that the whole effect of the job is on disk: the staged adapter,
\* every rank's optimizer shard and, in merged mode, the weights in vLLM.
DoneMeansSaved ==
    service = "streaming" /\ current.id \in done /\ current.kind # "sync" =>
        /\ staging = Append(Last(ckpts), Effect(current))
        /\ \A r \in Ranks : shards[current.kind][r] = current.id
        /\ mode = "merged" /\ vllm = "awake" => served = Serving(current.step, staging)

\* The last job of a kind among those that trained some weights.
LastOf(kind, w) ==
    LET i == SelectLastInSeq(w, LAMBDA e : e.kind = kind)
    IN  IF i = 0 THEN 0 ELSE w[i].id

\* The optimizer a rank trains with belongs to the weights it trains, whatever failed
\* before, unless a job had saved a shard and its checkpoint was not published.
OptimizerFits ==
    ~interrupted =>
        \A r, q \in Ranks : rank[r] = "step" =>
            shards[held[r].kind][q] = LastOf(held[r].kind, weights[r])

\* The state keeps its types.  A rank waits for the others in the loop while one is in a
\* job only if the job came or went while they listed the directory; and all that are in a
\* job are in the same one.
RanksTogether ==
    LET inJob == {r \in Ranks : rank[r] \in {"begin", "step", "write", "written", "shard",
                                             "reread", "merge", "after", "finalize"}}
    IN  /\ TypeOK
        /\ ~split /\ inJob # {} => \A r \in Ranks : rank[r] # "barrier"
        /\ \A r, q \in inJob : held[r] = held[q]

\* Disk, service and vLLM agree on the step.  The step a job trains is free when it is to
\* be published, unless a copied checkpoint was not registered: otherwise the whole job
\* would be thrown away.  vLLM serves the step the service remembers, with the weights
\* published for it.
StepsAgree ==
    /\ service \in {"writing", "streaming"} /\ current.kind # "sync" /\ ~unregistered =>
           Len(ckpts) = current.step
    /\ service = "idle" =>
           /\ latest < Len(ckpts)
           /\ served = Serving(latest, ckpts[latest + 1])

\* Each checkpoint is the one before it trained by one job, once, or a copy of it.
History == INSTANCE CheckpointHistory
    WITH Jobs <- Effects, history <- ckpts

KeepsHistory == History!Spec

\* A submitted job ends, with a checkpoint or by closing the service, unless the ranks
\* were split or wait for a lock the process before this one has left.
StaleLock == lock /\ service # "waking"

JobEnds == service = "streaming" ~> (service # "streaming" \/ split \/ StaleLock)

=============================================================================
