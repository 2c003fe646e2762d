--------------------------- MODULE AdapterRetention ---------------------------
(***************************************************************************)
(* Which LoRA adapters vLLM keeps loaded and which checkpoints stay on     *)
(* disk while a PipelineTrainer trains with a dedicated-mode LocalBackend. *)
(* Rollouts and evals pin the step they sample from with a lease; after    *)
(* every train step the adapters outside the off-policy window are         *)
(* unloaded one HTTP call after the other, and the checkpoint files the    *)
(* retention strategy does not keep are deleted.  A step is loaded, and    *)
(* unloaded, by vLLM before the service hears of it: either reply may be   *)
(* lost in a timeout.                                                      *)
(*                                                                         *)
(* Left to PipelineTrainer: the queues, the batch and when an eval is due  *)
(* (here it may be due at any step).                                       *)
(***************************************************************************)
EXTENDS Integers, Sequences, FiniteSets

CONSTANTS
    Workers,        \* the rollout workers
    MaxOff,         \* max_steps_off_policy
    KlLag,          \* kl_penalty_step_lag; 0 is None: the reference is step 0
    UsesKl,         \* kl_penalty_coef > 0
    Interval,       \* checkpoint_retention_interval
    StepMax,        \* bound: the last step trained
    RunMax          \* bound: runs of train(), the first one and the retried ones

ASSUME RetentionAssumption ==
    /\ IsFiniteSet(Workers)
    /\ MaxOff \in Nat /\ KlLag \in Nat /\ UsesKl \in BOOLEAN
    /\ Interval \in Nat \ {0}
    /\ StepMax \in Nat /\ RunMax \in Nat \ {0}

Steps == 0..StepMax
NoStep == -1

VARIABLES
    run,        \* "running", "failed" (the process and the service live on) or "dead"
    runs,       \* how many runs were started
    pv,         \* state.policy_version
    nts,        \* state.next_training_step
    wver,       \* the step each worker's rollout is pinned to, NoStep between rollouts
    tpc,        \* where the training stage is
    retain,     \* retain_steps of the prune under way or last made
    toUnload,   \* the adapters its loop has yet to visit
    evalq,      \* _eval_queue
    scheduled,  \* _scheduled_eval_steps: each holds a retention lease
    eval,       \* the step of the eval under way, NoStep when there is none
    epc,        \* where that eval is
    orphans,    \* evals that outlived a failed run
    leases,     \* AdapterLeaseManager._counts
    held,       \* _checkpoint_lease_counts of the trainer
    ckpts,      \* the steps with a checkpoint directory
    loaded,     \* the adapters vLLM serves
    known,      \* _loaded_adapter_steps of the service
    latest,     \* _latest_step of the service
    unsure      \* history: the copied checkpoints whose load failed in this process

trainerVars == <<run, runs, pv, nts, wver, tpc, retain, toUnload>>
evalVars == <<evalq, scheduled, eval, epc, orphans>>
leaseVars == <<leases, held>>
serviceVars == <<loaded, known, latest>>
vars == <<trainerVars, evalVars, leaseVars, ckpts, serviceVars, unsure>>

MaxOf(S) == CHOOSE s \in S : \A t \in S : t <= s
MinOf(S) == CHOOSE s \in S : \A t \in S : s <= t
One(b) == IF b THEN 1 ELSE 0

(***************************************************************************)
(* Leases and the sets of steps they protect.                              *)
(***************************************************************************)
NoLease == [s \in Steps |-> 0]

\* lease(step), on both counters.
Take(s) == /\ leases' = [leases EXCEPT ![s] = @ + 1]
           /\ held' = [held EXCEPT ![s] = @ + 1]

Drop(s) == /\ leases' = [leases EXCEPT ![s] = @ - 1]
           /\ held' = [held EXCEPT ![s] = @ - 1]

\* active_steps(): a counter is deleted when it reaches 0.
Active(counts) == {s \in Steps : counts[s] > 0}

\* get_model_step: the greatest step with a checkpoint directory, 0 without one.
BackendStep == MaxOf(ckpts \cup {0})

\* _retained_adapter_steps.
Window(step) == {s \in Steps : step - MaxOff <= s /\ s <= step}

\* Mutant: leased steps are not retained.
WindowOnly(step) == Window(step)

\* The steps prune_model_adapters retains.
Retained(step) == Window(step) \cup Active(leases)

KlReference(step) == IF KlLag = 0 \/ step < KlLag THEN 0 ELSE step - KlLag

\* Mutant: the reference step is protected but for the next one.
KlProtectedLate(step) ==
    IF ~UsesKl THEN {}
    ELSE IF KlLag = 0 THEN {0} ELSE {s \in Steps : KlReference(step) < s /\ s <= step}

KlProtected(step) ==
    IF ~UsesKl THEN {}
    ELSE IF KlLag = 0 THEN {0} ELSE {s \in Steps : KlReference(step) <= s /\ s <= step}

\* Mutant: only what is leased is protected.
ProtectedIfLeased(step) == Active(held) \cup scheduled

\* _protected_checkpoint_steps.
Protected(step) == {step} \cup Active(held) \cup scheduled \cup KlProtected(step)

(***************************************************************************)
(* A run starts: on a new process with the newest checkpoint served, or,   *)
(* retried in its process, on the service as the failed run left it.       *)
(***************************************************************************)
Init ==
    /\ run = "running" /\ runs = 1
    /\ pv = 0 /\ nts = 0
    /\ wver = [w \in Workers |-> NoStep]
    /\ tpc = "collect" /\ retain = {} /\ toUnload = {}
    /\ evalq = <<>> /\ scheduled = {} /\ eval = NoStep /\ epc = "none" /\ orphans = {}
    /\ leases = NoLease /\ held = NoLease
    /\ ckpts = {0}
    /\ loaded = {0} /\ known = {0} /\ latest = 0 /\ unsure = {}

\* The first eval (eval_at_start) may be scheduled before the stages start.
Starts ==
    /\ run' = "running" /\ runs' = runs + 1
    /\ pv' = BackendStep /\ nts' = BackendStep
    /\ tpc' = "collect" /\ retain' = {} /\ toUnload' = {}
    /\ UNCHANGED <<wver, eval, epc, ckpts>>

FirstEval(base) ==
    \/ evalq' = <<>> /\ scheduled' = {} /\ leases' = base /\ held' = NoLease
    \/ /\ evalq' = <<BackendStep>> /\ scheduled' = {BackendStep}
       /\ leases' = [base EXCEPT ![BackendStep] = @ + 1]
       /\ held' = [NoLease EXCEPT ![BackendStep] = 1]

Retry ==
    /\ run = "failed" /\ runs < RunMax
    /\ Starts /\ FirstEval(leases)
    /\ UNCHANGED <<orphans, serviceVars, unsure>>

Restart ==
    /\ run # "running" /\ runs < RunMax
    /\ Starts /\ FirstEval(NoLease)
    /\ orphans' = {}
    /\ loaded' = {BackendStep} /\ known' = {BackendStep} /\ latest' = BackendStep
    /\ unsure' = {}

(***************************************************************************)
(* Rollouts.                                                               *)
(***************************************************************************)
Stays == <<run, runs, pv, nts, ckpts, serviceVars, unsure>>

\* The gate opened, the version is read and leased without a pause between.
RolloutStarts(w) ==
    /\ run = "running" /\ wver[w] = NoStep /\ pv >= nts - MaxOff
    /\ wver' = [wver EXCEPT ![w] = pv]
    /\ Take(pv)
    /\ UNCHANGED <<tpc, retain, toUnload, evalVars, Stays>>

RolloutEnds(w) ==
    /\ run = "running" /\ wver[w] # NoStep
    /\ wver' = [wver EXCEPT ![w] = NoStep]
    /\ Drop(wver[w])
    /\ UNCHANGED <<tpc, retain, toUnload, evalVars, Stays>>

(***************************************************************************)
(* A train step.                                                           *)
(***************************************************************************)
NotTraining == <<run, runs, wver, evalVars, leaseVars, unsure>>

BeginTrain ==
    /\ run = "running" /\ tpc = "collect" /\ BackendStep < StepMax
    /\ nts' = pv + 1
    /\ tpc' = "training"
    /\ UNCHANGED <<pv, retain, toUnload, ckpts, serviceVars, NotTraining>>

\* The checkpoint is written, by a train step or, when there is nothing to
\* train on, as a copy of the current one, and its load is requested.
WriteCheckpoint ==
    /\ tpc = "training"
    /\ ckpts' = ckpts \cup {BackendStep + 1}
    /\ \E copied \in BOOLEAN : tpc' = IF copied THEN "copied" ELSE "saved"
    /\ UNCHANGED <<pv, nts, retain, toUnload, serviceVars, NotTraining>>

VllmLoads ==
    /\ tpc \in {"copied", "saved"}
    /\ loaded' = loaded \cup {BackendStep}
    /\ tpc' = (IF tpc = "copied" THEN "copy loaded" ELSE "loaded")
    /\ UNCHANGED <<pv, nts, retain, toUnload, ckpts, known, latest, NotTraining>>

\* _reload_adapter's reply.
LoadReplies ==
    /\ tpc \in {"copy loaded", "loaded"}
    /\ latest' = BackendStep /\ known' = known \cup {BackendStep}
    /\ tpc' = "returned"
    /\ UNCHANGED <<pv, nts, retain, toUnload, ckpts, loaded, NotTraining>>

\* backend.train returned: the step is published, and what to unload is fixed:
\* never the latest adapter.
Publish ==
    /\ tpc = "returned"
    /\ pv' = BackendStep /\ nts' = BackendStep
    /\ retain' = Retained(BackendStep)
    /\ toUnload' = (known \ Retained(BackendStep)) \ {latest}
    /\ tpc' = "pruning"
    /\ UNCHANGED <<ckpts, serviceVars, NotTraining>>

\* The loop of prune_loaded_adapters, in the order of the steps.
VllmUnloads ==
    /\ tpc = "pruning" /\ toUnload # {}
    /\ loaded' = loaded \ {MinOf(toUnload)}
    /\ tpc' = "unloading"
    /\ UNCHANGED <<pv, nts, retain, toUnload, ckpts, known, latest, NotTraining>>

\* Mutant: the 404 of an adapter vLLM has not is not taken for an unload.
UnloadRepliesKeeping ==
    /\ tpc = "unloading"
    /\ toUnload' = toUnload \ {MinOf(toUnload)}
    /\ tpc' = "pruning"
    /\ UNCHANGED <<pv, nts, retain, ckpts, serviceVars, NotTraining>>

\* Unloaded, or 404: vLLM did not have it.
UnloadReplies ==
    /\ tpc = "unloading"
    /\ known' = known \ {MinOf(toUnload)}
    /\ toUnload' = toUnload \ {MinOf(toUnload)}
    /\ tpc' = "pruning"
    /\ UNCHANGED <<pv, nts, retain, ckpts, loaded, latest, NotTraining>>

PruneEnds ==
    /\ tpc = "pruning" /\ toUnload = {}
    /\ tpc' = "pruned"
    /\ UNCHANGED <<pv, nts, retain, toUnload, ckpts, serviceVars, NotTraining>>

\* _run_checkpoint_retention, with any strategy.
RetainCheckpoints ==
    /\ tpc = "pruned"
    /\ tpc' = "retained"
    /\ \/ pv % Interval # 0 /\ UNCHANGED ckpts
       \/ /\ pv % Interval = 0
          /\ \E keep \in SUBSET (ckpts \ Protected(pv)) :
                ckpts' = (ckpts \cap Protected(pv)) \cup keep
    /\ UNCHANGED <<pv, nts, retain, toUnload, serviceVars, NotTraining>>

\* The metrics are logged and an eval of the step, when due, is scheduled.
StepEnds ==
    /\ tpc = "retained"
    /\ tpc' = "collect"
    /\ \/ UNCHANGED <<evalq, scheduled, leaseVars>>
       \/ /\ pv \notin scheduled
          /\ evalq' = Append(evalq, pv) /\ scheduled' = scheduled \cup {pv}
          /\ Take(pv)
    /\ UNCHANGED <<run, runs, pv, nts, wver, retain, toUnload, eval, epc, orphans, ckpts,
                   serviceVars, unsure>>

(***************************************************************************)
(* Evals.                                                                  *)
(***************************************************************************)
NotEval == <<trainerVars, orphans, ckpts, serviceVars, unsure>>

EvalStarts ==
    /\ run = "running" /\ epc = "none" /\ evalq # <<>>
    /\ eval' = Head(evalq) /\ evalq' = Tail(evalq) /\ epc' = "sampling"
    /\ Take(Head(evalq))
    /\ UNCHANGED <<scheduled, NotEval>>

\* eval_fn is back, its lease dropped; the results are logged next.
EvalReturns ==
    /\ epc = "sampling" /\ epc' = "logging"
    /\ Drop(eval)
    /\ UNCHANGED <<evalq, scheduled, eval, NotEval>>

\* _release_scheduled_eval_lease.
EvalEnds ==
    /\ epc = "logging" /\ epc' = "none"
    /\ scheduled' = scheduled \ {eval} /\ eval' = NoStep
    /\ Drop(eval)
    /\ UNCHANGED <<evalq, NotEval>>

(***************************************************************************)
(* Failures.                                                               *)
(***************************************************************************)

\* Mutant: the scheduled evals are not released.
DroppedUnscheduled(s, orphaned) ==
    Cardinality({w \in Workers : wver[w] = s})
    + One(epc = "sampling" /\ eval = s /\ ~orphaned)

\* The leases a failing run drops at step s: its rollouts are cancelled, its
\* scheduled evals released, and the eval under way cancelled unless it is a
\* task nobody awaits, which goes on.
Dropped(s, orphaned) ==
    Cardinality({w \in Workers : wver[w] = s})
    + One(s \in scheduled) + One(epc = "sampling" /\ eval = s /\ ~orphaned)

RunFails ==
    /\ \E orphaned \in BOOLEAN :
          /\ orphaned => epc = "sampling"
          /\ leases' = [s \in Steps |-> leases[s] - Dropped(s, orphaned)]
          /\ orphans' = orphans \cup (IF orphaned THEN {[run |-> runs, step |-> eval]} ELSE {})
    /\ run' = "failed"
    /\ wver' = [w \in Workers |-> NoStep]
    /\ evalq' = <<>> /\ scheduled' = {} /\ eval' = NoStep /\ epc' = "none"
    /\ held' = NoLease
    /\ tpc' = "exit" /\ toUnload' = {}
    /\ UNCHANGED <<runs, pv, nts, retain, ckpts, serviceVars>>

\* An orphaned eval comes back.
OrphanEnds ==
    /\ \E o \in orphans :
          /\ orphans' = orphans \ {o}
          /\ leases' = [leases EXCEPT ![o.step] = @ - 1]
    /\ UNCHANGED <<trainerVars, evalq, scheduled, eval, epc, held, ckpts, serviceVars, unsure>>

\* An unload times out, or is cancelled because another stage failed, executed
\* by vLLM or not.
UnloadTimesOut ==
    /\ tpc = "unloading" \/ (tpc = "pruning" /\ toUnload # {})
    /\ RunFails /\ UNCHANGED unsure

\* The load of a copied checkpoint times out or is cancelled, executed by vLLM or
\* not: nothing takes the copy back.
CopyTimesOut ==
    /\ tpc \in {"copied", "copy loaded"}
    /\ RunFails /\ unsure' = unsure \cup {BackendStep}

\* Any other exception in a stage: the data, the logging, a rollout's, an eval's.
StageRaises ==
    /\ run = "running" /\ tpc \in {"collect", "training", "pruned", "retained"}
    /\ RunFails /\ UNCHANGED unsure

\* The process dies; or service.train raises, or is cancelled, and closes the
\* service.
Dies ==
    /\ run = "running" /\ runs < RunMax
    /\ run' = "dead"
    /\ wver' = [w \in Workers |-> NoStep]
    /\ evalq' = <<>> /\ scheduled' = {} /\ eval' = NoStep /\ epc' = "none" /\ orphans' = {}
    /\ leases' = NoLease /\ held' = NoLease
    /\ tpc' = "exit" /\ toUnload' = {}
    /\ loaded' = {} /\ known' = {}
    /\ UNCHANGED <<runs, pv, nts, retain, ckpts, latest, unsure>>

TrainStep ==
    \/ BeginTrain \/ WriteCheckpoint \/ VllmLoads \/ LoadReplies \/ Publish
    \/ VllmUnloads \/ UnloadReplies \/ PruneEnds
    \/ RetainCheckpoints \/ StepEnds

EvalStep == EvalStarts \/ EvalReturns \/ EvalEnds \/ OrphanEnds

Failure == UnloadTimesOut \/ CopyTimesOut \/ StageRaises \/ Dies \/ Retry \/ Restart

Next ==
    \/ \E w \in Workers : RolloutStarts(w) \/ RolloutEnds(w)
    \/ TrainStep \/ EvalStep \/ Failure

Spec == Init /\ [][Next]_vars

(***************************************************************************)
(* Properties.                                                             *)
(***************************************************************************)

\* Every variable has its type; no lease counter is negative.
TypeOK ==
    /\ run \in {"running", "failed", "dead"} /\ runs \in 1..RunMax
    /\ pv \in Steps /\ nts \in Steps
    /\ wver \in [Workers -> Steps \cup {NoStep}]
    /\ tpc \in {"collect", "training", "copied", "copy loaded", "saved", "loaded", "returned",
                "pruning", "unloading", "pruned", "retained", "exit"}
    /\ retain \subseteq Steps /\ toUnload \subseteq Steps
    /\ evalq \in Seq(Steps) /\ scheduled \subseteq Steps
    /\ eval \in Steps \cup {NoStep} /\ epc \in {"none", "sampling", "logging"}
    /\ orphans \subseteq [run : 1..RunMax, step : Steps]
    /\ leases \in [Steps -> Nat] /\ held \in [Steps -> Nat]
    /\ ckpts \subseteq Steps
    /\ loaded \subseteq Steps /\ known \subseteq Steps /\ latest \in Steps
    /\ unsure \subseteq Steps

\* The steps rollouts and evals sample from at this moment.
Sampled ==
    ({wver[w] : w \in Workers} \ {NoStep})
    \cup (IF epc = "sampling" THEN {eval} ELSE {})
    \cup {o.step : o \in orphans}

\* vLLM serves the adapter of every rollout and eval under way until it is over: no
\* prune, however its unloads interleave with leases, takes it away.  Only a
\* checkpoint that was copied, and could not be loaded, may lack its adapter.  A
\* scheduled eval still finds its checkpoint when it starts, and its adapter.
LeasedServed ==
    /\ Sampled \cup scheduled \subseteq loaded \cup unsure
    /\ scheduled \subseteq ckpts

\* The checkpoint a train step takes as its KL reference is on disk.
KlReferenceKept == UsesKl /\ tpc = "training" => KlReference(pv) \in ckpts

\* The state keeps its types, and the lease counters are the number of holders, through
\* cancellations, orphaned evals and retried runs: no lease is leaked or dropped twice.
LeasesCounted ==
    /\ TypeOK
    /\ \A s \in Steps :
           LET own == Cardinality({w \in Workers : wver[w] = s})
                      + One(s \in scheduled) + One(epc = "sampling" /\ eval = s)
           IN  /\ held[s] = own
               /\ leases[s] = own + Cardinality({o \in orphans : o.step = s})

\* Between two prunes the service knows of every adapter vLLM holds, so that
\* it can unload it, and the last prune left nothing it was to unload.  Only the
\* adapter of a copy whose load timed out may stay behind.
NothingLeaked ==
    /\ tpc \notin {"copy loaded", "loaded"} => loaded \subseteq known \cup unsure
    /\ tpc \in {"pruned", "retained"} => known \subseteq retain \cap loaded

\* No run, whatever its strategy deletes, makes the backend's step go back.
StepNeverGoesBack == [][BackendStep' >= BackendStep]_vars

=============================================================================
