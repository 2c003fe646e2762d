--------------------------- MODULE PipelineTrainer ---------------------------
(***************************************************************************)
(* The three-stage training pipeline of src/art/pipeline_trainer/          *)
(* trainer.py: rollout workers fill a bounded asyncio queue, one training  *)
(* stage drains it into batches and calls the backend, one eval stage runs *)
(* the evaluations the training stage schedules.  SIGINT/SIGTERM asks for  *)
(* a clean stop; a crash or an exception in a stage ends the run, and a    *)
(* new run resumes from the state persisted in state.json and from the     *)
(* step the backend's checkpoints give.                                    *)
(*                                                                         *)
(* All stages are tasks of one event loop, so an action is the code        *)
(* between two points where a task can give the loop away.  The collection *)
(* of a batch never gives it away while the queue has items: it is taken   *)
(* one item at a time, and LoopFree keeps every other task out meanwhile.  *)
(***************************************************************************)
EXTENDS Integers, Sequences, FiniteSets

CONSTANTS
    Workers,        \* the rollout workers (num_rollout_workers of them)
    NumScenarios,   \* length of the scenario iterator
    MinBatch,       \* min_batch_size
    MaxBatch,       \* max_batch_size
    MaxOff,         \* max_steps_off_policy
    QueueMax,       \* queue_maxsize of the output queue
    StepLimits,     \* the values of max_steps, NoLimit for None, runs may be started with
    DiscardLimit,   \* discard_queue_multiplier * min_batch_size
    EvalEvery,      \* eval_every_n_steps; 0 is never
    HasEval,        \* eval_fn is not None
    EvalAtStart,    \* eval_at_start
    Outcomes,       \* what the rollout function may come back with
    MayStop,        \* whether a signal or the user may request a stop
    RetryInProcess, \* whether a failed train() is tried again in its process
    MaxRuns         \* bound: runs of train(), the first one and the resumed ones

NoLimit == -1

GroupKinds == {"good", "flat", "empty", "failed"}

ASSUME PipelineAssumption ==
    /\ IsFiniteSet(Workers) /\ Workers # {}
    /\ NumScenarios \in Nat
    /\ MinBatch \in Nat \ {0} /\ MaxBatch \in Nat /\ MaxBatch >= MinBatch
    /\ MaxOff \in Nat /\ QueueMax \in Nat \ {0}
    /\ StepLimits \subseteq Nat \cup {NoLimit}
    /\ DiscardLimit \in Nat \ {0} /\ EvalEvery \in Nat
    /\ HasEval \in BOOLEAN /\ EvalAtStart \in BOOLEAN
    /\ Outcomes \subseteq GroupKinds \cup {"error"}
    /\ MayStop \in BOOLEAN /\ RetryInProcess \in BOOLEAN
    /\ MaxRuns \in Nat \ {0}

VARIABLES
    run,        \* "running", "finished" or "down": the train() call under way
    runs,       \* how many runs were started
    limit,      \* max_steps of the run under way
    startStep,  \* the backend's step when the run started
    startOffset,\* scenarios skipped when the run started
    pv,         \* state.policy_version
    nts,        \* state.next_training_step
    offset,     \* state.scenario_offset
    done,       \* state.done
    stopRequested, \* stop_requested of the signal handler
    wpc,        \* where each worker is
    wgroup,     \* the group a worker holds: its policy version, its kind once known
    rpc,        \* where the rollout stage is: its workers, its sentinel, or gone
    outq,       \* _output_queue
    stopPut,    \* a put(None) task of request_stop waits for room
    tpc,        \* where the training stage is
    cur,        \* its current_step
    batch,      \* the batch it collects or trains on
    saw,        \* saw_sentinel
    evalDue,    \* should_eval_step of the step under way
    discard,    \* len(_discard_queue)
    epc,        \* where the eval stage is
    evalq,      \* _eval_queue
    enext,      \* the step it dequeued while an eval was running
    pend,       \* the step pending_eval is evaluating, NoStep when it is done
    scheduled,  \* _scheduled_eval_steps, the steps holding a scheduled-eval lease
    lastEval,   \* state.last_eval_step
    completed,  \* state.completed_eval_steps
    orphans,    \* what the evals that outlived a failed run will persist
    saved,      \* what state.json holds under _pipeline_trainer
    bstep,      \* the backend's latest checkpoint step
    settled     \* groups of this run trained on, discarded or failed

runVars    == <<run, runs, limit, startStep, startOffset>>
policyVars == <<pv, nts>>
workerVars == <<wpc, wgroup>>
trainVars  == <<tpc, cur, batch, saw, evalDue, discard>>
evalVars   == <<epc, evalq, enext, pend>>
evalMarks  == <<scheduled, lastEval, completed>>
vars == <<runVars, policyVars, offset, done, stopRequested, workerVars, rpc, outq, stopPut,
          trainVars, evalVars, evalMarks, orphans, saved, bstep, settled>>

NoStep == -1
Group == [ver : Nat, kind : GroupKinds]
NoGroup == [ver |-> 0, kind |-> "empty"]
Sentinel == [ver |-> 0, kind |-> "sentinel"]
Saved == [offset : Nat, step : Nat, lastEval : Nat, completed : SUBSET Nat]
NothingSaved == [offset |-> 0, step |-> 0, lastEval |-> 0, completed |-> {}]

(***************************************************************************)
(* Helpers.                                                                *)
(***************************************************************************)

\* Only the training stage runs while it drains the queue without blocking.
LoopFree == tpc # "drain"

\* Mutant: the waiters are not notified.
NotifyNobody(pcs) == pcs

\* policy_updated.notify_all(): every waiter gets to re-check its condition.
NotifyPolicy(pcs) == [w \in Workers |-> IF pcs[w] = "blocked" THEN "woken" ELSE pcs[w]]

\* What _persist_state(training_step) writes.
Snapshot(step, last, compl) ==
    [offset |-> offset, step |-> step, lastEval |-> last, completed |-> compl]

QueueRoom == Len(outq) < QueueMax

\* _wait_for_policy's condition, negated: a worker may start a rollout.
PolicyReady == pv >= nts - MaxOff

\* Mutant: a group is allowed one step more.
StaleTooLate(g) == g.kind # "empty" /\ g.ver < cur - MaxOff - 1

\* _is_group_stale: an empty group has no version.
Stale(g) == g.kind # "empty" /\ g.ver < cur - MaxOff

ZeroVariance(g) == g.kind \in {"flat", "empty"}

AtStepLimit(step) == limit # NoLimit /\ step >= startStep + limit

ShouldEval(step) == HasEval /\ EvalEvery > 0 /\ step - lastEval >= EvalEvery

\* Mutant: nothing is skipped.
ResumeFromStart == 0

\* _skip_scenarios: the offset to resume from, were the iterator shorter now.
ResumeOffset == IF saved.offset < NumScenarios THEN saved.offset ELSE NumScenarios

\* Everything the run held in memory is gone; state.json and the checkpoints stay.
EndRun(how) ==
    /\ run' = how
    /\ wpc' = [w \in Workers |-> "exit"]
    /\ wgroup' = [w \in Workers |-> NoGroup]
    /\ rpc' = "exit" /\ outq' = <<>> /\ stopPut' = FALSE
    /\ tpc' = "exit" /\ batch' = <<>> /\ saw' = FALSE /\ evalDue' = FALSE /\ discard' = 0
    /\ epc' = "exit" /\ evalq' = <<>> /\ enext' = NoStep /\ pend' = NoStep
    /\ scheduled' = {}
    /\ UNCHANGED <<runs, limit, startStep, startOffset, policyVars, offset, done,
                   stopRequested, cur, lastEval, completed, saved, bstep, settled>>

\* An exception in a stage: the task group cancels the stages, but an eval the
\* eval stage is not awaiting is a task of its own and stays alive.
Fail ==
    /\ orphans' = orphans \cup
          (IF epc = "idle" /\ pend # NoStep
           THEN {Snapshot(nts, lastEval, completed \cup {pend})} ELSE {})
    /\ EndRun("down")

(***************************************************************************)
(* train(): reads the persisted state, skips the scenarios already         *)
(* consumed, schedules the first eval and starts the stages.               *)
(***************************************************************************)
Init ==
    /\ run = "running" /\ runs = 1 /\ limit \in StepLimits
    /\ startStep = 0 /\ startOffset = 0 /\ offset = 0
    /\ pv = 0 /\ nts = 0 /\ cur = 0 /\ bstep = 0
    /\ lastEval = 0 /\ completed = {} /\ orphans = {}
    /\ wpc = [w \in Workers |-> "idle"] /\ wgroup = [w \in Workers |-> NoGroup]
    /\ rpc = "workers" /\ outq = <<>> /\ stopPut = FALSE
    /\ tpc = "start" /\ batch = <<>> /\ saw = FALSE /\ evalDue = FALSE /\ discard = 0
    /\ epc = (IF HasEval THEN "idle" ELSE "exit")
    /\ enext = NoStep /\ pend = NoStep
    /\ done = FALSE /\ stopRequested = FALSE /\ settled = 0
    /\ evalq = (IF HasEval /\ EvalAtStart THEN <<0>> ELSE <<>>)
    /\ scheduled = (IF HasEval /\ EvalAtStart THEN {0} ELSE {})
    /\ saved = NothingSaved

\* A new trainer on the same model; the same process keeps the orphans alive.
Resume ==
    LET first == HasEval /\ EvalAtStart
    IN  /\ run # "running" /\ runs < MaxRuns
        /\ run' = "running" /\ runs' = runs + 1 /\ limit' \in StepLimits
        /\ startStep' = bstep /\ pv' = bstep /\ nts' = bstep /\ cur' = bstep
        /\ offset' = ResumeOffset /\ startOffset' = ResumeOffset
        /\ completed' = saved.completed
        /\ lastEval' = (IF first THEN bstep ELSE saved.lastEval)
        /\ wpc' = [w \in Workers |-> "idle"] /\ wgroup' = [w \in Workers |-> NoGroup]
        /\ rpc' = "workers" /\ outq' = <<>> /\ stopPut' = FALSE
        /\ tpc' = "start" /\ batch' = <<>> /\ saw' = FALSE /\ evalDue' = FALSE
        /\ epc' = (IF HasEval THEN "idle" ELSE "exit")
        /\ discard' = 0 /\ enext' = NoStep /\ pend' = NoStep
        /\ done' = FALSE /\ stopRequested' = FALSE /\ settled' = 0
        /\ evalq' = (IF first THEN <<bstep>> ELSE <<>>)
        /\ scheduled' = (IF first THEN {bstep} ELSE {})
        /\ saved' = (IF first THEN [offset |-> ResumeOffset, step |-> bstep,
                                    lastEval |-> bstep, completed |-> saved.completed]
                              ELSE saved)
        /\ orphans' = (IF RetryInProcess THEN orphans ELSE {})
        /\ UNCHANGED bstep

(***************************************************************************)
(* Rollout workers.                                                        *)
(***************************************************************************)
NotWorkers == <<runVars, policyVars, done, stopRequested, rpc, stopPut, trainVars, evalVars,
                evalMarks, orphans, saved, bstep>>

Leaves(w) == wpc' = [wpc EXCEPT ![w] = "exit"] /\ wgroup' = [wgroup EXCEPT ![w] = NoGroup]

\* The top of the loop: done is tested, then the next scenario is awaited.
BeginFetch(w) ==
    /\ wpc[w] = "idle"
    /\ wpc' = [wpc EXCEPT ![w] = IF done THEN "exit" ELSE "fetching"]
    /\ UNCHANGED <<wgroup, offset, outq, settled, NotWorkers>>

\* _wait_for_policy and what follows it up to the call of rollout_fn.
EnterRollout(w) ==
    \/ done /\ Leaves(w)
    \/ /\ ~done /\ ~PolicyReady
       /\ wpc' = [wpc EXCEPT ![w] = "blocked"] /\ UNCHANGED wgroup
    \/ /\ ~done /\ PolicyReady
       /\ wpc' = [wpc EXCEPT ![w] = "rollout"]
       /\ wgroup' = [wgroup EXCEPT ![w] = [ver |-> pv, kind |-> "empty"]]

NoScenarioLeft(w) ==
    /\ wpc[w] = "fetching" /\ offset = NumScenarios
    /\ Leaves(w)
    /\ UNCHANGED <<offset, outq, settled, NotWorkers>>

TakeScenario(w) ==
    /\ wpc[w] = "fetching" /\ offset < NumScenarios
    /\ offset' = offset + 1
    /\ EnterRollout(w)
    /\ UNCHANGED <<outq, settled, NotWorkers>>

\* The scenario iterator raises, outside the worker's try block.
FetchRaises(w) ==
    /\ wpc[w] = "fetching" /\ "error" \in Outcomes
    /\ Fail

Recheck(w) ==
    /\ wpc[w] = "woken"
    /\ EnterRollout(w)
    /\ UNCHANGED <<offset, outq, settled, NotWorkers>>

\* rollout_fn returns a group, and it is dropped when the run is stopping.
RolloutReturns(w) ==
    /\ wpc[w] = "rollout"
    /\ \/ done /\ Leaves(w)
       \/ /\ ~done
          /\ wpc' = [wpc EXCEPT ![w] = "put"]
          /\ \E k \in Outcomes \cap GroupKinds : wgroup' = [wgroup EXCEPT ![w].kind = k]
    /\ UNCHANGED <<offset, outq, settled, NotWorkers>>

\* rollout_fn raises or returns no TrajectoryGroup: the worker goes on.
RolloutFails(w) ==
    /\ wpc[w] = "rollout" /\ "error" \in Outcomes
    /\ settled' = settled + 1
    /\ wpc' = [wpc EXCEPT ![w] = "idle"] /\ wgroup' = [wgroup EXCEPT ![w] = NoGroup]
    /\ UNCHANGED <<offset, outq, NotWorkers>>

\* _put_output_group: a put under way may still go through after a stop.
PutGroup(w) ==
    /\ wpc[w] = "put" /\ QueueRoom
    /\ outq' = Append(outq, wgroup[w])
    /\ wpc' = [wpc EXCEPT ![w] = "idle"] /\ wgroup' = [wgroup EXCEPT ![w] = NoGroup]
    /\ UNCHANGED <<offset, settled, NotWorkers>>

\* Mutant: the group is given up at the first timeout.
PutGivesUp(w) ==
    /\ wpc[w] = "put"
    /\ wpc' = [wpc EXCEPT ![w] = "idle"] /\ wgroup' = [wgroup EXCEPT ![w] = NoGroup]
    /\ UNCHANGED <<offset, outq, settled, NotWorkers>>

\* Its put times out every second: with done set the group is given up.
PutTimesOut(w) ==
    /\ wpc[w] = "put" /\ done
    /\ Leaves(w)
    /\ UNCHANGED <<offset, outq, settled, NotWorkers>>

(***************************************************************************)
(* The end of the rollout stage, and request_stop.                         *)
(***************************************************************************)
NotQueue == <<runVars, policyVars, offset, wgroup, trainVars, evalVars, evalMarks, orphans,
              saved, bstep, settled>>

\* Once its task group is over: no sentinel is put when done is set.
RolloutStageEnds ==
    /\ rpc = "workers" /\ \A w \in Workers : wpc[w] = "exit"
    /\ \/ done /\ rpc' = "exit" /\ UNCHANGED outq
       \/ ~done /\ QueueRoom /\ rpc' = "exit" /\ outq' = Append(outq, Sentinel)
       \/ ~done /\ ~QueueRoom /\ rpc' = "sentinel" /\ UNCHANGED outq
    /\ UNCHANGED <<wpc, done, stopRequested, stopPut, NotQueue>>

\* The blocked put(None) of the rollout stage finds room.
PutSentinel ==
    /\ rpc = "sentinel" /\ QueueRoom
    /\ rpc' = "exit" /\ outq' = Append(outq, Sentinel)
    /\ UNCHANGED <<wpc, done, stopRequested, stopPut, NotQueue>>

\* The signal handler, or the user: nothing is done when done is already set.
RequestStop ==
    /\ MayStop /\ run = "running" /\ ~stopRequested
    /\ stopRequested' = TRUE
    /\ \/ done /\ UNCHANGED <<done, wpc, outq, stopPut>>
       \/ /\ ~done /\ done' = TRUE
          /\ wpc' = NotifyPolicy(wpc)
          /\ \/ QueueRoom /\ outq' = Append(outq, Sentinel) /\ UNCHANGED stopPut
             \/ ~QueueRoom /\ stopPut' = TRUE /\ UNCHANGED outq
    /\ UNCHANGED <<rpc, NotQueue>>

\* FIFO: the put of the rollout stage, which can only be older, goes first.
PutStopSentinel ==
    /\ stopPut /\ QueueRoom /\ rpc # "sentinel"
    /\ stopPut' = FALSE /\ outq' = Append(outq, Sentinel)
    /\ UNCHANGED <<rpc, wpc, done, stopRequested, NotQueue>>

(***************************************************************************)
(* The training stage.                                                     *)
(***************************************************************************)
NotTraining == <<runVars, offset, stopRequested, wgroup, rpc, stopPut, epc, enext, pend,
                 completed, orphans>>

\* The end of _training_stage: done, the state is persisted, waiters woken.
LeaveTraining(step) ==
    /\ tpc' = "exit"
    /\ done' = TRUE
    /\ wpc' = NotifyPolicy(wpc)
    /\ saved' = Snapshot(step, lastEval, completed)
    /\ UNCHANGED <<policyVars, cur, saw, evalDue, evalq, scheduled, lastEval, bstep,
                   NotTraining>>

\* max_steps = 0: nothing to train.
NoStepToTrain ==
    /\ tpc = "start" /\ AtStepLimit(cur)
    /\ LeaveTraining(cur)
    /\ UNCHANGED <<outq, batch, discard, settled>>

StartTraining ==
    /\ tpc = "start" /\ ~AtStepLimit(cur)
    /\ tpc' = "collect"
    /\ UNCHANGED <<policyVars, done, wpc, outq, cur, batch, saw, evalDue, discard, evalq,
                   scheduled, lastEval, saved, bstep, settled, NotTraining>>

\* _collect_batch's loops end: the sentinel, a full batch, or an empty queue
\* once min_batch_size groups are there.
CollectionOver ==
    \/ saw
    \/ Len(batch) >= MaxBatch
    \/ Len(batch) >= MinBatch /\ outq = <<>>

\* One item of the loops.
TakeItem ==
    /\ tpc \in {"collect", "drain"} /\ ~CollectionOver /\ outq # <<>>
    /\ outq' = Tail(outq)

Collects ==
    /\ tpc' = "drain"
    /\ UNCHANGED <<policyVars, done, wpc, cur, evalDue, evalq, scheduled, lastEval, saved,
                   bstep, NotTraining>>

TakeSentinel ==
    /\ TakeItem /\ Head(outq) = Sentinel
    /\ saw' = TRUE
    /\ Collects /\ UNCHANGED <<batch, discard, settled>>

TakeStale ==
    /\ TakeItem /\ Head(outq).kind \in {"good", "flat"} /\ Stale(Head(outq))
    /\ settled' = settled + 1
    /\ Collects /\ UNCHANGED <<batch, discard, saw>>

TakeFlat ==
    /\ TakeItem /\ ZeroVariance(Head(outq)) /\ ~Stale(Head(outq))
    /\ discard + 1 < DiscardLimit
    /\ discard' = discard + 1
    /\ settled' = settled + 1
    /\ Collects /\ UNCHANGED <<batch, saw>>

TakeGood ==
    /\ TakeItem /\ Head(outq).kind = "good" /\ ~Stale(Head(outq))
    /\ batch' = Append(batch, Head(outq))
    /\ Collects /\ UNCHANGED <<discard, saw, settled>>

\* The discard queue reaches its limit: the run stops, the batch is given up.
Collapse ==
    /\ TakeItem /\ ZeroVariance(Head(outq)) /\ ~Stale(Head(outq))
    /\ discard + 1 >= DiscardLimit
    /\ discard' = discard + 1
    /\ settled' = settled + 1 + Len(batch) /\ batch' = <<>>
    /\ LeaveTraining(cur)

\* _check_all_failed raises: the exception ends the whole pipeline.
TakeFailed ==
    /\ tpc \in {"collect", "drain"} /\ ~CollectionOver /\ outq # <<>>
    /\ Head(outq).kind = "failed"
    /\ Fail

\* The queue is empty before min_batch_size groups are there: get() blocks.
BlockOnQueue ==
    /\ tpc = "drain" /\ ~CollectionOver /\ outq = <<>>
    /\ tpc' = "collect"
    /\ UNCHANGED <<policyVars, done, wpc, outq, cur, batch, saw, evalDue, discard, evalq,
                   scheduled, lastEval, saved, bstep, settled, NotTraining>>

\* Nothing was collected before the sentinel: the loop is left.
NothingToTrain ==
    /\ tpc = "drain" /\ CollectionOver /\ batch = <<>>
    /\ LeaveTraining(cur)
    /\ UNCHANGED <<outq, batch, discard, settled>>

BeginTrainStep ==
    /\ tpc = "drain" /\ CollectionOver /\ batch # <<>>
    /\ tpc' = "training"
    /\ nts' = cur + 1
    /\ evalDue' = ShouldEval(cur + 1)
    /\ wpc' = NotifyPolicy(wpc)
    /\ UNCHANGED <<pv, done, outq, cur, batch, saw, discard, evalq, scheduled, lastEval,
                   saved, bstep, settled, NotTraining>>

\* backend.train writes the checkpoint of the next step before it returns.
BackendSaves ==
    /\ tpc = "training"
    /\ tpc' = "saved" /\ bstep' = bstep + 1
    /\ UNCHANGED <<policyVars, done, wpc, outq, cur, batch, saw, evalDue, discard, evalq,
                   scheduled, lastEval, saved, settled, NotTraining>>

\* Mutant: expected_step is published, not result.step.
TrainReturnsExpected ==
    /\ tpc \in {"training", "saved"}
    /\ tpc' = "publish"
    /\ cur' = nts /\ pv' = nts
    /\ settled' = settled + Len(batch) /\ batch' = <<>>
    /\ UNCHANGED <<nts, done, wpc, outq, saw, evalDue, discard, evalq, scheduled, lastEval,
                   saved, bstep, NotTraining>>

\* backend.train returns the backend's step, which a skipped update without a
\* current checkpoint leaves where it was.
TrainReturns ==
    /\ tpc \in {"training", "saved"}
    /\ tpc' = "publish"
    /\ cur' = bstep /\ pv' = bstep /\ nts' = bstep
    /\ settled' = settled + Len(batch) /\ batch' = <<>>
    /\ UNCHANGED <<done, wpc, outq, saw, evalDue, discard, evalq, scheduled, lastEval, saved,
                   bstep, NotTraining>>

\* backend.train or a step after it raises.
TrainRaises ==
    /\ tpc \in {"training", "saved", "publish"} /\ "error" \in Outcomes
    /\ Fail

\* The metrics are logged, the discard queue cleared, the eval scheduled, the
\* state persisted and the waiters woken; then the loop is repeated or left.
Publish ==
    LET schedules == HasEval /\ evalDue /\ cur \notin scheduled
        last == IF schedules THEN cur ELSE lastEval
        leaves == saw \/ AtStepLimit(cur)
    IN  /\ tpc = "publish"
        /\ discard' = 0
        /\ lastEval' = last
        /\ scheduled' = scheduled \cup (IF schedules THEN {cur} ELSE {})
        /\ evalq' = (IF schedules THEN Append(evalq, cur) ELSE evalq)
        /\ saved' = Snapshot(cur, last, completed)
        /\ wpc' = NotifyPolicy(wpc)
        /\ tpc' = (IF leaves THEN "exit" ELSE "collect")
        /\ done' = (done \/ leaves)
        /\ UNCHANGED <<policyVars, outq, cur, batch, saw, evalDue, bstep, settled, NotTraining>>

(***************************************************************************)
(* The eval stage.                                                         *)
(***************************************************************************)
NotEval == <<runVars, policyVars, offset, done, stopRequested, workerVars, rpc, outq, stopPut,
             trainVars, lastEval, orphans, bstep, settled>>

\* wait_for(_eval_queue.get()): the step is evaluated once no eval runs.
EvalGet ==
    /\ epc = "idle" /\ evalq # <<>>
    /\ evalq' = Tail(evalq)
    /\ \/ pend = NoStep /\ pend' = Head(evalq) /\ UNCHANGED <<epc, enext>>
       \/ pend # NoStep /\ enext' = Head(evalq) /\ epc' = "await" /\ UNCHANGED pend
    /\ UNCHANGED <<scheduled, completed, saved, NotEval>>

EvalNext ==
    /\ epc = "await" /\ pend = NoStep
    /\ pend' = enext /\ enext' = NoStep /\ epc' = "idle"
    /\ UNCHANGED <<evalq, scheduled, completed, saved, NotEval>>

\* _run_eval ends well: the lease is released, the step recorded and persisted
\* with next_training_step as the training step.
EvalCompletes ==
    /\ pend # NoStep /\ pend' = NoStep
    /\ scheduled' = scheduled \ {pend}
    /\ completed' = completed \cup {pend}
    /\ saved' = Snapshot(nts, lastEval, completed \cup {pend})
    /\ UNCHANGED <<epc, evalq, enext, NotEval>>

\* Mutant: the lease is released by a successful eval only.
EvalFailsKeepingLease ==
    /\ pend # NoStep /\ pend' = NoStep
    /\ UNCHANGED <<epc, evalq, enext, scheduled, completed, saved, NotEval>>

EvalFails ==
    /\ pend # NoStep /\ pend' = NoStep
    /\ scheduled' = scheduled \ {pend}
    /\ UNCHANGED <<epc, evalq, enext, completed, saved, NotEval>>

\* Mutant: the loop is left as soon as done is seen.
EvalStageEndsAtOnce ==
    /\ epc = "idle" /\ done
    /\ epc' = "final"
    /\ UNCHANGED <<evalq, enext, pend, scheduled, completed, saved, NotEval>>

\* The loop is left when done is seen with an empty queue.
EvalStageEnds ==
    /\ epc = "idle" /\ done /\ evalq = <<>>
    /\ epc' = "final"
    /\ UNCHANGED <<evalq, enext, pend, scheduled, completed, saved, NotEval>>

\* The last eval is awaited.
EvalStageExits ==
    /\ epc = "final" /\ pend = NoStep
    /\ epc' = "exit"
    /\ UNCHANGED <<evalq, enext, pend, scheduled, completed, saved, NotEval>>

\* The orphaned eval of a failed run ends and persists its trainer's state.
OrphanPersists ==
    /\ \E o \in orphans : saved' = o /\ orphans' = orphans \ {o}
    /\ UNCHANGED <<runVars, policyVars, offset, done, stopRequested, workerVars, rpc, outq,
                   stopPut, trainVars, evalVars, evalMarks, bstep, settled>>

(***************************************************************************)
(* The end of train(), and a crash of the process.                         *)
(***************************************************************************)
Finish ==
    /\ run = "running"
    /\ rpc = "exit" /\ tpc = "exit" /\ epc = "exit"
    /\ EndRun("finished") /\ UNCHANGED orphans

Crash ==
    /\ run = "running" /\ runs < MaxRuns
    /\ EndRun("down") /\ orphans' = {}

(***************************************************************************)
(* The specification.                                                      *)
(***************************************************************************)
WorkerStep(w) ==
    \/ BeginFetch(w) \/ NoScenarioLeft(w) \/ TakeScenario(w) \/ Recheck(w)
    \/ RolloutReturns(w) \/ RolloutFails(w)
    \/ PutGroup(w) \/ PutTimesOut(w)

RolloutStage == RolloutStageEnds \/ PutSentinel

Collecting ==
    \/ TakeSentinel \/ TakeStale \/ TakeFlat \/ TakeGood
    \/ Collapse \/ TakeFailed \/ BlockOnQueue \/ NothingToTrain \/ BeginTrainStep

TrainLoop == NoStepToTrain \/ StartTraining \/ BackendSaves \/ TrainReturns \/ Publish

EvalStage == EvalGet \/ EvalNext \/ EvalStageEnds \/ EvalStageExits

EvalRun == EvalCompletes \/ EvalFails

Disruption == (\E w \in Workers : FetchRaises(w)) \/ TrainRaises \/ Crash \/ Resume

OtherTask ==
    \/ \E w \in Workers : WorkerStep(w)
    \/ RolloutStage \/ PutStopSentinel \/ RequestStop
    \/ TrainLoop \/ EvalStage \/ EvalRun \/ OrphanPersists
    \/ Finish \/ Disruption

Next == Collecting \/ (LoopFree /\ OtherTask)

Spec == Init /\ [][Next]_vars

\* The event loop runs every task that can run, and rollout_fn, eval_fn and
\* backend.train come back.  Nothing makes a signal, an exception, a crash or
\* a resumed run happen.
Fairness ==
    /\ WF_vars(Collecting)
    /\ \A w \in Workers : WF_vars(LoopFree /\ WorkerStep(w))
    /\ WF_vars(LoopFree /\ RolloutStage)
    /\ WF_vars(LoopFree /\ PutStopSentinel)
    /\ WF_vars(LoopFree /\ TrainLoop)
    /\ WF_vars(LoopFree /\ EvalStage)
    /\ WF_vars(LoopFree /\ EvalRun)
    /\ WF_vars(LoopFree /\ Finish)

FairSpec == Spec /\ Fairness

(***************************************************************************)
(* Properties.                                                             *)
(***************************************************************************)

WorkersTyped ==
    /\ wpc \in [Workers -> {"idle", "fetching", "blocked", "woken", "rollout", "put", "exit"}]
    /\ wgroup \in [Workers -> Group]

QueueTyped ==
    /\ rpc \in {"workers", "sentinel", "exit"} /\ stopPut \in BOOLEAN
    /\ outq \in Seq(Group \cup {Sentinel}) /\ Len(outq) <= QueueMax

TrainTyped ==
    /\ tpc \in {"start", "collect", "drain", "training", "saved", "publish", "exit"}
    /\ cur \in Nat
    /\ batch \in Seq(Group) /\ Len(batch) <= MaxBatch
    /\ saw \in BOOLEAN /\ evalDue \in BOOLEAN /\ discard \in 0..DiscardLimit

EvalTyped ==
    /\ epc \in {"idle", "await", "final", "exit"} /\ evalq \in Seq(Nat)
    /\ enext \in Nat \cup {NoStep} /\ pend \in Nat \cup {NoStep}
    /\ scheduled \subseteq Nat /\ lastEval \in Nat /\ completed \subseteq Nat

RunTyped ==
    /\ run \in {"running", "finished", "down"} /\ runs \in 1..MaxRuns
    /\ limit \in StepLimits /\ startStep \in Nat /\ startOffset \in Nat /\ offset \in Nat /\ settled \in Nat
    /\ pv \in Nat /\ nts \in Nat /\ bstep \in Nat
    /\ done \in BOOLEAN /\ stopRequested \in BOOLEAN
    /\ orphans \subseteq Saved /\ saved \in Saved

\* Every variable has its type, and the output queue never exceeds its
\* maxsize whichever of the workers, the rollout stage and request_stop puts.
TypeOK == WorkersTyped /\ QueueTyped /\ TrainTyped /\ EvalTyped /\ RunTyped

\* next_training_step runs ahead of policy_version by one step, and only while
\* backend.train is under way: the gate of _wait_for_policy closes at no other
\* time, whatever the backend returned or where the run resumed.
VersionGate ==
    run = "running" =>
        /\ cur = pv
        /\ nts = pv \/ (nts = pv + 1 /\ tpc \in {"training", "saved"})

\* Every group of the batch handed to backend.train was rolled out with a
\* policy at most max_steps_off_policy steps behind the one being trained.
FreshBatch == \A i \in 1..Len(batch) : batch[i].ver \in (cur - MaxOff)..cur

\* A policy version or an eval step in use anywhere has a checkpoint: the
\* trainer never publishes a step the backend has not saved.
InUse == {pv} \cup {wgroup[w].ver : w \in Workers} \cup scheduled

StepsSaved == \A s \in InUse : s <= bstep

Holding(w) == wpc[w] \in {"blocked", "woken", "rollout", "put"}

Queued == Cardinality({i \in 1..Len(outq) : outq[i] # Sentinel})

\* Until a stop, every scenario the run consumed is held by a worker, queued,
\* in the batch, or was trained on, discarded as stale or flat, or failed.
GroupsConserved ==
    run = "running" /\ ~done =>
        offset - startOffset
            = Cardinality({w \in Workers : Holding(w)}) + Queued + Len(batch) + settled

EvalsUnderWay == {evalq[i] : i \in 1..Len(evalq)} \cup ({enext, pend} \ {NoStep})

\* The scheduled-eval leases are those of the evals queued, dequeued or
\* running, each of them once: none is lost, leaked or run twice.
EvalLeasesAccounted ==
    /\ scheduled = EvalsUnderWay
    /\ \A i, j \in 1..Len(evalq) : evalq[i] = evalq[j] => i = j
    /\ \A i \in 1..Len(evalq) : evalq[i] \notin {enext, pend}
    /\ enext = pend => pend = NoStep

\* Once a run has published a step, no eval is overdue between two steps,
\* whatever interval the run resumed in.
EvalOnTime ==
    HasEval /\ EvalEvery > 0 /\ tpc = "collect" /\ cur > startStep
        => cur - lastEval < EvalEvery

\* One run of train() makes at most max_steps checkpoints.
StepsBounded == limit # NoLimit => bstep <= startStep + limit

\* What is persisted never goes back, over crashes, failed and resumed runs, and no
\* run is behind it: a scenario taken before the last save is not handed out again,
\* and no completed eval is forgotten.  (Those taken since are, after a crash.)
SavedMonotone ==
    [][/\ saved.offset <= saved'.offset /\ saved'.offset <= offset'
       /\ saved.completed \subseteq saved'.completed]_vars

\* Evals are neither late nor lost: a run that ends normally, and that nobody stopped,
\* has run every eval it scheduled.  After a stop during a train step the eval stage may
\* leave before that step's eval is scheduled.
NoEvalLeftBehind ==
    /\ []EvalOnTime
    /\ [][run' = "finished" /\ ~stopRequested => scheduled = {}]_vars

\* train() returns or raises.
AlwaysEnds == (run = "running") ~> (run # "running")

\* "Request a clean shutdown of the pipeline stages."
StopRequestEndsRun == stopRequested ~> (run # "running")

=============================================================================
