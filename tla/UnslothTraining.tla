--------------------------- MODULE UnslothTraining ---------------------------
(***************************************************************************)
(* Training in the process of a LocalBackend: UnslothService.train and     *)
(* train_sft, the background trainer they feed through two queues, and the *)
(* GPU they may share with the vLLM server (art/unsloth).                  *)
(*                                                                         *)
(* trainer.train() is synchronous.  It runs in a task of its own and, when *)
(* it wants an input, runs the event loop inside itself until one is put;  *)
(* while it computes nothing else runs.  So a whole training step, from    *)
(* the input to its result, is one action.                                 *)
(*                                                                         *)
(* One call runs at a time, as under LocalBackend.  The weights are the    *)
(* updates made to them, in order; those of the warm-up (a learning rate   *)
(* of 1e-9) count for the optimizer state only.                            *)
(***************************************************************************)
EXTENDS Integers, Sequences, SequencesExt

CONSTANTS MaxCalls,       \* training calls a run makes
          MaxItems        \* most sequences, or SFT batches, of a call

ASSUME CallAssumption == MaxCalls \in Nat /\ MaxItems \in Nat \ {0}

VARIABLES
    mode,       \* "dedicated" or "shared": has vLLM GPUs of its own?
    vllm,       \* "awake", "asleep" or "gone"
    failure,    \* has the supervisor seen vLLM exit?
    placed,     \* where the parameters and the optimizer state are
    weights,    \* the updates made to the adapter
    moments,    \* modes of the updates the optimizer state comes from
    lastMode,   \* ctx.last_training_mode
    warmup,     \* ctx.warmup_pending
    trainer,    \* the background task: "none", "waiting", "ended", "broken"
    known,      \* is it ctx.train_task?
    inputs,     \* ctx.inputs_queue
    unfinished, \* results put in ctx.results_queue and not marked done
    getters,    \* tasks waiting for a result, in order: "own", or "left"
    call,       \* the running call
    made,       \* calls made
    served,     \* the weights vLLM was given, oldest first
    leaked,     \* was a call cancelled while it waited for a result?
    unclosed,   \* did a failed call end without closing the service?
    exiting     \* "no", "closing", "main done" or "exited"

server == <<vllm, failure>>
model == <<weights, moments, lastMode, placed>>
tasks == <<trainer, known, inputs, unfinished, getters, warmup>>
marks == <<leaked, unclosed>>
vars == <<mode, server, model, tasks, call, made, served, marks, exiting>>

Stop == [call |-> 0]         \* _STOP_TRAIN_INPUT
Nothing == [call |-> 0]      \* no result yet
Idle == [pc |-> "idle"]
At(pc) == call.pc = pc
To(pc) == [call EXCEPT !.pc = pc]

Init ==
    /\ mode \in {"dedicated", "shared"}
    /\ vllm = "awake" /\ failure = FALSE
    /\ placed = IF mode = "shared" THEN "cpu" ELSE "gpu"
    /\ weights = <<>> /\ moments = {} /\ lastMode = "none" /\ warmup = TRUE
    /\ trainer = "none" /\ known = FALSE
    /\ inputs = <<>> /\ unfinished = 0 /\ getters = <<>>
    /\ call = Idle /\ made = 0
    /\ served = << <<>> >>
    /\ leaked = FALSE /\ unclosed = FALSE /\ exiting = "no"
-----------------------------------------------------------------------------
(***************************************************************************)
(* A call that raises closes the service: it asks the trainer to stop and, *)
(* once it has, stops vLLM.  waiters are the getters it leaves behind.     *)
(***************************************************************************)
\* Mutant: a call that raises does not stop vLLM.
StopTrainerOnly(next) ==
    /\ known' = FALSE
    /\ IF known /\ trainer = "waiting"
       THEN inputs' = Append(inputs, Stop) /\ call' = [pc |-> "stopping"]
       ELSE call' = next /\ UNCHANGED inputs
    /\ UNCHANGED vllm

StopTrainer(next) ==
    /\ known' = FALSE
    /\ IF known /\ trainer = "waiting"
       THEN /\ inputs' = Append(inputs, Stop)
            /\ call' = [pc |-> "stopping"]
            /\ UNCHANGED vllm
       ELSE /\ vllm' = "gone"
            /\ call' = next
            /\ UNCHANGED inputs

Raise(waiters) ==
    /\ StopTrainer(Idle)
    /\ getters' = waiters
    /\ UNCHANGED <<mode, failure, trainer, unfinished, warmup, made, served, exiting>>

\* wait_for(train_task) re-raises what the trainer raised, before close().
Stopped ==
    /\ At("stopping")
    /\ trainer # "waiting"
    /\ call' = Idle
    /\ IF trainer = "broken"
       THEN unclosed' = TRUE /\ UNCHANGED vllm
       ELSE vllm' = "gone" /\ UNCHANGED unclosed
    /\ exiting' = IF exiting = "closing" THEN "main done" ELSE exiting
    /\ UNCHANGED <<mode, failure, model, tasks, made, served, leaked>>
-----------------------------------------------------------------------------
(***************************************************************************)
(* The start of a call.                                                    *)
(***************************************************************************)
\* Mutant: the optimizer state is kept when the mode changes.
ModeKept(kind) == lastMode' = kind /\ UNCHANGED moments

\* The optimizer state of the other mode is dropped.
ModeSet(kind) ==
    /\ lastMode' = kind
    /\ moments' = IF lastMode \in {"none", kind} THEN moments ELSE {}

Begun(kind, n, pc) ==
    [pc |-> pc, kind |-> kind, n |-> n, item |-> 1, warm |-> FALSE, got |-> Nothing]

Refused(kind) == failure \/ (kind = "sft" /\ mode = "dedicated")

Start(kind, n) ==
    /\ At("idle") /\ exiting = "no" /\ made < MaxCalls
    /\ ~Refused(kind)
    /\ made' = made + 1
    /\ IF mode = "shared"
       THEN call' = Begun(kind, n, "sleep") /\ UNCHANGED <<lastMode, moments>>
       ELSE call' = Begun(kind, n, "join") /\ ModeSet(kind)
    /\ UNCHANGED <<mode, server, weights, placed, tasks, served, marks, exiting>>

StartRefused(kind) ==
    /\ At("idle") /\ exiting = "no" /\ made < MaxCalls
    /\ Refused(kind)
    /\ made' = made + 1
    /\ StopTrainer(Idle)
    /\ UNCHANGED <<mode, failure, model, trainer, unfinished, getters, warmup,
                   served, marks, exiting>>

Answers == vllm # "gone" /\ ~failure

\* vLLM is asleep: the trainer takes the GPU.
Sleep ==
    /\ At("sleep") /\ Answers
    /\ vllm' = "asleep"
    /\ placed' = "gpu"
    /\ ModeSet(call.kind)
    /\ call' = To(IF call.kind = "rl" THEN "join" ELSE "sft")
    /\ UNCHANGED <<mode, failure, weights, tasks, made, served, marks, exiting>>
-----------------------------------------------------------------------------
(***************************************************************************)
(* run_unsloth_rl_training: one input, one result at a time.               *)
(***************************************************************************)
Feed(item, warm) ==
    /\ inputs' = Append(inputs, [call |-> made, item |-> item, of |-> call.n,
                                 warm |-> warm])
    /\ getters' = Append(getters, "own")
    /\ call' = [call EXCEPT !.pc = "wait", !.item = item, !.warm = warm,
                            !.got = Nothing]

\* Every earlier result is marked done: the trainer is created, and fed.
Join ==
    /\ At("join")
    /\ unfinished = 0
    /\ Feed(1, warmup)
    /\ known' = TRUE
    /\ trainer' = IF known THEN trainer ELSE "waiting"
    /\ UNCHANGED <<mode, server, model, unfinished, warmup, made, served, marks,
                   exiting>>

Updates(w, i) ==
    IF i.warm THEN w ELSE Append(w, [call |-> i.call, item |-> i.item, of |-> i.of])

\* A getter always waits when a result is put: the first one takes it.
TrainStep ==
    /\ trainer = "waiting" /\ inputs # <<>> /\ Head(inputs) # Stop
    /\ inputs' = Tail(inputs)
    /\ weights' = Updates(weights, Head(inputs))
    /\ moments' = moments \cup {"rl"}
    /\ unfinished' = unfinished + 1
    /\ getters' = Tail(getters)
    /\ call' = IF Head(getters) = "own" THEN [call EXCEPT !.got = Head(inputs)]
                                        ELSE call
    /\ UNCHANGED <<mode, server, lastMode, placed, trainer, known, warmup, made,
                   served, marks, exiting>>

TrainFails ==
    /\ trainer = "waiting" /\ inputs # <<>> /\ Head(inputs) # Stop
    /\ inputs' = Tail(inputs)
    /\ trainer' = "broken"
    /\ UNCHANGED <<mode, server, model, known, unfinished, getters, warmup, call,
                   made, served, marks, exiting>>

TrainStops ==
    /\ trainer = "waiting" /\ inputs # <<>> /\ Head(inputs) = Stop
    /\ inputs' = Tail(inputs)
    /\ trainer' = "ended"
    /\ UNCHANGED <<mode, server, model, known, unfinished, getters, warmup, call,
                   made, served, marks, exiting>>

\* The warm-up's result is dropped, and its item is fed again after a pause.
WarmedUp ==
    /\ At("wait") /\ call.got # Nothing /\ call.warm
    /\ unfinished' = unfinished - 1
    /\ warmup' = FALSE
    /\ call' = To("rest")
    /\ UNCHANGED <<mode, server, model, trainer, known, inputs, getters, made,
                   served, marks, exiting>>

Rested ==
    /\ At("rest")
    /\ Feed(call.item, FALSE)
    /\ UNCHANGED <<mode, server, model, trainer, known, unfinished, warmup, made,
                   served, marks, exiting>>

Yield ==
    /\ At("wait") /\ call.got # Nothing /\ ~call.warm
    /\ unfinished' = unfinished - 1
    /\ IF call.item < call.n
       THEN Feed(call.item + 1, FALSE)
       ELSE call' = To("save") /\ UNCHANGED <<inputs, getters>>
    /\ UNCHANGED <<mode, server, model, trainer, known, warmup, made, served, marks,
                   exiting>>

Without(who) == RemoveFirst(getters, who)

\* Mutant: only the result is waited for.
TrainerUnwatched ==
    /\ At("wait") /\ call.got = Nothing /\ trainer = "none"
    /\ Raise(Without("own"))
    /\ UNCHANGED <<model, marks>>

\* The trainer raised, or ended though it "should never finish".
TrainerOver ==
    /\ At("wait") /\ call.got = Nothing /\ trainer # "waiting"
    /\ Raise(Without("own"))
    /\ UNCHANGED <<model, marks>>
-----------------------------------------------------------------------------
(***************************************************************************)
(* run_unsloth_sft_training, in the loop itself.                           *)
(***************************************************************************)
SftBatch ==
    /\ At("sft")
    /\ weights' = Append(weights, [call |-> made, item |-> call.item, of |-> call.n])
    /\ moments' = moments \cup {"sft"}
    /\ call' = IF call.item < call.n THEN [call EXCEPT !.item = @ + 1] ELSE To("save")
    /\ UNCHANGED <<mode, server, lastMode, placed, tasks, made, served, marks, exiting>>
-----------------------------------------------------------------------------
(***************************************************************************)
(* The end of a call.                                                      *)
(***************************************************************************)
\* Mutant: the trainer is not offloaded before vLLM wakes up.
SaveInPlace ==
    /\ At("save")
    /\ call' = To(IF mode = "shared" THEN "wake" ELSE "reload")
    /\ UNCHANGED <<mode, server, model, tasks, made, served, marks, exiting>>

Save ==
    /\ At("save")
    /\ placed' = IF mode = "shared" THEN "cpu" ELSE placed
    /\ call' = To(IF mode = "shared" THEN "wake" ELSE "reload")
    /\ UNCHANGED <<mode, server, weights, moments, lastMode, tasks, made, served,
                   marks, exiting>>

Wake ==
    /\ At("wake") /\ Answers
    /\ vllm' = "awake"
    /\ call' = To("reload")
    /\ UNCHANGED <<mode, failure, model, tasks, made, served, marks, exiting>>

Reload ==
    /\ At("reload") /\ Answers
    /\ served' = Append(served, weights)
    /\ call' = Idle
    /\ UNCHANGED <<mode, server, model, tasks, made, marks, exiting>>

\* An SFT batch, a save or a request fails; its effect may have been had.
StepFails ==
    /\ call.pc \in {"sleep", "sft", "save", "wake", "reload"}
    /\ Raise(getters)
    /\ UNCHANGED <<model, marks>>

\* The caller's task is cancelled; asyncio.wait leaves its tasks running.
Cancel ==
    /\ call.pc \in {"sleep", "join", "wait", "rest", "wake", "reload"}
    /\ Raise([i \in DOMAIN getters |-> "left"])
    /\ leaked' = (leaked \/ At("wait"))
    /\ UNCHANGED <<model, unclosed>>

\* The supervisor closes the service; the trainer is not told.
VllmExits ==
    /\ vllm # "gone" /\ exiting = "no"
    /\ vllm' = "gone"
    /\ failure' = TRUE
    /\ UNCHANGED <<mode, model, tasks, call, made, served, marks, exiting>>
-----------------------------------------------------------------------------
(***************************************************************************)
(* The end of the program: the backend's close(), awaited, or the          *)
(* synchronous _close() of "with LocalBackend()".  The event loop can end  *)
(* only when no trainer runs it from inside.                               *)
(***************************************************************************)
BackendCloses ==
    /\ At("idle") /\ exiting = "no"
    /\ StopTrainer(Idle)
    /\ exiting' = IF known /\ trainer = "waiting" THEN "closing" ELSE "main done"
    /\ UNCHANGED <<mode, failure, model, trainer, unfinished, getters, warmup, made,
                   served, marks>>

BackendClosesNow ==
    /\ At("idle") /\ exiting = "no"
    /\ vllm' = "gone"
    /\ exiting' = "main done"
    /\ UNCHANGED <<mode, failure, model, tasks, call, made, served, marks>>

LoopEnds ==
    /\ exiting = "main done" /\ trainer # "waiting"
    /\ exiting' = "exited"
    /\ UNCHANGED <<mode, server, model, tasks, call, made, served, marks>>
-----------------------------------------------------------------------------
\* What the event loop does once it can.
Steps ==
    \/ Stopped \/ Sleep \/ Join \/ TrainStep \/ TrainStops \/ WarmedUp \/ Rested
    \/ Yield \/ TrainerOver \/ SftBatch \/ Save \/ Wake \/ Reload \/ LoopEnds

Next ==
    \/ Steps
    \/ \E kind \in {"rl", "sft"} :
         \/ StartRefused(kind)
         \/ \E n \in 1 .. MaxItems : Start(kind, n)
    \/ TrainFails \/ StepFails \/ Cancel \/ VllmExits
    \/ BackendCloses \/ BackendClosesNow

Spec == Init /\ [][Next]_vars

\* A request ends, with an answer or an error; a step of the loop that can be
\* taken is taken.
FairSpec == Spec /\ WF_vars(Steps) /\ WF_vars(StepFails)
-----------------------------------------------------------------------------
Updated == [call : 1 .. MaxCalls, item : 1 .. MaxItems, of : 1 .. MaxItems]

\* The state keeps its types; no result is marked done more than once, which
\* would raise in asyncio.Queue (train.py: task_done).
TypeOK ==
    /\ mode \in {"dedicated", "shared"} /\ placed \in {"cpu", "gpu"}
    /\ vllm \in {"awake", "asleep", "gone"}
    /\ weights \in Seq(Updated) /\ moments \subseteq {"rl", "sft"}
    /\ lastMode \in {"none", "rl", "sft"}
    /\ trainer \in {"none", "waiting", "ended", "broken"}
    /\ getters \in Seq({"own", "left"})
    /\ unfinished \in Nat /\ made \in 0 .. MaxCalls
    /\ served \in Seq(Seq(Updated))
    /\ exiting \in {"no", "closing", "main done", "exited"}

\* In shared mode the parameters and the optimizer state are on the GPU only
\* while vLLM sleeps or is gone (service.py: _train_shared, train_sft).
GpuExclusive == mode = "shared" /\ placed = "gpu" => vllm # "awake"

\* What vLLM serves is made of whole training calls, each item trained once and
\* in order: no call that failed or was cancelled half-way leaves updates in it,
\* unless that call could not close the service.
WholeCalls(w) ==
    \A i \in DOMAIN w :
        /\ w[i].item > 1 => i > 1 /\ w[i - 1] = [w[i] EXCEPT !.item = @ - 1]
        /\ w[i].item < w[i].of =>
              i < Len(w) /\ w[i + 1] = [w[i] EXCEPT !.item = @ + 1]

ServedWhole == unclosed \/ \A s \in DOMAIN served : WholeCalls(served[s])

\* A training step runs on parameters that are on the GPU, and an update never uses
\* momentum gathered in the other training mode (_reset_optimizer_if_mode_changed).
UpdatesSound ==
    [][weights' # weights \/ unfinished' > unfinished =>
           placed = "gpu" /\ moments' # {"rl", "sft"}]_vars

\* A call ends, unless an earlier one was cancelled while it waited for a
\* result: then a later one may wait for ever on the queue of results.  When the
\* backend has been closed with await close(), the event loop can end: no trainer is
\* left running it from inside.
CallsEnd ==
    /\ []<>(At("idle") \/ leaked)
    /\ exiting = "closing" ~> exiting = "exited"

=============================================================================
