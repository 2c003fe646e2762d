--------------------------- MODULE WeightStreaming ---------------------------
(***************************************************************************)
(* StreamingWeightOffloader                                                *)
(* (src/art/megatron/training/streaming_weight_offload.py): the frozen     *)
(* weights of the layers live in CPU memory and pass through a few slots   *)
(* of GPU memory while the layers are run forward and backward.            *)
(*                                                                         *)
(* The training thread decides what is loaded and offloaded, a thread      *)
(* copies weights to pinned memory and launches their copy to the GPU, and *)
(* the GPU runs two streams, the kernels' and the copies', in their own    *)
(* time.                                                                   *)
(***************************************************************************)
EXTENDS Integers, Sequences, SequencesExt, FiniteSets, FiniteSetsExt

CONSTANTS
    NumLayers,   \* the layers that are streamed
    NumSlots,    \* num_slots
    Residents,   \* the values of resident_layers, of 1 .. NumSlots
    MaxPasses,   \* bound: the passes of a job
    MaxJobs      \* bound: the jobs

\* A model without layers is refused (install), and no more resident layers than slots are
\* accepted, nor none (StreamingWeightOffloadConfig, from_env).
ASSUME SizesAssumption ==
    /\ NumLayers \in Nat \ {0} /\ NumSlots \in Nat
    /\ Residents \subseteq 1 .. NumSlots

Layers == 0 .. NumLayers - 1
Slots == 1 .. NumSlots
NoLayer == -1
NoSlot == 0

VARIABLES
    resident,    \* resident_layers
    stage,       \* what the training thread is about
    layer,       \* the next layer of the pass
    grads,       \* whether the pass goes backward too
    todo,        \* what is left of the hook it is in
    passes, jobs,
    status,      \* of each layer: "cpu", "loading" or "gpu"
    slotOf,      \* the slot of a layer
    owner,       \* the layer of a slot
    released,    \* the slots with a release_stream
    queue,       \* the loads the thread has not taken
    loading,     \* the load it is in
    ready,       \* load_ready of each layer
    error,       \* _worker_error
    pinned,      \* the layer whose weights the pinned buffer of a slot holds
    gpu,         \* the layer whose weights its GPU buffer holds
    kernels,     \* the stream of the layers' kernels
    transfers,   \* the stream of the copies
    copied       \* the layers whose last copy is complete

threadVars == <<resident, stage, layer, grads, passes, jobs>>
layerVars == <<status, slotOf, owner>>
loadVars == <<released, queue, loading, ready, error, pinned>>
gpuVars == <<gpu, kernels, transfers, copied>>
streamVars == <<threadVars, todo, layerVars, loadVars, gpuVars>>

NoLoad == [layer |-> NoLayer, slot |-> NoSlot, at |-> "idle"]

StreamInit ==
    /\ resident \in Residents
    /\ stage = "idle" /\ layer = 0 /\ grads = FALSE /\ todo = <<>> /\ passes = 0 /\ jobs = 0
    /\ status = [l \in Layers |-> "cpu"] /\ slotOf = [l \in Layers |-> NoSlot]
    /\ owner = [s \in Slots |-> NoLayer] /\ released = {}
    /\ queue = <<>> /\ loading = NoLoad /\ ready = {} /\ error = FALSE
    /\ pinned = [s \in Slots |-> NoLayer] /\ gpu = [s \in Slots |-> NoLayer]
    /\ kernels = <<>> /\ transfers = <<>> /\ copied = {}

(***************************************************************************)
(* The hooks, as what they do to one layer after another.                  *)
(***************************************************************************)

Do(op, l) == [op |-> op, layer |-> l]

\* _prefetch_window
Prefetch(start, step, count) == [i \in 1 .. count |-> Do("load", start + step * (i - 1))]

\* offload_all, _offload_recomputed_successors
EnsureOffloaded(first) == [i \in 1 .. NumLayers - first |-> Do("ensure", first + i - 1)]

\* A layer run without gradients, between its two hooks.
Forward(l) ==
    << Do("finish", l) >> \o Prefetch(l + 1, 1, resident - 1)
        \o << Do("kernel", l), Do("offload", l) >> \o Prefetch(l + resident, 1, 1)

\* A layer run again with gradients, and its backward.
Backward(l) ==
    EnsureOffloaded(l + 1) \o << Do("finish", l) >> \o Prefetch(l - 1, -1, resident - 1)
        \o << Do("kernel", l) >>

(***************************************************************************)
(* The training thread, when it is in no hook.                             *)
(***************************************************************************)

Free == todo = <<>> /\ stage # "failed"

BeginJob ==
    /\ Free /\ stage = "idle" /\ jobs < MaxJobs
    /\ stage' = "between" /\ jobs' = jobs + 1 /\ passes' = 0
    /\ todo' = Prefetch(0, 1, resident)
    /\ UNCHANGED <<resident, layer, grads, layerVars, loadVars, gpuVars>>

\* A micro-batch is trained, or its reference log-probabilities are computed.
BeginPass ==
    /\ Free /\ stage = "between" /\ passes < MaxPasses
    /\ stage' = "forward" /\ layer' = 0 /\ passes' = passes + 1 /\ grads' \in BOOLEAN
    /\ UNCHANGED <<resident, jobs, todo, layerVars, loadVars, gpuVars>>

GoForward ==
    /\ Free /\ stage = "forward"
    /\ todo' = Forward(layer)
    /\ IF layer < NumLayers - 1 THEN layer' = layer + 1 /\ UNCHANGED stage
       ELSE UNCHANGED layer /\ stage' = IF grads THEN "backward" ELSE "between"
    /\ UNCHANGED <<resident, grads, passes, jobs, layerVars, loadVars, gpuVars>>

GoBackward ==
    /\ Free /\ stage = "backward"
    /\ todo' = Backward(layer)
    /\ IF layer > 0 THEN layer' = layer - 1 /\ UNCHANGED stage
       ELSE UNCHANGED layer /\ stage' = "between"
    /\ UNCHANGED <<resident, grads, passes, jobs, layerVars, loadVars, gpuVars>>

FinishJob ==
    /\ Free /\ stage = "between"
    /\ todo' = EnsureOffloaded(0) /\ stage' = "idle"
    /\ UNCHANGED <<resident, layer, grads, passes, jobs, layerVars, loadVars, gpuVars>>

(***************************************************************************)
(* The training thread in a hook.                                          *)
(***************************************************************************)

Next1(op) == todo # <<>> /\ stage # "failed" /\ Head(todo).op = op
Here == Head(todo).layer
Done == todo' = Tail(todo) /\ UNCHANGED threadVars
Instead(ops) == todo' = ops \o Tail(todo) /\ UNCHANGED threadVars
RaiseError == stage' = "failed" /\ UNCHANGED <<resident, layer, grads, passes, jobs, todo>>

FreeSlots == {s \in Slots : owner[s] = NoLayer}

\* The first free slot without a release_stream, or the first free one.
Acquired ==
    LET fresh == FreeSlots \ released IN Min(IF fresh = {} THEN FreeSlots ELSE fresh)

\* _start_load: nothing to do beyond the first and last layer or for a layer that is there.
\* It raises an error when the thread failed or no slot is free.
StartLoad ==
    /\ Next1("load")
    /\ IF error THEN RaiseError /\ UNCHANGED <<layerVars, queue, ready, copied>>
       ELSE IF Here \notin Layers \/ (Here \in Layers /\ status[Here] # "cpu")
            THEN Done /\ UNCHANGED <<layerVars, queue, ready, copied>>
       ELSE IF FreeSlots = {} THEN RaiseError /\ UNCHANGED <<layerVars, queue, ready, copied>>
       ELSE /\ Done
            /\ status' = [status EXCEPT ![Here] = "loading"]
            /\ slotOf' = [slotOf EXCEPT ![Here] = Acquired]
            /\ owner' = [owner EXCEPT ![Acquired] = Here]
            /\ queue' = Append(queue, [layer |-> Here, slot |-> Acquired, at |-> "taken"])
            /\ ready' = ready \ {Here} /\ copied' = copied \ {Here}
    /\ UNCHANGED <<released, loading, error, pinned, gpu, kernels, transfers>>

\* _finish_load: waits until the copy was launched and for the event after it.
FinishLoad ==
    /\ Next1("finish")
    /\ \/ error /\ RaiseError /\ UNCHANGED status
       \/ ~error /\ status[Here] = "gpu" /\ Done /\ UNCHANGED status
       \/ ~error /\ status[Here] = "cpu" /\ Instead(<<Do("load", Here), Do("finish", Here)>>)
          /\ UNCHANGED status
       \/ ~error /\ status[Here] = "loading" /\ Here \in ready \cap copied
          /\ Done /\ status' = [status EXCEPT ![Here] = "gpu"]
    /\ UNCHANGED <<slotOf, owner, loadVars, gpuVars>>

\* _ensure_offloaded
Ensure ==
    /\ Next1("ensure")
    /\ CASE status[Here] = "cpu" -> Done
         [] status[Here] = "loading" -> Instead(<<Do("finish", Here), Do("offload", Here)>>)
         [] status[Here] = "gpu" -> Instead(<<Do("offload", Here)>>)
    /\ UNCHANGED <<layerVars, loadVars, gpuVars>>

\* _start_offload: the slot is free at once; the next copy into it waits for the kernels.
StartOffload ==
    /\ Next1("offload")
    /\ CASE status[Here] = "cpu" -> Done /\ UNCHANGED <<layerVars, released>>
         [] status[Here] = "loading" ->
                Instead(<<Do("finish", Here), Do("offload", Here)>>)
                /\ UNCHANGED <<layerVars, released>>
         [] status[Here] = "gpu" ->
                /\ Done
                /\ owner' = [owner EXCEPT ![slotOf[Here]] = NoLayer]
                /\ released' = released \cup {slotOf[Here]}
                /\ slotOf' = [slotOf EXCEPT ![Here] = NoSlot]
                /\ status' = [status EXCEPT ![Here] = "cpu"]
    /\ UNCHANGED <<queue, loading, ready, error, pinned, gpuVars>>

\* The layer's kernels are launched on the views of its parameters.
Launch ==
    /\ Next1("kernel") /\ Done
    /\ kernels' = Append(kernels, [layer |-> Here, slot |-> slotOf[Here]])
    /\ UNCHANGED <<layerVars, loadVars, gpu, transfers, copied>>

(***************************************************************************)
(* The thread that loads.                                                  *)
(***************************************************************************)

Take ==
    /\ loading = NoLoad /\ queue # <<>>
    /\ loading' = Head(queue) /\ queue' = Tail(queue)
    /\ UNCHANGED <<threadVars, todo, layerVars, released, ready, error, pinned, gpuVars>>

\* _run_load: the weights are copied to pinned memory ...
Pin ==
    /\ loading.at \in {"taken", "pinning"}
    /\ loading' = [loading EXCEPT !.at = IF loading.at = "taken" THEN "pinning" ELSE "pinned"]
    /\ pinned' = [pinned EXCEPT ![loading.slot] =
                      IF loading.at = "taken" THEN NoLayer ELSE loading.layer]
    /\ UNCHANGED <<threadVars, todo, layerVars, released, queue, ready, error, gpuVars>>

\* Mutant: the copy does not wait for the kernels of the layer before.
RunLoadUnordered ==
    /\ loading.at = "pinned"
    /\ transfers' = Append(transfers, [layer |-> loading.layer, slot |-> loading.slot,
                                       waits |-> 0, begun |-> FALSE])
    /\ released' = released \ {loading.slot}
    /\ ready' = ready \cup {loading.layer}
    /\ loading' = NoLoad
    /\ UNCHANGED <<threadVars, todo, layerVars, queue, error, pinned, gpu, kernels, copied>>

\* ... and their copy to the GPU is launched, after what its slot's last layer launched.
RunLoad ==
    /\ loading.at = "pinned"
    /\ transfers' = Append(transfers,
            [layer |-> loading.layer, slot |-> loading.slot,
             waits |-> IF loading.slot \in released THEN Len(kernels) ELSE 0, begun |-> FALSE])
    /\ released' = released \ {loading.slot}
    /\ ready' = ready \cup {loading.layer}
    /\ loading' = NoLoad
    /\ UNCHANGED <<threadVars, todo, layerVars, queue, error, pinned, gpu, kernels, copied>>

\* It fails: the error is kept for the training thread.
LoadFails ==
    /\ loading # NoLoad /\ loading' = NoLoad
    /\ error' = TRUE /\ ready' = ready \cup {loading.layer}
    /\ UNCHANGED <<threadVars, todo, layerVars, released, queue, pinned, gpuVars>>

(***************************************************************************)
(* The GPU.                                                                *)
(***************************************************************************)

KernelEnds ==
    /\ kernels # <<>>
    /\ kernels' = Tail(kernels)
    /\ transfers' = [i \in DOMAIN transfers |->
                        [transfers[i] EXCEPT !.waits = IF @ > 0 THEN @ - 1 ELSE 0]]
    /\ UNCHANGED <<threadVars, todo, layerVars, loadVars, gpu, copied>>

TransferBegins ==
    /\ transfers # <<>> /\ Head(transfers).waits = 0 /\ ~Head(transfers).begun
    /\ transfers' = [transfers EXCEPT ![1].begun = TRUE]
    /\ gpu' = [gpu EXCEPT ![Head(transfers).slot] = NoLayer]
    /\ UNCHANGED <<threadVars, todo, layerVars, loadVars, kernels, copied>>

TransferEnds ==
    /\ transfers # <<>> /\ Head(transfers).begun
    /\ transfers' = Tail(transfers)
    /\ gpu' = [gpu EXCEPT ![Head(transfers).slot] = pinned[Head(transfers).slot]]
    /\ copied' = copied \cup {Head(transfers).layer}
    /\ UNCHANGED <<threadVars, todo, layerVars, loadVars, kernels>>

Between == BeginPass \/ GoForward \/ GoBackward \/ FinishJob
Hook == StartLoad \/ FinishLoad \/ Ensure \/ StartOffload \/ Launch
Loader == Take \/ Pin \/ RunLoad
Device == KernelEnds \/ TransferBegins \/ TransferEnds

StreamNext == BeginJob \/ Between \/ Hook \/ Loader \/ LoadFails \/ Device

StreamSpec == StreamInit /\ [][StreamNext]_streamVars

\* Both threads go on and the streams advance.
FairStreamSpec ==
    StreamSpec /\ WF_streamVars(Between) /\ WF_streamVars(Hook) /\ WF_streamVars(Loader)
         /\ WF_streamVars(KernelEnds) /\ WF_streamVars(TransferBegins \/ TransferEnds)

(***************************************************************************)
(* Properties.                                                             *)
(***************************************************************************)

\* Types, and that a layer has the slot that has it, through failed and repeated loads.
StreamTypeOK ==
    /\ stage \in {"idle", "between", "forward", "backward", "failed"} /\ layer \in Layers
    /\ status \in [Layers -> {"cpu", "loading", "gpu"}]
    /\ owner \in [Slots -> Layers \cup {NoLayer}]
    /\ released \subseteq Slots
    /\ \A l \in Layers :
        /\ slotOf[l] = NoSlot <=> status[l] = "cpu"
        /\ slotOf[l] # NoSlot => owner[slotOf[l]] = l

\* A kernel finds the weights of its layer in its slot from its launch to its end,
\* although the slot is free for another layer as soon as the kernel is launched.
KernelsSeeWeights == \A i \in DOMAIN kernels : gpu[kernels[i].slot] = kernels[i].layer

\* No more layers than resident_layers are in GPU memory or on their way to it.
ResidentBound == Cardinality({l \in Layers : status[l] # "cpu"}) <= resident

\* "Streaming weight offload has no free load slots" is never raised: training ends early
\* only when the thread that loads failed.
SlotsSuffice == stage = "failed" => error

\* Between jobs every layer is offloaded, so that the worker's GPU memory is free.
IdleMeansOffloaded ==
    stage = "idle" /\ todo = <<>> => \A l \in Layers : status[l] = "cpu"

\* What the kernels, the training thread and the rest of the GPU's memory count on, whatever
\* the order in which the two threads and the two streams go on (StreamingWeightOffloader).
StreamingSafe == KernelsSeeWeights /\ SlotsSuffice /\ ResidentBound /\ IdleMeansOffloaded

\* A job ends, or fails: the training thread never waits for ever for the one that loads.
JobsEnd == stage = "between" ~> (stage \in {"idle", "failed"})

=============================================================================
