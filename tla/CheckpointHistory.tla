-------------------------- MODULE CheckpointHistory --------------------------
(***************************************************************************)
(* What a training service promises of its checkpoints: every new one is   *)
(* the last one trained by one job that trained none before it, or a copy  *)
(* of the last one, and none of them changes.                              *)
(*                                                                         *)
(* The weights of a checkpoint are the jobs that trained them, in order.   *)
(***************************************************************************)
EXTENDS Sequences, SequencesExt

CONSTANT Jobs       \* the training jobs

VARIABLE history    \* the weights of step 0, 1, ...

Init == history = << <<>> >>

Trained(job) ==
    /\ \A s \in DOMAIN history : job \notin ToSet(history[s])
    /\ history' = Append(history, Append(Last(history), job))

Copied == history' = Append(history, Last(history))

Next == Copied \/ \E job \in Jobs : Trained(job)

Spec == Init /\ [][Next]_history

=============================================================================
