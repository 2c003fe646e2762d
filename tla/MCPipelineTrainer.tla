-------------------------- MODULE MCPipelineTrainer --------------------------
(***************************************************************************)
(* Model values and small instances of PipelineTrainer for TLC.            *)
(***************************************************************************)
EXTENDS PipelineTrainer, TLC

CONSTANTS w1, w2

TwoWorkers == {w1, w2}
WorkerSymmetry == Permutations(TwoWorkers)

Unlimited == {NoLimit}
Limits == {NoLimit, 0, 2}
OneStep == {1}

GoodOnly == {"good"}
GoodFlatFailed == {"good", "flat", "failed"}
AllOutcomes == GroupKinds \cup {"error"}

=============================================================================
