-------------------------- MODULE MCAdapterRetention --------------------------
(***************************************************************************)
(* Model values and small instances of AdapterRetention for TLC.           *)
(***************************************************************************)
EXTENDS AdapterRetention, TLC

CONSTANTS w1, w2

TwoWorkers == {w1, w2}
WorkerSymmetry == Permutations(TwoWorkers)

=============================================================================
