--------------------------- MODULE MCMegatronJobs ---------------------------
(***************************************************************************)
(* A small instance of MegatronJobs for TLC.                               *)
(***************************************************************************)
EXTENDS MegatronJobs

AllModes == {"shared", "lora", "merged"}

=============================================================================
