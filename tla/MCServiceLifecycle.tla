-------------------------- MODULE MCServiceLifecycle --------------------------
(* Two servers: each of two services may start one, or one service both. *)
EXTENDS ServiceLifecycle

CONSTANTS a, b, s1, s2

TheServices == {a, b}
OneService == {a}
TheServers == {s1, s2}

\* For the runs that check no liveness property.
Symmetry == Permutations(TheServices) \cup Permutations(TheServers)

=============================================================================
