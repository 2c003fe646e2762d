--------------------------- MODULE MCRuntimeInstall ---------------------------
(***************************************************************************)
(* Model values and small instances of RuntimeInstall for TLC.             *)
(***************************************************************************)
EXTENDS RuntimeInstall

CONSTANTS p1, p2, p3, v1, v2

ThreeProcs == {p1, p2, p3}
TwoVersions == {v1, v2}

\* Two processes of one version, and one after an upgrade.
Upgrade == [p \in ThreeProcs |-> IF p = p3 THEN v2 ELSE v1]

\* The upgraded one keeps the runtime the others use.
TheUpgraded == {p3}

=============================================================================
