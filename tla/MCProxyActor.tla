----------------------------- MODULE MCProxyActor -----------------------------
(***************************************************************************)
(* Model values and small instances of ProxyActor for TLC.                 *)
(***************************************************************************)
EXTENDS ProxyActor

CONSTANTS c1, c2

TwoCalls == {c1, c2}

Undecodable == {"value", "undecodable"}

=============================================================================
