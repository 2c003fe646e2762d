----------------------------- MODULE RemoteCalls -----------------------------
(***************************************************************************)
(* What a proxy to an object in a child process promises its callers       *)
(* (src/mp_actors/move.py): a call is accepted or refused, an accepted     *)
(* call comes to one end and keeps it, a call is answered only after the   *)
(* child has run it, and once the proxy is shut no call is accepted.       *)
(***************************************************************************)
CONSTANT Calls
VARIABLES
    phase,      \* "new", "pending" or "over"
    ended,      \* how an accepted call ended, "none" until it does
    ran,        \* the calls the child has run
    shut

vars == <<phase, ended, ran, shut>>

Endings == {"value", "raised", "dead", "closing", "cancelled", "refused"}

Init ==
    /\ phase = [c \in Calls |-> "new"] /\ ended = [c \in Calls |-> "none"]
    /\ ran = {} /\ shut = FALSE

Accept(c) ==
    /\ phase[c] = "new" /\ ~shut
    /\ phase' = [phase EXCEPT ![c] = "pending"]
    /\ UNCHANGED <<ended, ran, shut>>

Refuse(c) ==
    /\ phase[c] = "new"
    /\ phase' = [phase EXCEPT ![c] = "over"]
    /\ ended' = [ended EXCEPT ![c] = "refused"]
    /\ UNCHANGED <<ran, shut>>

Runs(c) ==
    /\ phase[c] # "new" /\ c \notin ran
    /\ ran' = ran \cup {c}
    /\ UNCHANGED <<phase, ended, shut>>

End(c) ==
    /\ phase[c] = "pending"
    /\ phase' = [phase EXCEPT ![c] = "over"]
    /\ \E e \in Endings :
          /\ e \in {"value", "raised"} => c \in ran
          /\ ended' = [ended EXCEPT ![c] = e]
    /\ UNCHANGED <<ran, shut>>

Shut == ~shut /\ shut' = TRUE /\ UNCHANGED <<phase, ended, ran>>

Next == Shut \/ \E c \in Calls : Accept(c) \/ Refuse(c) \/ Runs(c) \/ End(c)

Spec == Init /\ [][Next]_vars

=============================================================================
