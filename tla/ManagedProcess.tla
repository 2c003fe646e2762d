---------------------------- MODULE ManagedProcess ----------------------------
(***************************************************************************)
(* The processes a service starts (src/art/utils/managed_process.py): each *)
(* server runs under a wrapper, in a session of its own together with the  *)
(* processes it starts itself.  The wrapper ends the whole group when it   *)
(* is asked to, when its parent is gone and when the server ends.          *)
(*                                                                         *)
(* Time is counted in sleeps: a wrapper never oversleeps, and nothing is   *)
(* assumed of the server, which may end at any time and need not heed a    *)
(* SIGTERM.                                                                *)
(***************************************************************************)
EXTENDS Integers

CONSTANTS
    Servers,    \* the servers started over the life of the parent process
    Poll,       \* the sleep of the wrapper's loop
    Grace,      \* how long it waits for a server it sent SIGTERM
    Sweep       \* how long it waits for the rest of the group

ASSUME TimesAssumption == Poll \in Nat /\ Grace \in Nat /\ Sweep \in Nat

VARIABLES
    parent,     \* the parent process is alive
    wrapper,    \* where each server's wrapper is
    timer,      \* how much longer it sleeps
    asked,      \* the servers whose wrapper was sent a SIGTERM (requested_shutdown)
    leader,     \* the servers that run: the leaders of their groups
    helpers     \* the servers of whose group another process runs

wrapperVars == <<wrapper, timer, leader, helpers>>
processVars == <<parent, wrapper, timer, asked, leader, helpers>>

Sleeping == {"polling", "waiting", "sweeping"}
Running(s) == wrapper[s] \in Sleeping \cup {"booting"}

\* Nothing is left of a server.
Gone(s) == ~Running(s) /\ s \notin leader /\ s \notin helpers

ProcessInit ==
    /\ parent = TRUE
    /\ wrapper = [s \in Servers |-> "none"] /\ timer = [s \in Servers |-> 0]
    /\ asked = {} /\ leader = {} /\ helpers = {}

Goes(s, to, sleep) ==
    /\ wrapper' = [wrapper EXCEPT ![s] = to]
    /\ timer' = [timer EXCEPT ![s] = sleep]

\* The handlers are in place and the server is started.  A SIGTERM that came
\* before them has ended the wrapper.
Boot(s) ==
    /\ wrapper[s] = "booting"
    /\ IF s \in asked
       THEN Goes(s, "exited", 0) /\ UNCHANGED <<leader, helpers>>
       ELSE /\ Goes(s, "polling", 0)
            /\ leader' = leader \cup {s} /\ helpers' = helpers \cup {s}
    /\ UNCHANGED <<parent, asked>>

\* Mutant: the wrapper ends when it is asked to only.
PollLoopOrphaned(s) ==
    /\ wrapper[s] = "polling" /\ timer[s] = 0
    /\ IF s \in asked THEN Goes(s, "waiting", Grace)
       ELSE IF s \notin leader THEN Goes(s, "sweeping", Sweep)
       ELSE Goes(s, "polling", Poll)
    /\ UNCHANGED <<parent, asked, leader, helpers>>

\* One round of the wrapper's loop: shutdown() sends the group a SIGTERM.
PollLoop(s) ==
    /\ wrapper[s] = "polling" /\ timer[s] = 0
    /\ IF s \in asked \/ ~parent THEN Goes(s, "waiting", Grace)
       ELSE IF s \notin leader THEN Goes(s, "sweeping", Sweep)
       ELSE Goes(s, "polling", Poll)
    /\ UNCHANGED <<parent, asked, leader, helpers>>

\* shutdown() has waited for the server: the group is killed when it did not end.
GraceEnds(s) ==
    /\ wrapper[s] = "waiting"
    /\ \/ s \notin leader /\ UNCHANGED <<leader, helpers>>
       \/ s \in leader /\ timer[s] = 0 /\ leader' = leader \ {s} /\ helpers' = helpers \ {s}
    /\ Goes(s, "sweeping", Sweep)
    /\ UNCHANGED <<parent, asked>>

\* sweep_child_group() kills what is left of the group, and the wrapper exits.
SweepEnds(s) ==
    /\ wrapper[s] = "sweeping" /\ timer[s] = 0
    /\ Goes(s, "exited", 0)
    /\ leader' = leader \ {s} /\ helpers' = helpers \ {s}
    /\ UNCHANGED <<parent, asked>>

Wrapper(s) == Boot(s) \/ PollLoop(s) \/ GraceEnds(s) \/ SweepEnds(s)

\* The server, or the last other process of its group, ends.
LeaderExits(s) ==
    /\ s \in leader /\ leader' = leader \ {s}
    /\ UNCHANGED <<parent, wrapper, timer, asked, helpers>>

HelpersExit(s) ==
    /\ s \in helpers /\ helpers' = helpers \ {s}
    /\ UNCHANGED <<parent, wrapper, timer, asked, leader>>

\* A SIGKILL ends the wrapper: its server gets a SIGTERM, the rest of the group nothing.
WrapperLost(s) ==
    /\ Running(s) /\ Goes(s, "lost", 0)
    /\ UNCHANGED <<parent, asked, leader, helpers>>

\* Time passes while every wrapper sleeps.
Passes ==
    /\ \A s \in Servers : wrapper[s] \in Sleeping => timer[s] > 0
    /\ timer' = [s \in Servers |-> IF wrapper[s] \in Sleeping THEN timer[s] - 1 ELSE 0]
    /\ UNCHANGED <<parent, wrapper, asked, leader, helpers>>

ProcessTypeOK ==
    /\ parent \in BOOLEAN
    /\ wrapper \in [Servers -> Sleeping \cup {"none", "booting", "exited", "lost", "killed"}]
    /\ timer \in [Servers -> Nat]
    /\ asked \subseteq Servers /\ leader \subseteq Servers /\ helpers \subseteq Servers

=============================================================================
