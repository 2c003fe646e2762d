--------------------------- MODULE ServiceLifecycle ---------------------------
(***************************************************************************)
(* The life of the services of one backend and of the vLLM servers they    *)
(* start: ServiceLifecycle and ChildProcessSupervisor                      *)
(* (src/art/utils/lifecycle.py), ManagedVllmRuntime                        *)
(* (src/art/vllm_runtime.py), UnslothService.close and LocalBackend.close. *)
(* A service is closed by the backend, by a failed start or training step, *)
(* by the unexpected end of its server, by a signal and at exit.           *)
(*                                                                         *)
(* close() blocks the event loop; only a signal's handler runs meanwhile,  *)
(* on top of it.  What the main thread is in the middle of is a stack of   *)
(* frames, its top first.                                                  *)
(***************************************************************************)
EXTENDS ManagedProcess, Sequences, SequencesExt

CONSTANTS
    Services,     \* the services of the backend, one per model
    CloseTimeout, \* how long close() waits for a wrapper it sent SIGTERM
    MaxSignals    \* bound: the signals the parent gets

NoServer == "no server"
NoService == "no service"

ASSUME ServicesAssumption ==
    /\ NoServer \notin Servers /\ NoService \notin Services
    /\ IsFiniteSet(Services)
    /\ CloseTimeout \in Nat /\ MaxSignals \in Nat

\* A service cleans up on time: 15 s against 0.5 s, 5 s and 0.5 s.
ASSUME PatienceAssumption == CloseTimeout > Poll + Grace + Sweep

VARIABLES
    owner,      \* the service that started each server
    current,    \* _vllm_runtime.process of each service
    watched,    \* the server its supervisor's task waits for
    phase,      \* whether its server is starting, or up
    closing,    \* the services that began to close
    failed,     \* those whose supervisor recorded a failure
    handler,    \* what SIGINT and SIGTERM run: one handler of a service after another
    saved,      \* _previous_signal_handlers of each service
    callbacks,  \* the services registered with atexit, the last one first
    frames,     \* what the main thread is in the middle of
    patience,   \* how much longer the close() on top waits
    backend,    \* LocalBackend.close
    toClose,    \* the services it has yet to close
    signals,    \* the signals the parent got
    doubled,    \* history: services started again while they had a server
    revived,    \*          services started again after they were closed
    cut,        \*          services whose close() a signal interrupted
    disordered  \*          a service was closed before one started after it

serviceVars == <<owner, current, watched, phase, failed>>
signalVars == <<handler, saved, callbacks>>
backendVars == <<backend, toClose>>
historyVars == <<doubled, revived, cut, disordered>>
vars == <<processVars, serviceVars, closing, signalVars, frames, patience, backendVars,
          signals, historyVars>>

Close(v) == [kind |-> "close", of |-> v, at |-> "begun"]
Handling(chain) == [kind |-> "signal", of |-> chain, at |-> "running"]
Exiting == [kind |-> "exit", of |-> NoService, at |-> "running"]

Top(kind) == frames # <<>> /\ Head(frames).kind = kind
Rest == Tail(frames)

\* The event loop runs its tasks.
Loop == parent /\ frames = <<>>

Init ==
    /\ ProcessInit
    /\ owner = [s \in Servers |-> NoService]
    /\ current = [v \in Services |-> NoServer] /\ watched = [v \in Services |-> NoServer]
    /\ phase = [v \in Services |-> "idle"]
    /\ closing = {} /\ failed = {}
    /\ handler = <<>> /\ saved = [v \in Services |-> <<>>] /\ callbacks = <<>>
    /\ frames = <<>> /\ patience = 0
    /\ backend = "open" /\ toClose = <<>> /\ signals = 0
    /\ doubled = {} /\ revived = {} /\ cut = {} /\ disordered = FALSE

(***************************************************************************)
(* Starting a server.                                                      *)
(***************************************************************************)

\* install_parent_cleanup: once per service until it is restored.
InstallParentCleanup(v) ==
    IF v \in ToSet(callbacks) THEN UNCHANGED signalVars
    ELSE /\ callbacks' = <<v>> \o callbacks
         /\ saved' = [saved EXCEPT ![v] = handler]
         /\ handler' = <<v>> \o handler

Start(v, s) ==
    /\ Loop /\ backend = "open" /\ phase[v] # "starting" /\ v \notin failed
    /\ owner[s] = NoService
    /\ InstallParentCleanup(v)
    /\ owner' = [owner EXCEPT ![s] = v]
    /\ Goes(s, "booting", 0)
    /\ current' = [current EXCEPT ![v] = s]
    /\ phase' = [phase EXCEPT ![v] = "starting"]
    /\ doubled' = IF current[v] # NoServer THEN doubled \cup {v} ELSE doubled
    /\ revived' = IF v \in closing THEN revived \cup {v} ELSE revived
    /\ UNCHANGED <<parent, asked, leader, helpers, watched, failed, closing, frames,
                   patience, backendVars, signals, cut, disordered>>

\* Mutant: the wrapper of a server that answers is not watched.
ReadyUnwatched(v) ==
    /\ Loop /\ phase[v] = "starting" /\ current[v] \in leader
    /\ phase' = [phase EXCEPT ![v] = "up"]
    /\ UNCHANGED <<processVars, owner, current, watched, failed, closing, signalVars,
                   frames, patience, backendVars, signals, historyVars>>

\* The server answers: the supervisor watches its wrapper.
Ready(v) ==
    /\ Loop /\ phase[v] = "starting" /\ current[v] \in leader
    /\ phase' = [phase EXCEPT ![v] = "up"]
    /\ watched' = [watched EXCEPT ![v] = current[v]]
    /\ UNCHANGED <<processVars, owner, current, failed, closing, signalVars, frames,
                   patience, backendVars, signals, historyVars>>

\* The task that starts the server is cancelled while it waits.
StartCancelled(v) ==
    /\ Loop /\ phase[v] = "starting"
    /\ phase' = [phase EXCEPT ![v] = "idle"]
    /\ UNCHANGED <<processVars, owner, current, watched, failed, closing, signalVars,
                   frames, patience, backendVars, signals, historyVars>>

(***************************************************************************)
(* Closing a service.                                                      *)
(***************************************************************************)

\* close() returns at once when the service is closing or closed already;
\* otherwise its frame goes on top of those below.  The supervisor's task is
\* cancelled.
CallClose(v, below) ==
    IF v \in closing THEN frames' = below /\ UNCHANGED <<closing, watched>>
    ELSE /\ frames' = <<Close(v)>> \o below
         /\ closing' = closing \cup {v}
         /\ watched' = [watched EXCEPT ![v] = NoServer]

NotClosed == <<owner, current, signalVars, patience, historyVars>>

\* The server ends or does not answer in time, or a training step raises.
Fails(v) ==
    /\ Loop /\ phase[v] # "idle"
    /\ phase' = [phase EXCEPT ![v] = "idle"]
    /\ CallClose(v, frames)
    /\ UNCHANGED <<processVars, failed, backendVars, signals, NotClosed>>

\* The task waiting for a wrapper finds that it ended, and closes the service.
WatchExit(v) ==
    /\ Loop /\ watched[v] # NoServer /\ ~Running(watched[v])
    /\ IF v \in closing
       THEN /\ watched' = [watched EXCEPT ![v] = NoServer]
            /\ UNCHANGED <<failed, phase, closing, frames>>
       ELSE /\ failed' = failed \cup {v}
            /\ phase' = [phase EXCEPT ![v] = "idle"]
            /\ CallClose(v, frames)
    /\ UNCHANGED <<processVars, backendVars, signals, NotClosed>>

\* ManagedVllmRuntime.close: the wrapper is sent a SIGTERM when it still runs.
CloseAsks ==
    /\ parent /\ Top("close") /\ Head(frames).at = "begun"
    /\ LET s == current[Head(frames).of] IN
          /\ asked' = IF s # NoServer /\ Running(s) THEN asked \cup {s} ELSE asked
          /\ frames' = <<[Head(frames) EXCEPT !.at =
                             IF s = NoServer THEN "released" ELSE "asked"]>> \o Rest
    /\ patience' = CloseTimeout
    /\ UNCHANGED <<parent, wrapperVars, serviceVars, closing, signalVars, backendVars,
                   signals, historyVars>>

\* Mutant: close() does not wait for the wrapper.
CloseReleasesAtOnce ==
    /\ parent /\ Top("close") /\ Head(frames).at = "asked"
    /\ current' = [current EXCEPT ![Head(frames).of] = NoServer]
    /\ frames' = <<[Head(frames) EXCEPT !.at = "released"]>> \o Rest
    /\ UNCHANGED <<processVars, owner, watched, phase, failed, closing, signalVars,
                   patience, backendVars, signals, historyVars>>

\* The wrapper has ended.
CloseReleases ==
    /\ parent /\ Top("close") /\ Head(frames).at = "asked"
    /\ ~Running(current[Head(frames).of])
    /\ current' = [current EXCEPT ![Head(frames).of] = NoServer]
    /\ frames' = <<[Head(frames) EXCEPT !.at = "released"]>> \o Rest
    /\ UNCHANGED <<processVars, owner, watched, phase, failed, closing, signalVars,
                   patience, backendVars, signals, historyVars>>

\* It has not ended in time.
CloseKills ==
    /\ parent /\ Top("close") /\ Head(frames).at = "asked" /\ patience = 0
    /\ LET s == current[Head(frames).of] IN Running(s) /\ Goes(s, "killed", 0)
    /\ UNCHANGED <<parent, asked, leader, helpers, serviceVars, closing, signalVars,
                   frames, patience, backendVars, signals, historyVars>>

\* Mutant: the default handlers are put back.
RestoreDefaults(v) ==
    IF v \notin ToSet(callbacks) THEN UNCHANGED <<handler, callbacks, disordered>>
    ELSE /\ handler' = <<>>
         /\ callbacks' = RemoveFirst(callbacks, v)
         /\ disordered' = (disordered \/ callbacks[1] # v)

\* restore_parent_cleanup: what the service found when it installed its handlers
\* is put back.
Restore(v) ==
    IF v \notin ToSet(callbacks) THEN UNCHANGED <<handler, callbacks, disordered>>
    ELSE /\ handler' = saved[v]
         /\ callbacks' = RemoveFirst(callbacks, v)
         /\ disordered' = (disordered \/ callbacks[1] # v)

CloseReturns ==
    /\ parent /\ Top("close") /\ Head(frames).at = "released"
    /\ Restore(Head(frames).of)
    /\ frames' = Rest
    /\ UNCHANGED <<processVars, serviceVars, closing, saved, patience, backendVars,
                   signals, doubled, revived, cut>>

(***************************************************************************)
(* LocalBackend.close.                                                     *)
(***************************************************************************)

\* The services in the order the backend made them.
Started == {v \in Services : \E s \in Servers : owner[s] = v}

BackendCloses(order) ==
    /\ Loop /\ backend = "open"
    /\ ToSet(order) = Started /\ Len(order) = Cardinality(Started)
    /\ backend' = "closing" /\ toClose' = order
    /\ UNCHANGED <<processVars, serviceVars, closing, signalVars, frames, patience,
                   signals, historyVars>>

BackendClosesNext ==
    /\ Loop /\ backend = "closing" /\ toClose # <<>>
    /\ CallClose(Head(toClose), frames)
    /\ toClose' = Tail(toClose)
    /\ phase' = [phase EXCEPT ![Head(toClose)] = "idle"]
    /\ UNCHANGED <<processVars, failed, backend, signals, NotClosed>>

BackendClosed ==
    /\ Loop /\ backend = "closing" /\ toClose = <<>>
    /\ backend' = "closed"
    /\ UNCHANGED <<processVars, serviceVars, closing, signalVars, frames, patience,
                   toClose, signals, historyVars>>

(***************************************************************************)
(* Signals and the end of the process.                                     *)
(***************************************************************************)
\* The process ends, and what the services knew with it.
ParentEnds ==
    /\ parent' = FALSE /\ frames' = <<>> /\ patience' = 0 /\ toClose' = <<>>
    /\ current' = [v \in Services |-> NoServer] /\ watched' = current'
    /\ phase' = [v \in Services |-> "idle"]
    /\ handler' = <<>> /\ saved' = [v \in Services |-> <<>>] /\ callbacks' = <<>>
    /\ UNCHANGED <<wrapperVars, asked, owner, failed, closing, backend, signals, historyVars>>

\* SIGKILL, or a SIGTERM while no handler of a service is installed.
ParentDies == parent /\ ParentEnds

\* SIGINT or SIGTERM arrives between two steps of whatever runs.
Signal ==
    /\ parent /\ signals < MaxSignals
    /\ signals' = signals + 1
    /\ frames' = <<Handling(handler)>> \o frames
    /\ UNCHANGED <<processVars, serviceVars, closing, signalVars, patience, backendVars,
                   historyVars>>

\* A service's handler closes it and runs the handler that was there before.
RunHandler ==
    /\ parent /\ Top("signal") /\ Head(frames).of # <<>>
    /\ LET v == Head(Head(frames).of) IN
          /\ CallClose(v, <<Handling(Tail(Head(frames).of))>> \o Rest)
          /\ phase' = [phase EXCEPT ![v] = "idle"]
    /\ UNCHANGED <<processVars, failed, backendVars, signals, NotClosed>>

InExit == \E i \in DOMAIN frames : frames[i].kind = "exit"

\* The last handler raises.  A handler it interrupted ends; a close() it
\* interrupted puts back the handlers and stops waiting for the server.
Raises ==
    /\ parent /\ Top("signal") /\ Head(frames).of = <<>>
    /\ Rest # <<>> /\ Head(Rest).kind # "exit"
    /\ frames' = <<Head(frames)>> \o Tail(Rest)
    /\ IF Head(Rest).kind = "close"
       THEN Restore(Head(Rest).of) /\ cut' = cut \cup {Head(Rest).of}
       ELSE UNCHANGED <<handler, callbacks, disordered, cut>>
    /\ UNCHANGED <<processVars, serviceVars, closing, saved, patience, backendVars, signals,
                   doubled, revived>>

\* The exception is caught or ends the program; at exit it ends a callback.
Raised ==
    /\ parent /\ Top("signal") /\ Head(frames).of = <<>>
    /\ \/ Rest = <<>> /\ frames' \in {<<>>, <<Exiting>>}
       \/ Rest # <<>> /\ Head(Rest).kind = "exit" /\ frames' = Rest
    /\ IF backend = "closing" THEN backend' = "open" /\ toClose' = <<>>
       ELSE UNCHANGED backendVars
    /\ UNCHANGED <<processVars, serviceVars, closing, signalVars, patience, signals,
                   historyVars>>

\* The program ends: the interpreter runs the callbacks registered with atexit.
Exit ==
    /\ Loop /\ frames' = <<Exiting>>
    /\ UNCHANGED <<processVars, serviceVars, closing, signalVars, patience, backendVars,
                   signals, historyVars>>

ExitCloses ==
    /\ parent /\ Top("exit") /\ callbacks # <<>>
    /\ LET v == Head(callbacks) IN
          /\ callbacks' = IF v \in closing THEN Tail(callbacks) ELSE callbacks
          /\ CallClose(v, frames)
          /\ phase' = [phase EXCEPT ![v] = "idle"]
    /\ UNCHANGED <<processVars, owner, current, failed, handler, saved, patience,
                   backendVars, signals, historyVars>>

Exited == parent /\ Top("exit") /\ callbacks = <<>> /\ ParentEnds

(***************************************************************************)
(* The specification.                                                      *)
(***************************************************************************)
NotProcesses ==
    <<serviceVars, closing, signalVars, frames, backendVars, signals, historyVars>>

Tick ==
    /\ Passes
    /\ patience' = IF patience > 0 THEN patience - 1 ELSE 0
    /\ UNCHANGED NotProcesses

ProcessStep(s) ==
    /\ Wrapper(s) \/ LeaderExits(s) \/ HelpersExit(s) \/ WrapperLost(s)
    /\ UNCHANGED <<NotProcesses, patience>>

WrapperStep(s) == Wrapper(s) /\ UNCHANGED <<NotProcesses, patience>>

Closing == CloseAsks \/ CloseReleases \/ CloseKills \/ CloseReturns

Service(v) ==
    \/ \E s \in Servers : Start(v, s)
    \/ Ready(v) \/ StartCancelled(v) \/ Fails(v) \/ WatchExit(v)

Backend ==
    \/ \E order \in SetToSeqs(Started) : BackendCloses(order)
    \/ BackendClosesNext \/ BackendClosed

Unwinding == RunHandler \/ Raises \/ Raised \/ ExitCloses \/ Exited

Ending == Signal \/ Unwinding \/ Exit \/ ParentDies

Next ==
    \/ Tick \/ \E s \in Servers : ProcessStep(s)
    \/ \E v \in Services : Service(v)
    \/ Closing \/ Backend \/ Ending

Spec == Init /\ [][Next]_vars

\* wait_for_vllm_runtime polls the wrapper until the server answers, and finds that it
\* ended.
PollFails(v) == phase[v] = "starting" /\ ~Running(current[v]) /\ Fails(v)

\* Time passes, the wrappers and the main thread run, and with it the tasks that watch
\* and poll.
Fairness ==
    /\ WF_vars(Tick) /\ \A s \in Servers : WF_vars(WrapperStep(s))
    /\ WF_vars(Closing) /\ WF_vars(Unwinding)
    /\ \A v \in Services : WF_vars(WatchExit(v)) /\ WF_vars(PollFails(v))

FairSpec == Spec /\ Fairness

(***************************************************************************)
(* Properties.                                                             *)
(***************************************************************************)

Frame ==
    [kind : {"close"}, of : Services, at : {"begun", "asked", "released"}]
        \cup [kind : {"signal"}, of : Seq(Services), at : {"running"}] \cup {Exiting}

\* Every variable has its type: a service is registered with atexit at most once;
\* one that failed, was revived or cut began to close.
TypeOK ==
    /\ ProcessTypeOK
    /\ owner \in [Servers -> Services \cup {NoService}]
    /\ current \in [Services -> Servers \cup {NoServer}]
    /\ watched \in [Services -> Servers \cup {NoServer}]
    /\ phase \in [Services -> {"idle", "starting", "up"}]
    /\ closing \subseteq Services /\ failed \subseteq closing
    /\ handler \in Seq(Services) /\ saved \in [Services -> Seq(Services)]
    /\ callbacks \in Seq(Services) /\ IsInjective(callbacks)
    /\ frames \in Seq(Frame) /\ patience \in 0..CloseTimeout
    /\ backend \in {"open", "closing", "closed"} /\ toClose \in Seq(Services)
    /\ signals \in 0..MaxSignals
    /\ doubled \subseteq Services /\ revived \subseteq closing /\ cut \subseteq closing
    /\ disordered \in BOOLEAN

\* Nothing is left of a server, unless its wrapper was killed by somebody else.
Ended(s) == Gone(s) \/ wrapper[s] = "lost"

\* A service that was started once and whose close() was not interrupted.
Orderly(v) == v \notin doubled \cup revived \cup cut

\* When close() lets go of a server nothing is left of it, however the server
\* takes a SIGTERM: the wrapper kills the whole group in time.  LocalBackend.close, which
\* closes every service, leaves no server running.
ClosedMeansGone ==
    \A s \in Servers : owner[s] # NoService /\ Orderly(owner[s]) =>
        (backend = "closed" \/ (parent /\ current[owner[s]] = NoServer) => Ended(s))

\* The same of services that were started again after they were closed.
CloseKillsServers ==
    backend = "closed" => \A s \in Servers :
        owner[s] # NoService /\ owner[s] \notin doubled \cup cut => Ended(s)

\* The state keeps its types, and a signal closes the services that would be closed at
\* exit, newest first, as long as they are closed in that order.  Once the program runs
\* its exit callbacks nothing is started any more.
SignalClosesAll ==
    /\ TypeOK
    /\ parent /\ ~InExit /\ ~disordered => handler = callbacks

\* No process of a server outlives the parent for long, however that ends.
NoOrphans == ~parent ~> \A s \in Servers : Ended(s)

\* A server that ends does not go unnoticed, whether it ends before it answers (its
\* start fails), after that (it is watched) or just then, unless the service was given
\* another server before.
EndNoticed ==
    \A v \in Services, s \in Servers :
        phase[v] # "idle" /\ v \notin revived /\ current[v] = s /\ ~Running(s)
            ~> phase[v] = "idle" \/ current[v] # s \/ ~parent

=============================================================================
