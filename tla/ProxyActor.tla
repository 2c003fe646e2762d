------------------------------ MODULE ProxyActor ------------------------------
(***************************************************************************)
(* A proxy to an object that lives in a child process                      *)
(* (src/mp_actors/move.py).  Callers register a future under a lock and    *)
(* queue a request; the child runs the requests concurrently and queues    *)
(* the responses; a dispatcher thread resolves the futures and watches for *)
(* the child's death; close() fails what is pending, kills the child and   *)
(* closes the queues.  A monitor thread of the child ends it when the      *)
(* parent is gone.                                                         *)
(*                                                                         *)
(* The flags _closing and _dead_process_error are read under the lock and  *)
(* written without it, so a caller is modelled in two steps: it reads them *)
(* holding the lock, and it adds its future and lets the lock go.          *)
(***************************************************************************)
EXTENDS Integers, Sequences, FiniteSets

CONSTANTS
    Calls,      \* the calls made over the life of the proxy
    Answers,    \* what a method may come to in the child
    MayCancel,  \* whether a caller may be cancelled
    MayClose,   \* whether the proxy may be closed
    ChildMayDie,
    TornWrites, \* whether the child may die in the middle of writing a response
    ParentMayDie

\* "undecodable": a response the parent cannot unpickle; "silent": none is sent,
\* the method was cancelled or its result could not be pickled.
AllAnswers == {"value", "raised", "undecodable", "silent"}

ASSUME ProxyAssumption ==
    /\ Answers \subseteq AllAnswers /\ Answers # {}
    /\ MayCancel \in BOOLEAN /\ MayClose \in BOOLEAN
    /\ ChildMayDie \in BOOLEAN /\ TornWrites \in BOOLEAN /\ ParentMayDie \in BOOLEAN

NoCall == "nobody"
NoResponse == [call |-> NoCall, kind |-> "none"]

ASSUME NoCallAssumption == NoCall \notin Calls

VARIABLES
    call,       \* where each call is in response_future
    result,     \* what its future was resolved with
    lock,       \* the call holding _futures_lock
    futures,    \* the calls with an entry in _futures
    requests,   \* the requests queue
    executing,  \* the calls the child is running
    responses,  \* the responses queue
    executed,   \* the calls the child has run to an end
    silent,     \* history: those it sent no response for
    child,      \* the child process is alive
    parent,     \* the parent process is alive
    monitor,    \* where the child's monitor thread is
    deadError,  \* _dead_process_error is set
    disp,       \* where the dispatcher thread is
    taken,      \* the response it is delivering
    dispFails,  \* the futures its _fail_pending has yet to fail
    closing,    \* _closing
    closer,     \* where close() is
    closeFails  \* the futures its _fail_pending has yet to fail

callVars == <<call, lock>>
childVars == <<requests, executing, responses, executed, silent, child, monitor>>
dispVars == <<deadError, disp, taken, dispFails>>
closeVars == <<closing, closer, closeFails>>
vars == <<callVars, result, futures, childVars, parent, dispVars, closeVars>>

Init ==
    /\ call = [c \in Calls |-> "idle"] /\ result = [c \in Calls |-> "none"]
    /\ lock = NoCall /\ futures = {}
    /\ requests = <<>> /\ executing = {} /\ responses = <<>>
    /\ executed = {} /\ silent = {}
    /\ child = TRUE /\ parent = TRUE /\ monitor = "watching"
    /\ deadError = FALSE /\ disp = "get" /\ taken = NoResponse /\ dispFails = {}
    /\ closing = FALSE /\ closer = "open" /\ closeFails = {}

\* A future is resolved once; later attempts raise InvalidStateError.
Resolve(c, r) == result' = [result EXCEPT ![c] = IF @ = "none" THEN r ELSE @]

(***************************************************************************)
(* Callers.                                                                *)
(***************************************************************************)
NotCalls == <<childVars, parent, dispVars, closeVars>>

\* Mutant: the flags are read before the lock is taken.
CheckUnlocked(c) ==
    /\ parent /\ call[c] = "idle"
    /\ \/ /\ deadError \/ closing
          /\ call' = [call EXCEPT ![c] = "refused"]
          /\ Resolve(c, "refused")
       \/ /\ ~deadError /\ ~closing
          /\ call' = [call EXCEPT ![c] = "checked"]
          /\ UNCHANGED result
    /\ UNCHANGED <<lock, futures, NotCalls>>

\* The lock is taken and the flags are read.
Check(c) ==
    /\ parent /\ call[c] = "idle" /\ lock = NoCall
    /\ \/ /\ deadError \/ closing
          /\ call' = [call EXCEPT ![c] = "refused"]
          /\ Resolve(c, "refused")
          /\ UNCHANGED lock
       \/ /\ ~deadError /\ ~closing
          /\ call' = [call EXCEPT ![c] = "checked"]
          /\ lock' = c
          /\ UNCHANGED result
    /\ UNCHANGED <<futures, NotCalls>>

Register(c) ==
    /\ parent /\ call[c] = "checked"
    /\ futures' = futures \cup {c}
    /\ lock' = NoCall
    /\ call' = [call EXCEPT ![c] = "registered"]
    /\ UNCHANGED <<result, NotCalls>>

\* requests.put_nowait.
Send(c) ==
    /\ parent /\ call[c] = "registered" /\ closer # "closed"
    /\ requests' = Append(requests, c)
    /\ call' = [call EXCEPT ![c] = "sent"]
    /\ UNCHANGED <<lock, result, futures, executing, responses, executed, silent, child,
                   monitor, parent, dispVars, closeVars>>

\* The queue is closed: put_nowait raises, the entry is removed.
SendRefused(c) ==
    /\ parent /\ call[c] = "registered" /\ closer = "closed" /\ lock = NoCall
    /\ futures' = futures \ {c}
    /\ call' = [call EXCEPT ![c] = "refused"]
    /\ Resolve(c, "refused")
    /\ UNCHANGED <<lock, NotCalls>>

\* The caller's task is cancelled while it awaits the future.
Cancel(c) ==
    /\ MayCancel /\ parent /\ call[c] = "sent" /\ result[c] = "none"
    /\ Resolve(c, "cancelled")
    /\ UNCHANGED <<callVars, futures, NotCalls>>

(***************************************************************************)
(* The child.                                                              *)
(***************************************************************************)
NotChild == <<callVars, result, futures, parent, dispVars, closeVars>>

Fetch ==
    /\ child /\ requests # <<>>
    /\ executing' = executing \cup {Head(requests)}
    /\ requests' = Tail(requests)
    /\ UNCHANGED <<responses, executed, silent, child, monitor, NotChild>>

\* The method returns or raises and its response is queued; none is when it was
\* cancelled, or when the feeder thread cannot pickle it.
Return(c) ==
    /\ child /\ c \in executing
    /\ executing' = executing \ {c} /\ executed' = executed \cup {c}
    /\ \/ /\ "silent" \in Answers
          /\ silent' = silent \cup {c} /\ UNCHANGED responses
       \/ /\ \E a \in Answers \ {"silent"} :
                responses' = Append(responses, [call |-> c, kind |-> a])
          /\ UNCHANGED silent
    /\ UNCHANGED <<requests, child, monitor, NotChild>>

\* The process ends.  Responses its feeder thread has not written are lost, and
\* one it was writing stays torn in the pipe.
ChildEnds ==
    /\ child' = FALSE /\ executing' = {} /\ monitor' = "gone"
    /\ \E n \in 0..Len(responses) :
          \/ responses' = SubSeq(responses, 1, n)
          \/ /\ TornWrites /\ n > 0
             /\ responses' = [SubSeq(responses, 1, n) EXCEPT ![n].kind = "torn"]
    /\ UNCHANGED <<requests, executed, silent>>

ChildDies ==
    /\ ChildMayDie /\ child
    /\ ChildEnds
    /\ UNCHANGED NotChild

ParentDies ==
    /\ ParentMayDie /\ parent
    /\ parent' = FALSE
    /\ UNCHANGED <<callVars, result, futures, childVars, dispVars, closeVars>>

\* The parent is not this process's parent any more: the forced exit is armed
\* and the object's close() is called.
MonitorSees ==
    /\ child /\ ~parent /\ monitor = "watching"
    /\ monitor' = "closing"
    /\ UNCHANGED <<requests, executing, responses, executed, silent, child, NotChild>>

\* close() may hang.
ObjectCloses ==
    /\ child /\ monitor = "closing"
    /\ \/ ChildEnds
       \/ /\ monitor' = "hung"
          /\ UNCHANGED <<requests, executing, responses, executed, silent, child>>
    /\ UNCHANGED NotChild

\* Mutant: the forced exit spares a child whose parent is still there.
ForcedExitDisarmed ==
    /\ child /\ monitor = "hung" /\ parent
    /\ ChildEnds
    /\ UNCHANGED NotChild

ForcedExit ==
    /\ child /\ monitor = "hung"
    /\ ChildEnds
    /\ UNCHANGED NotChild

(***************************************************************************)
(* The dispatcher thread.                                                  *)
(***************************************************************************)
NotDisp == <<callVars, requests, executing, executed, silent, child, monitor, parent, closeVars>>

\* Reading a response ends the thread when it cannot be unpickled, and blocks it
\* for good when it is torn: the parent holds the pipe's other end open itself.
\* A get() under way when close() closes the queue may still read.
GetResponse ==
    /\ parent /\ disp = "get" /\ responses # <<>>
    /\ responses' = Tail(responses)
    /\ \/ /\ Head(responses).kind \in {"undecodable", "torn"}
          /\ disp' = "gone" /\ UNCHANGED taken
       \/ /\ Head(responses).kind \notin {"undecodable", "torn"}
          /\ disp' = "pop" /\ taken' = Head(responses)
    /\ UNCHANGED <<deadError, dispFails, result, futures, NotDisp>>

PopFuture ==
    /\ parent /\ disp = "pop" /\ lock = NoCall
    /\ futures' = futures \ {taken.call}
    /\ \/ taken.call \in futures /\ disp' = "deliver" /\ UNCHANGED taken
       \/ taken.call \notin futures /\ disp' = "get" /\ taken' = NoResponse
    /\ UNCHANGED <<deadError, dispFails, responses, result, NotDisp>>

Deliver ==
    /\ parent /\ disp = "deliver"
    /\ Resolve(taken.call, taken.kind)
    /\ disp' = "get" /\ taken' = NoResponse
    /\ UNCHANGED <<deadError, dispFails, responses, futures, NotDisp>>

GetTimesOut ==
    /\ parent /\ disp = "get" /\ responses = <<>> /\ closer # "closed"
    /\ disp' = "empty"
    /\ UNCHANGED <<deadError, taken, dispFails, responses, result, futures, NotDisp>>

\* close() has closed the queue: get raises.
GetRaises ==
    /\ parent /\ disp = "get" /\ closer = "closed"
    /\ disp' = "gone"
    /\ UNCHANGED <<deadError, taken, dispFails, responses, result, futures, NotDisp>>

\* Mutant: the death of the child is not looked for.
OnEmptyBlind ==
    /\ parent /\ disp = "empty"
    /\ disp' = (IF closing THEN "gone" ELSE "get")
    /\ UNCHANGED <<deadError, taken, dispFails, responses, result, futures, NotDisp>>

\* The queue was empty for 0.1 s: the loop is left when the proxy is closing,
\* and the child's death is recorded once.
OnEmpty ==
    /\ parent /\ disp = "empty"
    /\ \/ closing /\ disp' = "gone" /\ UNCHANGED deadError
       \/ ~closing /\ (deadError \/ child) /\ disp' = "get" /\ UNCHANGED deadError
       \/ ~closing /\ ~deadError /\ ~child /\ disp' = "fail" /\ deadError' = TRUE
    /\ UNCHANGED <<taken, dispFails, responses, result, futures, NotDisp>>

\* _fail_pending: the futures are listed and forgotten under the lock, and
\* failed one by one after it.
DispListsPending ==
    /\ parent /\ disp = "fail" /\ lock = NoCall
    /\ dispFails' = futures /\ futures' = {}
    /\ disp' = "failing"
    /\ UNCHANGED <<deadError, taken, responses, result, NotDisp>>

DispFailsOne(c) ==
    /\ parent /\ disp = "failing" /\ c \in dispFails
    /\ Resolve(c, "dead")
    /\ dispFails' = dispFails \ {c}
    /\ UNCHANGED <<deadError, disp, taken, responses, futures, NotDisp>>

\* Mutant: a future that was resolved meanwhile ends the loop over the list.
DispFailedEarly ==
    /\ parent /\ disp = "failing"
    /\ dispFails = {} \/ \E c \in dispFails : result[c] # "none"
    /\ disp' = "get" /\ dispFails' = {}
    /\ UNCHANGED <<deadError, taken, responses, result, futures, NotDisp>>

DispFailed ==
    /\ parent /\ disp = "failing" /\ dispFails = {}
    /\ disp' = "get"
    /\ UNCHANGED <<deadError, taken, dispFails, responses, result, futures, NotDisp>>

(***************************************************************************)
(* close().                                                                *)
(***************************************************************************)
NotClose == <<callVars, parent, dispVars>>

CloseBegins ==
    /\ MayClose /\ parent /\ closer = "open"
    /\ closing' = TRUE /\ closer' = "flagged"
    /\ UNCHANGED <<closeFails, result, futures, childVars, NotClose>>

CloseListsPending ==
    /\ parent /\ closer = "flagged" /\ lock = NoCall
    /\ closeFails' = futures /\ futures' = {}
    /\ closer' = "failing"
    /\ UNCHANGED <<closing, result, childVars, NotClose>>

CloseFailsOne(c) ==
    /\ parent /\ closer = "failing" /\ c \in closeFails
    /\ Resolve(c, "closing")
    /\ closeFails' = closeFails \ {c}
    /\ UNCHANGED <<closing, closer, futures, childVars, NotClose>>

CloseFailed ==
    /\ parent /\ closer = "failing" /\ closeFails = {}
    /\ closer' = "failed"
    /\ UNCHANGED <<closing, closeFails, result, futures, childVars, NotClose>>

\* SIGTERM, and SIGKILL a second later, to the child's process group.
CloseKills ==
    /\ parent /\ closer = "failed"
    /\ closer' = "killed"
    /\ \/ child /\ ChildEnds
       \/ ~child /\ UNCHANGED childVars
    /\ UNCHANGED <<closing, closeFails, result, futures, NotClose>>

CloseQueues ==
    /\ parent /\ closer = "killed"
    /\ closer' = "closed"
    /\ UNCHANGED <<closing, closeFails, result, futures, childVars, NotClose>>

(***************************************************************************)
(* The specification.                                                      *)
(***************************************************************************)
Caller(c) == Check(c) \/ Register(c) \/ Send(c) \/ SendRefused(c)

ChildStep == Fetch \/ \E c \in Calls : Return(c)

Monitor == MonitorSees \/ ObjectCloses \/ ForcedExit

Dispatcher ==
    \/ GetResponse \/ PopFuture \/ Deliver \/ GetTimesOut \/ GetRaises \/ OnEmpty
    \/ DispListsPending \/ (\E c \in Calls : DispFailsOne(c)) \/ DispFailed

Closing ==
    \/ CloseListsPending \/ (\E c \in Calls : CloseFailsOne(c)) \/ CloseFailed
    \/ CloseKills \/ CloseQueues

Next ==
    \/ \E c \in Calls : Caller(c) \/ Cancel(c)
    \/ ChildStep \/ Monitor \/ Dispatcher
    \/ CloseBegins \/ Closing
    \/ ChildDies \/ ParentDies

Spec == Init /\ [][Next]_vars

\* Every thread and process keeps running, and every method comes to an end in
\* the child; nobody has to make a call, to close the proxy or to die.
Fairness ==
    /\ \A c \in Calls : WF_vars(Register(c) \/ Send(c) \/ SendRefused(c))
    /\ WF_vars(Fetch) /\ \A c \in Calls : WF_vars(Return(c))
    /\ WF_vars(Monitor) /\ SF_vars(Dispatcher) /\ SF_vars(Closing)

FairSpec == Spec /\ Fairness

(***************************************************************************)
(* Properties.                                                             *)
(***************************************************************************)

Response == [call : Calls, kind : {"value", "raised", "undecodable", "torn"}]

\* Every variable has its type.
TypeOK ==
    /\ call \in [Calls -> {"idle", "checked", "registered", "sent", "refused"}]
    /\ result \in [Calls -> {"none", "value", "raised", "dead", "closing", "cancelled",
                             "refused"}]
    /\ lock \in Calls \cup {NoCall} /\ futures \subseteq Calls
    /\ requests \in Seq(Calls) /\ executing \subseteq Calls
    /\ executed \subseteq Calls /\ silent \subseteq Calls
    /\ responses \in Seq(Response)
    /\ child \in BOOLEAN /\ parent \in BOOLEAN
    /\ monitor \in {"watching", "closing", "hung", "gone"}
    /\ deadError \in BOOLEAN /\ closing \in BOOLEAN
    /\ disp \in {"get", "empty", "pop", "deliver", "fail", "failing", "gone"}
    /\ taken \in Response \cup {NoResponse}
    /\ dispFails \subseteq Calls /\ closeFails \subseteq Calls
    /\ closer \in {"open", "flagged", "failing", "failed", "killed", "closed"}

Pending(c) == call[c] \in {"registered", "sent"} /\ result[c] = "none"

Delivered == IF disp = "deliver" THEN {taken.call} ELSE {}

Failing ==
    (IF disp = "failing" THEN dispFails ELSE {})
        \cup (IF closer = "failing" THEN closeFails ELSE {})

\* The future of a pending call is always in the hands of somebody who will
\* resolve it: in _futures, being delivered, or on a list that the dispatcher or
\* close() is working off.
PendingTracked == \A c \in Calls : Pending(c) => c \in futures \cup Failing \cup Delivered

\* A call that slips in while the flags change is not left behind: once
\* close(), or the dispatcher after the child's death, has listed the pending
\* futures, no future is added any more.
NoneAfterListing ==
    /\ closer \notin {"open", "flagged"} => futures = {}
    /\ deadError /\ disp # "fail" => futures = {}

\* The callers see what RemoteCalls promises.
Phase(c) ==
    IF call[c] \in {"idle", "checked"} THEN "new"
    ELSE IF result[c] = "none" THEN "pending" ELSE "over"

Promise == INSTANCE RemoteCalls WITH
    phase <- [c \in Calls |-> Phase(c)], ended <- result, ran <- executed,
    shut <- closer \notin {"open", "flagged"}

KeepsPromise == Promise!Spec

\* Every call ends: with its answer, or with the error of the child's death or of
\* close(), whichever of them happen on the way.
EveryCallEnds == \A c \in Calls : call[c] = "registered" ~> (result[c] # "none" \/ ~parent)

\* The dispatcher has met a response it cannot read.
Unread == disp = "gone" /\ ~closing

\* The same of a call whose method sends a response, while every response can be
\* read; close() ends the others too.
AnsweredCallEnds ==
    \A c \in Calls : call[c] = "registered" ~> (result[c] # "none" \/ ~parent
                                                \/ (~closing /\ c \in silent) \/ Unread)

\* A child outlives neither its proxy nor its parent, even one whose object
\* hangs in close().
NoOrphanChild == (~parent \/ closing) ~> ~child

=============================================================================
