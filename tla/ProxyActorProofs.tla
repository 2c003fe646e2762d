--------------------------- MODULE ProxyActorProofs ---------------------------
(***************************************************************************)
(* Proofs about ProxyActor, for every set of calls and every way in which  *)
(* methods, processes and callers may end: no pending future is forgotten, *)
(* and the proxy implements RemoteCalls.                                   *)
(***************************************************************************)
EXTENDS ProxyActor, SequenceTheorems, TLAPS

(***************************************************************************)
(* What the groups of variables hold.                                      *)
(***************************************************************************)

LEMMA Kept ==
    /\ UNCHANGED callVars => UNCHANGED <<call, lock>>
    /\ UNCHANGED childVars =>
          UNCHANGED <<requests, executing, responses, executed, silent, child, monitor>>
    /\ UNCHANGED dispVars => UNCHANGED <<deadError, disp, taken, dispFails>>
    /\ UNCHANGED closeVars => UNCHANGED <<closing, closer, closeFails>>
    /\ UNCHANGED NotCalls => UNCHANGED childVars /\ UNCHANGED dispVars /\ UNCHANGED closeVars
                             /\ UNCHANGED parent
    /\ UNCHANGED NotChild => UNCHANGED callVars /\ UNCHANGED dispVars /\ UNCHANGED closeVars
                             /\ UNCHANGED <<result, futures, parent>>
    /\ UNCHANGED NotDisp => UNCHANGED callVars /\ UNCHANGED closeVars
          /\ UNCHANGED <<requests, executing, executed, silent, child, monitor, parent>>
    /\ UNCHANGED NotClose => UNCHANGED callVars /\ UNCHANGED dispVars /\ UNCHANGED parent
    /\ UNCHANGED vars => UNCHANGED callVars /\ UNCHANGED childVars /\ UNCHANGED dispVars
          /\ UNCHANGED closeVars /\ UNCHANGED <<result, futures, parent>>
BY DEF callVars, childVars, dispVars, closeVars, NotCalls, NotChild, NotDisp, NotClose, vars

(***************************************************************************)
(* The queues.                                                             *)
(***************************************************************************)

LEMMA ResponseFacts ==
    /\ NoResponse.call = NoCall /\ NoResponse.kind = "none"
    /\ \A r \in Response : r.call \in Calls /\ r.kind \in {"value", "raised", "undecodable", "torn"}
    /\ \A r \in Response : [r EXCEPT !.kind = "torn"] \in Response
    /\ \A r \in Response : [r EXCEPT !.kind = "torn"].call = r.call
    /\ \A c \in Calls, a \in {"value", "raised", "undecodable"} :
          [call |-> c, kind |-> a] \in Response
BY DEF Response, NoResponse

\* What the end of the child leaves in the responses queue is a prefix of it,
\* the last response of it perhaps torn.
LEMMA ResponsesLeft ==
    ASSUME responses \in Seq(Response), ChildEnds
    PROVE  /\ responses' \in Seq(Response) /\ Len(responses') <= Len(responses)
           /\ \A i \in 1..Len(responses') : responses'[i].call = responses[i].call
<1>1. PICK n \in 0..Len(responses) :
          \/ responses' = SubSeq(responses, 1, n)
          \/ n > 0 /\ responses' = [SubSeq(responses, 1, n) EXCEPT ![n].kind = "torn"]
    BY DEF ChildEnds
<1> DEFINE left == SubSeq(responses, 1, n)
<1>2. /\ left \in Seq(Response) /\ Len(left) = n
      /\ \A i \in 1..n : left[i] = responses[i]
    BY <1>1, SubSeqProperties
<1>3. CASE responses' = left
    BY <1>1, <1>2, <1>3
<1>4. CASE n > 0 /\ responses' = [left EXCEPT ![n].kind = "torn"]
  <2>1. n \in 1..Len(left) /\ left[n] \in Response
      BY <1>2, <1>4
  <2>2. PICK torn \in Response :
            torn = [left[n] EXCEPT !.kind = "torn"] /\ torn.call = left[n].call
      BY <2>1, ResponseFacts
  <2>3. responses' = [left EXCEPT ![n] = torn]
      BY <1>4, <2>2
  <2> HIDE DEF left
  <2>4. responses' \in Seq(Response)
      BY <2>1, <2>3, <1>2, ExceptSeq
  <2>5. Len(responses') = n
      BY <2>1, <2>3, <1>2, ExceptSeq
  <2>6. \A i \in 1..n : responses'[i] = IF i = n THEN torn ELSE left[i]
      BY <2>1, <2>3, <1>2, ExceptSeq
  <2>7. Len(responses') <= Len(responses)
      BY <2>5
  <2>8. ASSUME NEW i \in 1..Len(responses') PROVE responses'[i].call = responses[i].call
    <3>1. i \in 1..n /\ left[i] = responses[i]
        BY <1>2, <2>5
    <3>2. CASE i = n BY <3>1, <3>2, <2>2, <2>6
    <3>3. CASE i # n BY <3>1, <3>3, <2>6
    <3> QED BY <3>2, <3>3
  <2> QED BY <2>4, <2>7, <2>8
<1> QED BY <1>1, <1>3, <1>4

(***************************************************************************)
(* Type correctness.                                                       *)
(***************************************************************************)

LEMMA ResolveTyped ==
    ASSUME TypeOK, NEW c \in Calls, NEW r \in {"value", "raised", "dead", "closing", "cancelled", "refused"},
           Resolve(c, r)
    PROVE  result' \in [Calls -> {"none", "value", "raised", "dead", "closing", "cancelled",
                                  "refused"}]
BY DEF TypeOK, Resolve

LEMMA CallerTyped ==
    ASSUME TypeOK, NEW c \in Calls, Caller(c) \/ Cancel(c)
    PROVE  TypeOK'
<1> USE Kept DEF TypeOK
<1>1. CASE Check(c)
  <2>1. /\ call' \in [Calls -> {"idle", "checked", "registered", "sent", "refused"}]
        /\ lock' \in Calls \cup {NoCall} /\ UNCHANGED <<futures, NotCalls>>
      BY <1>1 DEF Check
  <2>2. result' \in [Calls -> {"none", "value", "raised", "dead", "closing", "cancelled",
                               "refused"}]
      BY <1>1, ResolveTyped DEF Check
  <2>3. UNCHANGED <<childVars, dispVars, closeVars, parent>>
      BY <2>1
  <2> QED BY <2>1, <2>2, <2>3
<1>2. CASE Register(c) BY <1>2 DEF Register
<1>3. CASE Send(c)
  <2>1. requests' \in Seq(Calls)
      BY <1>3, AppendProperties DEF Send
  <2> QED BY <1>3, <2>1 DEF Send
<1>4. CASE SendRefused(c) BY <1>4, ResolveTyped DEF SendRefused
<1>5. CASE Cancel(c) BY <1>5, ResolveTyped DEF Cancel
<1> QED BY <1>1, <1>2, <1>3, <1>4, <1>5 DEF Caller

\* What the end of a process changes.
LEMMA TypedAtEnds ==
    ASSUME TypeOK, child' \in BOOLEAN, parent' \in BOOLEAN,
           monitor' \in {"watching", "closing", "hung", "gone"},
           executing' \subseteq Calls, responses' \in Seq(Response),
           UNCHANGED <<call, lock, result, futures, requests, executed, silent, deadError, disp,
                       taken, dispFails, closing, closer, closeFails>>
    PROVE  TypeOK'
BY DEF TypeOK

LEMMA ChildTyped ==
    ASSUME TypeOK, ChildStep \/ Monitor \/ ChildDies \/ ParentDies
    PROVE  TypeOK'
<1> USE Kept DEF TypeOK
<1>1. CASE Fetch
  <2>1. Head(requests) \in Calls /\ Tail(requests) \in Seq(Calls)
      BY <1>1, HeadTailProperties DEF Fetch
  <2> QED BY <1>1, <2>1 DEF Fetch
<1>2. ASSUME NEW c \in Calls, Return(c) PROVE TypeOK'
  <2>1. PICK a \in Answers :
            responses' = IF a = "silent" THEN responses
                         ELSE Append(responses, [call |-> c, kind |-> a])
      BY <1>2 DEF Return
  <2>2. a # "silent" => [call |-> c, kind |-> a] \in Response
      BY ResponseFacts, ProxyAssumption DEF ProxyAssumption, AllAnswers
  <2>3. responses' \in Seq(Response)
    <3>1. CASE a = "silent" BY <2>1, <3>1
    <3>2. CASE a # "silent" BY <2>1, <2>2, <3>2, AppendProperties
    <3> QED BY <3>1, <3>2
  <2> QED BY <1>2, <2>3 DEF Return
<1>3. ASSUME ChildEnds, UNCHANGED NotChild
      PROVE  TypeOK'
  <2>1. /\ child' = FALSE /\ executing' = {} /\ monitor' = "gone"
        /\ UNCHANGED <<requests, executed, silent>>
      BY <1>3 DEF ChildEnds
  <2>2. responses' \in Seq(Response)
      BY <1>3, ResponsesLeft
  <2>3. /\ parent' \in BOOLEAN
        /\ UNCHANGED <<call, lock, result, futures, deadError, disp, taken, dispFails, closing,
                      closer, closeFails>>
      BY <1>3
  <2>4. TypeOK
      OBVIOUS
  <2>5. /\ child' \in BOOLEAN /\ monitor' \in {"watching", "closing", "hung", "gone"}
        /\ executing' \subseteq Calls
      BY ONLY <2>1
  <2> QED BY ONLY <2>1, <2>2, <2>3, <2>4, <2>5, TypedAtEnds
<1>4. CASE ParentDies
  <2>1. /\ parent' \in BOOLEAN
        /\ UNCHANGED <<call, lock, result, futures, requests, executed, silent, deadError, disp,
                      taken, dispFails, closing, closer, closeFails>>
      BY ONLY <1>4 DEF ParentDies, callVars, childVars, dispVars, closeVars
  <2>2. UNCHANGED <<executing, responses, child, monitor>>
      BY ONLY <1>4 DEF ParentDies, childVars
  <2>3. TypeOK
      OBVIOUS
  <2>4. /\ child' \in BOOLEAN /\ monitor' \in {"watching", "closing", "hung", "gone"}
        /\ executing' \subseteq Calls /\ responses' \in Seq(Response)
      BY ONLY <2>2, <2>3 DEF TypeOK
  <2> QED BY ONLY <2>1, <2>3, <2>4, TypedAtEnds
<1>5. CASE MonitorSees BY <1>5 DEF MonitorSees
<1>6. CASE ObjectCloses
  <2>1. UNCHANGED NotChild
      BY <1>6 DEF ObjectCloses
  <2>2. CASE ~ChildEnds
    <3>1. monitor' = "hung" /\ UNCHANGED <<requests, executing, responses, executed, silent, child>>
        BY <1>6, <2>2 DEF ObjectCloses
    <3> QED BY <2>1, <3>1
  <2> QED BY <1>3, <2>1, <2>2
<1>7. CASE ForcedExit BY <1>3, <1>7 DEF ForcedExit
<1>8. CASE ChildDies BY <1>3, <1>8 DEF ChildDies
<1> QED BY <1>1, <1>2, <1>4, <1>5, <1>6, <1>7, <1>8 DEF ChildStep, Monitor

\* The dispatcher delivers answers only.
Answering == disp \in {"pop", "deliver"} => taken \in Response /\ taken.kind \in {"value", "raised"}

LEMMA DispatcherTyped ==
    ASSUME TypeOK, Answering, Dispatcher
    PROVE  TypeOK' /\ Answering'
<1> USE Kept DEF TypeOK, Answering
<1>1. CASE GetResponse
  <2>1. /\ Head(responses) \in Response /\ Tail(responses) \in Seq(Response)
      BY <1>1, HeadTailProperties DEF GetResponse
  <2> QED BY <1>1, <2>1, ResponseFacts DEF GetResponse
<1>2. CASE PopFuture BY <1>2 DEF PopFuture
<1>3. CASE Deliver
  <2>1. taken.call \in Calls /\ taken.kind \in {"value", "raised"}
      BY <1>3, ResponseFacts DEF Deliver
  <2>2. Resolve(taken.call, taken.kind)
      BY <1>3 DEF Deliver
  <2> QED BY <1>3, <2>1, <2>2, ResolveTyped DEF Deliver
<1>4. CASE GetTimesOut BY <1>4 DEF GetTimesOut
<1>5. CASE GetRaises BY <1>5 DEF GetRaises
<1>6. CASE OnEmpty
  <2>1. /\ disp' \in {"gone", "get", "fail"} /\ deadError' \in BOOLEAN
        /\ UNCHANGED <<taken, dispFails, responses, result, futures, NotDisp>>
      BY <1>6 DEF OnEmpty
  <2>2. UNCHANGED <<call, lock, requests, executing, executed, silent, child, monitor, parent,
                    closing, closer, closeFails>>
      BY <2>1
  <2> QED BY <2>1, <2>2
<1>7. CASE DispListsPending BY <1>7 DEF DispListsPending
<1>8. ASSUME NEW c \in Calls, DispFailsOne(c) PROVE TypeOK' /\ Answering'
    BY <1>8, ResolveTyped DEF DispFailsOne
<1>9. CASE DispFailed BY <1>9 DEF DispFailed
<1> QED BY <1>1, <1>2, <1>3, <1>4, <1>5, <1>6, <1>7, <1>8, <1>9 DEF Dispatcher

LEMMA ClosingTyped ==
    ASSUME TypeOK, CloseBegins \/ Closing
    PROVE  TypeOK'
<1> USE Kept DEF TypeOK
<1>1. CASE CloseBegins BY <1>1 DEF CloseBegins
<1>2. CASE CloseListsPending BY <1>2 DEF CloseListsPending
<1>3. ASSUME NEW c \in Calls, CloseFailsOne(c) PROVE TypeOK'
    BY <1>3, ResolveTyped DEF CloseFailsOne
<1>4. CASE CloseFailed BY <1>4 DEF CloseFailed
<1>5. CASE CloseKills
  <2>1. CASE child /\ ChildEnds BY <1>5, <2>1, ResponsesLeft DEF CloseKills, ChildEnds
  <2>2. CASE ~child /\ UNCHANGED childVars BY <1>5, <2>2 DEF CloseKills
  <2> QED BY <1>5, <2>1, <2>2 DEF CloseKills
<1>6. CASE CloseQueues BY <1>6 DEF CloseQueues
<1> QED BY <1>1, <1>2, <1>3, <1>4, <1>5, <1>6 DEF Closing

Typed == TypeOK /\ Answering

LEMMA InitTyped == Init => Typed
<1> SUFFICES ASSUME Init PROVE Typed
    OBVIOUS
<1>1. requests \in Seq(Calls) /\ responses \in Seq(Response)
    BY DEF Init
<1> QED BY <1>1 DEF Init, Typed, TypeOK, Answering

LEMMA NextTyped == Typed /\ [Next]_vars => Typed'
<1> SUFFICES ASSUME Typed, [Next]_vars PROVE Typed'
    OBVIOUS
<1> USE DEF Typed
<1>1. ASSUME NEW c \in Calls, Caller(c) \/ Cancel(c) PROVE Typed'
  <2>1. UNCHANGED <<disp, taken>>
      BY <1>1, Kept DEF Caller, Check, Register, Send, SendRefused, Cancel
  <2> QED BY <1>1, <2>1, CallerTyped DEF Answering
<1>2. CASE ChildStep \/ Monitor \/ ChildDies \/ ParentDies
  <2>1. UNCHANGED <<disp, taken>>
      BY <1>2, Kept DEF ChildStep, Monitor, ChildDies, ParentDies, Fetch, Return, MonitorSees,
                        ObjectCloses, ForcedExit
  <2> QED BY <1>2, <2>1, ChildTyped DEF Answering
<1>3. CASE Dispatcher BY <1>3, DispatcherTyped
<1>4. CASE CloseBegins \/ Closing
  <2>1. UNCHANGED <<disp, taken>>
      BY <1>4, Kept DEF CloseBegins, Closing, CloseListsPending, CloseFailsOne, CloseFailed,
                        CloseKills, CloseQueues
  <2> QED BY <1>4, <2>1, ClosingTyped DEF Answering
<1>5. CASE UNCHANGED vars
  <2>1. UNCHANGED <<call, lock, requests, executing, responses, executed, silent, child,
                    monitor, deadError, disp, taken, dispFails, closing, closer, closeFails, result,
                    futures, parent>>
      BY <1>5, Kept
  <2>2. TypeOK' BY <2>1 DEF TypeOK
  <2>3. Answering' BY <2>1 DEF Answering
  <2> QED BY <2>2, <2>3
<1> QED BY <1>1, <1>2, <1>3, <1>4, <1>5 DEF Next

\* Every variable keeps its type, whatever the processes do.
THEOREM TypeCorrect == Spec => []TypeOK
<1>1. Spec => []Typed
    BY InitTyped, NextTyped, PTL DEF Spec
<1> QED BY <1>1, PTL DEF Typed

(***************************************************************************)
(* No future is added once the pending ones were listed.  A call that has  *)
(* read the flags holds the lock, so that nobody lists the futures before  *)
(* it has added its own.                                                   *)
(***************************************************************************)
LockHeld == \A c \in Calls : call[c] = "checked" => lock = c

FlagsFirst ==
    /\ closer # "open" => closing
    /\ disp \in {"fail", "failing"} => deadError

CheckedInTime ==
    \A c \in Calls : call[c] = "checked" =>
        closer \in {"open", "flagged"} /\ (deadError => disp = "fail")

Ordered == LockHeld /\ FlagsFirst /\ CheckedInTime /\ NoneAfterListing

LEMMA InitOrdered == Init => Ordered
BY DEF Init, Ordered, LockHeld, FlagsFirst, CheckedInTime, NoneAfterListing

LEMMA NextOrdered == TypeOK /\ Ordered /\ [Next]_vars => Ordered'
<1> SUFFICES ASSUME TypeOK, Ordered, [Next]_vars PROVE Ordered'
    OBVIOUS
<1> USE Kept DEF Ordered, LockHeld, FlagsFirst, CheckedInTime, NoneAfterListing
<1>0. call \in [Calls -> {"idle", "checked", "registered", "sent", "refused"}]
    BY DEF TypeOK
<1>1. ASSUME NEW c \in Calls, Caller(c) \/ Cancel(c) PROVE Ordered'
  <2>1. CASE Check(c) BY <1>0, <2>1, NoCallAssumption DEF Check
  <2>2. CASE Register(c) BY <1>0, <2>2 DEF Register
  <2>3. CASE Send(c) BY <1>0, <2>3 DEF Send
  <2>4. CASE SendRefused(c) BY <1>0, <2>4 DEF SendRefused
  <2>5. CASE Cancel(c) BY <2>5 DEF Cancel
  <2> QED BY <1>1, <2>1, <2>2, <2>3, <2>4, <2>5 DEF Caller
<1>2. CASE ChildStep \/ Monitor \/ ChildDies \/ ParentDies
  <2>1. UNCHANGED <<call, lock, closing, closer, deadError, disp, futures>>
      BY <1>2 DEF ChildStep, Monitor, ChildDies, ParentDies, Fetch, Return, MonitorSees,
                  ObjectCloses, ForcedExit
  <2> QED BY <2>1
<1>3. CASE Dispatcher
  <2>1. CASE GetResponse BY <1>3, <2>1 DEF GetResponse
  <2>2. CASE PopFuture BY <2>2 DEF PopFuture
  <2>3. CASE Deliver BY <2>3 DEF Deliver
  <2>4. CASE GetTimesOut BY <2>4 DEF GetTimesOut
  <2>5. CASE GetRaises BY <2>5 DEF GetRaises
  <2>6. CASE OnEmpty BY <2>6 DEF OnEmpty
  <2>7. CASE DispListsPending BY <2>7, NoCallAssumption DEF DispListsPending
  <2>8. CASE \E c \in Calls : DispFailsOne(c) BY <2>8 DEF DispFailsOne
  <2>9. CASE DispFailed BY <2>9 DEF DispFailed
  <2> QED BY <1>3, <2>1, <2>2, <2>3, <2>4, <2>5, <2>6, <2>7, <2>8, <2>9 DEF Dispatcher
<1>4. CASE CloseBegins \/ Closing
  <2>1. CASE CloseBegins BY <2>1 DEF CloseBegins
  <2>2. CASE CloseListsPending BY <2>2, NoCallAssumption DEF CloseListsPending
  <2>3. CASE \E c \in Calls : CloseFailsOne(c) BY <2>3 DEF CloseFailsOne
  <2>4. CASE CloseFailed BY <2>4 DEF CloseFailed
  <2>5. CASE CloseKills BY <2>5 DEF CloseKills
  <2>6. CASE CloseQueues BY <2>6 DEF CloseQueues
  <2> QED BY <1>4, <2>1, <2>2, <2>3, <2>4, <2>5, <2>6 DEF Closing
<1>5. CASE UNCHANGED vars BY <1>5
<1> QED BY <1>1, <1>2, <1>3, <1>4, <1>5 DEF Next

\* Once close() or the dispatcher has listed the pending futures none is added.
THEOREM NoneAfterListingHolds == Spec => []NoneAfterListing
<1>1. Init => Typed /\ Ordered
    BY InitTyped, InitOrdered
<1>2. Typed /\ Ordered /\ [Next]_vars => (Typed /\ Ordered)'
    BY NextTyped, NextOrdered DEF Typed
<1>3. Spec => [](Typed /\ Ordered)
    BY <1>1, <1>2, PTL DEF Spec
<1> QED BY <1>3, PTL DEF Ordered

(***************************************************************************)
(* Every pending future is in somebody's hands.                            *)
(***************************************************************************)

\* Resolving a future leaves the others as they are, and resolves it for good.
LEMMA Resolved ==
    ASSUME TypeOK, NEW c \in Calls, NEW r, r # "none", Resolve(c, r)
    PROVE  /\ result'[c] # "none"
           /\ \A d \in Calls : result[d] # "none" => result'[d] = result[d]
           /\ \A d \in Calls : d # c => result'[d] = result[d]
BY DEF TypeOK, Resolve

LEMMA InitTracked == Init => PendingTracked
BY DEF Init, PendingTracked, Pending

LEMMA NextTracked == Typed /\ PendingTracked /\ [Next]_vars => PendingTracked'
<1> SUFFICES ASSUME TypeOK, Answering, PendingTracked, [Next]_vars,
                    NEW d \in Calls, Pending(d)'
             PROVE  (d \in futures \cup Failing \cup Delivered)'
    BY DEF Typed, PendingTracked
<1> USE Kept DEF Failing, Delivered
<1>0. /\ call \in [Calls -> {"idle", "checked", "registered", "sent", "refused"}]
      /\ result \in [Calls -> {"none", "value", "raised", "dead", "closing", "cancelled",
                               "refused"}]
    BY DEF TypeOK
<1>1. Pending(d) => d \in futures \cup Failing \cup Delivered
    BY DEF PendingTracked
<1>2. ASSUME NEW c \in Calls, Caller(c) \/ Cancel(c)
      PROVE  (d \in futures \cup Failing \cup Delivered)'
  <2>1. CASE Check(c) BY <1>0, <1>1, <2>1, Resolved DEF Check, Pending
  <2>2. CASE Register(c) BY <1>0, <1>1, <2>2 DEF Register, Pending
  <2>3. CASE Send(c) BY <1>0, <1>1, <2>3 DEF Send, Pending
  <2>4. CASE SendRefused(c) BY <1>0, <1>1, <2>4, Resolved DEF SendRefused, Pending
  <2>5. CASE Cancel(c) BY <1>0, <1>1, <2>5, Resolved DEF Cancel, Pending
  <2> QED BY <1>2, <2>1, <2>2, <2>3, <2>4, <2>5 DEF Caller
<1>3. CASE ChildStep \/ Monitor \/ ChildDies \/ ParentDies
  <2>1. UNCHANGED <<call, result, futures, disp, taken, dispFails, closer, closeFails>>
      BY <1>3 DEF ChildStep, Monitor, ChildDies, ParentDies, Fetch, Return, MonitorSees,
                  ObjectCloses, ForcedExit
  <2> QED BY <1>1, <2>1 DEF Pending
<1>4. CASE Dispatcher
  <2>1. CASE GetResponse BY <1>1, <2>1 DEF GetResponse, Pending
  <2>2. CASE PopFuture BY <1>1, <2>2 DEF PopFuture, Pending
  <2>3. CASE Deliver
    <3>1. taken.call \in Calls /\ taken.kind # "none" /\ Resolve(taken.call, taken.kind)
        BY <2>3, ResponseFacts DEF Deliver, Answering
    <3> QED BY <1>1, <2>3, <3>1, Resolved DEF Deliver, Pending
  <2>4. CASE GetTimesOut BY <1>1, <2>4 DEF GetTimesOut, Pending
  <2>5. CASE GetRaises BY <1>1, <2>5 DEF GetRaises, Pending
  <2>6. CASE OnEmpty BY <1>1, <2>6 DEF OnEmpty, Pending
  <2>7. CASE DispListsPending BY <1>1, <2>7 DEF DispListsPending, Pending
  <2>8. ASSUME NEW c \in Calls, DispFailsOne(c)
        PROVE  (d \in futures \cup Failing \cup Delivered)'
      BY <1>1, <2>8, Resolved DEF DispFailsOne, Pending
  <2>9. CASE DispFailed BY <1>1, <2>9 DEF DispFailed, Pending
  <2> QED BY <1>4, <2>1, <2>2, <2>3, <2>4, <2>5, <2>6, <2>7, <2>8, <2>9 DEF Dispatcher
<1>5. CASE CloseBegins \/ Closing
  <2>1. CASE CloseBegins BY <1>1, <2>1 DEF CloseBegins, Pending
  <2>2. CASE CloseListsPending BY <1>1, <2>2 DEF CloseListsPending, Pending
  <2>3. ASSUME NEW c \in Calls, CloseFailsOne(c)
        PROVE  (d \in futures \cup Failing \cup Delivered)'
      BY <1>1, <2>3, Resolved DEF CloseFailsOne, Pending
  <2>4. CASE CloseFailed BY <1>1, <2>4 DEF CloseFailed, Pending
  <2>5. CASE CloseKills BY <1>1, <2>5 DEF CloseKills, Pending
  <2>6. CASE CloseQueues BY <1>1, <2>6 DEF CloseQueues, Pending
  <2> QED BY <1>5, <2>1, <2>2, <2>3, <2>4, <2>5, <2>6 DEF Closing
<1>6. CASE UNCHANGED vars BY <1>1, <1>6 DEF Pending
<1> QED BY <1>2, <1>3, <1>4, <1>5, <1>6 DEF Next

\* The future of a pending call is never lost sight of.
THEOREM PendingTrackedHolds == Spec => []PendingTracked
<1>1. Init => Typed /\ PendingTracked
    BY InitTyped, InitTracked
<1>2. Typed /\ PendingTracked /\ [Next]_vars => (Typed /\ PendingTracked)'
    BY NextTyped, NextTracked
<1> QED BY <1>1, <1>2, PTL DEF Spec

(***************************************************************************)
(* The proxy implements RemoteCalls.  What is sent belongs to a call that  *)
(* was accepted, what is answered was executed, and a call that was not    *)
(* accepted has no result but its refusal.                                 *)
(***************************************************************************)
Accepted(c) == call[c] \notin {"idle", "checked"}

SentAccepted ==
    /\ \A c \in futures \cup dispFails \cup closeFails \cup executing : Accepted(c)
    /\ \A i \in 1..Len(requests) : Accepted(requests[i])
    /\ disp = "deliver" => Accepted(taken.call)

AnsweredExecuted ==
    /\ \A i \in 1..Len(responses) : responses[i].call \in executed
    /\ disp \in {"pop", "deliver"} => taken.call \in executed

ResultsLater ==
    \A c \in Calls : /\ ~Accepted(c) => result[c] = "none"
                     /\ call[c] = "refused" => result[c] # "none"

LEMMA InitTraced == Init => SentAccepted /\ AnsweredExecuted /\ ResultsLater
BY DEF Init, SentAccepted, AnsweredExecuted, ResultsLater, Accepted

\* An accepted call stays so: its place in response_future only advances.
LEMMA StaysAccepted ==
    ASSUME TypeOK, [Next]_vars, NEW d \in Calls, Accepted(d)
    PROVE  Accepted(d)'
<1> USE Kept DEF Accepted
<1>0. call \in [Calls -> {"idle", "checked", "registered", "sent", "refused"}]
    BY DEF TypeOK
<1>1. ASSUME NEW c \in Calls, Caller(c) \/ Cancel(c) PROVE Accepted(d)'
    BY <1>0, <1>1 DEF Caller, Check, Register, Send, SendRefused, Cancel
<1>2. CASE ChildStep \/ Monitor \/ ChildDies \/ ParentDies
    BY <1>2 DEF ChildStep, Monitor, ChildDies, ParentDies, Fetch, Return, MonitorSees,
                ObjectCloses, ForcedExit
<1>3. CASE Dispatcher
    BY <1>3 DEF Dispatcher, GetResponse, PopFuture, Deliver, GetTimesOut, GetRaises, OnEmpty,
                DispListsPending, DispFailsOne, DispFailed
<1>4. CASE CloseBegins \/ Closing
    BY <1>4 DEF CloseBegins, Closing, CloseListsPending, CloseFailsOne, CloseFailed,
                CloseKills, CloseQueues
<1>5. CASE UNCHANGED vars BY <1>5
<1> QED BY <1>1, <1>2, <1>3, <1>4, <1>5 DEF Next

LEMMA NextSentAccepted == Typed /\ SentAccepted /\ [Next]_vars => SentAccepted'
<1> SUFFICES ASSUME TypeOK, Answering, SentAccepted, [Next]_vars PROVE SentAccepted'
    BY DEF Typed
<1> DEFINE Kin == futures \cup dispFails \cup closeFails \cup executing
<1>1. /\ \A c \in Calls : Accepted(c) => Accepted(c)'
      /\ futures \subseteq Calls /\ dispFails \subseteq Calls /\ closeFails \subseteq Calls
      /\ executing \subseteq Calls /\ requests \in Seq(Calls)
      /\ call \in [Calls -> {"idle", "checked", "registered", "sent", "refused"}]
    BY StaysAccepted DEF TypeOK
<1>2. \A i \in 1..Len(requests) : requests[i] \in Calls
    BY <1>1, ElementOfSeq
<1> USE Kept DEF SentAccepted
\* Only adding a future, sending a request and popping a future bring a call in.
<1>3. ASSUME Kin' \subseteq Kin, UNCHANGED requests, disp' = "deliver" => UNCHANGED <<disp, taken>>
      PROVE  SentAccepted'
  <2>1. \A c \in Kin' : Accepted(c)' BY <1>1, <1>3
  <2>2. (\A i \in 1..Len(requests) : Accepted(requests[i]))' BY <1>1, <1>2, <1>3
  <2>3. (disp = "deliver" => Accepted(taken.call))'
      BY <1>1, <1>3, ResponseFacts DEF Answering
  <2> QED BY <2>1, <2>2, <2>3
<1>4. ASSUME NEW c \in Calls, Caller(c) \/ Cancel(c) PROVE SentAccepted'
  <2>1. CASE Check(c) BY <1>3, <2>1 DEF Check
  <2>2. CASE Register(c)
    <3>1. Accepted(c)' BY <1>1, <2>2 DEF Register, Accepted
    <3>2. /\ Kin' = Kin \cup {c} /\ UNCHANGED <<requests, disp, taken>>
        BY <2>2 DEF Register
    <3>3. \A d \in Kin' : Accepted(d)' BY <1>1, <3>1, <3>2
    <3>4. (\A i \in 1..Len(requests) : Accepted(requests[i]))' BY <1>1, <1>2, <3>2
    <3>5. (disp = "deliver" => Accepted(taken.call))'
        BY <1>1, <3>2, ResponseFacts DEF Answering
    <3> QED BY <3>3, <3>4, <3>5
  <2>3. CASE Send(c)
    <3>1. Accepted(c)' BY <1>1, <2>3 DEF Send, Accepted
    <3>2. /\ Kin' = Kin /\ requests' = Append(requests, c) /\ UNCHANGED <<disp, taken>>
        BY <2>3 DEF Send
    <3>3. \A d \in Kin' : Accepted(d)' BY <1>1, <3>2
    <3>4. (\A i \in 1..Len(requests) : Accepted(requests[i]))'
        BY <1>1, <1>2, <3>1, <3>2, AppendProperties
    <3>5. (disp = "deliver" => Accepted(taken.call))'
        BY <1>1, <3>2, ResponseFacts DEF Answering
    <3> QED BY <3>3, <3>4, <3>5
  <2>4. CASE SendRefused(c) BY <1>3, <2>4 DEF SendRefused
  <2>5. CASE Cancel(c) BY <1>3, <2>5 DEF Cancel
  <2> QED BY <1>4, <2>1, <2>2, <2>3, <2>4, <2>5 DEF Caller
<1>5. CASE ChildStep \/ Monitor \/ ChildDies \/ ParentDies
  <2>1. CASE Fetch
    <3>1. Head(requests) = requests[1] /\ Head(requests) \in Calls /\ Accepted(Head(requests))
        BY <1>1, <2>1, HeadTailProperties DEF Fetch
    <3>2. /\ Kin' = Kin \cup {Head(requests)} /\ requests' = Tail(requests)
          /\ UNCHANGED <<disp, taken>>
        BY <2>1 DEF Fetch
    <3>3. \A d \in Kin' : Accepted(d)' BY <1>1, <3>1, <3>2
    <3>4. (\A i \in 1..Len(requests) : Accepted(requests[i]))'
        BY <1>1, <1>2, <2>1, <3>2, HeadTailProperties DEF Fetch
    <3>5. (disp = "deliver" => Accepted(taken.call))'
        BY <1>1, <3>2, ResponseFacts DEF Answering
    <3> QED BY <3>3, <3>4, <3>5
  <2>2. CASE (\E c \in Calls : Return(c)) \/ Monitor \/ ChildDies \/ ParentDies
    <3>1. Kin' \subseteq Kin /\ UNCHANGED <<requests, disp, taken>>
        BY <2>2 DEF Return, Monitor, ChildDies, ParentDies, MonitorSees, ObjectCloses,
                    ForcedExit, ChildEnds
    <3> QED BY <1>3, <3>1
  <2> QED BY <1>5, <2>1, <2>2 DEF ChildStep
<1>6. CASE Dispatcher
  <2>1. CASE PopFuture
    <3>1. /\ Kin' \subseteq Kin /\ UNCHANGED requests
          /\ disp' = "deliver" => taken' = taken /\ taken.call \in futures
        BY <2>1 DEF PopFuture
    <3>2. \A d \in Kin' : Accepted(d)' BY <1>1, <3>1
    <3>3. (\A i \in 1..Len(requests) : Accepted(requests[i]))' BY <1>1, <1>2, <3>1
    <3>4. (disp = "deliver" => Accepted(taken.call))' BY <1>1, <3>1
    <3> QED BY <3>2, <3>3, <3>4
  <2>2. CASE GetResponse BY <1>3, <2>2 DEF GetResponse
  <2>3. CASE Deliver BY <1>3, <2>3 DEF Deliver
  <2>4. CASE GetTimesOut BY <1>3, <2>4 DEF GetTimesOut
  <2>5. CASE GetRaises BY <1>3, <2>5 DEF GetRaises
  <2>6. CASE OnEmpty BY <1>3, <2>6 DEF OnEmpty
  <2>7. CASE DispListsPending BY <1>3, <2>7 DEF DispListsPending
  <2>8. CASE \E c \in Calls : DispFailsOne(c) BY <1>3, <2>8 DEF DispFailsOne
  <2>9. CASE DispFailed BY <1>3, <2>9 DEF DispFailed
  <2> QED BY <1>6, <2>1, <2>2, <2>3, <2>4, <2>5, <2>6, <2>7, <2>8, <2>9 DEF Dispatcher
<1>7. CASE CloseBegins \/ Closing
  <2>1. Kin' \subseteq Kin /\ UNCHANGED <<requests, disp, taken>>
      BY <1>7 DEF CloseBegins, Closing, CloseListsPending, CloseFailsOne, CloseFailed,
                  CloseKills, CloseQueues, ChildEnds
  <2> QED BY <1>3, <2>1
<1>8. CASE UNCHANGED vars BY <1>3, <1>8
<1> QED BY <1>4, <1>5, <1>6, <1>7, <1>8 DEF Next

LEMMA NextAnsweredExecuted ==
    Typed /\ AnsweredExecuted /\ [Next]_vars => AnsweredExecuted'
<1> SUFFICES ASSUME TypeOK, Answering, AnsweredExecuted, [Next]_vars PROVE AnsweredExecuted'
    BY DEF Typed
<1> USE Kept DEF AnsweredExecuted
<1>1. responses \in Seq(Response)
    BY DEF TypeOK
<1>2. ASSUME ChildEnds, UNCHANGED <<disp, taken>> PROVE AnsweredExecuted'
  <2>1. /\ responses' \in Seq(Response) /\ Len(responses') <= Len(responses)
        /\ \A i \in 1..Len(responses') : responses'[i].call = responses[i].call
        /\ executed' = executed
      BY <1>1, <1>2, ResponsesLeft DEF ChildEnds
  <2>2. \A i \in 1..Len(responses') : i \in 1..Len(responses)
      BY <1>1, <2>1, LenProperties
  <2> QED BY <1>2, <2>1, <2>2
<1>3. ASSUME NEW c \in Calls, Caller(c) \/ Cancel(c) PROVE AnsweredExecuted'
  <2>1. UNCHANGED <<responses, executed, disp, taken>>
      BY <1>3 DEF Caller, Check, Register, Send, SendRefused, Cancel
  <2> QED BY <2>1
<1>4. CASE ChildStep \/ Monitor \/ ChildDies \/ ParentDies
  <2>1. CASE Fetch \/ ParentDies \/ MonitorSees BY <2>1 DEF Fetch, ParentDies, MonitorSees
  <2>2. ASSUME NEW c \in Calls, Return(c) PROVE AnsweredExecuted'
    <3>1. PICK a \in Answers :
              responses' = IF a = "silent" THEN responses
                           ELSE Append(responses, [call |-> c, kind |-> a])
        BY <2>2 DEF Return
    <3>2. executed' = executed \cup {c} /\ UNCHANGED <<disp, taken>>
        BY <2>2 DEF Return
    <3>3. CASE a = "silent" BY <3>1, <3>2, <3>3
    <3>4. CASE a # "silent"
      <4>1. [call |-> c, kind |-> a] \in Response
          BY <3>4, ResponseFacts, ProxyAssumption DEF ProxyAssumption, AllAnswers
      <4> QED BY <1>1, <3>1, <3>2, <3>4, <4>1, AppendProperties
    <3> QED BY <3>3, <3>4
  <2>3. CASE ObjectCloses \/ ForcedExit \/ ChildDies
      BY <1>2, <2>3 DEF ObjectCloses, ForcedExit, ChildDies
  <2> QED BY <1>4, <2>1, <2>2, <2>3 DEF ChildStep, Monitor
<1>5. CASE Dispatcher
  <2>1. CASE GetResponse
    <3>1. /\ Head(responses) = responses[1] /\ 1 \in 1..Len(responses)
          /\ Len(Tail(responses)) = Len(responses) - 1
          /\ \A i \in 1..Len(Tail(responses)) : Tail(responses)[i] = responses[i + 1]
        BY <1>1, <2>1, HeadTailProperties DEF GetResponse
    <3>2. \A i \in 1..Len(Tail(responses)) : i + 1 \in 1..Len(responses)
        BY <1>1, <3>1, LenProperties
    <3> QED BY <2>1, <3>1, <3>2 DEF GetResponse
  <2>2. CASE PopFuture BY <2>2 DEF PopFuture
  <2>3. CASE Deliver BY <2>3 DEF Deliver
  <2>4. CASE GetTimesOut BY <2>4 DEF GetTimesOut
  <2>5. CASE GetRaises BY <2>5 DEF GetRaises
  <2>6. CASE OnEmpty BY <2>6 DEF OnEmpty
  <2>7. CASE DispListsPending BY <2>7 DEF DispListsPending
  <2>8. CASE \E c \in Calls : DispFailsOne(c) BY <2>8 DEF DispFailsOne
  <2>9. CASE DispFailed BY <2>9 DEF DispFailed
  <2> QED BY <1>5, <2>1, <2>2, <2>3, <2>4, <2>5, <2>6, <2>7, <2>8, <2>9 DEF Dispatcher
<1>6. CASE CloseBegins \/ Closing
  <2>1. CASE CloseKills BY <1>2, <2>1 DEF CloseKills
  <2>2. CASE ~CloseKills
      BY <1>6, <2>2 DEF CloseBegins, Closing, CloseListsPending, CloseFailsOne, CloseFailed,
                        CloseQueues
  <2> QED BY <2>1, <2>2
<1>7. CASE UNCHANGED vars BY <1>7
<1> QED BY <1>3, <1>4, <1>5, <1>6, <1>7 DEF Next

LEMMA NextResultsLater ==
    Typed /\ SentAccepted /\ ResultsLater /\ [Next]_vars => ResultsLater'
<1> SUFFICES ASSUME TypeOK, Answering, SentAccepted, ResultsLater, [Next]_vars
             PROVE  ResultsLater'
    BY DEF Typed
<1> USE Kept DEF ResultsLater, Accepted
<1>1. /\ call \in [Calls -> {"idle", "checked", "registered", "sent", "refused"}]
      /\ dispFails \subseteq Calls /\ closeFails \subseteq Calls
    BY DEF TypeOK
<1>2. ASSUME NEW c \in Calls, Accepted(c), NEW r, r # "none", Resolve(c, r), UNCHANGED call
      PROVE  ResultsLater'
    BY <1>1, <1>2, Resolved
<1>3. ASSUME NEW c \in Calls, Caller(c) \/ Cancel(c) PROVE ResultsLater'
  <2>1. CASE Check(c) BY <1>1, <2>1, Resolved DEF Check
  <2>2. CASE Register(c) BY <1>1, <2>2 DEF Register
  <2>3. CASE Send(c) BY <1>1, <2>3 DEF Send
  <2>4. CASE SendRefused(c) BY <1>1, <2>4, Resolved DEF SendRefused
  <2>5. CASE Cancel(c) BY <1>2, <2>5 DEF Cancel
  <2> QED BY <1>3, <2>1, <2>2, <2>3, <2>4, <2>5 DEF Caller
<1>4. CASE ChildStep \/ Monitor \/ ChildDies \/ ParentDies
  <2>1. UNCHANGED <<call, result>>
      BY <1>4 DEF ChildStep, Monitor, ChildDies, ParentDies, Fetch, Return, MonitorSees,
                  ObjectCloses, ForcedExit
  <2> QED BY <2>1
<1>5. CASE Dispatcher
  <2>1. CASE Deliver
    <3>1. /\ taken.call \in Calls /\ taken.kind # "none" /\ Resolve(taken.call, taken.kind)
          /\ UNCHANGED call
        BY <2>1, ResponseFacts DEF Deliver, Answering
    <3>2. Accepted(taken.call) BY <2>1 DEF Deliver, SentAccepted
    <3> QED BY <1>2, <3>1, <3>2
  <2>2. ASSUME NEW c \in Calls, DispFailsOne(c) PROVE ResultsLater'
    <3>1. Accepted(c) BY <2>2 DEF DispFailsOne, SentAccepted
    <3> QED BY <1>2, <2>2, <3>1 DEF DispFailsOne
  <2>3. CASE GetResponse \/ PopFuture \/ GetTimesOut \/ GetRaises \/ OnEmpty
             \/ DispListsPending \/ DispFailed
    <3>1. UNCHANGED <<call, result>>
        BY <2>3 DEF GetResponse, PopFuture, GetTimesOut, GetRaises, OnEmpty, DispListsPending,
                    DispFailed
    <3> QED BY <3>1
  <2> QED BY <1>5, <2>1, <2>2, <2>3 DEF Dispatcher
<1>6. CASE CloseBegins \/ Closing
  <2>1. ASSUME NEW c \in Calls, CloseFailsOne(c) PROVE ResultsLater'
    <3>1. Accepted(c) BY <2>1 DEF CloseFailsOne, SentAccepted
    <3> QED BY <1>2, <2>1, <3>1 DEF CloseFailsOne
  <2>2. CASE CloseBegins \/ CloseListsPending \/ CloseFailed \/ CloseKills \/ CloseQueues
    <3>1. UNCHANGED <<call, result>>
        BY <2>2 DEF CloseBegins, CloseListsPending, CloseFailed, CloseKills, CloseQueues
    <3> QED BY <3>1
  <2> QED BY <1>6, <2>1, <2>2 DEF Closing
<1>7. CASE UNCHANGED vars BY <1>7
<1> QED BY <1>3, <1>4, <1>5, <1>6, <1>7 DEF Next

Traced == Typed /\ Ordered /\ SentAccepted /\ AnsweredExecuted /\ ResultsLater

\* How the abstract variables move with the ones they are defined from.
PhaseOf == [c \in Calls |-> Phase(c)]
IsShut == closer \notin {"open", "flagged"}

LEMMA PhaseFacts ==
    /\ \A c \in Calls : PhaseOf[c] = IF ~Accepted(c) THEN "new"
                                   ELSE IF result[c] = "none" THEN "pending" ELSE "over"
    /\ (\A c \in Calls : PhaseOf[c] = IF ~Accepted(c) THEN "new"
                                   ELSE IF result[c] = "none" THEN "pending" ELSE "over")'
BY DEF PhaseOf, Phase, Accepted

LEMMA PromiseStutters ==
    ASSUME UNCHANGED <<call, result, executed, IsShut>>
    PROVE  UNCHANGED Promise!vars
BY DEF Promise!vars, Phase, IsShut

\* Resolving the future of an accepted call ends the call, or changes nothing.
LEMMA PromiseEnds ==
    ASSUME TypeOK, NEW c \in Calls, Accepted(c),
           NEW r \in {"value", "raised", "dead", "closing", "cancelled", "refused"},
           r \in {"value", "raised"} => c \in executed,
           Resolve(c, r), \A d \in Calls : Accepted(d)' <=> Accepted(d),
           UNCHANGED <<executed, IsShut>>
    PROVE  Promise!End(c) \/ UNCHANGED Promise!vars
<1>1. result' = [result EXCEPT ![c] = IF @ = "none" THEN r ELSE @]
      /\ result \in [Calls -> {"none", "value", "raised", "dead", "closing", "cancelled",
                               "refused"}]
    BY DEF Resolve, TypeOK
<1>2. CASE result[c] = "none"
  <2>1. PhaseOf[c] = "pending" /\ PhaseOf' = [PhaseOf EXCEPT ![c] = "over"]
    <3>1. \A d \in Calls : PhaseOf'[d] = IF d = c THEN "over" ELSE PhaseOf[d]
        BY <1>1, <1>2, PhaseFacts
    <3> QED BY <1>2, <3>1, PhaseFacts DEF PhaseOf
  <2>2. result' = [result EXCEPT ![c] = r]
      BY <1>1, <1>2
  <2> QED BY <2>1, <2>2 DEF Promise!End, Promise!Endings, PhaseOf, IsShut
<1>3. CASE result[c] # "none"
  <2>1. result' = result BY <1>1, <1>3
  <2>2. PhaseOf' = PhaseOf
    <3>1. \A d \in Calls : PhaseOf'[d] = PhaseOf[d] BY <2>1, PhaseFacts
    <3> QED BY <3>1 DEF PhaseOf
  <2> QED BY <2>1, <2>2 DEF Promise!vars, PhaseOf, IsShut
<1> QED BY <1>2, <1>3

LEMMA NextPromised ==
    ASSUME Traced, [Next]_vars
    PROVE  Promise!Next \/ UNCHANGED Promise!vars
<1> USE Kept DEF Traced, Typed
<1>1. /\ call \in [Calls -> {"idle", "checked", "registered", "sent", "refused"}]
      /\ result \in [Calls -> {"none", "value", "raised", "dead", "closing", "cancelled",
                               "refused"}]
      /\ dispFails \subseteq Calls /\ closeFails \subseteq Calls /\ executing \subseteq Calls
    BY DEF TypeOK
<1>2. ASSUME NEW c \in Calls, Caller(c) \/ Cancel(c)
      PROVE  Promise!Next \/ UNCHANGED Promise!vars
  <2>1. UNCHANGED <<executed, IsShut>>
      BY <1>2 DEF Caller, Check, Register, Send, SendRefused, Cancel, IsShut
  <2>2. CASE Check(c)
    <3>1. CASE (deadError \/ closing) /\ call' = [call EXCEPT ![c] = "refused"] /\ Resolve(c, "refused")
      <4>1. ~Accepted(c) /\ result[c] = "none"
          BY <2>2 DEF Check, Accepted, ResultsLater
      <4>2. result' = [result EXCEPT ![c] = "refused"]
          BY <1>1, <3>1, <4>1 DEF Resolve
      <4>3. PhaseOf[c] = "new" /\ PhaseOf' = [PhaseOf EXCEPT ![c] = "over"]
        <5>1. \A d \in Calls : PhaseOf'[d] = IF d = c THEN "over" ELSE PhaseOf[d]
            BY <1>1, <3>1, <4>2, PhaseFacts DEF Accepted
        <5> QED BY <4>1, <5>1, PhaseFacts DEF PhaseOf
      <4>4. Promise!Refuse(c)
          BY <2>1, <4>2, <4>3 DEF Promise!Refuse, PhaseOf, IsShut
      <4> QED BY <4>4 DEF Promise!Next
    <3>2. CASE call' = [call EXCEPT ![c] = "checked"] /\ UNCHANGED result
      <4>1. \A d \in Calls : PhaseOf'[d] = PhaseOf[d]
          BY <1>1, <2>2, <3>2, PhaseFacts DEF Accepted, Check
      <4>2. PhaseOf' = PhaseOf BY <4>1 DEF PhaseOf
      <4> QED BY <2>1, <3>2, <4>2 DEF Promise!vars, PhaseOf, IsShut
    <3> QED BY <2>2, <3>1, <3>2 DEF Check
  <2>3. CASE Register(c)
    <3>1. ~Accepted(c) /\ result[c] = "none" /\ ~IsShut /\ result' = result
        BY <2>3 DEF Register, Accepted, ResultsLater, Ordered, CheckedInTime, IsShut
    <3>2. PhaseOf[c] = "new" /\ PhaseOf' = [PhaseOf EXCEPT ![c] = "pending"]
      <4>1. \A d \in Calls : PhaseOf'[d] = IF d = c THEN "pending" ELSE PhaseOf[d]
          BY <1>1, <2>3, <3>1, PhaseFacts DEF Accepted, Register
      <4> QED BY <3>1, <4>1, PhaseFacts DEF PhaseOf
    <3>3. Promise!Accept(c)
        BY <2>1, <3>1, <3>2 DEF Promise!Accept, PhaseOf, IsShut
    <3> QED BY <3>3 DEF Promise!Next
  <2>4. CASE Send(c)
    <3>1. \A d \in Calls : PhaseOf'[d] = PhaseOf[d]
        BY <1>1, <2>4, PhaseFacts DEF Accepted, Send
    <3>2. PhaseOf' = PhaseOf /\ result' = result BY <2>4, <3>1 DEF PhaseOf, Send
    <3> QED BY <2>1, <3>2 DEF Promise!vars, PhaseOf, IsShut
  <2>5. CASE SendRefused(c) \/ Cancel(c)
    <3>1. Accepted(c) /\ \A d \in Calls : Accepted(d)' <=> Accepted(d)
        BY <1>1, <2>5 DEF SendRefused, Cancel, Accepted
    <3>2. Resolve(c, "refused") \/ Resolve(c, "cancelled")
        BY <2>5 DEF SendRefused, Cancel
    <3>3. Promise!End(c) \/ UNCHANGED Promise!vars
        BY <2>1, <3>1, <3>2, PromiseEnds
    <3> QED BY <3>3 DEF Promise!Next
  <2> QED BY <1>2, <2>2, <2>3, <2>4, <2>5 DEF Caller
<1>3. CASE ChildStep \/ Monitor \/ ChildDies \/ ParentDies
  <2>1. UNCHANGED <<call, result, IsShut>>
      BY <1>3 DEF ChildStep, Monitor, ChildDies, ParentDies, Fetch, Return, MonitorSees,
                  ObjectCloses, ForcedExit, IsShut
  <2>2. ASSUME NEW c \in Calls, Return(c) PROVE Promise!Next \/ UNCHANGED Promise!vars
    <3>1. executed' = executed \cup {c} /\ Accepted(c)
        BY <2>2 DEF Return, SentAccepted
    <3>2. CASE c \in executed
      <4>1. executed' = executed BY <3>1, <3>2
      <4> QED BY <2>1, <4>1, PromiseStutters
    <3>3. CASE c \notin executed
      <4>1. PhaseOf[c] # "new" BY <3>1, PhaseFacts
      <4>2. Promise!Runs(c)
          BY <2>1, <3>1, <3>3, <4>1 DEF Promise!Runs, PhaseOf, Phase, IsShut
      <4> QED BY <4>2 DEF Promise!Next
    <3> QED BY <3>2, <3>3
  <2>3. CASE Fetch \/ Monitor \/ ChildDies \/ ParentDies
    <3>1. executed' = executed
        BY <2>3 DEF Fetch, Monitor, ChildDies, ParentDies, MonitorSees, ObjectCloses,
                    ForcedExit, ChildEnds
    <3> QED BY <2>1, <3>1, PromiseStutters
  <2> QED BY <1>3, <2>2, <2>3 DEF ChildStep
<1>4. CASE Dispatcher
  <2>1. UNCHANGED <<call, executed, IsShut>>
      BY <1>4 DEF Dispatcher, GetResponse, PopFuture, Deliver, GetTimesOut, GetRaises, OnEmpty,
                  DispListsPending, DispFailsOne, DispFailed, IsShut
  <2>2. CASE Deliver
    <3>1. /\ taken.call \in Calls /\ taken.kind \in {"value", "raised"}
          /\ Resolve(taken.call, taken.kind)
        BY <2>2, ResponseFacts DEF Deliver, Answering
    <3>2. Accepted(taken.call) /\ taken.call \in executed
        BY <2>2 DEF Deliver, SentAccepted, AnsweredExecuted
    <3>3. Promise!End(taken.call) \/ UNCHANGED Promise!vars
        BY <2>1, <3>1, <3>2, PromiseEnds DEF Accepted
    <3> QED BY <3>1, <3>3 DEF Promise!Next
  <2>3. ASSUME NEW c \in Calls, DispFailsOne(c) PROVE Promise!Next \/ UNCHANGED Promise!vars
    <3>1. Accepted(c) /\ Resolve(c, "dead") BY <2>3 DEF DispFailsOne, SentAccepted
    <3>2. Promise!End(c) \/ UNCHANGED Promise!vars
        BY <2>1, <3>1, PromiseEnds DEF Accepted
    <3> QED BY <3>2 DEF Promise!Next
  <2>4. CASE GetResponse \/ PopFuture \/ GetTimesOut \/ GetRaises \/ OnEmpty
             \/ DispListsPending \/ DispFailed
    <3>1. UNCHANGED result
        BY <2>4 DEF GetResponse, PopFuture, GetTimesOut, GetRaises, OnEmpty, DispListsPending,
                    DispFailed
    <3> QED BY <2>1, <3>1, PromiseStutters
  <2> QED BY <1>4, <2>2, <2>3, <2>4 DEF Dispatcher
<1>5. CASE CloseBegins \/ Closing
  <2>1. UNCHANGED <<call, executed>>
      BY <1>5 DEF CloseBegins, Closing, CloseListsPending, CloseFailsOne, CloseFailed,
                  CloseKills, CloseQueues, ChildEnds
  <2>2. CASE CloseListsPending
    <3>1. ~IsShut /\ IsShut' /\ UNCHANGED result
        BY <2>2 DEF CloseListsPending, IsShut
    <3>2. Promise!Shut
        BY <2>1, <3>1 DEF Promise!Shut, Phase, IsShut
    <3> QED BY <3>2 DEF Promise!Next
  <2>3. ASSUME NEW c \in Calls, CloseFailsOne(c) PROVE Promise!Next \/ UNCHANGED Promise!vars
    <3>1. Accepted(c) /\ Resolve(c, "closing") /\ UNCHANGED IsShut
        BY <2>3 DEF CloseFailsOne, SentAccepted, IsShut
    <3>2. Promise!End(c) \/ UNCHANGED Promise!vars
        BY <2>1, <3>1, PromiseEnds DEF Accepted
    <3> QED BY <3>2 DEF Promise!Next
  <2>4. CASE CloseBegins \/ CloseFailed \/ CloseKills \/ CloseQueues
    <3>1. UNCHANGED <<result, IsShut>>
        BY <2>4 DEF CloseBegins, CloseFailed, CloseKills, CloseQueues, IsShut
    <3> QED BY <2>1, <3>1, PromiseStutters
  <2> QED BY <1>5, <2>2, <2>3, <2>4 DEF Closing
<1>6. CASE UNCHANGED vars BY <1>6, PromiseStutters DEF IsShut
<1> QED BY <1>2, <1>3, <1>4, <1>5, <1>6 DEF Next

\* The proxy implements what RemoteCalls promises its callers: a call ends once
\* and for good, it is answered only if the child has run it, and none is
\* accepted once close() has failed the pending ones.
THEOREM ProxyImplementsRemoteCalls == Spec => KeepsPromise
<1>1. Init => Promise!Init
    BY DEF Init, Promise!Init, Phase
<1>2. Init => Traced
    BY InitTyped, InitOrdered, InitTraced DEF Traced
<1>3. Traced /\ [Next]_vars => Traced'
    BY NextTyped, NextOrdered, NextSentAccepted, NextAnsweredExecuted, NextResultsLater
    DEF Traced, Typed
<1>4. Traced /\ [Next]_vars => [Promise!Next]_(Promise!vars)
    BY NextPromised
<1> QED BY <1>1, <1>2, <1>3, <1>4, PTL DEF Spec, KeepsPromise, Promise!Spec

=============================================================================
