------------------------ MODULE ServiceLifecycleProofs ------------------------
(***************************************************************************)
(* Theorems about ServiceLifecycle, for any number of services, servers    *)
(* and signals and any patience a close() may have that exceeds what the   *)
(* wrapper needs: a service that let go of its server left nothing of it,  *)
(* and a signal closes the services the exit would close.                  *)
(***************************************************************************)
EXTENDS ServiceLifecycle, FiniteSetTheorems, SequenceTheorems, TLAPS

\* What a wrapper still waits for before it exits, once it was asked to.
Remaining(s) ==
    IF wrapper[s] = "polling" THEN timer[s] + Grace + Sweep
    ELSE IF wrapper[s] = "waiting" THEN timer[s] + Sweep ELSE timer[s]

\* A server has a wrapper from its start on.  Only of a wrapper that sleeps, or was lost,
\* is anything left.
Wrappers ==
    \A s \in Servers :
        /\ wrapper[s] = "none" <=> owner[s] = NoService
        /\ wrapper[s] \notin Sleeping \cup {"lost"} => s \notin leader /\ s \notin helpers
        /\ wrapper[s] = "polling" => timer[s] <= Poll
        /\ wrapper[s] = "waiting" => timer[s] <= Grace
        /\ wrapper[s] = "sweeping" => timer[s] <= Sweep

\* The frames of close() on a stack, each of a service that is closing; none calls another.
Well(stack, begun, held) ==
    \A i \in 1 .. Len(stack) : stack[i].kind = "close" =>
        /\ stack[i].of \in begun
        /\ stack[i].at = "released" => held[stack[i].of] = NoServer
        /\ i + 1 \in 1 .. Len(stack) => stack[i + 1].kind # "close"

Under(stack, v) == \E i \in 1 .. Len(stack) : stack[i].kind = "close" /\ stack[i].of = v

Frames == Well(frames, closing, current)

\* The close() on top has asked the wrapper it waits for, and outwaits it.
Waiting ==
    Top("close") /\ Head(frames).at = "asked" =>
        LET s == current[Head(frames).of] IN
        /\ s \in Servers
        /\ Running(s) => s \in asked
        /\ wrapper[s] \in Sleeping => patience > Remaining(s)

\* Of every server its service does not hold nothing is left.
LetGo ==
    parent => \A s \in Servers :
        owner[s] # NoService /\ owner[s] \notin doubled /\ s # current[owner[s]] => Ended(s)

\* A service that began to close holds a server only while its close() is under way.
Releases ==
    parent => \A v \in closing :
        v \in cut \cup revived \/ current[v] = NoServer \/ Under(frames, v)

\* The backend closes every service it started.
ClosesAll ==
    /\ backend = "closing" /\ parent =>
           \A s \in Servers : owner[s] # NoService =>
               owner[s] \in closing \/ \E i \in 1 .. Len(toClose) : toClose[i] = owner[s]
    /\ backend = "closed" =>
           \A s \in Servers : owner[s] # NoService /\ Orderly(owner[s]) => Ended(s)

\* Each service found the handlers of those that were registered before it.
Linked(registered, installed, found) ==
    /\ installed = registered
    /\ \A i \in 1 .. Len(registered) :
           /\ Len(found[registered[i]]) = Len(registered) - i
           /\ \A j \in 1 .. Len(registered) - i :
                  found[registered[i]][j] = registered[i + j]

ExitIn(stack) == \E i \in 1 .. Len(stack) : stack[i].kind = "exit"

Chained == parent /\ ~ExitIn(frames) /\ ~disordered => Linked(callbacks, handler, saved)

IInv == TypeOK /\ Wrappers /\ Frames /\ Waiting /\ LetGo /\ Releases /\ ClosesAll /\ Chained

(***************************************************************************)
(* Sequences.                                                              *)
(***************************************************************************)

LEMMA Pushed ==
    ASSUME NEW S, NEW q \in Seq(S), NEW x \in S
    PROVE  /\ <<x>> \o q \in Seq(S) /\ Len(q) \in Nat /\ Len(<<x>> \o q) = Len(q) + 1
           /\ Head(<<x>> \o q) = x /\ (<<x>> \o q)[1] = x /\ <<x>> \o q # <<>>
           /\ \A i \in 1 .. Len(q) : (<<x>> \o q)[i + 1] = q[i]
           /\ \A i \in 2 .. Len(q) + 1 : (<<x>> \o q)[i] = q[i - 1]
  OBVIOUS

LEMMA Popped ==
    ASSUME NEW S, NEW q \in Seq(S), q # <<>>
    PROVE  /\ Tail(q) \in Seq(S) /\ Len(q) \in Nat /\ Len(q) >= 1 /\ Len(Tail(q)) = Len(q) - 1
           /\ Head(q) = q[1] /\ q[1] \in S
           /\ \A i \in 1 .. Len(Tail(q)) : Tail(q)[i] = q[i + 1]
           /\ \A i \in 2 .. Len(q) : q[i] = Tail(q)[i - 1]
  OBVIOUS

\* atexit.unregister of a service that is registered once.
LEMMA Unregistered ==
    ASSUME NEW S, NEW c \in Seq(S), IsInjective(c), NEW p \in 1 .. Len(c)
    PROVE  /\ RemoveFirst(c, c[p]) \in Seq(S) /\ Len(RemoveFirst(c, c[p])) = Len(c) - 1
           /\ \A j \in 1 .. Len(c) - 1 : RemoveFirst(c, c[p])[j] = IF j < p THEN c[j] ELSE c[j + 1]
<1>1. {i \in 1 .. Len(c) : c[i] = c[p]} = {p}
  BY DEF IsInjective
<1>2. Min({p}) = p
  BY DEF Min
<1>3. SelectInSeq(c, LAMBDA v : v = c[p]) = p
  BY <1>1, <1>2 DEF SelectInSeq
<1>4. RemoveFirst(c, c[p]) = SubSeq(c, 1, p - 1) \o SubSeq(c, p + 1, Len(c))
  BY <1>3 DEF RemoveFirst, RemoveAt
<1> DEFINE a == SubSeq(c, 1, p - 1)
           b == SubSeq(c, p + 1, Len(c))
<1>5. a \in Seq(S) /\ Len(a) = p - 1 /\ \A j \in 1 .. p - 1 : a[j] = c[j]
  BY SubSeqProperties
<1>6. b \in Seq(S) /\ Len(b) = Len(c) - p /\ \A j \in 1 .. Len(c) - p : b[j] = c[j + p]
  BY SubSeqProperties
<1> HIDE DEF a, b
<1>7. a \o b \in Seq(S) /\ Len(a \o b) = Len(c) - 1
  BY <1>5, <1>6, ConcatProperties
<1>8. \A j \in 1 .. Len(c) - 1 : (a \o b)[j] = IF j < p THEN c[j] ELSE c[j + 1]
  <2>1. a \in Seq(S) /\ b \in Seq(S) /\ Len(a) = p - 1 /\ Len(b) = Len(c) - p
    BY <1>5, <1>6
  <2>2. \A j \in 1 .. Len(a) + Len(b) :
            (a \o b)[j] = IF j <= Len(a) THEN a[j] ELSE b[j - Len(a)]
    BY ONLY <2>1, ConcatProperties
  <2>3. ASSUME NEW j \in 1 .. Len(c) - 1
        PROVE  (a \o b)[j] = IF j < p THEN c[j] ELSE c[j + 1]
    <3>1. j \in 1 .. Len(a) + Len(b) /\ p \in Nat /\ Len(c) \in Nat
      BY <2>1
    <3>2. CASE j < p
      <4>1. j \in 1 .. p - 1 /\ j <= Len(a)
        BY <2>1, <3>1, <3>2
      <4> QED
        BY <1>5, <2>2, <3>1, <3>2, <4>1
    <3>3. CASE ~ (j < p)
      <4>1. /\ j - Len(a) \in 1 .. Len(c) - p /\ ~ (j <= Len(a))
            /\ (j - Len(a)) + p = j + 1
        BY <2>1, <3>1, <3>3
      <4> QED
        BY <1>6, <2>2, <3>1, <3>3, <4>1
    <3> QED
      BY <3>2, <3>3
  <2> QED
    BY <2>3
<1> QED
  BY <1>4, <1>7, <1>8 DEF a, b

LEMMA StillInjective ==
    ASSUME NEW S, NEW c \in Seq(S), IsInjective(c), NEW p \in 1 .. Len(c)
    PROVE  IsInjective(RemoveFirst(c, c[p]))
<1> DEFINE r == RemoveFirst(c, c[p])
<1>1. /\ r \in Seq(S) /\ Len(r) = Len(c) - 1
      /\ \A j \in 1 .. Len(c) - 1 : r[j] = IF j < p THEN c[j] ELSE c[j + 1]
  BY Unregistered
<1> HIDE DEF r
<1>2. ASSUME NEW i \in 1 .. Len(c) - 1, NEW j \in 1 .. Len(c) - 1, r[i] = r[j]
      PROVE  i = j
  <2> DEFINE k(n) == IF n < p THEN n ELSE n + 1
  <2>1. k(i) \in 1 .. Len(c) /\ k(j) \in 1 .. Len(c) /\ c[k(i)] = c[k(j)]
    <3>1. i \in 1 .. Len(c) - 1 /\ j \in 1 .. Len(c) - 1 /\ p \in 1 .. Len(c) /\ Len(c) \in Nat
      OBVIOUS
    <3>2. k(i) \in 1 .. Len(c) /\ k(j) \in 1 .. Len(c)
      BY ONLY <3>1
    <3>3. r[i] = c[k(i)] /\ r[j] = c[k(j)]
      BY <1>1
    <3> QED
      BY <1>2, <3>2, <3>3
  <2>2. k(i) = k(j)
    BY <2>1 DEF IsInjective
  <2> QED
    BY <2>2
<1> QED
  BY <1>1, <1>2 DEF r, IsInjective

\* What a sequence that is nowhere the same holds when one is put in front or taken away.
LEMMA InjectivePushed ==
    ASSUME NEW S, NEW c \in Seq(S), IsInjective(c), NEW x \in S, x \notin ToSet(c)
    PROVE  IsInjective(<<x>> \o c)
<1>1. \A i \in 1 .. Len(c) : c[i] # x
  BY DEF ToSet
<1> DEFINE r == <<x>> \o c
<1>2. /\ r \in Seq(S) /\ Len(r) = Len(c) + 1 /\ Len(c) \in Nat /\ r[1] = x
      /\ \A i \in 2 .. Len(c) + 1 : r[i] = c[i - 1]
  BY Pushed
<1> HIDE DEF r
<1>3. ASSUME NEW i \in 1 .. Len(r), NEW j \in 1 .. Len(r), r[i] = r[j]
      PROVE  i = j
  <2>1. CASE i = 1 \/ j = 1
    <3>1. ASSUME NEW k \in 2 .. Len(r) PROVE r[k] # x
      <4>1. k - 1 \in 1 .. Len(c) /\ r[k] = c[k - 1]
        BY <1>2
      <4> QED
        BY <1>1, <4>1
    <3>2. i = 1 => j = 1
      BY <1>2, <1>3, <3>1
    <3>3. j = 1 => i = 1
      BY <1>2, <1>3, <3>1
    <3> QED
      BY <2>1, <3>2, <3>3
  <2>2. CASE i # 1 /\ j # 1
    <3>1. i - 1 \in 1 .. Len(c) /\ j - 1 \in 1 .. Len(c) /\ c[i - 1] = c[j - 1]
      BY <1>2, <1>3, <2>2
    <3>2. i - 1 = j - 1
      BY <3>1 DEF IsInjective
    <3> QED
      BY <3>2
  <2> QED
    BY <2>1, <2>2
<1> QED
  BY <1>2, <1>3 DEF r, IsInjective

LEMMA InjectivePopped ==
    ASSUME NEW S, NEW c \in Seq(S), IsInjective(c), c # <<>>
    PROVE  IsInjective(Tail(c))
<1>1. /\ Tail(c) \in Seq(S) /\ Len(c) \in Nat /\ Len(Tail(c)) = Len(c) - 1
      /\ \A i \in 1 .. Len(c) - 1 : Tail(c)[i] = c[i + 1]
  BY Popped
<1>2. ASSUME NEW i \in 1 .. Len(c) - 1, NEW j \in 1 .. Len(c) - 1, Tail(c)[i] = Tail(c)[j]
      PROVE  i = j
  <2>1. c[i + 1] = c[j + 1] /\ i + 1 \in 1 .. Len(c) /\ j + 1 \in 1 .. Len(c)
    BY <1>1, <1>2
  <2>2. i + 1 = j + 1
    BY <2>1 DEF IsInjective
  <2> QED
    BY <2>2
<1> QED
  BY <1>1, <1>2 DEF IsInjective

(***************************************************************************)
(* Frames.                                                                 *)
(***************************************************************************)

LEMMA FrameFields ==
    \A f \in Frame :
        /\ f.kind = "close" =>
               /\ f.of \in Services /\ f.at \in {"begun", "asked", "released"}
               /\ \A a \in {"begun", "asked", "released"} :
                      /\ [f EXCEPT !.at = a] \in Frame /\ [f EXCEPT !.at = a].kind = "close"
                      /\ [f EXCEPT !.at = a].of = f.of /\ [f EXCEPT !.at = a].at = a
        /\ f.kind = "signal" => f.of \in Seq(Services)
  BY DEF Frame, Exiting

LEMMA Moved ==
    ASSUME NEW f \in Frame, f.kind = "close", NEW a \in {"begun", "asked", "released"}
    PROVE  /\ [f EXCEPT !.at = a] \in Frame /\ [f EXCEPT !.at = a].kind = "close"
           /\ [f EXCEPT !.at = a].of = f.of /\ [f EXCEPT !.at = a].at = a
  BY DEF Frame, Exiting

LEMMA CloseFields == \A f \in Frame : f.kind = "close" => f.of \in Services
  BY FrameFields

LEMMA FramesMade ==
    /\ \A v \in Services : /\ Close(v) \in Frame /\ Close(v).kind = "close"
                           /\ Close(v).of = v /\ Close(v).at = "begun"
    /\ \A c \in Seq(Services) : Handling(c) \in Frame /\ Handling(c).kind = "signal"
                                /\ Handling(c).of = c
    /\ Exiting \in Frame /\ Exiting.kind = "exit"
  BY DEF Frame, Close, Handling, Exiting

States == Sleeping \cup {"none", "booting", "exited", "lost", "killed"}

LEMMA TypedProcesses ==
    TypeOK => /\ wrapper \in [Servers -> States] /\ timer \in [Servers -> Nat]
              /\ owner \in [Servers -> Services \cup {NoService}]
  BY DEF TypeOK, ProcessTypeOK, States

LEMMA TypedFrames == TypeOK => frames \in Seq(Frame)
  BY DEF TypeOK

LEMMA WellPushed ==
    ASSUME NEW C, NEW h, NEW q \in Seq(Frame), NEW x \in Frame, Well(q, C, h),
           x.kind = "close" => /\ x.of \in C /\ (x.at = "released" => h[x.of] = NoServer)
                               /\ q = <<>> \/ Head(q).kind # "close"
    PROVE  Well(<<x>> \o q, C, h)
<1> DEFINE r == <<x>> \o q
<1>1. /\ Len(q) \in Nat /\ Len(r) = Len(q) + 1 /\ r[1] = x
      /\ \A i \in 2 .. Len(q) + 1 : r[i] = q[i - 1]
  BY Pushed
<1>2. q # <<>> => Head(q) = q[1]
  OBVIOUS
<1> HIDE DEF r
<1>3. ASSUME NEW i \in 1 .. Len(r), r[i].kind = "close"
      PROVE  /\ r[i].of \in C /\ (r[i].at = "released" => h[r[i].of] = NoServer)
             /\ i + 1 \in 1 .. Len(r) => r[i + 1].kind # "close"
  <2>1. CASE i = 1
    BY <1>1, <1>2, <1>3, <2>1
  <2>2. CASE i # 1
    <3>1. i - 1 \in 1 .. Len(q) /\ r[i] = q[i - 1]
      BY <1>1, <2>2
    <3>2. i + 1 \in 1 .. Len(r) => (i - 1) + 1 \in 1 .. Len(q) /\ r[i + 1] = q[(i - 1) + 1]
      BY <1>1, <2>2
    <3> QED
      BY <1>3, <3>1, <3>2 DEF Well
  <2> QED
    BY <2>1, <2>2
<1> QED
  BY <1>3 DEF Well, r

LEMMA WellPopped ==
    ASSUME NEW C, NEW h, NEW q \in Seq(Frame), q # <<>>, Well(q, C, h)
    PROVE  /\ Well(Tail(q), C, h)
           /\ Head(q).kind = "close" => /\ Head(q).of \in C
                                        /\ Head(q).at = "released" => h[Head(q).of] = NoServer
                                        /\ Tail(q) # <<>> => Head(Tail(q)).kind # "close"
<1>1. /\ Len(q) \in Nat /\ Len(q) >= 1 /\ Len(Tail(q)) = Len(q) - 1 /\ Head(q) = q[1]
      /\ \A i \in 1 .. Len(q) - 1 : Tail(q)[i] = q[i + 1]
  BY Popped
<1>2. Tail(q) # <<>> => Head(Tail(q)) = q[2] /\ 2 \in 1 .. Len(q)
  OBVIOUS
<1>3. ASSUME NEW i \in 1 .. Len(Tail(q)), Tail(q)[i].kind = "close"
      PROVE  /\ Tail(q)[i].of \in C
             /\ Tail(q)[i].at = "released" => h[Tail(q)[i].of] = NoServer
             /\ i + 1 \in 1 .. Len(Tail(q)) => Tail(q)[i + 1].kind # "close"
  <2>1. i + 1 \in 1 .. Len(q) /\ Tail(q)[i] = q[i + 1]
    BY <1>1
  <2>2. i + 1 \in 1 .. Len(Tail(q)) => (i + 1) + 1 \in 1 .. Len(q)
                                       /\ Tail(q)[i + 1] = q[(i + 1) + 1]
    BY <1>1
  <2> QED
    BY <1>3, <2>1, <2>2 DEF Well
<1>4. Well(Tail(q), C, h)
  BY <1>3 DEF Well
<1>5. 1 \in 1 .. Len(q) /\ 1 + 1 = 2
  BY <1>1
<1> QED
  BY <1>1, <1>2, <1>4, <1>5 DEF Well

LEMMA WellKept ==
    ASSUME NEW C, NEW D, NEW h, NEW g, NEW q, Well(q, C, h), C \subseteq D,
           \A v \in C : h[v] = NoServer => g[v] = NoServer
    PROVE  Well(q, D, g)
  BY DEF Well

LEMMA WellEmpty == \A C, h : Well(<<>>, C, h)
  BY DEF Well

LEMMA UnderPushed ==
    ASSUME NEW q \in Seq(Frame), NEW x \in Frame
    PROVE  \A v : Under(<<x>> \o q, v) <=> (x.kind = "close" /\ x.of = v) \/ Under(q, v)
<1> SUFFICES ASSUME NEW v
             PROVE  Under(<<x>> \o q, v) <=> (x.kind = "close" /\ x.of = v) \/ Under(q, v)
  OBVIOUS
<1> DEFINE r == <<x>> \o q
<1>1. /\ Len(q) \in Nat /\ Len(r) = Len(q) + 1 /\ r[1] = x
      /\ \A i \in 2 .. Len(q) + 1 : r[i] = q[i - 1] /\ i - 1 \in 1 .. Len(q)
      /\ \A i \in 1 .. Len(q) : r[i + 1] = q[i] /\ i + 1 \in 1 .. Len(r)
  BY Pushed
<1> HIDE DEF r
<1>2. Under(q, v) => Under(r, v)
  BY <1>1 DEF Under
<1>3. x.kind = "close" /\ x.of = v => Under(r, v)
  BY <1>1 DEF Under
<1>4. Under(r, v) => (x.kind = "close" /\ x.of = v) \/ Under(q, v)
  <2> SUFFICES ASSUME NEW i \in 1 .. Len(r), r[i].kind = "close", r[i].of = v
               PROVE  (x.kind = "close" /\ x.of = v) \/ Under(q, v)
    BY DEF Under
  <2>1. i = 1 \/ i \in 2 .. Len(q) + 1
    BY <1>1
  <2> QED
    BY <1>1, <2>1 DEF Under
<1> QED
  BY <1>2, <1>3, <1>4 DEF r

LEMMA UnderPopped ==
    ASSUME NEW q \in Seq(Frame), q # <<>>
    PROVE  \A v : Under(q, v) <=> (Head(q).kind = "close" /\ Head(q).of = v) \/ Under(Tail(q), v)
<1>1. Head(q) \in Frame /\ Tail(q) \in Seq(Frame) /\ q = <<Head(q)>> \o Tail(q)
  OBVIOUS
<1> QED
  BY <1>1, UnderPushed

LEMMA UnderNothing == \A v : ~ Under(<<>>, v)
  BY DEF Under

LEMMA ExitPushed ==
    ASSUME NEW q \in Seq(Frame), NEW x \in Frame
    PROVE  ExitIn(<<x>> \o q) <=> x.kind = "exit" \/ ExitIn(q)
<1> DEFINE r == <<x>> \o q
<1>1. /\ Len(q) \in Nat /\ Len(r) = Len(q) + 1 /\ r[1] = x
      /\ \A i \in 2 .. Len(q) + 1 : r[i] = q[i - 1] /\ i - 1 \in 1 .. Len(q)
      /\ \A i \in 1 .. Len(q) : r[i + 1] = q[i] /\ i + 1 \in 1 .. Len(r)
  BY Pushed
<1> HIDE DEF r
<1>2. ExitIn(q) => ExitIn(r)
  BY <1>1 DEF ExitIn
<1>3. x.kind = "exit" => ExitIn(r)
  BY <1>1 DEF ExitIn
<1>4. ExitIn(r) => x.kind = "exit" \/ ExitIn(q)
  <2> SUFFICES ASSUME NEW i \in 1 .. Len(r), r[i].kind = "exit"
               PROVE  x.kind = "exit" \/ ExitIn(q)
    BY DEF ExitIn
  <2>1. i = 1 \/ i \in 2 .. Len(q) + 1
    BY <1>1
  <2> QED
    BY <1>1, <2>1 DEF ExitIn
<1> QED
  BY <1>2, <1>3, <1>4 DEF r

LEMMA ExitPopped ==
    ASSUME NEW q \in Seq(Frame), q # <<>>
    PROVE  ExitIn(q) <=> Head(q).kind = "exit" \/ ExitIn(Tail(q))
<1>1. Head(q) \in Frame /\ Tail(q) \in Seq(Frame) /\ q = <<Head(q)>> \o Tail(q)
  OBVIOUS
<1> QED
  BY <1>1, ExitPushed

\* A call of close() leaves the exit where it is.
LEMMA ExitCalled ==
    ASSUME NEW v \in Services, NEW below \in Seq(Frame), CallClose(v, below)
    PROVE  ExitIn(below) => ExitIn(frames')
<1>1. PICK x : x = Close(v)
  OBVIOUS
<1>2. x \in Frame /\ (frames' = below \/ frames' = <<x>> \o below)
  BY <1>1, FramesMade DEF CallClose
<1> QED
  BY <1>2, ExitPushed

\* A service whose handlers are installed on top keeps the chain.
LEMMA LinkedPushed ==
    ASSUME NEW c \in Seq(Services), NEW v \in Services, v \notin ToSet(c),
           NEW f \in [Services -> Seq(Services)], Linked(c, c, f)
    PROVE  Linked(<<v>> \o c, <<v>> \o c, [f EXCEPT ![v] = c])
<1> DEFINE r == <<v>> \o c
           g == [f EXCEPT ![v] = c]
<1>1. /\ Len(c) \in Nat /\ Len(r) = Len(c) + 1 /\ r[1] = v
      /\ \A i \in 1 .. Len(c) : r[i + 1] = c[i]
      /\ \A i \in 2 .. Len(c) + 1 : r[i] = c[i - 1]
  <2>1. /\ Len(c) \in Nat /\ Len(<<v>> \o c) = Len(c) + 1 /\ (<<v>> \o c)[1] = v
        /\ \A i \in 1 .. Len(c) : (<<v>> \o c)[i + 1] = c[i]
        /\ \A i \in 2 .. Len(c) + 1 : (<<v>> \o c)[i] = c[i - 1]
    BY ONLY Pushed, c \in Seq(Services), v \in Services
  <2> QED
    BY <2>1
<1>2. g[v] = c
  OBVIOUS
<1>3. \A i \in 1 .. Len(c) : c[i] # v /\ c[i] \in Services /\ g[c[i]] = f[c[i]]
  BY DEF ToSet
<1> HIDE DEF r, g
<1>4. ASSUME NEW i \in 1 .. Len(r)
      PROVE  /\ Len(g[r[i]]) = Len(r) - i
             /\ \A j \in 1 .. Len(r) - i : g[r[i]][j] = r[i + j]
  <2>1. CASE i = 1
    <3>1. \A j \in 1 .. Len(c) : r[1 + j] = c[j]
      BY <1>1
    <3> QED
      BY <1>1, <1>2, <2>1, <3>1
  <2>2. CASE i # 1
    <3>1. i - 1 \in 1 .. Len(c) /\ r[i] = c[i - 1] /\ Len(r) - i = Len(c) - (i - 1)
      <4>1. i \in 2 .. Len(c) + 1 /\ Len(c) \in Nat
        BY <1>1, <2>2
      <4> QED
        <5>1. i \in Nat /\ r[i] = c[i - 1] /\ Len(r) = Len(c) + 1
          BY <1>1, <4>1
        <5> QED
          BY ONLY <4>1, <5>1
    <3>2. g[r[i]] = f[c[i - 1]]
      BY <1>3, <3>1
    <3>3. /\ Len(f[c[i - 1]]) = Len(c) - (i - 1)
          /\ \A j \in 1 .. Len(c) - (i - 1) : f[c[i - 1]][j] = c[(i - 1) + j]
      BY <3>1 DEF Linked
    <3>4. \A j \in 1 .. Len(c) - (i - 1) : c[(i - 1) + j] = r[i + j]
      BY <1>1, <3>1
    <3> QED
      BY <3>1, <3>2, <3>3, <3>4
  <2> QED
    BY <2>1, <2>2
<1>5. Linked(r, r, g)
  BY <1>4 DEF Linked
<1> QED
  BY <1>5 DEF r, g

\* The one on top puts back what it found: the handlers of the rest.
LEMMA LinkedPopped ==
    ASSUME NEW c \in Seq(Services), IsInjective(c), c # <<>>,
           NEW f \in [Services -> Seq(Services)], Linked(c, c, f)
    PROVE  Linked(RemoveFirst(c, c[1]), f[c[1]], f)
<1> DEFINE r == RemoveFirst(c, c[1])
<1>1. Len(c) \in Nat /\ 1 \in 1 .. Len(c) /\ c[1] \in Services
  OBVIOUS
<1>2. /\ r \in Seq(Services) /\ Len(r) = Len(c) - 1
      /\ \A j \in 1 .. Len(c) - 1 : r[j] = IF j < 1 THEN c[j] ELSE c[j + 1]
  BY <1>1, Unregistered
<1> HIDE DEF r
<1>3. \A j \in 1 .. Len(c) - 1 : r[j] = c[j + 1]
  BY <1>1, <1>2
<1>4. f[c[1]] \in Seq(Services) /\ Len(f[c[1]]) = Len(c) - 1
      /\ \A j \in 1 .. Len(c) - 1 : f[c[1]][j] = c[1 + j]
  BY <1>1 DEF Linked
<1>5. f[c[1]] = r
  <2>1. PICK q : q = f[c[1]]
    OBVIOUS
  <2>2. q \in Seq(Services) /\ Len(q) = Len(r)
    BY <1>2, <1>4, <2>1
  <2>3. \A j \in 1 .. Len(q) : q[j] = r[j]
    <3>1. \A j \in 1 .. Len(c) - 1 : q[j] = c[1 + j] /\ c[1 + j] = c[j + 1]
      BY <1>1, <1>4, <2>1
    <3> QED
      BY <1>2, <1>3, <2>2, <3>1
  <2>4. q = r
    BY <1>2, <2>2, <2>3, SeqEqual
  <2> QED
    BY <2>1, <2>4
<1>6. ASSUME NEW i \in 1 .. Len(r)
      PROVE  /\ Len(f[r[i]]) = Len(r) - i
             /\ \A j \in 1 .. Len(r) - i : f[r[i]][j] = r[i + j]
  <2>1. i + 1 \in 1 .. Len(c) /\ r[i] = c[i + 1] /\ Len(r) - i = Len(c) - (i + 1)
    BY <1>1, <1>2, <1>3
  <2>2. /\ Len(f[c[i + 1]]) = Len(c) - (i + 1)
        /\ \A j \in 1 .. Len(c) - (i + 1) : f[c[i + 1]][j] = c[(i + 1) + j]
    BY <2>1 DEF Linked
  <2>3. ASSUME NEW j \in 1 .. Len(c) - (i + 1)
        PROVE  c[(i + 1) + j] = r[i + j]
    <3>1. i \in Nat /\ j \in Nat /\ i + j \in 1 .. Len(c) - 1
      BY <1>1, <1>2, <2>1
    <3>2. r[i + j] = c[(i + j) + 1]
      BY <1>3, <3>1
    <3>3. (i + j) + 1 = (i + 1) + j
      BY <3>1
    <3> QED
      BY <3>2, <3>3
  <2> QED
    BY <2>1, <2>2, <2>3
<1> QED
  BY <1>5, <1>6 DEF Linked, r

\* restore_parent_cleanup keeps the chain, unless a newer service is still there.
LEMMA LinkedRestored ==
    ASSUME TypeOK, NEW v \in Services, Restore(v), saved' = saved, ~disordered',
           Linked(callbacks, handler, saved)
    PROVE  Linked(callbacks', handler', saved')
<1>1. /\ callbacks \in Seq(Services) /\ IsInjective(callbacks)
      /\ saved \in [Services -> Seq(Services)]
  BY DEF TypeOK
<1>2. CASE v \notin ToSet(callbacks)
  BY <1>2 DEF Restore
<1>3. CASE v \in ToSet(callbacks)
  <2>1. /\ handler' = saved[v] /\ callbacks' = RemoveFirst(callbacks, v)
        /\ callbacks[1] = v
    BY <1>3 DEF Restore
  <2>2. callbacks # <<>>
    BY <1>3 DEF ToSet
  <2>3. Linked(callbacks, callbacks, saved)
    BY DEF Linked
  <2>4. Linked(RemoveFirst(callbacks, callbacks[1]), saved[callbacks[1]], saved)
    BY <1>1, <2>2, <2>3, LinkedPopped
  <2> QED
    BY <2>1, <2>4
<1> QED
  BY <1>2, <1>3

LEMMA CallCloseTyped ==
    ASSUME TypeOK, NEW v \in Services, NEW below \in Seq(Frame), CallClose(v, below)
    PROVE  /\ frames' \in Seq(Frame) /\ closing' = closing \cup {v}
           /\ watched' \in [Services -> Servers \cup {NoServer}]
           /\ \/ frames' = below /\ v \in closing
              \/ frames' = <<Close(v)>> \o below
<1>1. Close(v) \in Frame
  BY FramesMade
<1>2. <<Close(v)>> \o below \in Seq(Frame)
  BY <1>1, Pushed
<1>3. watched \in [Services -> Servers \cup {NoServer}]
  BY DEF TypeOK
<1> QED
  BY <1>2, <1>3 DEF CallClose

LEMMA Times == Poll \in Nat /\ Grace \in Nat /\ Sweep \in Nat /\ CloseTimeout \in Nat
               /\ MaxSignals \in Nat /\ CloseTimeout > Poll + Grace + Sweep
  BY TimesAssumption, ServicesAssumption, PatienceAssumption

LEMMA RestoreTyped ==
    ASSUME TypeOK, NEW v \in Services, Restore(v)
    PROVE  /\ handler' \in Seq(Services) /\ callbacks' \in Seq(Services)
           /\ IsInjective(callbacks') /\ disordered' \in BOOLEAN
<1>1. /\ handler \in Seq(Services) /\ saved \in [Services -> Seq(Services)]
      /\ callbacks \in Seq(Services) /\ IsInjective(callbacks) /\ disordered \in BOOLEAN
  BY DEF TypeOK
<1>2. CASE v \notin ToSet(callbacks)
  BY <1>1, <1>2 DEF Restore
<1>3. CASE v \in ToSet(callbacks)
  <2>1. PICK p \in 1 .. Len(callbacks) : callbacks[p] = v
    BY <1>1, <1>3 DEF ToSet
  <2>2. /\ RemoveFirst(callbacks, v) \in Seq(Services)
        /\ IsInjective(RemoveFirst(callbacks, v))
    BY <1>1, <2>1, Unregistered, StillInjective
  <2> QED
    BY <1>1, <1>3, <2>2 DEF Restore
<1> QED
  BY <1>2, <1>3

(***************************************************************************)
(* What a step does to the frames.                                         *)
(***************************************************************************)

\* close() is called of a service by what is below.
LEMMA Called ==
    ASSUME TypeOK, NEW v \in Services, NEW below \in Seq(Frame), CallClose(v, below),
           Well(below, closing, current), below = <<>> \/ Head(below).kind # "close"
    PROVE  /\ \A D : closing' = D => Well(frames', D, current)
           /\ \A u : Under(below, u) => Under(frames', u)
           /\ v \in closing \/ Under(frames', v)
           /\ closing' = closing \cup {v}
           /\ frames' = <<>> \/ Head(frames').kind # "close" \/ Head(frames').at # "asked"
<1>1. CASE v \in closing
  BY <1>1 DEF CallClose
<1>2. CASE v \notin closing
  <2>1. /\ Close(v) \in Frame /\ Close(v).kind = "close" /\ Close(v).of = v
        /\ Close(v).at = "begun"
    BY FramesMade
  <2>2. frames' = <<Close(v)>> \o below /\ closing' = closing \cup {v}
    BY <1>2 DEF CallClose
  <2>3. Well(below, closing', current)
    BY <2>2, WellKept
  <2>4. Well(frames', closing', current)
    BY <2>1, <2>2, <2>3, WellPushed
  <2>5. Head(frames') = Close(v)
    BY <2>1, <2>2, Pushed
  <2>6. \A u : Under(frames', u) <=> u = v \/ Under(below, u)
    BY <2>1, <2>2, UnderPushed
  <2> QED
    BY <2>1, <2>2, <2>4, <2>5, <2>6
<1> QED
  BY <1>1, <1>2

LEMMA OnTop ==
    ASSUME TypeOK, frames # <<>>
    PROVE  /\ frames \in Seq(Frame) /\ Head(frames) \in Frame /\ Rest \in Seq(Frame)
           /\ Frames => Well(Rest, closing, current)
           /\ \A v : Under(frames, v)
                         <=> (Head(frames).kind = "close" /\ Head(frames).of = v) \/ Under(Rest, v)
  BY TypedFrames, Popped, WellPopped, UnderPopped DEF Rest, Frames

LEMMA WellExiting ==
    /\ \A C, h : Well(<<Exiting>>, C, h)
    /\ \A v : ~ Under(<<Exiting>>, v)
  BY DEF Well, Under, Exiting

LEMMA NotAsked ==
    frames' = <<>> \/ Head(frames').kind # "close" \/ Head(frames').at # "asked" => Waiting'
  BY DEF Waiting, Top

LEMMA TopMoved ==
    ASSUME TypeOK, frames # <<>>, Head(frames).kind = "close",
           NEW a \in {"begun", "asked", "released"},
           frames' = <<[Head(frames) EXCEPT !.at = a]>> \o Rest
    PROVE  \A v : Under(frames', v) <=> Under(frames, v)
<1> DEFINE x == [Head(frames) EXCEPT !.at = a]
<1>1. Head(frames) \in Frame /\ Rest \in Seq(Frame)
  BY OnTop
<1>2. x \in Frame /\ x.kind = "close" /\ x.of = Head(frames).of
  BY <1>1, Moved
<1> HIDE DEF x
<1>3. \A v : Under(<<x>> \o Rest, v) <=> (x.kind = "close" /\ x.of = v) \/ Under(Rest, v)
  BY <1>1, <1>2, UnderPushed
<1> QED
  BY <1>2, <1>3, OnTop DEF x

LEMMA TypeOKStep == TypeOK /\ Frames /\ [Next]_vars => TypeOK'
<1> SUFFICES ASSUME TypeOK /\ Frames, [Next]_vars PROVE TypeOK'
  OBVIOUS
<1> USE DEF processVars, wrapperVars, serviceVars, signalVars, backendVars, historyVars,
   NotClosed, NotProcesses
<1>1. CASE Tick
  <2>1. /\ \A s \in Servers : wrapper[s] \in Sleeping => timer[s] > 0
        /\ timer' = [s \in Servers |-> IF wrapper[s] \in Sleeping THEN timer[s] - 1 ELSE 0]
        /\ timer \in [Servers -> Nat]
    BY <1>1 DEF Tick, Passes, TypeOK, ProcessTypeOK
  <2>2. timer' \in [Servers -> Nat]
    BY <2>1
  <2>3. patience' \in 0 .. CloseTimeout
    BY <1>1, Times DEF Tick, TypeOK
  <2> QED
    BY <1>1, <2>2, <2>3 DEF Tick, Passes, TypeOK, ProcessTypeOK
<1>2. ASSUME NEW s \in Servers, ProcessStep(s) PROVE TypeOK'
  <2>1. wrapper' \in [Servers -> Sleeping \cup {"none", "booting", "exited", "lost", "killed"}]
    BY <1>2 DEF ProcessStep, Wrapper, Boot, PollLoop, GraceEnds, SweepEnds, LeaderExits,
                HelpersExit, WrapperLost, Goes, TypeOK, ProcessTypeOK, Sleeping
  <2>2. timer' \in [Servers -> Nat]
    <3>1. UNCHANGED timer
             \/ \E t \in {0, Poll, Grace, Sweep} : timer' = [timer EXCEPT ![s] = t]
      BY <1>2 DEF ProcessStep, Wrapper, Boot, PollLoop, GraceEnds, SweepEnds, LeaderExits,
                  HelpersExit, WrapperLost, Goes
    <3>2. timer \in [Servers -> Nat]
      BY DEF TypeOK, ProcessTypeOK
    <3> QED
      BY <3>1, <3>2, Times
  <2>3. leader' \subseteq Servers /\ helpers' \subseteq Servers /\ UNCHANGED <<parent, asked>>
    BY <1>2 DEF ProcessStep, Wrapper, Boot, PollLoop, GraceEnds, SweepEnds, LeaderExits,
                HelpersExit, WrapperLost, TypeOK, ProcessTypeOK
  <2>4. UNCHANGED <<NotProcesses, patience>>
    BY <1>2 DEF ProcessStep
  <2>5. ProcessTypeOK'
    BY <2>1, <2>2, <2>3 DEF TypeOK, ProcessTypeOK
  <2> QED
    BY <2>4, <2>5 DEF TypeOK
<1>3. ASSUME NEW v \in Services, NEW s \in Servers, Start(v, s) PROVE TypeOK'
  <2>1. /\ wrapper' = [wrapper EXCEPT ![s] = "booting"] /\ timer' = [timer EXCEPT ![s] = 0]
        /\ owner' = [owner EXCEPT ![s] = v] /\ current' = [current EXCEPT ![v] = s]
        /\ phase' = [phase EXCEPT ![v] = "starting"]
        /\ doubled' \subseteq doubled \cup {v} /\ revived' \subseteq revived \cup ({v} \cap closing)
        /\ UNCHANGED <<parent, asked, leader, helpers, watched, failed, closing, frames,
                       patience, backend, toClose, signals, cut, disordered>>
    BY <1>3 DEF Start, Goes
  <2>2. /\ handler \in Seq(Services) /\ saved \in [Services -> Seq(Services)]
        /\ callbacks \in Seq(Services) /\ IsInjective(callbacks)
    BY DEF TypeOK
  <2>3. /\ handler' \in Seq(Services) /\ saved' \in [Services -> Seq(Services)]
        /\ callbacks' \in Seq(Services) /\ IsInjective(callbacks')
    <3>1. CASE UNCHANGED <<handler, saved, callbacks>>
      BY <2>2, <3>1
    <3>2. CASE /\ v \notin ToSet(callbacks)
               /\ callbacks' = <<v>> \o callbacks /\ saved' = [saved EXCEPT ![v] = handler]
               /\ handler' = <<v>> \o handler
      BY <2>2, <3>2, Pushed, InjectivePushed
    <3> QED
      BY <1>3, <3>1, <3>2 DEF Start, InstallParentCleanup
  <2>4. /\ wrapper' \in [Servers -> Sleeping \cup {"none", "booting", "exited", "lost", "killed"}]
        /\ timer' \in [Servers -> Nat]
    <3>1. /\ wrapper \in [Servers -> Sleeping \cup {"none", "booting", "exited", "lost", "killed"}]
          /\ timer \in [Servers -> Nat]
      BY DEF TypeOK, ProcessTypeOK
    <3> QED
      BY <2>1, <3>1
  <2>5. /\ owner' \in [Servers -> Services \cup {NoService}]
        /\ current' \in [Services -> Servers \cup {NoServer}]
        /\ phase' \in [Services -> {"idle", "starting", "up"}]
    <3>1. /\ owner \in [Servers -> Services \cup {NoService}]
          /\ current \in [Services -> Servers \cup {NoServer}]
          /\ phase \in [Services -> {"idle", "starting", "up"}]
      BY DEF TypeOK, ProcessTypeOK
    <3> QED
      BY <2>1, <3>1
  <2>6. ProcessTypeOK'
    BY <2>1, <2>4 DEF TypeOK, ProcessTypeOK
  <2> QED
    BY <2>1, <2>3, <2>5, <2>6 DEF TypeOK
<1>4. ASSUME NEW v \in Services, Ready(v) PROVE TypeOK'
  BY <1>4 DEF Ready, TypeOK, ProcessTypeOK
<1>5. ASSUME NEW v \in Services, StartCancelled(v) PROVE TypeOK'
  BY <1>5 DEF StartCancelled, TypeOK, ProcessTypeOK
<1>6. ASSUME NEW v \in Services, Fails(v) PROVE TypeOK'
  <2>1. v \in Services /\ frames \in Seq(Frame)
    BY <1>6 DEF Fails, TypeOK
  <2>2. /\ frames' \in Seq(Frame) /\ closing' = closing \cup {v}
        /\ watched' \in [Services -> Servers \cup {NoServer}]
    BY <1>6, <2>1, CallCloseTyped DEF Fails
  <2> QED
    BY <1>6, <2>1, <2>2 DEF Fails, TypeOK, ProcessTypeOK
<1>7. ASSUME NEW v \in Services, WatchExit(v) PROVE TypeOK'
  <2>1. CASE v \in closing
    BY <1>7, <2>1 DEF WatchExit, TypeOK, ProcessTypeOK
  <2>2. CASE v \notin closing
    <3>1. /\ frames' \in Seq(Frame) /\ closing' = closing \cup {v}
          /\ watched' \in [Services -> Servers \cup {NoServer}]
      BY <1>7, <2>2, TypedFrames, CallCloseTyped DEF WatchExit
    <3> QED
      BY <1>7, <2>2, <3>1 DEF WatchExit, TypeOK, ProcessTypeOK
  <2> QED
    BY <2>1, <2>2
<1>8. CASE CloseAsks
  <2>1. frames \in Seq(Frame) /\ frames # <<>> /\ Head(frames) \in Frame /\ Rest \in Seq(Frame)
        /\ Head(frames).kind = "close"
    BY <1>8, TypedFrames, Popped DEF CloseAsks, Top, Rest
  <2>2. frames' \in Seq(Frame)
    BY <1>8, <2>1, FrameFields, Pushed DEF CloseAsks
  <2>3. asked' \subseteq Servers
    <3>1. current \in [Services -> Servers \cup {NoServer}] /\ asked \subseteq Servers
      BY DEF TypeOK, ProcessTypeOK
    <3>2. current[Head(frames).of] \in Servers \cup {NoServer}
      BY <2>1, <3>1, CloseFields
    <3> QED
      BY <1>8, <3>1, <3>2 DEF CloseAsks
  <2> QED
    <3>1. patience' = CloseTimeout /\ UNCHANGED <<parent, wrapperVars, serviceVars, closing,
             signalVars, backendVars, signals, historyVars>>
      BY <1>8 DEF CloseAsks
    <3>2. ProcessTypeOK'
      BY <2>3, <3>1 DEF TypeOK, ProcessTypeOK
    <3>3. patience' \in 0 .. CloseTimeout
      BY <3>1, Times
    <3> QED
      BY <2>2, <3>1, <3>2, <3>3 DEF TypeOK
<1>9. CASE CloseReleases
  <2>1. frames \in Seq(Frame) /\ frames # <<>> /\ Head(frames) \in Frame /\ Rest \in Seq(Frame)
        /\ Head(frames).kind = "close"
    BY <1>9, TypedFrames, Popped DEF CloseReleases, Top, Rest
  <2>2. frames' \in Seq(Frame)
    BY <1>9, <2>1, FrameFields, Pushed DEF CloseReleases
  <2> QED
    BY <1>9, <2>1, <2>2 DEF CloseReleases, TypeOK, ProcessTypeOK
<1>10. CASE CloseKills
  <2>1. PICK s : wrapper' = [wrapper EXCEPT ![s] = "killed"] /\ timer' = [timer EXCEPT ![s] = 0]
    BY <1>10 DEF CloseKills, Goes
  <2>2. /\ wrapper' \in [Servers -> Sleeping \cup {"none", "booting", "exited", "lost", "killed"}]
        /\ timer' \in [Servers -> Nat]
    BY <2>1 DEF TypeOK, ProcessTypeOK
  <2> QED
    BY <1>10, <2>2 DEF CloseKills, TypeOK, ProcessTypeOK
<1>11. CASE CloseReturns
  <2>1. frames \in Seq(Frame) /\ frames # <<>> /\ Head(frames) \in Frame /\ Rest \in Seq(Frame)
        /\ Head(frames).kind = "close"
    BY <1>11, TypedFrames, Popped DEF CloseReturns, Top, Rest
  <2>2. Head(frames).of \in Services
    BY <2>1, FrameFields
  <2>3. /\ handler' \in Seq(Services) /\ callbacks' \in Seq(Services)
        /\ IsInjective(callbacks') /\ disordered' \in BOOLEAN
    BY <1>11, <2>2, RestoreTyped DEF CloseReturns
  <2> QED
    BY <1>11, <2>1, <2>3 DEF CloseReturns, TypeOK, ProcessTypeOK
<1>12. ASSUME NEW order \in SetToSeqs(Started), BackendCloses(order) PROVE TypeOK'
  <2>1. Started \subseteq Services /\ IsFiniteSet(Started)
    BY ServicesAssumption, FS_Subset DEF Started
  <2>2. Cardinality(Started) \in Nat
    BY <2>1, FS_CardinalityType
  <2>3. order \in [1 .. Cardinality(Started) -> Started]
    BY DEF SetToSeqs
  <2>4. order \in Seq(Services)
    BY <2>1, <2>2, <2>3
  <2> QED
    BY <1>12, <2>4 DEF BackendCloses, TypeOK, ProcessTypeOK
<1>13. CASE BackendClosesNext
  <2>1. /\ Head(toClose) \in Services /\ Tail(toClose) \in Seq(Services) /\ frames \in Seq(Frame)
    BY <1>13, Popped DEF BackendClosesNext, TypeOK
  <2>2. /\ frames' \in Seq(Frame) /\ closing' = closing \cup {Head(toClose)}
        /\ watched' \in [Services -> Servers \cup {NoServer}]
    BY <1>13, <2>1, CallCloseTyped DEF BackendClosesNext
  <2> QED
    BY <1>13, <2>1, <2>2 DEF BackendClosesNext, TypeOK, ProcessTypeOK
<1>14. CASE BackendClosed
  BY <1>14 DEF BackendClosed, TypeOK, ProcessTypeOK
<1>15. CASE Signal
  <2>1. frames' \in Seq(Frame)
    BY <1>15, FramesMade, Pushed, TypedFrames DEF Signal, TypeOK
  <2> QED
    BY <1>15, <2>1, Times DEF Signal, TypeOK, ProcessTypeOK
<1>16. CASE RunHandler
  <2>1. frames \in Seq(Frame) /\ frames # <<>> /\ Head(frames) \in Frame /\ Rest \in Seq(Frame)
        /\ Head(frames).kind = "signal"
    BY <1>16, TypedFrames, Popped DEF RunHandler, Top, Rest
  <2>2. Head(frames).of \in Seq(Services) /\ Head(frames).of # <<>>
    BY <1>16, <2>1, FrameFields DEF RunHandler
  <2>3. Head(Head(frames).of) \in Services /\ Tail(Head(frames).of) \in Seq(Services)
    BY <2>2, Popped
  <2>4. <<Handling(Tail(Head(frames).of))>> \o Rest \in Seq(Frame)
    BY <2>1, <2>3, FramesMade, Pushed
  <2>5. /\ frames' \in Seq(Frame) /\ closing' = closing \cup {Head(Head(frames).of)}
        /\ watched' \in [Services -> Servers \cup {NoServer}]
    BY <1>16, <2>3, <2>4, CallCloseTyped DEF RunHandler
  <2> QED
    BY <1>16, <2>3, <2>5 DEF RunHandler, TypeOK, ProcessTypeOK
<1>17. CASE Raises
  <2>1. frames \in Seq(Frame) /\ frames # <<>> /\ Head(frames) \in Frame /\ Rest \in Seq(Frame)
        /\ Head(frames).kind = "signal"
    BY <1>17, TypedFrames, Popped DEF Raises, Top, Rest
  <2>2. Rest # <<>> /\ Head(Rest) \in Frame /\ Tail(Rest) \in Seq(Frame)
    BY <1>17, <2>1, Popped DEF Raises
  <2>3. frames' \in Seq(Frame)
    BY <1>17, <2>1, <2>2, Pushed DEF Raises
  <2>4. CASE Head(Rest).kind = "close"
    <3>1. Head(Rest).of \in Services /\ Head(Rest).of \in closing
      <4>1. Well(Rest, closing, current)
        BY <2>1, WellPopped DEF Frames, Rest
      <4> QED
        BY <2>1, <2>2, <2>4, <4>1, WellPopped, CloseFields
    <3>2. /\ handler' \in Seq(Services) /\ callbacks' \in Seq(Services)
          /\ IsInjective(callbacks') /\ disordered' \in BOOLEAN
      BY <1>17, <2>4, <3>1, RestoreTyped DEF Raises
    <3> QED
      BY <1>17, <2>3, <2>4, <3>1, <3>2 DEF Raises, TypeOK, ProcessTypeOK
  <2>5. CASE Head(Rest).kind # "close"
    BY <1>17, <2>3, <2>5 DEF Raises, TypeOK, ProcessTypeOK
  <2> QED
    BY <2>4, <2>5
<1>18. CASE Raised
  <2>1. frames \in Seq(Frame) /\ frames # <<>> /\ Head(frames) \in Frame /\ Rest \in Seq(Frame)
        /\ Head(frames).kind = "signal"
    BY <1>18, TypedFrames, Popped DEF Raised, Top, Rest
  <2>2. frames' \in Seq(Frame)
    <3>1. <<>> \in Seq(Frame) /\ <<Exiting>> \in Seq(Frame)
      BY FramesMade
    <3>2. frames' = <<>> \/ frames' = <<Exiting>> \/ frames' = Rest
      BY <1>18 DEF Raised
    <3> QED
      BY <2>1, <3>1, <3>2
  <2>3. backend' \in {"open", "closing", "closed"} /\ toClose' \in Seq(Services)
    <3>1. backend \in {"open", "closing", "closed"} /\ toClose \in Seq(Services)
      BY DEF TypeOK
    <3>2. \/ backend' = "open" /\ toClose' = <<>>
          \/ backend' = backend /\ toClose' = toClose
      BY <1>18 DEF Raised
    <3>3. <<>> \in Seq(Services)
      OBVIOUS
    <3> QED
      BY <3>1, <3>2, <3>3, Zenon
  <2> QED
    BY <1>18, <2>2, <2>3 DEF Raised, TypeOK, ProcessTypeOK
<1>19. CASE ExitCloses
  <2>1. /\ Head(callbacks) \in Services /\ Tail(callbacks) \in Seq(Services)
        /\ IsInjective(Tail(callbacks)) /\ frames \in Seq(Frame)
    BY <1>19, Popped, InjectivePopped DEF ExitCloses, TypeOK
  <2>2. /\ frames' \in Seq(Frame) /\ closing' = closing \cup {Head(callbacks)}
        /\ watched' \in [Services -> Servers \cup {NoServer}]
    BY <1>19, <2>1, CallCloseTyped DEF ExitCloses
  <2> QED
    BY <1>19, <2>1, <2>2 DEF ExitCloses, TypeOK, ProcessTypeOK
<1>20. CASE Exited
  <2>1. /\ frames' \in Seq(Frame) /\ toClose' \in Seq(Services) /\ patience' \in 0 .. CloseTimeout
        /\ current' \in [Services -> Servers \cup {NoServer}]
        /\ watched' \in [Services -> Servers \cup {NoServer}]
        /\ phase' \in [Services -> {"idle", "starting", "up"}]
        /\ handler' \in Seq(Services) /\ saved' \in [Services -> Seq(Services)]
        /\ callbacks' \in Seq(Services) /\ IsInjective(callbacks')
    BY <1>20, Times DEF Exited, ParentEnds, IsInjective
  <2> QED
    BY <1>20, <2>1 DEF Exited, ParentEnds, TypeOK, ProcessTypeOK
<1>21. CASE Exit
  <2>1. frames' \in Seq(Frame)
    BY <1>21, FramesMade DEF Exit
  <2> QED
    BY <1>21, <2>1 DEF Exit, TypeOK, ProcessTypeOK
<1>22. CASE ParentDies
  <2>1. /\ frames' \in Seq(Frame) /\ toClose' \in Seq(Services) /\ patience' \in 0 .. CloseTimeout
        /\ current' \in [Services -> Servers \cup {NoServer}]
        /\ watched' \in [Services -> Servers \cup {NoServer}]
        /\ phase' \in [Services -> {"idle", "starting", "up"}]
        /\ handler' \in Seq(Services) /\ saved' \in [Services -> Seq(Services)]
        /\ callbacks' \in Seq(Services) /\ IsInjective(callbacks')
    BY <1>22, Times DEF ParentDies, ParentEnds, IsInjective
  <2> QED
    BY <1>22, <2>1 DEF ParentDies, ParentEnds, TypeOK, ProcessTypeOK
<1>23. CASE UNCHANGED vars
  BY <1>23 DEF vars, TypeOK, ProcessTypeOK
<1> QED
  BY <1>1, <1>2, <1>3, <1>4, <1>5, <1>6, <1>7, <1>8, <1>9, <1>10, <1>11, <1>12, <1>13, <1>14,
     <1>15, <1>16, <1>17, <1>18, <1>19, <1>20, <1>21, <1>22, <1>23
     DEF Next, Service, Closing, Backend, Ending, Unwinding


LEMMA WrappersStep == TypeOK /\ Wrappers /\ Waiting /\ [Next]_vars => Wrappers'
<1> SUFFICES ASSUME TypeOK /\ Wrappers /\ Waiting, [Next]_vars PROVE Wrappers'
  OBVIOUS
<1> USE DEF processVars, wrapperVars, serviceVars, signalVars, backendVars, historyVars,
   NotClosed, NotProcesses
<1>1. CASE Tick
  <2>1. /\ \A s \in Servers : wrapper[s] \in Sleeping => timer[s] > 0
        /\ timer' = [s \in Servers |-> IF wrapper[s] \in Sleeping THEN timer[s] - 1 ELSE 0]
        /\ timer \in [Servers -> Nat] /\ UNCHANGED <<wrapper, owner, leader, helpers>>
    BY <1>1 DEF Tick, Passes, TypeOK, ProcessTypeOK
  <2>2. \A s \in Servers : wrapper[s] \in Sleeping => timer'[s] = timer[s] - 1 /\ timer[s] \in Nat
    BY <2>1
  <2> QED
    BY <2>1, <2>2, Times DEF Wrappers, Sleeping
<1>2. ASSUME NEW s \in Servers, ProcessStep(s) PROVE Wrappers'
  <2>1. UNCHANGED owner /\ wrapper \in [Servers -> States] /\ timer \in [Servers -> Nat]
    BY <1>2, TypedProcesses DEF ProcessStep
  <2>2. CASE Boot(s)
    BY <2>1, <2>2, Times DEF Boot, Goes, Wrappers, Sleeping
  <2>3. CASE PollLoop(s)
    BY <2>1, <2>3, Times DEF PollLoop, Goes, Wrappers, Sleeping
  <2>4. CASE GraceEnds(s)
    BY <2>1, <2>4, Times DEF GraceEnds, Goes, Wrappers, Sleeping
  <2>5. CASE SweepEnds(s)
    BY <2>1, <2>5, Times DEF SweepEnds, Goes, Wrappers, Sleeping
  <2>6. CASE LeaderExits(s) \/ HelpersExit(s)
    BY <2>1, <2>6 DEF LeaderExits, HelpersExit, Wrappers
  <2>7. CASE WrapperLost(s)
    BY <2>1, <2>7 DEF WrapperLost, Running, Goes, Wrappers, Sleeping
  <2> QED
    BY <1>2, <2>2, <2>3, <2>4, <2>5, <2>6, <2>7 DEF ProcessStep, Wrapper
<1>3. ASSUME NEW v \in Services, NEW s \in Servers, Start(v, s) PROVE Wrappers'
  <2>1. /\ owner[s] = NoService /\ owner' = [owner EXCEPT ![s] = v] /\ v # NoService
        /\ wrapper' = [wrapper EXCEPT ![s] = "booting"] /\ timer' = [timer EXCEPT ![s] = 0]
        /\ UNCHANGED <<leader, helpers>>
    BY <1>3, ServicesAssumption DEF Start, Goes
  <2>2. /\ wrapper \in [Servers -> States] /\ timer \in [Servers -> Nat]
        /\ owner \in [Servers -> Services \cup {NoService}]
    BY TypedProcesses
  <2>3. wrapper[s] = "none" /\ s \notin leader /\ s \notin helpers
    BY <2>1 DEF Wrappers, Sleeping
  <2> QED
    BY <2>1, <2>2, <2>3 DEF Wrappers, Sleeping
<1>4. ASSUME NEW v \in Services, Ready(v) PROVE Wrappers'
  <2>1. UNCHANGED <<wrapper, timer, owner, leader, helpers>>
    BY <1>4 DEF Ready
  <2> QED
    BY <2>1 DEF Wrappers
<1>5. ASSUME NEW v \in Services, StartCancelled(v) PROVE Wrappers'
  <2>1. UNCHANGED <<wrapper, timer, owner, leader, helpers>>
    BY <1>5 DEF StartCancelled
  <2> QED
    BY <2>1 DEF Wrappers
<1>6. ASSUME NEW v \in Services, Fails(v) PROVE Wrappers'
  <2>1. UNCHANGED <<wrapper, timer, owner, leader, helpers>>
    BY <1>6 DEF Fails
  <2> QED
    BY <2>1 DEF Wrappers
<1>7. ASSUME NEW v \in Services, WatchExit(v) PROVE Wrappers'
  <2>1. UNCHANGED <<wrapper, timer, owner, leader, helpers>>
    BY <1>7 DEF WatchExit
  <2> QED
    BY <2>1 DEF Wrappers
<1>8. CASE CloseAsks
  <2>1. UNCHANGED <<wrapper, timer, owner, leader, helpers>>
    BY <1>8 DEF CloseAsks
  <2> QED
    BY <2>1 DEF Wrappers
<1>9. CASE CloseReleases
  <2>1. UNCHANGED <<wrapper, timer, owner, leader, helpers>>
    BY <1>9 DEF CloseReleases
  <2> QED
    BY <2>1 DEF Wrappers
<1>10. CASE CloseKills
  <2>1. PICK s \in Servers : /\ Running(s) /\ wrapper[s] \notin Sleeping
                             /\ wrapper' = [wrapper EXCEPT ![s] = "killed"]
                             /\ timer' = [timer EXCEPT ![s] = 0]
    <3>1. /\ current[Head(frames).of] \in Servers
          /\ wrapper[current[Head(frames).of]] \in Sleeping
                 => patience > Remaining(current[Head(frames).of])
      BY <1>10 DEF CloseKills, Waiting
    <3>2. Remaining(current[Head(frames).of]) \in Nat
      <4>1. timer[current[Head(frames).of]] \in Nat
        BY <3>1, TypedProcesses
      <4> QED
        BY ONLY <4>1, Times DEF Remaining
    <3>3. patience = 0
      BY <1>10 DEF CloseKills
    <3>4. patience > 0 \/ wrapper[current[Head(frames).of]] \notin Sleeping
      BY <3>1, <3>2, <1>10 DEF TypeOK
    <3> DEFINE s == current[Head(frames).of]
    <3>5. /\ Running(s) /\ wrapper' = [wrapper EXCEPT ![s] = "killed"]
          /\ timer' = [timer EXCEPT ![s] = 0]
      BY <1>10 DEF CloseKills, Goes
    <3>6. s \in Servers /\ wrapper[s] \notin Sleeping
      BY <3>1, <3>3, <3>4
    <3> HIDE DEF s
    <3> QED
      BY <3>5, <3>6
  <2>2. wrapper[s] = "booting"
    BY <2>1 DEF Running
  <2>3. UNCHANGED <<leader, helpers, owner>>
    BY <1>10 DEF CloseKills
  <2>4. wrapper \in [Servers -> States] /\ timer \in [Servers -> Nat]
    BY TypedProcesses
  <2> QED
    BY <2>1, <2>2, <2>3, <2>4 DEF Wrappers, Sleeping
<1>11. CASE CloseReturns
  <2>1. UNCHANGED <<wrapper, timer, owner, leader, helpers>>
    BY <1>11 DEF CloseReturns
  <2> QED
    BY <2>1 DEF Wrappers
<1>12. ASSUME NEW order \in SetToSeqs(Started), BackendCloses(order) PROVE Wrappers'
  <2>1. UNCHANGED <<wrapper, timer, owner, leader, helpers>>
    BY <1>12 DEF BackendCloses
  <2> QED
    BY <2>1 DEF Wrappers
<1>13. CASE BackendClosesNext
  <2>1. UNCHANGED <<wrapper, timer, owner, leader, helpers>>
    BY <1>13 DEF BackendClosesNext
  <2> QED
    BY <2>1 DEF Wrappers
<1>14. CASE BackendClosed
  <2>1. UNCHANGED <<wrapper, timer, owner, leader, helpers>>
    BY <1>14 DEF BackendClosed
  <2> QED
    BY <2>1 DEF Wrappers
<1>15. CASE Signal
  <2>1. UNCHANGED <<wrapper, timer, owner, leader, helpers>>
    BY <1>15 DEF Signal
  <2> QED
    BY <2>1 DEF Wrappers
<1>16. CASE RunHandler
  <2>1. UNCHANGED <<wrapper, timer, owner, leader, helpers>>
    BY <1>16 DEF RunHandler
  <2> QED
    BY <2>1 DEF Wrappers
<1>17. CASE Raises
  <2>1. UNCHANGED <<wrapper, timer, owner, leader, helpers>>
    BY <1>17 DEF Raises
  <2> QED
    BY <2>1 DEF Wrappers
<1>18. CASE Raised
  <2>1. UNCHANGED <<wrapper, timer, owner, leader, helpers>>
    BY <1>18 DEF Raised
  <2> QED
    BY <2>1 DEF Wrappers
<1>19. CASE ExitCloses
  <2>1. UNCHANGED <<wrapper, timer, owner, leader, helpers>>
    BY <1>19 DEF ExitCloses
  <2> QED
    BY <2>1 DEF Wrappers
<1>20. CASE Exited
  <2>1. UNCHANGED <<wrapper, timer, owner, leader, helpers>>
    BY <1>20 DEF Exited, ParentEnds
  <2> QED
    BY <2>1 DEF Wrappers
<1>21. CASE Exit
  <2>1. UNCHANGED <<wrapper, timer, owner, leader, helpers>>
    BY <1>21 DEF Exit
  <2> QED
    BY <2>1 DEF Wrappers
<1>22. CASE ParentDies
  <2>1. UNCHANGED <<wrapper, timer, owner, leader, helpers>>
    BY <1>22 DEF ParentDies, ParentEnds
  <2> QED
    BY <2>1 DEF Wrappers
<1>23. CASE UNCHANGED vars
  BY <1>23 DEF vars, Wrappers
<1> QED
  BY <1>1, <1>2, <1>3, <1>4, <1>5, <1>6, <1>7, <1>8, <1>9, <1>10, <1>11, <1>12, <1>13, <1>14,
     <1>15, <1>16, <1>17, <1>18, <1>19, <1>20, <1>21, <1>22, <1>23
     DEF Next, Service, Closing, Backend, Ending, Unwinding


\* A server of which nothing is left stays so.
StaysEnded == \A t \in Servers : owner[t] # NoService /\ Ended(t) => Ended(t)'

LEMMA EndedStays == TypeOK /\ [Next]_vars => StaysEnded
<1> SUFFICES ASSUME TypeOK, [Next]_vars PROVE StaysEnded
  OBVIOUS
<1> USE DEF processVars, wrapperVars, serviceVars, signalVars, backendVars, historyVars,
   NotClosed, NotProcesses
<1>1. CASE Tick
  <2>1. UNCHANGED <<wrapper, leader, helpers>>
    BY <1>1 DEF Tick, Passes
  <2> QED
    BY <2>1 DEF StaysEnded, Ended, Gone, Running
<1>2. ASSUME NEW s \in Servers, ProcessStep(s) PROVE StaysEnded
  <2>1. UNCHANGED owner /\ wrapper \in [Servers -> States]
    BY <1>2, TypedProcesses DEF ProcessStep
  <2>2. Running(s) => \A t \in Servers : t # s => /\ wrapper'[t] = wrapper[t]
                                                  /\ t \in leader' => t \in leader
                                                  /\ t \in helpers' => t \in helpers
    BY <1>2, <2>1 DEF ProcessStep, Wrapper, Boot, PollLoop, GraceEnds, SweepEnds,
                LeaderExits, HelpersExit, WrapperLost, Goes
  <2>3. CASE Running(s) /\ wrapper[s] # "lost"
    BY <2>2, <2>3 DEF StaysEnded, Ended, Gone, Running, Sleeping
  <2>4. CASE ~ Running(s)
    <3>1. /\ UNCHANGED wrapper /\ leader' \subseteq leader /\ helpers' \subseteq helpers
      BY <1>2, <2>4 DEF ProcessStep, Wrapper, Boot, PollLoop, GraceEnds, SweepEnds,
                  LeaderExits, HelpersExit, WrapperLost, Running, Sleeping
    <3> QED
      BY <3>1 DEF StaysEnded, Ended, Gone, Running
  <2> QED
    BY <2>3, <2>4 DEF Running, Sleeping
<1>3. ASSUME NEW v \in Services, NEW s \in Servers, Start(v, s) PROVE StaysEnded
  <2>1. owner[s] = NoService /\ wrapper' = [wrapper EXCEPT ![s] = "booting"]
        /\ UNCHANGED <<leader, helpers>>
    BY <1>3 DEF Start, Goes
  <2>2. wrapper \in [Servers -> States]
    BY TypedProcesses
  <2> QED
    BY <2>1, <2>2 DEF StaysEnded, Ended, Gone, Running
<1>4. ASSUME NEW v \in Services, Ready(v) PROVE StaysEnded
  <2>1. UNCHANGED <<wrapper, leader, helpers>>
    BY <1>4 DEF Ready
  <2> QED
    BY <2>1 DEF StaysEnded, Ended, Gone, Running
<1>5. ASSUME NEW v \in Services, StartCancelled(v) PROVE StaysEnded
  <2>1. UNCHANGED <<wrapper, leader, helpers>>
    BY <1>5 DEF StartCancelled
  <2> QED
    BY <2>1 DEF StaysEnded, Ended, Gone, Running
<1>6. ASSUME NEW v \in Services, Fails(v) PROVE StaysEnded
  <2>1. UNCHANGED <<wrapper, leader, helpers>>
    BY <1>6 DEF Fails
  <2> QED
    BY <2>1 DEF StaysEnded, Ended, Gone, Running
<1>7. ASSUME NEW v \in Services, WatchExit(v) PROVE StaysEnded
  <2>1. UNCHANGED <<wrapper, leader, helpers>>
    BY <1>7 DEF WatchExit
  <2> QED
    BY <2>1 DEF StaysEnded, Ended, Gone, Running
<1>8. CASE CloseAsks
  <2>1. UNCHANGED <<wrapper, leader, helpers>>
    BY <1>8 DEF CloseAsks
  <2> QED
    BY <2>1 DEF StaysEnded, Ended, Gone, Running
<1>9. CASE CloseReleases
  <2>1. UNCHANGED <<wrapper, leader, helpers>>
    BY <1>9 DEF CloseReleases
  <2> QED
    BY <2>1 DEF StaysEnded, Ended, Gone, Running
<1>10. CASE CloseKills
  <2>1. PICK s : Running(s) /\ wrapper' = [wrapper EXCEPT ![s] = "killed"]
    BY <1>10 DEF CloseKills, Goes
  <2>2. UNCHANGED <<leader, helpers>> /\ wrapper \in [Servers -> States]
    BY <1>10, TypedProcesses DEF CloseKills
  <2> QED
    BY <2>1, <2>2 DEF StaysEnded, Ended, Gone, Running, Sleeping
<1>11. CASE CloseReturns
  <2>1. UNCHANGED <<wrapper, leader, helpers>>
    BY <1>11 DEF CloseReturns
  <2> QED
    BY <2>1 DEF StaysEnded, Ended, Gone, Running
<1>12. ASSUME NEW order \in SetToSeqs(Started), BackendCloses(order) PROVE StaysEnded
  <2>1. UNCHANGED <<wrapper, leader, helpers>>
    BY <1>12 DEF BackendCloses
  <2> QED
    BY <2>1 DEF StaysEnded, Ended, Gone, Running
<1>13. CASE BackendClosesNext
  <2>1. UNCHANGED <<wrapper, leader, helpers>>
    BY <1>13 DEF BackendClosesNext
  <2> QED
    BY <2>1 DEF StaysEnded, Ended, Gone, Running
<1>14. CASE BackendClosed
  <2>1. UNCHANGED <<wrapper, leader, helpers>>
    BY <1>14 DEF BackendClosed
  <2> QED
    BY <2>1 DEF StaysEnded, Ended, Gone, Running
<1>15. CASE Signal
  <2>1. UNCHANGED <<wrapper, leader, helpers>>
    BY <1>15 DEF Signal
  <2> QED
    BY <2>1 DEF StaysEnded, Ended, Gone, Running
<1>16. CASE RunHandler
  <2>1. UNCHANGED <<wrapper, leader, helpers>>
    BY <1>16 DEF RunHandler
  <2> QED
    BY <2>1 DEF StaysEnded, Ended, Gone, Running
<1>17. CASE Raises
  <2>1. UNCHANGED <<wrapper, leader, helpers>>
    BY <1>17 DEF Raises
  <2> QED
    BY <2>1 DEF StaysEnded, Ended, Gone, Running
<1>18. CASE Raised
  <2>1. UNCHANGED <<wrapper, leader, helpers>>
    BY <1>18 DEF Raised
  <2> QED
    BY <2>1 DEF StaysEnded, Ended, Gone, Running
<1>19. CASE ExitCloses
  <2>1. UNCHANGED <<wrapper, leader, helpers>>
    BY <1>19 DEF ExitCloses
  <2> QED
    BY <2>1 DEF StaysEnded, Ended, Gone, Running
<1>20. CASE Exited
  <2>1. UNCHANGED <<wrapper, leader, helpers>>
    BY <1>20 DEF Exited, ParentEnds
  <2> QED
    BY <2>1 DEF StaysEnded, Ended, Gone, Running
<1>21. CASE Exit
  <2>1. UNCHANGED <<wrapper, leader, helpers>>
    BY <1>21 DEF Exit
  <2> QED
    BY <2>1 DEF StaysEnded, Ended, Gone, Running
<1>22. CASE ParentDies
  <2>1. UNCHANGED <<wrapper, leader, helpers>>
    BY <1>22 DEF ParentDies, ParentEnds
  <2> QED
    BY <2>1 DEF StaysEnded, Ended, Gone, Running
<1>23. CASE UNCHANGED vars
  BY <1>23 DEF vars, StaysEnded, Ended, Gone, Running
<1> QED
  BY <1>1, <1>2, <1>3, <1>4, <1>5, <1>6, <1>7, <1>8, <1>9, <1>10, <1>11, <1>12, <1>13, <1>14,
     <1>15, <1>16, <1>17, <1>18, <1>19, <1>20, <1>21, <1>22, <1>23
     DEF Next, Service, Closing, Backend, Ending, Unwinding


LEMMA FramesStep == TypeOK /\ Frames /\ [Next]_vars => Frames'
<1> SUFFICES ASSUME TypeOK /\ Frames, [Next]_vars PROVE Frames'
  OBVIOUS
<1> USE DEF processVars, wrapperVars, serviceVars, signalVars, backendVars, historyVars,
   NotClosed, NotProcesses
<1>1. CASE Tick
  <2>1. UNCHANGED <<frames, closing, current>>
    BY <1>1 DEF Tick
  <2> QED
    BY <2>1 DEF Frames
<1>2. ASSUME NEW s \in Servers, ProcessStep(s) PROVE Frames'
  <2>1. UNCHANGED <<frames, closing, current>>
    BY <1>2 DEF ProcessStep
  <2> QED
    BY <2>1 DEF Frames
<1>3. ASSUME NEW v \in Services, NEW s \in Servers, Start(v, s) PROVE Frames'
  <2>1. frames' = <<>>
    BY <1>3 DEF Start, Loop
  <2> QED
    BY <2>1, WellEmpty DEF Frames
<1>4. ASSUME NEW v \in Services, Ready(v) PROVE Frames'
  <2>1. UNCHANGED <<frames, closing, current>>
    BY <1>4 DEF Ready
  <2> QED
    BY <2>1 DEF Frames
<1>5. ASSUME NEW v \in Services, StartCancelled(v) PROVE Frames'
  <2>1. UNCHANGED <<frames, closing, current>>
    BY <1>5 DEF StartCancelled
  <2> QED
    BY <2>1 DEF Frames
<1>6. ASSUME NEW v \in Services, Fails(v) PROVE Frames'
  <2>1. /\ CallClose(v, frames) /\ frames = <<>> /\ v \in Services
        /\ UNCHANGED current
    BY <1>6 DEF Fails, Loop
  <2> QED
    BY <2>1, Called, WellEmpty, TypedFrames DEF Frames
<1>7. ASSUME NEW v \in Services, WatchExit(v) PROVE Frames'
  <2>1. frames = <<>> /\ UNCHANGED current
    BY <1>7 DEF WatchExit, Loop
  <2>2. CASE v \in closing
    <3>1. UNCHANGED <<frames, closing, current>>
      BY <1>7, <2>1, <2>2 DEF WatchExit
    <3> QED
      BY <3>1 DEF Frames
  <2>3. CASE v \notin closing
    <3>1. CallClose(v, frames)
      BY <1>7, <2>3 DEF WatchExit
    <3>2. frames \in Seq(Frame) /\ Well(frames, closing, current)
      BY TypedFrames DEF Frames
    <3>3. Well(frames', closing', current)
      BY ONLY <2>1, <3>1, <3>2, Called, TypeOK, v \in Services
    <3> QED
      BY <2>1, <3>3 DEF Frames
  <2> QED
    BY <2>2, <2>3
<1>8. CASE CloseAsks
  <2>1. frames # <<>> /\ Head(frames).kind = "close" /\ UNCHANGED closing
    BY <1>8 DEF CloseAsks, Top
  <2>2. /\ Head(frames) \in Frame /\ Rest \in Seq(Frame) /\ frames \in Seq(Frame)
        /\ Well(Rest, closing, current) /\ Head(frames).of \in closing
        /\ Rest # <<>> => Head(Rest).kind # "close"
    BY <2>1, OnTop, WellPopped DEF Frames, Rest
  <2>3. PICK a \in {"asked", "released"} :
           /\ frames' = <<[Head(frames) EXCEPT !.at = a]>> \o Rest /\ UNCHANGED current
           /\ a = "released" => current[Head(frames).of] = NoServer
    BY <1>8 DEF CloseAsks
  <2> DEFINE x == [Head(frames) EXCEPT !.at = a]
  <2>4. x \in Frame /\ x.kind = "close" /\ x.of = Head(frames).of /\ x.at = a
    <3>1. a \in {"begun", "asked", "released"}
      OBVIOUS
    <3> QED
      BY <2>1, <2>2, <3>1, Moved
  <2> HIDE DEF x
  <2>5. Well(<<x>> \o Rest, closing, current)
    BY <2>2, <2>3, <2>4, WellPushed
  <2> QED
    BY <2>1, <2>3, <2>5 DEF Frames, x
<1>9. CASE CloseReleases
  <2>1. frames # <<>> /\ Head(frames).kind = "close" /\ UNCHANGED closing
    BY <1>9 DEF CloseReleases, Top
  <2>2. /\ Head(frames) \in Frame /\ Rest \in Seq(Frame) /\ frames \in Seq(Frame)
        /\ Well(Rest, closing, current) /\ Head(frames).of \in closing
        /\ Rest # <<>> => Head(Rest).kind # "close"
    BY <2>1, OnTop, WellPopped DEF Frames, Rest
  <2>3. /\ frames' = <<[Head(frames) EXCEPT !.at = "released"]>> \o Rest
        /\ current' = [current EXCEPT ![Head(frames).of] = NoServer]
        /\ current \in [Services -> Servers \cup {NoServer}] /\ closing \subseteq Services
    BY <1>9 DEF CloseReleases, TypeOK
  <2> DEFINE x == [Head(frames) EXCEPT !.at = "released"]
  <2>4. x \in Frame /\ x.kind = "close" /\ x.of = Head(frames).of /\ x.at = "released"
    BY <2>1, <2>2, FrameFields
  <2> HIDE DEF x
  <2>5. current'[Head(frames).of] = NoServer
        /\ \A v \in closing : current[v] = NoServer => current'[v] = NoServer
    BY <2>2, <2>3
  <2>6. Well(Rest, closing, current')
    BY <2>2, <2>5, WellKept
  <2>7. Well(<<x>> \o Rest, closing, current')
    BY <2>2, <2>4, <2>5, <2>6, WellPushed
  <2> QED
    BY <2>1, <2>3, <2>7 DEF Frames, x
<1>10. CASE CloseKills
  <2>1. UNCHANGED <<frames, closing, current>>
    BY <1>10 DEF CloseKills
  <2> QED
    BY <2>1 DEF Frames
<1>11. CASE CloseReturns
  <2>1. frames # <<>> /\ frames' = Rest /\ UNCHANGED <<closing, current>>
    BY <1>11 DEF CloseReturns, Top
  <2> QED
    BY <2>1, OnTop DEF Frames
<1>12. ASSUME NEW order \in SetToSeqs(Started), BackendCloses(order) PROVE Frames'
  <2>1. UNCHANGED <<frames, closing, current>>
    BY <1>12 DEF BackendCloses
  <2> QED
    BY <2>1 DEF Frames
<1>13. CASE BackendClosesNext
  <2>1. /\ CallClose(Head(toClose), frames) /\ frames = <<>> /\ Head(toClose) \in Services
        /\ UNCHANGED current
    BY <1>13, Popped DEF BackendClosesNext, Loop, TypeOK
  <2> QED
    BY <2>1, Called, WellEmpty, TypedFrames DEF Frames
<1>14. CASE BackendClosed
  <2>1. UNCHANGED <<frames, closing, current>>
    BY <1>14 DEF BackendClosed
  <2> QED
    BY <2>1 DEF Frames
<1>15. CASE Signal
  <2>1. /\ frames' = <<Handling(handler)>> \o frames /\ UNCHANGED <<closing, current>>
        /\ Handling(handler) \in Frame /\ Handling(handler).kind = "signal"
    BY <1>15, FramesMade DEF Signal, TypeOK
  <2> QED
    BY <2>1, WellPushed, TypedFrames DEF Frames
<1>16. CASE RunHandler
  <2>1. /\ frames # <<>> /\ Head(frames).kind = "signal" /\ Head(frames).of # <<>>
        /\ UNCHANGED current
    BY <1>16 DEF RunHandler, Top
  <2>2. /\ Head(frames) \in Frame /\ Rest \in Seq(Frame) /\ Well(Rest, closing, current)
        /\ Head(frames).of \in Seq(Services)
    BY <2>1, OnTop, FrameFields
  <2> DEFINE v == Head(Head(frames).of)
             x == Handling(Tail(Head(frames).of))
  <2>3. v \in Services /\ Tail(Head(frames).of) \in Seq(Services)
    BY <2>1, <2>2, Popped
  <2>4. x \in Frame /\ x.kind = "signal"
    BY <2>3, FramesMade
  <2>5. CallClose(v, <<x>> \o Rest)
    BY <1>16 DEF RunHandler
  <2> HIDE DEF v, x
  <2>6. /\ <<x>> \o Rest \in Seq(Frame) /\ Head(<<x>> \o Rest) = x
        /\ Well(<<x>> \o Rest, closing, current)
    BY <2>2, <2>4, Pushed, WellPushed
  <2> QED
    BY <2>1, <2>3, <2>4, <2>5, <2>6, Called DEF Frames
<1>17. CASE Raises
  <2>1. /\ frames # <<>> /\ Head(frames).kind = "signal" /\ Rest # <<>>
        /\ frames' = <<Head(frames)>> \o Tail(Rest) /\ UNCHANGED <<current, closing>>
    BY <1>17 DEF Raises, Top
  <2>2. /\ Head(frames) \in Frame /\ Rest \in Seq(Frame) /\ Well(Rest, closing, current)
    BY <2>1, OnTop
  <2>3. Tail(Rest) \in Seq(Frame) /\ Well(Tail(Rest), closing, current)
    BY <2>1, <2>2, Popped, WellPopped
  <2> QED
    BY <2>1, <2>2, <2>3, WellPushed DEF Frames
<1>18. CASE Raised
  <2>1. /\ frames # <<>> /\ frames' \in {<<>>, <<Exiting>>, Rest}
        /\ UNCHANGED <<current, closing>>
    BY <1>18 DEF Raised, Top
  <2> QED
    BY <2>1, OnTop, WellEmpty, WellExiting DEF Frames
<1>19. CASE ExitCloses
  <2>1. /\ CallClose(Head(callbacks), frames) /\ Head(callbacks) \in Services
        /\ frames # <<>> /\ Head(frames).kind = "exit" /\ UNCHANGED current
    BY <1>19, Popped DEF ExitCloses, Top, TypeOK
  <2> QED
    BY <2>1, Called, TypedFrames DEF Frames
<1>20. CASE Exited
  <2>1. frames' = <<>>
    BY <1>20 DEF Exited, ParentEnds
  <2> QED
    BY <2>1, WellEmpty DEF Frames
<1>21. CASE Exit
  <2>1. frames' = <<Exiting>> /\ UNCHANGED <<current, closing>>
    BY <1>21 DEF Exit
  <2> QED
    BY <2>1, WellExiting DEF Frames
<1>22. CASE ParentDies
  <2>1. frames' = <<>>
    BY <1>22 DEF ParentDies, ParentEnds
  <2> QED
    BY <2>1, WellEmpty DEF Frames
<1>23. CASE UNCHANGED vars
  BY <1>23 DEF vars, Frames
<1> QED
  BY <1>1, <1>2, <1>3, <1>4, <1>5, <1>6, <1>7, <1>8, <1>9, <1>10, <1>11, <1>12, <1>13, <1>14,
     <1>15, <1>16, <1>17, <1>18, <1>19, <1>20, <1>21, <1>22, <1>23
     DEF Next, Service, Closing, Backend, Ending, Unwinding


LEMMA WaitingStep == TypeOK /\ Wrappers /\ Frames /\ Waiting /\ [Next]_vars => Waiting'
<1> SUFFICES ASSUME TypeOK /\ Wrappers /\ Frames /\ Waiting, [Next]_vars PROVE Waiting'
  OBVIOUS
<1> USE DEF processVars, wrapperVars, serviceVars, signalVars, backendVars, historyVars,
   NotClosed, NotProcesses
<1>1. CASE Tick
  <2>1. /\ \A s \in Servers : wrapper[s] \in Sleeping => timer[s] > 0
        /\ timer' = [s \in Servers |-> IF wrapper[s] \in Sleeping THEN timer[s] - 1 ELSE 0]
        /\ UNCHANGED <<wrapper, asked, frames, current>>
        /\ patience' = IF patience > 0 THEN patience - 1 ELSE 0
    BY <1>1 DEF Tick, Passes
  <2>2. timer \in [Servers -> Nat] /\ patience \in Nat
    BY Times DEF TypeOK, ProcessTypeOK
  <2> SUFFICES ASSUME Top("close"), Head(frames).at = "asked",
                      NEW t, t = current[Head(frames).of]
               PROVE  /\ t \in Servers
                      /\ Running(t) => t \in asked
                      /\ wrapper[t] \in Sleeping => patience' > Remaining(t)'
    BY <2>1 DEF Waiting, Top, Running, Remaining
  <2>3. t \in Servers /\ (Running(t) => t \in asked)
        /\ (wrapper[t] \in Sleeping => patience > Remaining(t))
    BY DEF Waiting
  <2>4. ASSUME wrapper[t] \in Sleeping PROVE patience' > Remaining(t)'
    <3>1. timer[t] > 0 /\ timer'[t] = timer[t] - 1 /\ timer[t] \in Nat /\ patience > Remaining(t)
      BY <2>1, <2>2, <2>3, <2>4
    <3>2. Remaining(t)' = Remaining(t) - 1 /\ Remaining(t) \in Nat /\ Remaining(t) > 0
      <4>1. UNCHANGED wrapper
        BY <2>1
      <4> QED
        BY ONLY <4>1, <3>1, Times DEF Remaining
    <3> QED
      BY <2>1, <2>2, <3>1, <3>2
  <2> QED
    BY <2>3, <2>4
<1>2. ASSUME NEW s \in Servers, ProcessStep(s) PROVE Waiting'
  <2>1. UNCHANGED <<frames, current, patience>>
    BY <1>2 DEF ProcessStep
  <2>2. asked' = asked
    BY <1>2 DEF ProcessStep, Wrapper, Boot, PollLoop, GraceEnds, SweepEnds, LeaderExits,
                HelpersExit, WrapperLost
  <2> SUFFICES ASSUME Top("close"), Head(frames).at = "asked",
                      NEW t, t = current[Head(frames).of]
               PROVE  /\ t \in Servers
                      /\ Running(t)' => t \in asked
                      /\ wrapper'[t] \in Sleeping => patience > Remaining(t)'
    BY <2>1, <2>2 DEF Waiting, Top, Running, Remaining
  <2>3. t \in Servers /\ (Running(t) => t \in asked)
        /\ (wrapper[t] \in Sleeping => patience > Remaining(t))
    BY DEF Waiting
  <2>4. /\ wrapper \in [Servers -> States] /\ timer \in [Servers -> Nat] /\ patience \in Nat
    BY TypedProcesses, Times DEF TypeOK
  <2>5. CASE s # t \/ LeaderExits(s) \/ HelpersExit(s)
    <3>1. wrapper'[t] = wrapper[t] /\ timer'[t] = timer[t]
      BY <1>2, <2>3, <2>4, <2>5 DEF ProcessStep, Wrapper, Boot, PollLoop, GraceEnds,
                  SweepEnds, LeaderExits, HelpersExit, WrapperLost, Goes
    <3> QED
      BY <2>3, <3>1 DEF Running, Remaining
  <2>6. CASE s = t /\ ~ LeaderExits(s) /\ ~ HelpersExit(s)
    <3>1. CASE Boot(s)
      <4>1. wrapper'[t] = "exited"
        BY <2>3, <2>4, <2>6, <3>1 DEF Boot, Goes, Running
      <4> QED
        BY <2>3, <4>1 DEF Running, Sleeping
    <3>2. CASE PollLoop(s)
      <4>1. wrapper'[t] = "waiting" /\ timer'[t] = Grace /\ patience > Grace + Sweep
        BY <2>3, <2>4, <2>6, <3>2, Times DEF PollLoop, Goes, Running, Sleeping, Remaining
      <4> QED
        BY <2>3, <2>6, <3>2, <4>1 DEF PollLoop, Running, Sleeping, Remaining
    <3>3. CASE GraceEnds(s)
      <4>1. wrapper'[t] = "sweeping" /\ timer'[t] = Sweep /\ patience > Sweep
        BY <2>3, <2>4, <2>6, <3>3, Times DEF GraceEnds, Goes, Running, Sleeping, Remaining
      <4> QED
        BY <2>3, <2>6, <3>3, <4>1 DEF GraceEnds, Running, Sleeping, Remaining
    <3>4. CASE SweepEnds(s) \/ WrapperLost(s)
      <4>1. wrapper'[t] \in {"exited", "lost"}
        BY <2>3, <2>4, <2>6, <3>4 DEF SweepEnds, WrapperLost, Goes
      <4> QED
        BY <2>3, <4>1 DEF Running, Sleeping
    <3> QED
      BY <1>2, <2>6, <3>1, <3>2, <3>3, <3>4 DEF ProcessStep, Wrapper
  <2> QED
    BY <2>5, <2>6
<1>3. ASSUME NEW v \in Services, NEW s \in Servers, Start(v, s) PROVE Waiting'
  <2>1. frames' = <<>>
    BY <1>3 DEF Start, ParentEnds, Loop
  <2> QED
    BY <2>1, NotAsked
<1>4. ASSUME NEW v \in Services, Ready(v) PROVE Waiting'
  <2>1. frames' = <<>>
    BY <1>4 DEF Ready, ParentEnds, Loop
  <2> QED
    BY <2>1, NotAsked
<1>5. ASSUME NEW v \in Services, StartCancelled(v) PROVE Waiting'
  <2>1. frames' = <<>>
    BY <1>5 DEF StartCancelled, ParentEnds, Loop
  <2> QED
    BY <2>1, NotAsked
<1>6. ASSUME NEW v \in Services, Fails(v) PROVE Waiting'
  <2>1. /\ CallClose(v, frames) /\ frames = <<>> /\ v \in Services
        /\ UNCHANGED current
    BY <1>6 DEF Fails, Loop
  <2> QED
    BY <2>1, Called, WellEmpty, TypedFrames, NotAsked
<1>7. ASSUME NEW v \in Services, WatchExit(v) PROVE Waiting'
  <2>1. frames = <<>>
    BY <1>7 DEF WatchExit, Loop
  <2>2. CASE v \in closing
    BY <1>7, <2>1, <2>2, NotAsked DEF WatchExit
  <2>3. CASE v \notin closing
    BY <1>7, <2>1, <2>3, Called, WellEmpty, TypedFrames, NotAsked DEF WatchExit
  <2> QED
    BY <2>2, <2>3
<1>8. CASE CloseAsks
  <2>1. /\ frames \in Seq(Frame) /\ frames # <<>> /\ Head(frames) \in Frame
        /\ Rest \in Seq(Frame) /\ Head(frames).kind = "close"
    BY <1>8, OnTop DEF CloseAsks, Top
  <2>0. PICK s : s = current[Head(frames).of]
    OBVIOUS
  <2>2. /\ frames' = <<[Head(frames) EXCEPT !.at = IF s = NoServer THEN "released"
                                                   ELSE "asked"]>> \o Rest
        /\ asked' = (IF s # NoServer /\ Running(s) THEN asked \cup {s} ELSE asked)
        /\ patience' = CloseTimeout /\ UNCHANGED <<current, wrapper, timer>>
    BY <1>8, <2>0 DEF CloseAsks
  <2>3. s \in Servers \cup {NoServer}
    <3>1. current \in [Services -> Servers \cup {NoServer}]
      BY DEF TypeOK
    <3> QED
      BY <2>1, <2>0, <3>1, CloseFields
  <2> DEFINE x == [Head(frames) EXCEPT !.at = IF s = NoServer THEN "released" ELSE "asked"]
  <2>4. x \in Frame /\ x.of = Head(frames).of
        /\ x.at = (IF s = NoServer THEN "released" ELSE "asked")
    <3>1. (IF s = NoServer THEN "released" ELSE "asked") \in {"begun", "asked", "released"}
      OBVIOUS
    <3> QED
      BY <2>1, <3>1, Moved
  <2>5. Head(frames') = x
    <3> HIDE DEF x
    <3> QED
      BY <2>1, <2>2, <2>4, Pushed DEF x
  <2> HIDE DEF x
  <2>6. CASE s = NoServer
    BY <2>4, <2>5, <2>6, NotAsked
  <2>7. CASE s # NoServer
    <3>1. s \in Servers /\ (Running(s) => s \in asked')
      BY <2>2, <2>3, <2>7
    <3>2. wrapper[s] \in Sleeping => CloseTimeout > Remaining(s)
      BY <3>1, Times, TypedProcesses DEF Wrappers, Sleeping, Remaining
    <3>3. current'[Head(frames').of] = s
      BY <2>0, <2>2, <2>4, <2>5
    <3> QED
      BY <2>2, <3>1, <3>2, <3>3 DEF Waiting, Running, Remaining
  <2> QED
    BY <2>6, <2>7
<1>9. CASE CloseReleases
  <2>1. /\ frames \in Seq(Frame) /\ frames # <<>> /\ Head(frames) \in Frame
        /\ Rest \in Seq(Frame) /\ Head(frames).kind = "close"
        /\ frames' = <<[Head(frames) EXCEPT !.at = "released"]>> \o Rest
    BY <1>9, OnTop DEF CloseReleases, Top
  <2> DEFINE x == [Head(frames) EXCEPT !.at = "released"]
  <2>2. x \in Frame /\ x.at = "released"
    BY <2>1, FrameFields
  <2> HIDE DEF x
  <2>3. Head(frames') = x
    BY <2>1, <2>2, Pushed DEF x
  <2> QED
    BY <2>2, <2>3, NotAsked
<1>10. CASE CloseKills
  <2>1. UNCHANGED <<frames, current, patience, asked>>
    BY <1>10 DEF CloseKills
  <2>2. /\ current[Head(frames).of] \in Servers
        /\ wrapper' = [wrapper EXCEPT ![current[Head(frames).of]] = "killed"]
    BY <1>10 DEF CloseKills, Goes, Waiting
  <2>3. wrapper'[current[Head(frames).of]] = "killed"
    BY <2>2, TypedProcesses
  <2> QED
    BY <2>1, <2>2, <2>3 DEF Waiting, Running, Sleeping
<1>11. CASE CloseReturns
  <2>1. frames # <<>> /\ Head(frames).kind = "close" /\ frames' = Rest
    BY <1>11 DEF CloseReturns, Top
  <2>2. Rest # <<>> => Head(Rest).kind # "close"
    BY <2>1, TypedFrames, WellPopped DEF Frames, Rest
  <2> QED
    BY <2>1, <2>2, NotAsked
<1>12. ASSUME NEW order \in SetToSeqs(Started), BackendCloses(order) PROVE Waiting'
  <2>1. frames' = <<>>
    BY <1>12 DEF BackendCloses, ParentEnds, Loop
  <2> QED
    BY <2>1, NotAsked
<1>13. CASE BackendClosesNext
  <2>1. /\ CallClose(Head(toClose), frames) /\ frames = <<>> /\ Head(toClose) \in Services
        /\ UNCHANGED current
    BY <1>13, Popped DEF BackendClosesNext, Loop, TypeOK
  <2> QED
    BY <2>1, Called, WellEmpty, TypedFrames, NotAsked
<1>14. CASE BackendClosed
  <2>1. frames' = <<>>
    BY <1>14 DEF BackendClosed, ParentEnds, Loop
  <2> QED
    BY <2>1, NotAsked
<1>15. CASE Signal
  <2>1. /\ frames' = <<Handling(handler)>> \o frames
        /\ Handling(handler) \in Frame /\ Handling(handler).kind = "signal"
    BY <1>15, FramesMade DEF Signal, TypeOK
  <2>2. Head(frames') = Handling(handler)
    BY <2>1, TypedFrames, Pushed
  <2> QED
    BY <2>1, <2>2, NotAsked
<1>16. CASE RunHandler
  <2>1. /\ frames # <<>> /\ Head(frames).kind = "signal" /\ Head(frames).of # <<>>
        /\ UNCHANGED current
    BY <1>16 DEF RunHandler, Top
  <2>2. /\ Head(frames) \in Frame /\ Rest \in Seq(Frame) /\ Well(Rest, closing, current)
        /\ Head(frames).of \in Seq(Services)
    BY <2>1, OnTop, FrameFields
  <2> DEFINE v == Head(Head(frames).of)
             x == Handling(Tail(Head(frames).of))
  <2>3. v \in Services /\ Tail(Head(frames).of) \in Seq(Services)
    BY <2>1, <2>2, Popped
  <2>4. x \in Frame /\ x.kind = "signal"
    BY <2>3, FramesMade
  <2>5. CallClose(v, <<x>> \o Rest)
    BY <1>16 DEF RunHandler
  <2> HIDE DEF v, x
  <2>6. /\ <<x>> \o Rest \in Seq(Frame) /\ Head(<<x>> \o Rest) = x
        /\ Well(<<x>> \o Rest, closing, current)
    BY <2>2, <2>4, Pushed, WellPushed
  <2> QED
    BY <2>1, <2>3, <2>4, <2>5, <2>6, Called, NotAsked
<1>17. CASE Raises
  <2>1. /\ frames # <<>> /\ Head(frames).kind = "signal" /\ Rest # <<>>
        /\ frames' = <<Head(frames)>> \o Tail(Rest)
    BY <1>17 DEF Raises, Top
  <2>2. Head(frames) \in Frame /\ Tail(Rest) \in Seq(Frame)
    BY <2>1, OnTop, Popped
  <2>3. Head(frames') = Head(frames)
    BY <2>1, <2>2, Pushed
  <2> QED
    BY <2>1, <2>3, NotAsked
<1>18. CASE Raised
  <2>1. \/ frames' = <<>> \/ frames' = <<Exiting>>
        \/ frames' = Rest /\ Head(Rest).kind = "exit"
    BY <1>18 DEF Raised
  <2> QED
    BY <2>1, NotAsked DEF Exiting
<1>19. CASE ExitCloses
  <2>1. /\ CallClose(Head(callbacks), frames) /\ Head(callbacks) \in Services
        /\ frames # <<>> /\ Head(frames).kind = "exit" /\ UNCHANGED current
    BY <1>19, Popped DEF ExitCloses, Top, TypeOK
  <2> QED
    BY <2>1, Called, TypedFrames, NotAsked DEF Frames
<1>20. CASE Exited
  <2>1. frames' = <<>>
    BY <1>20 DEF Exited, ParentEnds, Loop
  <2> QED
    BY <2>1, NotAsked
<1>21. CASE Exit
  <2>1. frames' = <<Exiting>>
    BY <1>21 DEF Exit
  <2> QED
    BY <2>1, NotAsked DEF Exiting
<1>22. CASE ParentDies
  <2>1. frames' = <<>>
    BY <1>22 DEF ParentDies, ParentEnds, Loop
  <2> QED
    BY <2>1, NotAsked
<1>23. CASE UNCHANGED vars
  BY <1>23 DEF vars, Waiting, Top, Running, Remaining
<1> QED
  BY <1>1, <1>2, <1>3, <1>4, <1>5, <1>6, <1>7, <1>8, <1>9, <1>10, <1>11, <1>12, <1>13, <1>14,
     <1>15, <1>16, <1>17, <1>18, <1>19, <1>20, <1>21, <1>22, <1>23
     DEF Next, Service, Closing, Backend, Ending, Unwinding


LEMMA LetGoStep == TypeOK /\ Wrappers /\ LetGo /\ [Next]_vars => LetGo'
<1> SUFFICES ASSUME TypeOK /\ Wrappers /\ LetGo, [Next]_vars PROVE LetGo'
  OBVIOUS
<1> USE DEF processVars, wrapperVars, serviceVars, signalVars, backendVars, historyVars,
   NotClosed, NotProcesses
<1>0. StaysEnded
  BY EndedStays
<1> USE <1>0
<1>1. CASE Tick
  <2>1. UNCHANGED <<parent, owner, doubled, current>>
    BY <1>1 DEF Tick, Passes
  <2> QED
    BY <2>1 DEF LetGo, StaysEnded
<1>2. ASSUME NEW s \in Servers, ProcessStep(s) PROVE LetGo'
  <2>1. UNCHANGED <<parent, owner, doubled, current>>
    BY <1>2 DEF ProcessStep, Wrapper, Boot, PollLoop, GraceEnds, SweepEnds, LeaderExits,
       HelpersExit, WrapperLost, Goes
  <2> QED
    BY <2>1 DEF LetGo, StaysEnded
<1>3. ASSUME NEW v \in Services, NEW s \in Servers, Start(v, s) PROVE LetGo'
  <2>1. /\ owner' = [owner EXCEPT ![s] = v] /\ current' = [current EXCEPT ![v] = s]
        /\ doubled' = (IF current[v] # NoServer THEN doubled \cup {v} ELSE doubled)
        /\ parent
    BY <1>3 DEF Start, Loop
  <2>2. owner \in [Servers -> Services \cup {NoService}] /\ NoServer \notin Servers
        /\ current \in [Services -> Servers \cup {NoServer}]
    BY ServicesAssumption DEF TypeOK
  <2>3. SUFFICES ASSUME NEW t \in Servers, owner'[t] # NoService, owner'[t] \notin doubled',
                        t # current'[owner'[t]]
                 PROVE  Ended(t)'
    BY DEF LetGo
  <2>4. t # s /\ owner'[t] = owner[t]
    BY <2>1, <2>2, <2>3
  <2>5. t # current[owner[t]] /\ owner[t] \notin doubled
    BY <2>1, <2>2, <2>3, <2>4
  <2> QED
    BY <2>1, <2>3, <2>4, <2>5 DEF LetGo, StaysEnded
<1>4. ASSUME NEW v \in Services, Ready(v) PROVE LetGo'
  <2>1. UNCHANGED <<parent, owner, doubled, current>>
    BY <1>4 DEF Ready
  <2> QED
    BY <2>1 DEF LetGo, StaysEnded
<1>5. ASSUME NEW v \in Services, StartCancelled(v) PROVE LetGo'
  <2>1. UNCHANGED <<parent, owner, doubled, current>>
    BY <1>5 DEF StartCancelled
  <2> QED
    BY <2>1 DEF LetGo, StaysEnded
<1>6. ASSUME NEW v \in Services, Fails(v) PROVE LetGo'
  <2>1. UNCHANGED <<parent, owner, doubled, current>>
    BY <1>6 DEF Fails
  <2> QED
    BY <2>1 DEF LetGo, StaysEnded
<1>7. ASSUME NEW v \in Services, WatchExit(v) PROVE LetGo'
  <2>1. UNCHANGED <<parent, owner, doubled, current>>
    BY <1>7 DEF WatchExit
  <2> QED
    BY <2>1 DEF LetGo, StaysEnded
<1>8. CASE CloseAsks
  <2>1. UNCHANGED <<parent, owner, doubled, current>>
    BY <1>8 DEF CloseAsks
  <2> QED
    BY <2>1 DEF LetGo, StaysEnded
<1>9. CASE CloseReleases
  <2>1. /\ parent /\ UNCHANGED <<owner, doubled, wrapper, leader, helpers>>
        /\ ~ Running(current[Head(frames).of])
        /\ current' = [current EXCEPT ![Head(frames).of] = NoServer]
    BY <1>9 DEF CloseReleases
  <2>2. owner \in [Servers -> Services \cup {NoService}]
        /\ current \in [Services -> Servers \cup {NoServer}]
    BY DEF TypeOK
  <2>3. SUFFICES ASSUME NEW t \in Servers, owner[t] # NoService, owner[t] \notin doubled,
                        t # current'[owner[t]]
                 PROVE  Ended(t)
    BY <2>1 DEF LetGo, Ended, Gone, Running
  <2>4. CASE t = current[Head(frames).of]
    <3>1. /\ ~ Running(t) /\ wrapper[t] # "none"
          /\ wrapper[t] \notin Sleeping \cup {"lost"} => t \notin leader /\ t \notin helpers
      BY <2>1, <2>3, <2>4 DEF Wrappers
    <3> QED
      BY <3>1 DEF Ended, Gone, Running
  <2>5. CASE t # current[Head(frames).of]
    <3>1. t # current[owner[t]]
      BY <2>1, <2>2, <2>3, <2>5
    <3> QED
      BY <2>1, <2>3, <3>1 DEF LetGo
  <2> QED
    BY <2>4, <2>5
<1>10. CASE CloseKills
  <2>1. UNCHANGED <<parent, owner, doubled, current>>
    BY <1>10 DEF CloseKills
  <2> QED
    BY <2>1 DEF LetGo, StaysEnded
<1>11. CASE CloseReturns
  <2>1. UNCHANGED <<parent, owner, doubled, current>>
    BY <1>11 DEF CloseReturns
  <2> QED
    BY <2>1 DEF LetGo, StaysEnded
<1>12. ASSUME NEW order \in SetToSeqs(Started), BackendCloses(order) PROVE LetGo'
  <2>1. UNCHANGED <<parent, owner, doubled, current>>
    BY <1>12 DEF BackendCloses
  <2> QED
    BY <2>1 DEF LetGo, StaysEnded
<1>13. CASE BackendClosesNext
  <2>1. UNCHANGED <<parent, owner, doubled, current>>
    BY <1>13 DEF BackendClosesNext
  <2> QED
    BY <2>1 DEF LetGo, StaysEnded
<1>14. CASE BackendClosed
  <2>1. UNCHANGED <<parent, owner, doubled, current>>
    BY <1>14 DEF BackendClosed
  <2> QED
    BY <2>1 DEF LetGo, StaysEnded
<1>15. CASE Signal
  <2>1. UNCHANGED <<parent, owner, doubled, current>>
    BY <1>15 DEF Signal
  <2> QED
    BY <2>1 DEF LetGo, StaysEnded
<1>16. CASE RunHandler
  <2>1. UNCHANGED <<parent, owner, doubled, current>>
    BY <1>16 DEF RunHandler
  <2> QED
    BY <2>1 DEF LetGo, StaysEnded
<1>17. CASE Raises
  <2>1. UNCHANGED <<parent, owner, doubled, current>>
    BY <1>17 DEF Raises
  <2> QED
    BY <2>1 DEF LetGo, StaysEnded
<1>18. CASE Raised
  <2>1. UNCHANGED <<parent, owner, doubled, current>>
    BY <1>18 DEF Raised
  <2> QED
    BY <2>1 DEF LetGo, StaysEnded
<1>19. CASE ExitCloses
  <2>1. UNCHANGED <<parent, owner, doubled, current>>
    BY <1>19 DEF ExitCloses
  <2> QED
    BY <2>1 DEF LetGo, StaysEnded
<1>20. CASE Exited
  <2>1. ~ parent'
    BY <1>20 DEF Exited, ParentEnds
  <2> QED
    BY <2>1 DEF LetGo
<1>21. CASE Exit
  <2>1. UNCHANGED <<parent, owner, doubled, current>>
    BY <1>21 DEF Exit
  <2> QED
    BY <2>1 DEF LetGo, StaysEnded
<1>22. CASE ParentDies
  <2>1. ~ parent'
    BY <1>22 DEF ParentDies, ParentEnds
  <2> QED
    BY <2>1 DEF LetGo
<1>23. CASE UNCHANGED vars
  BY <1>23 DEF vars, LetGo, StaysEnded
<1> QED
  BY <1>1, <1>2, <1>3, <1>4, <1>5, <1>6, <1>7, <1>8, <1>9, <1>10, <1>11, <1>12, <1>13, <1>14,
     <1>15, <1>16, <1>17, <1>18, <1>19, <1>20, <1>21, <1>22, <1>23
     DEF Next, Service, Closing, Backend, Ending, Unwinding


LEMMA ReleasesStep == TypeOK /\ Frames /\ Releases /\ [Next]_vars => Releases'
<1> SUFFICES ASSUME TypeOK /\ Frames /\ Releases, [Next]_vars PROVE Releases'
  OBVIOUS
<1> USE DEF processVars, wrapperVars, serviceVars, signalVars, backendVars, historyVars,
   NotClosed, NotProcesses
<1>1. CASE Tick
  <2>1. UNCHANGED <<parent, closing, cut, revived, current, frames>>
    BY <1>1 DEF Tick, Passes
  <2> QED
    BY <2>1 DEF Releases
<1>2. ASSUME NEW s \in Servers, ProcessStep(s) PROVE Releases'
  <2>1. UNCHANGED <<parent, closing, cut, revived, current, frames>>
    BY <1>2 DEF ProcessStep, Wrapper, Boot, PollLoop, GraceEnds, SweepEnds, LeaderExits,
       HelpersExit, WrapperLost, Goes
  <2> QED
    BY <2>1 DEF Releases
<1>3. ASSUME NEW v \in Services, NEW s \in Servers, Start(v, s) PROVE Releases'
  <2>1. /\ current' = [current EXCEPT ![v] = s] /\ UNCHANGED <<closing, cut, frames>>
        /\ revived' = (IF v \in closing THEN revived \cup {v} ELSE revived) /\ parent
    BY <1>3 DEF Start, Loop
  <2>2. current \in [Services -> Servers \cup {NoServer}] /\ closing \subseteq Services
    BY DEF TypeOK
  <2> QED
    BY <2>1, <2>2 DEF Releases
<1>4. ASSUME NEW v \in Services, Ready(v) PROVE Releases'
  <2>1. UNCHANGED <<parent, closing, cut, revived, current, frames>>
    BY <1>4 DEF Ready
  <2> QED
    BY <2>1 DEF Releases
<1>5. ASSUME NEW v \in Services, StartCancelled(v) PROVE Releases'
  <2>1. UNCHANGED <<parent, closing, cut, revived, current, frames>>
    BY <1>5 DEF StartCancelled
  <2> QED
    BY <2>1 DEF Releases
<1>6. ASSUME NEW v \in Services, Fails(v) PROVE Releases'
  <2>1. CallClose(v, frames) /\ v \in Services
        /\ UNCHANGED <<current, cut, revived, parent>>
        /\ frames = <<>>
    BY <1>6 DEF Fails, Loop
  <2>2. /\ \A u : Under(frames, u) => Under(frames', u)
        /\ v \in closing \/ Under(frames', v)
        /\ closing' = closing \cup {v}
    BY <2>1, Called, WellEmpty, TypedFrames
  <2> QED
    BY <2>1, <2>2 DEF Releases
<1>7. ASSUME NEW v \in Services, WatchExit(v) PROVE Releases'
  <2>1. UNCHANGED <<current, cut, revived, parent>> /\ frames = <<>>
    BY <1>7 DEF WatchExit, Loop
  <2>2. CASE v \in closing
    BY <1>7, <2>1, <2>2 DEF WatchExit, Releases
  <2>3. CASE v \notin closing
    <3>1. /\ \A u : Under(frames, u) => Under(frames', u)
          /\ v \in closing \/ Under(frames', v)
          /\ closing' = closing \cup {v}
      BY <1>7, <2>1, <2>3, Called, WellEmpty, TypedFrames DEF WatchExit
    <3> QED
      BY <2>1, <3>1 DEF Releases
  <2> QED
    BY <2>2, <2>3
<1>8. CASE CloseAsks
  <2>1. /\ frames # <<>> /\ Head(frames).kind = "close"
        /\ UNCHANGED <<closing, current, cut, revived, parent>>
    BY <1>8 DEF CloseAsks, Top
  <2>2. PICK a \in {"begun", "asked", "released"} :
           frames' = <<[Head(frames) EXCEPT !.at = a]>> \o Rest
    BY <1>8 DEF CloseAsks
  <2>3. \A v : Under(frames', v) <=> Under(frames, v)
    BY <2>1, <2>2, TopMoved
  <2> QED
    BY <2>1, <2>3 DEF Releases
<1>9. CASE CloseReleases
  <2>1. /\ frames # <<>> /\ Head(frames).kind = "close"
        /\ UNCHANGED <<closing, cut, revived, parent>>
        /\ frames' = <<[Head(frames) EXCEPT !.at = "released"]>> \o Rest
        /\ current' = [current EXCEPT ![Head(frames).of] = NoServer]
    BY <1>9 DEF CloseReleases, Top
  <2>2. current \in [Services -> Servers \cup {NoServer}] /\ closing \subseteq Services
    BY DEF TypeOK
  <2>3. \A v : Under(frames', v) <=> Under(frames, v)
    BY <2>1, TopMoved
  <2> QED
    BY <2>1, <2>2, <2>3 DEF Releases
<1>10. CASE CloseKills
  <2>1. UNCHANGED <<parent, closing, cut, revived, current, frames>>
    BY <1>10 DEF CloseKills
  <2> QED
    BY <2>1 DEF Releases
<1>11. CASE CloseReturns
  <2>1. /\ frames # <<>> /\ Head(frames).kind = "close" /\ Head(frames).at = "released"
        /\ frames' = Rest /\ UNCHANGED <<closing, current, cut, revived, parent>>
    BY <1>11 DEF CloseReturns, Top
  <2>2. current[Head(frames).of] = NoServer
    BY <2>1, TypedFrames, WellPopped DEF Frames
  <2> QED
    BY <2>1, <2>2, OnTop DEF Releases
<1>12. ASSUME NEW order \in SetToSeqs(Started), BackendCloses(order) PROVE Releases'
  <2>1. UNCHANGED <<parent, closing, cut, revived, current, frames>>
    BY <1>12 DEF BackendCloses
  <2> QED
    BY <2>1 DEF Releases
<1>13. CASE BackendClosesNext
  <2>1. CallClose(Head(toClose), frames) /\ Head(toClose) \in Services
        /\ UNCHANGED <<current, cut, revived, parent>>
        /\ frames = <<>>
    BY <1>13, Popped DEF BackendClosesNext, Loop, TypeOK
  <2>2. /\ \A u : Under(frames, u) => Under(frames', u)
        /\ Head(toClose) \in closing \/ Under(frames', Head(toClose))
        /\ closing' = closing \cup {Head(toClose)}
    BY <2>1, Called, WellEmpty, TypedFrames
  <2> QED
    BY <2>1, <2>2 DEF Releases
<1>14. CASE BackendClosed
  <2>1. UNCHANGED <<parent, closing, cut, revived, current, frames>>
    BY <1>14 DEF BackendClosed
  <2> QED
    BY <2>1 DEF Releases
<1>15. CASE Signal
  <2>1. /\ frames' = <<Handling(handler)>> \o frames
        /\ UNCHANGED <<closing, current, cut, revived, parent>>
        /\ Handling(handler) \in Frame
    BY <1>15, FramesMade DEF Signal, TypeOK
  <2>2. \A v : Under(frames, v) => Under(frames', v)
    BY <2>1, UnderPushed, TypedFrames
  <2> QED
    BY <2>1, <2>2 DEF Releases
<1>16. CASE RunHandler
  <2>1. /\ frames # <<>> /\ Head(frames).kind = "signal" /\ Head(frames).of # <<>>
        /\ UNCHANGED current
    BY <1>16 DEF RunHandler, Top
  <2>2. /\ Head(frames) \in Frame /\ Rest \in Seq(Frame) /\ Well(Rest, closing, current)
        /\ Head(frames).of \in Seq(Services)
    BY <2>1, OnTop, FrameFields
  <2> DEFINE v == Head(Head(frames).of)
             x == Handling(Tail(Head(frames).of))
  <2>3. v \in Services /\ Tail(Head(frames).of) \in Seq(Services)
    BY <2>1, <2>2, Popped
  <2>4. x \in Frame /\ x.kind = "signal"
    BY <2>3, FramesMade
  <2>5. CallClose(v, <<x>> \o Rest)
    BY <1>16 DEF RunHandler
  <2> HIDE DEF v, x
  <2>6. /\ <<x>> \o Rest \in Seq(Frame) /\ Head(<<x>> \o Rest) = x
        /\ Well(<<x>> \o Rest, closing, current)
    BY <2>2, <2>4, Pushed, WellPushed
  <2>7. /\ \A u : Under(<<x>> \o Rest, u) => Under(frames', u)
        /\ v \in closing \/ Under(frames', v)
        /\ closing' = closing \cup {v}
    BY <2>3, <2>4, <2>5, <2>6, Called
  <2>8. \A u : Under(frames, u) => Under(<<x>> \o Rest, u)
    BY <2>1, <2>2, <2>4, OnTop, UnderPushed
  <2>9. UNCHANGED <<cut, revived, parent>>
    BY <1>16 DEF RunHandler
  <2> QED
    BY <2>1, <2>7, <2>8, <2>9 DEF Releases
<1>17. CASE Raises
  <2>1. /\ frames # <<>> /\ Head(frames).kind = "signal" /\ Rest # <<>>
        /\ frames' = <<Head(frames)>> \o Tail(Rest)
        /\ UNCHANGED <<current, closing, revived, parent>>
        /\ cut \subseteq cut' /\ (Head(Rest).kind = "close" => Head(Rest).of \in cut')
    BY <1>17 DEF Raises, Top
  <2>2. Head(frames) \in Frame /\ Rest \in Seq(Frame) /\ Tail(Rest) \in Seq(Frame)
    BY <2>1, OnTop, Popped
  <2>3. \A v : Under(frames, v)
                   => (Head(Rest).kind = "close" /\ Head(Rest).of = v) \/ Under(Tail(Rest), v)
    BY <2>1, <2>2, OnTop, UnderPopped
  <2>4. \A v : Under(Tail(Rest), v) => Under(frames', v)
    BY <2>1, <2>2, UnderPushed
  <2> QED
    BY <2>1, <2>3, <2>4 DEF Releases
<1>18. CASE Raised
  <2>1. /\ frames # <<>> /\ Head(frames).kind = "signal"
        /\ Rest = <<>> \/ frames' = Rest
        /\ UNCHANGED <<current, closing, cut, revived, parent>>
    BY <1>18 DEF Raised, Top
  <2>2. \A v : Under(frames, v) => Under(frames', v)
    BY <2>1, OnTop, UnderNothing
  <2> QED
    BY <2>1, <2>2 DEF Releases
<1>19. CASE ExitCloses
  <2>1. /\ CallClose(Head(callbacks), frames) /\ Head(callbacks) \in Services
        /\ frames # <<>> /\ Head(frames).kind = "exit"
        /\ UNCHANGED <<current, cut, revived, parent>>
    BY <1>19, Popped DEF ExitCloses, Top, TypeOK
  <2>2. /\ \A u : Under(frames, u) => Under(frames', u)
        /\ Head(callbacks) \in closing \/ Under(frames', Head(callbacks))
        /\ closing' = closing \cup {Head(callbacks)}
    BY <2>1, Called, TypedFrames DEF Frames
  <2> QED
    BY <2>1, <2>2 DEF Releases
<1>20. CASE Exited
  <2>1. ~ parent'
    BY <1>20 DEF Exited, ParentEnds
  <2> QED
    BY <2>1 DEF Releases
<1>21. CASE Exit
  <2>1. frames = <<>> /\ UNCHANGED <<closing, current, cut, revived, parent>>
    BY <1>21 DEF Exit, Loop
  <2> QED
    BY <2>1, UnderNothing DEF Releases
<1>22. CASE ParentDies
  <2>1. ~ parent'
    BY <1>22 DEF ParentDies, ParentEnds
  <2> QED
    BY <2>1 DEF Releases
<1>23. CASE UNCHANGED vars
  BY <1>23 DEF vars, Releases
<1> QED
  BY <1>1, <1>2, <1>3, <1>4, <1>5, <1>6, <1>7, <1>8, <1>9, <1>10, <1>11, <1>12, <1>13, <1>14,
     <1>15, <1>16, <1>17, <1>18, <1>19, <1>20, <1>21, <1>22, <1>23
     DEF Next, Service, Closing, Backend, Ending, Unwinding


LEMMA ClosesAllStep ==
    ASSUME TypeOK, TypeOK', LetGo, Releases, ClosesAll, [Next]_vars
    PROVE  ClosesAll'
<1> USE DEF processVars, wrapperVars, serviceVars, signalVars, backendVars, historyVars,
   NotClosed, NotProcesses
<1>0. StaysEnded
  BY EndedStays
<1> USE <1>0
<1>1. CASE Tick
  <2>1. /\ UNCHANGED <<parent, owner, backend, toClose, doubled, revived>>
        /\ cut \subseteq cut' /\ closing \subseteq closing'
    BY <1>1 DEF Tick, Passes, CallClose
  <2> QED
    BY <2>1 DEF ClosesAll, Orderly, StaysEnded
<1>2. ASSUME NEW s \in Servers, ProcessStep(s) PROVE ClosesAll'
  <2>1. /\ UNCHANGED <<parent, owner, backend, toClose, doubled, revived>>
        /\ cut \subseteq cut' /\ closing \subseteq closing'
    BY <1>2 DEF ProcessStep, Wrapper, Boot, PollLoop, GraceEnds, SweepEnds, LeaderExits,
       HelpersExit, WrapperLost, Goes, CallClose
  <2> QED
    BY <2>1 DEF ClosesAll, Orderly, StaysEnded
<1>3. ASSUME NEW v \in Services, NEW s \in Servers, Start(v, s) PROVE ClosesAll'
  <2>1. /\ backend = "open" /\ UNCHANGED backend
    BY <1>3 DEF Start
  <2> QED
    BY <2>1 DEF ClosesAll
<1>4. ASSUME NEW v \in Services, Ready(v) PROVE ClosesAll'
  <2>1. /\ UNCHANGED <<parent, owner, backend, toClose, doubled, revived>>
        /\ cut \subseteq cut' /\ closing \subseteq closing'
    BY <1>4 DEF Ready, CallClose
  <2> QED
    BY <2>1 DEF ClosesAll, Orderly, StaysEnded
<1>5. ASSUME NEW v \in Services, StartCancelled(v) PROVE ClosesAll'
  <2>1. /\ UNCHANGED <<parent, owner, backend, toClose, doubled, revived>>
        /\ cut \subseteq cut' /\ closing \subseteq closing'
    BY <1>5 DEF StartCancelled, CallClose
  <2> QED
    BY <2>1 DEF ClosesAll, Orderly, StaysEnded
<1>6. ASSUME NEW v \in Services, Fails(v) PROVE ClosesAll'
  <2>1. /\ UNCHANGED <<parent, owner, backend, toClose, doubled, revived>>
        /\ cut \subseteq cut' /\ closing \subseteq closing'
    BY <1>6 DEF Fails, CallClose
  <2> QED
    BY <2>1 DEF ClosesAll, Orderly, StaysEnded
<1>7. ASSUME NEW v \in Services, WatchExit(v) PROVE ClosesAll'
  <2>1. /\ UNCHANGED <<parent, owner, backend, toClose, doubled, revived>>
        /\ cut \subseteq cut' /\ closing \subseteq closing'
    BY <1>7 DEF WatchExit, CallClose
  <2> QED
    BY <2>1 DEF ClosesAll, Orderly, StaysEnded
<1>8. CASE CloseAsks
  <2>1. /\ UNCHANGED <<parent, owner, backend, toClose, doubled, revived>>
        /\ cut \subseteq cut' /\ closing \subseteq closing'
    BY <1>8 DEF CloseAsks, CallClose
  <2> QED
    BY <2>1 DEF ClosesAll, Orderly, StaysEnded
<1>9. CASE CloseReleases
  <2>1. /\ UNCHANGED <<parent, owner, backend, toClose, doubled, revived>>
        /\ cut \subseteq cut' /\ closing \subseteq closing'
    BY <1>9 DEF CloseReleases, CallClose
  <2> QED
    BY <2>1 DEF ClosesAll, Orderly, StaysEnded
<1>10. CASE CloseKills
  <2>1. /\ UNCHANGED <<parent, owner, backend, toClose, doubled, revived>>
        /\ cut \subseteq cut' /\ closing \subseteq closing'
    BY <1>10 DEF CloseKills, CallClose
  <2> QED
    BY <2>1 DEF ClosesAll, Orderly, StaysEnded
<1>11. CASE CloseReturns
  <2>1. /\ UNCHANGED <<parent, owner, backend, toClose, doubled, revived>>
        /\ cut \subseteq cut' /\ closing \subseteq closing'
    BY <1>11 DEF CloseReturns, CallClose
  <2> QED
    BY <2>1 DEF ClosesAll, Orderly, StaysEnded
<1>12. ASSUME NEW order \in SetToSeqs(Started), BackendCloses(order) PROVE ClosesAll'
  <2>1. /\ backend' = "closing" /\ toClose' = order /\ UNCHANGED owner
        /\ ToSet(order) = Started
    BY <1>12 DEF BackendCloses
  <2>2. toClose' \in Seq(Services)
    BY DEF TypeOK
  <2>3. \A s \in Servers : owner[s] # NoService => owner[s] \in Started
    BY DEF Started, TypeOK
  <2>4. \A u \in Started : \E i \in 1 .. Len(order) : order[i] = u
    BY <2>1, <2>2 DEF ToSet
  <2> QED
    BY <2>1, <2>3, <2>4 DEF ClosesAll
<1>13. CASE BackendClosesNext
  <2>1. /\ backend = "closing" /\ toClose # <<>> /\ CallClose(Head(toClose), frames)
        /\ toClose' = Tail(toClose) /\ UNCHANGED <<backend, owner, parent>> /\ parent
    BY <1>13 DEF BackendClosesNext, Loop
  <2>2. /\ Len(toClose) \in Nat /\ Len(Tail(toClose)) = Len(toClose) - 1
        /\ Head(toClose) = toClose[1]
        /\ \A i \in 2 .. Len(toClose) : toClose[i] = Tail(toClose)[i - 1]
    BY <2>1, Popped DEF TypeOK
  <2>3. closing \subseteq closing' /\ Head(toClose) \in closing'
    BY <2>1 DEF CallClose
  <2>4. SUFFICES ASSUME NEW s \in Servers, owner[s] # NoService
                 PROVE  owner[s] \in closing'
                        \/ \E i \in 1 .. Len(Tail(toClose)) : Tail(toClose)[i] = owner[s]
    BY <2>1 DEF ClosesAll
  <2>5. CASE owner[s] \in closing
    BY <2>3, <2>5
  <2>6. ASSUME NEW i \in 1 .. Len(toClose), toClose[i] = owner[s]
        PROVE  owner[s] \in closing'
               \/ \E k \in 1 .. Len(Tail(toClose)) : Tail(toClose)[k] = owner[s]
    <3>1. CASE i = 1
      BY <2>2, <2>3, <2>6, <3>1
    <3>2. CASE i # 1
      <4>1. i \in 2 .. Len(toClose) /\ i - 1 \in 1 .. Len(Tail(toClose))
        BY <2>2, <2>6, <3>2
      <4> QED
        BY <2>2, <2>6, <4>1
    <3> QED
      BY <3>1, <3>2
  <2> QED
    BY <2>1, <2>4, <2>5, <2>6 DEF ClosesAll
<1>14. CASE BackendClosed
  <2>1. /\ backend = "closing" /\ toClose = <<>> /\ parent /\ frames = <<>>
        /\ backend' = "closed" /\ UNCHANGED <<owner, doubled, revived, cut>>
    BY <1>14 DEF BackendClosed, Loop
  <2>2. SUFFICES ASSUME NEW s \in Servers, owner[s] # NoService, Orderly(owner[s])
                 PROVE  Ended(s)
    BY <2>1 DEF ClosesAll, Orderly, StaysEnded
  <2>3. owner[s] \in closing
    BY <2>1, <2>2 DEF ClosesAll
  <2>4. current[owner[s]] = NoServer
    BY <2>1, <2>2, <2>3, UnderNothing DEF Releases, Orderly
  <2> QED
    BY <2>1, <2>2, <2>4, ServicesAssumption DEF LetGo, Orderly
<1>15. CASE Signal
  <2>1. /\ UNCHANGED <<parent, owner, backend, toClose, doubled, revived>>
        /\ cut \subseteq cut' /\ closing \subseteq closing'
    BY <1>15 DEF Signal, CallClose
  <2> QED
    BY <2>1 DEF ClosesAll, Orderly, StaysEnded
<1>16. CASE RunHandler
  <2>1. /\ UNCHANGED <<parent, owner, backend, toClose, doubled, revived>>
        /\ cut \subseteq cut' /\ closing \subseteq closing'
    BY <1>16 DEF RunHandler, CallClose
  <2> QED
    BY <2>1 DEF ClosesAll, Orderly, StaysEnded
<1>17. CASE Raises
  <2>1. /\ UNCHANGED <<parent, owner, backend, toClose, doubled, revived>>
        /\ cut \subseteq cut' /\ closing \subseteq closing'
    BY <1>17 DEF Raises, CallClose
  <2> QED
    BY <2>1 DEF ClosesAll, Orderly, StaysEnded
<1>18. CASE Raised
  <2>1. /\ UNCHANGED <<owner, doubled, revived, cut>>
        /\ backend = "closing" => backend' = "open"
        /\ backend # "closing" => backend' = backend
    BY <1>18 DEF Raised
  <2> QED
    BY <2>1 DEF ClosesAll, Orderly, StaysEnded
<1>19. CASE ExitCloses
  <2>1. /\ UNCHANGED <<parent, owner, backend, toClose, doubled, revived>>
        /\ cut \subseteq cut' /\ closing \subseteq closing'
    BY <1>19 DEF ExitCloses, CallClose
  <2> QED
    BY <2>1 DEF ClosesAll, Orderly, StaysEnded
<1>20. CASE Exited
  <2>1. ~ parent' /\ UNCHANGED <<owner, doubled, revived, cut, backend>>
    BY <1>20 DEF Exited, ParentEnds
  <2> QED
    BY <2>1 DEF ClosesAll, Orderly, StaysEnded
<1>21. CASE Exit
  <2>1. /\ UNCHANGED <<parent, owner, backend, toClose, doubled, revived>>
        /\ cut \subseteq cut' /\ closing \subseteq closing'
    BY <1>21 DEF Exit, CallClose
  <2> QED
    BY <2>1 DEF ClosesAll, Orderly, StaysEnded
<1>22. CASE ParentDies
  <2>1. ~ parent' /\ UNCHANGED <<owner, doubled, revived, cut, backend>>
    BY <1>22 DEF ParentDies, ParentEnds
  <2> QED
    BY <2>1 DEF ClosesAll, Orderly, StaysEnded
<1>23. CASE UNCHANGED vars
  BY <1>23 DEF vars, ClosesAll, StaysEnded, Orderly
<1> QED
  BY <1>1, <1>2, <1>3, <1>4, <1>5, <1>6, <1>7, <1>8, <1>9, <1>10, <1>11, <1>12, <1>13, <1>14,
     <1>15, <1>16, <1>17, <1>18, <1>19, <1>20, <1>21, <1>22, <1>23
     DEF Next, Service, Closing, Backend, Ending, Unwinding


LEMMA ChainedStep == TypeOK /\ Chained /\ [Next]_vars => Chained'
<1> SUFFICES ASSUME TypeOK /\ Chained, [Next]_vars PROVE Chained'
  OBVIOUS
<1> USE DEF processVars, wrapperVars, serviceVars, signalVars, backendVars, historyVars,
   NotClosed, NotProcesses
<1>1. CASE Tick
  <2>1. UNCHANGED <<parent, callbacks, handler, saved, disordered, frames>>
    BY <1>1 DEF Tick, Passes
  <2> QED
    BY <2>1 DEF Chained
<1>2. ASSUME NEW s \in Servers, ProcessStep(s) PROVE Chained'
  <2>1. UNCHANGED <<parent, callbacks, handler, saved, disordered, frames>>
    BY <1>2 DEF ProcessStep, Wrapper, Boot, PollLoop, GraceEnds, SweepEnds, LeaderExits,
       HelpersExit, WrapperLost, Goes
  <2> QED
    BY <2>1 DEF Chained
<1>3. ASSUME NEW v \in Services, NEW s \in Servers, Start(v, s) PROVE Chained'
  <2>1. /\ InstallParentCleanup(v) /\ UNCHANGED <<parent, frames, disordered>>
    BY <1>3 DEF Start
  <2>2. /\ callbacks \in Seq(Services) /\ handler \in Seq(Services)
        /\ saved \in [Services -> Seq(Services)]
    BY DEF TypeOK
  <2>3. SUFFICES ASSUME Linked(callbacks, handler, saved)
                 PROVE  Linked(callbacks', handler', saved')
    BY <2>1 DEF Chained
  <2>4. handler = callbacks /\ Linked(callbacks, callbacks, saved)
    BY <2>3 DEF Linked
  <2>5. CASE v \in ToSet(callbacks)
    BY <2>1, <2>3, <2>5 DEF InstallParentCleanup
  <2>6. CASE v \notin ToSet(callbacks)
    <3>1. /\ callbacks' = <<v>> \o callbacks /\ handler' = <<v>> \o callbacks
          /\ saved' = [saved EXCEPT ![v] = callbacks]
      BY <2>1, <2>4, <2>6 DEF InstallParentCleanup
    <3>2. Linked(<<v>> \o callbacks, <<v>> \o callbacks, [saved EXCEPT ![v] = callbacks])
      BY <2>2, <2>4, <2>6, LinkedPushed
    <3> QED
      BY <3>1, <3>2, Zenon
  <2> QED
    BY <2>5, <2>6
<1>4. ASSUME NEW v \in Services, Ready(v) PROVE Chained'
  <2>1. UNCHANGED <<parent, callbacks, handler, saved, disordered, frames>>
    BY <1>4 DEF Ready
  <2> QED
    BY <2>1 DEF Chained
<1>5. ASSUME NEW v \in Services, StartCancelled(v) PROVE Chained'
  <2>1. UNCHANGED <<parent, callbacks, handler, saved, disordered, frames>>
    BY <1>5 DEF StartCancelled
  <2> QED
    BY <2>1 DEF Chained
<1>6. ASSUME NEW v \in Services, Fails(v) PROVE Chained'
  <2>1. v \in Services /\ frames \in Seq(Frame) /\ CallClose(v, frames)
    BY <1>6, TypedFrames, Popped DEF Fails, TypeOK
  <2>2. ExitIn(frames) => ExitIn(frames')
    BY <2>1, ExitCalled
  <2>3. UNCHANGED <<parent, callbacks, handler, saved, disordered>>
    BY <1>6 DEF Fails
  <2> QED
    BY <2>2, <2>3 DEF Chained
<1>7. ASSUME NEW v \in Services, WatchExit(v) PROVE Chained'
  <2>1. CASE v \in closing
    BY <1>7, <2>1 DEF WatchExit, Chained
  <2>2. CASE v \notin closing
    <3>1. CallClose(v, frames) /\ UNCHANGED <<parent, callbacks, handler, saved, disordered>>
      BY <1>7, <2>2 DEF WatchExit
    <3>2. ExitIn(frames) => ExitIn(frames')
      BY <3>1, TypedFrames, ExitCalled
    <3> QED
      BY <3>1, <3>2 DEF Chained
  <2> QED
    BY <2>1, <2>2
<1>8. CASE CloseAsks
  <2>1. /\ frames \in Seq(Frame) /\ frames # <<>> /\ Head(frames) \in Frame
        /\ Tail(frames) \in Seq(Frame) /\ Head(frames).kind = "close"
    BY <1>8, TypedFrames, Popped DEF CloseAsks, Top
  <2>2. \E a \in {"begun", "asked", "released"} :
            frames' = <<[Head(frames) EXCEPT !.at = a]>> \o Tail(frames)
    BY <1>8 DEF CloseAsks, Rest
  <2>3. ExitIn(frames) => ExitIn(frames')
    <3>1. PICK a \in {"begun", "asked", "released"} :
              frames' = <<[Head(frames) EXCEPT !.at = a]>> \o Tail(frames)
      BY <2>2
    <3>2. PICK x : x = [Head(frames) EXCEPT !.at = a]
      OBVIOUS
    <3>3. x \in Frame /\ frames' = <<x>> \o Tail(frames)
      BY <2>1, <3>1, <3>2, Moved
    <3> QED
      BY <2>1, <3>3, ExitPopped, ExitPushed
  <2>4. UNCHANGED <<parent, callbacks, handler, saved, disordered>>
    BY <1>8 DEF CloseAsks
  <2> QED
    BY <2>3, <2>4 DEF Chained
<1>9. CASE CloseReleases
  <2>1. /\ frames \in Seq(Frame) /\ frames # <<>> /\ Head(frames) \in Frame
        /\ Tail(frames) \in Seq(Frame) /\ Head(frames).kind = "close"
    BY <1>9, TypedFrames, Popped DEF CloseReleases, Top
  <2>2. \E a \in {"begun", "asked", "released"} :
            frames' = <<[Head(frames) EXCEPT !.at = a]>> \o Tail(frames)
    BY <1>9 DEF CloseReleases, Rest
  <2>3. ExitIn(frames) => ExitIn(frames')
    <3>1. PICK a \in {"begun", "asked", "released"} :
              frames' = <<[Head(frames) EXCEPT !.at = a]>> \o Tail(frames)
      BY <2>2
    <3>2. PICK x : x = [Head(frames) EXCEPT !.at = a]
      OBVIOUS
    <3>3. x \in Frame /\ frames' = <<x>> \o Tail(frames)
      BY <2>1, <3>1, <3>2, Moved
    <3> QED
      BY <2>1, <3>3, ExitPopped, ExitPushed
  <2>4. UNCHANGED <<parent, callbacks, handler, saved, disordered>>
    BY <1>9 DEF CloseReleases
  <2> QED
    BY <2>3, <2>4 DEF Chained
<1>10. CASE CloseKills
  <2>1. UNCHANGED <<parent, callbacks, handler, saved, disordered, frames>>
    BY <1>10 DEF CloseKills
  <2> QED
    BY <2>1 DEF Chained
<1>11. CASE CloseReturns
  <2>1. /\ frames \in Seq(Frame) /\ frames # <<>> /\ Head(frames) \in Frame
        /\ Head(frames).kind = "close" /\ Restore(Head(frames).of)
        /\ frames' = Tail(frames) /\ UNCHANGED <<parent, saved>>
    BY <1>11, TypedFrames, Popped DEF CloseReturns, Top, Rest
  <2>2. ExitIn(frames) => ExitIn(frames')
    BY <2>1, ExitPopped
  <2>3. Head(frames).of \in Services
    BY <2>1, CloseFields
  <2>4. disordered => disordered'
    BY <2>1 DEF Restore
  <2>5. SUFFICES ASSUME ~disordered', Linked(callbacks, handler, saved)
                 PROVE  Linked(callbacks', handler', saved')
    BY <2>1, <2>2, <2>4 DEF Chained
  <2> QED
    BY <2>1, <2>3, <2>5, LinkedRestored
<1>12. ASSUME NEW order \in SetToSeqs(Started), BackendCloses(order) PROVE Chained'
  <2>1. UNCHANGED <<parent, callbacks, handler, saved, disordered, frames>>
    BY <1>12 DEF BackendCloses
  <2> QED
    BY <2>1 DEF Chained
<1>13. CASE BackendClosesNext
  <2>1. Head(toClose) \in Services /\ frames \in Seq(Frame) /\ CallClose(Head(toClose), frames)
    BY <1>13, TypedFrames, Popped DEF BackendClosesNext, TypeOK
  <2>2. ExitIn(frames) => ExitIn(frames')
    BY <2>1, ExitCalled
  <2>3. UNCHANGED <<parent, callbacks, handler, saved, disordered>>
    BY <1>13 DEF BackendClosesNext
  <2> QED
    BY <2>2, <2>3 DEF Chained
<1>14. CASE BackendClosed
  <2>1. UNCHANGED <<parent, callbacks, handler, saved, disordered, frames>>
    BY <1>14 DEF BackendClosed
  <2> QED
    BY <2>1 DEF Chained
<1>15. CASE Signal
  <2>1. PICK x : x = Handling(handler)
    OBVIOUS
  <2>2. x \in Frame /\ frames' = <<x>> \o frames
    BY <1>15, <2>1, FramesMade DEF Signal, TypeOK
  <2>3. ExitIn(frames) => ExitIn(frames')
    BY <2>2, TypedFrames, ExitPushed
  <2> QED
    BY <1>15, <2>3 DEF Signal, Chained
<1>16. CASE RunHandler
  <2>1. /\ frames \in Seq(Frame) /\ frames # <<>> /\ Head(frames) \in Frame
        /\ Tail(frames) \in Seq(Frame) /\ Head(frames).kind = "signal"
        /\ Head(frames).of # <<>>
    BY <1>16, TypedFrames, Popped DEF RunHandler, Top
  <2>2. Head(frames).of \in Seq(Services)
    BY <2>1, FrameFields
  <2>3. Head(Head(frames).of) \in Services /\ Tail(Head(frames).of) \in Seq(Services)
    BY <2>1, <2>2, Popped
  <2>4. PICK x : x = Handling(Tail(Head(frames).of))
    OBVIOUS
  <2>5. x \in Frame
    BY <2>3, <2>4, FramesMade
  <2>6. CallClose(Head(Head(frames).of), <<x>> \o Tail(frames))
    BY <1>16, <2>4 DEF RunHandler, Rest
  <2>7. <<x>> \o Tail(frames) \in Seq(Frame)
    BY <2>1, <2>5, Pushed
  <2>8. ExitIn(<<x>> \o Tail(frames)) => ExitIn(frames')
    BY <2>3, <2>6, <2>7, ExitCalled
  <2>9. ExitIn(frames) => ExitIn(frames')
    BY <2>1, <2>5, <2>8, ExitPopped, ExitPushed
  <2> QED
    BY <1>16, <2>9 DEF RunHandler, Chained
<1>17. CASE Raises
  <2>1. /\ frames \in Seq(Frame) /\ frames # <<>> /\ Head(frames) \in Frame
        /\ Rest = Tail(frames) /\ Rest \in Seq(Frame) /\ Rest # <<>>
        /\ Head(frames).kind = "signal"
    BY <1>17, TypedFrames, Popped DEF Raises, Top, Rest
  <2>2. Head(Rest) \in Frame /\ Tail(Rest) \in Seq(Frame) /\ Head(Rest).kind # "exit"
        /\ frames' = <<Head(frames)>> \o Tail(Rest)
    BY <1>17, <2>1, Popped DEF Raises
  <2>3. ExitIn(frames) => ExitIn(frames')
    BY <2>1, <2>2, ExitPopped, ExitPushed
  <2>4. UNCHANGED <<parent, saved>>
    BY <1>17 DEF Raises
  <2>5. CASE Head(Rest).kind = "close"
    <3>1. Restore(Head(Rest).of) /\ Head(Rest).of \in Services
      BY <1>17, <2>2, <2>5, CloseFields DEF Raises
    <3>2. disordered => disordered'
      BY <3>1 DEF Restore
    <3>3. SUFFICES ASSUME ~disordered', Linked(callbacks, handler, saved)
                   PROVE  Linked(callbacks', handler', saved')
      BY <2>3, <2>4, <3>2 DEF Chained
    <3> QED
      BY <2>4, <3>1, <3>3, LinkedRestored
  <2>6. CASE Head(Rest).kind # "close"
    <3>1. UNCHANGED <<callbacks, handler, disordered>>
      BY <1>17, <2>6 DEF Raises
    <3> QED
      BY <2>3, <2>4, <3>1 DEF Chained
  <2> QED
    BY <2>5, <2>6
<1>18. CASE Raised
  <2>1. /\ frames \in Seq(Frame) /\ frames # <<>> /\ Rest = Tail(frames)
        /\ Head(frames).kind = "signal" /\ Rest \in Seq(Frame)
    BY <1>18, TypedFrames, Popped DEF Raised, Top, Rest
  <2>2. UNCHANGED <<parent, callbacks, handler, saved, disordered>>
    BY <1>18 DEF Raised
  <2>3. CASE Rest = <<>>
    <3>1. ~ExitIn(Rest)
      BY <2>3 DEF ExitIn
    <3>2. ~ExitIn(frames)
      BY <2>1, <3>1, ExitPopped
    <3> QED
      BY <2>2, <3>2 DEF Chained
  <2>4. CASE Rest # <<>>
    <3>1. frames' = Rest /\ Head(Rest).kind = "exit"
      BY <1>18, <2>4 DEF Raised
    <3>2. ExitIn(frames')
      BY <2>1, <2>4, <3>1, ExitPopped
    <3> QED
      BY <3>2 DEF Chained
  <2> QED
    BY <2>3, <2>4
<1>19. CASE ExitCloses
  <2>1. /\ CallClose(Head(callbacks), frames) /\ Head(callbacks) \in Services
        /\ frames \in Seq(Frame) /\ frames # <<>> /\ Head(frames).kind = "exit"
    BY <1>19, TypedFrames, Popped DEF ExitCloses, Top, TypeOK
  <2>2. ExitIn(frames')
    BY <2>1, ExitPopped, ExitCalled
  <2> QED
    BY <2>2 DEF Chained
<1>20. CASE Exited
  <2>1. ~ parent'
    BY <1>20 DEF Exited, ParentEnds
  <2> QED
    BY <2>1 DEF Chained
<1>21. CASE Exit
  <2>1. frames' = <<Exiting>>
    BY <1>21 DEF Exit
  <2>2. ExitIn(frames')
    BY <2>1 DEF ExitIn, Exiting
  <2> QED
    BY <2>2 DEF Chained
<1>22. CASE ParentDies
  <2>1. ~ parent'
    BY <1>22 DEF ParentDies, ParentEnds
  <2> QED
    BY <2>1 DEF Chained
<1>23. CASE UNCHANGED vars
  BY <1>23 DEF vars, Chained
<1> QED
  BY <1>1, <1>2, <1>3, <1>4, <1>5, <1>6, <1>7, <1>8, <1>9, <1>10, <1>11, <1>12, <1>13, <1>14,
     <1>15, <1>16, <1>17, <1>18, <1>19, <1>20, <1>21, <1>22, <1>23
     DEF Next, Service, Closing, Backend, Ending, Unwinding


(***************************************************************************)
(* The invariant.                                                          *)
(***************************************************************************)

LEMMA InitInv == Init => IInv
<1> SUFFICES ASSUME Init PROVE IInv
  OBVIOUS
<1> USE DEF Init, ProcessInit
<1>1. TypeOK
  <2>1. handler \in Seq(Services) /\ toClose \in Seq(Services) /\ frames \in Seq(Frame)
    OBVIOUS
  <2>2. callbacks \in Seq(Services) /\ IsInjective(callbacks)
    BY DEF IsInjective
  <2>3. saved \in [Services -> Seq(Services)]
    OBVIOUS
  <2>4. patience \in 0 .. CloseTimeout /\ signals \in 0 .. MaxSignals
    BY Times
  <2>5. ProcessTypeOK
    BY DEF ProcessTypeOK
  <2>6. /\ owner \in [Servers -> Services \cup {NoService}]
        /\ current \in [Services -> Servers \cup {NoServer}]
        /\ watched \in [Services -> Servers \cup {NoServer}]
        /\ phase \in [Services -> {"idle", "starting", "up"}]
    OBVIOUS
  <2>7. /\ closing \subseteq Services /\ failed \subseteq closing /\ doubled \subseteq Services
        /\ revived \subseteq closing /\ cut \subseteq closing /\ disordered \in BOOLEAN
        /\ backend \in {"open", "closing", "closed"}
    OBVIOUS
  <2> HIDE DEF Init, ProcessInit
  <2> QED
    BY <2>1, <2>2, <2>3, <2>4, <2>5, <2>6, <2>7 DEF TypeOK
<1>2. Wrappers
  BY DEF Wrappers, Sleeping
<1>3. Frames /\ Waiting
  BY WellEmpty DEF Frames, Waiting, Top
<1>4. LetGo /\ Releases /\ ClosesAll
  BY DEF LetGo, Releases, ClosesAll
<1>5. Chained
  BY DEF Chained, Linked
<1> QED
  BY <1>1, <1>2, <1>3, <1>4, <1>5 DEF IInv

LEMMA StepInv == IInv /\ [Next]_vars => IInv'
<1> SUFFICES ASSUME IInv, [Next]_vars PROVE IInv'
  OBVIOUS
<1>1. /\ TypeOK /\ Wrappers /\ Frames /\ Waiting
      /\ LetGo /\ Releases /\ ClosesAll /\ Chained
  BY DEF IInv
<1>2. TypeOK' /\ Frames'
  BY <1>1, TypeOKStep, FramesStep
<1>3. Wrappers' /\ Waiting'
  BY <1>1, WrappersStep, WaitingStep
<1>4. LetGo' /\ Releases'
  BY <1>1, LetGoStep, ReleasesStep
<1>5. ClosesAll'
  BY <1>1, <1>2, ClosesAllStep
<1>6. Chained'
  BY <1>1, ChainedStep
<1> QED
  BY <1>2, <1>3, <1>4, <1>5, <1>6 DEF IInv

\* The invariant: the stack of calls of close() and handlers, how long the one on top still
\* waits against what the wrapper needs, and what that leaves of each server.
THEOREM Invariant == Spec => []IInv
<1>1. Init => IInv
  BY InitInv
<1>2. IInv /\ [Next]_vars => IInv'
  BY StepInv
<1> QED
  BY <1>1, <1>2, PTL DEF Spec

(***************************************************************************)
(* The properties.                                                         *)
(***************************************************************************)

\* When ManagedVllmRuntime.close lets go of a server its whole group is dead, whenever the
\* signals come and whoever calls close() first, and so it is for every service once
\* LocalBackend.close returned: the wrapper always ends the group before close() would kill
\* the wrapper instead.
THEOREM ClosedMeansGoneHolds == Spec => []ClosedMeansGone
<1>1. IInv => ClosedMeansGone
  <2> SUFFICES ASSUME IInv, NEW s \in Servers, owner[s] # NoService, Orderly(owner[s]),
                      backend = "closed" \/ (parent /\ current[owner[s]] = NoServer)
               PROVE  Ended(s)
    BY DEF ClosedMeansGone
  <2>1. CASE backend = "closed"
    BY <2>1 DEF IInv, ClosesAll
  <2>2. CASE parent /\ current[owner[s]] = NoServer
    <3>1. s # NoServer
      BY ServicesAssumption
    <3> QED
      BY <2>2, <3>1 DEF IInv, LetGo, Orderly
  <2> QED
    BY <2>1, <2>2
<1> QED
  BY <1>1, Invariant, PTL

\* install_parent_cleanup and restore_parent_cleanup keep the chain of SIGINT and SIGTERM
\* handlers the services registered with atexit, newest first, as long as they are closed in
\* that order; and every variable keeps its type.
THEOREM SignalClosesAllHolds == Spec => []SignalClosesAll
<1>1. IInv => SignalClosesAll
  <2> SUFFICES ASSUME IInv PROVE SignalClosesAll
    OBVIOUS
  <2>1. TypeOK /\ Chained /\ frames \in Seq(Frame)
    BY TypedFrames DEF IInv
  <2>2. ExitIn(frames) => InExit
    BY <2>1 DEF ExitIn, InExit
  <2> QED
    BY <2>1, <2>2 DEF SignalClosesAll, Chained, Linked
<1> QED
  BY <1>1, Invariant, PTL

=============================================================================
