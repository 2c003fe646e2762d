------------------------ MODULE UnslothTrainingProofs ------------------------
(***************************************************************************)
(* Theorems about UnslothTraining, for any number of calls and items, and  *)
(* through every failure: in shared mode the trainer and vLLM are never on *)
(* the GPU together, vLLM serves whole training calls only, and updates    *)
(* are made on the GPU with momentum of their own mode.                    *)
(***************************************************************************)
EXTENDS UnslothTraining, SequenceTheorems, TLAPS

(***************************************************************************)
(* The GPU.                                                                *)
(***************************************************************************)
\* A call has a place, and the parameters are off the GPU when vLLM is to be woken up.
TurnsInv ==
    /\ "pc" \in DOMAIN call
    /\ mode = "shared" /\ At("wake") => placed = "cpu"
    /\ GpuExclusive

LEMMA InitTurns == Init => TurnsInv
  BY DEF Init, TurnsInv, GpuExclusive, At, Idle

\* A call that raises is over or waits for the trainer to stop, and vLLM is not woken up.
LEMMA RaisePreserves ==
    ASSUME TurnsInv, NEW next, next = Idle, StopTrainer(next), UNCHANGED <<mode, placed>>
    PROVE  TurnsInv'
  BY DEF StopTrainer, TurnsInv, GpuExclusive, At, Idle

LEMMA StepTurns == TurnsInv /\ [Next]_vars => TurnsInv'
<1> SUFFICES ASSUME TurnsInv, [Next]_vars PROVE TurnsInv'
  OBVIOUS
<1> USE DEF server, model, tasks, marks
<1>1. CASE Stopped
  BY <1>1 DEF Stopped, TurnsInv, GpuExclusive, At, Idle
<1>2. CASE Sleep
  BY <1>2 DEF Sleep, To, ModeSet, TurnsInv, GpuExclusive, At
<1>3. CASE Join
  BY <1>3 DEF Join, Feed, TurnsInv, GpuExclusive, At
<1>4. CASE TrainStep
  BY <1>4 DEF TrainStep, TurnsInv, GpuExclusive, At
<1>5. CASE TrainStops \/ TrainFails
  BY <1>5 DEF TrainStops, TrainFails, TurnsInv, GpuExclusive, At
<1>6. CASE WarmedUp
  BY <1>6 DEF WarmedUp, To, TurnsInv, GpuExclusive, At
<1>7. CASE Rested
  BY <1>7 DEF Rested, Feed, TurnsInv, GpuExclusive, At
<1>8. CASE Yield
  BY <1>8 DEF Yield, Feed, To, TurnsInv, GpuExclusive, At
<1>9. CASE TrainerOver
  BY <1>9, RaisePreserves DEF TrainerOver, Raise
<1>10. CASE SftBatch
  BY <1>10 DEF SftBatch, To, TurnsInv, GpuExclusive, At
<1>11. CASE Save
  BY <1>11 DEF Save, To, TurnsInv, GpuExclusive, At
<1>12. CASE Wake
  BY <1>12 DEF Wake, To, TurnsInv, GpuExclusive, At
<1>13. CASE Reload
  BY <1>13 DEF Reload, TurnsInv, GpuExclusive, At, Idle
<1>14. CASE LoopEnds
  BY <1>14 DEF LoopEnds, TurnsInv, GpuExclusive, At
<1>15. CASE \E kind \in {"rl", "sft"} : StartRefused(kind)
  BY <1>15, RaisePreserves DEF StartRefused
<1>16. CASE \E kind \in {"rl", "sft"}, n \in 1 .. MaxItems : Start(kind, n)
  BY <1>16 DEF Start, Begun, ModeSet, TurnsInv, GpuExclusive, At
<1>17. CASE StepFails
  BY <1>17, RaisePreserves DEF StepFails, Raise
<1>18. CASE Cancel
  BY <1>18, RaisePreserves DEF Cancel, Raise
<1>19. CASE VllmExits
  BY <1>19 DEF VllmExits, TurnsInv, GpuExclusive, At
<1>20. CASE BackendCloses
  BY <1>20, RaisePreserves DEF BackendCloses
<1>21. CASE BackendClosesNow
  BY <1>21 DEF BackendClosesNow, TurnsInv, GpuExclusive, At
<1>22. CASE UNCHANGED vars
  BY <1>22 DEF vars, TurnsInv, GpuExclusive, At
<1> QED
  BY <1>1, <1>2, <1>3, <1>4, <1>5, <1>6, <1>7, <1>8, <1>9, <1>10, <1>11, <1>12, <1>13,
     <1>14, <1>15, <1>16, <1>17, <1>18, <1>19, <1>20, <1>21, <1>22 DEF Next, Steps

\* GpuExclusive: the parameters and the optimizer state are on the GPU only while vLLM
\* sleeps or is gone (service.py: _train_shared, train_sft).
THEOREM GpuExclusiveHolds == Spec => []GpuExclusive
<1>1. TurnsInv => GpuExclusive
  BY DEF TurnsInv
<1> QED
  BY <1>1, InitTurns, StepTurns, PTL DEF Spec

(***************************************************************************)
(* The calls and the queues.                                               *)
(***************************************************************************)
Pcs == {"sleep", "join", "wait", "rest", "sft", "save", "wake", "reload"}
Kinds == {"rl", "sft"}
Inputs == [call : 1 .. MaxCalls, item : 1 .. MaxItems, of : 1 .. MaxItems, warm : BOOLEAN]
Running == [pc : Pcs, kind : Kinds, n : 1 .. MaxItems, item : 1 .. MaxItems, warm : BOOLEAN,
            got : Inputs \cup {Nothing}]
Over == {Idle, [pc |-> "stopping"]}

Waiting == At("wait") /\ call.got = Nothing

\* A call has its type, and trains an item it has.
CallOK ==
    /\ call \in Running \cup Over
    /\ inputs \in Seq(Inputs \cup {Stop}) /\ warmup \in BOOLEAN /\ known \in BOOLEAN
    /\ ~ At("idle") /\ ~ At("stopping") => made > 0 /\ call.item <= call.n
    /\ At("sleep") \/ At("join") => call.item = 1
    /\ At("wait") \/ At("rest") => known
    /\ At("wait") /\ call.got # Nothing => unfinished > 0

\* The getter of the running call is the last one.
Owners ==
    /\ \A i \in 1 .. Len(getters) : getters[i] = "own" => i = Len(getters) /\ Waiting
    /\ Waiting => Len(getters) > 0 /\ getters[Len(getters)] = "own"

\* There is a getter for every input: when the trainer stops for one call the getter of
\* another is left.
Balance ==
    /\ trainer = "waiting" /\ At("stopping") =>
           Len(inputs) > 0 /\ inputs[Len(inputs)] = Stop /\ Len(inputs) <= Len(getters) + 1
    /\ ~ (trainer = "waiting" /\ At("stopping")) => Len(inputs) <= Len(getters)
    /\ known /\ trainer # "waiting" /\ trainer # "none" => Len(inputs) < Len(getters)
    /\ known => trainer # "none" /\ ~ At("stopping")
    /\ trainer = "waiting" => known \/ At("stopping")

\* What the trainer may find in its queue.
Fed ==
    /\ trainer = "waiting" /\ ~ Waiting /\ ~ At("stopping") => inputs = <<>>
    /\ trainer = "waiting" /\ At("stopping") /\ (placed # "gpu" \/ lastMode # "rl") =>
           \A i \in 1 .. Len(inputs) : inputs[i] = Stop

Placed ==
    /\ mode = "dedicated" => placed = "gpu"
    /\ At("join") \/ At("wait") \/ At("rest") =>
           placed = "gpu" /\ lastMode = "rl" /\ call.kind = "rl"
    /\ At("sft") => placed = "gpu" /\ lastMode = "sft"
    /\ moments \subseteq {lastMode}

(***************************************************************************)
(* The weights.                                                            *)
(***************************************************************************)
Live == vllm # "gone" /\ ~ unclosed /\ ~ At("stopping")

Steady(w) ==
    \A i \in 1 .. Len(w) :
        /\ w[i].item > 1 => i > 1 /\ w[i - 1] = [w[i] EXCEPT !.item = @ - 1]
        /\ w[i].item < w[i].of /\ i < Len(w) => w[i + 1] = [w[i] EXCEPT !.item = @ + 1]

\* The weights end with the first k items of a call of n.
EndsWith(w, k, id, n) ==
    /\ Steady(w)
    /\ IF k = 0 THEN Len(w) > 0 => w[Len(w)].item >= w[Len(w)].of
       ELSE Len(w) > 0 /\ w[Len(w)] = [call |-> id, item |-> k, of |-> n]

Done == IF At("wait") \/ At("rest") \/ At("sft")
        THEN IF At("wait") /\ call.got # Nothing /\ ~ call.warm THEN call.item ELSE call.item - 1
        ELSE 0

Progress ==
    Live => /\ EndsWith(weights, Done, made, call.n)
            /\ \/ inputs = <<>>
               \/ Waiting /\ inputs = <<[call |-> made, item |-> call.item, of |-> call.n,
                                         warm |-> call.warm]>>
            /\ getters = <<>> \/ getters = <<"own">>

IInv == TypeOK /\ CallOK /\ Owners /\ Balance /\ Fed /\ Placed /\ Progress /\ ServedWhole

(***************************************************************************)
(* Calls, queues and getters.                                              *)
(***************************************************************************)

LEMMA Limits == MaxCalls \in Nat /\ MaxItems \in Nat /\ MaxItems >= 1
  BY CallAssumption

LEMMA UpdatedFields == \A u \in Updated : u.item \in Int /\ u.of \in Int
<1> SUFFICES ASSUME NEW u \in Updated PROVE u.item \in Int /\ u.of \in Int
  OBVIOUS
<1>1. u.item \in 1 .. MaxItems /\ u.of \in 1 .. MaxItems
  BY DEF Updated
<1> QED
  BY <1>1, Limits

LEMMA Ones ==
    ASSUME NEW x
    PROVE  /\ <<x>> # <<>> /\ Head(<<x>>) = x /\ Tail(<<x>>) = <<>>
           /\ Append(<<>>, x) = <<x>> /\ Len(<<x>>) = 1 /\ <<x>>[1] = x
  OBVIOUS

LEMMA RunningFields ==
    ASSUME NEW c \in Running
    PROVE  /\ c.pc \in Pcs /\ c.kind \in Kinds /\ c.n \in 1 .. MaxItems
           /\ c.item \in 1 .. MaxItems /\ c.warm \in BOOLEAN /\ c.got \in Inputs \cup {Nothing}
           /\ c.pc # "idle" /\ c.pc # "stopping"
  BY DEF Running, Pcs

LEMMA CallMoved ==
    ASSUME NEW c \in Running, NEW p \in Pcs
    PROVE  /\ [c EXCEPT !.pc = p] \in Running /\ [c EXCEPT !.pc = p].pc = p
           /\ [c EXCEPT !.pc = p].kind = c.kind /\ [c EXCEPT !.pc = p].n = c.n
           /\ [c EXCEPT !.pc = p].item = c.item /\ [c EXCEPT !.pc = p].warm = c.warm
           /\ [c EXCEPT !.pc = p].got = c.got
  BY DEF Running

LEMMA CallGot ==
    ASSUME NEW c \in Running, NEW g \in Inputs
    PROVE  /\ [c EXCEPT !.got = g] \in Running /\ [c EXCEPT !.got = g].pc = c.pc
           /\ [c EXCEPT !.got = g].kind = c.kind /\ [c EXCEPT !.got = g].n = c.n
           /\ [c EXCEPT !.got = g].item = c.item /\ [c EXCEPT !.got = g].warm = c.warm
           /\ [c EXCEPT !.got = g].got = g
  BY DEF Running

LEMMA CallNext ==
    ASSUME NEW c \in Running, NEW i \in 1 .. MaxItems
    PROVE  /\ [c EXCEPT !.item = i] \in Running /\ [c EXCEPT !.item = i].pc = c.pc
           /\ [c EXCEPT !.item = i].kind = c.kind /\ [c EXCEPT !.item = i].n = c.n
           /\ [c EXCEPT !.item = i].item = i /\ [c EXCEPT !.item = i].warm = c.warm
           /\ [c EXCEPT !.item = i].got = c.got
  BY DEF Running

LEMMA OverFields == \A c \in Over : (c = Idle /\ c.pc = "idle") \/ c.pc = "stopping"
  BY DEF Over, Idle

LEMMA AtRunning ==
    ASSUME CallOK, NEW p \in Pcs, At(p)
    PROVE  call \in Running /\ call.pc = p /\ made > 0 /\ call.item <= call.n
<1>1. p # "idle" /\ p # "stopping"
  BY DEF Pcs
<1>2. call \notin Over
  BY <1>1, OverFields DEF At
<1> QED
  BY <1>1, <1>2 DEF CallOK, At

LEMMA InputKnown ==
    ASSUME NEW x \in Inputs \cup {Stop}, x # Stop
    PROVE  /\ x \in Inputs /\ x.call \in 1 .. MaxCalls /\ x.item \in 1 .. MaxItems
           /\ x.of \in 1 .. MaxItems /\ x.warm \in BOOLEAN
  BY DEF Inputs

LEMMA InputMade ==
    ASSUME NEW c \in 1 .. MaxCalls, NEW i \in 1 .. MaxItems, NEW n \in 1 .. MaxItems,
           NEW w \in BOOLEAN, NEW x, x = [call |-> c, item |-> i, of |-> n, warm |-> w]
    PROVE  /\ x \in Inputs /\ x # Stop /\ x # Nothing /\ x.call = c /\ x.item = i
           /\ x.of = n /\ x.warm = w
<1>1. x \in Inputs /\ x.call = c /\ x.item = i /\ x.of = n /\ x.warm = w
  BY DEF Inputs
<1>2. Stop.call = 0 /\ Nothing.call = 0 /\ x.call # 0
  BY <1>1 DEF Stop, Nothing
<1> QED
  BY <1>1, <1>2

LEMMA InputNotNothing == \A x \in Inputs : x # Nothing /\ x # Stop
<1> SUFFICES ASSUME NEW x \in Inputs PROVE x # Nothing /\ x # Stop
  OBVIOUS
<1>1. x.call \in 1 .. MaxCalls /\ Stop.call = 0 /\ Nothing.call = 0
  BY DEF Inputs, Stop, Nothing
<1> QED
  BY <1>1, Limits

LEMMA Appended ==
    ASSUME NEW S, NEW q \in Seq(S), NEW x \in S
    PROVE  /\ Append(q, x) \in Seq(S) /\ Len(q) \in Nat /\ Len(Append(q, x)) = Len(q) + 1
           /\ Append(q, x)[Len(q) + 1] = x
           /\ \A i \in 1 .. Len(q) : Append(q, x)[i] = q[i]
  OBVIOUS

LEMMA Popped ==
    ASSUME NEW S, NEW q \in Seq(S), q # <<>>
    PROVE  /\ Tail(q) \in Seq(S) /\ Len(q) \in Nat /\ Len(q) >= 1 /\ Len(Tail(q)) = Len(q) - 1
           /\ Head(q) = q[1] /\ q[1] \in S
           /\ \A i \in 1 .. Len(q) - 1 : Tail(q)[i] = q[i + 1]
           /\ Len(q) = 1 => Tail(q) = <<>>
<1>1. Tail(q) \in Seq(S) /\ Len(q) \in Nat /\ Len(q) >= 1 /\ Len(Tail(q)) = Len(q) - 1
  OBVIOUS
<1>2. \A r \in Seq(S) : r # <<>> => Len(r) # 0
  BY EmptySeq
<1>4. ASSUME Len(q) = 1 PROVE Tail(q) = <<>>
  <2>1. PICK r : r = Tail(q)
    OBVIOUS
  <2>2. r \in Seq(S) /\ Len(r) = 0
    BY <1>1, <1>4, <2>1
  <2> QED
    BY <1>2, <2>1, <2>2, Zenon
<1>3. Head(q) = q[1] /\ q[1] \in S /\ \A i \in 1 .. Len(q) - 1 : Tail(q)[i] = q[i + 1]
  OBVIOUS
<1> QED
  BY <1>1, <1>3, <1>4

LEMMA QueuesTyped ==
    TypeOK /\ CallOK => /\ inputs \in Seq(Inputs \cup {Stop}) /\ getters \in Seq({"own", "left"})
                        /\ Len(inputs) \in Nat /\ Len(getters) \in Nat /\ made \in 0 .. MaxCalls
<1> SUFFICES ASSUME TypeOK, CallOK
             PROVE  /\ inputs \in Seq(Inputs \cup {Stop}) /\ getters \in Seq({"own", "left"})
                    /\ Len(inputs) \in Nat /\ Len(getters) \in Nat /\ made \in 0 .. MaxCalls
  OBVIOUS
<1>1. /\ inputs \in Seq(Inputs \cup {Stop}) /\ getters \in Seq({"own", "left"})
      /\ made \in 0 .. MaxCalls
  BY DEF TypeOK, CallOK
<1> QED
  BY <1>1

\* result_task.cancel(): the getter of the running call, the last one, is gone.
LEMMA OwnRemoved ==
    ASSUME NEW q \in Seq({"own", "left"}), Len(q) > 0, q[Len(q)] = "own",
           \A i \in 1 .. Len(q) : q[i] = "own" => i = Len(q)
    PROVE  /\ RemoveFirst(q, "own") \in Seq({"own", "left"})
           /\ Len(RemoveFirst(q, "own")) = Len(q) - 1
           /\ \A i \in 1 .. Len(q) - 1 : RemoveFirst(q, "own")[i] = q[i]
<1> PICK p \in 1 .. Len(q) : p = Len(q)
  OBVIOUS
<1>1. p \in 1 .. Len(q) /\ p \in Nat
  OBVIOUS
<1>2. {i \in 1 .. Len(q) : q[i] = "own"} = {p}
  BY <1>1
<1>3. Min({p}) = p
  BY <1>1 DEF Min
<1>4. SelectInSeq(q, LAMBDA v : v = "own") = p
  BY <1>1, <1>2, <1>3 DEF SelectInSeq
<1>5. RemoveFirst(q, "own") = SubSeq(q, 1, p - 1) \o SubSeq(q, p + 1, Len(q))
  BY <1>1, <1>4 DEF RemoveFirst, RemoveAt
<1> DEFINE a == SubSeq(q, 1, p - 1)
           b == SubSeq(q, p + 1, Len(q))
<1>6. a \in Seq({"own", "left"}) /\ Len(a) = p - 1 /\ \A j \in 1 .. p - 1 : a[j] = q[j]
  BY <1>1, SubSeqProperties
<1>7. b \in Seq({"own", "left"}) /\ Len(b) = 0
  BY <1>1, SubSeqProperties
<1> HIDE DEF a, b
<1>8. a \o b \in Seq({"own", "left"}) /\ Len(a \o b) = p - 1
      /\ \A j \in 1 .. p - 1 : (a \o b)[j] = q[j]
  BY <1>1, <1>6, <1>7, ConcatProperties
<1> QED
  BY <1>5, <1>8 DEF a, b

\* A call that raises asks the trainer to stop, or has nobody to wait for.
LEMMA StopAsked ==
    ASSUME StopTrainer(Idle)
    PROVE  /\ known' = FALSE
           /\ \/ /\ known /\ trainer = "waiting" /\ inputs' = Append(inputs, Stop)
                 /\ call' = [pc |-> "stopping"] /\ call'.pc = "stopping" /\ call' \in Over
                 /\ vllm' = vllm
              \/ /\ ~ (known /\ trainer = "waiting") /\ inputs' = inputs
                 /\ call' = Idle /\ call'.pc = "idle" /\ call' \in Over /\ vllm' = "gone"
  BY DEF StopTrainer, Idle, Over

\* When the trainer takes an input there is a getter for its result; the result of the
\* running call is that of the last input.
LEMMA InputTaken ==
    ASSUME TypeOK, CallOK, Owners, Balance, Fed, trainer = "waiting", inputs # <<>>,
           Head(inputs) # Stop
    PROVE  /\ Head(inputs) \in Inputs /\ getters # <<>>
           /\ Waiting \/ At("stopping")
           /\ Head(getters) = "own" => Waiting /\ Len(getters) = 1 /\ Len(inputs) = 1
           /\ At("stopping") => Len(inputs) > 1
<1>1. /\ inputs \in Seq(Inputs \cup {Stop}) /\ getters \in Seq({"own", "left"})
      /\ Len(inputs) \in Nat /\ Len(getters) \in Nat
  BY QueuesTyped
<1>2. Len(inputs) >= 1 /\ Head(inputs) = inputs[1] /\ Head(inputs) \in Inputs \cup {Stop}
  BY <1>1, Popped
<1>3. Head(inputs) \in Inputs
  BY <1>2
<1>4. Waiting \/ At("stopping")
  BY DEF Fed
<1>5. At("stopping") => Len(inputs) > 1 /\ Len(getters) >= 1
  BY <1>1, <1>2 DEF Balance
<1>6. Waiting => ~ At("stopping")
  BY DEF Waiting, At
<1>7. Waiting => Len(inputs) <= Len(getters)
  BY <1>6 DEF Balance
<1>8. Len(getters) >= 1
  BY <1>1, <1>2, <1>4, <1>5, <1>7
<1>9. getters # <<>> /\ Head(getters) = getters[1]
  BY <1>1, <1>8
<1>10. ASSUME Head(getters) = "own" PROVE Waiting /\ Len(getters) = 1
  <2>1. 1 \in 1 .. Len(getters)
    BY <1>1, <1>8
  <2> QED
    BY <1>9, <1>10, <2>1 DEF Owners
<1> QED
  BY <1>1, <1>2, <1>3, <1>4, <1>5, <1>7, <1>9, <1>10

LEMMA FeedsCall ==
    ASSUME CallOK, TypeOK, call \in Running, made > 0, NEW i \in 1 .. MaxItems,
           NEW w \in BOOLEAN, Feed(i, w)
    PROVE  /\ \E x \in Inputs : x.call = made /\ x.item = i /\ x.of = call.n /\ x.warm = w
                                /\ x = [call |-> made, item |-> i, of |-> call.n, warm |-> w]
                                /\ inputs' = Append(inputs, x)
           /\ getters' = Append(getters, "own")
           /\ call' \in Running /\ call'.pc = "wait" /\ call'.kind = call.kind
           /\ call'.n = call.n /\ call'.item = i /\ call'.warm = w /\ call'.got = Nothing
<1>1. call.n \in 1 .. MaxItems /\ made \in 1 .. MaxCalls
  <2>1. made \in 0 .. MaxCalls
    BY DEF TypeOK
  <2> QED
    BY <2>1, RunningFields, Limits
<1>2. PICK x : x = [call |-> made, item |-> i, of |-> call.n, warm |-> w]
  OBVIOUS
<1>3. x \in Inputs /\ x.call = made /\ x.item = i /\ x.of = call.n /\ x.warm = w
  BY <1>1, <1>2, InputMade
<1>4. inputs' = Append(inputs, x) /\ getters' = Append(getters, "own")
      /\ call' = [call EXCEPT !.pc = "wait", !.item = i, !.warm = w, !.got = Nothing]
  BY <1>2 DEF Feed
<1>5. /\ call' \in Running /\ call'.pc = "wait" /\ call'.kind = call.kind
      /\ call'.n = call.n /\ call'.item = i /\ call'.warm = w /\ call'.got = Nothing
  <2>1. PICK d : d = [call EXCEPT !.pc = "wait", !.item = i, !.warm = w, !.got = Nothing]
    OBVIOUS
  <2>2. /\ d \in Running /\ d.pc = "wait" /\ d.kind = call.kind
        /\ d.n = call.n /\ d.item = i /\ d.warm = w /\ d.got = Nothing
    BY <2>1 DEF Running, Pcs
  <2>3. call' = d
    BY <1>4, <2>1
  <2> QED
    BY <2>2, <2>3
<1> QED
  BY <1>2, <1>3, <1>4, <1>5

LEMMA MoreUpdates ==
    ASSUME TypeOK, NEW x \in Inputs
    PROVE  Updates(weights, x) \in Seq(Updated)
<1>1. PICK u : u = [call |-> x.call, item |-> x.item, of |-> x.of]
  OBVIOUS
<1>2. u \in Updated
  BY <1>1 DEF Updated, Inputs
<1>3. weights \in Seq(Updated)
  BY DEF TypeOK
<1>4. Updates(weights, x) = weights \/ Updates(weights, x) = Append(weights, u)
  BY <1>1 DEF Updates
<1> QED
  BY <1>2, <1>3, <1>4, Appended

LEMMA CallEnded ==
    ASSUME call' \in Over, inputs' \in Seq(Inputs \cup {Stop}), warmup' \in BOOLEAN,
           known' \in BOOLEAN
    PROVE  CallOK'
<1>1. call'.pc = "idle" \/ call'.pc = "stopping"
  BY OverFields
<1> QED
  BY <1>1 DEF CallOK, At

LEMMA CallGoesOn ==
    ASSUME call' \in Running, inputs' \in Seq(Inputs \cup {Stop}), warmup' \in BOOLEAN,
           known' \in BOOLEAN, made' > 0, call'.item <= call'.n,
           call'.pc \in {"sleep", "join"} => call'.item = 1,
           call'.pc \in {"wait", "rest"} => known',
           call'.pc = "wait" /\ call'.got # Nothing => unfinished' > 0
    PROVE  CallOK'
  BY DEF CallOK, At

LEMMA CallTyped ==
    CallOK => inputs \in Seq(Inputs \cup {Stop}) /\ warmup \in BOOLEAN /\ known \in BOOLEAN
  BY DEF CallOK

LEMMA StopsTyped ==
    ASSUME CallOK, StopTrainer(Idle)
    PROVE  call' \in Over /\ inputs' \in Seq(Inputs \cup {Stop}) /\ known' \in BOOLEAN
<1>1. Stop \in Inputs \cup {Stop}
  OBVIOUS
<1>2. Append(inputs, Stop) \in Seq(Inputs \cup {Stop})
  BY <1>1, CallTyped, Appended
<1> QED
  BY <1>2, StopAsked, CallTyped

LEMMA OwnFed ==
    ASSUME TypeOK, CallOK, Owners, ~ Waiting, getters' = Append(getters, "own"),
           call'.pc = "wait", call'.got = Nothing
    PROVE  Owners'
<1>1. /\ Len(getters') = Len(getters) + 1 /\ getters'[Len(getters) + 1] = "own"
      /\ Len(getters) \in Nat
      /\ \A i \in 1 .. Len(getters) : getters'[i] = getters[i]
  BY QueuesTyped, Appended
<1>2. Waiting'
  BY DEF Waiting, At
<1>3. \A i \in 1 .. Len(getters) : getters'[i] # "own"
  BY <1>1 DEF Owners
<1> QED
  BY <1>1, <1>2, <1>3 DEF Owners

LEMMA StopBalanced ==
    ASSUME TypeOK, CallOK, Balance, StopTrainer(Idle), trainer' = trainer,
           ~ At("stopping"), Len(getters') = Len(getters)
    PROVE  Balance'
<1>1. CASE known /\ trainer = "waiting"
  <2>1. inputs' = Append(inputs, Stop) /\ known' = FALSE /\ At("stopping")'
    BY <1>1, StopAsked DEF At
  <2>2. Len(inputs') = Len(inputs) + 1 /\ inputs'[Len(inputs) + 1] = Stop
    BY <2>1, QueuesTyped, Appended
  <2> QED
    BY <1>1, <2>1, <2>2, QueuesTyped DEF Balance
<1>2. CASE ~ (known /\ trainer = "waiting")
  <2>1. inputs' = inputs /\ known' = FALSE /\ ~ At("stopping")'
    BY <1>2, StopAsked DEF At
  <2> QED
    BY <1>2, <2>1, QueuesTyped DEF Balance
<1> QED
  BY <1>1, <1>2

LEMMA StopFed ==
    ASSUME CallOK, TypeOK, Balance, Fed, Placed, StopTrainer(Idle), ~ At("stopping"),
           UNCHANGED <<placed, lastMode, trainer>>
    PROVE  Fed'
<1>1. CASE known /\ trainer = "waiting"
  <2>1. inputs' = Append(inputs, Stop) /\ At("stopping")'
    BY <1>1, StopAsked DEF At
  <2>2. CASE Waiting
    <3>1. placed = "gpu" /\ lastMode = "rl"
      BY <2>2 DEF Waiting, Placed
    <3> QED
      BY <2>1, <3>1 DEF Fed
  <2>3. CASE ~ Waiting
    <3>1. inputs = <<>>
      BY <1>1, <2>3 DEF Fed
    <3>2. Len(inputs') = 1 /\ inputs'[1] = Stop
      BY <2>1, <3>1
    <3> QED
      BY <2>1, <3>2 DEF Fed
  <2> QED
    BY <2>2, <2>3
<1>2. CASE ~ (known /\ trainer = "waiting")
  <2>1. inputs' = inputs /\ call' = Idle
    BY <1>2, StopAsked
  <2>2. ~ At("stopping")' /\ ~ Waiting'
    BY <2>1 DEF At, Waiting, Idle
  <2>3. trainer = "waiting" => known
    BY DEF Balance
  <2> QED
    BY <1>2, <2>2, <2>3 DEF Fed
<1> QED
  BY <1>1, <1>2

\* The trainer steps on parameters that are on the GPU, in its own mode.
LEMMA OnGpu ==
    ASSUME TypeOK, CallOK, Fed, Placed, trainer = "waiting", inputs # <<>>,
           Head(inputs) # Stop
    PROVE  placed = "gpu" /\ lastMode = "rl"
<1>1. CASE Waiting
  BY <1>1 DEF Waiting, Placed
<1>2. CASE ~ Waiting
  <2>1. At("stopping")
    BY <1>2 DEF Fed
  <2>2. 1 \in 1 .. Len(inputs) /\ inputs[1] # Stop
    BY QueuesTyped, Popped
  <2> QED
    BY <2>1, <2>2 DEF Fed
<1> QED
  BY <1>1, <1>2

(***************************************************************************)
(* The weights.                                                            *)
(***************************************************************************)

\* One more item of the call.
LEMMA Grown ==
    ASSUME NEW w \in Seq(Updated), NEW k \in Nat, NEW id, NEW n \in Nat, k < n,
           NEW u \in Updated, u = [call |-> id, item |-> k + 1, of |-> n],
           EndsWith(w, k, id, n)
    PROVE  EndsWith(Append(w, u), k + 1, id, n)
<1> DEFINE v == Append(w, u)
<1>1. /\ Len(w) \in Nat /\ Len(v) = Len(w) + 1 /\ v[Len(w) + 1] = u
      /\ \A i \in 1 .. Len(w) : v[i] = w[i]
  BY Appended
<1>2. \A i \in 1 .. Len(w) : w[i] \in Updated /\ w[i].item \in Int /\ w[i].of \in Int
  BY UpdatedFields
<1>3. u.item = k + 1 /\ u.of = n
  OBVIOUS
<1> HIDE DEF v
<1>4. ASSUME NEW i \in 1 .. Len(v)
      PROVE  /\ v[i].item > 1 => i > 1 /\ v[i - 1] = [v[i] EXCEPT !.item = @ - 1]
             /\ v[i].item < v[i].of /\ i < Len(v) =>
                    v[i + 1] = [v[i] EXCEPT !.item = @ + 1]
  <2>1. CASE i < Len(w)
    <3>1. i \in 1 .. Len(w) /\ v[i] = w[i] /\ i + 1 \in 1 .. Len(w) /\ v[i + 1] = w[i + 1]
      BY <1>1, <2>1
    <3>2. i > 1 => v[i - 1] = w[i - 1]
      <4>1. i > 1 => i - 1 \in 1 .. Len(w)
        BY <1>1, <2>1
      <4> QED
        BY <1>1, <4>1
    <3>3. /\ w[i].item > 1 => i > 1 /\ w[i - 1] = [w[i] EXCEPT !.item = @ - 1]
          /\ w[i].item < w[i].of => w[i + 1] = [w[i] EXCEPT !.item = @ + 1]
      BY <2>1, <3>1 DEF EndsWith, Steady
    <3> QED
      BY <3>1, <3>2, <3>3
  <2>2. CASE i = Len(w)
    <3>1. i \in 1 .. Len(w) /\ v[i] = w[i] /\ v[i + 1] = u
      BY <1>1, <2>2
    <3>2. i > 1 => v[i - 1] = w[i - 1]
      BY <1>1, <2>2
    <3>3. w[i].item > 1 => i > 1 /\ w[i - 1] = [w[i] EXCEPT !.item = @ - 1]
      BY <3>1 DEF EndsWith, Steady
    <3>4. w[i].item < w[i].of => v[i + 1] = [w[i] EXCEPT !.item = @ + 1]
      <4>1. CASE k = 0
        BY <1>2, <2>2, <3>1, <4>1 DEF EndsWith
      <4>2. CASE k # 0
        <5>1. w[i] = [call |-> id, item |-> k, of |-> n]
          BY <2>2, <4>2 DEF EndsWith
        <5> QED
          BY <3>1, <5>1
      <4> QED
        BY <4>1, <4>2
    <3> QED
      BY <3>1, <3>2, <3>3, <3>4
  <2>3. CASE i = Len(w) + 1
    <3>1. v[i] = u
      BY <1>1, <2>3
    <3>2. u.item > 1 => k # 0
      BY <1>3
    <3>3. k # 0 => Len(w) > 0 /\ w[Len(w)] = [call |-> id, item |-> k, of |-> n]
      BY DEF EndsWith
    <3>4. k # 0 => v[i - 1] = [call |-> id, item |-> k, of |-> n] /\ i > 1
      <4>1. i - 1 = Len(w)
        BY <1>1, <2>3
      <4>2. k # 0 => i - 1 \in 1 .. Len(w) /\ i > 1
        BY <1>1, <2>3, <3>3, <4>1
      <4>3. k # 0 => v[i - 1] = w[i - 1]
        BY <1>1, <4>2
      <4> QED
        BY <3>3, <4>1, <4>2, <4>3
    <3>5. [u EXCEPT !.item = @ - 1] = [call |-> id, item |-> k, of |-> n]
      OBVIOUS
    <3>6. ~ (i < Len(v))
      BY <1>1, <2>3
    <3> QED
      BY <3>1, <3>2, <3>4, <3>5, <3>6
  <2> QED
    BY <1>1, <2>1, <2>2, <2>3
<1>5. Steady(v)
  BY <1>4 DEF Steady
<1>6. k + 1 # 0 /\ Len(v) > 0 /\ v[Len(v)] = [call |-> id, item |-> k + 1, of |-> n]
  BY <1>1
<1> QED
  BY <1>5, <1>6 DEF EndsWith, v

\* The last item of a call makes the weights whole.
LEMMA Finished ==
    ASSUME NEW w, NEW id, NEW n \in Nat \ {0}, EndsWith(w, n, id, n), NEW i, NEW m
    PROVE  EndsWith(w, 0, i, m)
<1>1. Len(w) > 0 /\ w[Len(w)] = [call |-> id, item |-> n, of |-> n]
  BY DEF EndsWith
<1>2. w[Len(w)].item >= w[Len(w)].of
  BY <1>1
<1> QED
  BY <1>2 DEF EndsWith

LEMMA WholeKept ==
    ASSUME NEW w, NEW id, NEW n, EndsWith(w, 0, id, n), NEW i, NEW m
    PROVE  EndsWith(w, 0, i, m)
  BY DEF EndsWith

LEMMA Whole ==
    ASSUME NEW w \in Seq(Updated), NEW id, NEW n, EndsWith(w, 0, id, n)
    PROVE  WholeCalls(w)
<1>1. /\ DOMAIN w = 1 .. Len(w) /\ Len(w) \in Nat
      /\ \A i \in 1 .. Len(w) : w[i].item \in Int /\ w[i].of \in Int
  <2>1. DOMAIN w = 1 .. Len(w) /\ Len(w) \in Nat /\ \A i \in 1 .. Len(w) : w[i] \in Updated
    OBVIOUS
  <2> QED
    BY <2>1, UpdatedFields
<1>2. \A i \in 1 .. Len(w) : w[i].item < w[i].of => i < Len(w)
  BY <1>1 DEF EndsWith
<1> QED
  BY <1>1, <1>2 DEF WholeCalls, EndsWith, Steady

\* While the service is up and no call failed, the queues hold what the call waits for.
LEMMA QuietQueues ==
    ASSUME TypeOK, Owners, Progress, Live, ~ Waiting
    PROVE  inputs = <<>> /\ getters = <<>>
<1>1. inputs = <<>>
  BY DEF Progress
<1>2. getters # <<"own">>
  <2>1. Len(<<"own">>) = 1 /\ <<"own">>[1] = "own"
    OBVIOUS
  <2> QED
    BY <2>1 DEF Owners
<1> QED
  BY <1>1, <1>2 DEF Progress


\* The updates of a step.
Sound == weights' # weights \/ unfinished' > unfinished =>
             placed = "gpu" /\ moments' # {"rl", "sft"}

LEMMA Counted ==
    ASSUME TypeOK
    PROVE  /\ unfinished \in Int /\ ~ (unfinished > unfinished)
           /\ ~ (unfinished - 1 > unfinished)
<1>1. unfinished \in Nat
  BY DEF TypeOK
<1> QED
  BY <1>1
LEMMA TypeOKStep == TypeOK /\ CallOK /\ Owners /\ Balance /\ Fed /\ [Next]_vars => TypeOK'
<1> SUFFICES ASSUME TypeOK /\ CallOK /\ Owners /\ Balance /\ Fed, [Next]_vars PROVE TypeOK'
  OBVIOUS
<1> USE DEF server, model, tasks, marks
<1>1. CASE Stopped
  BY <1>1 DEF Stopped, TypeOK
<1>2. CASE Sleep
  <2>1. call.kind \in {"rl", "sft"}
    BY <1>2, AtRunning, RunningFields DEF Sleep, Pcs, Kinds
  <2> QED
    BY <1>2, <2>1 DEF Sleep, ModeSet, TypeOK
<1>3. CASE Join
  <2>8. getters' \in Seq({"own", "left"})
    BY <1>3, Appended, QueuesTyped DEF Join, Feed
  <2> QED
    BY <1>3, <2>8 DEF Join, Feed, TypeOK
<1>4. CASE TrainStep
  <2>0. trainer = "waiting" /\ inputs # <<>> /\ Head(inputs) # Stop
    BY <1>4 DEF TrainStep
  <2>1. /\ Head(inputs) \in Inputs /\ getters # <<>>
    BY <2>0, InputTaken
  <2>2. weights' \in Seq(Updated)
    BY <1>4, <2>1, MoreUpdates DEF TrainStep
  <2>3. getters' \in Seq({"own", "left"})
    BY <1>4, <2>1, Popped, QueuesTyped DEF TrainStep
  <2> QED
    <3>1. unfinished' \in Nat /\ moments' \subseteq {"rl", "sft"}
      <4>1. unfinished' = unfinished + 1 /\ moments' = moments \cup {"rl"}
        BY <1>4 DEF TrainStep
      <4>2. unfinished \in Nat /\ moments \subseteq {"rl", "sft"}
        BY DEF TypeOK
      <4> QED
        BY <4>1, <4>2
    <3> QED
      BY <1>4, <2>2, <2>3, <3>1 DEF TrainStep, TypeOK
<1>5. CASE TrainStops
  BY <1>5 DEF TrainStops, TypeOK
<1>6. CASE WarmedUp
  <2>1. unfinished > 0 /\ unfinished \in Nat
    BY <1>6 DEF WarmedUp, CallOK, TypeOK
  <2>7. unfinished' \in Nat
    BY <1>6, <2>1 DEF WarmedUp
  <2> QED
    BY <1>6, <2>7 DEF WarmedUp, TypeOK
<1>7. CASE Rested
  <2>8. getters' \in Seq({"own", "left"})
    BY <1>7, Appended, QueuesTyped DEF Rested, Feed
  <2> QED
    BY <1>7, <2>8 DEF Rested, Feed, TypeOK
<1>8. CASE Yield
  <2>1. unfinished > 0 /\ unfinished \in Nat
    BY <1>8 DEF Yield, CallOK, TypeOK
  <2>2. getters' \in Seq({"own", "left"})
    <3>1. getters' = Append(getters, "own") \/ getters' = getters
      BY <1>8 DEF Yield, Feed
    <3> QED
      BY <3>1, Appended, QueuesTyped
  <2>7. unfinished' \in Nat
    BY <1>8, <2>1 DEF Yield
  <2> QED
    BY <1>8, <2>2, <2>7 DEF Yield, TypeOK
<1>9. CASE TrainerOver
  <2>1. getters' = RemoveFirst(getters, "own") /\ Waiting
    BY <1>9 DEF TrainerOver, Raise, Without, Waiting
  <2>2. getters' \in Seq({"own", "left"})
    BY <2>1, OwnRemoved, QueuesTyped DEF Owners
  <2> QED
    BY <1>9, <2>2, StopAsked DEF TrainerOver, Raise, TypeOK
<1>10. CASE SftBatch
  <2>1. call \in Running /\ made > 0
    BY <1>10, AtRunning DEF SftBatch, Pcs
  <2>2. call.item \in 1 .. MaxItems /\ call.n \in 1 .. MaxItems /\ made \in 1 .. MaxCalls
    BY <2>1, RunningFields, QueuesTyped
  <2>3. PICK u : u = [call |-> made, item |-> call.item, of |-> call.n]
    OBVIOUS
  <2>4. u \in Updated
    BY <2>2, <2>3 DEF Updated
  <2>5. weights \in Seq(Updated) /\ weights' = Append(weights, u)
    BY <1>10, <2>3 DEF SftBatch, TypeOK
  <2>6. weights' \in Seq(Updated)
    BY <2>4, <2>5, Appended
  <2> QED
    BY <1>10, <2>6 DEF SftBatch, TypeOK
<1>11. CASE Save
  BY <1>11 DEF Save, TypeOK
<1>12. CASE Wake
  BY <1>12 DEF Wake, To, TypeOK
<1>13. CASE Reload
  <2>1. weights \in Seq(Updated) /\ served \in Seq(Seq(Updated))
    BY DEF TypeOK
  <2>2. served' \in Seq(Seq(Updated))
    BY <1>13, <2>1, Appended DEF Reload
  <2> QED
    BY <1>13, <2>2 DEF Reload, TypeOK
<1>14. CASE LoopEnds
  BY <1>14 DEF LoopEnds, TypeOK
<1>15. ASSUME NEW kind \in {"rl", "sft"}, StartRefused(kind) PROVE TypeOK'
  <2>1. made' \in 0 .. MaxCalls /\ vllm' \in {"awake", "asleep", "gone"}
    BY <1>15, StopAsked, Limits DEF StartRefused, TypeOK
  <2> QED
    BY <1>15, <2>1 DEF StartRefused, TypeOK
<1>16. ASSUME NEW kind \in {"rl", "sft"}, NEW n \in 1 .. MaxItems, Start(kind, n) PROVE TypeOK'
  <2>1. made' \in 0 .. MaxCalls
    BY <1>16, Limits DEF Start, TypeOK
  <2> QED
    BY <1>16, <2>1 DEF Start, ModeSet, TypeOK
<1>17. CASE TrainFails
  BY <1>17 DEF TrainFails, TypeOK
<1>18. CASE StepFails
  <2> QED
    BY <1>18, StopAsked DEF StepFails, Raise, TypeOK
<1>19. CASE Cancel
  <2>1. getters' = [i \in DOMAIN getters |-> "left"] /\ getters \in Seq({"own", "left"})
    BY <1>19, QueuesTyped DEF Cancel, Raise
  <2>2. getters' \in Seq({"own", "left"})
    BY <2>1
  <2> QED
    BY <1>19, <2>2, StopAsked DEF Cancel, Raise, TypeOK
<1>20. CASE VllmExits
  BY <1>20 DEF VllmExits, TypeOK
<1>21. CASE BackendCloses
  <2> QED
    BY <1>21, StopAsked DEF BackendCloses, TypeOK
<1>22. CASE BackendClosesNow
  BY <1>22 DEF BackendClosesNow, TypeOK
<1>23. CASE UNCHANGED vars
  BY <1>23 DEF vars, TypeOK
<1> QED
  BY <1>1, <1>2, <1>3, <1>4, <1>5, <1>6, <1>7, <1>8, <1>9, <1>10, <1>11, <1>12, <1>13, <1>14,
     <1>15, <1>16, <1>17, <1>18, <1>19, <1>20, <1>21, <1>22, <1>23
     DEF Next, Steps


LEMMA CallOKStep == TypeOK /\ CallOK /\ Owners /\ Balance /\ Fed /\ [Next]_vars => CallOK'
<1> SUFFICES ASSUME TypeOK /\ CallOK /\ Owners /\ Balance /\ Fed, [Next]_vars PROVE CallOK'
  OBVIOUS
<1> USE DEF server, model, tasks, marks
<1>1. CASE Stopped
  <2>1. call' = Idle /\ UNCHANGED <<inputs, warmup, known>>
    BY <1>1 DEF Stopped
  <2>2. call' \in Over
    BY <2>1 DEF Over
  <2> QED
    BY <2>1, <2>2, CallTyped, CallEnded
<1>2. CASE Sleep
  <2>1. call \in Running /\ made > 0 /\ call.item <= call.n /\ call.item = 1
    BY <1>2, AtRunning DEF Sleep, Pcs, CallOK
  <2>2. PICK p \in {"join", "sft"} : call' = [call EXCEPT !.pc = p]
    BY <1>2 DEF Sleep, To
  <2>6. p \in Pcs
    BY DEF Pcs
  <2>3. PICK d : d = [call EXCEPT !.pc = p]
    OBVIOUS
  <2>4. /\ d \in Running /\ d.pc = p /\ d.item = call.item /\ d.n = call.n
    BY <2>1, <2>3, <2>6, CallMoved
  <2>5. call' = d /\ UNCHANGED <<inputs, known, made, warmup>>
    BY <1>2, <2>2, <2>3 DEF Sleep
  <2> QED
    BY <2>1, <2>4, <2>5, CallTyped, CallGoesOn
<1>3. CASE Join
  <2>1. call \in Running /\ made > 0 /\ call.item <= call.n
    BY <1>3, AtRunning DEF Join, Pcs
  <2>2. /\ 1 \in 1 .. MaxItems /\ warmup \in BOOLEAN /\ Feed(1, warmup) /\ known' = TRUE
        /\ UNCHANGED <<made, warmup>>
    BY <1>3, Limits, CallTyped DEF Join
  <2>3. /\ call' \in Running /\ call'.pc = "wait" /\ call'.n = call.n /\ call'.item = 1
        /\ call'.got = Nothing /\ \E x \in Inputs : inputs' = Append(inputs, x)
    BY <2>1, <2>2, FeedsCall
  <2>4. call.n \in 1 .. MaxItems
    BY <2>1, RunningFields
  <2>5. inputs' \in Seq(Inputs \cup {Stop})
    BY <2>3, CallTyped, Appended
  <2>6. call'.item <= call'.n
    BY <2>3, <2>4
  <2> QED
    BY <2>1, <2>2, <2>3, <2>5, <2>6, CallGoesOn
<1>4. CASE TrainStep
  <2>0. trainer = "waiting" /\ inputs # <<>> /\ Head(inputs) # Stop
    BY <1>4 DEF TrainStep
  <2>1. /\ Head(inputs) \in Inputs
        /\ Head(getters) = "own" => Waiting
    BY <2>0, InputTaken
  <2>2. UNCHANGED <<warmup, known, made>> /\ unfinished' > 0
    <3>1. UNCHANGED <<warmup, known, made>> /\ unfinished' = unfinished + 1
      BY <1>4 DEF TrainStep
    <3>2. unfinished \in Nat
      BY DEF TypeOK
    <3> QED
      BY <3>1, <3>2
  <2>3. inputs' \in Seq(Inputs \cup {Stop})
    BY <1>4, <2>0, CallTyped, Popped DEF TrainStep
  <2>4. CASE Head(getters) = "own"
    <3>1. call \in Running /\ call.pc = "wait" /\ made > 0 /\ call.item <= call.n /\ known
      BY <2>1, <2>4, AtRunning DEF Waiting, Pcs, CallOK
    <3>2. PICK g \in Inputs : g = Head(inputs)
      BY <2>1
    <3>3. PICK d : d = [call EXCEPT !.got = g]
      OBVIOUS
    <3>4. d \in Running /\ d.pc = "wait" /\ d.item = call.item /\ d.n = call.n
      BY <3>1, <3>3, CallGot
    <3>5. call' = d
      BY <1>4, <2>4, <3>2, <3>3 DEF TrainStep
    <3> QED
      BY <2>2, <2>3, <3>1, <3>4, <3>5, CallTyped, CallGoesOn
  <2>5. CASE Head(getters) # "own"
    <3>1. call' = call
      BY <1>4, <2>5 DEF TrainStep
    <3> QED
      BY <2>2, <2>3, <3>1 DEF CallOK, At
  <2> QED
    BY <2>4, <2>5
<1>5. CASE TrainStops
  <2>1. UNCHANGED <<call, warmup, known, made, unfinished>> /\ inputs # <<>>
        /\ inputs' = Tail(inputs)
    BY <1>5 DEF TrainStops
  <2>2. inputs' \in Seq(Inputs \cup {Stop})
    BY <2>1, CallTyped, Popped
  <2> QED
    BY <2>1, <2>2 DEF CallOK, At
<1>6. CASE WarmedUp
  <2>1. call \in Running /\ made > 0 /\ call.item <= call.n /\ known
    BY <1>6, AtRunning DEF WarmedUp, CallOK, Pcs
  <2>2. PICK d : d = [call EXCEPT !.pc = "rest"]
    OBVIOUS
  <2>3. /\ d \in Running /\ d.pc = "rest" /\ d.item = call.item /\ d.n = call.n
    BY <2>1, <2>2, CallMoved DEF Pcs
  <2>4. call' = d /\ UNCHANGED <<inputs, known, made>> /\ warmup' \in BOOLEAN
    BY <1>6, <2>2, CallTyped DEF WarmedUp, To
  <2> QED
    BY <2>1, <2>3, <2>4, CallTyped, CallGoesOn
<1>7. CASE Rested
  <2>1. call \in Running /\ made > 0 /\ call.item <= call.n
    BY <1>7, AtRunning DEF Rested, Pcs
  <2>2. /\ Feed(call.item, FALSE) /\ known /\ UNCHANGED <<made, warmup, known>>
    BY <1>7 DEF Rested, CallOK
  <2>3. call.item \in 1 .. MaxItems
    BY <2>1, RunningFields
  <2>4. /\ call' \in Running /\ call'.pc = "wait" /\ call'.n = call.n /\ call'.item = call.item
        /\ call'.got = Nothing /\ \E x \in Inputs : inputs' = Append(inputs, x)
    BY <2>1, <2>2, <2>3, FeedsCall
  <2>5. inputs' \in Seq(Inputs \cup {Stop})
    BY <2>4, CallTyped, Appended
  <2> QED
    BY <2>1, <2>2, <2>4, <2>5, CallTyped, CallGoesOn
<1>8. CASE Yield
  <2>1. call \in Running /\ made > 0 /\ call.item <= call.n
    BY <1>8, AtRunning DEF Yield, Pcs
  <2>2. known /\ UNCHANGED <<made, warmup, known>>
    BY <1>8 DEF Yield, CallOK
  <2>3. call.item \in 1 .. MaxItems /\ call.n \in 1 .. MaxItems
    BY <2>1, RunningFields
  <2>4. CASE call.item < call.n
    <3>1. PICK i : i = call.item + 1
      OBVIOUS
    <3>2. i \in 1 .. MaxItems /\ i <= call.n /\ Feed(i, FALSE)
      <4>1. Feed(i, FALSE)
        BY <1>8, <2>4, <3>1 DEF Yield
      <4>2. i \in 1 .. MaxItems /\ i <= call.n
        BY <2>3, <2>4, <3>1, Limits
      <4> QED
        BY <4>1, <4>2
    <3>3. /\ call' \in Running /\ call'.pc = "wait" /\ call'.n = call.n /\ call'.item = i
          /\ call'.got = Nothing /\ \E x \in Inputs : inputs' = Append(inputs, x)
      BY <2>1, <3>2, FeedsCall
    <3>4. inputs' \in Seq(Inputs \cup {Stop})
      BY <3>3, CallTyped, Appended
    <3> QED
      BY <2>1, <2>2, <3>2, <3>3, <3>4, CallTyped, CallGoesOn
  <2>5. CASE ~ (call.item < call.n)
    <3>1. PICK d : d = [call EXCEPT !.pc = "save"]
      OBVIOUS
    <3>2. d \in Running /\ d.pc = "save" /\ d.item = call.item /\ d.n = call.n
      BY <2>1, <3>1, CallMoved DEF Pcs
    <3>3. call' = d /\ UNCHANGED inputs
      BY <1>8, <2>5, <3>1 DEF Yield, To
    <3> QED
      BY <2>1, <2>2, <3>2, <3>3, CallTyped, CallGoesOn
  <2> QED
    BY <2>4, <2>5
<1>9. CASE TrainerOver
  <2>1. StopTrainer(Idle) /\ UNCHANGED warmup
    BY <1>9 DEF TrainerOver, Raise
  <2> QED
    BY <2>1, StopsTyped, CallTyped, CallEnded
<1>10. CASE SftBatch
  <2>1. call \in Running /\ made > 0 /\ call.item <= call.n /\ call.pc = "sft"
    BY <1>10, AtRunning DEF SftBatch, Pcs
  <2>2. UNCHANGED <<made, warmup, known, inputs>>
    BY <1>10 DEF SftBatch
  <2>3. call.item \in 1 .. MaxItems /\ call.n \in 1 .. MaxItems
    BY <2>1, RunningFields
  <2>4. CASE call.item < call.n
    <3>1. PICK i : i = call.item + 1
      OBVIOUS
    <3>2. i \in 1 .. MaxItems /\ i <= call.n
      BY <2>3, <2>4, <3>1, Limits
    <3>3. PICK d : d = [call EXCEPT !.item = i]
      OBVIOUS
    <3>4. d \in Running /\ d.pc = "sft" /\ d.item = i /\ d.n = call.n
      BY <2>1, <3>2, <3>3, CallNext
    <3>5. call' = d
      BY <1>10, <2>4, <3>1, <3>3 DEF SftBatch
    <3> QED
      BY <2>1, <2>2, <3>2, <3>4, <3>5, CallTyped, CallGoesOn
  <2>5. CASE ~ (call.item < call.n)
    <3>1. PICK d : d = [call EXCEPT !.pc = "save"]
      OBVIOUS
    <3>2. d \in Running /\ d.pc = "save" /\ d.item = call.item /\ d.n = call.n
      BY <2>1, <3>1, CallMoved DEF Pcs
    <3>3. call' = d
      BY <1>10, <2>5, <3>1 DEF SftBatch, To
    <3> QED
      BY <2>1, <2>2, <3>2, <3>3, CallTyped, CallGoesOn
  <2> QED
    BY <2>4, <2>5
<1>11. CASE Save
  <2>1. call \in Running /\ made > 0 /\ call.item <= call.n
    BY <1>11, AtRunning DEF Save, Pcs
  <2>2. PICK p \in {"wake", "reload"} : call' = [call EXCEPT !.pc = p]
    BY <1>11 DEF Save, To
  <2>6. p \in Pcs
    BY DEF Pcs
  <2>3. PICK d : d = [call EXCEPT !.pc = p]
    OBVIOUS
  <2>4. /\ d \in Running /\ d.pc = p /\ d.item = call.item /\ d.n = call.n
    BY <2>1, <2>3, <2>6, CallMoved
  <2>5. call' = d /\ UNCHANGED <<inputs, known, made, warmup>>
    BY <1>11, <2>2, <2>3 DEF Save
  <2> QED
    BY <2>1, <2>4, <2>5, CallTyped, CallGoesOn
<1>12. CASE Wake
  <2>1. call \in Running /\ made > 0 /\ call.item <= call.n
    BY <1>12, AtRunning DEF Wake, CallOK, Pcs
  <2>2. PICK d : d = [call EXCEPT !.pc = "reload"]
    OBVIOUS
  <2>3. /\ d \in Running /\ d.pc = "reload" /\ d.item = call.item /\ d.n = call.n
    BY <2>1, <2>2, CallMoved DEF Pcs
  <2>4. call' = d /\ UNCHANGED <<inputs, known, made>> /\ warmup' \in BOOLEAN
    BY <1>12, <2>2, CallTyped DEF Wake, To
  <2> QED
    BY <2>1, <2>3, <2>4, CallTyped, CallGoesOn
<1>13. CASE Reload
  <2>1. call' = Idle /\ UNCHANGED <<inputs, warmup, known>>
    BY <1>13 DEF Reload
  <2>2. call' \in Over
    BY <2>1 DEF Over
  <2> QED
    BY <2>1, <2>2, CallTyped, CallEnded
<1>14. CASE LoopEnds
  <2>1. UNCHANGED <<call, warmup, known, made, unfinished, inputs>>
    BY <1>14 DEF LoopEnds
  <2> QED
    BY <2>1 DEF CallOK, At
<1>15. ASSUME NEW kind \in {"rl", "sft"}, StartRefused(kind) PROVE CallOK'
  <2>1. StopTrainer(Idle) /\ UNCHANGED warmup
    BY <1>15 DEF StartRefused
  <2> QED
    BY <2>1, StopsTyped, CallTyped, CallEnded
<1>16. ASSUME NEW kind \in {"rl", "sft"}, NEW n \in 1 .. MaxItems, Start(kind, n) PROVE CallOK'
  <2>1. made' > 0 /\ UNCHANGED <<inputs, warmup, known>>
    BY <1>16, QueuesTyped DEF Start, Kinds
  <2>2. PICK p \in {"sleep", "join"} :
            call' = [pc |-> p, kind |-> kind, n |-> n, item |-> 1, warm |-> FALSE, got |-> Nothing]
    BY <1>16 DEF Start, Begun
  <2>3. call' \in Running /\ call'.pc = p /\ call'.item = 1 /\ call'.n = n
    BY <2>2, Limits DEF Running, Pcs, Kinds
  <2>4. 1 <= n
    OBVIOUS
  <2> QED
    BY <2>1, <2>3, <2>4, CallTyped, CallGoesOn
<1>17. CASE TrainFails
  <2>1. UNCHANGED <<call, warmup, known, made, unfinished>> /\ inputs # <<>>
        /\ inputs' = Tail(inputs)
    BY <1>17 DEF TrainFails
  <2>2. inputs' \in Seq(Inputs \cup {Stop})
    BY <2>1, CallTyped, Popped
  <2> QED
    BY <2>1, <2>2 DEF CallOK, At
<1>18. CASE StepFails
  <2>1. StopTrainer(Idle) /\ UNCHANGED warmup
    BY <1>18 DEF StepFails, Raise
  <2> QED
    BY <2>1, StopsTyped, CallTyped, CallEnded
<1>19. CASE Cancel
  <2>1. StopTrainer(Idle) /\ UNCHANGED warmup
    BY <1>19 DEF Cancel, Raise
  <2> QED
    BY <2>1, StopsTyped, CallTyped, CallEnded
<1>20. CASE VllmExits
  <2>1. UNCHANGED <<call, warmup, known, made, unfinished, inputs>>
    BY <1>20 DEF VllmExits
  <2> QED
    BY <2>1 DEF CallOK, At
<1>21. CASE BackendCloses
  <2>1. StopTrainer(Idle) /\ UNCHANGED warmup
    BY <1>21 DEF BackendCloses
  <2> QED
    BY <2>1, StopsTyped, CallTyped, CallEnded
<1>22. CASE BackendClosesNow
  <2>1. UNCHANGED <<call, warmup, known, made, unfinished, inputs>>
    BY <1>22 DEF BackendClosesNow
  <2> QED
    BY <2>1 DEF CallOK, At
<1>23. CASE UNCHANGED vars
  BY <1>23 DEF vars, CallOK, At
<1> QED
  BY <1>1, <1>2, <1>3, <1>4, <1>5, <1>6, <1>7, <1>8, <1>9, <1>10, <1>11, <1>12, <1>13, <1>14,
     <1>15, <1>16, <1>17, <1>18, <1>19, <1>20, <1>21, <1>22, <1>23
     DEF Next, Steps


LEMMA OwnersStep == TypeOK /\ CallOK /\ Owners /\ Balance /\ Fed /\ [Next]_vars => Owners'
<1> SUFFICES ASSUME TypeOK /\ CallOK /\ Owners /\ Balance /\ Fed, [Next]_vars PROVE Owners'
  OBVIOUS
<1> USE DEF server, model, tasks, marks
<1>1. CASE Stopped
  <2>1. getters' = getters /\ ~ Waiting /\ call' = Idle
    BY <1>1 DEF Stopped, Waiting, At
  <2> QED
    BY <2>1 DEF Owners, Waiting, At, Idle
<1>2. CASE Sleep
  <2>1. getters' = getters /\ ~ Waiting /\ ~ Waiting'
    <3>1. getters' = getters /\ ~ Waiting
      BY <1>2 DEF Sleep, Waiting, At
    <3>2. call'.pc # "wait"
      BY <1>2, AtRunning, CallNext, CallMoved DEF Sleep, To, ModeSet, Pcs, Running
    <3> QED
      BY <3>1, <3>2 DEF Waiting, At
  <2> QED
    BY <2>1 DEF Owners
<1>3. CASE Join
  <2>1. call \in Running /\ made > 0 /\ ~ Waiting
    BY <1>3, AtRunning DEF Join, Pcs, Waiting, At
  <2>2. \E i \in 1 .. MaxItems, w \in BOOLEAN : Feed(i, w)
    BY <1>3, <2>1, Limits, CallTyped, RunningFields DEF Join
  <2>3. /\ getters' = Append(getters, "own") /\ call'.pc = "wait" /\ call'.got = Nothing
    BY <2>1, <2>2, FeedsCall
  <2> QED
    BY <2>1, <2>3, OwnFed
<1>4. CASE TrainStep
  <2>0. trainer = "waiting" /\ inputs # <<>> /\ Head(inputs) # Stop /\ getters' = Tail(getters)
    BY <1>4 DEF TrainStep
  <2>1. /\ Head(inputs) \in Inputs /\ getters # <<>>
        /\ Head(getters) = "own" => Waiting /\ Len(getters) = 1
    BY <2>0, InputTaken
  <2>2. /\ Len(getters) \in Nat /\ Len(getters) >= 1 /\ Len(getters') = Len(getters) - 1
        /\ \A i \in 1 .. Len(getters) - 1 : getters'[i] = getters[i + 1]
        /\ Head(getters) = getters[1]
    BY <2>0, <2>1, QueuesTyped, Popped
  <2>3. CASE Head(getters) = "own"
    <3>1. call \in Running
      BY <2>1, <2>3, AtRunning DEF Waiting, Pcs
    <3>2. PICK g \in Inputs : g = Head(inputs)
      BY <2>1
    <3>3. PICK d : d = [call EXCEPT !.got = g]
      OBVIOUS
    <3>4. d.got = g /\ g # Nothing
      BY <3>1, <3>2, <3>3, CallGot, InputNotNothing
    <3>5. call' = d
      BY <1>4, <2>3, <3>2, <3>3 DEF TrainStep
    <3> QED
      BY <2>1, <2>2, <2>3, <3>4, <3>5 DEF Owners, Waiting
  <2>4. CASE Head(getters) # "own"
    <3>1. UNCHANGED call
      BY <1>4, <2>4 DEF TrainStep
    <3>2. Waiting' <=> Waiting
      BY <3>1 DEF Waiting, At
    <3>3. \A i \in 1 .. Len(getters') : getters'[i] = "own" => i = Len(getters') /\ Waiting
      BY <2>2 DEF Owners
    <3>4. Waiting => Len(getters') > 0 /\ getters'[Len(getters')] = "own"
      BY <2>2, <2>4 DEF Owners
    <3> QED
      BY <3>2, <3>3, <3>4 DEF Owners
  <2> QED
    BY <2>3, <2>4
<1>5. CASE TrainStops
  <2>1. UNCHANGED <<call, getters>>
    BY <1>5 DEF TrainStops
  <2> QED
    BY <2>1 DEF Owners, Waiting, At
<1>6. CASE WarmedUp
  <2>1. getters' = getters /\ ~ Waiting /\ ~ Waiting'
    <3>1. getters' = getters /\ ~ Waiting
      BY <1>6 DEF WarmedUp, Waiting, At
    <3>2. call'.pc # "wait"
      BY <1>6, AtRunning, CallNext, CallMoved DEF WarmedUp, To, Pcs, Running
    <3> QED
      BY <3>1, <3>2 DEF Waiting, At
  <2> QED
    BY <2>1 DEF Owners
<1>7. CASE Rested
  <2>1. call \in Running /\ made > 0 /\ ~ Waiting
    BY <1>7, AtRunning DEF Rested, Pcs, Waiting, At
  <2>2. \E i \in 1 .. MaxItems, w \in BOOLEAN : Feed(i, w)
    BY <1>7, <2>1, Limits, CallTyped, RunningFields DEF Rested
  <2>3. /\ getters' = Append(getters, "own") /\ call'.pc = "wait" /\ call'.got = Nothing
    BY <2>1, <2>2, FeedsCall
  <2> QED
    BY <2>1, <2>3, OwnFed
<1>8. CASE Yield
  <2>1. ~ Waiting
    BY <1>8 DEF Yield, Waiting
  <2>2. CASE getters' = getters /\ call' = To("save")
    <3>1. ~ Waiting'
      BY <2>2, <1>8, AtRunning, CallMoved DEF Yield, To, Waiting, At, Pcs
    <3> QED
      BY <2>1, <2>2, <3>1 DEF Owners
  <2>3. CASE Feed(call.item + 1, FALSE)
    <3>1. getters' = Append(getters, "own")
      BY <2>3 DEF Feed
    <3>2. call'.pc = "wait" /\ call'.got = Nothing
      <4>1. call \in Running
        BY <1>8, AtRunning DEF Yield, Pcs
      <4> QED
        BY <2>3, <4>1 DEF Feed, Running
    <3> QED
      BY <2>1, <3>1, <3>2, OwnFed
  <2> QED
    BY <1>8, <2>2, <2>3 DEF Yield
<1>9. CASE TrainerOver
  <2>1. getters' = RemoveFirst(getters, "own") /\ Waiting /\ StopTrainer(Idle)
    BY <1>9 DEF TrainerOver, Raise, Without, Waiting
  <2>2. /\ Len(getters') = Len(getters) - 1 /\ Len(getters) \in Nat
        /\ \A i \in 1 .. Len(getters) - 1 : getters'[i] = getters[i]
    BY <2>1, OwnRemoved, QueuesTyped DEF Owners
  <2>3. \A i \in 1 .. Len(getters') : getters'[i] # "own"
    BY <2>2 DEF Owners
  <2>4. ~ Waiting'
    BY <2>1, StopAsked DEF Waiting, At
  <2> QED
    BY <2>3, <2>4 DEF Owners
<1>10. CASE SftBatch
  <2>1. getters' = getters /\ ~ Waiting /\ ~ Waiting'
    <3>1. getters' = getters /\ ~ Waiting
      BY <1>10 DEF SftBatch, Waiting, At
    <3>2. call'.pc # "wait"
      BY <1>10, AtRunning, CallNext, CallMoved DEF SftBatch, To, Pcs, Running
    <3> QED
      BY <3>1, <3>2 DEF Waiting, At
  <2> QED
    BY <2>1 DEF Owners
<1>11. CASE Save
  <2>1. getters' = getters /\ ~ Waiting /\ ~ Waiting'
    <3>1. getters' = getters /\ ~ Waiting
      BY <1>11 DEF Save, Waiting, At
    <3>2. call'.pc # "wait"
      BY <1>11, AtRunning, CallNext, CallMoved DEF Save, To, Pcs, Running
    <3> QED
      BY <3>1, <3>2 DEF Waiting, At
  <2> QED
    BY <2>1 DEF Owners
<1>12. CASE Wake
  <2>1. getters' = getters /\ ~ Waiting /\ ~ Waiting'
    <3>1. getters' = getters /\ ~ Waiting
      BY <1>12 DEF Wake, Waiting, At
    <3>2. call'.pc # "wait"
      BY <1>12, AtRunning, CallNext, CallMoved DEF Wake, To, Pcs, Running
    <3> QED
      BY <3>1, <3>2 DEF Waiting, At
  <2> QED
    BY <2>1 DEF Owners
<1>13. CASE Reload
  <2>1. getters' = getters /\ ~ Waiting /\ call' = Idle
    BY <1>13 DEF Reload, Waiting, At
  <2> QED
    BY <2>1 DEF Owners, Waiting, At, Idle
<1>14. CASE LoopEnds
  <2>1. UNCHANGED <<call, getters>>
    BY <1>14 DEF LoopEnds
  <2> QED
    BY <2>1 DEF Owners, Waiting, At
<1>15. ASSUME NEW kind \in {"rl", "sft"}, StartRefused(kind) PROVE Owners'
  <2>1. getters' = getters /\ ~ Waiting /\ StopTrainer(Idle)
    BY <1>15 DEF StartRefused, Waiting, At
  <2>2. ~ Waiting'
    BY <2>1, StopAsked DEF Waiting, At
  <2> QED
    BY <2>1, <2>2 DEF Owners
<1>16. ASSUME NEW kind \in {"rl", "sft"}, NEW n \in 1 .. MaxItems, Start(kind, n) PROVE Owners'
  <2>1. getters' = getters /\ ~ Waiting /\ ~ Waiting'
    <3>1. getters' = getters /\ ~ Waiting
      BY <1>16 DEF Start, Waiting, At
    <3>2. call'.pc # "wait"
      BY <1>16, AtRunning, CallNext, CallMoved DEF Start, Begun, ModeSet, Pcs, Running
    <3> QED
      BY <3>1, <3>2 DEF Waiting, At
  <2> QED
    BY <2>1 DEF Owners
<1>17. CASE TrainFails
  <2>1. UNCHANGED <<call, getters>>
    BY <1>17 DEF TrainFails
  <2> QED
    BY <2>1 DEF Owners, Waiting, At
<1>18. CASE StepFails
  <2>1. getters' = getters /\ ~ Waiting /\ StopTrainer(Idle)
    BY <1>18 DEF StepFails, Raise, Waiting, At
  <2>2. ~ Waiting'
    BY <2>1, StopAsked DEF Waiting, At
  <2> QED
    BY <2>1, <2>2 DEF Owners
<1>19. CASE Cancel
  <2>1. StopTrainer(Idle) /\ getters' = [i \in DOMAIN getters |-> "left"]
    BY <1>19 DEF Cancel, Raise
  <2>2. \A i \in 1 .. Len(getters') : getters'[i] # "own"
    <3>1. getters \in Seq({"own", "left"})
      BY QueuesTyped
    <3>2. \A i \in 1 .. Len(getters) : getters'[i] = "left"
      BY <2>1, <3>1
    <3>3. Len(getters') = Len(getters)
      BY <2>1, <3>1
    <3> QED
      BY <3>2, <3>3
  <2>3. ~ Waiting'
    BY <2>1, StopAsked DEF Waiting, At
  <2> QED
    BY <2>2, <2>3 DEF Owners
<1>20. CASE VllmExits
  <2>1. UNCHANGED <<call, getters>>
    BY <1>20 DEF VllmExits
  <2> QED
    BY <2>1 DEF Owners, Waiting, At
<1>21. CASE BackendCloses
  <2>1. getters' = getters /\ ~ Waiting /\ StopTrainer(Idle)
    BY <1>21 DEF BackendCloses, Waiting, At
  <2>2. ~ Waiting'
    BY <2>1, StopAsked DEF Waiting, At
  <2> QED
    BY <2>1, <2>2 DEF Owners
<1>22. CASE BackendClosesNow
  <2>1. UNCHANGED <<call, getters>>
    BY <1>22 DEF BackendClosesNow
  <2> QED
    BY <2>1 DEF Owners, Waiting, At
<1>23. CASE UNCHANGED vars
  BY <1>23 DEF vars, Owners, Waiting, At
<1> QED
  BY <1>1, <1>2, <1>3, <1>4, <1>5, <1>6, <1>7, <1>8, <1>9, <1>10, <1>11, <1>12, <1>13, <1>14,
     <1>15, <1>16, <1>17, <1>18, <1>19, <1>20, <1>21, <1>22, <1>23
     DEF Next, Steps


LEMMA BalanceStep == TypeOK /\ CallOK /\ Owners /\ Balance /\ Fed /\ [Next]_vars => Balance'
<1> SUFFICES ASSUME TypeOK /\ CallOK /\ Owners /\ Balance /\ Fed, [Next]_vars PROVE Balance'
  OBVIOUS
<1> USE DEF server, model, tasks, marks
<1>1. CASE Stopped
  <2>1. trainer # "waiting" /\ UNCHANGED <<inputs, getters, trainer, known>>
        /\ ~ At("stopping")'
    BY <1>1 DEF Stopped, At, Idle
  <2> QED
    BY <2>1 DEF Balance
<1>2. CASE Sleep
  <2>1. UNCHANGED <<inputs, getters, trainer, known>>
    BY <1>2 DEF Sleep
  <2>2. (At("stopping")' <=> At("stopping"))
    BY <1>2, AtRunning DEF Sleep, To, ModeSet, Pcs, Running, At
  <2> QED
    BY <2>1, <2>2 DEF Balance
<1>3. CASE Join
  <2>1. call \in Running /\ made > 0 /\ ~ At("stopping")
    BY <1>3, AtRunning DEF Join, Pcs, At
  <2>2. \E i \in 1 .. MaxItems, w \in BOOLEAN : Feed(i, w)
    BY <1>3, <2>1, Limits, CallTyped, RunningFields DEF Join
  <2>3. /\ getters' = Append(getters, "own") /\ call'.pc = "wait"
        /\ \E x \in Inputs : inputs' = Append(inputs, x)
    BY <2>1, <2>2, FeedsCall
  <2>4. Len(getters') = Len(getters) + 1 /\ Len(inputs') = Len(inputs) + 1
    BY <2>3, QueuesTyped, Appended
  <2>5. ~ At("stopping")'
    BY <2>3 DEF At
  <2>6. known' = TRUE /\ trainer' = IF known THEN trainer ELSE "waiting"
    BY <1>3 DEF Join
  <2> QED
    BY <2>1, <2>4, <2>5, <2>6, QueuesTyped DEF Balance
<1>4. CASE TrainStep
  <2>0. trainer = "waiting" /\ inputs # <<>> /\ Head(inputs) # Stop
        /\ getters' = Tail(getters) /\ inputs' = Tail(inputs) /\ UNCHANGED <<trainer, known>>
    BY <1>4 DEF TrainStep
  <2>1. /\ getters # <<>>
        /\ At("stopping") => Len(inputs) > 1
        /\ Head(getters) = "own" => Waiting
    BY <2>0, InputTaken
  <2>2. /\ Len(getters') = Len(getters) - 1 /\ Len(inputs') = Len(inputs) - 1
        /\ \A i \in 1 .. Len(inputs) - 1 : inputs'[i] = inputs[i + 1]
    BY <2>0, <2>1, QueuesTyped, Popped
  <2>3. At("stopping")' <=> At("stopping")
    <3>1. CASE Head(getters) = "own"
      <4>1. call \in Running /\ call.pc = "wait"
        BY <2>1, <3>1, AtRunning DEF Waiting, Pcs
      <4>2. call' = [call EXCEPT !.got = Head(inputs)]
        BY <1>4, <3>1 DEF TrainStep
      <4>3. call'.pc = "wait"
        BY <4>1, <4>2 DEF Running
      <4> QED
        BY <4>1, <4>3 DEF At
    <3>2. CASE Head(getters) # "own"
      BY <1>4, <3>2 DEF TrainStep, At
    <3> QED
      BY <3>1, <3>2
  <2>4. CASE At("stopping")
    <3>1. inputs'[Len(inputs')] = Stop /\ Len(inputs') > 0
      BY <2>0, <2>1, <2>2, <2>4, QueuesTyped DEF Balance
    <3> QED
      BY <2>0, <2>2, <2>3, <2>4, <3>1, QueuesTyped DEF Balance
  <2>5. CASE ~ At("stopping")
    BY <2>0, <2>2, <2>3, <2>5, QueuesTyped DEF Balance
  <2> QED
    BY <2>4, <2>5
<1>5. CASE TrainStops
  <2>1. /\ trainer = "waiting" /\ inputs # <<>> /\ inputs' = Tail(inputs)
        /\ trainer' \in {"ended", "broken"}
        /\ UNCHANGED <<call, known, getters>>
    BY <1>5 DEF TrainStops
  <2>2. Len(inputs') = Len(inputs) - 1 /\ Len(inputs) \in Nat
    BY <2>1, QueuesTyped, Popped
  <2>3. (At("stopping")' <=> At("stopping"))
    BY <2>1 DEF At
  <2>4. Len(inputs') <= Len(getters)
    BY <2>1, <2>2, QueuesTyped DEF Balance
  <2>5. known => Len(inputs') < Len(getters)
    <3>1. known => ~ At("stopping")
      BY <2>1 DEF Balance
    <3> QED
      BY <2>1, <2>2, <3>1, QueuesTyped DEF Balance
  <2> QED
    BY <2>1, <2>3, <2>4, <2>5 DEF Balance
<1>6. CASE WarmedUp
  <2>1. UNCHANGED <<inputs, getters, trainer, known>>
    BY <1>6 DEF WarmedUp
  <2>2. (At("stopping")' <=> At("stopping"))
    BY <1>6, AtRunning DEF WarmedUp, To, Pcs, Running, At
  <2> QED
    BY <2>1, <2>2 DEF Balance
<1>7. CASE Rested
  <2>1. call \in Running /\ made > 0 /\ ~ At("stopping")
    BY <1>7, AtRunning DEF Rested, Pcs, At
  <2>2. \E i \in 1 .. MaxItems, w \in BOOLEAN : Feed(i, w)
    BY <1>7, <2>1, Limits, CallTyped, RunningFields DEF Rested
  <2>3. /\ getters' = Append(getters, "own") /\ call'.pc = "wait"
        /\ \E x \in Inputs : inputs' = Append(inputs, x)
    BY <2>1, <2>2, FeedsCall
  <2>4. Len(getters') = Len(getters) + 1 /\ Len(inputs') = Len(inputs) + 1
    BY <2>3, QueuesTyped, Appended
  <2>5. ~ At("stopping")'
    BY <2>3 DEF At
  <2>6. UNCHANGED <<trainer, known>>
    BY <1>7 DEF Rested
  <2> QED
    BY <2>1, <2>4, <2>5, <2>6, QueuesTyped DEF Balance
<1>8. CASE Yield
  <2>1. call \in Running /\ made > 0 /\ ~ At("stopping") /\ UNCHANGED <<trainer, known>>
    BY <1>8, AtRunning DEF Yield, Pcs, At
  <2>2. call.item \in 1 .. MaxItems /\ call.n \in 1 .. MaxItems
    BY <2>1, RunningFields
  <2>3. CASE call.item < call.n
    <3>1. PICK i : i = call.item + 1
      OBVIOUS
    <3>2. i \in 1 .. MaxItems
      BY <2>2, <2>3, <3>1, Limits
    <3>3. Feed(i, FALSE)
      BY <1>8, <2>3, <3>1 DEF Yield
    <3>4. /\ getters' = Append(getters, "own") /\ call'.pc = "wait"
          /\ \E x \in Inputs : inputs' = Append(inputs, x)
      BY <2>1, <3>2, <3>3, FeedsCall
    <3>5. Len(getters') = Len(getters) + 1 /\ Len(inputs') = Len(inputs) + 1
      BY <3>4, QueuesTyped, Appended
    <3>6. ~ At("stopping")'
      BY <3>4 DEF At
    <3> QED
      BY <2>1, <3>5, <3>6, QueuesTyped DEF Balance
  <2>4. CASE ~ (call.item < call.n)
    <3>1. UNCHANGED <<inputs, getters>> /\ call'.pc = "save"
      BY <1>8, <2>1, <2>4 DEF Yield, To, Running
    <3>2. ~ At("stopping")'
      BY <3>1 DEF At
    <3> QED
      BY <2>1, <3>1, <3>2, QueuesTyped DEF Balance
  <2> QED
    BY <2>3, <2>4
<1>9. CASE TrainerOver
  <2>1. /\ getters' = RemoveFirst(getters, "own") /\ Waiting /\ StopTrainer(Idle) /\ At("wait")
        /\ trainer # "waiting" /\ UNCHANGED trainer
    BY <1>9 DEF TrainerOver, Raise, Without, Waiting
  <2>2. Len(getters') = Len(getters) - 1
    BY <2>1, OwnRemoved, QueuesTyped DEF Owners
  <2>3. known /\ trainer # "none"
    BY <2>1 DEF CallOK, Balance
  <2>4. /\ known' = FALSE /\ inputs' = inputs /\ ~ At("stopping")'
    BY <2>1, StopAsked DEF At, Idle
  <2> QED
    BY <2>1, <2>2, <2>3, <2>4, QueuesTyped DEF Balance
<1>10. CASE SftBatch
  <2>1. UNCHANGED <<inputs, getters, trainer, known>>
    BY <1>10 DEF SftBatch
  <2>2. (At("stopping")' <=> At("stopping"))
    BY <1>10, AtRunning DEF SftBatch, To, Pcs, Running, At
  <2> QED
    BY <2>1, <2>2 DEF Balance
<1>11. CASE Save
  <2>1. UNCHANGED <<inputs, getters, trainer, known>>
    BY <1>11 DEF Save
  <2>2. (At("stopping")' <=> At("stopping"))
    BY <1>11, AtRunning DEF Save, To, Pcs, Running, At
  <2> QED
    BY <2>1, <2>2 DEF Balance
<1>12. CASE Wake
  <2>1. UNCHANGED <<inputs, getters, trainer, known>>
    BY <1>12 DEF Wake
  <2>2. (At("stopping")' <=> At("stopping"))
    BY <1>12, AtRunning DEF Wake, To, Pcs, Running, At
  <2> QED
    BY <2>1, <2>2 DEF Balance
<1>13. CASE Reload
  <2>1. UNCHANGED <<inputs, getters, trainer, known>>
    BY <1>13 DEF Reload
  <2>2. (At("stopping")' <=> At("stopping"))
    BY <1>13, AtRunning DEF Reload, Idle, Pcs, Running, At
  <2> QED
    BY <2>1, <2>2 DEF Balance
<1>14. CASE LoopEnds
  <2>1. UNCHANGED <<inputs, getters, trainer, known>>
    BY <1>14 DEF LoopEnds
  <2>2. (At("stopping")' <=> At("stopping"))
    BY <1>14, AtRunning DEF LoopEnds, Pcs, Running, At
  <2> QED
    BY <2>1, <2>2 DEF Balance
<1>15. ASSUME NEW kind \in {"rl", "sft"}, StartRefused(kind) PROVE Balance'
  <2>1. StopTrainer(Idle) /\ UNCHANGED trainer /\ ~ At("stopping")
    BY <1>15 DEF StartRefused, At
  <2>2. Len(getters') = Len(getters)
    BY <1>15 DEF StartRefused
  <2> QED
    BY <2>1, <2>2, StopBalanced
<1>16. ASSUME NEW kind \in {"rl", "sft"}, NEW n \in 1 .. MaxItems, Start(kind, n) PROVE Balance'
  <2>1. UNCHANGED <<inputs, getters, trainer, known>>
    BY <1>16 DEF Start
  <2>2. (At("stopping")' <=> At("stopping"))
    BY <1>16, AtRunning DEF Start, Begun, ModeSet, Pcs, Running, At
  <2> QED
    BY <2>1, <2>2 DEF Balance
<1>17. CASE TrainFails
  <2>1. /\ trainer = "waiting" /\ inputs # <<>> /\ inputs' = Tail(inputs)
        /\ trainer' \in {"ended", "broken"}
        /\ UNCHANGED <<call, known, getters>>
    BY <1>17 DEF TrainFails
  <2>2. Len(inputs') = Len(inputs) - 1 /\ Len(inputs) \in Nat
    BY <2>1, QueuesTyped, Popped
  <2>3. (At("stopping")' <=> At("stopping"))
    BY <2>1 DEF At
  <2>4. Len(inputs') <= Len(getters)
    BY <2>1, <2>2, QueuesTyped DEF Balance
  <2>5. known => Len(inputs') < Len(getters)
    <3>1. known => ~ At("stopping")
      BY <2>1 DEF Balance
    <3> QED
      BY <2>1, <2>2, <3>1, QueuesTyped DEF Balance
  <2> QED
    BY <2>1, <2>3, <2>4, <2>5 DEF Balance
<1>18. CASE StepFails
  <2>1. StopTrainer(Idle) /\ UNCHANGED trainer /\ ~ At("stopping")
    BY <1>18 DEF StepFails, Raise, At
  <2>2. Len(getters') = Len(getters)
    BY <1>18 DEF StepFails, Raise
  <2> QED
    BY <2>1, <2>2, StopBalanced
<1>19. CASE Cancel
  <2>1. StopTrainer(Idle) /\ UNCHANGED trainer /\ ~ At("stopping")
    BY <1>19 DEF Cancel, Raise, At
  <2>2. Len(getters') = Len(getters)
    <3>1. getters' = [i \in DOMAIN getters |-> "left"] /\ getters \in Seq({"own", "left"})
      BY <1>19, QueuesTyped DEF Cancel, Raise
    <3> QED
      BY <3>1
  <2> QED
    BY <2>1, <2>2, StopBalanced
<1>20. CASE VllmExits
  <2>1. UNCHANGED <<inputs, getters, trainer, known>>
    BY <1>20 DEF VllmExits
  <2>2. (At("stopping")' <=> At("stopping"))
    BY <1>20, AtRunning DEF VllmExits, Pcs, Running, At
  <2> QED
    BY <2>1, <2>2 DEF Balance
<1>21. CASE BackendCloses
  <2>1. StopTrainer(Idle) /\ UNCHANGED trainer /\ ~ At("stopping")
    BY <1>21 DEF BackendCloses, At
  <2>2. Len(getters') = Len(getters)
    BY <1>21 DEF BackendCloses
  <2> QED
    BY <2>1, <2>2, StopBalanced
<1>22. CASE BackendClosesNow
  <2>1. UNCHANGED <<inputs, getters, trainer, known>>
    BY <1>22 DEF BackendClosesNow
  <2>2. (At("stopping")' <=> At("stopping"))
    BY <1>22, AtRunning DEF BackendClosesNow, Pcs, Running, At
  <2> QED
    BY <2>1, <2>2 DEF Balance
<1>23. CASE UNCHANGED vars
  BY <1>23 DEF vars, Balance, At
<1> QED
  BY <1>1, <1>2, <1>3, <1>4, <1>5, <1>6, <1>7, <1>8, <1>9, <1>10, <1>11, <1>12, <1>13, <1>14,
     <1>15, <1>16, <1>17, <1>18, <1>19, <1>20, <1>21, <1>22, <1>23
     DEF Next, Steps


LEMMA FedStep == TypeOK /\ CallOK /\ Owners /\ Balance /\ Fed /\ Placed /\ [Next]_vars => Fed'
<1> SUFFICES ASSUME TypeOK /\ CallOK /\ Owners /\ Balance /\ Fed /\ Placed, [Next]_vars PROVE Fed'
  OBVIOUS
<1> USE DEF server, model, tasks, marks
<1>1. CASE Stopped
  <2>1. trainer # "waiting" /\ UNCHANGED trainer
    BY <1>1 DEF Stopped
  <2> QED
    BY <2>1 DEF Fed
<1>2. CASE Sleep
  <2>1. UNCHANGED <<trainer, inputs>> /\ ~ Waiting /\ ~ At("stopping")
    BY <1>2 DEF Sleep, Waiting, At
  <2>2. ~ At("stopping")'
    BY <1>2, AtRunning DEF Sleep, To, ModeSet, Pcs, Running, At
  <2> QED
    BY <2>1, <2>2 DEF Fed
<1>3. CASE Join
  <2>1. call \in Running /\ made > 0
    BY <1>3, AtRunning DEF Join, Pcs
  <2>2. \E i \in 1 .. MaxItems, w \in BOOLEAN : Feed(i, w)
    BY <1>3, <2>1, Limits, CallTyped, RunningFields DEF Join
  <2>3. call'.pc = "wait" /\ call'.got = Nothing
    BY <2>1, <2>2, FeedsCall
  <2> QED
    BY <2>3 DEF Fed, Waiting, At
<1>4. CASE TrainStep
  <2>0. trainer = "waiting" /\ inputs # <<>> /\ Head(inputs) # Stop
        /\ inputs' = Tail(inputs) /\ UNCHANGED <<trainer, placed, lastMode>>
    BY <1>4 DEF TrainStep
  <2>1. /\ Waiting \/ At("stopping")
        /\ Head(getters) = "own" => Waiting /\ Len(inputs) = 1
    BY <2>0, InputTaken
  <2>2. /\ Len(inputs') = Len(inputs) - 1 /\ Len(inputs) \in Nat
        /\ \A i \in 1 .. Len(inputs) - 1 : inputs'[i] = inputs[i + 1]
        /\ Len(inputs) = 1 => inputs' = <<>>
    BY <2>0, QueuesTyped, Popped
  <2>3. CASE Head(getters) = "own"
    <3>1. inputs' = <<>> /\ call.pc = "wait"
      BY <2>1, <2>2, <2>3 DEF Waiting, At
    <3>2. call \in Running
      BY <2>1, <2>3, AtRunning DEF Waiting, Pcs
    <3>3. call'.pc = "wait"
      BY <1>4, <2>3, <3>1, <3>2 DEF TrainStep, Running
    <3> QED
      BY <3>1, <3>3 DEF Fed, At
  <2>4. CASE Head(getters) # "own"
    <3>1. UNCHANGED call
      BY <1>4, <2>4 DEF TrainStep
    <3>2. (Waiting' <=> Waiting) /\ (At("stopping")' <=> At("stopping"))
      BY <3>1 DEF Waiting, At
    <3> QED
      BY <2>0, <2>1, <2>2, <3>2 DEF Fed
  <2> QED
    BY <2>3, <2>4
<1>5. CASE TrainStops
  <2>1. trainer' # "waiting"
    BY <1>5 DEF TrainStops
  <2> QED
    BY <2>1 DEF Fed
<1>6. CASE WarmedUp
  <2>1. UNCHANGED <<trainer, inputs>> /\ ~ Waiting /\ ~ At("stopping")
    BY <1>6 DEF WarmedUp, Waiting, At
  <2>2. ~ At("stopping")'
    BY <1>6, AtRunning DEF WarmedUp, To, Pcs, Running, At
  <2> QED
    BY <2>1, <2>2 DEF Fed
<1>7. CASE Rested
  <2>1. call \in Running /\ made > 0
    BY <1>7, AtRunning DEF Rested, Pcs
  <2>2. \E i \in 1 .. MaxItems, w \in BOOLEAN : Feed(i, w)
    BY <1>7, <2>1, Limits, CallTyped, RunningFields DEF Rested
  <2>3. call'.pc = "wait" /\ call'.got = Nothing
    BY <2>1, <2>2, FeedsCall
  <2> QED
    BY <2>3 DEF Fed, Waiting, At
<1>8. CASE Yield
  <2>1. call \in Running /\ ~ At("stopping") /\ ~ Waiting /\ UNCHANGED trainer
    BY <1>8, AtRunning DEF Yield, Pcs, At, Waiting
  <2>2. CASE call.item < call.n
    <3>1. call'.pc = "wait" /\ call'.got = Nothing
      BY <1>8, <2>1, <2>2 DEF Yield, Feed, Running
    <3> QED
      BY <3>1 DEF Fed, Waiting, At
  <2>3. CASE ~ (call.item < call.n)
    <3>1. UNCHANGED inputs /\ call'.pc = "save"
      BY <1>8, <2>1, <2>3 DEF Yield, To, Running
    <3> QED
      BY <2>1, <3>1 DEF Fed, At
  <2> QED
    BY <2>2, <2>3
<1>9. CASE TrainerOver
  <2>1. StopTrainer(Idle) /\ ~ At("stopping") /\ UNCHANGED <<placed, lastMode, trainer>>
    BY <1>9 DEF TrainerOver, Raise, At
  <2> QED
    BY <2>1, StopFed
<1>10. CASE SftBatch
  <2>1. UNCHANGED <<trainer, inputs>> /\ ~ Waiting /\ ~ At("stopping")
    BY <1>10 DEF SftBatch, Waiting, At
  <2>2. ~ At("stopping")'
    BY <1>10, AtRunning DEF SftBatch, To, Pcs, Running, At
  <2> QED
    BY <2>1, <2>2 DEF Fed
<1>11. CASE Save
  <2>1. UNCHANGED <<trainer, inputs>> /\ ~ Waiting /\ ~ At("stopping")
    BY <1>11 DEF Save, Waiting, At
  <2>2. ~ At("stopping")'
    BY <1>11, AtRunning DEF Save, To, Pcs, Running, At
  <2> QED
    BY <2>1, <2>2 DEF Fed
<1>12. CASE Wake
  <2>1. UNCHANGED <<trainer, inputs>> /\ ~ Waiting /\ ~ At("stopping")
    BY <1>12 DEF Wake, Waiting, At
  <2>2. ~ At("stopping")'
    BY <1>12, AtRunning DEF Wake, To, Pcs, Running, At
  <2> QED
    BY <2>1, <2>2 DEF Fed
<1>13. CASE Reload
  <2>1. UNCHANGED <<trainer, inputs>> /\ ~ Waiting /\ ~ At("stopping")
    BY <1>13 DEF Reload, Waiting, At
  <2>2. ~ At("stopping")'
    BY <1>13, AtRunning DEF Reload, Idle, Pcs, Running, At
  <2> QED
    BY <2>1, <2>2 DEF Fed
<1>14. CASE LoopEnds
  <2>1. UNCHANGED <<trainer, inputs, call, placed, lastMode>>
    BY <1>14 DEF LoopEnds
  <2> QED
    BY <2>1 DEF Fed, Waiting, At
<1>15. ASSUME NEW kind \in {"rl", "sft"}, StartRefused(kind) PROVE Fed'
  <2>1. StopTrainer(Idle) /\ ~ At("stopping") /\ UNCHANGED <<placed, lastMode, trainer>>
    BY <1>15 DEF StartRefused, At
  <2> QED
    BY <2>1, StopFed
<1>16. ASSUME NEW kind \in {"rl", "sft"}, NEW n \in 1 .. MaxItems, Start(kind, n) PROVE Fed'
  <2>1. UNCHANGED <<trainer, inputs>> /\ ~ Waiting /\ ~ At("stopping")
    BY <1>16 DEF Start, Waiting, At
  <2>2. ~ At("stopping")'
    BY <1>16, AtRunning DEF Start, Begun, ModeSet, Pcs, Running, At
  <2> QED
    BY <2>1, <2>2 DEF Fed
<1>17. CASE TrainFails
  <2>1. trainer' # "waiting"
    BY <1>17 DEF TrainFails
  <2> QED
    BY <2>1 DEF Fed
<1>18. CASE StepFails
  <2>1. StopTrainer(Idle) /\ ~ At("stopping") /\ UNCHANGED <<placed, lastMode, trainer>>
    BY <1>18 DEF StepFails, Raise, At
  <2> QED
    BY <2>1, StopFed
<1>19. CASE Cancel
  <2>1. StopTrainer(Idle) /\ ~ At("stopping") /\ UNCHANGED <<placed, lastMode, trainer>>
    BY <1>19 DEF Cancel, Raise, At
  <2> QED
    BY <2>1, StopFed
<1>20. CASE VllmExits
  <2>1. UNCHANGED <<trainer, inputs, call, placed, lastMode>>
    BY <1>20 DEF VllmExits
  <2> QED
    BY <2>1 DEF Fed, Waiting, At
<1>21. CASE BackendCloses
  <2>1. StopTrainer(Idle) /\ ~ At("stopping") /\ UNCHANGED <<placed, lastMode, trainer>>
    BY <1>21 DEF BackendCloses, At
  <2> QED
    BY <2>1, StopFed
<1>22. CASE BackendClosesNow
  <2>1. UNCHANGED <<trainer, inputs, call, placed, lastMode>>
    BY <1>22 DEF BackendClosesNow
  <2> QED
    BY <2>1 DEF Fed, Waiting, At
<1>23. CASE UNCHANGED vars
  BY <1>23 DEF vars, Fed, Waiting, At
<1> QED
  BY <1>1, <1>2, <1>3, <1>4, <1>5, <1>6, <1>7, <1>8, <1>9, <1>10, <1>11, <1>12, <1>13, <1>14,
     <1>15, <1>16, <1>17, <1>18, <1>19, <1>20, <1>21, <1>22, <1>23
     DEF Next, Steps


LEMMA PlacedStep ==
    ASSUME TypeOK, CallOK, Owners, Balance, Fed, Placed, [Next]_vars
    PROVE  Placed'
<1> USE DEF server, model, tasks, marks
<1>1. CASE Stopped
  <2>1. call' = Idle /\ UNCHANGED <<mode, placed, moments, lastMode>>
    BY <1>1 DEF Stopped
  <2> QED
    BY <2>1 DEF Placed, At, Idle
<1>2. CASE Sleep
  <2>1. call \in Running /\ call.kind \in {"rl", "sft"}
    BY <1>2, AtRunning, RunningFields DEF Sleep, Pcs, Kinds
  <2>2. call'.pc = (IF call.kind = "rl" THEN "join" ELSE "sft") /\ call'.kind = call.kind
    BY <1>2, <2>1 DEF Sleep, To, Running
  <2>3. placed' = "gpu" /\ lastMode' = call.kind
        /\ moments' = IF lastMode \in {"none", call.kind} THEN moments ELSE {}
    BY <1>2 DEF Sleep, ModeSet
  <2>4. moments' \subseteq {lastMode'}
    BY <2>1, <2>3 DEF Placed, TypeOK
  <2> QED
    BY <2>1, <2>2, <2>3, <2>4 DEF Placed, At
<1>3. CASE Join
  <2>1. call \in Running /\ call.pc \in {"join", "wait", "rest"}
    BY <1>3, AtRunning DEF Join, Pcs, At
  <2>2. call'.kind = call.kind /\ call'.pc \in {"wait", "rest", "save"}
    BY <1>3, <2>1 DEF Join, Feed, Running
  <2>3. UNCHANGED <<mode, placed, moments, lastMode>>
    BY <1>3 DEF Join
  <2> QED
    BY <2>1, <2>2, <2>3 DEF Placed, At
<1>4. CASE TrainStep
  <2>0. trainer = "waiting" /\ inputs # <<>> /\ Head(inputs) # Stop
        /\ moments' = moments \cup {"rl"} /\ UNCHANGED <<mode, placed, lastMode>>
    BY <1>4 DEF TrainStep
  <2>1. Head(getters) = "own" => Waiting
    BY <2>0, InputTaken
  <2>2. placed = "gpu" /\ lastMode = "rl"
    BY <2>0, OnGpu
  <2>3. call'.pc = call.pc /\ call'.kind = call.kind
    <3>1. CASE Head(getters) = "own"
      <4>1. call \in Running
        BY <2>1, <3>1, AtRunning DEF Waiting, Pcs
      <4> QED
        BY <1>4, <3>1, <4>1 DEF TrainStep, Running
    <3>2. CASE Head(getters) # "own"
      BY <1>4, <3>2 DEF TrainStep
    <3> QED
      BY <3>1, <3>2
  <2> QED
    BY <2>0, <2>2, <2>3 DEF Placed, At
<1>5. CASE TrainStops
  <2>1. UNCHANGED <<call, mode, placed, moments, lastMode>>
    BY <1>5 DEF TrainStops
  <2> QED
    BY <2>1 DEF Placed, At
<1>6. CASE WarmedUp
  <2>1. call \in Running /\ call.pc \in {"join", "wait", "rest"}
    BY <1>6, AtRunning DEF WarmedUp, Pcs, At
  <2>2. call'.kind = call.kind /\ call'.pc \in {"wait", "rest", "save"}
    BY <1>6, <2>1 DEF WarmedUp, To, Running
  <2>3. UNCHANGED <<mode, placed, moments, lastMode>>
    BY <1>6 DEF WarmedUp
  <2> QED
    BY <2>1, <2>2, <2>3 DEF Placed, At
<1>7. CASE Rested
  <2>1. call \in Running /\ call.pc \in {"join", "wait", "rest"}
    BY <1>7, AtRunning DEF Rested, Pcs, At
  <2>2. call'.kind = call.kind /\ call'.pc \in {"wait", "rest", "save"}
    BY <1>7, <2>1 DEF Rested, Feed, Running
  <2>3. UNCHANGED <<mode, placed, moments, lastMode>>
    BY <1>7 DEF Rested
  <2> QED
    BY <2>1, <2>2, <2>3 DEF Placed, At
<1>8. CASE Yield
  <2>1. call \in Running /\ call.pc \in {"join", "wait", "rest"}
    BY <1>8, AtRunning DEF Yield, Pcs, At
  <2>2. call'.kind = call.kind /\ call'.pc \in {"wait", "rest", "save"}
    BY <1>8, <2>1 DEF Yield, To, Feed, Running
  <2>3. UNCHANGED <<mode, placed, moments, lastMode>>
    BY <1>8 DEF Yield
  <2> QED
    BY <2>1, <2>2, <2>3 DEF Placed, At
<1>9. CASE TrainerOver
  <2>1. StopTrainer(Idle) /\ UNCHANGED <<mode, placed, moments, lastMode>>
    BY <1>9 DEF TrainerOver, Raise
  <2>2. call'.pc = "idle" \/ call'.pc = "stopping"
    BY <2>1, StopAsked
  <2> QED
    BY <2>1, <2>2 DEF Placed, At
<1>10. CASE SftBatch
  <2>1. call \in Running /\ placed = "gpu" /\ lastMode = "sft" /\ call.pc = "sft"
    BY <1>10, AtRunning DEF SftBatch, Pcs, Placed
  <2>2. call'.pc \in {"sft", "save"}
    BY <1>10, <2>1 DEF SftBatch, To, Running
  <2>3. moments' = moments \cup {"sft"} /\ UNCHANGED <<mode, placed, lastMode>>
    BY <1>10 DEF SftBatch
  <2> QED
    BY <2>1, <2>2, <2>3 DEF Placed, At
<1>11. CASE Save
  <2>1. call \in Running
    BY <1>11, AtRunning DEF Save, Pcs
  <2>2. call'.pc \in {"wake", "reload"} /\ UNCHANGED <<mode, moments, lastMode>>
    BY <1>11, <2>1 DEF Save, To, Running
  <2>3. mode = "dedicated" => placed' = placed
    BY <1>11 DEF Save
  <2> QED
    BY <2>2, <2>3 DEF Placed, At
<1>12. CASE Wake
  <2>1. call \in Running
    BY <1>12, AtRunning DEF Wake, Pcs
  <2>2. call'.pc \in {"wake", "reload"} /\ UNCHANGED <<mode, moments, lastMode>>
    BY <1>12, <2>1 DEF Wake, To, Running
  <2>3. mode = "dedicated" => placed' = placed
    BY <1>12 DEF Wake
  <2> QED
    BY <2>2, <2>3 DEF Placed, At
<1>13. CASE Reload
  <2>1. call' = Idle /\ UNCHANGED <<mode, placed, moments, lastMode>>
    BY <1>13 DEF Reload
  <2> QED
    BY <2>1 DEF Placed, At, Idle
<1>14. CASE LoopEnds
  <2>1. UNCHANGED <<call, mode, placed, moments, lastMode>>
    BY <1>14 DEF LoopEnds
  <2> QED
    BY <2>1 DEF Placed, At
<1>15. ASSUME NEW kind \in {"rl", "sft"}, StartRefused(kind) PROVE Placed'
  <2>1. StopTrainer(Idle) /\ UNCHANGED <<mode, placed, moments, lastMode>>
    BY <1>15 DEF StartRefused
  <2>2. call'.pc = "idle" \/ call'.pc = "stopping"
    BY <2>1, StopAsked
  <2> QED
    BY <2>1, <2>2 DEF Placed, At
<1>16. ASSUME NEW kind \in {"rl", "sft"}, NEW n \in 1 .. MaxItems, Start(kind, n) PROVE Placed'
  <2>1. CASE mode = "shared"
    <3>1. call'.pc = "sleep" /\ UNCHANGED <<mode, placed, moments, lastMode>>
      BY <1>16, <2>1 DEF Start, Begun
    <3> QED
      BY <2>1, <3>1 DEF Placed, At
  <2>2. CASE mode # "shared"
    <3>1. mode = "dedicated" /\ placed = "gpu" /\ kind = "rl"
      BY <1>16, <2>2 DEF Start, Refused, TypeOK, Placed
    <3>2. call'.pc = "join" /\ call'.kind = kind /\ lastMode' = kind
          /\ moments' = (IF lastMode \in {"none", kind} THEN moments ELSE {})
          /\ UNCHANGED <<mode, placed>>
      BY <1>16, <2>2 DEF Start, Begun, ModeSet
    <3>3. moments' \subseteq {lastMode'}
      BY <3>1, <3>2 DEF Placed, TypeOK
    <3> QED
      BY <3>1, <3>2, <3>3 DEF Placed, At
  <2> QED
    BY <2>1, <2>2
<1>17. CASE TrainFails
  <2>1. UNCHANGED <<call, mode, placed, moments, lastMode>>
    BY <1>17 DEF TrainFails
  <2> QED
    BY <2>1 DEF Placed, At
<1>18. CASE StepFails
  <2>1. StopTrainer(Idle) /\ UNCHANGED <<mode, placed, moments, lastMode>>
    BY <1>18 DEF StepFails, Raise
  <2>2. call'.pc = "idle" \/ call'.pc = "stopping"
    BY <2>1, StopAsked
  <2> QED
    BY <2>1, <2>2 DEF Placed, At
<1>19. CASE Cancel
  <2>1. StopTrainer(Idle) /\ UNCHANGED <<mode, placed, moments, lastMode>>
    BY <1>19 DEF Cancel, Raise
  <2>2. call'.pc = "idle" \/ call'.pc = "stopping"
    BY <2>1, StopAsked
  <2> QED
    BY <2>1, <2>2 DEF Placed, At
<1>20. CASE VllmExits
  <2>1. UNCHANGED <<call, mode, placed, moments, lastMode>>
    BY <1>20 DEF VllmExits
  <2> QED
    BY <2>1 DEF Placed, At
<1>21. CASE BackendCloses
  <2>1. StopTrainer(Idle) /\ UNCHANGED <<mode, placed, moments, lastMode>>
    BY <1>21 DEF BackendCloses
  <2>2. call'.pc = "idle" \/ call'.pc = "stopping"
    BY <2>1, StopAsked
  <2> QED
    BY <2>1, <2>2 DEF Placed, At
<1>22. CASE BackendClosesNow
  <2>1. UNCHANGED <<call, mode, placed, moments, lastMode>>
    BY <1>22 DEF BackendClosesNow
  <2> QED
    BY <2>1 DEF Placed, At
<1>23. CASE UNCHANGED vars
  BY <1>23 DEF vars, Placed, At
<1> QED
  BY <1>1, <1>2, <1>3, <1>4, <1>5, <1>6, <1>7, <1>8, <1>9, <1>10, <1>11, <1>12, <1>13, <1>14,
     <1>15, <1>16, <1>17, <1>18, <1>19, <1>20, <1>21, <1>22, <1>23
     DEF Next, Steps


LEMMA ProgressStep ==
    ASSUME TypeOK, CallOK, Owners, Balance, Fed, Progress, [Next]_vars
    PROVE  Progress'
<1> USE DEF server, model, tasks, marks
<1>1. CASE Stopped
  <2>1. vllm' = "gone" \/ unclosed' = TRUE
    BY <1>1 DEF Stopped
  <2> QED
    BY <2>1 DEF Progress, Live
<1>2. CASE Sleep
  <2>1. SUFFICES ASSUME Live' PROVE Progress'
    BY DEF Progress
  <2>2. call \in Running /\ call.pc \in {"sleep"}
    BY <1>2, AtRunning DEF Sleep, Pcs, At
  <2>3. call'.pc \in {"join", "sft"} /\ call'.n = call.n /\ call'.item = call.item
    BY <1>2, <2>2 DEF Sleep, To, ModeSet, Running
  <2>4. UNCHANGED <<inputs, getters, weights, made, unclosed>> /\ (vllm' # "gone" => vllm # "gone")
    BY <1>2 DEF Sleep, Answers
  <2>5. Live /\ ~ Waiting /\ ~ Waiting'
    BY <2>1, <2>2, <2>3, <2>4 DEF Live, Waiting, At
  <2>6. inputs = <<>> /\ getters = <<>>
    BY <2>5, QuietQueues
  <2>7. EndsWith(weights, Done, made, call.n)
    BY <2>5 DEF Progress
  <2>8. Done' = Done
    BY <2>2, <2>3 DEF Done, At, CallOK
  <2> QED
    BY <2>4, <2>6, <2>7, <2>8, <2>3 DEF Progress
<1>3. CASE Join
  <2>1. SUFFICES ASSUME Live' PROVE Progress'
    BY DEF Progress
  <2>2. call \in Running /\ made > 0 /\ ~ At("stopping") /\ ~ Waiting
    BY <1>3, AtRunning DEF Join, Pcs, At, Waiting, CallOK
  <2>3. PICK i : i = 1
    OBVIOUS
  <2>15. Feed(i, warmup) /\ warmup \in BOOLEAN
    BY <1>3, <2>3, CallTyped DEF Join
  <2>4. i \in 1 .. MaxItems /\ Feed(i, warmup) /\ warmup \in BOOLEAN
    <3>1. call.item \in 1 .. MaxItems /\ call.n \in 1 .. MaxItems
      BY <2>2, RunningFields
    <3>2. i \in 1 .. MaxItems
      BY <1>3, <2>3, <3>1, Limits
    <3> QED
      BY <2>15, <3>2
  <2>5. PICK x \in Inputs : x = [call |-> made, item |-> i, of |-> call.n, warm |-> warmup]
                            /\ inputs' = Append(inputs, x)
    BY <2>2, <2>4, FeedsCall
  <2>6. /\ getters' = Append(getters, "own") /\ call'.pc = "wait" /\ call'.n = call.n
        /\ call'.item = i /\ call'.warm = warmup /\ call'.got = Nothing
    BY <2>2, <2>4, FeedsCall
  <2>7. UNCHANGED <<weights, made, unclosed, vllm>>
    BY <1>3 DEF Join
  <2>8. Live
    BY <2>1, <2>2, <2>7 DEF Live
  <2>14. inputs = <<>> /\ getters = <<>>
    BY <2>2, <2>8, QuietQueues
  <2>9. inputs' = <<x>> /\ getters' = <<"own">>
    BY <2>5, <2>6, <2>14, Ones
  <2>10. EndsWith(weights, Done, made, call.n)
    BY <2>8 DEF Progress
  <2>13. Waiting' /\ Done' = i - 1
    BY <2>6 DEF Done, Waiting, At
  <2>11. Done = i - 1
    <3>1. call.pc = "join"
      BY <1>3 DEF Join, Waiting, At, CallOK
    <3>2. i \in Int /\ call.item \in Int
      BY <2>2, <2>4, RunningFields, Limits
    <3> QED
      BY <2>3, <3>1, <3>2 DEF Done, At
  <2>12. inputs' = <<[call |-> made', item |-> call'.item, of |-> call'.n, warm |-> call'.warm]>>
    BY <2>5, <2>6, <2>7, <2>9
  <2> QED
    BY <2>6, <2>7, <2>9, <2>10, <2>11, <2>12, <2>13 DEF Progress
<1>4. CASE TrainStep
  <2>0. trainer = "waiting" /\ inputs # <<>> /\ Head(inputs) # Stop
        /\ getters' = Tail(getters) /\ inputs' = Tail(inputs)
        /\ weights' = Updates(weights, Head(inputs)) /\ UNCHANGED <<made, vllm, unclosed>>
    BY <1>4 DEF TrainStep
  <2>1. SUFFICES ASSUME Live' PROVE Progress'
    BY DEF Progress
  <2>2. /\ Head(inputs) \in Inputs /\ getters # <<>>
        /\ Head(getters) = "own" => Waiting
    BY <2>0, InputTaken
  <2>3. Live
    <3>1. Head(getters) = "own" => ~ At("stopping")
      <4>1. Waiting => ~ At("stopping")
        BY DEF Waiting, At
      <4> QED
        BY <2>2, <4>1
    <3>2. Head(getters) # "own" => call' = call
      BY <1>4 DEF TrainStep
    <3> QED
      BY <2>0, <2>1, <3>1, <3>2 DEF Live, At
  <2>4. getters = <<"own">> /\ Waiting
    BY <2>0, <2>2, <2>3, Zenon DEF Progress
  <2>5. call \in Running /\ call.pc = "wait" /\ made > 0 /\ call.item <= call.n
    BY <2>4, AtRunning DEF Waiting, Pcs
  <2>6. PICK x : x = [call |-> made, item |-> call.item, of |-> call.n, warm |-> call.warm]
    OBVIOUS
  <2>7. inputs = <<x>> /\ Head(inputs) = x
    BY <2>0, <2>3, <2>6, Ones DEF Progress
  <2>8. inputs' = <<>> /\ getters' = <<>> /\ Head(getters) = "own"
    BY <2>0, <2>4, <2>7, Ones
  <2>9. call' = [call EXCEPT !.got = Head(inputs)]
    BY <1>4, <2>8 DEF TrainStep
  <2>10. /\ call'.pc = "wait" /\ call'.n = call.n /\ call'.item = call.item
         /\ call'.warm = call.warm /\ call'.got = x /\ x # Nothing
    <3>1. PICK g \in Inputs : g = Head(inputs)
      BY <2>2
    <3>2. PICK d : d = [call EXCEPT !.got = g]
      OBVIOUS
    <3>3. /\ d.pc = "wait" /\ d.n = call.n /\ d.item = call.item /\ d.warm = call.warm
          /\ d.got = g
      BY <2>5, <3>2, CallGot
    <3>4. g # Nothing /\ g = x /\ call' = d
      BY <2>7, <2>9, <3>1, <3>2, InputNotNothing
    <3> QED
      BY <3>3, <3>4
  <2>11. call.item \in 1 .. MaxItems /\ call.n \in 1 .. MaxItems /\ made \in 1 .. MaxCalls
    BY <2>5, RunningFields, QueuesTyped
  <2>12. PICK k \in Nat : k + 1 = call.item /\ k = call.item - 1
    BY <2>11
  <2>13. EndsWith(weights, k, made, call.n)
    BY <2>3, <2>4, <2>5, <2>12 DEF Progress, Done, At, Waiting
  <2>14. CASE call.warm
    <3>1. weights' = weights
      BY <2>0, <2>6, <2>7, <2>14 DEF Updates
    <3>2. Done' = k
      BY <2>10, <2>12, <2>14 DEF Done, At
    <3> QED
      BY <2>0, <2>8, <2>10, <2>13, <3>1, <3>2 DEF Progress
  <2>15. CASE ~ call.warm
    <3>1. PICK u : u = [call |-> made, item |-> call.item, of |-> call.n]
      OBVIOUS
    <3>2. weights' = Append(weights, u)
      <4>1. x.warm = call.warm /\ [call |-> x.call, item |-> x.item, of |-> x.of] = u
        BY <2>6, <3>1
      <4> QED
        BY <2>0, <2>7, <2>15, <4>1 DEF Updates
    <3>3. u \in Updated /\ weights \in Seq(Updated)
      BY <2>11, <3>1 DEF Updated, TypeOK
    <3>4. u = [call |-> made, item |-> k + 1, of |-> call.n] /\ k < call.n
      BY <2>5, <2>11, <2>12, <3>1
    <3>5. EndsWith(Append(weights, u), k + 1, made, call.n)
      BY <2>11, <2>13, <3>3, <3>4, Grown
    <3>6. Done' = k + 1
      BY <2>10, <2>12, <2>15 DEF Done, At
    <3> QED
      BY <2>0, <2>8, <2>10, <3>2, <3>5, <3>6 DEF Progress
  <2> QED
    BY <2>14, <2>15
<1>5. CASE TrainStops
  <2>1. inputs # <<>> /\ inputs' = Tail(inputs)
        /\ UNCHANGED <<call, getters, weights, made, vllm, unclosed>>
    BY <1>5 DEF TrainStops
  <2>2. Live' <=> Live
    BY <2>1 DEF Live, At
  <2>3. Done' = Done
    BY <2>1 DEF Done, At
  <2>4. Live => inputs' = <<>>
    BY <2>1, Ones DEF Progress
  <2> QED
    BY <2>1, <2>2, <2>3, <2>4 DEF Progress
<1>6. CASE WarmedUp
  <2>1. SUFFICES ASSUME Live' PROVE Progress'
    BY DEF Progress
  <2>2. call \in Running /\ call.pc \in {"wait"}
    BY <1>6, AtRunning DEF WarmedUp, Pcs, At
  <2>3. call'.pc \in {"rest"} /\ call'.n = call.n /\ call'.item = call.item
    BY <1>6, <2>2 DEF WarmedUp, To, Running
  <2>4. UNCHANGED <<inputs, getters, weights, made, unclosed>> /\ (vllm' # "gone" => vllm # "gone")
    BY <1>6 DEF WarmedUp, Answers
  <2>5. Live /\ ~ Waiting /\ ~ Waiting'
    BY <1>6, <2>1, <2>2, <2>3, <2>4 DEF Live, Waiting, At, WarmedUp
  <2>6. inputs = <<>> /\ getters = <<>>
    BY <2>5, QuietQueues
  <2>7. EndsWith(weights, Done, made, call.n)
    BY <2>5 DEF Progress
  <2>8. Done' = Done
    BY <1>6, <2>2, <2>3 DEF WarmedUp, Done, At
  <2> QED
    BY <2>4, <2>6, <2>7, <2>8, <2>3 DEF Progress
<1>7. CASE Rested
  <2>1. SUFFICES ASSUME Live' PROVE Progress'
    BY DEF Progress
  <2>2. call \in Running /\ made > 0 /\ ~ At("stopping") /\ ~ Waiting
    BY <1>7, AtRunning DEF Rested, Pcs, At, Waiting, CallOK
  <2>3. PICK i : i = call.item
    OBVIOUS
  <2>15. Feed(i, FALSE) /\ FALSE \in BOOLEAN
    BY <1>7, <2>3, CallTyped DEF Rested
  <2>4. i \in 1 .. MaxItems /\ Feed(i, FALSE) /\ FALSE \in BOOLEAN
    <3>1. call.item \in 1 .. MaxItems /\ call.n \in 1 .. MaxItems
      BY <2>2, RunningFields
    <3>2. i \in 1 .. MaxItems
      BY <1>7, <2>3, <3>1, Limits
    <3> QED
      BY <2>15, <3>2
  <2>5. PICK x \in Inputs : x = [call |-> made, item |-> i, of |-> call.n, warm |-> FALSE]
                            /\ inputs' = Append(inputs, x)
    BY <2>2, <2>4, FeedsCall
  <2>6. /\ getters' = Append(getters, "own") /\ call'.pc = "wait" /\ call'.n = call.n
        /\ call'.item = i /\ call'.warm = FALSE /\ call'.got = Nothing
    BY <2>2, <2>4, FeedsCall
  <2>7. UNCHANGED <<weights, made, unclosed, vllm>>
    BY <1>7 DEF Rested
  <2>8. Live
    BY <2>1, <2>2, <2>7 DEF Live
  <2>14. inputs = <<>> /\ getters = <<>>
    BY <2>2, <2>8, QuietQueues
  <2>9. inputs' = <<x>> /\ getters' = <<"own">>
    BY <2>5, <2>6, <2>14, Ones
  <2>10. EndsWith(weights, Done, made, call.n)
    BY <2>8 DEF Progress
  <2>13. Waiting' /\ Done' = i - 1
    BY <2>6 DEF Done, Waiting, At
  <2>11. Done = i - 1
    <3>1. call.pc = "rest"
      BY <1>7 DEF Rested, Waiting, At, CallOK
    <3>2. i \in Int /\ call.item \in Int
      BY <2>2, <2>4, RunningFields, Limits
    <3> QED
      BY <2>3, <3>1, <3>2 DEF Done, At
  <2>12. inputs' = <<[call |-> made', item |-> call'.item, of |-> call'.n, warm |-> call'.warm]>>
    BY <2>5, <2>6, <2>7, <2>9
  <2> QED
    BY <2>6, <2>7, <2>9, <2>10, <2>11, <2>12, <2>13 DEF Progress
<1>8. CASE Yield
  <2>0. CASE call.item < call.n
    <3>1. SUFFICES ASSUME Live' PROVE Progress'
      BY DEF Progress
    <3>2. call \in Running /\ made > 0 /\ ~ At("stopping") /\ ~ Waiting
      BY <1>8, AtRunning DEF Yield, Pcs, At, Waiting, CallOK
    <3>3. PICK i : i = call.item + 1
      OBVIOUS
    <3>15. Feed(i, FALSE) /\ FALSE \in BOOLEAN
      BY <1>8, <2>0, <3>3, CallTyped DEF Yield
    <3>4. i \in 1 .. MaxItems /\ Feed(i, FALSE) /\ FALSE \in BOOLEAN
      <4>1. call.item \in 1 .. MaxItems /\ call.n \in 1 .. MaxItems
        BY <3>2, RunningFields
      <4>2. i \in 1 .. MaxItems
        BY <2>0, <3>3, <4>1, Limits
      <4> QED
        BY <3>15, <4>2
    <3>5. PICK x \in Inputs : x = [call |-> made, item |-> i, of |-> call.n, warm |-> FALSE]
                              /\ inputs' = Append(inputs, x)
      BY <3>2, <3>4, FeedsCall
    <3>6. /\ getters' = Append(getters, "own") /\ call'.pc = "wait" /\ call'.n = call.n
          /\ call'.item = i /\ call'.warm = FALSE /\ call'.got = Nothing
      BY <3>2, <3>4, FeedsCall
    <3>7. UNCHANGED <<weights, made, unclosed, vllm>>
      BY <1>8 DEF Yield
    <3>8. Live
      BY <3>1, <3>2, <3>7 DEF Live
    <3>14. inputs = <<>> /\ getters = <<>>
      BY <3>2, <3>8, QuietQueues
    <3>9. inputs' = <<x>> /\ getters' = <<"own">>
      BY <3>5, <3>6, <3>14, Ones
    <3>10. EndsWith(weights, Done, made, call.n)
      BY <3>8 DEF Progress
    <3>13. Waiting' /\ Done' = i - 1
      BY <3>6 DEF Done, Waiting, At
    <3>11. Done = i - 1
      <4>1. call.pc = "wait" /\ call.got # Nothing /\ ~ call.warm
        BY <1>8 DEF Yield, Waiting, At, CallOK
      <4>2. i \in Int /\ call.item \in Int
        BY <3>2, <3>4, RunningFields, Limits
      <4> QED
        BY <3>3, <4>1, <4>2 DEF Done, At
    <3>12. inputs' = <<[call |-> made', item |-> call'.item, of |-> call'.n, warm |-> call'.warm]>>
      BY <3>5, <3>6, <3>7, <3>9
    <3> QED
      BY <3>6, <3>7, <3>9, <3>10, <3>11, <3>12, <3>13 DEF Progress
  <2>1. CASE ~ (call.item < call.n)
    <3>1. SUFFICES ASSUME Live' PROVE Progress'
      BY DEF Progress
    <3>2. call \in Running /\ ~ At("stopping") /\ ~ Waiting /\ call.item <= call.n
      BY <1>8, AtRunning DEF Yield, Pcs, At, Waiting
    <3>3. /\ call'.pc = "save" /\ UNCHANGED <<inputs, getters, weights, unclosed, vllm>>
      BY <1>8, <2>1, <3>2 DEF Yield, To, Running
    <3>4. Live /\ Done' = 0
      BY <3>1, <3>2, <3>3 DEF Live, Done, At
    <3>5. inputs = <<>> /\ getters = <<>>
      BY <3>2, <3>4, QuietQueues
    <3>6. Done = call.item
      BY <1>8 DEF Yield, Done, At
    <3>7. call.item = call.n /\ call.n \in Nat \ {0}
      BY <2>1, <3>2, RunningFields
    <3>8. EndsWith(weights, call.n, made, call.n)
      BY <3>4, <3>6, <3>7 DEF Progress
    <3>9. EndsWith(weights, 0, made', call'.n)
      BY <3>7, <3>8, Finished
    <3> QED
      BY <3>3, <3>4, <3>5, <3>9 DEF Progress
  <2> QED
    BY <2>0, <2>1
<1>9. CASE TrainerOver
  <2>1. StopTrainer(Idle)
    BY <1>9 DEF TrainerOver, Raise
  <2>2. ~ Live'
    BY <2>1, StopAsked DEF Live, At
  <2> QED
    BY <2>2 DEF Progress
<1>10. CASE SftBatch
  <2>1. SUFFICES ASSUME Live' PROVE Progress'
    BY DEF Progress
  <2>2. call \in Running /\ call.pc = "sft" /\ made > 0 /\ call.item <= call.n
    BY <1>10, AtRunning DEF SftBatch, Pcs
  <2>3. PICK u : u = [call |-> made, item |-> call.item, of |-> call.n]
    OBVIOUS
  <2>4. weights' = Append(weights, u) /\ UNCHANGED <<made, inputs, getters, vllm, unclosed>>
    BY <1>10, <2>3 DEF SftBatch
  <2>5. Live /\ ~ Waiting
    BY <2>1, <2>2, <2>4 DEF Live, Waiting, At
  <2>6. inputs = <<>> /\ getters = <<>>
    BY <2>5, QuietQueues
  <2>7. call.item \in 1 .. MaxItems /\ call.n \in 1 .. MaxItems /\ made \in 1 .. MaxCalls
    BY <2>2, RunningFields, QueuesTyped
  <2>8. EndsWith(weights', call.item, made, call.n)
    <3>1. PICK k \in Nat : k + 1 = call.item /\ k = call.item - 1
      BY <2>7
    <3>2. EndsWith(weights, k, made, call.n)
      BY <2>2, <2>5, <3>1 DEF Progress, Done, At
    <3>3. u \in Updated /\ weights \in Seq(Updated)
      BY <2>3, <2>7 DEF Updated, TypeOK
    <3>4. u = [call |-> made, item |-> k + 1, of |-> call.n] /\ k < call.n
      BY <2>2, <2>3, <2>7, <3>1
    <3>5. EndsWith(Append(weights, u), k + 1, made, call.n)
      BY <2>7, <3>2, <3>3, <3>4, Grown
    <3> QED
      BY <2>4, <3>1, <3>5
  <2>9. CASE call.item < call.n
    <3>1. call'.pc = "sft" /\ call'.item = call.item + 1 /\ call'.n = call.n
      BY <1>10, <2>2, <2>9 DEF SftBatch, Running
    <3>2. Done' = call.item
      BY <2>7, <3>1 DEF Done, At
    <3> QED
      BY <2>4, <2>6, <2>8, <3>1, <3>2 DEF Progress
  <2>10. CASE ~ (call.item < call.n)
    <3>1. call'.pc = "save"
      BY <1>10, <2>2, <2>10 DEF SftBatch, To, Running
    <3>2. Done' = 0
      BY <3>1 DEF Done, At
    <3>3. call.item = call.n /\ call.n \in Nat \ {0}
      BY <2>2, <2>7, <2>10
    <3>4. EndsWith(weights', 0, made', call'.n)
      BY <2>8, <3>3, Finished
    <3> QED
      BY <2>4, <2>6, <3>2, <3>4 DEF Progress
  <2> QED
    BY <2>9, <2>10
<1>11. CASE Save
  <2>1. SUFFICES ASSUME Live' PROVE Progress'
    BY DEF Progress
  <2>2. call \in Running /\ call.pc \in {"save"}
    BY <1>11, AtRunning DEF Save, Pcs, At
  <2>3. call'.pc \in {"wake", "reload"} /\ call'.n = call.n /\ call'.item = call.item
    BY <1>11, <2>2 DEF Save, To, Running
  <2>4. UNCHANGED <<inputs, getters, weights, made, unclosed>> /\ (vllm' # "gone" => vllm # "gone")
    BY <1>11 DEF Save, Answers
  <2>5. Live /\ ~ Waiting /\ ~ Waiting'
    BY <2>1, <2>2, <2>3, <2>4 DEF Live, Waiting, At
  <2>6. inputs = <<>> /\ getters = <<>>
    BY <2>5, QuietQueues
  <2>7. EndsWith(weights, Done, made, call.n)
    BY <2>5 DEF Progress
  <2>8. Done' = Done
    BY <2>2, <2>3 DEF Done, At
  <2> QED
    BY <2>4, <2>6, <2>7, <2>8, <2>3 DEF Progress
<1>12. CASE Wake
  <2>1. SUFFICES ASSUME Live' PROVE Progress'
    BY DEF Progress
  <2>2. call \in Running /\ call.pc \in {"wake"}
    BY <1>12, AtRunning DEF Wake, Pcs, At
  <2>3. call'.pc \in {"reload"} /\ call'.n = call.n /\ call'.item = call.item
    BY <1>12, <2>2 DEF Wake, To, Running
  <2>4. UNCHANGED <<inputs, getters, weights, made, unclosed>> /\ (vllm' # "gone" => vllm # "gone")
    BY <1>12 DEF Wake, Answers
  <2>5. Live /\ ~ Waiting /\ ~ Waiting'
    BY <2>1, <2>2, <2>3, <2>4 DEF Live, Waiting, At
  <2>6. inputs = <<>> /\ getters = <<>>
    BY <2>5, QuietQueues
  <2>7. EndsWith(weights, Done, made, call.n)
    BY <2>5 DEF Progress
  <2>8. Done' = Done
    BY <2>2, <2>3 DEF Done, At
  <2> QED
    BY <2>4, <2>6, <2>7, <2>8, <2>3 DEF Progress
<1>13. CASE Reload
  <2>1. SUFFICES ASSUME Live' PROVE Progress'
    BY DEF Progress
  <2>2. call' = Idle /\ call'.pc = "idle"
        /\ UNCHANGED <<inputs, getters, weights, made, unclosed, vllm>>
    BY <1>13 DEF Reload, Idle
  <2>3. Live /\ ~ Waiting /\ Done = 0 /\ Done' = 0
    BY <1>13, <2>1, <2>2 DEF Reload, Live, Waiting, At, Done
  <2>4. inputs = <<>> /\ getters = <<>>
    BY <2>3, QuietQueues
  <2>5. EndsWith(weights, 0, made, call.n)
    BY <2>3 DEF Progress
  <2>6. EndsWith(weights, 0, made', call'.n)
    BY <2>5, WholeKept
  <2> QED
    BY <2>2, <2>3, <2>4, <2>6 DEF Progress
<1>14. CASE LoopEnds
  <2>1. UNCHANGED <<inputs, call, getters, weights, made, vllm, unclosed>>
    BY <1>14 DEF LoopEnds
  <2> QED
    BY <2>1 DEF Progress, Live, Done, Waiting, At
<1>15. ASSUME NEW kind \in {"rl", "sft"}, StartRefused(kind) PROVE Progress'
  <2>1. StopTrainer(Idle)
    BY <1>15 DEF StartRefused
  <2>2. ~ Live'
    BY <2>1, StopAsked DEF Live, At
  <2> QED
    BY <2>2 DEF Progress
<1>16. ASSUME NEW kind \in {"rl", "sft"}, NEW n \in 1 .. MaxItems, Start(kind, n) PROVE Progress'
  <2>1. SUFFICES ASSUME Live' PROVE Progress'
    BY DEF Progress
  <2>2. call'.pc \in {"sleep", "join"} /\ UNCHANGED <<inputs, getters, weights, unclosed, vllm>>
    BY <1>16 DEF Start, Begun
  <2>3. Live /\ ~ Waiting /\ Done = 0 /\ Done' = 0
    BY <1>16, <2>1, <2>2 DEF Start, Live, Waiting, At, Done
  <2>4. inputs = <<>> /\ getters = <<>>
    BY <2>3, QuietQueues
  <2>5. EndsWith(weights, 0, made, call.n)
    BY <2>3 DEF Progress
  <2>6. EndsWith(weights, 0, made', call'.n)
    BY <2>5, WholeKept
  <2> QED
    BY <2>2, <2>3, <2>4, <2>6 DEF Progress
<1>17. CASE TrainFails
  <2>1. inputs # <<>> /\ inputs' = Tail(inputs)
        /\ UNCHANGED <<call, getters, weights, made, vllm, unclosed>>
    BY <1>17 DEF TrainFails
  <2>2. Live' <=> Live
    BY <2>1 DEF Live, At
  <2>3. Done' = Done
    BY <2>1 DEF Done, At
  <2>4. Live => inputs' = <<>>
    BY <2>1, Ones DEF Progress
  <2> QED
    BY <2>1, <2>2, <2>3, <2>4 DEF Progress
<1>18. CASE StepFails
  <2>1. StopTrainer(Idle)
    BY <1>18 DEF StepFails, Raise
  <2>2. ~ Live'
    BY <2>1, StopAsked DEF Live, At
  <2> QED
    BY <2>2 DEF Progress
<1>19. CASE Cancel
  <2>1. StopTrainer(Idle)
    BY <1>19 DEF Cancel, Raise
  <2>2. ~ Live'
    BY <2>1, StopAsked DEF Live, At
  <2> QED
    BY <2>2 DEF Progress
<1>20. CASE VllmExits
  <2>1. vllm' = "gone"
    BY <1>20 DEF VllmExits
  <2> QED
    BY <2>1 DEF Progress, Live
<1>21. CASE BackendCloses
  <2>1. StopTrainer(Idle)
    BY <1>21 DEF BackendCloses
  <2>2. ~ Live'
    BY <2>1, StopAsked DEF Live, At
  <2> QED
    BY <2>2 DEF Progress
<1>22. CASE BackendClosesNow
  <2>1. vllm' = "gone"
    BY <1>22 DEF BackendClosesNow
  <2> QED
    BY <2>1 DEF Progress, Live
<1>23. CASE UNCHANGED vars
  BY <1>23 DEF vars, Progress, Live, Done, Waiting, At
<1> QED
  BY <1>1, <1>2, <1>3, <1>4, <1>5, <1>6, <1>7, <1>8, <1>9, <1>10, <1>11, <1>12, <1>13, <1>14,
     <1>15, <1>16, <1>17, <1>18, <1>19, <1>20, <1>21, <1>22, <1>23
     DEF Next, Steps


LEMMA ServedWholeStep ==
    ASSUME TypeOK, CallOK, Owners, Balance, Fed, Progress, ServedWhole, [Next]_vars
    PROVE  ServedWhole'
<1> USE DEF server, model, tasks, marks
<1>1. CASE Stopped
  <2>1. served' = served /\ (unclosed' = unclosed \/ unclosed' = TRUE)
    BY <1>1 DEF Stopped
  <2> QED
    BY <2>1 DEF ServedWhole
<1>2. CASE Sleep
  <2>1. UNCHANGED <<served, unclosed>>
    BY <1>2 DEF Sleep
  <2> QED
    BY <2>1 DEF ServedWhole
<1>3. CASE Join
  <2>1. UNCHANGED <<served, unclosed>>
    BY <1>3 DEF Join
  <2> QED
    BY <2>1 DEF ServedWhole
<1>4. CASE TrainStep
  <2>1. UNCHANGED <<served, unclosed>>
    BY <1>4 DEF TrainStep
  <2> QED
    BY <2>1 DEF ServedWhole
<1>5. CASE TrainStops
  <2>1. UNCHANGED <<served, unclosed>>
    BY <1>5 DEF TrainStops
  <2> QED
    BY <2>1 DEF ServedWhole
<1>6. CASE WarmedUp
  <2>1. UNCHANGED <<served, unclosed>>
    BY <1>6 DEF WarmedUp
  <2> QED
    BY <2>1 DEF ServedWhole
<1>7. CASE Rested
  <2>1. UNCHANGED <<served, unclosed>>
    BY <1>7 DEF Rested
  <2> QED
    BY <2>1 DEF ServedWhole
<1>8. CASE Yield
  <2>1. UNCHANGED <<served, unclosed>>
    BY <1>8 DEF Yield
  <2> QED
    BY <2>1 DEF ServedWhole
<1>9. CASE TrainerOver
  <2>1. UNCHANGED <<served, unclosed>>
    BY <1>9 DEF TrainerOver, Raise
  <2> QED
    BY <2>1 DEF ServedWhole
<1>10. CASE SftBatch
  <2>1. UNCHANGED <<served, unclosed>>
    BY <1>10 DEF SftBatch
  <2> QED
    BY <2>1 DEF ServedWhole
<1>11. CASE Save
  <2>1. UNCHANGED <<served, unclosed>>
    BY <1>11 DEF Save
  <2> QED
    BY <2>1 DEF ServedWhole
<1>12. CASE Wake
  <2>1. UNCHANGED <<served, unclosed>>
    BY <1>12 DEF Wake
  <2> QED
    BY <2>1 DEF ServedWhole
<1>13. CASE Reload
  <2>1. served' = Append(served, weights) /\ UNCHANGED unclosed
    BY <1>13 DEF Reload
  <2>2. CASE unclosed
    BY <2>1, <2>2 DEF ServedWhole
  <2>3. CASE ~ unclosed
    <3>1. Live /\ Done = 0
      BY <1>13, <2>3 DEF Reload, Answers, Live, Done, At
    <3>2. EndsWith(weights, 0, made, call.n)
      BY <3>1 DEF Progress
    <3>3. weights \in Seq(Updated) /\ served \in Seq(Seq(Updated))
      BY DEF TypeOK
    <3>4. WholeCalls(weights)
      BY <3>2, <3>3, Whole
    <3>5. \A s \in 1 .. Len(served) : WholeCalls(served[s])
      <4>1. DOMAIN served = 1 .. Len(served)
        BY <3>3
      <4> QED
        BY <2>3, <4>1 DEF ServedWhole
    <3>6. /\ served' \in Seq(Seq(Updated)) /\ Len(served) \in Nat
          /\ Len(served') = Len(served) + 1 /\ served'[Len(served) + 1] = weights
          /\ \A s \in 1 .. Len(served) : served'[s] = served[s]
      BY <2>1, <3>3, Appended
    <3>7. DOMAIN served' = 1 .. Len(served) + 1
      BY <3>6
    <3>8. ASSUME NEW s \in 1 .. Len(served) + 1 PROVE WholeCalls(served'[s])
      <4>1. CASE s \in 1 .. Len(served)
        BY <3>5, <3>6, <4>1
      <4>2. CASE s = Len(served) + 1
        BY <3>4, <3>6, <4>2
      <4> QED
        BY <3>6, <4>1, <4>2
    <3> QED
      BY <3>7, <3>8 DEF ServedWhole, WholeCalls
  <2> QED
    BY <2>2, <2>3
<1>14. CASE LoopEnds
  <2>1. UNCHANGED <<served, unclosed>>
    BY <1>14 DEF LoopEnds
  <2> QED
    BY <2>1 DEF ServedWhole
<1>15. ASSUME NEW kind \in {"rl", "sft"}, StartRefused(kind) PROVE ServedWhole'
  <2>1. UNCHANGED <<served, unclosed>>
    BY <1>15 DEF StartRefused
  <2> QED
    BY <2>1 DEF ServedWhole
<1>16. ASSUME NEW kind \in {"rl", "sft"}, NEW n \in 1 .. MaxItems, Start(kind, n) PROVE ServedWhole'
  <2>1. UNCHANGED <<served, unclosed>>
    BY <1>16 DEF Start
  <2> QED
    BY <2>1 DEF ServedWhole
<1>17. CASE TrainFails
  <2>1. UNCHANGED <<served, unclosed>>
    BY <1>17 DEF TrainFails
  <2> QED
    BY <2>1 DEF ServedWhole
<1>18. CASE StepFails
  <2>1. UNCHANGED <<served, unclosed>>
    BY <1>18 DEF StepFails, Raise
  <2> QED
    BY <2>1 DEF ServedWhole
<1>19. CASE Cancel
  <2>1. UNCHANGED <<served, unclosed>>
    BY <1>19 DEF Cancel, Raise
  <2> QED
    BY <2>1 DEF ServedWhole
<1>20. CASE VllmExits
  <2>1. UNCHANGED <<served, unclosed>>
    BY <1>20 DEF VllmExits
  <2> QED
    BY <2>1 DEF ServedWhole
<1>21. CASE BackendCloses
  <2>1. UNCHANGED <<served, unclosed>>
    BY <1>21 DEF BackendCloses
  <2> QED
    BY <2>1 DEF ServedWhole
<1>22. CASE BackendClosesNow
  <2>1. UNCHANGED <<served, unclosed>>
    BY <1>22 DEF BackendClosesNow
  <2> QED
    BY <2>1 DEF ServedWhole
<1>23. CASE UNCHANGED vars
  BY <1>23 DEF vars, ServedWhole, WholeCalls
<1> QED
  BY <1>1, <1>2, <1>3, <1>4, <1>5, <1>6, <1>7, <1>8, <1>9, <1>10, <1>11, <1>12, <1>13, <1>14,
     <1>15, <1>16, <1>17, <1>18, <1>19, <1>20, <1>21, <1>22, <1>23
     DEF Next, Steps


LEMMA SoundStep ==
    ASSUME TypeOK, CallOK, Owners, Balance, Fed, Placed, Placed', [Next]_vars
    PROVE  Sound
<1> USE DEF server, model, tasks, marks
<1>1. CASE Stopped
  <2>1. UNCHANGED <<weights, unfinished>>
    BY <1>1 DEF Stopped
  <2> QED
    BY <2>1, Counted DEF Sound
<1>2. CASE Sleep
  <2>1. UNCHANGED <<weights, unfinished>>
    BY <1>2 DEF Sleep
  <2> QED
    BY <2>1, Counted DEF Sound
<1>3. CASE Join
  <2>1. UNCHANGED <<weights, unfinished>>
    BY <1>3 DEF Join
  <2> QED
    BY <2>1, Counted DEF Sound
<1>4. CASE TrainStep
  <2>1. /\ trainer = "waiting" /\ inputs # <<>> /\ Head(inputs) # Stop
        /\ placed' = placed
    BY <1>4 DEF TrainStep
  <2>2. placed = "gpu"
    BY <2>1, OnGpu
  <2>3. moments' # {"rl", "sft"}
    BY DEF Placed
  <2> QED
    BY <2>2, <2>3 DEF Sound
<1>5. CASE TrainStops
  <2>1. UNCHANGED <<weights, unfinished>>
    BY <1>5 DEF TrainStops
  <2> QED
    BY <2>1, Counted DEF Sound
<1>6. CASE WarmedUp
  <2>1. weights' = weights /\ unfinished' = unfinished - 1
    BY <1>6 DEF WarmedUp
  <2>2. ~ (unfinished' > unfinished)
    BY <2>1, Counted
  <2> QED
    BY <2>1, <2>2 DEF Sound
<1>7. CASE Rested
  <2>1. UNCHANGED <<weights, unfinished>>
    BY <1>7 DEF Rested
  <2> QED
    BY <2>1, Counted DEF Sound
<1>8. CASE Yield
  <2>1. weights' = weights /\ unfinished' = unfinished - 1
    BY <1>8 DEF Yield
  <2>2. ~ (unfinished' > unfinished)
    BY <2>1, Counted
  <2> QED
    BY <2>1, <2>2 DEF Sound
<1>9. CASE TrainerOver
  <2>1. UNCHANGED <<weights, unfinished>>
    BY <1>9 DEF TrainerOver, Raise
  <2> QED
    BY <2>1, Counted DEF Sound
<1>10. CASE SftBatch
  <2>1. placed = "gpu"
    BY <1>10 DEF SftBatch, Placed
  <2>2. moments' # {"rl", "sft"}
    BY DEF Placed
  <2> QED
    BY <2>1, <2>2 DEF Sound
<1>11. CASE Save
  <2>1. UNCHANGED <<weights, unfinished>>
    BY <1>11 DEF Save
  <2> QED
    BY <2>1, Counted DEF Sound
<1>12. CASE Wake
  <2>1. UNCHANGED <<weights, unfinished>>
    BY <1>12 DEF Wake
  <2> QED
    BY <2>1, Counted DEF Sound
<1>13. CASE Reload
  <2>1. UNCHANGED <<weights, unfinished>>
    BY <1>13 DEF Reload
  <2> QED
    BY <2>1, Counted DEF Sound
<1>14. CASE LoopEnds
  <2>1. UNCHANGED <<weights, unfinished>>
    BY <1>14 DEF LoopEnds
  <2> QED
    BY <2>1, Counted DEF Sound
<1>15. ASSUME NEW kind \in {"rl", "sft"}, StartRefused(kind) PROVE Sound
  <2>1. UNCHANGED <<weights, unfinished>>
    BY <1>15 DEF StartRefused
  <2> QED
    BY <2>1, Counted DEF Sound
<1>16. ASSUME NEW kind \in {"rl", "sft"}, NEW n \in 1 .. MaxItems, Start(kind, n) PROVE Sound
  <2>1. UNCHANGED <<weights, unfinished>>
    BY <1>16 DEF Start
  <2> QED
    BY <2>1, Counted DEF Sound
<1>17. CASE TrainFails
  <2>1. UNCHANGED <<weights, unfinished>>
    BY <1>17 DEF TrainFails
  <2> QED
    BY <2>1, Counted DEF Sound
<1>18. CASE StepFails
  <2>1. UNCHANGED <<weights, unfinished>>
    BY <1>18 DEF StepFails, Raise
  <2> QED
    BY <2>1, Counted DEF Sound
<1>19. CASE Cancel
  <2>1. UNCHANGED <<weights, unfinished>>
    BY <1>19 DEF Cancel, Raise
  <2> QED
    BY <2>1, Counted DEF Sound
<1>20. CASE VllmExits
  <2>1. UNCHANGED <<weights, unfinished>>
    BY <1>20 DEF VllmExits
  <2> QED
    BY <2>1, Counted DEF Sound
<1>21. CASE BackendCloses
  <2>1. UNCHANGED <<weights, unfinished>>
    BY <1>21 DEF BackendCloses
  <2> QED
    BY <2>1, Counted DEF Sound
<1>22. CASE BackendClosesNow
  <2>1. UNCHANGED <<weights, unfinished>>
    BY <1>22 DEF BackendClosesNow
  <2> QED
    BY <2>1, Counted DEF Sound
<1>23. CASE UNCHANGED vars
  BY <1>23, Counted DEF vars, Sound
<1> QED
  BY <1>1, <1>2, <1>3, <1>4, <1>5, <1>6, <1>7, <1>8, <1>9, <1>10, <1>11, <1>12, <1>13, <1>14,
     <1>15, <1>16, <1>17, <1>18, <1>19, <1>20, <1>21, <1>22, <1>23
     DEF Next, Steps


LEMMA InitInv == Init => IInv
<1> SUFFICES ASSUME Init PROVE IInv
  OBVIOUS
<1> USE DEF Init
<1>1. call.pc = "idle" /\ call \in Over
  BY DEF Idle, Over
<1>2. TypeOK
  <2>1. <<>> \in Seq(Updated) /\ << <<>> >> \in Seq(Seq(Updated)) /\ <<>> \in Seq({"own", "left"})
    OBVIOUS
  <2>2. made \in 0 .. MaxCalls /\ unfinished \in Nat
    BY Limits
  <2> QED
    BY <2>1, <2>2 DEF TypeOK
<1>3. CallOK
  <2>1. <<>> \in Seq(Inputs \cup {Stop})
    OBVIOUS
  <2>2. At("idle") /\ ~ At("sleep") /\ ~ At("join") /\ ~ At("wait") /\ ~ At("rest")
    BY <1>1 DEF At
  <2> QED
    BY <1>1, <2>1, <2>2 DEF CallOK
<1>4. Len(inputs) = 0 /\ Len(getters) = 0 /\ ~ Waiting
  BY <1>1 DEF Waiting, At
<1>5. Owners /\ Balance /\ Fed
  BY <1>1, <1>4 DEF Owners, Balance, Fed, At
<1>6. Placed
  BY <1>1 DEF Placed, At
<1>7. Progress
  <2>1. Len(weights) = 0 /\ Done = 0
    BY <1>1 DEF Done, At
  <2>2. EndsWith(weights, 0, made, call.n)
    BY <2>1 DEF EndsWith, Steady
  <2> QED
    BY <2>1, <2>2 DEF Progress
<1>8. ServedWhole
  <2>1. DOMAIN served = {1} /\ served[1] = <<>> /\ DOMAIN <<>> = {}
    OBVIOUS
  <2> QED
    BY <2>1 DEF ServedWhole, WholeCalls
<1> QED
  BY <1>2, <1>3, <1>5, <1>6, <1>7, <1>8 DEF IInv

LEMMA StepInv == IInv /\ [Next]_vars => IInv'
<1> SUFFICES ASSUME IInv, [Next]_vars PROVE IInv'
  OBVIOUS
<1>1. TypeOK /\ CallOK /\ Owners /\ Balance /\ Fed /\ Placed /\ Progress /\ ServedWhole
  BY DEF IInv
<1>2. TypeOK' /\ CallOK' /\ Owners' /\ Balance'
  BY <1>1, TypeOKStep, CallOKStep, OwnersStep, BalanceStep
<1>3. Fed' /\ Placed' /\ Progress' /\ ServedWhole'
  BY <1>1, FedStep, PlacedStep, ProgressStep, ServedWholeStep
<1> QED
  BY <1>2, <1>3 DEF IInv

\* Each call has one getter at most, the queues hold what the running call feeds, the
\* GPU has the mode it trains in, and the weights end with the items the call has done.
THEOREM Invariant == Spec => []IInv
  BY InitInv, StepInv, PTL DEF Spec

\* ServedWhole: what vLLM serves is made of whole training calls, each item trained once
\* and in order, unless a failed call could not close the service (service.py: train and
\* train_sft reload the adapter last; train.py: run_unsloth_rl_training).
THEOREM ServedWholeHolds == Spec => []ServedWhole
<1>1. IInv => ServedWhole
  BY DEF IInv
<1> QED
  BY <1>1, Invariant, PTL

\* UpdatesSound: a training step runs on parameters that are on the GPU, with momentum of
\* its own training mode only (service.py: _reset_optimizer_if_mode_changed).
THEOREM UpdatesSoundHolds == Spec => UpdatesSound
<1>1. ASSUME IInv, IInv', [Next]_vars
      PROVE  [weights' # weights \/ unfinished' > unfinished =>
                  placed = "gpu" /\ moments' # {"rl", "sft"}]_vars
  <2>1. TypeOK /\ CallOK /\ Owners /\ Balance /\ Fed /\ Placed /\ Placed'
    BY <1>1 DEF IInv
  <2>2. Sound
    BY <1>1, <2>1, SoundStep
  <2> QED
    BY <2>2 DEF Sound
<1> QED
  BY <1>1, Invariant, PTL DEF Spec, UpdatesSound
=============================================================================
