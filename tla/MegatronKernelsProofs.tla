------------------------ MODULE MegatronKernelsProofs ------------------------
(***************************************************************************)
(* Proofs about three parts of the Megatron training step that share no    *)
(* state: WeightStreaming, for any number of layers, slots, resident       *)
(* layers, jobs and passes; PrefixMask, for any mask; and the exchanges of *)
(* ContextParallel, for any rows, plans and numbers of ranks and waves.    *)
(***************************************************************************)
EXTENDS WeightStreaming, ContextParallel, FiniteSetTheorems, WellFoundedInduction, TLAPS

(***************************************************************************)
(* WeightStreaming.                                                        *)
(***************************************************************************)
\* What is assumed of the constants, as a hypothesis of the lemmas that need it.
Sizes ==
    /\ NumLayers \in Nat \ {0} /\ NumSlots \in Nat
    /\ Residents \subseteq 1 .. NumSlots

Op == [op : {"load", "finish", "ensure", "offload", "kernel"}, layer : Int]
LayersOnly(q) == \A i \in DOMAIN q : q[i].op # "load" => q[i].layer \in Layers
Loads == [layer : Layers, slot : Slots, at : {"taken", "pinning", "pinned"}]
Kernels == [layer : Layers, slot : Slots]
Transfers == [layer : Layers, slot : Slots, waits : Nat, begun : BOOLEAN]

ThreadTyped ==
    /\ resident \in Residents /\ layer \in Layers /\ grads \in BOOLEAN
    /\ stage \in {"idle", "between", "forward", "backward", "failed"}
    /\ todo \in Seq(Op) /\ LayersOnly(todo)

LayersTyped ==
    /\ status \in [Layers -> {"cpu", "loading", "gpu"}]
    /\ slotOf \in [Layers -> Slots \cup {NoSlot}]
    /\ owner \in [Slots -> Layers \cup {NoLayer}]

LoadsTyped ==
    /\ released \subseteq Slots /\ queue \in Seq(Loads) /\ loading \in Loads \cup {NoLoad}
    /\ ready \subseteq Layers /\ error \in BOOLEAN
    /\ pinned \in [Slots -> Layers \cup {NoLayer}]

GpuTyped ==
    /\ gpu \in [Slots -> Layers \cup {NoLayer}]
    /\ kernels \in Seq(Kernels) /\ transfers \in Seq(Transfers) /\ copied \subseteq Layers

Typed == ThreadTyped /\ LayersTyped /\ LoadsTyped /\ GpuTyped

LEMMA SizesUsed ==
    ASSUME Sizes, resident \in Residents
    PROVE  /\ resident \in Nat /\ resident >= 1 /\ resident <= NumSlots
           /\ NumLayers \in Nat /\ NumLayers >= 1 /\ NumSlots \in Nat
BY DEF Sizes

LEMMA LayerFacts ==
    ASSUME Sizes
    PROVE  /\ \A l : l \in Layers <=> l \in Int /\ 0 <= l /\ l < NumLayers
           /\ NoLayer \notin Layers /\ NoSlot \notin Slots
           /\ Layers \subseteq Int /\ Slots \subseteq Int
BY DEF Sizes, Layers, Slots, NoLayer, NoSlot

(***************************************************************************)
(* The hooks as sequences.                                                 *)
(***************************************************************************)
LEMMA DoTyped ==
    ASSUME NEW op \in {"load", "finish", "ensure", "offload", "kernel"}, NEW l \in Int
    PROVE  Do(op, l) \in Op /\ Do(op, l).op = op /\ Do(op, l).layer = l
BY DEF Do, Op

LEMMA FunctionIsSequence ==
    ASSUME NEW S, NEW n \in Nat, NEW f \in [1 .. n -> S]
    PROVE  f \in Seq(S) /\ Len(f) = n
OBVIOUS

LEMMA Joined ==
    ASSUME NEW S, NEW s \in Seq(S), NEW t \in Seq(S)
    PROVE  /\ s \o t \in Seq(S) /\ Len(s \o t) = Len(s) + Len(t)
           /\ \A p \in 1 .. Len(s) : (s \o t)[p] = s[p]
           /\ \A p \in 1 .. Len(t) : (s \o t)[Len(s) + p] = t[p]
OBVIOUS

LEMMA PrefetchForth ==
    ASSUME NEW start \in Int, NEW count \in Nat
    PROVE  /\ Prefetch(start, 1, count) \in Seq(Op) /\ Len(Prefetch(start, 1, count)) = count
           /\ \A i \in 1 .. count :
                  Prefetch(start, 1, count)[i] = Do("load", start + (i - 1))
<1> DEFINE f == Prefetch(start, 1, count)
<1>1. \A i \in 1 .. count : start + 1 * (i - 1) = start + (i - 1) /\ start + (i - 1) \in Int
    OBVIOUS
<1>2. \A i \in 1 .. count : f[i] = Do("load", start + (i - 1))
    BY <1>1 DEF Prefetch
<1>3. \A i \in 1 .. count : f[i] \in Op
    BY <1>1, <1>2, DoTyped
<1>4. f \in [1 .. count -> Op]
    BY <1>3 DEF Prefetch
<1> QED BY <1>2, <1>4, FunctionIsSequence

LEMMA PrefetchBack ==
    ASSUME NEW start \in Int, NEW count \in Nat
    PROVE  /\ Prefetch(start, -1, count) \in Seq(Op) /\ Len(Prefetch(start, -1, count)) = count
           /\ \A i \in 1 .. count :
                  Prefetch(start, -1, count)[i] = Do("load", start - (i - 1))
<1> DEFINE f == Prefetch(start, -1, count)
<1>1. \A i \in 1 .. count : start + (-1) * (i - 1) = start - (i - 1) /\ start - (i - 1) \in Int
    OBVIOUS
<1>2. \A i \in 1 .. count : f[i] = Do("load", start - (i - 1))
    BY <1>1 DEF Prefetch
<1>3. \A i \in 1 .. count : f[i] \in Op
    BY <1>1, <1>2, DoTyped
<1>4. f \in [1 .. count -> Op]
    BY <1>3 DEF Prefetch
<1> QED BY <1>2, <1>4, FunctionIsSequence

LEMMA EnsureIs ==
    ASSUME Sizes, NEW first \in Nat, first <= NumLayers
    PROVE  /\ EnsureOffloaded(first) \in Seq(Op)
           /\ Len(EnsureOffloaded(first)) = NumLayers - first
           /\ \A i \in 1 .. NumLayers - first :
                  EnsureOffloaded(first)[i] = Do("ensure", first + i - 1)
<1> DEFINE n == NumLayers - first
           f == EnsureOffloaded(first)
<1>1. n \in Nat
    BY DEF Sizes
<1>2. \A i \in 1 .. n : first + i - 1 \in Int
    BY <1>1
<1>3. \A i \in 1 .. n : f[i] = Do("ensure", first + i - 1)
    BY DEF EnsureOffloaded
<1>4. \A i \in 1 .. n : f[i] \in Op
    BY <1>2, <1>3, DoTyped
<1>5. f \in [1 .. n -> Op]
    BY <1>4 DEF EnsureOffloaded
<1> QED BY <1>1, <1>3, <1>5, FunctionIsSequence

\* finish l, load the window ahead, kernel l, offload l, load one more.
LEMMA ForwardIs ==
    ASSUME Sizes, resident \in Residents, NEW l \in Layers
    PROVE  LET q == Forward(l)
           IN  /\ q \in Seq(Op) /\ Len(q) = resident + 3
               /\ q[1] = Do("finish", l)
               /\ \A p \in 2 .. resident : q[p] = Do("load", l + p - 1)
               /\ q[resident + 1] = Do("kernel", l) /\ q[resident + 2] = Do("offload", l)
               /\ q[resident + 3] = Do("load", l + resident)
<1> DEFINE n == resident - 1
           A == << Do("finish", l) >>
           B == Prefetch(l + 1, 1, n)
           C == << Do("kernel", l), Do("offload", l) >>
           D == Prefetch(l + resident, 1, 1)
<1>1. resident \in Nat /\ resident >= 1 /\ n \in Nat /\ l \in Int /\ l + 1 \in Int
      /\ l + resident \in Int
    BY SizesUsed, LayerFacts
<1>2. A \in Seq(Op) /\ Len(A) = 1 /\ A[1] = Do("finish", l)
    BY <1>1, DoTyped
<1>3. /\ B \in Seq(Op) /\ Len(B) = n
      /\ \A i \in 1 .. n : B[i] = Do("load", (l + 1) + (i - 1))
    BY <1>1, PrefetchForth
<1>4. C \in Seq(Op) /\ Len(C) = 2 /\ C[1] = Do("kernel", l) /\ C[2] = Do("offload", l)
    BY <1>1, DoTyped
<1>5. D \in Seq(Op) /\ Len(D) = 1 /\ D[1] = Do("load", l + resident)
  <2>1. /\ D \in Seq(Op) /\ Len(D) = 1
        /\ \A i \in 1 .. 1 : D[i] = Do("load", (l + resident) + (i - 1))
      BY <1>1, PrefetchForth
  <2>2. (l + resident) + (1 - 1) = l + resident
      BY <1>1
  <2>3. 1 \in 1 .. 1
      OBVIOUS
  <2> QED BY <2>1, <2>2, <2>3
<1>6. Forward(l) = ((A \o B) \o C) \o D
    BY DEF Forward
<1> HIDE DEF A, B, C, D
<1>7. /\ A \o B \in Seq(Op) /\ Len(A \o B) = resident /\ (A \o B)[1] = Do("finish", l)
      /\ \A p \in 2 .. resident : (A \o B)[p] = B[p - 1]
  <2>0. A \in Seq(Op) /\ B \in Seq(Op)
      BY <1>2, <1>3
  <2>1. /\ A \o B \in Seq(Op) /\ Len(A \o B) = Len(A) + Len(B)
        /\ \A p \in 1 .. Len(A) : (A \o B)[p] = A[p]
        /\ \A p \in 1 .. Len(B) : (A \o B)[Len(A) + p] = B[p]
      BY <2>0, Joined
  <2>2. 1 \in 1 .. Len(A) /\ Len(A) + Len(B) = resident
      BY <1>1, <1>2, <1>3
  <2>3. \A p \in 2 .. resident : p - 1 \in 1 .. Len(B) /\ Len(A) + (p - 1) = p
      BY <1>1, <1>2, <1>3
  <2> QED BY <1>2, <2>1, <2>2, <2>3
<1>8. \A p \in 2 .. resident : (A \o B)[p] = Do("load", l + p - 1)
  <2> TAKE p \in 2 .. resident
  <2>1. p - 1 \in 1 .. n /\ (l + 1) + ((p - 1) - 1) = l + p - 1
      BY <1>1
  <2> QED BY <1>3, <1>7, <2>1
<1> DEFINE E == A \o B
<1>9. /\ E \in Seq(Op) /\ Len(E) = resident /\ E[1] = Do("finish", l)
      /\ \A p \in 2 .. resident : E[p] = Do("load", l + p - 1)
    BY <1>7, <1>8
<1> HIDE DEF E
<1>10. /\ E \o C \in Seq(Op) /\ Len(E \o C) = resident + 2
       /\ \A p \in 1 .. resident : (E \o C)[p] = E[p]
       /\ (E \o C)[resident + 1] = C[1] /\ (E \o C)[resident + 2] = C[2]
  <2>0. E \in Seq(Op) /\ C \in Seq(Op)
      BY <1>4, <1>9
  <2>1. /\ E \o C \in Seq(Op) /\ Len(E \o C) = Len(E) + Len(C)
        /\ \A p \in 1 .. Len(E) : (E \o C)[p] = E[p]
        /\ \A p \in 1 .. Len(C) : (E \o C)[Len(E) + p] = C[p]
      BY <2>0, Joined
  <2>2. 1 \in 1 .. Len(C) /\ 2 \in 1 .. Len(C)
      BY <1>4
  <2> QED BY <1>4, <1>9, <2>1, <2>2
<1> DEFINE F == E \o C
<1>11. /\ F \in Seq(Op) /\ Len(F) = resident + 2
       /\ \A p \in 1 .. resident : F[p] = E[p]
       /\ F[resident + 1] = Do("kernel", l) /\ F[resident + 2] = Do("offload", l)
    BY <1>4, <1>10
<1> HIDE DEF F
<1>12. /\ F \o D \in Seq(Op) /\ Len(F \o D) = resident + 3
       /\ \A p \in 1 .. resident + 2 : (F \o D)[p] = F[p]
       /\ (F \o D)[resident + 3] = D[1]
  <2>0. F \in Seq(Op) /\ D \in Seq(Op)
      BY <1>5, <1>11
  <2>1. /\ F \o D \in Seq(Op) /\ Len(F \o D) = Len(F) + Len(D)
        /\ \A p \in 1 .. Len(F) : (F \o D)[p] = F[p]
        /\ \A p \in 1 .. Len(D) : (F \o D)[Len(F) + p] = D[p]
      BY <2>0, Joined
  <2>2. 1 \in 1 .. Len(D) /\ (resident + 2) + 1 = resident + 3
      BY <1>1, <1>5
  <2> QED BY <1>5, <1>11, <2>1, <2>2
<1>13. /\ \A p \in 1 .. resident : p \in 1 .. resident + 2
       /\ 1 \in 1 .. resident /\ resident + 1 \in 1 .. resident + 2
       /\ resident + 2 \in 1 .. resident + 2
       /\ \A p \in 2 .. resident : p \in 1 .. resident
    BY <1>1
<1>14. Forward(l) = F \o D
    BY <1>6 DEF E, F
<1>15. /\ F \o D \in Seq(Op) /\ Len(F \o D) = resident + 3
       /\ (F \o D)[resident + 1] = Do("kernel", l) /\ (F \o D)[resident + 2] = Do("offload", l)
       /\ (F \o D)[resident + 3] = Do("load", l + resident)
    BY <1>5, <1>11, <1>12, <1>13
<1>16. \A p \in 1 .. resident : (F \o D)[p] = E[p]
    BY <1>11, <1>12, <1>13
<1>17. /\ (F \o D)[1] = Do("finish", l)
       /\ \A p \in 2 .. resident : (F \o D)[p] = Do("load", l + p - 1)
    BY <1>9, <1>13, <1>16
<1> QED BY <1>14, <1>15, <1>17

\* Offload what lies behind, finish l, load the window before it, kernel l.
LEMMA BackwardIs ==
    ASSUME Sizes, resident \in Residents, NEW l \in Layers
    PROVE  LET q == Backward(l)
               m == NumLayers - (l + 1)
           IN  /\ m \in Nat /\ q \in Seq(Op) /\ Len(q) = m + resident + 1
               /\ \A p \in 1 .. m : q[p] = Do("ensure", l + p)
               /\ q[m + 1] = Do("finish", l)
               /\ \A p \in m + 2 .. m + resident : q[p] = Do("load", l + 1 + m - p)
               /\ q[m + resident + 1] = Do("kernel", l)
<1> DEFINE n == resident - 1
           m == NumLayers - (l + 1)
           A == EnsureOffloaded(l + 1)
           B == << Do("finish", l) >>
           C == Prefetch(l - 1, -1, n)
           D == << Do("kernel", l) >>
<1>1. /\ resident \in Nat /\ resident >= 1 /\ n \in Nat /\ l \in Int /\ l + 1 \in Nat
      /\ l - 1 \in Int /\ m \in Nat /\ l + 1 <= NumLayers
    BY SizesUsed, LayerFacts
<1>2. A \in Seq(Op) /\ Len(A) = m /\ \A p \in 1 .. m : A[p] = Do("ensure", l + p)
  <2>1. A \in Seq(Op) /\ Len(A) = m /\ \A p \in 1 .. m : A[p] = Do("ensure", (l + 1) + p - 1)
      BY <1>1, EnsureIs
  <2>2. \A p \in 1 .. m : (l + 1) + p - 1 = l + p
      BY <1>1
  <2> QED BY <2>1, <2>2
<1>3. B \in Seq(Op) /\ Len(B) = 1 /\ B[1] = Do("finish", l)
    BY <1>1, DoTyped
<1>4. /\ C \in Seq(Op) /\ Len(C) = n
      /\ \A i \in 1 .. n : C[i] = Do("load", (l - 1) - (i - 1))
    BY <1>1, PrefetchBack
<1>5. D \in Seq(Op) /\ Len(D) = 1 /\ D[1] = Do("kernel", l)
    BY <1>1, DoTyped
<1>6. Backward(l) = ((A \o B) \o C) \o D
    BY DEF Backward
<1> HIDE DEF A, B, C, D, m
<1>7. /\ A \o B \in Seq(Op) /\ Len(A \o B) = m + 1 /\ (A \o B)[m + 1] = B[1]
      /\ \A p \in 1 .. m : (A \o B)[p] = A[p]
  <2>0. A \in Seq(Op) /\ B \in Seq(Op)
      BY <1>2, <1>3
  <2>1. /\ A \o B \in Seq(Op) /\ Len(A \o B) = Len(A) + Len(B)
        /\ \A p \in 1 .. Len(A) : (A \o B)[p] = A[p]
        /\ \A p \in 1 .. Len(B) : (A \o B)[Len(A) + p] = B[p]
      BY <2>0, Joined
  <2>2. 1 \in 1 .. Len(B)
      BY <1>3
  <2> QED BY <1>2, <1>3, <2>1, <2>2
<1> DEFINE E == A \o B
<1>8. /\ E \in Seq(Op) /\ Len(E) = m + 1 /\ E[m + 1] = Do("finish", l)
      /\ \A p \in 1 .. m : E[p] = Do("ensure", l + p)
    BY <1>2, <1>3, <1>7
<1> HIDE DEF E
<1>9. /\ E \o C \in Seq(Op) /\ Len(E \o C) = m + resident
      /\ \A p \in 1 .. m + 1 : (E \o C)[p] = E[p]
      /\ \A p \in m + 2 .. m + resident : (E \o C)[p] = C[p - (m + 1)]
  <2>0. E \in Seq(Op) /\ C \in Seq(Op)
      BY <1>4, <1>8
  <2>1. /\ E \o C \in Seq(Op) /\ Len(E \o C) = Len(E) + Len(C)
        /\ \A p \in 1 .. Len(E) : (E \o C)[p] = E[p]
        /\ \A p \in 1 .. Len(C) : (E \o C)[Len(E) + p] = C[p]
      BY <2>0, Joined
  <2>2. Len(E) + Len(C) = m + resident
      BY <1>1, <1>4, <1>8
  <2>3. \A p \in m + 2 .. m + resident :
            p - (m + 1) \in 1 .. Len(C) /\ Len(E) + (p - (m + 1)) = p
      BY <1>1, <1>4, <1>8
  <2> QED BY <1>8, <2>1, <2>2, <2>3
<1>10. \A p \in m + 2 .. m + resident : (E \o C)[p] = Do("load", l + 1 + m - p)
  <2> TAKE p \in m + 2 .. m + resident
  <2>1. p - (m + 1) \in 1 .. n /\ (l - 1) - ((p - (m + 1)) - 1) = l + 1 + m - p
      BY <1>1
  <2> QED BY <1>4, <1>9, <2>1
<1> DEFINE F == E \o C
<1>11. /\ F \in Seq(Op) /\ Len(F) = m + resident
       /\ \A p \in 1 .. m + 1 : F[p] = E[p]
       /\ \A p \in m + 2 .. m + resident : F[p] = Do("load", l + 1 + m - p)
    BY <1>9, <1>10
<1> HIDE DEF F
<1>12. /\ F \o D \in Seq(Op) /\ Len(F \o D) = m + resident + 1
       /\ \A p \in 1 .. m + resident : (F \o D)[p] = F[p]
       /\ (F \o D)[m + resident + 1] = D[1]
  <2>0. F \in Seq(Op) /\ D \in Seq(Op)
      BY <1>5, <1>11
  <2>1. /\ F \o D \in Seq(Op) /\ Len(F \o D) = Len(F) + Len(D)
        /\ \A p \in 1 .. Len(F) : (F \o D)[p] = F[p]
        /\ \A p \in 1 .. Len(D) : (F \o D)[Len(F) + p] = D[p]
      BY <2>0, Joined
  <2>2. 1 \in 1 .. Len(D)
      BY <1>5
  <2> QED BY <1>5, <1>11, <2>1, <2>2
<1>13. /\ \A p \in 1 .. m : p \in 1 .. m + 1 /\ p \in 1 .. m + resident
       /\ m + 1 \in 1 .. m + 1 /\ m + 1 \in 1 .. m + resident
       /\ \A p \in m + 2 .. m + resident : p \in 1 .. m + resident
    BY <1>1
<1>14. Backward(l) = F \o D
    BY <1>6 DEF E, F
<1>15. m = NumLayers - (l + 1)
    BY DEF m
<1> HIDE DEF n
<1>16. /\ F \o D \in Seq(Op) /\ Len(F \o D) = m + resident + 1
       /\ (F \o D)[m + 1] = Do("finish", l)
       /\ (F \o D)[m + resident + 1] = Do("kernel", l)
    BY <1>5, <1>8, <1>11, <1>12, <1>13
<1>17. \A p \in 1 .. m : (F \o D)[p] = Do("ensure", l + p)
    BY <1>8, <1>11, <1>12, <1>13
<1>18. \A p \in m + 2 .. m + resident : (F \o D)[p] = Do("load", l + 1 + m - p)
    BY <1>11, <1>12, <1>13
<1> QED BY <1>1, <1>14, <1>15, <1>16, <1>17, <1>18

(***************************************************************************)
(* A hook, step by step: every step of the training thread in a hook is    *)
(* one of these, for the operation at the head of todo.                    *)
(***************************************************************************)
Others == <<threadVars, layerVars, loadVars, gpuVars>>
Replaces(ops) == todo' = ops \o Tail(todo) /\ UNCHANGED Others

Raises(op, l) ==
    /\ error \/ (op = "load" /\ l \in Layers /\ status[l] = "cpu" /\ FreeSlots = {})
    /\ stage' = "failed"
    /\ UNCHANGED <<resident, layer, grads, passes, jobs, todo, layerVars, loadVars, gpuVars>>

Skips(op, l) ==
    /\ \/ op = "load" /\ (l \in Layers => status[l] # "cpu")
       \/ op = "finish" /\ l \in Layers /\ status[l] = "gpu"
       \/ op \in {"ensure", "offload"} /\ l \in Layers /\ status[l] = "cpu"
    /\ todo' = Tail(todo) /\ UNCHANGED Others

LoadsFirst(op, l) ==
    /\ op = "finish" /\ l \in Layers /\ status[l] = "cpu"
    /\ Replaces(<<Do("load", l), Do("finish", l)>>)

WaitsFirst(op, l) ==
    /\ op \in {"ensure", "offload"} /\ l \in Layers /\ status[l] = "loading"
    /\ Replaces(<<Do("finish", l), Do("offload", l)>>)

OffloadsNext(op, l) ==
    /\ op = "ensure" /\ l \in Layers /\ status[l] = "gpu"
    /\ Replaces(<<Do("offload", l)>>)

Requests(op, l, s) ==
    /\ op = "load" /\ l \in Layers /\ status[l] = "cpu" /\ s \in Slots /\ owner[s] = NoLayer
    /\ todo' = Tail(todo)
    /\ status' = [status EXCEPT ![l] = "loading"] /\ slotOf' = [slotOf EXCEPT ![l] = s]
    /\ owner' = [owner EXCEPT ![s] = l]
    /\ queue' = Append(queue, [layer |-> l, slot |-> s, at |-> "taken"])
    /\ ready' = ready \ {l} /\ copied' = copied \ {l}
    /\ UNCHANGED <<threadVars, released, loading, error, pinned, gpu, kernels, transfers>>

Finishes(op, l) ==
    /\ op = "finish" /\ l \in Layers /\ status[l] = "loading" /\ l \in copied
    /\ todo' = Tail(todo)
    /\ status' = [status EXCEPT ![l] = "gpu"]
    /\ UNCHANGED <<threadVars, slotOf, owner, loadVars, gpuVars>>

Offloads(op, l) ==
    /\ op = "offload" /\ l \in Layers /\ status[l] = "gpu"
    /\ todo' = Tail(todo)
    /\ status' = [status EXCEPT ![l] = "cpu"] /\ slotOf' = [slotOf EXCEPT ![l] = NoSlot]
    /\ owner' = [owner EXCEPT ![slotOf[l]] = NoLayer]
    /\ released' = released \cup {slotOf[l]}
    /\ UNCHANGED <<threadVars, queue, loading, ready, error, pinned, gpuVars>>

Launches(op, l) ==
    /\ op = "kernel" /\ l \in Layers
    /\ todo' = Tail(todo)
    /\ kernels' = Append(kernels, [layer |-> l, slot |-> slotOf[l]])
    /\ UNCHANGED <<threadVars, layerVars, loadVars, gpu, transfers, copied>>

HookStep(op, l) ==
    \/ Raises(op, l) \/ Skips(op, l)
    \/ LoadsFirst(op, l) \/ WaitsFirst(op, l) \/ OffloadsNext(op, l)
    \/ \E s \in Slots : Requests(op, l, s)
    \/ Finishes(op, l) \/ Offloads(op, l) \/ Launches(op, l)

LEMMA HeadFacts ==
    ASSUME Typed, todo # <<>>
    PROVE  /\ Head(todo) \in Op /\ Head(todo) = todo[1] /\ Head(todo).layer \in Int
           /\ Len(todo) \in Nat /\ Len(todo) >= 1 /\ DOMAIN todo = 1 .. Len(todo)
           /\ Head(todo).op # "load" => Head(todo).layer \in Layers
           /\ Tail(todo) \in Seq(Op) /\ Len(Tail(todo)) = Len(todo) - 1
           /\ DOMAIN Tail(todo) = 1 .. Len(todo) - 1
           /\ \A i \in 1 .. Len(todo) - 1 : Tail(todo)[i] = todo[i + 1]
<1>1. todo \in Seq(Op) /\ LayersOnly(todo)
    BY DEF Typed, ThreadTyped
<1>2. /\ Head(todo) \in Op /\ Head(todo) = todo[1]
      /\ Len(todo) \in Nat /\ Len(todo) >= 1 /\ DOMAIN todo = 1 .. Len(todo)
      /\ Tail(todo) \in Seq(Op) /\ Len(Tail(todo)) = Len(todo) - 1
      /\ DOMAIN Tail(todo) = 1 .. Len(todo) - 1
      /\ \A i \in 1 .. Len(todo) - 1 : Tail(todo)[i] = todo[i + 1]
    BY <1>1
<1>3. Head(todo).op # "load" => Head(todo).layer \in Layers
    BY <1>1, <1>2 DEF LayersOnly
<1>4. Head(todo).layer \in Int
    BY <1>2 DEF Op
<1> QED BY <1>2, <1>3, <1>4

\* A set of slots has a first one: _acquire_slot finds a free slot if there is one.
LEMMA FirstIs ==
    ASSUME NEW S \in SUBSET Nat, NEW m \in S, \A t \in S : m <= t
    PROVE  Min(S) = m
<1>1. \A s \in S : (\A t \in S : s <= t) => s = m
    OBVIOUS
<1>2. m \in S /\ \A t \in S : m <= t
    OBVIOUS
<1> QED BY <1>1, <1>2 DEF Min

LEMMA FirstIsElement ==
    ASSUME NEW S \in SUBSET Nat, S # {}
    PROVE  Min(S) \in S
<1> DEFINE R == OpToRel(<, Nat)
<1>1. \A x, y \in Nat : y < x => <<y, x>> \in R
    BY DEF OpToRel
<1>2. IsWellFoundedOn(R, Nat)
    BY NatLessThanWellFounded
<1>3. S \subseteq Nat /\ S # {}
    OBVIOUS
<1> HIDE DEF R
<1>4. PICK d \in S : \A y \in S : ~ (<<y, d>> \in R)
    BY <1>2, <1>3, WFMin
<1>5. ASSUME NEW y \in S PROVE d <= y
  <2>1. y \in Nat /\ d \in Nat
      OBVIOUS
  <2>2. ~ (y < d)
      BY <1>1, <1>4, <2>1
  <2> QED BY <2>1, <2>2
<1> QED BY <1>5, FirstIs

LEMMA AcquiredIsFree ==
    ASSUME Sizes, FreeSlots # {}
    PROVE  Acquired \in FreeSlots
<1>1. FreeSlots \in SUBSET Nat
    BY DEF FreeSlots, Slots, Sizes
<1>2. FreeSlots \ released \in SUBSET Nat
    BY <1>1
<1>3. CASE FreeSlots \ released = {}
  <2>1. Acquired = Min(FreeSlots)
      BY <1>3 DEF Acquired
  <2> QED BY <1>1, <2>1, FirstIsElement
<1>4. CASE FreeSlots \ released # {}
  <2>1. Acquired = Min(FreeSlots \ released)
      BY <1>4 DEF Acquired
  <2>2. Min(FreeSlots \ released) \in FreeSlots \ released
      BY <1>2, <1>4, FirstIsElement
  <2> QED BY <2>1, <2>2
<1> QED BY <1>3, <1>4

LEMMA HookIsStep ==
    ASSUME Sizes, Typed, Hook
    PROVE  /\ todo # <<>> /\ stage # "failed"
           /\ HookStep(Head(todo).op, Head(todo).layer)
<1> DEFINE l == Here
<1>1. todo # <<>> /\ stage # "failed"
    BY DEF Hook, StartLoad, FinishLoad, Ensure, StartOffload, Launch, Next1
<1>2. l \in Int /\ (Head(todo).op # "load" => l \in Layers)
    BY <1>1, HeadFacts DEF Here
<1>3. \A m \in Layers : status[m] \in {"cpu", "loading", "gpu"}
    BY DEF Typed, LayersTyped
<1> SUFFICES HookStep(Head(todo).op, l)
    BY <1>1 DEF Here
<1>4. CASE StartLoad
  <2>1. Head(todo).op = "load"
      BY <1>4 DEF StartLoad, Next1
  <2>2. CASE error
    <3>1. Raises("load", l)
        BY <1>4, <2>2 DEF StartLoad, RaiseError, Raises, layerVars, loadVars, gpuVars
    <3> HIDE DEF l
    <3> QED BY <2>1, <3>1 DEF HookStep
  <2>3. CASE ~error /\ (l \in Layers => status[l] # "cpu")
    <3>1. Skips("load", l)
        BY <1>4, <2>3 DEF StartLoad, Done, Skips, Others, layerVars, loadVars, gpuVars
    <3> HIDE DEF l
    <3> QED BY <2>1, <3>1 DEF HookStep
  <2>4. CASE ~error /\ l \in Layers /\ status[l] = "cpu" /\ FreeSlots = {}
    <3>1. Raises("load", l)
        BY <1>4, <2>4 DEF StartLoad, RaiseError, Raises, layerVars, loadVars, gpuVars
    <3> HIDE DEF l
    <3> QED BY <2>1, <3>1 DEF HookStep
  <2>5. CASE ~error /\ l \in Layers /\ status[l] = "cpu" /\ FreeSlots # {}
    <3>1. Acquired \in Slots /\ owner[Acquired] = NoLayer
        BY <2>5, AcquiredIsFree DEF FreeSlots
    <3>2. Requests("load", l, Acquired)
        BY <1>4, <2>5, <3>1 DEF StartLoad, Done, Requests
    <3> HIDE DEF l
    <3> QED BY <2>1, <3>1, <3>2 DEF HookStep
  <2> QED BY <2>2, <2>3, <2>4, <2>5
<1>5. CASE FinishLoad
  <2>1. Head(todo).op = "finish" /\ l \in Layers
      BY <1>2, <1>5 DEF FinishLoad, Next1
  <2>2. CASE error /\ RaiseError /\ UNCHANGED status
    <3>1. Raises("finish", l)
        BY <1>5, <2>2 DEF FinishLoad, RaiseError, Raises, layerVars, loadVars, gpuVars
    <3> HIDE DEF l
    <3> QED BY <2>1, <3>1 DEF HookStep
  <2>3. CASE status[l] = "gpu" /\ Done /\ UNCHANGED status
    <3>1. Skips("finish", l)
        BY <1>5, <2>1, <2>3 DEF FinishLoad, Done, Skips, Others, layerVars
    <3> HIDE DEF l
    <3> QED BY <2>1, <3>1 DEF HookStep
  <2>4. CASE /\ status[l] = "cpu" /\ Instead(<<Do("load", l), Do("finish", l)>>)
             /\ UNCHANGED status
    <3>1. LoadsFirst("finish", l)
        BY <1>5, <2>1, <2>4 DEF FinishLoad, Instead, LoadsFirst, Replaces, Others, layerVars
    <3> HIDE DEF l
    <3> QED BY <2>1, <3>1 DEF HookStep
  <2>5. CASE /\ status[l] = "loading" /\ l \in ready \cap copied
             /\ Done /\ status' = [status EXCEPT ![l] = "gpu"]
    <3>1. Finishes("finish", l)
        BY <1>5, <2>1, <2>5 DEF FinishLoad, Done, Finishes
    <3> HIDE DEF l
    <3> QED BY <2>1, <3>1 DEF HookStep
  <2> QED BY <1>5, <2>2, <2>3, <2>4, <2>5 DEF FinishLoad
<1>6. CASE Ensure
  <2>1. Head(todo).op = "ensure" /\ l \in Layers
      BY <1>2, <1>6 DEF Ensure, Next1
  <2>2. CASE status[l] = "cpu"
    <3>1. Skips("ensure", l)
        BY <1>6, <2>1, <2>2 DEF Ensure, Done, Skips, Others
    <3> HIDE DEF l
    <3> QED BY <2>1, <3>1 DEF HookStep
  <2>3. CASE status[l] = "loading"
    <3>1. WaitsFirst("ensure", l)
        BY <1>6, <2>1, <2>3 DEF Ensure, Instead, WaitsFirst, Replaces, Others
    <3> HIDE DEF l
    <3> QED BY <2>1, <3>1 DEF HookStep
  <2>4. CASE status[l] = "gpu"
    <3>1. OffloadsNext("ensure", l)
        BY <1>6, <2>1, <2>4 DEF Ensure, Instead, OffloadsNext, Replaces, Others
    <3> HIDE DEF l
    <3> QED BY <2>1, <3>1 DEF HookStep
  <2> QED BY <1>3, <2>1, <2>2, <2>3, <2>4
<1>7. CASE StartOffload
  <2>1. Head(todo).op = "offload" /\ l \in Layers
      BY <1>2, <1>7 DEF StartOffload, Next1
  <2>2. CASE status[l] = "cpu"
    <3>1. Skips("offload", l)
        BY <1>7, <2>1, <2>2 DEF StartOffload, Done, Skips, Others, loadVars
    <3> HIDE DEF l
    <3> QED BY <2>1, <3>1 DEF HookStep
  <2>3. CASE status[l] = "loading"
    <3>1. WaitsFirst("offload", l)
        BY <1>7, <2>1, <2>3 DEF StartOffload, Instead, WaitsFirst, Replaces, Others, loadVars
    <3> HIDE DEF l
    <3> QED BY <2>1, <3>1 DEF HookStep
  <2>4. CASE status[l] = "gpu"
    <3>1. Offloads("offload", l)
        BY <1>7, <2>1, <2>4 DEF StartOffload, Done, Offloads
    <3> HIDE DEF l
    <3> QED BY <2>1, <3>1 DEF HookStep
  <2> QED BY <1>3, <2>1, <2>2, <2>3, <2>4
<1>8. CASE Launch
  <2>1. Head(todo).op = "kernel" /\ l \in Layers
      BY <1>2, <1>8 DEF Launch, Next1
  <2>2. Launches("kernel", l)
      BY <1>8, <2>1 DEF Launch, Done, Launches
  <2> HIDE DEF l
  <2> QED BY <2>1, <2>2 DEF HookStep
<1> QED BY <1>4, <1>5, <1>6, <1>7, <1>8 DEF Hook

(***************************************************************************)
(* What a step of a hook does to the operations left: others, or none,     *)
(* take the place of the first.                                            *)
(***************************************************************************)
Drop(o, x) == o.op \in {"ensure", "offload"} /\ o.layer = x
Drops(q, i, x) == \E k \in DOMAIN q : k >= i /\ Drop(q[k], x)
Fetch(o) == o.op \in {"load", "finish"} /\ o.layer \in Layers
Finish(o, x) == o.op = "finish" /\ o.layer = x

\* The layers S that are there, and those to be fetched by q, are of A as long as x is to
\* be dropped, and of B afterwards.
Bounded(q, S, A, B, x) ==
    /\ A \ {x} \subseteq B
    /\ S \subseteq IF Drops(q, 1, x) THEN A ELSE B
    /\ \A i \in DOMAIN q :
           Fetch(q[i]) => q[i].layer \in IF Drops(q, i, x) THEN A ELSE B

\* A kernel's layer is there, or will be, and is not dropped before the kernel.
Fed(q, state) ==
    \A i \in DOMAIN q : q[i].op = "kernel" =>
        /\ \A k \in 1 .. i - 1 : ~ Drop(q[k], q[i].layer)
        /\ state[q[i].layer] = "gpu" \/ \E k \in 1 .. i - 1 : Finish(q[k], q[i].layer)

\* What the operations in the place of the first may be, when T is there after it.
Continues(q, ops, S, T) ==
    /\ \A k \in DOMAIN ops : Fetch(ops[k]) =>
           ops[k].layer \in S \/ (Fetch(Head(q)) /\ ops[k].layer = Head(q).layer)
    /\ \A y \in T : y \in S \/ (Fetch(Head(q)) /\ y = Head(q).layer)
    /\ \A k \in DOMAIN ops : \A y : Drop(ops[k], y) => Drop(Head(q), y)
    /\ \A y : Drop(Head(q), y) => \/ ops = <<>> /\ y \notin T
                                  \/ ops # <<>> /\ Drop(ops[Len(ops)], y)

Feeds(q, ops, before, after) ==
    /\ \A k \in DOMAIN ops : ops[k].op # "kernel"
    /\ \A y \in Layers : before[y] = "gpu" /\ ~ Drop(Head(q), y) => after[y] = "gpu"
    /\ \A y \in Layers : Finish(Head(q), y) =>
           after[y] = "gpu" \/ \E k \in DOMAIN ops : Finish(ops[k], y)

LEMMA Replaced ==
    ASSUME NEW q \in Seq(Op), q # <<>>, NEW ops \in Seq(Op)
    PROVE  LET r == ops \o Tail(q)
               d == Len(ops)
               n == Len(q)
           IN  /\ r \in Seq(Op) /\ d \in Nat /\ n \in Nat /\ n >= 1
               /\ DOMAIN r = 1 .. (d + n) - 1 /\ DOMAIN q = 1 .. n /\ DOMAIN ops = 1 .. d
               /\ \A k \in 1 .. d : r[k] = ops[k]
               /\ \A k \in d + 1 .. (d + n) - 1 :
                      (k + 1) - d \in 2 .. n /\ r[k] = q[(k + 1) - d]
               /\ \A k \in 2 .. n :
                      (k + d) - 1 \in d + 1 .. (d + n) - 1 /\ r[(k + d) - 1] = q[k]
               /\ Head(q) = q[1] /\ (ops = <<>> <=> d = 0)
<1> DEFINE t == Tail(q)
           d == Len(ops)
           n == Len(q)
<1>1. /\ t \in Seq(Op) /\ n \in Nat /\ n >= 1 /\ Len(t) = n - 1 /\ d \in Nat
      /\ \A k \in 1 .. n - 1 : t[k] = q[k + 1]
      /\ Head(q) = q[1] /\ (ops = <<>> <=> d = 0) /\ DOMAIN q = 1 .. n /\ DOMAIN ops = 1 .. d
    OBVIOUS
<1> HIDE DEF t
<1>2. /\ ops \o t \in Seq(Op) /\ Len(ops \o t) = Len(ops) + Len(t)
      /\ \A k \in 1 .. Len(ops) : (ops \o t)[k] = ops[k]
      /\ \A k \in 1 .. Len(t) : (ops \o t)[Len(ops) + k] = t[k]
  <2>1. ops \in Seq(Op) /\ t \in Seq(Op)
      BY <1>1
  <2> QED BY <2>1, Joined
<1> DEFINE r == ops \o t
<1>3. /\ r \in Seq(Op) /\ Len(r) = d + (n - 1) /\ DOMAIN r = 1 .. Len(r)
      /\ \A k \in 1 .. d : r[k] = ops[k]
      /\ \A k \in 1 .. n - 1 : r[d + k] = t[k]
    BY <1>1, <1>2
<1> HIDE DEF r, d, n
<1>4. DOMAIN r = 1 .. (d + n) - 1
  <2>1. d + (n - 1) = (d + n) - 1
      BY <1>1
  <2> QED BY <1>3, <2>1
<1>5. ASSUME NEW k \in 2 .. n
      PROVE  (k + d) - 1 \in d + 1 .. (d + n) - 1 /\ r[(k + d) - 1] = q[k]
  <2>1. /\ k - 1 \in 1 .. n - 1 /\ d + (k - 1) = (k + d) - 1 /\ (k - 1) + 1 = k
        /\ (k + d) - 1 \in d + 1 .. (d + n) - 1
      BY <1>1
  <2>2. r[d + (k - 1)] = t[k - 1] /\ t[k - 1] = q[(k - 1) + 1]
      BY <1>1, <1>2, <2>1 DEF r, d, n
  <2> QED BY <2>1, <2>2
<1>6. ASSUME NEW k \in d + 1 .. (d + n) - 1
      PROVE  (k + 1) - d \in 2 .. n /\ r[k] = q[(k + 1) - d]
  <2>1. (k + 1) - d \in 2 .. n /\ (((k + 1) - d) + d) - 1 = k
      BY <1>1
  <2> QED BY <1>5, <2>1
<1>7. r = ops \o Tail(q) /\ d = Len(ops) /\ n = Len(q)
    BY DEF r, t, d, n
<1> QED BY <1>1, <1>3, <1>4, <1>5, <1>6, <1>7

LEMMA BoundedStep ==
    ASSUME NEW q \in Seq(Op), q # <<>>, NEW ops \in Seq(Op), NEW S, NEW T, NEW A, NEW B, NEW x,
           Bounded(q, S, A, B, x), Continues(q, ops, S, T)
    PROVE  Bounded(ops \o Tail(q), T, A, B, x)
<1> DEFINE r == ops \o Tail(q)
           d == Len(ops)
           n == Len(q)
           Y == IF Drops(q, 1, x) THEN A ELSE B
<1>1. /\ d \in Nat /\ n \in Nat /\ n >= 1
      /\ DOMAIN r = 1 .. (d + n) - 1 /\ DOMAIN q = 1 .. n /\ DOMAIN ops = 1 .. d
      /\ \A k \in 1 .. d : r[k] = ops[k]
      /\ \A k \in d + 1 .. (d + n) - 1 : (k + 1) - d \in 2 .. n /\ r[k] = q[(k + 1) - d]
      /\ \A k \in 2 .. n : (k + d) - 1 \in d + 1 .. (d + n) - 1 /\ r[(k + d) - 1] = q[k]
      /\ Head(q) = q[1] /\ (ops = <<>> <=> d = 0)
    BY Replaced
<1> HIDE DEF r, n, d
<1>2. ASSUME NEW k \in Nat, k >= 2
      PROVE  Drops(r, (k + d) - 1, x) <=> Drops(q, k, x)
  <2>1. ASSUME Drops(r, (k + d) - 1, x) PROVE Drops(q, k, x)
    <3>1. PICK j \in DOMAIN r : j >= (k + d) - 1 /\ Drop(r[j], x)
        BY <2>1 DEF Drops
    <3>2. j \in d + 1 .. (d + n) - 1 /\ (j + 1) - d >= k
        BY <1>1, <1>2, <3>1
    <3>3. (j + 1) - d \in DOMAIN q /\ r[j] = q[(j + 1) - d]
        BY <1>1, <3>2
    <3> QED BY <3>1, <3>2, <3>3 DEF Drops
  <2>2. ASSUME Drops(q, k, x) PROVE Drops(r, (k + d) - 1, x)
    <3>1. PICK j \in DOMAIN q : j >= k /\ Drop(q[j], x)
        BY <2>2 DEF Drops
    <3>2. j \in 2 .. n /\ (j + d) - 1 >= (k + d) - 1
        BY <1>1, <1>2, <3>1
    <3>3. (j + d) - 1 \in d + 1 .. (d + n) - 1 /\ r[(j + d) - 1] = q[j]
        BY <1>1, <3>2
    <3>4. (j + d) - 1 \in DOMAIN r
        BY <1>1, <3>3
    <3> QED BY <3>1, <3>2, <3>3, <3>4 DEF Drops
  <2> QED BY <2>1, <2>2
<1>3. Drops(q, 1, x) <=> Drop(Head(q), x) \/ Drops(q, 2, x)
  <2>1. ASSUME Drops(q, 1, x) PROVE Drop(Head(q), x) \/ Drops(q, 2, x)
    <3>1. PICK j \in DOMAIN q : j >= 1 /\ Drop(q[j], x)
        BY <2>1 DEF Drops
    <3>2. j = 1 \/ j >= 2
        BY <1>1, <3>1
    <3> QED BY <1>1, <3>1, <3>2 DEF Drops
  <2>2. 1 \in DOMAIN q
      BY <1>1
  <2>3. Drop(Head(q), x) => Drops(q, 1, x)
      BY <1>1, <2>2 DEF Drops
  <2>4. ASSUME Drops(q, 2, x) PROVE Drops(q, 1, x)
    <3>1. PICK j \in DOMAIN q : j >= 2 /\ Drop(q[j], x)
        BY <2>4 DEF Drops
    <3>2. j >= 1
        BY <1>1, <3>1
    <3> QED BY <3>1, <3>2 DEF Drops
  <2> QED BY <2>1, <2>3, <2>4
<1>4. /\ A \ {x} \subseteq B /\ S \subseteq Y
      /\ \A i \in DOMAIN q :
             Fetch(q[i]) => q[i].layer \in IF Drops(q, i, x) THEN A ELSE B
    BY DEF Bounded
<1>5. Fetch(Head(q)) => Head(q).layer \in Y
  <2>1. 1 \in DOMAIN q
      BY <1>1
  <2> QED BY <1>1, <1>4, <2>1
<1>6. T \subseteq Y /\ \A k \in DOMAIN ops : Fetch(ops[k]) => ops[k].layer \in Y
    BY <1>4, <1>5 DEF Continues
<1>7. ASSUME NEW i \in Nat, i >= 1, i <= d \/ i = 1, ~ (Drop(Head(q), x) /\ ops = <<>>)
      PROVE  Drops(r, i, x) <=> Drops(q, 1, x)
  <2>1. Drops(r, d + 1, x) <=> Drops(q, 2, x)
    <3>1. (2 + d) - 1 = d + 1
        BY <1>1
    <3> QED BY <1>2, <3>1
  <2>2. i <= d + 1
      BY <1>1, <1>7
  <2>3. CASE Drop(Head(q), x)
    <3>1. ops # <<>> /\ Drop(ops[Len(ops)], x)
        BY <1>7, <2>3 DEF Continues
    <3>2. d \in 1 .. d /\ d \in 1 .. (d + n) - 1 /\ d >= i
        BY <1>1, <1>7, <3>1
    <3>3. d \in DOMAIN r /\ Drop(r[d], x)
        BY <1>1, <3>1, <3>2 DEF d
    <3>4. Drops(r, i, x)
        BY <3>2, <3>3 DEF Drops
    <3> QED BY <1>3, <2>3, <3>4
  <2>4. CASE ~ Drop(Head(q), x)
    <3>1. ASSUME Drops(r, i, x) PROVE Drops(r, d + 1, x)
      <4>1. PICK j \in DOMAIN r : j >= i /\ Drop(r[j], x)
          BY <3>1 DEF Drops
      <4>2. CASE j <= d
        <5>1. j \in 1 .. d /\ j \in DOMAIN ops
            BY <1>1, <4>1, <4>2
        <5>2. Drop(ops[j], x)
            BY <1>1, <4>1, <5>1
        <5> QED BY <2>4, <5>1, <5>2 DEF Continues
      <4>3. CASE j >= d + 1
          BY <4>1, <4>3 DEF Drops
      <4>4. j <= d \/ j >= d + 1
          BY <1>1, <4>1
      <4> QED BY <4>2, <4>3, <4>4
    <3>2. ASSUME Drops(r, d + 1, x) PROVE Drops(r, i, x)
      <4>1. PICK j \in DOMAIN r : j >= d + 1 /\ Drop(r[j], x)
          BY <3>2 DEF Drops
      <4>2. j >= i
          BY <1>1, <1>7, <2>2, <4>1
      <4> QED BY <4>1, <4>2 DEF Drops
    <3> QED BY <1>3, <2>1, <2>4, <3>1, <3>2
  <2> QED BY <2>3, <2>4
<1>8. T \subseteq IF Drops(r, 1, x) THEN A ELSE B
  <2>1. CASE Drop(Head(q), x) /\ ops = <<>>
    <3>1. Drops(r, 1, x) <=> Drops(q, 2, x)
      <4>1. (2 + d) - 1 = 1
          BY <1>1, <2>1
      <4> QED BY <1>2, <4>1
    <3>2. x \notin T
        BY <2>1 DEF Continues
    <3>3. T \subseteq A
        BY <1>3, <1>6, <2>1
    <3> QED BY <1>4, <3>2, <3>3
  <2>2. CASE ~ (Drop(Head(q), x) /\ ops = <<>>)
      BY <1>6, <1>7, <2>2
  <2> QED BY <2>1, <2>2
<1>9. ASSUME NEW i \in DOMAIN r, Fetch(r[i])
      PROVE  r[i].layer \in IF Drops(r, i, x) THEN A ELSE B
  <2>1. i \in Nat /\ i >= 1 /\ (i <= d \/ i \in d + 1 .. (d + n) - 1)
      BY <1>1
  <2>2. CASE i <= d
    <3>1. i \in DOMAIN ops /\ r[i] = ops[i] /\ ops # <<>>
        BY <1>1, <2>1, <2>2
    <3>2. r[i].layer \in Y
        BY <1>6, <1>9, <3>1
    <3> QED BY <1>7, <2>1, <2>2, <3>1, <3>2
  <2>3. CASE i \in d + 1 .. (d + n) - 1
    <3> DEFINE k == (i + 1) - d
    <3>1. k \in 2 .. n /\ r[i] = q[k]
        BY <1>1, <2>3
    <3>2. k \in Nat /\ k >= 2 /\ (k + d) - 1 = i /\ k \in DOMAIN q
      <4>1. d \in Nat /\ n \in Nat /\ i \in Nat /\ DOMAIN q = 1 .. n
          BY <1>1, <2>1
      <4>2. (k + d) - 1 = i
          BY <4>1
      <4> HIDE DEF k
      <4>3. k \in Nat /\ k >= 2 /\ k \in 1 .. n
          BY <3>1, <4>1
      <4> QED BY <4>1, <4>2, <4>3
    <3>3. Drops(r, i, x) <=> Drops(q, k, x)
      <4> HIDE DEF k
      <4> QED BY <1>2, <3>2
    <3> HIDE DEF k
    <3> QED BY <1>4, <1>9, <3>1, <3>2, <3>3
  <2> QED BY <2>1, <2>2, <2>3
<1> QED BY <1>4, <1>8, <1>9 DEF Bounded, r

LEMMA FedStep ==
    ASSUME NEW q \in Seq(Op), q # <<>>, NEW ops \in Seq(Op), NEW S, NEW T,
           NEW before, NEW after, LayersOnly(q), Fed(q, before),
           Continues(q, ops, S, T), Feeds(q, ops, before, after)
    PROVE  Fed(ops \o Tail(q), after)
<1> DEFINE r == ops \o Tail(q)
           d == Len(ops)
           n == Len(q)
<1>1. /\ d \in Nat /\ n \in Nat /\ n >= 1
      /\ DOMAIN r = 1 .. (d + n) - 1 /\ DOMAIN q = 1 .. n /\ DOMAIN ops = 1 .. d
      /\ \A k \in 1 .. d : r[k] = ops[k]
      /\ \A k \in d + 1 .. (d + n) - 1 : (k + 1) - d \in 2 .. n /\ r[k] = q[(k + 1) - d]
      /\ \A k \in 2 .. n : (k + d) - 1 \in d + 1 .. (d + n) - 1 /\ r[(k + d) - 1] = q[k]
      /\ Head(q) = q[1]
    BY Replaced
<1> HIDE DEF r, n, d
<1> SUFFICES ASSUME NEW j \in DOMAIN r, r[j].op = "kernel"
             PROVE  /\ \A k \in 1 .. j - 1 : ~ Drop(r[k], r[j].layer)
                    /\ \/ after[r[j].layer] = "gpu"
                       \/ \E k \in 1 .. j - 1 : Finish(r[k], r[j].layer)
    BY DEF Fed, r
<1> DEFINE i == (j + 1) - d
           y == r[j].layer
<1>2. j \in d + 1 .. (d + n) - 1
  <2>1. j \in 1 .. d => ops[j].op # "kernel"
      BY <1>1 DEF Feeds
  <2> QED BY <1>1, <2>1
<1>3. i \in 2 .. n /\ r[j] = q[i] /\ i \in DOMAIN q /\ 1 \in 1 .. i - 1
    BY <1>1, <1>2
<1>4. y \in Layers
    BY <1>3 DEF LayersOnly
<1>5. /\ \A k \in 1 .. i - 1 : ~ Drop(q[k], y)
      /\ before[y] = "gpu" \/ \E k \in 1 .. i - 1 : Finish(q[k], y)
  <2> HIDE DEF i
  <2> QED BY <1>3 DEF Fed
<1>6. ~ Drop(Head(q), y)
    BY <1>1, <1>3, <1>5
<1>7. ASSUME NEW k \in 1 .. j - 1 PROVE ~ Drop(r[k], y)
  <2>1. CASE k \in 1 .. d
    <3>1. r[k] = ops[k] /\ k \in DOMAIN ops
        BY <1>1, <2>1
    <3> QED BY <1>6, <3>1 DEF Continues
  <2>2. CASE k \in d + 1 .. (d + n) - 1
    <3>1. (k + 1) - d \in 1 .. i - 1 /\ r[k] = q[(k + 1) - d]
        BY <1>1, <1>2, <2>2
    <3> QED BY <1>5, <3>1
  <2>3. k \in 1 .. d \/ k \in d + 1 .. (d + n) - 1
      BY <1>1, <1>2
  <2> QED BY <2>1, <2>2, <2>3
<1>8. after[y] = "gpu" \/ \E k \in 1 .. j - 1 : Finish(r[k], y)
  <2>1. CASE before[y] = "gpu"
      BY <1>4, <1>6, <2>1 DEF Feeds
  <2>2. CASE \E k \in 1 .. i - 1 : Finish(q[k], y)
    <3>1. PICK k \in 1 .. i - 1 : Finish(q[k], y)
        BY <2>2
    <3>2. CASE k = 1
      <4>1. Finish(Head(q), y)
          BY <1>1, <3>1, <3>2
      <4>2. after[y] = "gpu" \/ \E p \in DOMAIN ops : Finish(ops[p], y)
          BY <1>4, <4>1 DEF Feeds
      <4>3. ASSUME NEW p \in DOMAIN ops, Finish(ops[p], y)
            PROVE  p \in 1 .. j - 1 /\ Finish(r[p], y)
        <5>1. p \in 1 .. d /\ r[p] = ops[p]
            BY <1>1
        <5>2. p \in 1 .. j - 1
            BY <1>1, <1>2, <5>1
        <5> QED BY <4>3, <5>1, <5>2
      <4> QED BY <4>2, <4>3
    <3>3. CASE k \in 2 .. n
      <4>1. (k + d) - 1 \in 1 .. j - 1 /\ r[(k + d) - 1] = q[k]
          BY <1>1, <1>2, <3>1, <3>3
      <4> QED BY <3>1, <4>1
    <3>4. k = 1 \/ k \in 2 .. n
      <4> HIDE DEF i
      <4>1. n \in Nat /\ i \in 2 .. n
          BY <1>1, <1>3
      <4> QED BY ONLY <3>1, <4>1
    <3> QED BY <3>2, <3>3, <3>4
  <2> QED BY <1>5, <2>1, <2>2
<1> QED BY <1>7, <1>8

LEMMA LayersOnlyStep ==
    ASSUME NEW q \in Seq(Op), q # <<>>, NEW ops \in Seq(Op), LayersOnly(q), LayersOnly(ops)
    PROVE  LayersOnly(ops \o Tail(q))
<1> DEFINE r == ops \o Tail(q)
           d == Len(ops)
           n == Len(q)
<1>1. /\ d \in Nat /\ n \in Nat
      /\ DOMAIN r = 1 .. (d + n) - 1 /\ DOMAIN q = 1 .. n /\ DOMAIN ops = 1 .. d
      /\ \A k \in 1 .. d : r[k] = ops[k]
      /\ \A k \in d + 1 .. (d + n) - 1 : (k + 1) - d \in 2 .. n /\ r[k] = q[(k + 1) - d]
    BY Replaced
<1> HIDE DEF r, n, d
<1>2. ASSUME NEW j \in DOMAIN r, r[j].op # "load" PROVE r[j].layer \in Layers
  <2>1. CASE j \in 1 .. d
      BY <1>1, <1>2, <2>1 DEF LayersOnly
  <2>2. CASE j \in d + 1 .. (d + n) - 1
    <3>1. (j + 1) - d \in DOMAIN q /\ r[j] = q[(j + 1) - d]
        BY <1>1, <2>2
    <3> QED BY <1>2, <3>1 DEF LayersOnly
  <2> QED BY <1>1, <2>1, <2>2
<1> QED BY <1>2 DEF LayersOnly, r

(***************************************************************************)
(* The thread's part of the invariant.  When it begins a hook, a layer or  *)
(* two ahead come into the window and the layer x leaves it; in between    *)
(* what is loaded is of the old window until x is dropped and of the new   *)
(* one, which starts at Base, from then on.                                *)
(***************************************************************************)
Loaded == {l \in Layers : status[l] # "cpu"}
Window(a) == {l \in Layers : a <= l /\ l < a + resident}

Base ==
    CASE stage = "forward"  -> layer
      [] stage = "backward" -> (layer + 2) - resident
      [] OTHER              -> 0

WindowInv ==
    \E a, b, x \in Int :
        /\ stage # "failed" => b = Base
        /\ Bounded(todo, Loaded, Window(a), Window(b), x)

\* Once a job is finished every layer is going to be dropped.
EmptyInv == stage = "idle" => \A l \in Layers : Bounded(todo, Loaded, Layers, Layers \ {l}, l)

FedInv == Fed(todo, status)

\* A slot has a layer exactly when the layer has the slot.
Owners ==
    /\ \A l \in Layers : slotOf[l] = NoSlot <=> status[l] = "cpu"
    /\ \A l \in Layers : slotOf[l] # NoSlot => owner[slotOf[l]] = l
    /\ \A s \in Slots : owner[s] # NoLayer => slotOf[owner[s]] = s

ThreadInv == ThreadTyped /\ WindowInv /\ EmptyInv /\ FedInv

\* A step of a hook that does not raise.
GoesOn ==
    \E ops \in Seq(Op) :
        /\ todo' = ops \o Tail(todo) /\ LayersOnly(ops)
        /\ Continues(todo, ops, Loaded, Loaded')
        /\ Feeds(todo, ops, status, status')

LEMMA NoOps ==
    ASSUME NEW q \in Seq(Op), q # <<>>
    PROVE  /\ <<>> \in Seq(Op) /\ LayersOnly(<<>>) /\ DOMAIN <<>> = {}
           /\ <<>> \o Tail(q) = Tail(q)
<1>1. Tail(q) \in Seq(Op)
    OBVIOUS
<1>2. \A t \in Seq(Op) : <<>> \o t = t
    OBVIOUS
<1> QED BY <1>1, <1>2 DEF LayersOnly

\* What a Do is to the predicates on operations.
LEMMA DoIs ==
    ASSUME NEW op \in {"load", "finish", "ensure", "offload", "kernel"}, NEW l \in Int
    PROVE  /\ Do(op, l).op = op /\ Do(op, l).layer = l
           /\ \A y : Drop(Do(op, l), y) <=> op \in {"ensure", "offload"} /\ y = l
           /\ \A y : Finish(Do(op, l), y) <=> op = "finish" /\ y = l
           /\ Fetch(Do(op, l)) <=> op \in {"load", "finish"} /\ l \in Layers
<1>1. Do(op, l).op = op /\ Do(op, l).layer = l
    BY DoTyped
<1> QED BY <1>1 DEF Drop, Finish, Fetch

LEMMA OneOp ==
    ASSUME NEW o \in Op, o.op # "load" => o.layer \in Layers
    PROVE  /\ <<o>> \in Seq(Op) /\ LayersOnly(<<o>>) /\ <<o>> # <<>>
           /\ DOMAIN <<o>> = {1} /\ <<o>>[1] = o /\ Len(<<o>>) = 1
BY DEF LayersOnly

LEMMA TwoOps ==
    ASSUME NEW o \in Op, NEW p \in Op, o.op # "load" => o.layer \in Layers,
           p.op # "load" => p.layer \in Layers
    PROVE  /\ <<o, p>> \in Seq(Op) /\ LayersOnly(<<o, p>>) /\ <<o, p>> # <<>>
           /\ DOMAIN <<o, p>> = {1, 2} /\ <<o, p>>[1] = o /\ <<o, p>>[2] = p
           /\ Len(<<o, p>>) = 2
BY DEF LayersOnly

\* The head of the hook, as an operation on a layer.
LEMMA HeadIs ==
    ASSUME Typed, todo # <<>>, NEW op, NEW l, Head(todo).op = op, Head(todo).layer = l
    PROVE  /\ \A y : Drop(Head(todo), y) <=> op \in {"ensure", "offload"} /\ y = l
           /\ \A y : Finish(Head(todo), y) <=> op = "finish" /\ y = l
           /\ Fetch(Head(todo)) <=> op \in {"load", "finish"} /\ l \in Layers
BY DEF Drop, Finish, Fetch

LEMMA SkipsGoesOn ==
    ASSUME Sizes, Typed, todo # <<>>, NEW op, NEW l, Head(todo).op = op, Head(todo).layer = l,
           Skips(op, l)
    PROVE  GoesOn
<1>1. /\ todo \in Seq(Op) /\ status' = status
    BY DEF Typed, ThreadTyped, Skips, Others, layerVars
<1>2. Loaded' = Loaded
    BY <1>1 DEF Loaded
<1>3. op \in {"ensure", "offload"} => l \in Layers /\ status[l] = "cpu" /\ l \notin Loaded
    BY DEF Skips, Loaded
<1>4. op = "finish" => l \in Layers /\ status[l] = "gpu"
    BY DEF Skips
<1>5. /\ \A y : Drop(Head(todo), y) <=> op \in {"ensure", "offload"} /\ y = l
      /\ \A y : Finish(Head(todo), y) <=> op = "finish" /\ y = l
    BY HeadIs
<1>6. /\ <<>> \in Seq(Op) /\ LayersOnly(<<>>) /\ DOMAIN <<>> = {}
      /\ todo' = <<>> \o Tail(todo)
    BY <1>1, NoOps DEF Skips
<1>7. Continues(todo, <<>>, Loaded, Loaded')
    BY <1>2, <1>3, <1>5, <1>6 DEF Continues
<1>8. Feeds(todo, <<>>, status, status')
    BY <1>1, <1>4, <1>5, <1>6 DEF Feeds
<1> QED BY <1>6, <1>7, <1>8 DEF GoesOn

LEMMA LoadsFirstGoesOn ==
    ASSUME Sizes, Typed, todo # <<>>, NEW op, NEW l, Head(todo).op = op, Head(todo).layer = l,
           LoadsFirst(op, l)
    PROVE  GoesOn
<1> DEFINE o == Do("load", l)
           p == Do("finish", l)
           ops == <<o, p>>
<1>1. op = "finish" /\ l \in Layers /\ l \in Int /\ status' = status
      /\ todo' = ops \o Tail(todo)
    BY LayerFacts DEF LoadsFirst, Replaces, Others, layerVars
<1>2. Loaded' = Loaded
    BY <1>1 DEF Loaded
<1>3. /\ o \in Op /\ o.op = "load" /\ o.layer = l /\ p \in Op /\ p.op = "finish" /\ p.layer = l
    BY <1>1, DoTyped
<1>4. /\ \A y : ~ Drop(o, y) /\ ~ Drop(p, y)
      /\ Finish(p, l)
    BY <1>3 DEF Drop, Finish
<1>5. /\ \A y : ~ Drop(Head(todo), y)
      /\ \A y : Finish(Head(todo), y) <=> y = l
      /\ Fetch(Head(todo))
    BY <1>1, HeadIs
<1> HIDE DEF o, p
<1>6. /\ ops \in Seq(Op) /\ LayersOnly(ops) /\ ops # <<>>
      /\ DOMAIN ops = {1, 2} /\ ops[1] = o /\ ops[2] = p
    BY <1>1, <1>3, TwoOps
<1> HIDE DEF ops
<1>7. Continues(todo, ops, Loaded, Loaded')
    BY <1>2, <1>3, <1>4, <1>5, <1>6 DEF Continues
<1>8. Feeds(todo, ops, status, status')
    BY <1>1, <1>3, <1>4, <1>5, <1>6 DEF Feeds
<1> QED BY <1>1, <1>6, <1>7, <1>8 DEF GoesOn

LEMMA WaitsFirstGoesOn ==
    ASSUME Sizes, Typed, todo # <<>>, NEW op, NEW l, Head(todo).op = op, Head(todo).layer = l,
           WaitsFirst(op, l)
    PROVE  GoesOn
<1> DEFINE o == Do("finish", l)
           p == Do("offload", l)
           ops == <<o, p>>
<1>1. op \in {"ensure", "offload"} /\ l \in Layers /\ l \in Int /\ status' = status
      /\ todo' = ops \o Tail(todo) /\ status[l] = "loading"
    BY LayerFacts DEF WaitsFirst, Replaces, Others, layerVars
<1>2. Loaded' = Loaded /\ l \in Loaded
    BY <1>1 DEF Loaded
<1>3. /\ o \in Op /\ o.op = "finish" /\ o.layer = l
      /\ p \in Op /\ p.op = "offload" /\ p.layer = l
    BY <1>1, DoTyped
<1>4. /\ \A y : ~ Drop(o, y)
      /\ \A y : Drop(p, y) <=> y = l
      /\ ~ Fetch(p)
    BY <1>3 DEF Drop, Fetch
<1>5. /\ \A y : Drop(Head(todo), y) <=> y = l
      /\ \A y : ~ Finish(Head(todo), y)
    BY <1>1, HeadIs
<1> HIDE DEF o, p
<1>6. /\ ops \in Seq(Op) /\ LayersOnly(ops) /\ ops # <<>>
      /\ DOMAIN ops = {1, 2} /\ ops[1] = o /\ ops[2] = p /\ Len(ops) = 2
    BY <1>1, <1>3, TwoOps
<1> HIDE DEF ops
<1>7. Continues(todo, ops, Loaded, Loaded')
    BY <1>2, <1>3, <1>4, <1>5, <1>6 DEF Continues
<1>8. Feeds(todo, ops, status, status')
    BY <1>1, <1>3, <1>5, <1>6 DEF Feeds
<1> QED BY <1>1, <1>6, <1>7, <1>8 DEF GoesOn

LEMMA OffloadsNextGoesOn ==
    ASSUME Sizes, Typed, todo # <<>>, NEW op, NEW l, Head(todo).op = op, Head(todo).layer = l,
           OffloadsNext(op, l)
    PROVE  GoesOn
<1> DEFINE o == Do("offload", l)
           ops == <<o>>
<1>1. op = "ensure" /\ l \in Layers /\ l \in Int /\ status' = status
      /\ todo' = ops \o Tail(todo)
    BY LayerFacts DEF OffloadsNext, Replaces, Others, layerVars
<1>2. Loaded' = Loaded
    BY <1>1 DEF Loaded
<1>3. o \in Op /\ o.op = "offload" /\ o.layer = l
    BY <1>1, DoTyped
<1>4. ~ Fetch(o) /\ \A y : Drop(o, y) <=> y = l
    BY <1>3 DEF Drop, Fetch
<1>5. /\ \A y : Drop(Head(todo), y) <=> y = l
      /\ \A y : ~ Finish(Head(todo), y)
    BY <1>1, HeadIs
<1> HIDE DEF o
<1>6. /\ ops \in Seq(Op) /\ LayersOnly(ops) /\ ops # <<>>
      /\ DOMAIN ops = {1} /\ ops[1] = o /\ Len(ops) = 1
    BY <1>1, <1>3, OneOp
<1> HIDE DEF ops
<1>7. Continues(todo, ops, Loaded, Loaded')
    BY <1>2, <1>3, <1>4, <1>5, <1>6 DEF Continues
<1>8. Feeds(todo, ops, status, status')
    BY <1>1, <1>3, <1>5, <1>6 DEF Feeds
<1> QED BY <1>1, <1>6, <1>7, <1>8 DEF GoesOn

\* The steps that only take the head.
LEMMA ChangeGoesOn ==
    ASSUME Sizes, Typed, todo # <<>>, NEW op, NEW l, Head(todo).op = op, Head(todo).layer = l,
           \/ \E s \in Slots : Requests(op, l, s)
           \/ Finishes(op, l) \/ Offloads(op, l) \/ Launches(op, l)
    PROVE  GoesOn
<1>1. todo \in Seq(Op) /\ status \in [Layers -> {"cpu", "loading", "gpu"}] /\ l \in Layers
      /\ todo' = Tail(todo)
    BY DEF Typed, ThreadTyped, LayersTyped, Requests, Finishes, Offloads, Launches
<1>2. /\ \A y : Drop(Head(todo), y) <=> op \in {"ensure", "offload"} /\ y = l
      /\ \A y : Finish(Head(todo), y) <=> op = "finish" /\ y = l
      /\ Fetch(Head(todo)) <=> op \in {"load", "finish"}
    BY <1>1, HeadIs
<1>3. /\ <<>> \in Seq(Op) /\ LayersOnly(<<>>) /\ DOMAIN <<>> = {}
      /\ todo' = <<>> \o Tail(todo)
    BY <1>1, NoOps
<1>4. \/ /\ op = "load" /\ status[l] = "cpu" /\ status' = [status EXCEPT ![l] = "loading"]
         /\ Loaded' = Loaded \cup {l}
      \/ /\ op = "finish" /\ status[l] = "loading" /\ status' = [status EXCEPT ![l] = "gpu"]
         /\ Loaded' = Loaded
      \/ /\ op = "offload" /\ status' = [status EXCEPT ![l] = "cpu"]
         /\ Loaded' = Loaded \ {l}
      \/ op = "kernel" /\ status' = status /\ Loaded' = Loaded
  <2>1. CASE \E s \in Slots : Requests(op, l, s)
    <3>1. op = "load" /\ status[l] = "cpu" /\ status' = [status EXCEPT ![l] = "loading"]
        BY <2>1 DEF Requests
    <3> QED BY <1>1, <3>1 DEF Loaded
  <2>2. CASE Finishes(op, l)
    <3>1. op = "finish" /\ status[l] = "loading" /\ status' = [status EXCEPT ![l] = "gpu"]
        BY <2>2 DEF Finishes
    <3> QED BY <1>1, <3>1 DEF Loaded
  <2>3. CASE Offloads(op, l)
    <3>1. op = "offload" /\ status' = [status EXCEPT ![l] = "cpu"]
        BY <2>3 DEF Offloads
    <3> QED BY <1>1, <3>1 DEF Loaded
  <2>4. CASE Launches(op, l)
    <3>1. op = "kernel" /\ status' = status
        BY <2>4 DEF Launches, layerVars
    <3> QED BY <3>1 DEF Loaded
  <2> QED BY <2>1, <2>2, <2>3, <2>4
<1>5. Continues(todo, <<>>, Loaded, Loaded')
    BY <1>2, <1>3, <1>4 DEF Continues
<1>6. Feeds(todo, <<>>, status, status')
    BY <1>1, <1>2, <1>3, <1>4 DEF Feeds
<1> QED BY <1>3, <1>5, <1>6 DEF GoesOn

LEMMA StepGoesOn ==
    ASSUME Sizes, Typed, todo # <<>>, NEW op, NEW l, Head(todo).op = op, Head(todo).layer = l,
           HookStep(op, l)
    PROVE  Raises(op, l) \/ (GoesOn /\ UNCHANGED threadVars)
<1>1. Raises(op, l) \/ UNCHANGED threadVars
    BY DEF HookStep, Skips, LoadsFirst, WaitsFirst, OffloadsNext, Requests, Finishes, Offloads,
           Launches, Replaces, Others
<1>2. Skips(op, l) => GoesOn
    BY SkipsGoesOn
<1>3. LoadsFirst(op, l) => GoesOn
    BY LoadsFirstGoesOn
<1>4. WaitsFirst(op, l) => GoesOn
    BY WaitsFirstGoesOn
<1>5. OffloadsNext(op, l) => GoesOn
    BY OffloadsNextGoesOn
<1> DEFINE Change == \/ \E s \in Slots : Requests(op, l, s)
                     \/ Finishes(op, l) \/ Offloads(op, l) \/ Launches(op, l)
<1>6. Change => GoesOn
    BY ChangeGoesOn
<1>7. \/ Raises(op, l) \/ Skips(op, l) \/ LoadsFirst(op, l) \/ WaitsFirst(op, l)
      \/ OffloadsNext(op, l) \/ Change
    BY DEF HookStep
<1> HIDE DEF Change
<1>8. Raises(op, l) \/ GoesOn
    BY <1>2, <1>3, <1>4, <1>5, <1>6, <1>7
<1> QED BY <1>1, <1>8

LEMMA WindowKept ==
    ASSUME NEW a, resident' = resident PROVE Window(a)' = Window(a)
BY DEF Window

LEMMA GoesOnThread ==
    ASSUME Sizes, Typed, ThreadInv, todo # <<>>, GoesOn, UNCHANGED threadVars
    PROVE  ThreadInv'
<1>1. /\ UNCHANGED <<resident, stage, layer, grads>>
      /\ todo \in Seq(Op) /\ LayersOnly(todo)
    BY DEF threadVars, ThreadInv, ThreadTyped
<1>2. PICK ops \in Seq(Op) :
          /\ todo' = ops \o Tail(todo) /\ LayersOnly(ops)
          /\ Continues(todo, ops, Loaded, Loaded')
          /\ Feeds(todo, ops, status, status')
    BY DEF GoesOn
<1>3. ThreadTyped'
  <2>1. todo' \in Seq(Op)
      BY <1>1, <1>2, Replaced
  <2>2. LayersOnly(todo')
      BY <1>1, <1>2, LayersOnlyStep
  <2> QED BY <1>1, <2>1, <2>2 DEF ThreadInv, ThreadTyped
<1>4. WindowInv'
  <2>1. PICK a, b, x \in Int :
            /\ stage # "failed" => b = Base
            /\ Bounded(todo, Loaded, Window(a), Window(b), x)
      BY DEF ThreadInv, WindowInv
  <2>2. Bounded(todo', Loaded', Window(a), Window(b), x)
      BY <1>1, <1>2, <2>1, BoundedStep
  <2>3. Window(a)' = Window(a) /\ Window(b)' = Window(b) /\ Base' = Base
      BY <1>1, WindowKept DEF Base
  <2>4. Bounded(todo, Loaded, Window(a), Window(b), x)'
      BY <2>2, <2>3
  <2> QED BY <1>1, <2>1, <2>3, <2>4 DEF WindowInv
<1>5. EmptyInv'
  <2>1. ASSUME stage = "idle", NEW l \in Layers
        PROVE  Bounded(todo', Loaded', Layers, Layers \ {l}, l)
    <3>1. Bounded(todo, Loaded, Layers, Layers \ {l}, l)
        BY <2>1 DEF ThreadInv, EmptyInv
    <3> QED BY <1>1, <1>2, <3>1, BoundedStep
  <2> QED BY <1>1, <2>1 DEF EmptyInv
<1>6. FedInv'
    BY <1>1, <1>2, FedStep DEF ThreadInv, FedInv
<1> QED BY <1>3, <1>4, <1>5, <1>6 DEF ThreadInv

(***************************************************************************)
(* The thread between two hooks.                                           *)
(***************************************************************************)
LEMMA BaseTyped ==
    ASSUME Sizes, ThreadTyped
    PROVE  Base \in Int /\ layer \in Int /\ resident \in Nat /\ resident >= 1
BY SizesUsed, LayerFacts DEF ThreadTyped, Base

\* In no hook, what is loaded is of the window.
LEMMA AtRest ==
    ASSUME ThreadInv, Free
    PROVE  Loaded \subseteq Window(Base)
<1>1. PICK a, b, x \in Int : b = Base /\ Bounded(todo, Loaded, Window(a), Window(b), x)
    BY DEF ThreadInv, WindowInv, Free
<1>2. ~ Drops(todo, 1, x)
    BY DEF Drops, Free
<1> QED BY <1>1, <1>2 DEF Bounded

LEMMA NewWindow ==
    ASSUME Sizes, ThreadInv, Free, resident' = resident, status' = status,
           NEW x \in Int, NEW c \in Int, stage' # "failed" => Base' = c,
           Window(Base) \ {x} \subseteq Window(c),
           Drops(todo', 1, x) \/ Window(Base) \subseteq Window(c),
           \A i \in DOMAIN todo' : Fetch(todo'[i]) =>
               todo'[i].layer \in IF Drops(todo', i, x) THEN Window(Base) ELSE Window(c)
    PROVE  WindowInv'
<1>1. Base \in Int
    BY BaseTyped DEF ThreadInv
<1> DEFINE a == Base
<1>2. Loaded' = Loaded /\ Loaded \subseteq Window(a)
    BY AtRest DEF Loaded
<1>3. Bounded(todo', Loaded', Window(a), Window(c), x)
    BY <1>2 DEF Bounded
<1>4. \E d \in Int : Bounded(todo', Loaded', Window(d)', Window(c)', x)
  <2>1. PICK d \in Int : d = a
      BY <1>1
  <2>2. Window(d)' = Window(a) /\ Window(c)' = Window(c)
      BY <2>1, WindowKept
  <2> QED BY <1>3, <2>2
<1> QED BY <1>4 DEF WindowInv

LEMMA BeginJobThread ==
    ASSUME Sizes, Typed, ThreadInv, BeginJob
    PROVE  ThreadInv'
<1> DEFINE q == Prefetch(0, 1, resident)
<1>1. /\ Free /\ stage = "idle" /\ stage' = "between" /\ todo' = q
      /\ resident' = resident /\ layer' = layer /\ grads' = grads /\ status' = status
    BY DEF BeginJob, layerVars
<1>2. resident \in Nat /\ resident >= 1 /\ NumLayers \in Nat
    BY SizesUsed DEF ThreadInv, ThreadTyped
<1>3. /\ q \in Seq(Op) /\ DOMAIN q = 1 .. resident
      /\ \A i \in 1 .. resident : q[i].op = "load" /\ q[i].layer = i - 1
  <2>1. /\ q \in Seq(Op) /\ Len(q) = resident
        /\ \A i \in 1 .. resident : q[i] = Do("load", 0 + (i - 1))
      BY <1>2, PrefetchForth
  <2>2. \A i \in 1 .. resident : 0 + (i - 1) = i - 1 /\ i - 1 \in Int
      BY <1>2
  <2>3. \A i \in 1 .. resident : q[i] = Do("load", i - 1)
      BY <2>1, <2>2
  <2>4. DOMAIN q = 1 .. Len(q)
      BY <2>1
  <2> HIDE DEF q
  <2> QED BY <2>1, <2>2, <2>3, <2>4, DoTyped
<1> HIDE DEF q
<1>4. ThreadTyped'
    BY <1>1, <1>3 DEF ThreadInv, ThreadTyped, LayersOnly
<1>5. WindowInv'
  <2>1. Base = 0 /\ Base' = 0
      BY <1>1 DEF Base
  <2>2. \A i \in DOMAIN q : Fetch(q[i]) => q[i].layer \in Window(0)
      BY <1>2, <1>3 DEF Fetch, Window
  <2>3. \A i \in DOMAIN todo' : Fetch(todo'[i]) =>
            todo'[i].layer \in IF Drops(todo', i, 0) THEN Window(Base) ELSE Window(0)
      BY <1>1, <2>1, <2>2
  <2> QED BY <1>1, <2>1, <2>3, NewWindow
<1>6. EmptyInv'
    BY <1>1 DEF EmptyInv
<1>7. FedInv'
    BY <1>1, <1>3 DEF FedInv, Fed
<1> QED BY <1>4, <1>5, <1>6, <1>7 DEF ThreadInv

LEMMA BeginPassThread ==
    ASSUME Sizes, Typed, ThreadInv, BeginPass
    PROVE  ThreadInv'
<1>1. /\ Free /\ stage = "between" /\ stage' = "forward" /\ layer' = 0 /\ grads' \in BOOLEAN
      /\ resident' = resident /\ todo' = todo /\ todo = <<>> /\ status' = status
    BY DEF BeginPass, layerVars, Free
<1>2. 0 \in Layers
    BY DEF Sizes, Layers
<1>3. ThreadTyped'
    BY <1>1, <1>2 DEF ThreadInv, ThreadTyped, LayersOnly
<1>4. WindowInv'
  <2>1. Base = 0 /\ Base' = 0
      BY <1>1 DEF Base
  <2>2. DOMAIN todo' = {}
      BY <1>1
  <2> QED BY <1>1, <2>1, <2>2, NewWindow
<1>5. EmptyInv'
    BY <1>1 DEF EmptyInv
<1>6. FedInv'
    BY <1>1 DEF FedInv, Fed
<1> QED BY <1>3, <1>4, <1>5, <1>6 DEF ThreadInv

LEMMA FinishJobThread ==
    ASSUME Sizes, Typed, ThreadInv, FinishJob
    PROVE  ThreadInv'
<1> DEFINE q == EnsureOffloaded(0)
<1>1. /\ Free /\ stage = "between" /\ stage' = "idle" /\ todo' = q
      /\ resident' = resident /\ layer' = layer /\ grads' = grads /\ status' = status
    BY DEF FinishJob, layerVars
<1>2. NumLayers \in Nat /\ \A l \in Layers : l \in Int /\ 0 <= l /\ l < NumLayers
    BY LayerFacts DEF Sizes
<1>3. /\ q \in Seq(Op) /\ DOMAIN q = 1 .. NumLayers
      /\ \A i \in 1 .. NumLayers : q[i].op = "ensure" /\ q[i].layer = i - 1
  <2>1. /\ q \in Seq(Op) /\ Len(q) = NumLayers - 0
        /\ \A i \in 1 .. NumLayers - 0 : q[i] = Do("ensure", 0 + i - 1)
    <3>1. 0 \in Nat /\ 0 <= NumLayers
        BY <1>2
    <3> QED BY <3>1, EnsureIs
  <2>2. /\ NumLayers - 0 = NumLayers
        /\ \A i \in 1 .. NumLayers : 0 + i - 1 = i - 1 /\ i - 1 \in Int
      BY <1>2
  <2>3. \A i \in 1 .. NumLayers : q[i] = Do("ensure", i - 1)
      BY <2>1, <2>2
  <2>4. DOMAIN q = 1 .. Len(q)
      BY <2>1
  <2> HIDE DEF q
  <2> QED BY <2>1, <2>2, <2>3, <2>4, DoTyped
<1> HIDE DEF q
<1>4. \A i \in DOMAIN q : ~ Fetch(q[i])
    BY <1>3 DEF Fetch
<1>5. ThreadTyped'
  <2>1. LayersOnly(q)
    <3>1. \A i \in 1 .. NumLayers : i - 1 \in Layers
        BY <1>2 DEF Layers
    <3> QED BY <1>3, <3>1 DEF LayersOnly
  <2> QED BY <1>1, <1>3, <2>1 DEF ThreadInv, ThreadTyped
<1>6. WindowInv'
  <2>1. Base = 0 /\ Base' = 0
      BY <1>1 DEF Base
  <2> QED BY <1>1, <1>4, <2>1, NewWindow
<1>7. EmptyInv'
  <2>1. ASSUME NEW l \in Layers
        PROVE  Bounded(q, Loaded', Layers, Layers \ {l}, l)
    <3>1. l + 1 \in 1 .. NumLayers /\ l + 1 >= 1 /\ (l + 1) - 1 = l
        BY <1>2
    <3>2. Drops(q, 1, l)
        BY <1>3, <3>1 DEF Drops, Drop
    <3>3. Loaded' \subseteq Layers
        BY DEF Loaded
    <3> QED BY <1>4, <3>2, <3>3 DEF Bounded
  <2> QED BY <1>1, <2>1 DEF EmptyInv
<1>8. FedInv'
    BY <1>1, <1>3 DEF FedInv, Fed
<1> QED BY <1>5, <1>6, <1>7, <1>8 DEF ThreadInv

LEMMA GoForwardThread ==
    ASSUME Sizes, Typed, ThreadInv, GoForward
    PROVE  ThreadInv'
<1> DEFINE q == Forward(layer)
           n == resident
           l == layer
<1>1. /\ Free /\ stage = "forward" /\ todo' = q
      /\ \/ l < NumLayers - 1 /\ layer' = l + 1 /\ stage' = "forward"
         \/ ~ (l < NumLayers - 1) /\ layer' = l /\ stage' \in {"backward", "between"}
      /\ resident' = resident /\ grads' = grads /\ status' = status
    BY DEF GoForward, layerVars
<1>2. /\ n \in Nat /\ n >= 1 /\ NumLayers \in Nat /\ l \in Layers /\ l \in Int
      /\ 0 <= l /\ l < NumLayers
      /\ \A y : y \in Layers <=> y \in Int /\ 0 <= y /\ y < NumLayers
    BY SizesUsed, LayerFacts DEF ThreadInv, ThreadTyped
<1>3. /\ q \in Seq(Op) /\ DOMAIN q = 1 .. n + 3
      /\ q[1] = Do("finish", l)
      /\ \A p \in 2 .. n : q[p] = Do("load", l + p - 1)
      /\ q[n + 1] = Do("kernel", l) /\ q[n + 2] = Do("offload", l)
      /\ q[n + 3] = Do("load", l + n)
  <2>1. resident \in Residents /\ layer \in Layers
      BY DEF ThreadInv, ThreadTyped
  <2> QED BY <2>1, ForwardIs
<1> HIDE DEF q
<1>4. /\ q[1].op = "finish" /\ q[1].layer = l
      /\ \A p \in 2 .. n : q[p].op = "load" /\ q[p].layer = l + p - 1
      /\ q[n + 1].op = "kernel" /\ q[n + 1].layer = l
      /\ q[n + 2].op = "offload" /\ q[n + 2].layer = l
      /\ q[n + 3].op = "load" /\ q[n + 3].layer = l + n
  <2>1. l + n \in Int /\ \A p \in 2 .. n : l + p - 1 \in Int
      BY <1>2
  <2> HIDE DEF l, n
  <2>2. q[1].op = "finish" /\ q[1].layer = l
      BY <1>2, <1>3, DoTyped
  <2>3. \A p \in 2 .. n : q[p].op = "load" /\ q[p].layer = l + p - 1
      BY <1>3, <2>1, DoTyped
  <2>4. q[n + 1].op = "kernel" /\ q[n + 1].layer = l
      BY <1>2, <1>3, DoTyped
  <2>5. q[n + 2].op = "offload" /\ q[n + 2].layer = l
      BY <1>2, <1>3, DoTyped
  <2>6. q[n + 3].op = "load" /\ q[n + 3].layer = l + n
      BY <1>3, <2>1, DoTyped
  <2> QED BY <2>2, <2>3, <2>4, <2>5, <2>6
<1> HIDE DEF l, n
<1>5. \A i \in DOMAIN q : i = 1 \/ i \in 2 .. n \/ i = n + 1 \/ i = n + 2 \/ i = n + 3
  <2>1. DOMAIN q = 1 .. n + 3 /\ n \in Nat
      BY <1>2, <1>3
  <2>2. \A i \in 1 .. n + 3 : i = 1 \/ i \in 2 .. n \/ i = n + 1 \/ i = n + 2 \/ i = n + 3
      BY ONLY <2>1
  <2> QED BY ONLY <2>1, <2>2
<1>6. ThreadTyped'
  <2>1. LayersOnly(q)
      BY <1>2, <1>4, <1>5 DEF LayersOnly
  <2>2. layer' \in Layers
      BY <1>1, <1>2
  <2> QED BY <1>1, <1>3, <2>1, <2>2 DEF ThreadInv, ThreadTyped
<1>7. WindowInv'
  <2>1. Base = l
      BY <1>1 DEF Base, l
  <2>2. PICK c \in Int : c = Base'
      BY <1>1, <1>2 DEF Base, l, n
  <2>3. l < NumLayers - 1 => c = l + 1
      BY <1>1, <2>2 DEF Base
  <2>4. \A y : y \in Window(l) => y \in Layers /\ y \in Int /\ l <= y /\ y < l + n
      BY <1>2 DEF Window, n
  <2>5. Window(l) \ {l} \subseteq Window(c)
    <3> SUFFICES ASSUME NEW y \in Window(l), y # l PROVE y \in Window(c)
        OBVIOUS
    <3>1. y \in Int /\ l < y /\ y < NumLayers /\ y < l + n
        BY <1>2, <2>4
    <3>2. c = l + 1
        BY <1>2, <2>3, <3>1
    <3> QED BY <1>2, <2>4, <3>1, <3>2 DEF Window, n
  <2>6. ASSUME NEW i \in DOMAIN q, i <= n + 2 PROVE Drops(q, i, l)
    <3>1. n + 2 \in DOMAIN q /\ n + 2 >= i
        BY <1>2, <1>3, <2>6
    <3> QED BY <1>4, <3>1 DEF Drops, Drop
  <2>7. ASSUME NEW i \in DOMAIN q, Fetch(q[i])
        PROVE  q[i].layer \in IF Drops(q, i, l) THEN Window(l) ELSE Window(c)
    <3>1. CASE i = n + 3
      <4>1. q[i].layer = l + n /\ l + n \in Layers
          BY <1>4, <2>7, <3>1 DEF Fetch
      <4>2. l < NumLayers - 1 /\ c = l + 1
          BY <1>2, <2>3, <4>1
      <4>3. l + n \in Window(c)
          BY <1>2, <4>1, <4>2 DEF Window, n
      <4>4. ~ Drops(q, i, l)
        <5>1. \A k \in DOMAIN q : k >= n + 3 => k = n + 3
          <6>1. DOMAIN q = 1 .. n + 3 /\ n \in Nat
              BY <1>2, <1>3
          <6> QED BY ONLY <6>1
        <5> QED BY <1>4, <3>1, <5>1 DEF Drops, Drop
      <4> QED BY <4>1, <4>3, <4>4
    <3>2. CASE i # n + 3
      <4>1. q[i].layer \in Layers /\ (q[i].layer = l \/ \E p \in 2 .. n : q[i].layer = l + p - 1)
          BY <1>4, <1>5, <2>7, <3>2 DEF Fetch
      <4>2. q[i].layer \in Window(l)
          BY <1>2, <4>1 DEF Window, n
      <4>3. i <= n + 2
          BY <1>2, <1>3, <3>2
      <4> QED BY <2>6, <4>2, <4>3
    <3> QED BY <3>1, <3>2
  <2>8. Drops(q, 1, l)
    <3>1. 1 \in DOMAIN q /\ 1 <= n + 2
        BY <1>2, <1>3
    <3> QED BY <2>6, <3>1
  <2> QED BY <1>1, <1>2, <2>1, <2>2, <2>5, <2>7, <2>8, NewWindow
<1>8. EmptyInv'
    BY <1>1 DEF EmptyInv
<1>9. FedInv'
  <2>1. ASSUME NEW i \in DOMAIN q, q[i].op = "kernel"
        PROVE  i = n + 1
      BY <1>4, <1>5, <2>1
  <2>2. \A k \in 1 .. (n + 1) - 1 : k = 1 \/ k \in 2 .. n
      BY <1>2
  <2>3. \A k \in 1 .. (n + 1) - 1 : ~ Drop(q[k], l)
      BY <1>4, <2>2 DEF Drop
  <2>4. 1 \in 1 .. (n + 1) - 1 /\ Finish(q[1], l)
      BY <1>2, <1>4 DEF Finish
  <2>5. Fed(q, status)
      BY <1>4, <2>1, <2>3, <2>4 DEF Fed
  <2> QED BY <1>1, <2>5 DEF FedInv
<1> QED BY <1>6, <1>7, <1>8, <1>9 DEF ThreadInv

LEMMA GoBackwardThread ==
    ASSUME Sizes, Typed, ThreadInv, GoBackward
    PROVE  ThreadInv'
<1> DEFINE q == Backward(layer)
           n == resident
           l == layer
           m == NumLayers - (l + 1)
           x == l + 1
           a == (l + 2) - n
<1>1. /\ Free /\ stage = "backward" /\ todo' = q
      /\ \/ l > 0 /\ layer' = l - 1 /\ stage' = "backward"
         \/ ~ (l > 0) /\ layer' = l /\ stage' = "between"
      /\ resident' = resident /\ grads' = grads /\ status' = status
    BY DEF GoBackward, layerVars
<1>2. /\ n \in Nat /\ n >= 1 /\ NumLayers \in Nat /\ l \in Layers /\ l \in Int
      /\ 0 <= l /\ l < NumLayers
      /\ \A y : y \in Layers <=> y \in Int /\ 0 <= y /\ y < NumLayers
    BY SizesUsed, LayerFacts DEF ThreadInv, ThreadTyped
<1>3. /\ m \in Nat /\ q \in Seq(Op) /\ DOMAIN q = 1 .. m + n + 1
      /\ \A p \in 1 .. m : q[p] = Do("ensure", l + p)
      /\ q[m + 1] = Do("finish", l)
      /\ \A p \in m + 2 .. m + n : q[p] = Do("load", l + 1 + m - p)
      /\ q[m + n + 1] = Do("kernel", l)
  <2>1. resident \in Residents /\ layer \in Layers
      BY DEF ThreadInv, ThreadTyped
  <2> QED BY <2>1, BackwardIs
<1> HIDE DEF q
<1>4. /\ \A p \in 1 .. m : q[p].op = "ensure" /\ q[p].layer = l + p
      /\ q[m + 1].op = "finish" /\ q[m + 1].layer = l
      /\ \A p \in m + 2 .. m + n : q[p].op = "load" /\ q[p].layer = l + 1 + m - p
      /\ q[m + n + 1].op = "kernel" /\ q[m + n + 1].layer = l
  <2>1. /\ \A p \in 1 .. m : l + p \in Int
        /\ \A p \in m + 2 .. m + n : l + 1 + m - p \in Int
      BY <1>2, <1>3
  <2> HIDE DEF l, n, m
  <2>2. \A p \in 1 .. m : q[p].op = "ensure" /\ q[p].layer = l + p
      BY <1>3, <2>1, DoTyped
  <2>3. q[m + 1].op = "finish" /\ q[m + 1].layer = l
    <3>1. q[m + 1] = Do("finish", l) /\ l \in Int
        BY <1>2, <1>3
    <3> QED BY ONLY <3>1, DoTyped
  <2>4. \A p \in m + 2 .. m + n : q[p].op = "load" /\ q[p].layer = l + 1 + m - p
      BY <1>3, <2>1, DoTyped
  <2>5. q[m + n + 1].op = "kernel" /\ q[m + n + 1].layer = l
    <3>1. q[m + n + 1] = Do("kernel", l) /\ l \in Int
        BY <1>2, <1>3
    <3> QED BY ONLY <3>1, DoTyped
  <2> QED BY <2>2, <2>3, <2>4, <2>5
<1>5. l + m = NumLayers - 1
    BY <1>2
<1> HIDE DEF l, n, m
<1>6. \A i \in DOMAIN q : i \in 1 .. m \/ i = m + 1 \/ i \in m + 2 .. m + n \/ i = m + n + 1
  <2>1. DOMAIN q = 1 .. m + n + 1 /\ m \in Nat /\ n \in Nat
      BY <1>2, <1>3
  <2>2. \A i \in 1 .. m + n + 1 :
            i \in 1 .. m \/ i = m + 1 \/ i \in m + 2 .. m + n \/ i = m + n + 1
      BY ONLY <2>1
  <2> QED BY ONLY <2>1, <2>2
<1>7. ThreadTyped'
  <2>1. \A p \in 1 .. m : l + p \in Layers
      BY <1>2, <1>3, <1>5
  <2>2. LayersOnly(q)
      BY <1>2, <1>4, <1>6, <2>1 DEF LayersOnly
  <2>3. layer' \in Layers
      BY <1>1, <1>2
  <2> QED BY <1>1, <1>3, <2>2, <2>3 DEF ThreadInv, ThreadTyped
<1>8. WindowInv'
  <2>1. Base = a
      BY <1>1 DEF Base, l, n
  <2>2. PICK c \in Int : IF l > 0 THEN c = (l + 1) - n ELSE c = 0
    <3>1. (l + 1) - n \in Int
        BY <1>2
    <3> QED BY <3>1
  <2>3. Base' = c
    <3>1. CASE l > 0
      <4>1. Base' = ((l - 1) + 2) - n
          BY <1>1, <3>1 DEF Base, n
      <4> QED BY <1>2, <2>2, <3>1, <4>1
    <3>2. CASE ~ (l > 0)
        BY <1>1, <2>2, <3>2 DEF Base
    <3> QED BY <3>1, <3>2
  <2>4. ASSUME NEW y \in Layers, (l + 1) - n <= y, y <= l PROVE y \in Window(c)
      BY <1>2, <2>2, <2>4 DEF Window, n
  <2>5. Window(a) \ {x} \subseteq Window(c)
    <3> SUFFICES ASSUME NEW y \in Window(a), y # x PROVE y \in Window(c)
        OBVIOUS
    <3>1. y \in Layers /\ y \in Int /\ a <= y /\ y < a + n
        BY <1>2 DEF Window, n
    <3>2. (l + 1) - n <= y /\ y <= l
        BY <1>2, <3>1
    <3> QED BY <2>4, <3>1, <3>2
  <2>6. Drops(q, 1, x) \/ Window(a) \subseteq Window(c)
    <3>1. CASE m = 0
      <4>1. x \notin Layers
          BY <1>2, <1>5, <3>1
      <4> QED BY <2>5, <4>1 DEF Window
    <3>2. CASE m # 0
      <4>1. 1 \in 1 .. m /\ 1 \in DOMAIN q /\ 1 >= 1
          BY <1>2, <1>3, <3>2
      <4> QED BY <1>4, <4>1 DEF Drops, Drop
    <3> QED BY <3>1, <3>2
  <2>7. ASSUME NEW i \in DOMAIN q, Fetch(q[i])
        PROVE  q[i].layer \in IF Drops(q, i, x) THEN Window(a) ELSE Window(c)
    <3>1. i >= m + 1
      <4>1. ~ (i \in 1 .. m)
          BY <1>4, <2>7 DEF Fetch
      <4> QED BY <1>2, <1>3, <1>6, <4>1
    <3>2. ~ Drops(q, i, x)
      <4>1. ASSUME NEW k \in DOMAIN q, k >= i PROVE ~ Drop(q[k], x)
        <5>1. k = m + 1 \/ k \in m + 2 .. m + n \/ k = m + n + 1
          <6>1. k \in Int /\ i \in Int /\ m \in Int /\ k >= m + 1
              BY <1>2, <1>3, <3>1, <4>1
          <6>2. ~ (k \in 1 .. m)
              BY ONLY <6>1
          <6> QED BY <1>6, <6>2
        <5> QED BY <1>4, <5>1 DEF Drop
      <4> QED BY <4>1 DEF Drops
    <3>3. q[i].layer \in Layers /\ i # m + n + 1
        BY <1>4, <2>7 DEF Fetch
    <3>4. q[i].layer = l \/ \E p \in m + 2 .. m + n : q[i].layer = l + 1 + m - p
      <4>1. i = m + 1 \/ i \in m + 2 .. m + n
          BY <1>2, <1>3, <1>6, <3>1, <3>3
      <4> QED BY <1>4, <4>1
    <3>5. (l + 1) - n <= q[i].layer /\ q[i].layer <= l
      <4>1. CASE q[i].layer = l
          BY <1>2, <4>1
      <4>2. ASSUME NEW p \in m + 2 .. m + n, q[i].layer = l + 1 + m - p
            PROVE  (l + 1) - n <= q[i].layer /\ q[i].layer <= l
        <5>1. n \in Int /\ l \in Int /\ m \in Int
            BY <1>2, <1>3
        <5>2. (l + 1) - n <= l + 1 + m - p /\ l + 1 + m - p <= l
            BY ONLY <5>1
        <5> QED BY <4>2, <5>2
      <4> QED BY <3>4, <4>1, <4>2
    <3> QED BY <2>4, <3>2, <3>3, <3>5
  <2>8. x \in Int
      BY <1>2
  <2> HIDE DEF a, x
  <2> QED BY <1>1, <2>1, <2>2, <2>3, <2>5, <2>6, <2>7, <2>8, NewWindow
<1>9. EmptyInv'
    BY <1>1 DEF EmptyInv
<1>10. FedInv'
  <2>1. ASSUME NEW i \in DOMAIN q, q[i].op = "kernel"
        PROVE  i = m + n + 1
      BY <1>4, <1>6, <2>1
  <2>2. ASSUME NEW k \in 1 .. (m + n + 1) - 1 PROVE ~ Drop(q[k], l)
    <3>1. k \in 1 .. m \/ k = m + 1 \/ k \in m + 2 .. m + n
        BY <1>2, <1>3
    <3>2. k \in 1 .. m => l + k # l
        BY <1>2, <1>3
    <3> QED BY <1>4, <3>1, <3>2 DEF Drop
  <2>3. m + 1 \in 1 .. (m + n + 1) - 1 /\ Finish(q[m + 1], l)
      BY <1>2, <1>3, <1>4 DEF Finish
  <2>4. Fed(q, status)
      BY <1>4, <2>1, <2>2, <2>3 DEF Fed
  <2> QED BY <1>1, <2>4 DEF FedInv
<1> QED BY <1>7, <1>8, <1>9, <1>10 DEF ThreadInv

\* A hook raises an error: nothing more happens to the layers.
LEMMA RaisesThread ==
    ASSUME Sizes, Typed, ThreadInv, NEW op, NEW l, Raises(op, l)
    PROVE  ThreadInv'
<1>1. /\ stage' = "failed" /\ todo' = todo /\ status' = status
      /\ resident' = resident /\ layer' = layer /\ grads' = grads
    BY DEF Raises, layerVars
<1>2. ThreadTyped'
    BY <1>1 DEF ThreadInv, ThreadTyped
<1>3. Loaded' = Loaded
    BY <1>1 DEF Loaded
<1>4. WindowInv'
  <2>1. PICK a, b, x \in Int : Bounded(todo, Loaded, Window(a), Window(b), x)
      BY DEF ThreadInv, WindowInv
  <2>2. Window(a)' = Window(a) /\ Window(b)' = Window(b)
      BY <1>1, WindowKept
  <2>3. Bounded(todo', Loaded', Window(a)', Window(b)', x)
      BY <1>1, <1>3, <2>1, <2>2
  <2> QED BY <1>1, <2>3 DEF WindowInv
<1>5. EmptyInv'
    BY <1>1 DEF EmptyInv
<1>6. FedInv'
    BY <1>1 DEF ThreadInv, FedInv
<1> QED BY <1>2, <1>4, <1>5, <1>6 DEF ThreadInv

LEMMA ThreadKept ==
    ASSUME ThreadInv, UNCHANGED <<threadVars, todo, layerVars>>
    PROVE  ThreadInv'
<1>1. /\ stage' = stage /\ todo' = todo /\ status' = status
      /\ resident' = resident /\ layer' = layer /\ grads' = grads
    BY DEF threadVars, layerVars
<1>2. ThreadTyped'
    BY <1>1 DEF ThreadInv, ThreadTyped
<1>3. Loaded' = Loaded
    BY <1>1 DEF Loaded
<1>4. WindowInv'
  <2>1. PICK a, b, x \in Int :
            /\ stage # "failed" => b = Base
            /\ Bounded(todo, Loaded, Window(a), Window(b), x)
      BY DEF ThreadInv, WindowInv
  <2>2. Window(a)' = Window(a) /\ Window(b)' = Window(b) /\ Base' = Base
      BY <1>1, WindowKept DEF Base
  <2>3. Bounded(todo', Loaded', Window(a)', Window(b)', x)
      BY <1>1, <1>3, <2>1, <2>2
  <2> QED BY <1>1, <2>1, <2>2, <2>3 DEF WindowInv
<1>5. EmptyInv'
    BY <1>1, <1>3 DEF ThreadInv, EmptyInv
<1>6. FedInv'
    BY <1>1 DEF ThreadInv, FedInv
<1> QED BY <1>2, <1>4, <1>5, <1>6 DEF ThreadInv

(***************************************************************************)
(* The loads and the kernels.  A load is, from its request to the end of   *)
(* its copy, in one place: the queue, the thread, the stream of copies.    *)
(***************************************************************************)
UnderWay(x) == status[x.layer] = "loading" /\ slotOf[x.layer] = x.slot /\ x.layer \notin copied

QueueInv ==
    /\ \A i \in DOMAIN queue :
           UnderWay(queue[i]) /\ queue[i].layer \notin ready /\ queue[i].at = "taken"
    /\ \A i, j \in DOMAIN queue : queue[i].layer = queue[j].layer => i = j

LoadingInv ==
    loading # NoLoad =>
        /\ UnderWay(loading) /\ loading.layer \notin ready
        /\ loading.at = "pinned" => pinned[loading.slot] = loading.layer
        /\ \A i \in DOMAIN queue : queue[i].layer # loading.layer

TransfersInv ==
    /\ \A i \in DOMAIN transfers :
           /\ UnderWay(transfers[i]) /\ transfers[i].layer \in ready
           /\ pinned[transfers[i].slot] = transfers[i].layer
           /\ transfers[i].begun => transfers[i].waits = 0
    /\ \A i, j \in DOMAIN transfers : transfers[i].layer = transfers[j].layer => i = j

CopiesInv ==
    \A l \in Layers :
        /\ status[l] = "gpu" => l \in copied
        /\ l \in copied /\ status[l] # "cpu" => gpu[slotOf[l]] = l

\* A slot a kernel reads belongs to its layer, or will be waited for: by a load that finds
\* it released, or by the copy launched since.
KernelsInv ==
    /\ \A i \in DOMAIN kernels :
           LET s == kernels[i].slot
           IN  /\ gpu[s] = kernels[i].layer
               /\ \/ s \in released
                  \/ owner[s] = kernels[i].layer /\ status[kernels[i].layer] = "gpu"
                  \/ \E j \in DOMAIN transfers : transfers[j].slot = s
    /\ \A i \in DOMAIN kernels, j \in DOMAIN transfers :
           transfers[j].slot = kernels[i].slot => transfers[j].waits >= i

LoadsInv == QueueInv /\ LoadingInv /\ TransfersInv /\ CopiesInv /\ KernelsInv

\* The records of loads and copies under way have the layers and slots of their types.
LEMMA ItemsTyped ==
    ASSUME Typed
    PROVE  /\ queue \in Seq(Loads) /\ DOMAIN queue = 1 .. Len(queue) /\ Len(queue) \in Nat
           /\ \A i \in DOMAIN queue : queue[i] \in Loads /\ queue[i].layer \in Layers
                                      /\ queue[i].slot \in Slots
           /\ loading # NoLoad => loading \in Loads /\ loading.layer \in Layers
                                /\ loading.slot \in Slots
           /\ transfers \in Seq(Transfers) /\ DOMAIN transfers = 1 .. Len(transfers)
           /\ Len(transfers) \in Nat
           /\ \A i \in DOMAIN transfers :
                  /\ transfers[i] \in Transfers /\ transfers[i].layer \in Layers
                  /\ transfers[i].slot \in Slots /\ transfers[i].waits \in Nat
           /\ kernels \in Seq(Kernels) /\ DOMAIN kernels = 1 .. Len(kernels)
           /\ Len(kernels) \in Nat
           /\ \A i \in DOMAIN kernels : /\ kernels[i] \in Kernels /\ kernels[i].layer \in Layers
                                        /\ kernels[i].slot \in Slots
<1>1. /\ queue \in Seq(Loads) /\ loading \in Loads \cup {NoLoad}
      /\ transfers \in Seq(Transfers) /\ kernels \in Seq(Kernels)
    BY DEF Typed, LoadsTyped, GpuTyped
<1>2. /\ \A x \in Loads : x.layer \in Layers /\ x.slot \in Slots
      /\ \A x \in Transfers : x.layer \in Layers /\ x.slot \in Slots /\ x.waits \in Nat
      /\ \A x \in Kernels : x.layer \in Layers /\ x.slot \in Slots
    BY DEF Loads, Transfers, Kernels
<1>3. /\ DOMAIN queue = 1 .. Len(queue) /\ Len(queue) \in Nat
      /\ \A i \in DOMAIN queue : queue[i] \in Loads
    BY <1>1
<1>4. /\ DOMAIN transfers = 1 .. Len(transfers) /\ Len(transfers) \in Nat
      /\ \A i \in DOMAIN transfers : transfers[i] \in Transfers
    BY <1>1
<1>5. /\ DOMAIN kernels = 1 .. Len(kernels) /\ Len(kernels) \in Nat
      /\ \A i \in DOMAIN kernels : kernels[i] \in Kernels
    BY <1>1
<1> QED BY <1>1, <1>2, <1>3, <1>4, <1>5

LEMMA Grows ==
    ASSUME NEW S, NEW q \in Seq(S), NEW e \in S
    PROVE  /\ Append(q, e) \in Seq(S) /\ DOMAIN Append(q, e) = 1 .. Len(q) + 1
           /\ Len(Append(q, e)) = Len(q) + 1 /\ DOMAIN q = 1 .. Len(q) /\ Len(q) \in Nat
           /\ \A i \in 1 .. Len(q) + 1 :
                  (i \in DOMAIN q /\ Append(q, e)[i] = q[i])
                    \/ (i = Len(q) + 1 /\ Append(q, e)[i] = e)
OBVIOUS

LEMMA Shrinks ==
    ASSUME NEW S, NEW q \in Seq(S), q # <<>>
    PROVE  /\ Tail(q) \in Seq(S) /\ DOMAIN Tail(q) = 1 .. Len(q) - 1
           /\ DOMAIN q = 1 .. Len(q) /\ Len(q) \in Nat /\ Len(q) >= 1 /\ 1 \in DOMAIN q
           /\ Head(q) = q[1] /\ Head(q) \in S
           /\ \A i \in 1 .. Len(q) - 1 : i + 1 \in DOMAIN q /\ Tail(q)[i] = q[i + 1]
OBVIOUS

\* Two loads of one slot are of one layer.
LEMMA SameSlot ==
    ASSUME Owners, NEW x, NEW y, x.layer \in Layers, y.layer \in Layers,
           UnderWay(x), UnderWay(y), x.slot = y.slot
    PROVE  x.layer = y.layer
<1>1. status[x.layer] # "cpu" /\ status[y.layer] # "cpu"
    BY DEF UnderWay
<1>2. owner[slotOf[x.layer]] = x.layer /\ owner[slotOf[y.layer]] = y.layer
    BY <1>1 DEF Owners
<1> QED BY <1>2 DEF UnderWay

\* A load's slot is its layer's, which is not on the GPU yet.
LEMMA SlotOwned ==
    ASSUME Owners, NEW x, x.layer \in Layers, UnderWay(x)
    PROVE  owner[x.slot] = x.layer /\ status[x.layer] = "loading" /\ slotOf[x.layer] = x.slot
<1>1. status[x.layer] # "cpu"
    BY DEF UnderWay
<1> QED BY <1>1 DEF Owners, UnderWay

Rest == LayersTyped /\ LoadsTyped /\ GpuTyped /\ Owners /\ LoadsInv

\* The state of a layer and the layer of a slot, when one of each changes.
LEMMA LayerFunctions ==
    ASSUME LayersTyped
    PROVE  /\ \A y \in Layers : status[y] \in {"cpu", "loading", "gpu"}
           /\ \A y \in Layers : slotOf[y] \in Slots \cup {NoSlot}
           /\ \A t \in Slots : owner[t] \in Layers \cup {NoLayer}
           /\ DOMAIN status = Layers /\ DOMAIN slotOf = Layers /\ DOMAIN owner = Slots
BY DEF LayersTyped

LEMMA RequestsRest ==
    ASSUME Sizes, Typed, Owners, LoadsInv, NEW op, NEW l, NEW s \in Slots, Requests(op, l, s)
    PROVE  Rest'
<1> DEFINE e == [layer |-> l, slot |-> s, at |-> "taken"]
<1>1. /\ l \in Layers /\ status[l] = "cpu" /\ owner[s] = NoLayer
      /\ queue' = Append(queue, e) /\ ready' = ready \ {l} /\ copied' = copied \ {l}
      /\ UNCHANGED <<released, loading, error, pinned, gpu, kernels, transfers>>
    BY DEF Requests
<1>2. LayersTyped /\ NoLayer \notin Layers /\ NoSlot \notin Slots
    BY LayerFacts DEF Typed
<1>3. /\ status' = [status EXCEPT ![l] = "loading"] /\ slotOf' = [slotOf EXCEPT ![l] = s]
      /\ owner' = [owner EXCEPT ![s] = l]
    BY DEF Requests
<1>4. LayersTyped'
    BY <1>1, <1>2, <1>3 DEF LayersTyped
<1>5. /\ \A y \in Layers : status'[y] = IF y = l THEN "loading" ELSE status[y]
      /\ \A y \in Layers : slotOf'[y] = IF y = l THEN s ELSE slotOf[y]
      /\ \A t \in Slots : owner'[t] = IF t = s THEN l ELSE owner[t]
    BY <1>1, <1>2, <1>3 DEF LayersTyped
<1>6. e \in Loads /\ e.layer = l /\ e.slot = s /\ e.at = "taken"
    BY <1>1 DEF Loads
<1> HIDE DEF e
<1>7. /\ queue' \in Seq(Loads) /\ DOMAIN queue' = 1 .. Len(queue) + 1
      /\ DOMAIN queue = 1 .. Len(queue) /\ Len(queue) \in Nat
      /\ \A i \in 1 .. Len(queue) + 1 :
             (i \in DOMAIN queue /\ queue'[i] = queue[i])
               \/ (i = Len(queue) + 1 /\ queue'[i] = e)
    BY <1>1, <1>6, ItemsTyped, Grows
<1>8. LoadsTyped'
    BY <1>1, <1>7 DEF Typed, LoadsTyped
<1>9. GpuTyped'
    BY <1>1 DEF Typed, GpuTyped
<1>10. Owners'
  <2>1. slotOf[l] = NoSlot
      BY <1>1 DEF Owners
  <2>2. ASSUME NEW y \in Layers
        PROVE  (slotOf'[y] = NoSlot <=> status'[y] = "cpu")
               /\ (slotOf'[y] # NoSlot => owner'[slotOf'[y]] = y)
    <3>1. CASE y = l
        BY <1>2, <1>5, <3>1
    <3>2. CASE y # l
      <4>1. slotOf'[y] = slotOf[y] /\ status'[y] = status[y]
          BY <1>5, <3>2
      <4>2. slotOf[y] # NoSlot => slotOf[y] \in Slots /\ owner[slotOf[y]] = y /\ y # NoLayer
          BY <1>2, LayerFunctions DEF Owners
      <4>3. slotOf[y] # NoSlot => slotOf[y] # s
          BY <1>1, <4>2
      <4> QED BY <1>5, <4>1, <4>2, <4>3 DEF Owners
    <3> QED BY <3>1, <3>2
  <2>3. ASSUME NEW t \in Slots, owner'[t] # NoLayer
        PROVE  slotOf'[owner'[t]] = t
    <3>1. CASE t = s
        BY <1>1, <1>5, <3>1
    <3>2. CASE t # s
      <4>1. owner'[t] = owner[t] /\ owner[t] \in Layers /\ slotOf[owner[t]] = t
          BY <1>2, <1>5, <2>3, <3>2, LayerFunctions DEF Owners
      <4>2. owner[t] # l
          BY <1>2, <2>1, <4>1
      <4> QED BY <1>5, <4>1, <4>2
    <3> QED BY <3>1, <3>2
  <2> QED BY <2>2, <2>3 DEF Owners
<1>11. ASSUME NEW x, x.layer \in Layers, UnderWay(x)
       PROVE  x.layer # l /\ status'[x.layer] = "loading" /\ slotOf'[x.layer] = x.slot
              /\ x.layer \notin copied'
    BY <1>1, <1>5, <1>11 DEF UnderWay
<1>12. QueueInv'
  <2>1. ASSUME NEW i \in DOMAIN queue'
        PROVE  /\ status'[queue'[i].layer] = "loading" /\ slotOf'[queue'[i].layer] = queue'[i].slot
               /\ queue'[i].layer \notin copied'
               /\ queue'[i].layer \notin ready' /\ queue'[i].at = "taken"
    <3>1. CASE i \in DOMAIN queue /\ queue'[i] = queue[i]
        BY <1>1, <1>11, <3>1, ItemsTyped DEF LoadsInv, QueueInv
    <3>2. CASE queue'[i] = e
        BY <1>1, <1>5, <1>6, <3>2
    <3> QED BY <1>7, <3>1, <3>2
  <2>2. ASSUME NEW i \in DOMAIN queue PROVE queue[i].layer # l
      BY <1>11, <2>2, ItemsTyped DEF LoadsInv, QueueInv
  <2>3. ASSUME NEW i \in DOMAIN queue', NEW j \in DOMAIN queue', queue'[i].layer = queue'[j].layer
        PROVE  i = j
    <3>1. /\ (i \in DOMAIN queue /\ queue'[i] = queue[i]) \/ (i = Len(queue) + 1 /\ queue'[i] = e)
          /\ (j \in DOMAIN queue /\ queue'[j] = queue[j]) \/ (j = Len(queue) + 1 /\ queue'[j] = e)
        BY <1>7
    <3> QED BY <1>6, <2>2, <2>3, <3>1 DEF LoadsInv, QueueInv
  <2> QED BY <2>1, <2>3 DEF QueueInv, UnderWay
<1>13. LoadingInv'
  <2> SUFFICES ASSUME loading # NoLoad
               PROVE  /\ status'[loading.layer] = "loading"
                      /\ slotOf'[loading.layer] = loading.slot /\ loading.layer \notin copied'
                      /\ loading.layer \notin ready'
                      /\ loading.at = "pinned" => pinned[loading.slot] = loading.layer
                      /\ \A i \in DOMAIN queue' : queue'[i].layer # loading.layer
      BY <1>1 DEF LoadingInv, UnderWay
  <2>1. /\ UnderWay(loading) /\ loading.layer \in Layers /\ loading.layer \notin ready
        /\ loading.at = "pinned" => pinned[loading.slot] = loading.layer
        /\ \A i \in DOMAIN queue : queue[i].layer # loading.layer
      BY ItemsTyped DEF LoadsInv, LoadingInv
  <2> QED BY <1>1, <1>6, <1>7, <1>11, <2>1
<1>14. TransfersInv'
  <2>1. ASSUME NEW i \in DOMAIN transfers
        PROVE  /\ status'[transfers[i].layer] = "loading"
               /\ slotOf'[transfers[i].layer] = transfers[i].slot
               /\ transfers[i].layer \notin copied' /\ transfers[i].layer \in ready'
      BY <1>1, <1>11, <2>1, ItemsTyped DEF LoadsInv, TransfersInv
  <2> QED BY <1>1, <2>1 DEF LoadsInv, TransfersInv, UnderWay
<1>15. CopiesInv'
    BY <1>1, <1>5 DEF LoadsInv, CopiesInv
<1>16. KernelsInv'
  <2>1. ASSUME NEW i \in DOMAIN kernels, owner[kernels[i].slot] = kernels[i].layer,
               status[kernels[i].layer] = "gpu"
        PROVE  owner'[kernels[i].slot] = kernels[i].layer /\ status'[kernels[i].layer] = "gpu"
    <3>1. kernels[i].layer \in Layers /\ kernels[i].slot \in Slots
        BY ItemsTyped
    <3>2. kernels[i].layer # l /\ kernels[i].slot # s
        BY <1>1, <1>2, <2>1, <3>1
    <3> QED BY <1>5, <2>1, <3>1, <3>2
  <2> QED BY <1>1, <2>1 DEF LoadsInv, KernelsInv
<1> QED BY <1>4, <1>8, <1>9, <1>10, <1>12, <1>13, <1>14, <1>15, <1>16 DEF Rest, LoadsInv

LEMMA FinishesRest ==
    ASSUME Sizes, Typed, Owners, LoadsInv, NEW op, NEW l, Finishes(op, l)
    PROVE  Rest'
<1>1. /\ l \in Layers /\ status[l] = "loading" /\ l \in copied
      /\ status' = [status EXCEPT ![l] = "gpu"]
      /\ UNCHANGED <<slotOf, owner, released, queue, loading, ready, error, pinned, gpu, kernels,
                     transfers, copied>>
    BY DEF Finishes, loadVars, gpuVars
<1>2. LayersTyped
    BY DEF Typed
<1>3. LayersTyped' /\ LoadsTyped' /\ GpuTyped'
    BY <1>1 DEF Typed, LayersTyped, LoadsTyped, GpuTyped
<1>4. \A y \in Layers : status'[y] = IF y = l THEN "gpu" ELSE status[y]
    BY <1>1, <1>2 DEF LayersTyped
<1>5. Owners'
    BY <1>1, <1>4 DEF Owners
<1>6. ASSUME NEW x, x.layer \in Layers, UnderWay(x)
      PROVE  status'[x.layer] = "loading" /\ slotOf'[x.layer] = x.slot
             /\ x.layer \notin copied'
    BY <1>1, <1>4, <1>6 DEF UnderWay
<1>7. QueueInv'
  <2>1. ASSUME NEW i \in DOMAIN queue
        PROVE  status'[queue[i].layer] = "loading" /\ slotOf'[queue[i].layer] = queue[i].slot
               /\ queue[i].layer \notin copied'
      BY <1>6, <2>1, ItemsTyped DEF LoadsInv, QueueInv
  <2> QED BY <1>1, <2>1 DEF LoadsInv, QueueInv, UnderWay
<1>8. LoadingInv'
  <2>1. loading # NoLoad =>
            status'[loading.layer] = "loading" /\ slotOf'[loading.layer] = loading.slot
            /\ loading.layer \notin copied'
      BY <1>6, ItemsTyped DEF LoadsInv, LoadingInv
  <2> QED BY <1>1, <2>1 DEF LoadsInv, LoadingInv, UnderWay
<1>9. TransfersInv'
  <2>1. ASSUME NEW i \in DOMAIN transfers
        PROVE  /\ status'[transfers[i].layer] = "loading"
               /\ slotOf'[transfers[i].layer] = transfers[i].slot
               /\ transfers[i].layer \notin copied'
      BY <1>6, <2>1, ItemsTyped DEF LoadsInv, TransfersInv
  <2> QED BY <1>1, <2>1 DEF LoadsInv, TransfersInv, UnderWay
<1>10. CopiesInv'
    BY <1>1, <1>4 DEF LoadsInv, CopiesInv
<1>11. KernelsInv'
    BY <1>1, <1>4, ItemsTyped DEF LoadsInv, KernelsInv
<1> QED BY <1>3, <1>5, <1>7, <1>8, <1>9, <1>10, <1>11 DEF Rest, LoadsInv

LEMMA OffloadsRest ==
    ASSUME Sizes, Typed, Owners, LoadsInv, NEW op, NEW l, Offloads(op, l)
    PROVE  Rest'
<1> DEFINE s == slotOf[l]
<1>1. /\ l \in Layers /\ status[l] = "gpu"
      /\ status' = [status EXCEPT ![l] = "cpu"] /\ slotOf' = [slotOf EXCEPT ![l] = NoSlot]
      /\ owner' = [owner EXCEPT ![s] = NoLayer] /\ released' = released \cup {s}
      /\ UNCHANGED <<queue, loading, ready, error, pinned, gpu, kernels, transfers, copied>>
    BY DEF Offloads, gpuVars
<1>2. LayersTyped /\ NoLayer \notin Layers /\ NoSlot \notin Slots
    BY LayerFacts DEF Typed
<1>3. s \in Slots /\ owner[s] = l
  <2>1. s # NoSlot /\ s \in Slots \cup {NoSlot}
      BY <1>1, <1>2, LayerFunctions DEF Owners
  <2> QED BY <1>1, <2>1 DEF Owners
<1>4. LayersTyped' /\ LoadsTyped' /\ GpuTyped'
    BY <1>1, <1>3 DEF Typed, LayersTyped, LoadsTyped, GpuTyped
<1> HIDE DEF s
<1>5. /\ \A y \in Layers : status'[y] = IF y = l THEN "cpu" ELSE status[y]
      /\ \A y \in Layers : slotOf'[y] = IF y = l THEN NoSlot ELSE slotOf[y]
      /\ \A t \in Slots : owner'[t] = IF t = s THEN NoLayer ELSE owner[t]
    BY <1>1, <1>2 DEF LayersTyped
<1>6. Owners'
  <2>1. ASSUME NEW y \in Layers
        PROVE  (slotOf'[y] = NoSlot <=> status'[y] = "cpu")
               /\ (slotOf'[y] # NoSlot => owner'[slotOf'[y]] = y)
    <3>1. CASE y = l
        BY <1>5, <3>1
    <3>2. CASE y # l
      <4>1. slotOf'[y] = slotOf[y] /\ status'[y] = status[y]
          BY <1>5, <3>2
      <4>2. slotOf[y] # NoSlot => slotOf[y] \in Slots /\ owner[slotOf[y]] = y
          BY <1>2, LayerFunctions DEF Owners
      <4>3. slotOf[y] # NoSlot => slotOf[y] # s
          BY <1>3, <3>2, <4>2
      <4> QED BY <1>5, <4>1, <4>2, <4>3 DEF Owners
    <3> QED BY <3>1, <3>2
  <2>2. ASSUME NEW t \in Slots, owner'[t] # NoLayer
        PROVE  slotOf'[owner'[t]] = t
    <3>1. t # s /\ owner'[t] = owner[t]
        BY <1>5, <2>2
    <3>2. owner[t] \in Layers /\ slotOf[owner[t]] = t
        BY <1>2, <2>2, <3>1, LayerFunctions DEF Owners
    <3>3. owner[t] # l
        BY <3>1, <3>2 DEF s
    <3> QED BY <1>5, <3>1, <3>2, <3>3
  <2> QED BY <2>1, <2>2 DEF Owners
<1>7. ASSUME NEW x, x.layer \in Layers, UnderWay(x)
      PROVE  status'[x.layer] = "loading" /\ slotOf'[x.layer] = x.slot
             /\ x.layer \notin copied'
    BY <1>1, <1>5, <1>7 DEF UnderWay
<1>8. QueueInv'
  <2>1. ASSUME NEW i \in DOMAIN queue
        PROVE  status'[queue[i].layer] = "loading" /\ slotOf'[queue[i].layer] = queue[i].slot
               /\ queue[i].layer \notin copied'
      BY <1>7, <2>1, ItemsTyped DEF LoadsInv, QueueInv
  <2> QED BY <1>1, <2>1 DEF LoadsInv, QueueInv, UnderWay
<1>9. LoadingInv'
  <2>1. loading # NoLoad =>
            status'[loading.layer] = "loading" /\ slotOf'[loading.layer] = loading.slot
            /\ loading.layer \notin copied'
      BY <1>7, ItemsTyped DEF LoadsInv, LoadingInv
  <2> QED BY <1>1, <2>1 DEF LoadsInv, LoadingInv, UnderWay
<1>10. TransfersInv'
  <2>1. ASSUME NEW i \in DOMAIN transfers
        PROVE  /\ status'[transfers[i].layer] = "loading"
               /\ slotOf'[transfers[i].layer] = transfers[i].slot
               /\ transfers[i].layer \notin copied'
      BY <1>7, <2>1, ItemsTyped DEF LoadsInv, TransfersInv
  <2> QED BY <1>1, <2>1 DEF LoadsInv, TransfersInv, UnderWay
<1>11. CopiesInv'
    BY <1>1, <1>5 DEF LoadsInv, CopiesInv
<1>12. KernelsInv'
  <2>1. ASSUME NEW i \in DOMAIN kernels, owner[kernels[i].slot] = kernels[i].layer,
               status[kernels[i].layer] = "gpu"
        PROVE  \/ kernels[i].slot \in released'
               \/ /\ owner'[kernels[i].slot] = kernels[i].layer
                  /\ status'[kernels[i].layer] = "gpu"
    <3>1. kernels[i].layer \in Layers /\ kernels[i].slot \in Slots
        BY ItemsTyped
    <3>2. CASE kernels[i].slot = s
        BY <1>1, <3>2
    <3>3. CASE kernels[i].slot # s
      <4>1. kernels[i].layer # l
        <5>1. kernels[i].layer # NoLayer
            BY <1>2, <3>1
        <5>2. slotOf[kernels[i].layer] = kernels[i].slot
            BY <2>1, <3>1, <5>1 DEF Owners
        <5> QED BY <3>3, <5>2 DEF s
      <4> QED BY <1>5, <2>1, <3>1, <3>3, <4>1
    <3> QED BY <3>2, <3>3
  <2> QED BY <1>1, <2>1 DEF LoadsInv, KernelsInv
<1> QED BY <1>4, <1>6, <1>8, <1>9, <1>10, <1>11, <1>12 DEF Rest, LoadsInv

\* A kernel is launched when its layer is on the GPU.
LEMMA LaunchesRest ==
    ASSUME Sizes, Typed, Owners, LoadsInv, NEW op, NEW l, Launches(op, l), status[l] = "gpu"
    PROVE  Rest'
<1> DEFINE s == slotOf[l]
           e == [layer |-> l, slot |-> s]
<1>1. /\ l \in Layers /\ kernels' = Append(kernels, e)
      /\ UNCHANGED <<status, slotOf, owner, released, queue, loading, ready, error, pinned, gpu,
                     transfers, copied>>
    BY DEF Launches, layerVars, loadVars
<1>2. LayersTyped /\ NoLayer \notin Layers /\ NoSlot \notin Slots
    BY LayerFacts DEF Typed
<1>3. s \in Slots /\ owner[s] = l
  <2>1. s # NoSlot /\ s \in Slots \cup {NoSlot}
      BY <1>1, <1>2, LayerFunctions DEF Owners
  <2> QED BY <1>1, <2>1 DEF Owners
<1>4. e \in Kernels /\ e.layer = l /\ e.slot = s
    BY <1>1, <1>3 DEF Kernels
<1> HIDE DEF e
<1>5. /\ kernels' \in Seq(Kernels) /\ DOMAIN kernels' = 1 .. Len(kernels) + 1
      /\ \A i \in 1 .. Len(kernels) + 1 :
             (i \in DOMAIN kernels /\ kernels'[i] = kernels[i])
               \/ (i = Len(kernels) + 1 /\ kernels'[i] = e)
    BY <1>1, <1>4, ItemsTyped, Grows
<1>6. LayersTyped' /\ LoadsTyped' /\ GpuTyped'
    BY <1>1, <1>5 DEF Typed, LayersTyped, LoadsTyped, GpuTyped
<1>7. Owners'
    BY <1>1 DEF Owners
<1>8. QueueInv' /\ LoadingInv' /\ TransfersInv' /\ CopiesInv'
    BY <1>1 DEF LoadsInv, QueueInv, LoadingInv, TransfersInv, CopiesInv, UnderWay
<1>9. KernelsInv'
  <2>1. \A j \in DOMAIN transfers : transfers[j].slot # s
    <3> SUFFICES ASSUME NEW j \in DOMAIN transfers, transfers[j].slot = s PROVE FALSE
        OBVIOUS
    <3>1. owner[transfers[j].slot] = transfers[j].layer /\ status[transfers[j].layer] = "loading"
        BY SlotOwned, ItemsTyped DEF LoadsInv, TransfersInv
    <3> QED BY <1>3, <3>1
  <2>2. gpu[s] = l
      BY <1>1 DEF LoadsInv, CopiesInv
  <2>3. ASSUME NEW i \in DOMAIN kernels'
        PROVE  /\ gpu[kernels'[i].slot] = kernels'[i].layer
               /\ \/ kernels'[i].slot \in released
                  \/ /\ owner[kernels'[i].slot] = kernels'[i].layer
                     /\ status[kernels'[i].layer] = "gpu"
                  \/ \E j \in DOMAIN transfers : transfers[j].slot = kernels'[i].slot
               /\ \A j \in DOMAIN transfers :
                      transfers[j].slot = kernels'[i].slot => transfers[j].waits >= i
    <3>1. CASE i \in DOMAIN kernels /\ kernels'[i] = kernels[i]
        BY <3>1 DEF LoadsInv, KernelsInv
    <3>2. CASE kernels'[i] = e
        BY <1>3, <1>4, <2>1, <2>2, <3>2
    <3> QED BY <1>5, <3>1, <3>2
  <2> QED BY <1>1, <2>3 DEF KernelsInv
<1> QED BY <1>6, <1>7, <1>8, <1>9 DEF Rest, LoadsInv

LEMMA RestKept ==
    ASSUME Typed, Owners, LoadsInv, UNCHANGED <<layerVars, loadVars, gpuVars>>
    PROVE  Rest'
<1>1. UNCHANGED <<status, slotOf, owner, released, queue, loading, ready, error, pinned, gpu,
                  kernels, transfers, copied>>
    BY DEF layerVars, loadVars, gpuVars
<1>2. LayersTyped' /\ LoadsTyped' /\ GpuTyped'
    BY <1>1 DEF Typed, LayersTyped, LoadsTyped, GpuTyped
<1>3. Owners'
    BY <1>1 DEF Owners
<1>4. QueueInv' /\ LoadingInv' /\ TransfersInv' /\ CopiesInv'
    BY <1>1 DEF LoadsInv, QueueInv, LoadingInv, TransfersInv, CopiesInv, UnderWay
<1>5. KernelsInv'
    BY <1>1 DEF LoadsInv, KernelsInv
<1> QED BY <1>2, <1>3, <1>4, <1>5 DEF Rest, LoadsInv

(***************************************************************************)
(* The thread that loads, and the GPU.                                     *)
(***************************************************************************)
LEMMA TakeRest ==
    ASSUME Sizes, Typed, Owners, LoadsInv, Take
    PROVE  Rest'
<1>1. /\ loading = NoLoad /\ queue # <<>> /\ loading' = Head(queue) /\ queue' = Tail(queue)
      /\ UNCHANGED <<status, slotOf, owner, released, ready, error, pinned, gpu, kernels,
                     transfers, copied>>
    BY DEF Take, layerVars, gpuVars
<1>2. /\ queue' \in Seq(Loads) /\ DOMAIN queue' = 1 .. Len(queue) - 1
      /\ Len(queue) \in Nat /\ 1 \in DOMAIN queue /\ loading' = queue[1] /\ queue[1] \in Loads
      /\ \A i \in 1 .. Len(queue) - 1 :
             i + 1 \in DOMAIN queue /\ i + 1 # 1 /\ queue'[i] = queue[i + 1]
    BY <1>1, ItemsTyped, Shrinks
<1>3. LayersTyped' /\ LoadsTyped' /\ GpuTyped'
    BY <1>1, <1>2 DEF Typed, LayersTyped, LoadsTyped, GpuTyped
<1>4. Owners'
    BY <1>1 DEF Owners
<1>5. QueueInv'
  <2>1. ASSUME NEW i \in DOMAIN queue'
        PROVE  UnderWay(queue[i + 1]) /\ queue[i + 1].layer \notin ready
               /\ queue[i + 1].at = "taken" /\ queue'[i] = queue[i + 1]
      BY <1>2 DEF LoadsInv, QueueInv
  <2>2. ASSUME NEW i \in DOMAIN queue', NEW j \in DOMAIN queue', queue'[i].layer = queue'[j].layer
        PROVE  i = j
    <3>1. /\ i + 1 \in DOMAIN queue /\ queue'[i] = queue[i + 1]
          /\ j + 1 \in DOMAIN queue /\ queue'[j] = queue[j + 1]
        BY <1>2
    <3>2. queue[i + 1].layer = queue[j + 1].layer
        BY <2>2, <3>1
    <3>3. i + 1 = j + 1
        BY <3>1, <3>2 DEF LoadsInv, QueueInv
    <3>4. i \in Int /\ j \in Int
        BY <1>2
    <3> QED BY <3>3, <3>4
  <2> QED BY <1>1, <2>1, <2>2 DEF QueueInv, UnderWay
<1>6. LoadingInv'
  <2>1. UnderWay(queue[1]) /\ queue[1].layer \notin ready /\ queue[1].at = "taken"
      BY <1>2 DEF LoadsInv, QueueInv
  <2>2. ASSUME NEW i \in DOMAIN queue' PROVE queue'[i].layer # queue[1].layer
      BY <1>2 DEF LoadsInv, QueueInv
  <2> QED BY <1>1, <1>2, <2>1, <2>2 DEF LoadingInv, UnderWay
<1>7. TransfersInv' /\ CopiesInv'
    BY <1>1 DEF LoadsInv, TransfersInv, CopiesInv, UnderWay
<1>8. KernelsInv'
    BY <1>1 DEF LoadsInv, KernelsInv
<1> QED BY <1>3, <1>4, <1>5, <1>6, <1>7, <1>8 DEF Rest, LoadsInv

\* The pinned buffer that changes is of no copy under way.
LEMMA PinRest ==
    ASSUME Sizes, Typed, Owners, LoadsInv, Pin
    PROVE  Rest'
<1>1. /\ loading.at \in {"taken", "pinning"}
      /\ loading' = [loading EXCEPT !.at = IF loading.at = "taken" THEN "pinning" ELSE "pinned"]
      /\ pinned' = [pinned EXCEPT ![loading.slot] =
                        IF loading.at = "taken" THEN NoLayer ELSE loading.layer]
      /\ UNCHANGED <<status, slotOf, owner, released, queue, ready, error, gpu, kernels,
                     transfers, copied>>
    BY DEF Pin, layerVars, gpuVars
<1>2. loading # NoLoad
    BY <1>1 DEF NoLoad
<1>3. /\ loading \in Loads /\ loading.layer \in Layers /\ loading.slot \in Slots
      /\ pinned \in [Slots -> Layers \cup {NoLayer}]
    BY <1>2, ItemsTyped DEF Typed, LoadsTyped
<1>4. /\ loading' \in Loads /\ loading'.layer = loading.layer /\ loading'.slot = loading.slot
      /\ loading'.at = (IF loading.at = "taken" THEN "pinning" ELSE "pinned")
    BY <1>1, <1>3 DEF Loads
<1>5. /\ pinned' \in [Slots -> Layers \cup {NoLayer}]
      /\ \A t \in Slots : t # loading.slot => pinned'[t] = pinned[t]
      /\ loading.at = "pinning" => pinned'[loading.slot] = loading.layer
    BY <1>1, <1>3
<1>6. LayersTyped' /\ LoadsTyped' /\ GpuTyped'
    BY <1>1, <1>4, <1>5 DEF Typed, LayersTyped, LoadsTyped, GpuTyped
<1>7. Owners'
    BY <1>1 DEF Owners
<1>8. QueueInv' /\ CopiesInv'
    BY <1>1 DEF LoadsInv, QueueInv, CopiesInv, UnderWay
<1>9. KernelsInv'
    BY <1>1 DEF LoadsInv, KernelsInv
<1>10. /\ UnderWay(loading) /\ loading.layer \notin ready
       /\ \A i \in DOMAIN queue : queue[i].layer # loading.layer
    BY <1>2 DEF LoadsInv, LoadingInv
<1>11. LoadingInv'
    BY <1>1, <1>4, <1>5, <1>10 DEF LoadingInv, UnderWay
<1>12. TransfersInv'
  <2>1. ASSUME NEW i \in DOMAIN transfers
        PROVE  pinned'[transfers[i].slot] = pinned[transfers[i].slot]
    <3>1. /\ transfers[i].layer \in Layers /\ transfers[i].slot \in Slots
          /\ UnderWay(transfers[i]) /\ transfers[i].layer \in ready
        BY ItemsTyped DEF LoadsInv, TransfersInv
    <3>2. transfers[i].slot # loading.slot
        BY <1>3, <1>10, <3>1, SameSlot
    <3> QED BY <1>5, <3>1, <3>2
  <2> QED BY <1>1, <2>1 DEF LoadsInv, TransfersInv, UnderWay
<1> QED BY <1>6, <1>7, <1>8, <1>9, <1>11, <1>12 DEF Rest, LoadsInv

\* A copy into a slot that is not released finds no kernel there: a kernel there would be
\* of the layer of the slot, which is not on the GPU yet, or have a copy of that layer wait.
LEMMA RunLoadRest ==
    ASSUME Sizes, Typed, Owners, LoadsInv, RunLoad
    PROVE  Rest'
<1> DEFINE s == loading.slot
           l == loading.layer
           w == IF s \in released THEN Len(kernels) ELSE 0
           e == [layer |-> l, slot |-> s, waits |-> w, begun |-> FALSE]
<1>1. /\ loading.at = "pinned" /\ transfers' = Append(transfers, e)
      /\ released' = released \ {s} /\ ready' = ready \cup {l} /\ loading' = NoLoad
      /\ UNCHANGED <<status, slotOf, owner, queue, error, pinned, gpu, kernels, copied>>
    BY DEF RunLoad, layerVars
<1>2. loading # NoLoad
    BY <1>1 DEF NoLoad
<1>3. l \in Layers /\ s \in Slots /\ w \in Nat
    BY <1>2, ItemsTyped
<1>4. /\ UnderWay(loading) /\ l \notin ready /\ pinned[s] = l
      /\ \A i \in DOMAIN queue : queue[i].layer # l
    BY <1>1, <1>2 DEF LoadsInv, LoadingInv
<1>5. owner[s] = l /\ status[l] = "loading" /\ slotOf[l] = s /\ l \notin copied
    BY <1>3, <1>4, SlotOwned DEF UnderWay
<1>6. e \in Transfers /\ e.layer = l /\ e.slot = s /\ e.waits = w /\ e.begun = FALSE
    BY <1>3 DEF Transfers
<1>7. s \notin released => \A i \in DOMAIN kernels : kernels[i].slot # s
  <2> SUFFICES ASSUME s \notin released, NEW i \in DOMAIN kernels, kernels[i].slot = s
               PROVE  FALSE
      OBVIOUS
  <2>1. \/ owner[s] = kernels[i].layer /\ status[kernels[i].layer] = "gpu"
        \/ \E j \in DOMAIN transfers : transfers[j].slot = s
      BY DEF LoadsInv, KernelsInv
  <2>2. PICK j \in DOMAIN transfers : transfers[j].slot = s
      BY <1>5, <2>1
  <2>3. /\ transfers[j].layer \in Layers /\ UnderWay(transfers[j]) /\ transfers[j].layer \in ready
      BY ItemsTyped DEF LoadsInv, TransfersInv
  <2> QED BY <1>3, <1>4, <2>2, <2>3, SameSlot
<1>8. \A i \in DOMAIN kernels : kernels[i].slot = s => w >= i
    BY <1>7, ItemsTyped
<1> HIDE DEF e, w
<1>9. /\ transfers' \in Seq(Transfers) /\ DOMAIN transfers' = 1 .. Len(transfers) + 1
      /\ DOMAIN transfers = 1 .. Len(transfers) /\ Len(transfers) \in Nat
      /\ \A i \in 1 .. Len(transfers) + 1 :
             (i \in DOMAIN transfers /\ transfers'[i] = transfers[i])
               \/ (i = Len(transfers) + 1 /\ transfers'[i] = e)
    BY <1>1, <1>6, ItemsTyped, Grows
<1>10. \A i \in DOMAIN transfers : i \in DOMAIN transfers' /\ transfers'[i] = transfers[i]
    BY <1>9
<1>11. Len(transfers) + 1 \in DOMAIN transfers' /\ transfers'[Len(transfers) + 1] = e
    BY <1>9
<1>12. LayersTyped' /\ LoadsTyped' /\ GpuTyped'
    BY <1>1, <1>3, <1>9 DEF Typed, LayersTyped, LoadsTyped, GpuTyped
<1>13. Owners'
    BY <1>1 DEF Owners
<1> HIDE DEF l, s
<1>14. QueueInv'
    BY <1>1, <1>4 DEF LoadsInv, QueueInv, UnderWay
<1>15. LoadingInv'
    BY <1>1 DEF LoadingInv
<1>16. TransfersInv'
  <2>1. ASSUME NEW i \in DOMAIN transfers
        PROVE  transfers[i].layer \in ready /\ transfers[i].layer # l
      BY <1>4 DEF LoadsInv, TransfersInv
  <2>2. ASSUME NEW i \in DOMAIN transfers'
        PROVE  /\ status[transfers'[i].layer] = "loading"
               /\ slotOf[transfers'[i].layer] = transfers'[i].slot
               /\ transfers'[i].layer \notin copied
               /\ transfers'[i].layer \in ready'
               /\ pinned[transfers'[i].slot] = transfers'[i].layer
               /\ transfers'[i].begun => transfers'[i].waits = 0
    <3>1. CASE i \in DOMAIN transfers /\ transfers'[i] = transfers[i]
        BY <1>1, <3>1 DEF LoadsInv, TransfersInv, UnderWay
    <3>2. CASE transfers'[i] = e
        BY <1>1, <1>4, <1>5, <1>6, <3>2
    <3> QED BY <1>9, <3>1, <3>2
  <2>3. ASSUME NEW i \in DOMAIN transfers', NEW j \in DOMAIN transfers',
               transfers'[i].layer = transfers'[j].layer
        PROVE  i = j
    <3>1. /\ \/ i \in DOMAIN transfers /\ transfers'[i] = transfers[i]
             \/ i = Len(transfers) + 1 /\ transfers'[i] = e
          /\ \/ j \in DOMAIN transfers /\ transfers'[j] = transfers[j]
             \/ j = Len(transfers) + 1 /\ transfers'[j] = e
        BY <1>9
    <3> QED BY <1>6, <2>1, <2>3, <3>1 DEF LoadsInv, TransfersInv
  <2> QED BY <1>1, <2>2, <2>3 DEF TransfersInv, UnderWay
<1>17. CopiesInv'
    BY <1>1 DEF LoadsInv, CopiesInv
<1>18. KernelsInv'
  <2>1. ASSUME NEW i \in DOMAIN kernels
        PROVE  LET t == kernels[i].slot
               IN  /\ gpu[t] = kernels[i].layer
                   /\ \/ t \in released'
                      \/ owner[t] = kernels[i].layer /\ status[kernels[i].layer] = "gpu"
                      \/ \E j \in DOMAIN transfers' : transfers'[j].slot = t
    <3>1. CASE kernels[i].slot = s
        BY <1>6, <1>11, <3>1 DEF LoadsInv, KernelsInv
    <3>2. CASE kernels[i].slot # s
        BY <1>1, <1>10, <3>2 DEF LoadsInv, KernelsInv
    <3> QED BY <3>1, <3>2
  <2>2. ASSUME NEW i \in DOMAIN kernels, NEW j \in DOMAIN transfers',
               transfers'[j].slot = kernels[i].slot
        PROVE  transfers'[j].waits >= i
    <3>1. CASE j \in DOMAIN transfers /\ transfers'[j] = transfers[j]
        BY <2>2, <3>1 DEF LoadsInv, KernelsInv
    <3>2. CASE transfers'[j] = e
        BY <1>6, <1>8, <2>2, <3>2
    <3> QED BY <1>9, <3>1, <3>2
  <2> QED BY <1>1, <2>1, <2>2 DEF KernelsInv
<1> QED BY <1>12, <1>13, <1>14, <1>15, <1>16, <1>17, <1>18 DEF Rest, LoadsInv

LEMMA LoadFailsRest ==
    ASSUME Sizes, Typed, Owners, LoadsInv, LoadFails
    PROVE  Rest'
<1>1. /\ loading # NoLoad /\ loading' = NoLoad /\ error' = TRUE
      /\ ready' = ready \cup {loading.layer}
      /\ UNCHANGED <<status, slotOf, owner, released, queue, pinned, gpu, kernels, transfers,
                     copied>>
    BY DEF LoadFails, layerVars, gpuVars
<1>2. loading.layer \in Layers
    BY <1>1, ItemsTyped
<1>3. LayersTyped' /\ LoadsTyped' /\ GpuTyped'
    BY <1>1, <1>2 DEF Typed, LayersTyped, LoadsTyped, GpuTyped
<1>4. Owners'
    BY <1>1 DEF Owners
<1>5. QueueInv'
    BY <1>1 DEF LoadsInv, QueueInv, LoadingInv, UnderWay
<1>6. LoadingInv' /\ TransfersInv' /\ CopiesInv'
    BY <1>1 DEF LoadsInv, LoadingInv, TransfersInv, CopiesInv, UnderWay
<1>7. KernelsInv'
    BY <1>1 DEF LoadsInv, KernelsInv
<1> QED BY <1>3, <1>4, <1>5, <1>6, <1>7 DEF Rest, LoadsInv

LEMMA KernelEndsRest ==
    ASSUME Sizes, Typed, Owners, LoadsInv, KernelEnds
    PROVE  Rest'
<1>1. /\ kernels # <<>> /\ kernels' = Tail(kernels)
      /\ transfers' = [i \in DOMAIN transfers |->
                          [transfers[i] EXCEPT !.waits = IF @ > 0 THEN @ - 1 ELSE 0]]
      /\ UNCHANGED <<status, slotOf, owner, released, queue, loading, ready, error, pinned, gpu,
                     copied>>
    BY DEF KernelEnds, layerVars, loadVars
<1>2. /\ kernels' \in Seq(Kernels) /\ DOMAIN kernels' = 1 .. Len(kernels) - 1
      /\ Len(kernels) \in Nat
      /\ \A i \in 1 .. Len(kernels) - 1 : i + 1 \in DOMAIN kernels /\ kernels'[i] = kernels[i + 1]
    BY <1>1, ItemsTyped, Shrinks
<1>3. ASSUME NEW i \in DOMAIN transfers
      PROVE  /\ transfers'[i] \in Transfers
             /\ transfers'[i].layer = transfers[i].layer /\ transfers'[i].slot = transfers[i].slot
             /\ transfers'[i].begun = transfers[i].begun
             /\ transfers'[i].waits = (IF transfers[i].waits > 0 THEN transfers[i].waits - 1
                                       ELSE 0)
  <2>1. transfers[i] \in Transfers /\ transfers[i].waits \in Nat
      BY ItemsTyped
  <2>2. (IF transfers[i].waits > 0 THEN transfers[i].waits - 1 ELSE 0) \in Nat
      BY <2>1
  <2>3. transfers'[i] = [transfers[i] EXCEPT !.waits =
                            IF transfers[i].waits > 0 THEN transfers[i].waits - 1 ELSE 0]
      BY <1>1
  <2> QED BY <2>1, <2>2, <2>3 DEF Transfers
<1>4. transfers' \in Seq(Transfers) /\ DOMAIN transfers' = DOMAIN transfers
  <2>1. /\ DOMAIN transfers = 1 .. Len(transfers) /\ Len(transfers) \in Nat
        /\ DOMAIN transfers' = DOMAIN transfers
      BY <1>1, ItemsTyped
  <2>2. transfers' \in [1 .. Len(transfers) -> Transfers]
      BY <1>1, <1>3, <2>1
  <2> QED BY <2>1, <2>2, FunctionIsSequence
<1>5. LayersTyped' /\ LoadsTyped' /\ GpuTyped'
    BY <1>1, <1>2, <1>4 DEF Typed, LayersTyped, LoadsTyped, GpuTyped
<1>6. Owners'
    BY <1>1 DEF Owners
<1>7. QueueInv' /\ LoadingInv' /\ CopiesInv'
    BY <1>1 DEF LoadsInv, QueueInv, LoadingInv, CopiesInv, UnderWay
<1>8. TransfersInv'
  <2>1. ASSUME NEW i \in DOMAIN transfers
        PROVE  /\ status[transfers'[i].layer] = "loading"
               /\ slotOf[transfers'[i].layer] = transfers'[i].slot
               /\ transfers'[i].layer \notin copied /\ transfers'[i].layer \in ready
               /\ pinned[transfers'[i].slot] = transfers'[i].layer
               /\ transfers'[i].begun => transfers'[i].waits = 0
      BY <1>3 DEF LoadsInv, TransfersInv, UnderWay
  <2>2. ASSUME NEW i \in DOMAIN transfers, NEW j \in DOMAIN transfers,
               transfers'[i].layer = transfers'[j].layer
        PROVE  i = j
      BY <1>3, <2>2 DEF LoadsInv, TransfersInv
  <2>3. /\ status' = status /\ slotOf' = slotOf /\ copied' = copied /\ ready' = ready
        /\ pinned' = pinned
      BY <1>1
  <2> QED BY <1>4, <2>1, <2>2, <2>3 DEF TransfersInv, UnderWay
<1>9. KernelsInv'
  <2>1. ASSUME NEW i \in DOMAIN kernels'
        PROVE  LET t == kernels'[i].slot
               IN  /\ gpu[t] = kernels'[i].layer
                   /\ \/ t \in released
                      \/ owner[t] = kernels'[i].layer /\ status[kernels'[i].layer] = "gpu"
                      \/ \E j \in DOMAIN transfers : transfers'[j].slot = t
      BY <1>2, <1>3 DEF LoadsInv, KernelsInv
  <2>2. ASSUME NEW i \in DOMAIN kernels', NEW j \in DOMAIN transfers,
               transfers'[j].slot = kernels'[i].slot
        PROVE  transfers'[j].waits >= i
    <3>0. transfers[j].waits \in Nat
        BY ItemsTyped
    <3>1. i + 1 \in DOMAIN kernels /\ kernels'[i] = kernels[i + 1] /\ i \in Nat
        BY ONLY <1>2
    <3>2. transfers[j].slot = kernels[i + 1].slot
        BY <1>3, <2>2, <3>1
    <3>3. transfers[j].waits >= i + 1
        BY <3>1, <3>2 DEF LoadsInv, KernelsInv
    <3>4. transfers'[j].waits = (IF transfers[j].waits > 0 THEN transfers[j].waits - 1 ELSE 0)
        BY <1>3
    <3> QED BY ONLY <3>0, <3>1, <3>3, <3>4
  <2> QED BY <1>1, <1>4, <2>1, <2>2 DEF KernelsInv
<1> QED BY <1>5, <1>6, <1>7, <1>8, <1>9 DEF Rest, LoadsInv

\* What a copy that waits for nothing overwrites no kernel reads.
LEMMA NoKernelThere ==
    ASSUME Typed, LoadsInv, NEW j \in DOMAIN transfers, transfers[j].waits = 0
    PROVE  \A i \in DOMAIN kernels : kernels[i].slot # transfers[j].slot
<1> SUFFICES ASSUME NEW i \in DOMAIN kernels, kernels[i].slot = transfers[j].slot PROVE FALSE
    OBVIOUS
<1>1. i >= 1 /\ transfers[j].waits >= i
    BY ItemsTyped DEF LoadsInv, KernelsInv
<1> QED BY <1>1, ItemsTyped

LEMMA TransferBeginsRest ==
    ASSUME Sizes, Typed, Owners, LoadsInv, TransferBegins
    PROVE  Rest'
<1> DEFINE h == Head(transfers)
<1>1. /\ transfers # <<>> /\ h.waits = 0
      /\ transfers' = [transfers EXCEPT ![1].begun = TRUE]
      /\ gpu' = [gpu EXCEPT ![h.slot] = NoLayer]
      /\ UNCHANGED <<status, slotOf, owner, released, queue, loading, ready, error, pinned,
                     kernels, copied>>
    BY DEF TransferBegins, layerVars, loadVars
<1>2. 1 \in DOMAIN transfers /\ h = transfers[1]
    BY <1>1, ItemsTyped, Shrinks
<1> HIDE DEF h
<1>3. ASSUME NEW i \in DOMAIN transfers
      PROVE  /\ transfers'[i] \in Transfers
             /\ transfers'[i].layer = transfers[i].layer /\ transfers'[i].slot = transfers[i].slot
             /\ transfers'[i].waits = transfers[i].waits
             /\ i # 1 => transfers'[i] = transfers[i]
  <2>1. transfers[i] \in Transfers
      BY ItemsTyped
  <2>2. transfers'[i] = IF i = 1 THEN [transfers[i] EXCEPT !.begun = TRUE] ELSE transfers[i]
      BY <1>1, <1>2
  <2> QED BY <2>1, <2>2 DEF Transfers
<1>4. transfers' \in Seq(Transfers) /\ DOMAIN transfers' = DOMAIN transfers
  <2>1. /\ DOMAIN transfers = 1 .. Len(transfers) /\ Len(transfers) \in Nat
        /\ DOMAIN transfers' = DOMAIN transfers
      BY <1>1, ItemsTyped
  <2>2. transfers' \in [1 .. Len(transfers) -> Transfers]
      BY <1>1, <1>3, <2>1
  <2> QED BY <2>1, <2>2, FunctionIsSequence
<1>5. /\ h.layer \in Layers /\ h.slot \in Slots /\ UnderWay(h)
      /\ gpu \in [Slots -> Layers \cup {NoLayer}]
    BY <1>2, ItemsTyped DEF LoadsInv, TransfersInv, Typed, GpuTyped
<1>6. \A t \in Slots : t # h.slot => gpu'[t] = gpu[t]
    BY <1>1, <1>5
<1>7. LayersTyped' /\ LoadsTyped' /\ GpuTyped'
    BY <1>1, <1>4, <1>5 DEF Typed, LayersTyped, LoadsTyped, GpuTyped
<1>8. Owners'
    BY <1>1 DEF Owners
<1>9. QueueInv' /\ LoadingInv'
    BY <1>1 DEF LoadsInv, QueueInv, LoadingInv, UnderWay
<1>10. TransfersInv'
  <2>1. ASSUME NEW i \in DOMAIN transfers
        PROVE  /\ UnderWay(transfers[i]) /\ transfers[i].layer \in ready
               /\ pinned[transfers[i].slot] = transfers[i].layer
               /\ transfers'[i].begun => transfers'[i].waits = 0
      BY <1>1, <1>2, <1>3 DEF LoadsInv, TransfersInv
  <2>2. ASSUME NEW i \in DOMAIN transfers, NEW j \in DOMAIN transfers,
               transfers'[i].layer = transfers'[j].layer
        PROVE  i = j
      BY <1>3, <2>2 DEF LoadsInv, TransfersInv
  <2> QED BY <1>1, <1>3, <1>4, <2>1, <2>2 DEF TransfersInv, UnderWay
<1>11. CopiesInv'
  <2>1. ASSUME NEW l \in Layers, l \in copied, status[l] # "cpu"
        PROVE  gpu'[slotOf[l]] = l
    <3>1. gpu[slotOf[l]] = l
        BY <2>1 DEF LoadsInv, CopiesInv
    <3>2. slotOf[l] \in Slots /\ owner[slotOf[l]] = l
      <4>1. slotOf[l] # NoSlot /\ slotOf[l] \in Slots \cup {NoSlot}
          BY <2>1, LayerFunctions DEF Owners, Typed
      <4> QED BY <4>1 DEF Owners
    <3>3. slotOf[l] # h.slot
        BY <1>5, <2>1, <3>2, SlotOwned DEF UnderWay
    <3> QED BY <1>6, <3>1, <3>2, <3>3
  <2> QED BY <1>1, <2>1 DEF LoadsInv, CopiesInv
<1>12. KernelsInv'
  <2>1. ASSUME NEW i \in DOMAIN kernels
        PROVE  LET t == kernels[i].slot
               IN  /\ gpu'[t] = kernels[i].layer
                   /\ \/ t \in released
                      \/ owner[t] = kernels[i].layer /\ status[kernels[i].layer] = "gpu"
                      \/ \E j \in DOMAIN transfers : transfers'[j].slot = t
    <3>1. kernels[i].slot # h.slot
        BY <1>1, <1>2, NoKernelThere
    <3>2. gpu'[kernels[i].slot] = gpu[kernels[i].slot]
        BY <1>6, <3>1, ItemsTyped
    <3> QED BY <1>3, <3>2 DEF LoadsInv, KernelsInv
  <2>2. ASSUME NEW i \in DOMAIN kernels, NEW j \in DOMAIN transfers,
               transfers'[j].slot = kernels[i].slot
        PROVE  transfers'[j].waits >= i
      BY <1>3, <2>2 DEF LoadsInv, KernelsInv
  <2> QED BY <1>1, <1>4, <2>1, <2>2 DEF KernelsInv
<1> QED BY <1>7, <1>8, <1>9, <1>10, <1>11, <1>12 DEF Rest, LoadsInv

LEMMA TransferEndsRest ==
    ASSUME Sizes, Typed, Owners, LoadsInv, TransferEnds
    PROVE  Rest'
<1> DEFINE h == Head(transfers)
<1>1. /\ transfers # <<>> /\ h.begun /\ transfers' = Tail(transfers)
      /\ gpu' = [gpu EXCEPT ![h.slot] = pinned[h.slot]]
      /\ copied' = copied \cup {h.layer}
      /\ UNCHANGED <<status, slotOf, owner, released, queue, loading, ready, error, pinned,
                     kernels>>
    BY DEF TransferEnds, layerVars, loadVars
<1>2. /\ transfers' \in Seq(Transfers) /\ DOMAIN transfers' = 1 .. Len(transfers) - 1
      /\ DOMAIN transfers = 1 .. Len(transfers)
      /\ Len(transfers) \in Nat /\ 1 \in DOMAIN transfers /\ h = transfers[1]
      /\ \A i \in 1 .. Len(transfers) - 1 :
             i + 1 \in DOMAIN transfers /\ i + 1 # 1 /\ transfers'[i] = transfers[i + 1]
    BY <1>1, ItemsTyped, Shrinks
<1> HIDE DEF h
<1>3. /\ h.layer \in Layers /\ h.slot \in Slots /\ UnderWay(h) /\ h.layer \in ready
      /\ pinned[h.slot] = h.layer /\ h.waits = 0
      /\ gpu \in [Slots -> Layers \cup {NoLayer}]
    BY <1>1, <1>2, ItemsTyped DEF LoadsInv, TransfersInv, Typed, GpuTyped
<1>4. /\ \A t \in Slots : t # h.slot => gpu'[t] = gpu[t]
      /\ gpu'[h.slot] = h.layer /\ gpu' \in [Slots -> Layers \cup {NoLayer}]
    BY <1>1, <1>3
<1>5. LayersTyped' /\ LoadsTyped' /\ GpuTyped'
    BY <1>1, <1>2, <1>3, <1>4 DEF Typed, LayersTyped, LoadsTyped, GpuTyped
<1>6. Owners'
    BY <1>1 DEF Owners
<1>7. QueueInv' /\ LoadingInv'
    BY <1>1, <1>3 DEF LoadsInv, QueueInv, LoadingInv, UnderWay
<1>8. TransfersInv'
  <2>1. ASSUME NEW i \in DOMAIN transfers'
        PROVE  /\ UnderWay(transfers[i + 1]) /\ transfers[i + 1].layer \in ready
               /\ pinned[transfers[i + 1].slot] = transfers[i + 1].layer
               /\ transfers[i + 1].begun => transfers[i + 1].waits = 0
               /\ transfers[i + 1].layer # h.layer
               /\ transfers'[i] = transfers[i + 1]
      BY <1>2 DEF LoadsInv, TransfersInv
  <2>2. ASSUME NEW i \in DOMAIN transfers', NEW j \in DOMAIN transfers',
               transfers'[i].layer = transfers'[j].layer
        PROVE  i = j
    <3>0. /\ i + 1 \in DOMAIN transfers /\ j + 1 \in DOMAIN transfers
          /\ transfers[i + 1].layer = transfers[j + 1].layer
        BY <1>2, <2>2
    <3>1. i + 1 = j + 1
      <4>1. \A p, r \in DOMAIN transfers : transfers[p].layer = transfers[r].layer => p = r
          BY DEF LoadsInv, TransfersInv
      <4> QED BY <3>0, <4>1
    <3>2. i \in Int /\ j \in Int
        BY <1>2
    <3> QED BY <3>1, <3>2
  <2> QED BY <1>1, <2>1, <2>2 DEF TransfersInv, UnderWay
<1>9. CopiesInv'
  <2>1. ASSUME NEW l \in Layers, l \in copied', status[l] # "cpu"
        PROVE  gpu'[slotOf[l]] = l
    <3>1. CASE l = h.layer
        BY <1>3, <1>4, <3>1 DEF UnderWay
    <3>2. CASE l # h.layer
      <4>1. gpu[slotOf[l]] = l
          BY <1>1, <2>1, <3>2 DEF LoadsInv, CopiesInv
      <4>2. slotOf[l] \in Slots /\ owner[slotOf[l]] = l
        <5>1. slotOf[l] # NoSlot /\ slotOf[l] \in Slots \cup {NoSlot}
            BY <2>1, LayerFunctions DEF Owners, Typed
        <5> QED BY <5>1 DEF Owners
      <4>3. slotOf[l] # h.slot
          BY <1>3, <3>2, <4>2, SlotOwned
      <4> QED BY <1>4, <4>1, <4>2, <4>3
    <3> QED BY <3>1, <3>2
  <2> QED BY <1>1, <2>1 DEF LoadsInv, CopiesInv
<1>10. KernelsInv'
  <2>1. ASSUME NEW i \in DOMAIN kernels
        PROVE  LET t == kernels[i].slot
               IN  /\ gpu'[t] = kernels[i].layer
                   /\ \/ t \in released
                      \/ owner[t] = kernels[i].layer /\ status[kernels[i].layer] = "gpu"
                      \/ \E j \in DOMAIN transfers' : transfers'[j].slot = t
    <3>1. kernels[i].slot # h.slot
        BY <1>2, <1>3, NoKernelThere
    <3>2. gpu'[kernels[i].slot] = gpu[kernels[i].slot]
        BY <1>4, <3>1, ItemsTyped
    <3>3. ASSUME NEW j \in DOMAIN transfers, transfers[j].slot = kernels[i].slot
          PROVE  \E k \in DOMAIN transfers' : transfers'[k].slot = kernels[i].slot
      <4>1. j # 1
          BY <1>2, <3>1, <3>3
      <4>2. j - 1 \in 1 .. Len(transfers) - 1 /\ (j - 1) + 1 = j
          BY <1>2, <4>1
      <4> QED BY <1>2, <3>3, <4>2
    <3> QED BY <3>2, <3>3 DEF LoadsInv, KernelsInv
  <2>2. ASSUME NEW i \in DOMAIN kernels, NEW j \in DOMAIN transfers',
               transfers'[j].slot = kernels[i].slot
        PROVE  transfers'[j].waits >= i
      BY <1>2, <2>2 DEF LoadsInv, KernelsInv
  <2> QED BY <1>1, <2>1, <2>2 DEF KernelsInv
<1> QED BY <1>5, <1>6, <1>7, <1>8, <1>9, <1>10 DEF Rest, LoadsInv

(***************************************************************************)
(* The whole invariant, and what it says of slots and windows.             *)
(***************************************************************************)
IInv == Typed /\ ThreadInv /\ Owners /\ LoadsInv /\ SlotsSuffice

LEMMA WindowSize ==
    ASSUME NEW a \in Int, resident \in Nat, NEW S, S \subseteq Window(a)
    PROVE  IsFiniteSet(S) /\ Cardinality(S) <= resident
<1> DEFINE I == a .. (a + resident) - 1
<1>1. /\ IsFiniteSet(I)
      /\ Cardinality(I) = IF a <= (a + resident) - 1 THEN ((a + resident) - 1) - a + 1 ELSE 0
  <2>1. (a + resident) - 1 \in Int
      OBVIOUS
  <2> QED BY <2>1, FS_Interval
<1>2. Cardinality(I) <= resident /\ Cardinality(I) \in Nat
  <2>1. CASE a <= (a + resident) - 1
    <3>1. ((a + resident) - 1) - a + 1 = resident
        OBVIOUS
    <3> QED BY <1>1, <2>1, <3>1
  <2>2. CASE ~ (a <= (a + resident) - 1)
      BY <1>1, <2>2
  <2> QED BY <2>1, <2>2
<1>3. S \subseteq I
  <2> SUFFICES ASSUME NEW y \in S, ~ (y \in I) PROVE FALSE
      OBVIOUS
  <2>1. y \in Layers /\ a <= y /\ y < a + resident
      BY DEF Window
  <2>2. y \in Int
      BY <2>1 DEF Layers
  <2> QED BY <2>1, <2>2
<1> HIDE DEF I
<1>4. IsFiniteSet(S) /\ Cardinality(S) <= Cardinality(I) /\ Cardinality(S) \in Nat
    BY <1>1, <1>3, FS_Subset, FS_CardinalityType
<1> QED BY <1>2, <1>4

\* What is loaded, with what the head of a hook fetches, is of one window.
LEMMA LoadedWindow ==
    ASSUME ThreadInv
    PROVE  \E c \in Int :
               /\ Loaded \subseteq Window(c)
               /\ todo # <<>> /\ Fetch(Head(todo)) => Head(todo).layer \in Window(c)
<1>1. PICK a, b, x \in Int : Bounded(todo, Loaded, Window(a), Window(b), x)
    BY DEF ThreadInv, WindowInv
<1>2. todo # <<>> => 1 \in DOMAIN todo /\ Head(todo) = todo[1]
    BY DEF ThreadInv, ThreadTyped
<1>3. CASE Drops(todo, 1, x)
    BY <1>1, <1>2, <1>3 DEF Bounded
<1>4. CASE ~ Drops(todo, 1, x)
    BY <1>1, <1>2, <1>4 DEF Bounded
<1> QED BY <1>3, <1>4

\* A layer that is to be fetched and is not there finds a free slot: otherwise each slot
\* would have a layer of its own, and with this one there would be too many for a window.
LEMMA SlotFree ==
    ASSUME Sizes, Typed, ThreadInv, Owners, todo # <<>>, Head(todo).op = "load",
           Head(todo).layer \in Layers, status[Head(todo).layer] = "cpu"
    PROVE  FreeSlots # {}
<1> SUFFICES ASSUME FreeSlots = {} PROVE FALSE
    OBVIOUS
<1> DEFINE l == Head(todo).layer
<1>1. PICK c \in Int : Loaded \cup {l} \subseteq Window(c)
    BY LoadedWindow DEF Fetch
<1>2. /\ resident \in Nat /\ resident <= NumSlots /\ NumSlots \in Nat
    BY SizesUsed DEF ThreadInv, ThreadTyped
<1>3. IsFiniteSet(Loaded \cup {l}) /\ Cardinality(Loaded \cup {l}) <= resident
    BY <1>1, <1>2, WindowSize
<1>4. l \notin Loaded
    BY DEF Loaded
<1>5. IsFiniteSet(Loaded) /\ Cardinality(Loaded) \in Nat
  <2>1. Loaded \subseteq Loaded \cup {l}
      OBVIOUS
  <2> QED BY <1>3, <2>1, FS_Subset, FS_CardinalityType
<1>6. Cardinality(Loaded \cup {l}) = Cardinality(Loaded) + 1
    BY <1>4, <1>5, FS_AddElement
<1>7. IsFiniteSet(Slots) /\ Cardinality(Slots) = NumSlots
  <2>1. Cardinality(1 .. NumSlots) = IF 1 <= NumSlots THEN NumSlots - 1 + 1 ELSE 0
      BY <1>2, FS_Interval
  <2>2. IsFiniteSet(1 .. NumSlots)
      BY <1>2, FS_Interval
  <2>3. Cardinality(1 .. NumSlots) = NumSlots
    <3>1. 1 <= NumSlots => NumSlots - 1 + 1 = NumSlots
        BY <1>2
    <3>2. ~ (1 <= NumSlots) => NumSlots = 0
        BY <1>2
    <3> QED BY <2>1, <3>1, <3>2
  <2> QED BY <2>2, <2>3 DEF Slots
<1>8. \A t \in Slots : owner[t] \in Loaded /\ slotOf[owner[t]] = t
  <2> TAKE t \in Slots
  <2>1. owner[t] # NoLayer
      BY DEF FreeSlots
  <2>2. owner[t] \in Layers
      BY <2>1, LayerFunctions DEF Typed
  <2>3. slotOf[owner[t]] = t /\ t # NoSlot
      BY <2>1, LayerFacts DEF Owners
  <2>4. status[owner[t]] # "cpu"
      BY <2>2, <2>3 DEF Owners
  <2> QED BY <2>2, <2>3, <2>4 DEF Loaded
<1>9. Cardinality(Slots) <= Cardinality(Loaded)
  <2> DEFINE f == [t \in Slots |-> owner[t]]
  <2>1. f \in Injection(Slots, Loaded)
    <3>1. f \in [Slots -> Loaded]
        BY <1>8
    <3>2. \A t, u \in Slots : f[t] = f[u] => t = u
      <4> SUFFICES ASSUME NEW t \in Slots, NEW u \in Slots, owner[t] = owner[u] PROVE t = u
          OBVIOUS
      <4>1. slotOf[owner[t]] = t /\ slotOf[owner[u]] = u
          BY <1>8
      <4> QED BY <4>1
    <3> QED BY <3>1, <3>2 DEF Injection, IsInjective
  <2>2. \E g : g \in Injection(Slots, Loaded)
      BY <2>1
  <2> QED BY <1>5, <2>2, FS_Injection DEF ExistsInjection
<1> QED BY <1>2, <1>3, <1>5, <1>6, <1>7, <1>9

\* A kernel at the head of a hook finds its layer on the GPU.
LEMMA KernelReady ==
    ASSUME Sizes, Typed, ThreadInv, todo # <<>>, Head(todo).op = "kernel"
    PROVE  status[Head(todo).layer] = "gpu"
<1>1. 1 \in DOMAIN todo /\ Head(todo) = todo[1]
    BY HeadFacts
<1>2. ~ \E k \in 1 .. 1 - 1 : Finish(todo[k], todo[1].layer)
    OBVIOUS
<1> QED BY <1>1, <1>2 DEF ThreadInv, FedInv, Fed

LEMMA InitInv == Sizes /\ StreamInit => IInv
<1> SUFFICES ASSUME Sizes, StreamInit PROVE IInv
    OBVIOUS
<1> USE DEF StreamInit
<1>1. 0 \in Layers
    BY DEF Sizes, Layers
<1>2. ThreadTyped
  <2>1. \A S : <<>> \in Seq(S)
      OBVIOUS
  <2>2. DOMAIN todo = {}
    <3>1. todo = <<>>
        OBVIOUS
    <3> QED BY ONLY <3>1
  <2>3. LayersOnly(todo)
      BY ONLY <2>2 DEF LayersOnly
  <2>4. todo \in Seq(Op)
    <3>1. todo = <<>>
        OBVIOUS
    <3> QED BY ONLY <3>1, <2>1
  <2> QED BY <1>1, <2>3, <2>4 DEF ThreadTyped
<1>3. Typed
  <2>1. \A S : <<>> \in Seq(S)
      OBVIOUS
  <2>2. LayersTyped
      BY DEF LayersTyped
  <2>3. LoadsTyped
    <3>1. queue \in Seq(Loads)
        BY <2>1
    <3>2. pinned \in [Slots -> Layers \cup {NoLayer}]
        OBVIOUS
    <3> QED BY <3>1, <3>2 DEF LoadsTyped
  <2>4. GpuTyped
    <3>1. kernels \in Seq(Kernels) /\ transfers \in Seq(Transfers)
        BY <2>1
    <3>2. gpu \in [Slots -> Layers \cup {NoLayer}]
        OBVIOUS
    <3> QED BY <3>1, <3>2 DEF GpuTyped
  <2> QED BY <1>2, <2>2, <2>3, <2>4 DEF Typed
<1>4. Loaded = {} /\ ~ \E x : Drops(todo, 1, x)
    BY DEF Loaded, Drops
<1>5. \A A, x : Bounded(todo, Loaded, A, A, x)
    BY <1>4 DEF Bounded
<1>6. WindowInv
  <2>1. Base = 0 /\ 0 \in Int
      BY DEF Base
  <2> QED BY <1>5, <2>1 DEF WindowInv
<1>7. EmptyInv
    BY <1>4 DEF EmptyInv, Bounded
<1>8. FedInv
    BY DEF FedInv, Fed
<1>9. Owners
    BY DEF Owners
<1>10. LoadsInv
    BY DEF LoadsInv, QueueInv, LoadingInv, TransfersInv, CopiesInv, KernelsInv
<1> QED BY <1>2, <1>3, <1>6, <1>7, <1>8, <1>9, <1>10 DEF IInv, ThreadInv, SlotsSuffice

\* The parts of the invariant after a step, of which the thread's has its types.
LEMMA Together ==
    ASSUME ThreadInv', Rest', SlotsSuffice'
    PROVE  IInv'
BY DEF IInv, Typed, ThreadInv, Rest

LEMMA HookInv ==
    ASSUME Sizes, IInv, Hook
    PROVE  IInv'
<1> DEFINE op == Head(todo).op
           l == Head(todo).layer
<1>1. Typed /\ ThreadInv /\ Owners /\ LoadsInv /\ SlotsSuffice
    BY DEF IInv
<1>2. todo # <<>> /\ stage # "failed" /\ HookStep(op, l)
    BY <1>1, HookIsStep
<1>3. Raises(op, l) => error
    BY <1>1, <1>2, SlotFree DEF Raises
<1>4. op = "kernel" => status[l] = "gpu"
    BY <1>1, <1>2, KernelReady
<1>5. PICK o : o = op
    OBVIOUS
<1>6. PICK y : y = l
    OBVIOUS
<1>7. HookStep(o, y) /\ Head(todo).op = o /\ Head(todo).layer = y
      /\ (Raises(o, y) => error) /\ (o = "kernel" => status[y] = "gpu")
    BY <1>2, <1>3, <1>4, <1>5, <1>6
<1> HIDE DEF op, l
<1>8. ThreadInv'
    BY <1>1, <1>2, <1>7, StepGoesOn, GoesOnThread, RaisesThread
<1>9. Rest'
  <2>1. Raises(o, y) => UNCHANGED <<layerVars, loadVars, gpuVars>>
      BY DEF Raises
  <2>2. Skips(o, y) \/ LoadsFirst(o, y) \/ WaitsFirst(o, y) \/ OffloadsNext(o, y)
            => UNCHANGED <<layerVars, loadVars, gpuVars>>
      BY DEF Skips, LoadsFirst, WaitsFirst, OffloadsNext, Replaces, Others
  <2>3. UNCHANGED <<layerVars, loadVars, gpuVars>> => Rest'
      BY <1>1, RestKept
  <2>4. (\E s \in Slots : Requests(o, y, s)) => Rest'
      BY <1>1, RequestsRest
  <2>5. Finishes(o, y) => Rest'
      BY <1>1, FinishesRest
  <2>6. Offloads(o, y) => Rest'
      BY <1>1, OffloadsRest
  <2>7. Launches(o, y) => Rest'
    <3>1. Launches(o, y) => o = "kernel"
        BY DEF Launches
    <3> QED BY <1>1, <1>7, <3>1, LaunchesRest
  <2>8. \/ Raises(o, y)
        \/ Skips(o, y) \/ LoadsFirst(o, y) \/ WaitsFirst(o, y) \/ OffloadsNext(o, y)
        \/ \E s \in Slots : Requests(o, y, s)
        \/ Finishes(o, y) \/ Offloads(o, y) \/ Launches(o, y)
      BY <1>7 DEF HookStep
  <2> QED BY <2>1, <2>2, <2>3, <2>4, <2>5, <2>6, <2>7, <2>8
<1>10. SlotsSuffice'
  <2>1. error' = error /\ (~ Raises(o, y) => stage' = stage)
      BY <1>7 DEF HookStep, Raises, Skips, LoadsFirst, WaitsFirst, OffloadsNext, Requests, Finishes,
                  Offloads, Launches, Replaces, Others, threadVars, loadVars
  <2> QED BY <1>1, <1>7, <2>1 DEF SlotsSuffice
<1> QED BY <1>8, <1>9, <1>10, Together

LEMMA ThreadStepInv ==
    ASSUME Sizes, IInv, BeginJob \/ Between
    PROVE  IInv'
<1>1. Typed /\ ThreadInv /\ Owners /\ LoadsInv
    BY DEF IInv
<1>2. ThreadInv'
    BY <1>1, BeginJobThread, BeginPassThread, GoForwardThread, GoBackwardThread, FinishJobThread
       DEF Between
<1>3. UNCHANGED <<layerVars, loadVars, gpuVars>> /\ stage' # "failed"
    BY DEF BeginJob, Between, BeginPass, GoForward, GoBackward, FinishJob, Free
<1>4. Rest'
    BY <1>1, <1>3, RestKept
<1>5. SlotsSuffice'
    BY <1>3 DEF SlotsSuffice
<1> QED BY <1>2, <1>4, <1>5, Together

LEMMA OtherStepInv ==
    ASSUME Sizes, IInv, Loader \/ LoadFails \/ Device
    PROVE  IInv'
<1>1. Typed /\ ThreadInv /\ Owners /\ LoadsInv /\ SlotsSuffice
    BY DEF IInv
<1>2. UNCHANGED <<threadVars, todo, layerVars>> /\ (error => error')
    BY DEF Loader, Device, Take, Pin, RunLoad, LoadFails, KernelEnds, TransferBegins, TransferEnds,
           loadVars
<1>3. ThreadInv'
    BY <1>1, <1>2, ThreadKept
<1>4. Rest'
    BY <1>1, TakeRest, PinRest, RunLoadRest, LoadFailsRest, KernelEndsRest, TransferBeginsRest,
       TransferEndsRest DEF Loader, Device
<1>5. SlotsSuffice'
    BY <1>1, <1>2 DEF SlotsSuffice, threadVars
<1> QED BY <1>3, <1>4, <1>5, Together

LEMMA NextInv == Sizes /\ IInv /\ [StreamNext]_streamVars => IInv'
<1> SUFFICES ASSUME Sizes, IInv, [StreamNext]_streamVars PROVE IInv'
    OBVIOUS
<1>1. CASE UNCHANGED streamVars
  <2>1. UNCHANGED <<threadVars, todo, layerVars, loadVars, gpuVars>> /\ stage' = stage
        /\ error' = error
      BY <1>1 DEF streamVars, threadVars, loadVars
  <2>2. ThreadInv' /\ Rest'
      BY <2>1, ThreadKept, RestKept DEF IInv
  <2>3. SlotsSuffice'
      BY <2>1 DEF IInv, SlotsSuffice
  <2> QED BY <2>2, <2>3, Together
<1>2. CASE StreamNext
    BY <1>2, HookInv, ThreadStepInv, OtherStepInv DEF StreamNext
<1> QED BY <1>1, <1>2

LEMMA SizesHold == Sizes
BY SizesAssumption DEF Sizes

\* The inductive invariant of the thread, its hooks, the slots, the loads and the streams.
THEOREM Invariant == StreamSpec => []IInv
<1>1. StreamInit => IInv
    BY InitInv, SizesHold
<1>2. IInv /\ [StreamNext]_streamVars => IInv'
    BY NextInv, SizesHold
<1> QED BY <1>1, <1>2, PTL DEF StreamSpec

\* A layer has the slot that has it, and none while its weights are not on the GPU, through
\* every load, failed load and offload.
THEOREM TypeCorrect == StreamSpec => []StreamTypeOK
<1>1. IInv => StreamTypeOK
    BY DEF IInv, Typed, ThreadTyped, LayersTyped, LoadsTyped, Owners, StreamTypeOK
<1> QED BY <1>1, Invariant, PTL

\* A kernel reads the weights of its layer from its launch to its end, although its slot
\* may be another layer's as soon as it is launched: in every order in which the two
\* threads and the two streams go on.
THEOREM KernelsSeeWeightsHolds == StreamSpec => []KernelsSeeWeights
<1>1. IInv => KernelsSeeWeights
    BY DEF IInv, LoadsInv, KernelsInv, KernelsSeeWeights
<1> QED BY <1>1, Invariant, PTL

\* "No free load slots" is never raised: for any number of layers and slots, any
\* resident_layers that from_env accepts, and every sequence of passes, training ends early
\* only after a load that failed.
THEOREM SlotsSufficeHolds == StreamSpec => []SlotsSuffice
<1>1. IInv => SlotsSuffice
    BY DEF IInv
<1> QED BY <1>1, Invariant, PTL

\* No more than resident_layers layers are on the GPU or on their way to it, also while a
\* hook is half done and where the forward pass turns into the backward pass.
THEOREM ResidentBoundHolds == StreamSpec => []ResidentBound
<1>1. ASSUME IInv PROVE ResidentBound
  <2>1. PICK c \in Int : Loaded \subseteq Window(c)
      BY <1>1, LoadedWindow DEF IInv
  <2>2. resident \in Nat
      BY <1>1, SizesHold, SizesUsed DEF IInv, ThreadInv, ThreadTyped
  <2> QED BY <2>1, <2>2, WindowSize DEF ResidentBound, Loaded
<1> QED BY <1>1, Invariant, PTL

\* When a job is finished no layer is left on the GPU or on its way to it, whatever the
\* loads that were under way.
THEOREM IdleMeansOffloadedHolds == StreamSpec => []IdleMeansOffloaded
<1>1. ASSUME IInv PROVE IdleMeansOffloaded
  <2> SUFFICES ASSUME stage = "idle", todo = <<>>, NEW l \in Layers PROVE status[l] = "cpu"
      BY DEF IdleMeansOffloaded
  <2>1. Bounded(todo, Loaded, Layers, Layers \ {l}, l)
      BY <1>1 DEF IInv, ThreadInv, EmptyInv
  <2>2. ~ Drops(todo, 1, l)
      BY DEF Drops
  <2> QED BY <2>1, <2>2 DEF Bounded, Loaded
<1> QED BY <1>1, Invariant, PTL

\* The four together.
THEOREM StreamingIsSafe == StreamSpec => []StreamingSafe
<1>1. KernelsSeeWeights /\ SlotsSuffice /\ ResidentBound /\ IdleMeansOffloaded => StreamingSafe
    BY DEF StreamingSafe
<1> QED BY <1>1, KernelsSeeWeightsHolds, SlotsSufficeHolds, ResidentBoundHolds,
           IdleMeansOffloadedHolds, PTL

(***************************************************************************)
(* PrefixMask.                                                             *)
(***************************************************************************)
\* A pair in a block that the mask takes as full sees.
LEMMA FullSees ==
    ASSUME NEW m, NEW qb, NEW kb, BlockKind(m, qb, kb) = "full",
           NEW i \in Block(qb, m.qBlock, m.q) \cap Filled(m.q),
           NEW j \in Block(kb, m.kBlock, m.k) \cap Filled(m.k)
    PROVE  Sees(m, m.q[i], m.k[j])
<1> DEFINE qs == Block(qb, m.qBlock, m.q)
           ks == Block(kb, m.kBlock, m.k)
           pairs == {x \in qs : m.q[x] # 0} \X {x \in ks : m.k[x] # 0}
<1>1. <<i, j>> \in pairs
    BY DEF Filled
<1>2. CASE m.window = 0
  <2>1. \A p \in pairs : m.q[p[1]] >= m.k[p[2]] /\ InSubtree(m, m.q[p[1]], m.k[p[2]])
      BY <1>2 DEF BlockKind
  <2> QED BY <1>1, <1>2, <2>1 DEF Sees, InWindow
<1>3. CASE m.window # 0
  <2>1. \A p \in pairs : Sees(m, m.q[p[1]], m.k[p[2]])
      BY <1>3 DEF BlockKind
  <2> QED BY <1>1, <2>1
<1> QED BY <1>2, <1>3

\* Max and Min of a finite set of integers.
LEMMA MaxIs ==
    ASSUME NEW S \in SUBSET Int, IsFiniteSet(S), S # {}
    PROVE  Max(S) \in S /\ \A y \in S : Max(S) >= y
<1> DEFINE R == OpToRel(<, Nat)
           above(x) == {y \in S : y > x}
           N == {Cardinality(above(x)) : x \in S}
<1>1. \A x, y \in Nat : y < x => <<y, x>> \in R
    BY DEF OpToRel
<1>2. IsWellFoundedOn(R, Nat)
    BY NatLessThanWellFounded
<1>3. \A x \in S : IsFiniteSet(above(x)) /\ Cardinality(above(x)) \in Nat
    BY FS_Subset, FS_CardinalityType
<1>4. N \subseteq Nat /\ N # {}
    BY <1>3
<1> HIDE DEF R, N
<1>5. PICK n \in N : \A k \in N : ~ (<<k, n>> \in R)
    BY <1>2, <1>4, WFMin
<1>6. PICK x \in S : n = Cardinality(above(x))
    BY DEF N
<1>7. ASSUME NEW y \in S PROVE x >= y
  <2>1. SUFFICES ASSUME y > x PROVE FALSE
      OBVIOUS
  <2>0. \A z \in S : z \in Int
      OBVIOUS
  <2>2. above(y) \in SUBSET above(x) /\ y \in above(x) /\ y \notin above(y)
    <3>1. /\ \A z \in S : z > y => z > x
          /\ ~ (y > y)
        BY <2>0, <2>1
    <3>2. \A z : z \in above(y) => z \in above(x)
        BY <3>1
    <3>3. y \in above(x)
        BY <2>1
    <3>4. y \notin above(y)
        BY <3>1
    <3> HIDE DEF above
    <3> QED BY <3>2, <3>3, <3>4
  <2>3. Cardinality(above(y)) <= n /\ Cardinality(above(y)) # n
      BY <1>3, <1>6, <2>2, FS_Subset
  <2>4. Cardinality(above(y)) \in N
      BY DEF N
  <2>5. n \in Nat /\ Cardinality(above(y)) \in Nat
      BY <1>3, <1>4
  <2>6. Cardinality(above(y)) < n
      BY ONLY <2>3, <2>5
  <2> QED BY <1>1, <1>5, <2>4, <2>5, <2>6
<1>8. \E m \in S : \A y \in S : m >= y
    BY <1>7
<1> QED BY <1>8 DEF Max

\* By the greatest of the opposites.
LEMMA MinIs ==
    ASSUME NEW S \in SUBSET Int, IsFiniteSet(S), S # {}
    PROVE  Min(S) \in S /\ \A y \in S : Min(S) <= y
<1> DEFINE T == {-x : x \in S}
           f == [x \in S |-> -x]
<1>1. f \in Surjection(S, T)
    BY DEF Surjection
<1>2. IsFiniteSet(T)
    BY <1>1, FS_Surjection
<1>3. T \in SUBSET Int /\ T # {}
  <2>1. \A x \in S : x \in Int
      OBVIOUS
  <2>2. \A x \in Int : -x \in Int
      OBVIOUS
  <2> QED BY <2>1, <2>2
<1>4. Max(T) \in T /\ \A y \in T : Max(T) >= y
    BY <1>2, <1>3, MaxIs
<1>5. PICK x \in S : Max(T) = -x
    BY <1>4
<1>6. \A y \in S : x <= y
  <2> TAKE y \in S
  <2>1. -y \in T /\ y \in Int /\ x \in Int
      OBVIOUS
  <2>2. -x >= -y
      BY <1>4, <1>5, <2>1
  <2> QED BY ONLY <2>1, <2>2
<1>7. \E m \in S : \A y \in S : m <= y
    BY <1>6
<1> QED BY <1>7 DEF Min

\* The greatest and the least of the values at the places T of a sequence.
LEMMA Extremes ==
    ASSUME NEW T, IsFiniteSet(T), NEW g, \A x \in T : g[x] \in Int, NEW i \in T
    PROVE  LET V == {g[x] : x \in T}
           IN  /\ Max(V) \in Int /\ Min(V) \in Int
               /\ g[i] <= Max(V) /\ Min(V) <= g[i]
<1> DEFINE V == {g[x] : x \in T}
           f == [x \in T |-> g[x]]
<1>1. f \in Surjection(T, V)
    BY DEF Surjection
<1>2. IsFiniteSet(V)
    BY <1>1, FS_Surjection
<1>3. V \in SUBSET Int /\ V # {} /\ g[i] \in V
    OBVIOUS
<1> HIDE DEF V
<1>4. Max(V) \in V /\ \A y \in V : Max(V) >= y
    BY <1>2, <1>3, MaxIs
<1>5. Min(V) \in V /\ \A y \in V : Min(V) <= y
    BY <1>2, <1>3, MinIs
<1> QED BY <1>3, <1>4, <1>5 DEF V

\* A slice touches a block of a pair of it that sees.
LEMMA PairTouches ==
    ASSUME NEW m, MaskFits(m), NEW s \in m.slices,
           NEW qs \in SUBSET s.q, NEW ks \in SUBSET s.k, NEW i \in qs, NEW j \in ks,
           Sees(m, m.q[i], m.k[j])
    PROVE  Touches(m, s, qs, ks)
<1>0. m.q \in Seq(Int) /\ m.k \in Seq(Int)
    BY DEF MaskFits
<1>1. /\ qs \subseteq Filled(m.q) /\ ks \subseteq Filled(m.k)
      /\ i \in Filled(m.q) /\ j \in Filled(m.k)
    BY DEF MaskFits
<1>2. IsFiniteSet(qs) /\ IsFiniteSet(ks)
  <2>1. DOMAIN m.q = 1 .. Len(m.q) /\ Len(m.q) \in Int
        /\ DOMAIN m.k = 1 .. Len(m.k) /\ Len(m.k) \in Int
      BY ONLY <1>0
  <2>2. IsFiniteSet(1 .. Len(m.q)) /\ IsFiniteSet(1 .. Len(m.k))
      BY <2>1, FS_Interval
  <2>3. qs \in SUBSET (1 .. Len(m.q)) /\ ks \in SUBSET (1 .. Len(m.k))
      BY <1>1, <2>1 DEF Filled
  <2> QED BY <2>2, <2>3, FS_Subset
<1>3. m.q[i] >= m.k[j]
    BY DEF Sees
<1>4. Max(Values(m.q, qs)) >= Min(Values(m.k, ks))
  <2>1. (\A x \in qs : m.q[x] \in Int) /\ (\A x \in ks : m.k[x] \in Int)
    <3>1. (\A x \in DOMAIN m.q : m.q[x] \in Int) /\ (\A x \in DOMAIN m.k : m.k[x] \in Int)
        BY ONLY <1>0
    <3> QED BY ONLY <1>1, <3>1 DEF Filled
  <2>2. Max(Values(m.q, qs)) \in Int /\ m.q[i] <= Max(Values(m.q, qs))
      BY <1>2, <2>1, Extremes DEF Values
  <2>3. Min(Values(m.k, ks)) \in Int /\ Min(Values(m.k, ks)) <= m.k[j]
      BY <1>2, <2>1, Extremes DEF Values
  <2>4. m.q[i] \in Int /\ m.k[j] \in Int
      BY <2>1
  <2> QED BY ONLY <1>3, <2>2, <2>3, <2>4
<1>5. ASSUME m.window # 0
      PROVE  /\ Max(Places(m, m.q, qs)) >= Min(Places(m, m.k, ks))
             /\ Min(Places(m, m.q, qs)) - Max(Places(m, m.k, ks)) < m.window
  <2> DEFINE f == [x \in qs |-> m.pos[m.q[x]]]
             g == [x \in ks |-> m.pos[m.k[x]]]
  <2>1. (\A x \in qs : f[x] \in Int) /\ (\A x \in ks : g[x] \in Int)
      BY <1>1 DEF MaskFits
  <2>2. f[i] = m.pos[m.q[i]] /\ g[j] = m.pos[m.k[j]] /\ f[i] \in Int /\ g[j] \in Int
      BY <2>1
  <2>3. f[i] - g[j] \in 0 .. m.window - 1 /\ m.window \in Int
      BY <1>5, <2>2 DEF MaskFits, Sees, InWindow
  <2>4. Places(m, m.q, qs) = {f[x] : x \in qs} /\ Places(m, m.k, ks) = {g[x] : x \in ks}
      BY DEF Places
  <2> HIDE DEF f, g
  <2>5. /\ Max(Places(m, m.q, qs)) \in Int /\ Min(Places(m, m.q, qs)) \in Int
        /\ f[i] <= Max(Places(m, m.q, qs)) /\ Min(Places(m, m.q, qs)) <= f[i]
      BY <1>2, <2>1, <2>4, Extremes
  <2>6. /\ Max(Places(m, m.k, ks)) \in Int /\ Min(Places(m, m.k, ks)) \in Int
        /\ g[j] <= Max(Places(m, m.k, ks)) /\ Min(Places(m, m.k, ks)) <= g[j]
      BY <1>2, <2>1, <2>4, Extremes
  <2> QED BY ONLY <2>2, <2>3, <2>5, <2>6
<1> QED BY <1>4, <1>5 DEF Touches

\* A block with a pair that sees is not passed over.
LEMMA NoneSees ==
    ASSUME NEW m, MaskFits(m), NEW qb, NEW kb,
           NEW i \in Block(qb, m.qBlock, m.q) \cap Filled(m.q),
           NEW j \in Block(kb, m.kBlock, m.k) \cap Filled(m.k),
           Sees(m, m.q[i], m.k[j])
    PROVE  BlockKind(m, qb, kb) \in {"full", "partial"}
<1> DEFINE qs == Block(qb, m.qBlock, m.q)
           ks == Block(kb, m.kBlock, m.k)
           touching == {s \in m.slices : Touches(m, s, s.q \cap qs, s.k \cap ks)}
           filling == {s \in m.slices : Fills(m, s, s.q \cap qs, s.k \cap ks)}
           pairs == {x \in qs : m.q[x] # 0} \X {x \in ks : m.k[x] # 0}
           guess == IF filling # {} THEN "full"
                    ELSE IF touching # {} THEN "partial" ELSE "none"
<1>1. <<i, j>> \in pairs /\ m.q[i] >= m.k[j] /\ InSubtree(m, m.q[i], m.k[j])
    BY DEF Filled, Sees
<1>2. touching # {}
  <2>1. PICK s \in m.slices : i \in s.q /\ j \in s.k
      BY DEF MaskFits
  <2> QED BY <2>1, PairTouches
<1>3. guess \in {"full", "partial"}
    BY <1>2
<1>4. \E p \in pairs : m.q[p[1]] >= m.k[p[2]] /\ InSubtree(m, m.q[p[1]], m.k[p[2]])
    BY <1>1
<1>5. \E p \in pairs : Sees(m, m.q[p[1]], m.k[p[2]])
    BY <1>1
<1> QED BY <1>3, <1>4, <1>5 DEF BlockKind

\* Two multiples of a size, and a number from the one to less than the next of the other.
LEMMA NotBetween ==
    ASSUME NEW a \in Int, NEW c \in Int, NEW size \in Int, NEW x \in Int,
           c <= a, x < c + size, a + size <= x
    PROVE  FALSE
OBVIOUS

LEMMA Divided ==
    ASSUME NEW x \in Nat, NEW s \in Nat, s >= 1
    PROVE  x \div s \in Nat /\ s * (x \div s) <= x /\ x < s * (x \div s) + s
OBVIOUS

\* The block of the n-th of len items, counted from 1, is one of the blocks.
LEMMA BlockOf ==
    ASSUME NEW seq \in Seq(Int), NEW size \in Nat \ {0}, NEW i \in DOMAIN seq
    PROVE  LET b == (i - 1) \div size + 1
           IN  b \in 1 .. BlockCount(seq, size) /\ i \in Block(b, size, seq)
<1> DEFINE a == (i - 1) \div size
           c == ((Len(seq) + size) - 1) \div size
           n == Len(seq)
<1>1. /\ n \in Nat /\ size \in Nat /\ size >= 1
      /\ i \in Nat /\ i >= 1 /\ i <= n /\ DOMAIN seq = 1 .. n
    OBVIOUS
<1>2. a \in Nat /\ size * a <= i - 1 /\ i - 1 < size * a + size
  <2>1. i - 1 \in Nat
      BY ONLY <1>1
  <2> QED BY ONLY <1>1, <2>1, Divided
<1>3. c \in Nat /\ size * c <= (n + size) - 1 /\ (n + size) - 1 < size * c + size
  <2>1. (n + size) - 1 \in Nat
      BY ONLY <1>1
  <2> QED BY ONLY <1>1, <2>1, Divided DEF n
<1> HIDE DEF a, c, n
<1>4. a + 1 <= c
  <2>1. size * a + size <= (n + size) - 1
      BY ONLY <1>1, <1>2
  <2>2. ASSUME c <= a PROVE FALSE
    <3>1. size * c <= size * a
        BY ONLY <1>1, <1>2, <1>3, <2>2
    <3>2. size * a \in Int /\ size * c \in Int /\ size \in Int /\ (n + size) - 1 \in Int
        BY ONLY <1>1, <1>2, <1>3
    <3>3. (n + size) - 1 < size * c + size
        BY ONLY <1>3
    <3> QED BY ONLY <2>1, <3>1, <3>2, <3>3, NotBetween
  <2>3. a \in Int /\ c \in Int
      BY ONLY <1>2, <1>3
  <2> QED BY ONLY <2>2, <2>3
<1>5. a + 1 \in 1 .. c /\ a = (a + 1) - 1
    BY ONLY <1>2, <1>3, <1>4
<1>6. i \in Block(a + 1, size, seq)
    BY <1>5 DEF Block, a
<1>7. BlockCount(seq, size) = c
    BY DEF BlockCount, c
<1>8. (i - 1) \div size = a
    BY DEF a
<1> QED BY <1>5, <1>6, <1>7, <1>8

\* The blocks that block_mask.py hands to the kernels, made from the slices, refined by the
\* intervals and by the window, attend every pair that mask_mod lets see and no other: for
\* all sequences of queries and keys, with or without padding, all sizes of the blocks and
\* all windows, wherever the blocks cut the slices.
THEOREM BlocksExact ==
    ASSUME NEW m, MaskFits(m)
    PROVE  Attended(m) = {p \in Filled(m.q) \X Filled(m.k) : Sees(m, m.q[p[1]], m.k[p[2]])}
<1> DEFINE b(i) == (i - 1) \div m.qBlock + 1
           d(j) == (j - 1) \div m.kBlock + 1
           kinds == BlockKinds(m)
<1>1. ASSUME NEW i \in Filled(m.q), NEW j \in Filled(m.k)
      PROVE  /\ i \in Block(b(i), m.qBlock, m.q) /\ j \in Block(d(j), m.kBlock, m.k)
             /\ kinds[<<b(i), d(j)>>] = BlockKind(m, b(i), d(j))
  <2>1. /\ b(i) \in 1 .. BlockCount(m.q, m.qBlock) /\ i \in Block(b(i), m.qBlock, m.q)
        /\ d(j) \in 1 .. BlockCount(m.k, m.kBlock) /\ j \in Block(d(j), m.kBlock, m.k)
      BY BlockOf DEF MaskFits, Filled
  <2> HIDE DEF b, d
  <2> QED BY <2>1 DEF BlockKinds
<1>2. Attended(m) =
        {p \in Filled(m.q) \X Filled(m.k) :
            \/ kinds[<<b(p[1]), d(p[2])>>] = "full"
            \/ kinds[<<b(p[1]), d(p[2])>>] = "partial" /\ Sees(m, m.q[p[1]], m.k[p[2]])}
    BY DEF Attended, Filled
<1> HIDE DEF b, d, kinds
<1>3. ASSUME NEW i \in Filled(m.q), NEW j \in Filled(m.k)
      PROVE  (\/ kinds[<<b(i), d(j)>>] = "full"
              \/ kinds[<<b(i), d(j)>>] = "partial" /\ Sees(m, m.q[i], m.k[j]))
             <=> Sees(m, m.q[i], m.k[j])
    BY <1>1, FullSees, NoneSees
<1> QED BY <1>2, <1>3

(***************************************************************************)
(* ContextParallel.                                                        *)
(***************************************************************************)
IsSequence(s) == Len(s) \in Nat /\ DOMAIN s = 1 .. Len(s)

\* What a plan is: what a rank expects of a peer in a wave is what the peer sends it, and
\* the keys of a remote st are what the rank receives in its wave.
PlanInv ==
    /\ plan.cpSize \in 1 .. MaxRanks /\ WaveCount \in Nat
    /\ \A r, s \in Group : \A w \in 1 .. WaveCount :
           /\ plan.received[r][w][s] = plan.sent[s][w][r]
           /\ IsSequence(plan.received[r][w][s])
    /\ \A r \in Group : \A w \in 1 .. WaveCount :
           plan.stages[r][w].k =
               FlattenSeq([s \in 1 .. plan.cpSize |-> plan.received[r][w][s - 1]])

\* A function on 1 .. n has length n.
LEMMA FunctionIs ==
    ASSUME NEW n \in Nat, NEW f, DOMAIN f = 1 .. n, f = [i \in 1 .. n |-> f[i]]
    PROVE  Len(f) = n
<1> DEFINE S == {f[i] : i \in 1 .. n}
<1>1. f \in [1 .. n -> S]
    OBVIOUS
<1> HIDE DEF S
<1> QED BY <1>1

\* Sorted gives a sequence.
LEMMA SortedIs ==
    ASSUME NEW T, IsFiniteSet(T)
    PROVE  IsSequence(Sorted(T))
<1>1. Cardinality(T) \in Nat
    BY FS_CardinalityType
<1> DEFINE v(i) == CHOOSE t \in T : Cardinality({u \in T : u < t}) = i - 1
<1>3. Sorted(T) = [i \in 1 .. Cardinality(T) |-> v(i)]
    BY DEF Sorted
<1> HIDE DEF v
<1>2. /\ DOMAIN Sorted(T) = 1 .. Cardinality(T)
      /\ Sorted(T) = [i \in 1 .. Cardinality(T) |-> Sorted(T)[i]]
    BY <1>3
<1> QED BY <1>1, <1>2, FunctionIs DEF IsSequence

\* A row has finitely many tokens.
LEMMA ValidIs ==
    ASSUME NEW groups \in Seq(Int)
    PROVE  ValidLength(groups) \in Nat
<1>1. DOMAIN groups = 1 .. Len(groups) /\ Len(groups) \in Int
    OBVIOUS
<1>2. IsFiniteSet(DOMAIN groups)
    BY <1>1, FS_Interval
<1>3. IsFiniteSet({p \in DOMAIN groups : groups[p] # Padding})
    BY <1>2, FS_Subset
<1> QED BY <1>3, FS_CardinalityType DEF ValidLength

\* Chunks are not empty, also where they are made smaller for the ranks.
LEMMA ChunkSizeIs ==
    ASSUME CasesGood, NEW c \in Cases
    PROVE  ChunkSize(c) \in Nat /\ ChunkSize(c) >= 1
<1> DEFINE v == ValidLength(c.groups)
<1>1. /\ v \in Nat /\ v >= 1 /\ c.chunkSize \in Nat /\ c.chunkSize >= 1
     /\ c.cpSize \in Nat /\ c.cpSize >= 1
    BY ValidIs DEF CasesGood
<1> HIDE DEF v
<1>2. v >= c.cpSize => v \div c.cpSize \in Nat /\ v \div c.cpSize >= 1
  <2>1. /\ v \div c.cpSize \in Nat /\ v < c.cpSize * (v \div c.cpSize) + c.cpSize
      BY <1>1
  <2>2. v \div c.cpSize = 0 => v < c.cpSize
      BY <1>1, <2>1
  <2> QED BY <1>1, <2>1, <2>2
<1>3. Low(c.chunkSize, v) \in Nat /\ Low(c.chunkSize, v) >= 1
    BY <1>1 DEF Low
<1> QED BY <1>2, <1>3 DEF ChunkSize, v

\* There are finitely many chunks, of tokens of the row.
LEMMA ChunksAre ==
    ASSUME CasesGood, NEW c \in Cases
    PROVE  /\ Len(Chunks(c)) \in Nat
           /\ \A n \in DOMAIN Chunks(c) : Chunks(c)[n] \subseteq 1 .. ValidLength(c.groups)
<1> DEFINE v == ValidLength(c.groups)
           z == ChunkSize(c)
           n == CeilDiv(v, z)
<1>1. v \in Nat /\ z \in Nat /\ z >= 1
    BY ValidIs, ChunkSizeIs DEF CasesGood
<1> HIDE DEF v, z
<1>2. n \in Nat
  <2>1. (v + z) - 1 \in Nat
      BY <1>1
  <2> QED BY <1>1, <2>1 DEF CeilDiv
<1> HIDE DEF n
<1>3. Chunks(c) = [i \in 1 .. n |-> {p \in 1 .. v : (p - 1) \div z = i - 1}]
    BY DEF Chunks, n, v, z
<1>4. DOMAIN Chunks(c) = 1 .. n /\ Chunks(c) = [i \in 1 .. n |-> Chunks(c)[i]]
    BY <1>3
<1>5. Len(Chunks(c)) = n
    BY <1>2, <1>4, FunctionIs
<1> QED BY <1>2, <1>3, <1>5 DEF v

\* The keys of any of the pieces of a case are finitely many.
LEMMA KeysFinite ==
    ASSUME CasesGood, NEW c \in Cases, NEW owners, NEW wave,
           NEW X \in SUBSET Pieces(c, owners, wave)
    PROVE  IsFiniteSet(Keys(X))
<1> DEFINE v == ValidLength(c.groups)
<1>1. ASSUME NEW p \in Pieces(c, owners, wave)
      PROVE  \E y \in DOMAIN Chunks(c) : p.k \subseteq Chunks(c)[y]
  <2>1. \E s \in Slices(ParseRow(c.groups, c.parents)) :
            \E x \in DOMAIN Chunks(c) : \E y \in DOMAIN Chunks(c) :
                p = Piece(Chunks(c), owners, wave, s, x, y)
      BY DEF Pieces
  <2>2. \A s, x, y : Piece(Chunks(c), owners, wave, s, x, y).k = s.k \cap Chunks(c)[y]
      BY DEF Piece
  <2> QED BY <2>1, <2>2
<1>2. \A p \in X : p.k \subseteq 1 .. v
    BY <1>1, ChunksAre
<1>3. Keys(X) \in SUBSET (1 .. v)
    BY <1>2 DEF Keys
<1>4. v \in Nat
    BY ValidIs DEF CasesGood
<1> HIDE DEF v
<1>5. IsFiniteSet(1 .. v)
    BY <1>4, FS_Interval
<1> QED BY <1>3, <1>5, FS_Subset

\* A st has the keys it is built for.
LEMMA StageIs ==
    ASSUME NEW c, NEW pieces, NEW keys, NEW span
    PROVE  Stage(c, pieces, keys, span).k = keys
BY DEF Stage

\* Whatever chunks the planner gives to whom, the ranks' plans fit together.
LEMMA PlanIs ==
    ASSUME CasesGood, Init
    PROVE  PlanInv
<1>1. PICK c \in Cases : \E count \in 1 .. Low(c.maxWaves, Len(Chunks(c))) :
          \E owners \in Assignments(c) : plan = Planned(c, owners, count)
    BY DEF Init
<1>2. PICK count \in 1 .. Low(c.maxWaves, Len(Chunks(c))) :
          \E owners \in Assignments(c) : plan = Planned(c, owners, count)
    BY <1>1
<1>3. PICK owners \in Assignments(c) : plan = Planned(c, owners, count)
    BY <1>2
<1> DEFINE X == Pieces(c, owners, Waves(c, count))
<1>4. /\ plan.cpSize = c.cpSize /\ plan.maxWaves = count
      /\ plan.stages = Stages(c, X, count)
      /\ plan.sent = [r \in 0 .. c.cpSize - 1 |-> [w \in 1 .. count |->
                         [p \in 0 .. c.cpSize - 1 |-> Sent(X, r, w, p)]]]
      /\ plan.received = [r \in 0 .. c.cpSize - 1 |-> [w \in 1 .. count |->
                         [s \in 0 .. c.cpSize - 1 |-> Received(X, r, w, s)]]]
    BY <1>3 DEF Planned
<1> HIDE DEF X
<1>5. c.cpSize \in 1 .. MaxRanks /\ count \in Nat /\ count >= 1 /\ MaxRanks \in Nat
  <2>1. Low(c.maxWaves, Len(Chunks(c))) \in Int
      BY ChunksAre DEF CasesGood, Low
  <2> QED BY <2>1 DEF CasesGood
<1>6. Group = 0 .. c.cpSize - 1 /\ WaveCount = count
    BY <1>4 DEF Group, WaveCount
<1>7. ASSUME NEW r \in Group, NEW s \in Group, NEW w \in 1 .. WaveCount
      PROVE  /\ plan.received[r][w][s] = plan.sent[s][w][r]
             /\ IsSequence(plan.received[r][w][s])
  <2>1. plan.received[r][w][s] = Received(X, r, w, s) /\ plan.sent[s][w][r] = Sent(X, s, w, r)
      BY <1>4, <1>6
  <2> DEFINE Y == {x \in X : x.host = r /\ x.source = s /\ x.wave = w /\ s # r}
             Z == {x \in X : x.source = s /\ x.host = r /\ x.wave = w /\ r # s}
  <2>2. Y = Z
      OBVIOUS
  <2>3. Received(X, r, w, s) = Sorted(Keys(Y)) /\ Sent(X, s, w, r) = Sorted(Keys(Z))
      BY DEF Received, Sent
  <2>4. IsFiniteSet(Keys(Y))
      BY KeysFinite DEF X
  <2> HIDE DEF Y, Z
  <2> QED BY <2>1, <2>2, <2>3, <2>4, SortedIs
<1>8. ASSUME NEW r \in Group, NEW w \in 1 .. WaveCount
      PROVE  plan.stages[r][w].k =
                 FlattenSeq([s \in 1 .. plan.cpSize |-> plan.received[r][w][s - 1]])
  <2>1. r \in 0 .. c.cpSize - 1 /\ w \in 0 .. count /\ w # 0 /\ w \in 1 .. count
      BY <1>5, <1>6
  <2> DEFINE span == Intervals(c.groups, c.parents)
             far == {x \in X : x.host = r /\ x.source # r /\ x.wave = w}
  <2>5. plan.stages[r][w] = Stage(c, far, StageKeys(c, X, r, w), span)
      BY <1>4, <2>1 DEF Stages
  <2>2. plan.stages[r][w].k = StageKeys(c, X, r, w)
      BY <2>5, StageIs
  <2>3. ASSUME NEW s \in 1 .. c.cpSize
        PROVE  plan.received[r][w][s - 1] = Received(X, r, w, s - 1)
    <3>1. s - 1 \in 0 .. c.cpSize - 1
        BY <1>5
    <3> QED BY <1>4, <2>1, <3>1
  <2>4. [s \in 1 .. c.cpSize |-> Received(X, r, w, s - 1)]
          = [s \in 1 .. plan.cpSize |-> plan.received[r][w][s - 1]]
      BY <1>4, <2>3
  <2> QED BY <2>2, <2>4 DEF StageKeys
<1> QED BY <1>4, <1>5, <1>6, <1>7, <1>8 DEF PlanInv

\* The n-th collective of a rank.
Call(r, n) == IF n <= WaveCount THEN FetchCall(r, n) ELSE ReduceCall(r, n - WaveCount)

\* How many collectives a rank has launched.
Launched(r) ==
    IF pc[r] = "fetch" THEN 0
    ELSE IF pc[r] \in {"local", "remote", "backward"} THEN WaveCount ELSE 2 * WaveCount

\* The shape of what the ranks have.
RowsTyped ==
    /\ pc \in [Ranks -> {"fetch", "local", "remote", "backward", "reduce", "done"}]
    /\ \A r \in Ranks : r \notin Group => pc[r] = "done"
    /\ DOMAIN calls = Ranks /\ DOMAIN buffer = Ranks
    /\ pending \in [Ranks -> SUBSET (1 .. WaveCount)]

\* A rank's collectives are the plan's, in the plan's order.
CallsInv == \A r \in Group : calls[r] = [n \in 1 .. Launched(r) |-> Call(r, n)]

\* No exchange is over that a rank has not launched.
CompletedInv == completed \in Nat /\ \A r \in Group : completed <= Launched(r)

\* What a rank has received is what its peers have put in their calls.
BufferInv ==
    \A r \in Group : buffer[r] = [n \in 1 .. completed |-> [p \in Group |-> Call(p, n).rows[r]]]

ExchangeInv == RowsTyped /\ CallsInv /\ CompletedInv /\ BufferInv

\* Appending to a function on 1 .. n, and joining two.
LEMMA MoreBy ==
    ASSUME NEW n \in Nat, NEW f, DOMAIN f = 1 .. n, f = [i \in 1 .. n |-> f[i]], NEW e
    PROVE  /\ Append(f, e) = [i \in 1 .. n + 1 |-> IF i = n + 1 THEN e ELSE f[i]]
<1> DEFINE S == {f[i] : i \in 1 .. n} \cup {e}
<1>1. f \in [1 .. n -> S] /\ e \in S
    OBVIOUS
<1> HIDE DEF S
<1>2. f \in Seq(S) /\ Len(f) = n
    BY <1>1
<1> QED BY <1>1, <1>2

LEMMA JoinBy ==
    ASSUME NEW n \in Nat, NEW f, DOMAIN f = 1 .. n, f = [i \in 1 .. n |-> f[i]],
           NEW m \in Nat, NEW g, DOMAIN g = 1 .. m, g = [i \in 1 .. m |-> g[i]]
    PROVE  /\ f \o g = [i \in 1 .. n + m |-> IF i <= n THEN f[i] ELSE g[i - n]]
<1> DEFINE S == {f[i] : i \in 1 .. n} \cup {g[i] : i \in 1 .. m}
<1>1. f \in [1 .. n -> S] /\ g \in [1 .. m -> S]
    OBVIOUS
<1> HIDE DEF S
<1>2. f \in Seq(S) /\ Len(f) = n /\ g \in Seq(S) /\ Len(g) = m
    BY <1>1
<1> QED BY <1>1, <1>2

\* What a call says depends on the plan alone.
LEMMA SameCalls ==
    ASSUME plan' = plan
    PROVE  /\ Group' = Group /\ WaveCount' = WaveCount
           /\ \A r, n : Call(r, n)' = Call(r, n)
<1>1. Group' = Group /\ WaveCount' = WaveCount
    BY DEF Group, WaveCount
<1>2. \A r, n : FetchCall(r, n)' = FetchCall(r, n)
    BY <1>1 DEF FetchCall
<1>3. \A r, n : ReduceCall(r, n)' = ReduceCall(r, n)
    BY <1>1 DEF ReduceCall
<1> QED BY <1>1, <1>2, <1>3 DEF Call

\* What a rank sends a peer in a collective is what the peer expects of it.
LEMMA CallsMatch ==
    ASSUME PlanInv, NEW r \in Group, NEW p \in Group, NEW n \in 1 .. 2 * WaveCount
    PROVE  /\ Call(r, n).kind = Call(p, n).kind /\ Call(r, n).wave = Call(p, n).wave
           /\ Len(Call(r, n).rows[p]) = Call(p, n).expects[r]
<1>1. WaveCount \in Nat
    BY DEF PlanInv
<1>2. CASE n <= WaveCount
  <2>1. n \in 1 .. WaveCount
      BY <1>1, <1>2
  <2>2. /\ Call(r, n).kind = "fetch" /\ Call(p, n).kind = "fetch"
        /\ Call(r, n).wave = n /\ Call(p, n).wave = n
        /\ Call(r, n).rows[p] = plan.sent[r][n][p]
        /\ Call(p, n).expects[r] = Len(plan.received[p][n][r])
      BY <1>2 DEF Call, FetchCall
  <2> QED BY <2>1, <2>2 DEF PlanInv
<1>3. CASE ~ (n <= WaveCount)
  <2> DEFINE w == n - WaveCount
             st == plan.stages[r][w]
             rows == [j \in DOMAIN plan.received[r][w][p] |->
                         Contribution(st, Offset(plan.received[r][w], p) + j)]
  <2>1. w \in 1 .. WaveCount
      BY <1>1, <1>3
  <2>2. /\ Call(r, n).kind = "reduce" /\ Call(p, n).kind = "reduce"
        /\ Call(r, n).wave = w /\ Call(p, n).wave = w
        /\ Call(r, n).rows[p] = rows
        /\ Call(p, n).expects[r] = Len(plan.sent[p][w][r])
      BY <1>3 DEF Call, ReduceCall
  <2> HIDE DEF w, st
  <2>3. plan.received[r][w][p] = plan.sent[p][w][r] /\ IsSequence(plan.received[r][w][p])
      BY <2>1 DEF PlanInv
  <2>4. DOMAIN rows = 1 .. Len(plan.sent[p][w][r]) /\ Len(plan.sent[p][w][r]) \in Nat
        /\ rows = [j \in 1 .. Len(plan.sent[p][w][r]) |-> rows[j]]
      BY <2>3 DEF IsSequence
  <2> HIDE DEF rows
  <2>5. Len(rows) = Len(plan.sent[p][w][r])
      BY <2>4, FunctionIs
  <2> QED BY <2>2, <2>5
<1> QED BY <1>2, <1>3

\* At first nothing is launched.
LEMMA ExchangeInit ==
    ASSUME CasesGood, Init
    PROVE  ExchangeInv
<1>1. PlanInv
    BY PlanIs
<1>2. /\ pc = [r \in Ranks |-> IF r \in Group THEN "fetch" ELSE "done"]
      /\ calls = [r \in Ranks |-> <<>>] /\ completed = 0
      /\ buffer = [r \in Ranks |-> <<>>] /\ pending = [r \in Ranks |-> {}]
    BY DEF Init
<1>3. Group \subseteq Ranks
    BY <1>1 DEF Group, Ranks, PlanInv, CasesGood
<1>4. RowsTyped
    BY <1>2 DEF RowsTyped
<1>5. \A r \in Group : pc[r] = "fetch" /\ Launched(r) = 0 /\ calls[r] = <<>> /\ buffer[r] = <<>>
    BY <1>2, <1>3 DEF Launched
<1>7. CallsInv
    BY <1>5 DEF CallsInv
<1>8. CompletedInv
  <2>1. completed \in Nat /\ completed <= 0
      BY ONLY <1>2
  <2> QED BY <1>5, <2>1 DEF CompletedInv
<1>9. BufferInv
    BY <1>2, <1>5 DEF BufferInv
<1> QED BY <1>4, <1>7, <1>8, <1>9 DEF ExchangeInv

\* The group is made of ranks.
LEMMA GroupIs == ASSUME CasesGood, PlanInv PROVE Group \subseteq Ranks
BY DEF Group, Ranks, PlanInv, CasesGood

\* Nothing launched, nothing exchanged.
LEMMA CallsStay ==
    ASSUME PlanInv, ExchangeInv, RowsTyped', UNCHANGED <<plan, calls, completed, buffer>>,
           \A p \in Group : Launched(p)' = Launched(p)
    PROVE  ExchangeInv'
<1>1. Group' = Group /\ \A p, n : Call(p, n)' = Call(p, n)
    BY SameCalls
<1>2. CallsInv'
    BY <1>1 DEF ExchangeInv, CallsInv
<1>3. CompletedInv'
    BY <1>1 DEF ExchangeInv, CompletedInv
<1>4. BufferInv'
    BY <1>1 DEF ExchangeInv, BufferInv
<1> QED BY <1>2, <1>3, <1>4 DEF ExchangeInv

\* A rank launches more.
LEMMA CallsLaunched ==
    ASSUME PlanInv, ExchangeInv, RowsTyped', UNCHANGED <<plan, completed, buffer>>,
           NEW r \in Group, \A p \in Group : p # r => Launched(p)' = Launched(p),
           Launched(r) <= Launched(r)', Launched(r) \in Nat, Launched(r)' \in Nat,
           Group \subseteq Ranks,
           calls' = [calls EXCEPT ![r] = [n \in 1 .. Launched(r)' |-> Call(r, n)]]
    PROVE  ExchangeInv'
<1>1. Group' = Group /\ \A p, n : Call(p, n)' = Call(p, n)
    BY SameCalls
<1>2. CallsInv'
  <2>1. ASSUME NEW p \in Group PROVE calls'[p] = [n \in 1 .. Launched(p)' |-> Call(p, n)]
    <3>1. CASE p = r
        BY <3>1 DEF ExchangeInv, RowsTyped
    <3>2. CASE p # r
        BY <3>2 DEF ExchangeInv, RowsTyped, CallsInv
    <3> QED BY <3>1, <3>2
  <2> QED BY <1>1, <2>1 DEF CallsInv
<1>3. CompletedInv'
  <2>1. completed' \in Nat /\ completed' <= Launched(r)
      BY DEF ExchangeInv, CompletedInv
  <2>2. completed' <= Launched(r)'
      BY <2>1
  <2>3. \A p \in Group : p # r => completed' <= Launched(p)'
      BY DEF ExchangeInv, CompletedInv
  <2> QED BY <1>1, <2>1, <2>2, <2>3 DEF CompletedInv
<1>4. BufferInv'
    BY <1>1 DEF ExchangeInv, BufferInv
<1> QED BY <1>2, <1>3, <1>4 DEF ExchangeInv

\* A step of a rank.
LEMMA RankKeeps ==
    ASSUME CasesGood, PlanInv, ExchangeInv, NEW r \in Ranks, RankNext(r)
    PROVE  ExchangeInv'
<1>0. RowsTyped /\ Group \subseteq Ranks /\ WaveCount \in Nat /\ r \in Group
  <2>1. pc[r] # "done"
      BY DEF RankNext, LaunchFetches, RunLocal, RunReady, Drain, LaunchReduces, FinishBackward
  <2> QED BY <2>1, GroupIs DEF ExchangeInv, RowsTyped, PlanInv
<1>1. ASSUME plan' = plan PROVE Group' = Group /\ WaveCount' = WaveCount
    BY <1>1, SameCalls
<1>2. CASE LaunchFetches(r)
  <2>1. /\ pc[r] = "fetch" /\ pc' = [pc EXCEPT ![r] = "local"]
        /\ UNCHANGED <<plan, completed, buffer>>
        /\ calls' = [calls EXCEPT ![r] = [w \in 1 .. WaveCount |-> FetchCall(r, w)]]
      BY <1>2 DEF LaunchFetches
  <2>2. pending' = [pending EXCEPT ![r] = {w \in 1 .. WaveCount :
                       /\ plan.stages[r][w].q # <<>> /\ plan.stages[r][w].k # <<>>}]
      BY <1>2 DEF LaunchFetches
  <2>3. RowsTyped'
      BY <1>0, <1>1, <2>1, <2>2 DEF RowsTyped
  <2>4. Launched(r) = 0 /\ Launched(r)' = WaveCount
      BY <1>0, <1>1, <2>1 DEF RowsTyped, Launched
  <2>5. \A p \in Group : p # r => Launched(p)' = Launched(p)
      BY <1>0, <1>1, <2>1 DEF RowsTyped, Launched
  <2>6. [w \in 1 .. WaveCount |-> FetchCall(r, w)] = [n \in 1 .. Launched(r)' |-> Call(r, n)]
      BY <1>0, <2>4 DEF Call
  <2>7. Launched(r) <= Launched(r)' /\ Launched(r) \in Nat /\ Launched(r)' \in Nat
      BY <1>0, <2>4
  <2> QED BY <1>0, <2>1, <2>3, <2>5, <2>6, <2>7, CallsLaunched
<1>3. CASE RunLocal(r)
  <2>1. /\ pc[r] = "local" /\ pc' = [pc EXCEPT ![r] = "remote"]
        /\ UNCHANGED <<plan, calls, completed, buffer, pending>>
      BY <1>3 DEF RunLocal
  <2>2. RowsTyped'
      BY <1>0, <1>1, <2>1 DEF RowsTyped
  <2>3. \A p \in Group : Launched(p)' = Launched(p)
      BY <1>0, <1>1, <2>1 DEF RowsTyped, Launched
  <2> QED BY <2>1, <2>2, <2>3, CallsStay
<1>4. CASE RunReady(r)
  <2>1. /\ UNCHANGED <<plan, pc, calls, completed, buffer>>
        /\ \E w : pending' = [pending EXCEPT ![r] = @ \ {w}]
      BY <1>4 DEF RunReady
  <2>2. RowsTyped'
      BY <1>0, <1>1, <2>1 DEF RowsTyped
  <2>3. \A p \in Group : Launched(p)' = Launched(p)
      BY <1>1, <2>1 DEF Launched
  <2> QED BY <2>1, <2>2, <2>3, CallsStay
<1>5. CASE Drain(r)
  <2>1. /\ pc[r] = "remote" /\ pc' = [pc EXCEPT ![r] = "backward"]
        /\ UNCHANGED <<plan, calls, completed, buffer, pending>>
      BY <1>5 DEF Drain
  <2>2. RowsTyped'
      BY <1>0, <1>1, <2>1 DEF RowsTyped
  <2>3. \A p \in Group : Launched(p)' = Launched(p)
      BY <1>0, <1>1, <2>1 DEF RowsTyped, Launched
  <2> QED BY <2>1, <2>2, <2>3, CallsStay
<1>6. CASE LaunchReduces(r)
  <2>1. /\ pc[r] = "backward" /\ pc' = [pc EXCEPT ![r] = "reduce"]
        /\ UNCHANGED <<plan, completed, buffer, pending>>
        /\ calls' = [calls EXCEPT ![r] = calls[r] \o [w \in 1 .. WaveCount |-> ReduceCall(r, w)]]
      BY <1>0, <1>6 DEF LaunchReduces, RowsTyped
  <2>2. RowsTyped'
      BY <1>0, <1>1, <2>1 DEF RowsTyped
  <2>3. Launched(r) = WaveCount /\ Launched(r)' = 2 * WaveCount
      BY <1>0, <1>1, <2>1 DEF RowsTyped, Launched
  <2>4. \A p \in Group : p # r => Launched(p)' = Launched(p)
      BY <1>0, <1>1, <2>1 DEF RowsTyped, Launched
  <2> DEFINE f == [n \in 1 .. WaveCount |-> Call(r, n)]
             g == [w \in 1 .. WaveCount |-> ReduceCall(r, w)]
  <2>5. calls[r] = f
      BY <1>0, <2>3 DEF ExchangeInv, CallsInv
  <2>6. f \o g = [n \in 1 .. 2 * WaveCount |-> Call(r, n)]
    <3>1. f \o g = [i \in 1 .. WaveCount + WaveCount |->
                       IF i <= WaveCount THEN f[i] ELSE g[i - WaveCount]]
        BY <1>0, JoinBy
    <3>2. ASSUME NEW i \in 1 .. WaveCount + WaveCount
          PROVE  (IF i <= WaveCount THEN f[i] ELSE g[i - WaveCount]) = Call(r, i)
      <4>1. CASE i <= WaveCount
        <5>1. i \in 1 .. WaveCount
            BY <1>0, <4>1
        <5> QED BY <4>1, <5>1
      <4>2. CASE ~ (i <= WaveCount)
        <5>1. i - WaveCount \in 1 .. WaveCount
            BY <1>0, <4>2
        <5> QED BY <4>2, <5>1 DEF Call
      <4> QED BY <4>1, <4>2
    <3>3. WaveCount + WaveCount = 2 * WaveCount
        BY <1>0
    <3> HIDE DEF f, g
    <3> QED BY <3>1, <3>2, <3>3
  <2>7. Launched(r) <= Launched(r)' /\ Launched(r) \in Nat /\ Launched(r)' \in Nat
      BY <1>0, <2>3
  <2> HIDE DEF f
  <2> QED BY <1>0, <2>1, <2>2, <2>3, <2>4, <2>5, <2>6, <2>7, CallsLaunched
<1>7. CASE FinishBackward(r)
  <2>1. /\ pc[r] = "reduce" /\ pc' = [pc EXCEPT ![r] = "done"]
        /\ UNCHANGED <<plan, calls, completed, buffer, pending>>
      BY <1>7 DEF FinishBackward
  <2>2. RowsTyped'
      BY <1>0, <1>1, <2>1 DEF RowsTyped
  <2>3. \A p \in Group : Launched(p)' = Launched(p)
      BY <1>0, <1>1, <2>1 DEF RowsTyped, Launched
  <2> QED BY <2>1, <2>2, <2>3, CallsStay
<1> QED BY <1>2, <1>3, <1>4, <1>5, <1>6, <1>7 DEF RankNext

\* An exchange: every rank gets the next entry of its buffer.
LEMMA ExchangeKeeps ==
    ASSUME PlanInv, ExchangeInv, Exchange, Group \subseteq Ranks
    PROVE  ExchangeInv'
<1> DEFINE n == completed + 1
<1>1. /\ \A r \in Group : n <= Len(calls[r])
      /\ completed' = n
      /\ buffer' = [r \in Ranks |-> IF r \in Group
                     THEN Append(buffer[r], [p \in Group |-> calls[p][n].rows[r]])
                     ELSE buffer[r]]
      /\ UNCHANGED <<plan, pc, calls, pending, out, grad>>
    BY DEF Exchange
<1>2. Group' = Group /\ WaveCount' = WaveCount /\ \A p, i : Call(p, i)' = Call(p, i)
    BY <1>1, SameCalls
<1>3. completed \in Nat /\ n \in Nat /\ n >= 1 /\ WaveCount \in Nat
    BY DEF ExchangeInv, CompletedInv, PlanInv
<1> HIDE DEF n
<1>4. RowsTyped'
    BY <1>1, <1>2 DEF ExchangeInv, RowsTyped
<1>5. \A r \in Group : Launched(r)' = Launched(r) /\ Launched(r) \in Nat
    BY <1>1, <1>2, <1>3 DEF Launched
<1>6. CallsInv'
    BY <1>1, <1>2, <1>5 DEF ExchangeInv, CallsInv
<1>7. \A r \in Group : n <= Launched(r) /\ calls[r][n] = Call(r, n)
  <2> TAKE r \in Group
  <2>1. calls[r] = [i \in 1 .. Launched(r) |-> Call(r, i)] /\ Launched(r) \in Nat
      BY <1>5 DEF ExchangeInv, CallsInv
  <2>2. DOMAIN calls[r] = 1 .. Launched(r) /\ calls[r] = [i \in 1 .. Launched(r) |-> calls[r][i]]
      BY <2>1
  <2>3. Len(calls[r]) = Launched(r)
      BY <2>1, <2>2, FunctionIs
  <2>4. n \in 1 .. Launched(r)
      BY <1>1, <1>3, <2>1, <2>3
  <2> QED BY <2>1, <2>4
<1>8. CompletedInv'
    BY <1>1, <1>2, <1>3, <1>5, <1>7 DEF CompletedInv
<1>9. BufferInv'
  <2>1. ASSUME NEW r \in Group
        PROVE  buffer'[r] = [i \in 1 .. n |-> [p \in Group |-> Call(p, i).rows[r]]]
    <3> DEFINE e == [p \in Group |-> calls[p][n].rows[r]]
               b == buffer[r]
    <3>1. b = [i \in 1 .. completed |-> [p \in Group |-> Call(p, i).rows[r]]]
        BY DEF ExchangeInv, BufferInv
    <3>2. e = [p \in Group |-> Call(p, n).rows[r]]
        BY <1>7
    <3>3. buffer'[r] = Append(b, e)
        BY <1>1
    <3>4. DOMAIN b = 1 .. completed /\ b = [i \in 1 .. completed |-> b[i]]
        BY <3>1
    <3> HIDE DEF b, e
    <3>5. buffer'[r] = [i \in 1 .. completed + 1 |-> IF i = completed + 1 THEN e ELSE b[i]]
        BY <1>3, <3>3, <3>4, MoreBy
    <3>6. ASSUME NEW i \in 1 .. n
          PROVE  (IF i = n THEN e ELSE b[i]) = [p \in Group |-> Call(p, i).rows[r]]
      <4>1. i = n \/ i \in 1 .. completed
          BY <1>3 DEF n
      <4>2. i \in 1 .. completed => i # n
          BY <1>3 DEF n
      <4> QED BY <3>1, <3>2, <4>1, <4>2
    <3> QED BY <3>5, <3>6 DEF n
  <2>2. ASSUME NEW r \in Group, NEW i
        PROVE  [p \in Group |-> Call(p, i)]' = [p \in Group |-> Call(p, i)]
               /\ [p \in Group |-> Call(p, i).rows[r]]' = [p \in Group |-> Call(p, i).rows[r]]
      BY <1>2
  <2>3. ASSUME NEW r \in Group'
        PROVE  buffer'[r] = [i \in 1 .. completed' |-> [p \in Group |-> Call(p, i).rows[r]]']
    <3>1. r \in Group
        BY <1>2
    <3>2. [i \in 1 .. completed' |-> [p \in Group |-> Call(p, i).rows[r]]']
            = [i \in 1 .. n |-> [p \in Group |-> Call(p, i).rows[r]]]
        BY <1>1, <2>2, <3>1
    <3> QED BY <2>1, <3>1, <3>2
  <2> QED BY <2>3 DEF BufferInv
<1> QED BY <1>4, <1>6, <1>8, <1>9 DEF ExchangeInv

\* The inductive invariant.
RowsInv == PlanInv /\ ExchangeInv

\* A plan does not change.
LEMMA PlanKept ==
    ASSUME PlanInv, plan' = plan
    PROVE  PlanInv'
BY SameCalls DEF PlanInv

\* RowsInv holds of every state.
LEMMA RowsInvariant ==
    ASSUME CasesGood
    PROVE  FairSpec => []RowsInv
<1>1. Init => RowsInv
    BY PlanIs, ExchangeInit DEF RowsInv
<1>2. RowsInv /\ [Next]_vars => RowsInv'
  <2> SUFFICES ASSUME RowsInv, [Next]_vars PROVE RowsInv'
      OBVIOUS
  <2>0. PlanInv /\ ExchangeInv /\ Group \subseteq Ranks
      BY GroupIs DEF RowsInv
  <2>1. plan' = plan
      BY DEF Next, RankNext, LaunchFetches, RunLocal, RunReady, Drain, LaunchReduces,
             FinishBackward, Exchange, vars
  <2>2. ASSUME \E r \in Ranks : RankNext(r) PROVE ExchangeInv'
      BY <2>0, <2>2, RankKeeps
  <2>3. ASSUME Exchange PROVE ExchangeInv'
      BY <2>0, <2>3, ExchangeKeeps
  <2>4. ASSUME UNCHANGED vars PROVE ExchangeInv'
    <3>1. UNCHANGED <<plan, pc, calls, completed, buffer, pending>>
        BY <2>4 DEF vars
    <3>2. Group' = Group /\ WaveCount' = WaveCount
        BY <2>1, SameCalls
    <3>3. RowsTyped'
        BY <2>0, <3>1, <3>2 DEF ExchangeInv, RowsTyped
    <3>4. \A p \in Group : Launched(p)' = Launched(p)
        BY <3>1, <3>2 DEF Launched
    <3> QED BY <2>0, <3>1, <3>3, <3>4, CallsStay
  <2>5. ExchangeInv'
      BY <2>2, <2>3, <2>4 DEF Next
  <2> QED BY <2>0, <2>1, <2>5, PlanKept DEF RowsInv
<1> QED BY <1>1, <1>2, PTL DEF FairSpec

\* What follows from it.
LEMMA RowsGive ==
    ASSUME CasesGood, RowsInv
    PROVE  CallsAgree /\ ExchangesFit /\ StagesGetTheirKeys
<1>1. PlanInv /\ ExchangeInv /\ WaveCount \in Nat /\ completed \in Nat
    BY DEF RowsInv, PlanInv, ExchangeInv, CompletedInv
<1>2. ASSUME NEW r \in Group
      PROVE  /\ Launched(r) \in Nat /\ Launched(r) <= 2 * WaveCount
             /\ DOMAIN calls[r] = 1 .. Launched(r) /\ Len(calls[r]) = Launched(r)
             /\ \A n \in 1 .. Launched(r) : n \in 1 .. 2 * WaveCount /\ calls[r][n] = Call(r, n)
  <2>1. Launched(r) \in Nat /\ Launched(r) <= 2 * WaveCount
      BY <1>1 DEF Launched
  <2>2. calls[r] = [i \in 1 .. Launched(r) |-> Call(r, i)]
      BY <1>1 DEF ExchangeInv, CallsInv
  <2>3. DOMAIN calls[r] = 1 .. Launched(r) /\ calls[r] = [i \in 1 .. Launched(r) |-> calls[r][i]]
      BY <2>2
  <2>4. \A n \in 1 .. Launched(r) : n \in 1 .. 2 * WaveCount
      BY <1>1, <2>1
  <2> QED BY <2>1, <2>2, <2>3, <2>4, FunctionIs
<1>3. CallsAgree
  <2> SUFFICES ASSUME NEW r \in Group, NEW p \in Group,
                      NEW n \in DOMAIN calls[r] \cap DOMAIN calls[p]
               PROVE  /\ calls[r][n].kind = calls[p][n].kind
                      /\ calls[r][n].wave = calls[p][n].wave
                      /\ Len(calls[r][n].rows[p]) = calls[p][n].expects[r]
      BY DEF CallsAgree
  <2>1. n \in 1 .. 2 * WaveCount /\ calls[r][n] = Call(r, n) /\ calls[p][n] = Call(p, n)
      BY <1>2
  <2> QED BY <1>1, <2>1, CallsMatch
<1>4. ExchangesFit
  <2> SUFFICES ASSUME \A r \in Group : completed + 1 <= Len(calls[r])
               PROVE  Fits(completed + 1)
      BY DEF ExchangesFit
  <2>1. \A r \in Group : completed + 1 \in 1 .. Launched(r)
      BY <1>1, <1>2
  <2> DEFINE n == completed + 1
  <2>2. \A r \in Group : n \in 1 .. 2 * WaveCount /\ calls[r][n] = Call(r, n)
      BY <1>2, <2>1
  <2> HIDE DEF n
  <2>3. ASSUME NEW r \in Group, NEW p \in Group
        PROVE  /\ calls[r][n].kind = calls[p][n].kind
               /\ Len(calls[r][n].rows[p]) = calls[p][n].expects[r]
    <3>1. n \in 1 .. 2 * WaveCount /\ calls[r][n] = Call(r, n) /\ calls[p][n] = Call(p, n)
        BY <2>2
    <3>2. PlanInv
        BY <1>1
    <3> QED BY ONLY <3>1, <3>2, CallsMatch
  <2> QED BY <2>3 DEF Fits, n
<1>5. StagesGetTheirKeys
  <2> SUFFICES ASSUME NEW r \in Group, NEW w \in 1 .. WaveCount, w <= completed
               PROVE  FlattenSeq([s \in 1 .. plan.cpSize |-> buffer[r][w][s - 1]])
                          = plan.stages[r][w].k
      BY DEF StagesGetTheirKeys
  <2>1. w \in 1 .. completed
      BY <1>1
  <2>2. buffer[r][w] = [p \in Group |-> Call(p, w).rows[r]]
      BY <1>1, <2>1 DEF ExchangeInv, BufferInv
  <2>3. ASSUME NEW s \in 1 .. plan.cpSize
        PROVE  buffer[r][w][s - 1] = plan.received[r][w][s - 1]
    <3>1. s - 1 \in Group
        BY <1>1 DEF Group, PlanInv
    <3>2. buffer[r][w][s - 1] = plan.sent[s - 1][w][r]
      <4>1. w <= WaveCount
          BY <1>1
      <4> QED BY <2>2, <3>1, <4>1 DEF Call, FetchCall
    <3> QED BY <1>1, <3>1, <3>2 DEF PlanInv
  <2>4. [s \in 1 .. plan.cpSize |-> buffer[r][w][s - 1]]
          = [s \in 1 .. plan.cpSize |-> plan.received[r][w][s - 1]]
      BY <2>3
  <2>5. plan.stages[r][w].k
          = FlattenSeq([s \in 1 .. plan.cpSize |-> plan.received[r][w][s - 1]])
      BY <1>1 DEF PlanInv
  <2> QED BY <2>4, <2>5
<1> QED BY <1>3, <1>4, <1>5

\* For any rows, any assignment of their chunks to any number of ranks, any number of waves
\* and any order in which the ranks go on: the ranks enter the same collectives in the same
\* order with sizes that agree, so an exchange all have launched takes place; and what a
\* rank receives in a wave is, key by key, what the st of that wave was built for
\* (runtime.py, comm.py, executor.py).
THEOREM ExchangesAgree ==
    ASSUME CasesGood
    PROVE  FairSpec => [](CallsAgree /\ ExchangesFit /\ StagesGetTheirKeys)
<1>1. RowsInv => CallsAgree /\ ExchangesFit /\ StagesGetTheirKeys
    BY RowsGive
<1>2. FairSpec => []RowsInv
    BY RowsInvariant
<1> QED BY <1>1, <1>2, PTL
=============================================================================
