------------------------ MODULE AdapterRetentionProofs ------------------------
(***************************************************************************)
(* Theorems about AdapterRetention, for any number of workers, steps and   *)
(* runs, any off-policy window, KL lag and retention interval, and through *)
(* every failure and retry: leases are counted right, what is leased is    *)
(* served, the KL reference is kept, no adapter is forgotten and the       *)
(* backend's step never goes back.                                         *)
(***************************************************************************)
EXTENDS AdapterRetention, FiniteSetTheorems, WellFoundedInduction, TLAPS

\* The newest checkpoint is known as such; the policy is at it but for the train step that
\* wrote it.
Settled == {"collect", "training", "pruning", "unloading", "pruned", "retained"}
Ahead == {"copied", "copy loaded", "saved", "loaded", "returned"}

Newest ==
    /\ BackendStep \in ckpts /\ \A c \in ckpts : c <= BackendStep
    /\ pv <= BackendStep
    /\ run = "running" <=> tpc # "exit"
    /\ tpc \in Settled => pv = BackendStep
    /\ tpc \in Ahead => pv < BackendStep
    /\ tpc = "training" => nts = pv + 1

\* What the next train step may take as its reference is on disk.
References ==
    UsesKl => IF KlLag = 0 THEN 0 \in ckpts
              ELSE \A s \in Steps : KlReference(BackendStep) <= s /\ s <= BackendStep => s \in ckpts

\* Every queued eval is scheduled, and so is the one under way, which is queued no more; a
\* run that is over left none.
Scheduling ==
    /\ \A i \in 1 .. Len(evalq) : evalq[i] \in scheduled
    /\ \A i, j \in 1 .. Len(evalq) : evalq[i] = evalq[j] => i = j
    /\ epc # "none" => eval \in scheduled /\ \A i \in 1 .. Len(evalq) : evalq[i] # eval
    /\ run # "running" =>
           /\ epc = "none" /\ scheduled = {}
           /\ \A w \in Workers : wver[w] = NoStep
    /\ scheduled \subseteq ckpts

\* The orphaned evals are those of runs that failed, at most one of each.
Orphaned ==
    /\ IsFiniteSet(orphans)
    /\ \A o \in orphans : o.run <= runs /\ (run = "running" => o.run < runs)

\* The lease counters are the number of holders.
Rollouts(s) == Cardinality({w \in Workers : wver[w] = s})
Orphans(s) == Cardinality({o \in orphans : o.step = s})
Own(s) == Rollouts(s) + One(s \in scheduled) + One(epc = "sampling" /\ eval = s)

Counted == \A s \in Steps : held[s] = Own(s) /\ leases[s] = Own(s) + Orphans(s)

CountInv == TypeOK /\ Newest /\ Scheduling /\ Orphaned /\ Counted

\* What vLLM lacks although the service believes it loaded is out of the window, and nobody
\* can come to sample from it.
Outdated(s) == s + MaxOff < pv /\ leases[s] = 0

Believed ==
    /\ tpc \notin {"copy loaded", "loaded"} => loaded \subseteq known \cup unsure
    /\ tpc \in {"copy loaded", "loaded"} => loaded \subseteq known \cup unsure \cup {BackendStep}
    /\ \A s \in known \cup unsure : s <= BackendStep /\ (tpc \in Ahead \ {"returned"} => s <= pv)
    /\ known \cap unsure = {}
    /\ \A s \in known \ loaded : Outdated(s)

\* What the prune has yet to unload is what it does not retain.
Pruning ==
    /\ tpc \in {"pruning", "unloading"} =>
           /\ toUnload \subseteq known /\ known \subseteq retain \cup toUnload
           /\ known \subseteq loaded \cup toUnload
           /\ \A s \in toUnload : Outdated(s)
    /\ tpc = "unloading" => toUnload # {} /\ MinOf(toUnload) \notin loaded
    /\ tpc \in {"pruned", "retained"} => known \subseteq retain \cap loaded

\* Whatever is sampled from, now or by a rollout that starts, is served.
Serves ==
    /\ Sampled \cup scheduled \subseteq loaded \cup unsure
    /\ run = "running" => pv \in loaded \cup unsure
    /\ run = "failed" => BackendStep \in loaded \cup unsure
    /\ tpc \in {"copy loaded", "loaded", "returned"} => BackendStep \in loaded
    /\ tpc = "returned" => latest = BackendStep

IInv == CountInv /\ References /\ Believed /\ Pruning /\ Serves

(***************************************************************************)
(* Greatest and least steps, and how many hold one.                        *)
(***************************************************************************)

LEMMA MaxIs ==
    ASSUME NEW S \in SUBSET Nat, NEW m \in S, \A t \in S : t <= m
    PROVE  MaxOf(S) = m
<1>1. \A s \in S : (\A t \in S : t <= s) => s = m
  OBVIOUS
<1> QED
  BY <1>1 DEF MaxOf

\* A set of numbers has a least one: what the loop over the adapters rests on.
LEMMA MinIsElement ==
    ASSUME NEW S \in SUBSET Nat, S # {}
    PROVE  MinOf(S) \in S
<1> DEFINE R == OpToRel(<, Nat)
<1>1. \A x, y \in Nat : y < x => <<y, x>> \in R
  BY DEF OpToRel
<1>2. IsWellFoundedOn(R, Nat)
  BY NatLessThanWellFounded
<1> HIDE DEF R
<1>3. PICK m \in S : \A y \in S : ~ (<<y, m>> \in R)
  BY <1>2, WFMin
<1>4. ASSUME NEW t \in S PROVE m <= t
  <2>1. m \in Nat /\ t \in Nat /\ ~ (<<t, m>> \in R)
    BY <1>3
  <2>2. ~ (t < m)
    BY <1>1, <2>1
  <2> QED
    BY <2>1, <2>2
<1> QED
  BY <1>4 DEF MinOf

LEMMA HoldersCounted ==
    ASSUME NEW f, NEW s
    PROVE  /\ IsFiniteSet({w \in Workers : f[w] = s})
           /\ Cardinality({w \in Workers : f[w] = s}) \in Nat
           /\ \A w \in Workers : f[w] = s => Cardinality({x \in Workers : f[x] = s}) > 0
           /\ (\A w \in Workers : f[w] # s) => Cardinality({w \in Workers : f[w] = s}) = 0
<1> DEFINE H == {w \in Workers : f[w] = s}
<1>1. IsFiniteSet(H)
  BY RetentionAssumption, FS_Subset
<1>2. Cardinality(H) \in Nat /\ (Cardinality(H) = 0 <=> H = {})
  BY <1>1, FS_CardinalityType, FS_EmptySet
<1> QED
  BY <1>1, <1>2

\* The steps orphaned evals hold.
LEMMA OrphansCounted ==
    ASSUME NEW O, IsFiniteSet(O), NEW s
    PROVE  /\ Cardinality({o \in O : o.step = s}) \in Nat
           /\ (\E o \in O : o.step = s) => Cardinality({o \in O : o.step = s}) > 0
           /\ (\A o \in O : o.step # s) => Cardinality({o \in O : o.step = s}) = 0
<1> DEFINE H == {o \in O : o.step = s}
<1>1. IsFiniteSet(H)
  BY FS_Subset
<1>2. Cardinality(H) \in Nat /\ (Cardinality(H) = 0 <=> H = {})
  BY <1>1, FS_CardinalityType, FS_EmptySet
<1>3. /\ (\E o \in O : o.step = s) => H # {}
      /\ (\A o \in O : o.step # s) => H = {}
  OBVIOUS
<1> HIDE DEF H
<1>4. Cardinality(H) \in Nat /\ (H # {} => Cardinality(H) > 0) /\ (H = {} => Cardinality(H) = 0)
  BY <1>2
<1> QED
  BY <1>3, <1>4, Zenon DEF H

\* A queue that has been appended to, and its rest.
LEMMA AppendedQueue ==
    ASSUME NEW q \in Seq(Steps), NEW s \in Steps
    PROVE  /\ Append(q, s) \in Seq(Steps) /\ Len(q) \in Nat /\ Len(Append(q, s)) = Len(q) + 1
           /\ Append(q, s)[Len(q) + 1] = s
           /\ \A i \in 1 .. Len(q) : Append(q, s)[i] = q[i]
  OBVIOUS

LEMMA RestOfQueue ==
    ASSUME NEW q \in Seq(Steps), q # <<>>
    PROVE  /\ Tail(q) \in Seq(Steps) /\ Len(q) \in Nat /\ Len(q) >= 1
           /\ Head(q) = q[1] /\ q[1] \in Steps
           /\ Len(Tail(q)) = Len(q) - 1
           /\ \A i \in 1 .. Len(Tail(q)) : Tail(q)[i] = q[i + 1]
  OBVIOUS

LEMMA StepsAreNumbers ==
    /\ Steps \subseteq Nat /\ NoStep \notin Steps /\ 0 \in Steps /\ StepMax \in Nat
    /\ \A n \in Nat : n \in Steps <=> n <= StepMax
  BY RetentionAssumption DEF Steps, NoStep

LEMMA RunsAreNumbers ==
    ASSUME TypeOK
    PROVE  runs \in Nat /\ \A o \in orphans : o.run \in Nat /\ o.step \in Steps
<1>1. runs \in 1 .. RunMax /\ orphans \subseteq [run : 1 .. RunMax, step : Steps]
  BY DEF TypeOK
<1>2. RunMax \in Nat
  BY RetentionAssumption
<1> QED
  BY <1>1, <1>2


(***************************************************************************)
(* The newest checkpoint: only a train step and the retention change the   *)
(* checkpoints, the one adds the next, the other keeps the newest.         *)
(***************************************************************************)

LEMMA StepKept == ckpts' = ckpts => BackendStep' = BackendStep
  BY DEF BackendStep

LEMMA StepWritten ==
    ASSUME TypeOK, Newest, WriteCheckpoint
    PROVE  /\ BackendStep' = BackendStep + 1 /\ BackendStep' \in Steps
           /\ ckpts' = ckpts \cup {BackendStep'}
<1>1. ckpts \subseteq Nat /\ BackendStep \in ckpts /\ BackendStep \in Nat
  BY StepsAreNumbers DEF TypeOK, Newest
<1>2. BackendStep + 1 \in Steps /\ BackendStep + 1 \in Nat
  BY StepsAreNumbers DEF TypeOK, Newest, WriteCheckpoint, Settled
<1>3. ckpts' = ckpts \cup {BackendStep + 1} /\ \A c \in ckpts' : c <= BackendStep + 1
  BY <1>1 DEF WriteCheckpoint, Newest
<1>4. /\ ckpts' \cup {0} \in SUBSET Nat /\ BackendStep + 1 \in ckpts' \cup {0}
      /\ \A c \in ckpts' \cup {0} : c <= BackendStep + 1
  BY <1>1, <1>2, <1>3
<1>5. MaxOf(ckpts' \cup {0}) = BackendStep + 1
  BY <1>4, MaxIs
<1> QED
  BY <1>2, <1>3, <1>5 DEF BackendStep

LEMMA StepRetained ==
    ASSUME TypeOK, Newest, RetainCheckpoints
    PROVE  /\ BackendStep' = BackendStep
           /\ BackendStep' \in ckpts' /\ ckpts' \subseteq ckpts
<1>1. ckpts \subseteq Nat /\ BackendStep \in ckpts /\ BackendStep \in Nat
  BY StepsAreNumbers DEF TypeOK, Newest
<1>2. ckpts' \subseteq ckpts /\ BackendStep \in ckpts'
  BY <1>1 DEF RetainCheckpoints, Newest, Settled, Protected
<1>3. /\ ckpts' \cup {0} \in SUBSET Nat /\ BackendStep \in ckpts' \cup {0}
      /\ \A c \in ckpts' \cup {0} : c <= BackendStep
  BY <1>1, <1>2 DEF Newest
<1>4. MaxOf(ckpts' \cup {0}) = BackendStep
  BY <1>3, MaxIs
<1> QED
  BY <1>2, <1>4 DEF BackendStep

LEMMA NewestTyped == TypeOK /\ Newest => BackendStep \in Steps /\ BackendStep \in Nat /\ pv \in Nat
  BY StepsAreNumbers DEF TypeOK, Newest

LEMMA NewestStep == TypeOK /\ Newest /\ Scheduling /\ [Next]_vars => Newest'
<1> SUFFICES ASSUME TypeOK /\ Newest /\ Scheduling, [Next]_vars PROVE Newest'
  OBVIOUS
<1> USE StepKept DEF trainerVars, evalVars, leaseVars, serviceVars, Stays, NotTraining, NotEval
<1> BackendStep \in Nat /\ pv \in Nat /\ (epc = "sampling" => run = "running")
  BY NewestTyped DEF Scheduling
<1>1. ASSUME NEW w \in Workers, RolloutStarts(w) PROVE Newest'
  BY <1>1 DEF RolloutStarts, Take, Newest, Settled, Ahead
<1>2. ASSUME NEW w \in Workers, RolloutEnds(w) PROVE Newest'
  BY <1>2 DEF RolloutEnds, Drop, Newest, Settled, Ahead
<1>3. CASE BeginTrain
  BY <1>3 DEF BeginTrain, Newest, Settled, Ahead
<1>4. CASE WriteCheckpoint
  <2>1. /\ BackendStep' = BackendStep + 1 /\ ckpts' = ckpts \cup {BackendStep'}
        /\ BackendStep \in Nat /\ pv \in Nat
    BY <1>4, StepWritten, NewestTyped
  <2> QED
    BY <1>4, <2>1 DEF WriteCheckpoint, Newest, Settled, Ahead
<1>5. CASE VllmLoads
  BY <1>5 DEF VllmLoads, Newest, Settled, Ahead
<1>6. CASE LoadReplies
  BY <1>6 DEF LoadReplies, Newest, Settled, Ahead
<1>7. CASE Publish
  BY <1>7 DEF Publish, Newest, Settled, Ahead
<1>8. CASE VllmUnloads
  BY <1>8 DEF VllmUnloads, Newest, Settled, Ahead
<1>9. CASE UnloadReplies
  BY <1>9 DEF UnloadReplies, Newest, Settled, Ahead
<1>10. CASE PruneEnds
  BY <1>10 DEF PruneEnds, Newest, Settled, Ahead
<1>11. CASE RetainCheckpoints
  <2>1. BackendStep' = BackendStep /\ BackendStep' \in ckpts' /\ ckpts' \subseteq ckpts
    BY <1>11, StepRetained
  <2> QED
    BY <1>11, <2>1 DEF RetainCheckpoints, Newest, Settled, Ahead
<1>12. CASE StepEnds
  BY <1>12 DEF StepEnds, Take, Newest, Settled, Ahead
<1>13. CASE EvalStarts
  BY <1>13 DEF EvalStarts, Take, Newest, Settled, Ahead
<1>14. CASE EvalReturns
  BY <1>14 DEF EvalReturns, Drop, Newest, Settled, Ahead
<1>15. CASE EvalEnds
  BY <1>15 DEF EvalEnds, Drop, Newest, Settled, Ahead
<1>16. CASE OrphanEnds
  BY <1>16 DEF OrphanEnds, Newest, Settled, Ahead
<1>17. CASE UnloadTimesOut
  BY <1>17 DEF UnloadTimesOut, RunFails, Newest, Settled, Ahead
<1>18. CASE CopyTimesOut
  BY <1>18 DEF CopyTimesOut, RunFails, Newest, Settled, Ahead
<1>19. CASE StageRaises
  BY <1>19 DEF StageRaises, RunFails, Newest, Settled, Ahead
<1>20. CASE Dies
  BY <1>20 DEF Dies, Newest, Settled, Ahead
<1>21. CASE Retry
  BY <1>21 DEF Retry, Starts, FirstEval, Newest, Settled, Ahead
<1>22. CASE Restart
  BY <1>22 DEF Restart, Starts, FirstEval, Newest, Settled, Ahead
<1>23. CASE UNCHANGED vars
  BY <1>23 DEF vars, Newest
<1> QED
  BY <1>1, <1>2, <1>3, <1>4, <1>5, <1>6, <1>7, <1>8, <1>9, <1>10, <1>11, <1>12, <1>13, <1>14,
     <1>15, <1>16, <1>17, <1>18, <1>19, <1>20, <1>21, <1>22, <1>23
     DEF Next, TrainStep, EvalStep, Failure


LEMMA SchedulingStep == TypeOK /\ Newest /\ Scheduling /\ [Next]_vars => Scheduling'
<1> SUFFICES ASSUME TypeOK /\ Newest /\ Scheduling, [Next]_vars PROVE Scheduling'
  OBVIOUS
<1> USE DEF trainerVars, evalVars, leaseVars, serviceVars, Stays, NotTraining, NotEval
<1>1. ASSUME NEW w \in Workers, RolloutStarts(w) PROVE Scheduling'
  BY <1>1 DEF RolloutStarts, Take, Newest, Scheduling
<1>2. ASSUME NEW w \in Workers, RolloutEnds(w) PROVE Scheduling'
  BY <1>2 DEF RolloutEnds, Drop, Newest, Scheduling
<1>3. CASE BeginTrain
  BY <1>3 DEF BeginTrain, Newest, Scheduling
<1>4. CASE WriteCheckpoint
  BY <1>4 DEF WriteCheckpoint, Newest, Scheduling
<1>5. CASE VllmLoads
  BY <1>5 DEF VllmLoads, Newest, Scheduling
<1>6. CASE LoadReplies
  BY <1>6 DEF LoadReplies, Newest, Scheduling
<1>7. CASE Publish
  BY <1>7 DEF Publish, Newest, Scheduling
<1>8. CASE VllmUnloads
  BY <1>8 DEF VllmUnloads, Newest, Scheduling
<1>9. CASE UnloadReplies
  BY <1>9 DEF UnloadReplies, Newest, Scheduling
<1>10. CASE PruneEnds
  BY <1>10 DEF PruneEnds, Newest, Scheduling
<1>11. CASE RetainCheckpoints
  <2>1. scheduled \subseteq ckpts'
    BY <1>11 DEF RetainCheckpoints, Protected, Scheduling
  <2> QED
    BY <1>11, <2>1 DEF RetainCheckpoints, Scheduling, Newest
<1>12. CASE StepEnds
  <2>1. CASE UNCHANGED <<evalq, scheduled, leaseVars>>
    BY <1>12, <2>1 DEF StepEnds, Newest, Scheduling
  <2>2. CASE pv \notin scheduled /\ evalq' = Append(evalq, pv) /\ scheduled' = scheduled \cup {pv}
    <3>1. /\ Len(evalq') = Len(evalq) + 1 /\ Len(evalq) \in Nat /\ evalq'[Len(evalq) + 1] = pv
          /\ \A i \in 1 .. Len(evalq) : evalq'[i] = evalq[i]
      <4>1. evalq \in Seq(Steps) /\ pv \in Steps /\ evalq' = Append(evalq, pv)
        BY <2>2 DEF TypeOK
      <4> QED
        BY ONLY <4>1, AppendedQueue
    <3>2. pv \in ckpts
      BY <1>12 DEF StepEnds, Newest, Settled
    <3> QED
      BY <1>12, <2>2, <3>1, <3>2 DEF StepEnds, Newest, Scheduling
  <2> QED
    BY <1>12, <2>1, <2>2 DEF StepEnds
<1>13. CASE EvalStarts
  <2>1. /\ Len(evalq') = Len(evalq) - 1 /\ Len(evalq) \in Nat /\ eval' = evalq[1]
        /\ Len(evalq) >= 1 /\ \A i \in 1 .. Len(evalq') : evalq'[i] = evalq[i + 1]
    BY <1>13, RestOfQueue DEF EvalStarts, TypeOK
  <2> QED
    BY <1>13, <2>1 DEF EvalStarts, Newest, Scheduling
<1>14. CASE EvalReturns
  BY <1>14 DEF EvalReturns, Drop, Newest, Scheduling
<1>15. CASE EvalEnds
  BY <1>15 DEF EvalEnds, Drop, Newest, Scheduling
<1>16. CASE OrphanEnds
  BY <1>16 DEF OrphanEnds, Newest, Scheduling
<1>17. CASE UnloadTimesOut
  BY <1>17 DEF UnloadTimesOut, RunFails, Newest, Scheduling
<1>18. CASE CopyTimesOut
  <2>1. /\ evalq' = <<>> /\ scheduled' = {} /\ epc' = "none" /\ run' = "failed"
        /\ wver' = [w \in Workers |-> NoStep]
    BY <1>18 DEF CopyTimesOut, RunFails
  <2> QED
    BY <2>1 DEF Scheduling
<1>19. CASE StageRaises
  BY <1>19 DEF StageRaises, RunFails, Newest, Scheduling
<1>20. CASE Dies
  BY <1>20 DEF Dies, Newest, Scheduling
<1>21. CASE Retry
  <2>1. \/ evalq' = <<>> /\ scheduled' = {}
        \/ evalq' = <<BackendStep>> /\ scheduled' = {BackendStep}
    BY <1>21 DEF Retry, FirstEval
  <2>2. UNCHANGED <<wver, eval, epc, ckpts>> /\ run' = "running" /\ run # "running"
    BY <1>21 DEF Retry, Starts
  <2>3. BackendStep \in ckpts
    BY DEF Newest
  <2> QED
    BY <2>1, <2>2, <2>3 DEF Scheduling
<1>22. CASE Restart
  <2>1. \/ evalq' = <<>> /\ scheduled' = {}
        \/ evalq' = <<BackendStep>> /\ scheduled' = {BackendStep}
    BY <1>22 DEF Restart, FirstEval
  <2>2. UNCHANGED <<wver, eval, epc, ckpts>> /\ run' = "running" /\ run # "running"
    BY <1>22 DEF Restart, Starts
  <2>3. BackendStep \in ckpts
    BY DEF Newest
  <2> QED
    BY <2>1, <2>2, <2>3 DEF Scheduling
<1>23. CASE UNCHANGED vars
  BY <1>23 DEF vars, Scheduling
<1> QED
  BY <1>1, <1>2, <1>3, <1>4, <1>5, <1>6, <1>7, <1>8, <1>9, <1>10, <1>11, <1>12, <1>13, <1>14,
     <1>15, <1>16, <1>17, <1>18, <1>19, <1>20, <1>21, <1>22, <1>23
     DEF Next, TrainStep, EvalStep, Failure


LEMMA OrphanedStep == TypeOK /\ Orphaned /\ [Next]_vars => Orphaned'
<1> SUFFICES ASSUME TypeOK /\ Orphaned, [Next]_vars PROVE Orphaned'
  OBVIOUS
<1> USE DEF trainerVars, evalVars, leaseVars, serviceVars, Stays, NotTraining, NotEval
<1>1. ASSUME NEW w \in Workers, RolloutStarts(w) PROVE Orphaned'
  BY <1>1 DEF RolloutStarts, Take, Orphaned
<1>2. ASSUME NEW w \in Workers, RolloutEnds(w) PROVE Orphaned'
  BY <1>2 DEF RolloutEnds, Drop, Orphaned
<1>3. CASE BeginTrain
  BY <1>3 DEF BeginTrain, Orphaned
<1>4. CASE WriteCheckpoint
  BY <1>4 DEF WriteCheckpoint, Orphaned
<1>5. CASE VllmLoads
  BY <1>5 DEF VllmLoads, Orphaned
<1>6. CASE LoadReplies
  BY <1>6 DEF LoadReplies, Orphaned
<1>7. CASE Publish
  BY <1>7 DEF Publish, Orphaned
<1>8. CASE VllmUnloads
  BY <1>8 DEF VllmUnloads, Orphaned
<1>9. CASE UnloadReplies
  BY <1>9 DEF UnloadReplies, Orphaned
<1>10. CASE PruneEnds
  BY <1>10 DEF PruneEnds, Orphaned
<1>11. CASE RetainCheckpoints
  BY <1>11 DEF RetainCheckpoints, Orphaned
<1>12. CASE StepEnds
  BY <1>12 DEF StepEnds, Take, Orphaned
<1>13. CASE EvalStarts
  BY <1>13 DEF EvalStarts, Take, Orphaned
<1>14. CASE EvalReturns
  BY <1>14 DEF EvalReturns, Drop, Orphaned
<1>15. CASE EvalEnds
  BY <1>15 DEF EvalEnds, Drop, Orphaned
<1>16. CASE OrphanEnds
  <2>1. PICK o \in orphans : orphans' = orphans \ {o}
    BY <1>16 DEF OrphanEnds
  <2>2. IsFiniteSet(orphans')
    BY <2>1, FS_RemoveElement DEF Orphaned
  <2> QED
    BY <1>16, <2>1, <2>2 DEF OrphanEnds, Orphaned
<1>17. CASE UnloadTimesOut
  <2>1. PICK orphaned \in BOOLEAN :
           orphans' = orphans \cup (IF orphaned THEN {[run |-> runs, step |-> eval]} ELSE {})
    BY <1>17 DEF UnloadTimesOut, RunFails
  <2>2. IsFiniteSet(orphans \cup {[run |-> runs, step |-> eval]})
    BY FS_AddElement DEF Orphaned
  <2>3. IsFiniteSet(orphans')
    BY <2>1, <2>2 DEF Orphaned
  <2>4. run' = "failed" /\ runs' = runs /\ runs \in Nat
    BY <1>17, RunsAreNumbers DEF UnloadTimesOut, RunFails
  <2> QED
    BY <2>1, <2>3, <2>4 DEF Orphaned
<1>18. CASE CopyTimesOut
  <2>1. PICK orphaned \in BOOLEAN :
           orphans' = orphans \cup (IF orphaned THEN {[run |-> runs, step |-> eval]} ELSE {})
    BY <1>18 DEF CopyTimesOut, RunFails
  <2>2. IsFiniteSet(orphans \cup {[run |-> runs, step |-> eval]})
    BY FS_AddElement DEF Orphaned
  <2>3. IsFiniteSet(orphans')
    BY <2>1, <2>2 DEF Orphaned
  <2>4. run' = "failed" /\ runs' = runs /\ runs \in Nat
    BY <1>18, RunsAreNumbers DEF CopyTimesOut, RunFails
  <2> QED
    BY <2>1, <2>3, <2>4 DEF Orphaned
<1>19. CASE StageRaises
  <2>1. PICK orphaned \in BOOLEAN :
           orphans' = orphans \cup (IF orphaned THEN {[run |-> runs, step |-> eval]} ELSE {})
    BY <1>19 DEF StageRaises, RunFails
  <2>2. IsFiniteSet(orphans \cup {[run |-> runs, step |-> eval]})
    BY FS_AddElement DEF Orphaned
  <2>3. IsFiniteSet(orphans')
    BY <2>1, <2>2 DEF Orphaned
  <2>4. run' = "failed" /\ runs' = runs /\ runs \in Nat
    BY <1>19, RunsAreNumbers DEF StageRaises, RunFails
  <2> QED
    BY <2>1, <2>3, <2>4 DEF Orphaned
<1>20. CASE Dies
  <2>1. orphans' = {}
    BY <1>20 DEF Dies
  <2> QED
    BY <2>1, FS_EmptySet DEF Orphaned
<1>21. CASE Retry
  <2>1. UNCHANGED orphans /\ runs' = runs + 1 /\ runs \in Nat /\ \A o \in orphans : o.run \in Nat
    BY <1>21, RunsAreNumbers DEF Retry, Starts
  <2> QED
    BY <2>1 DEF Orphaned
<1>22. CASE Restart
  <2>1. orphans' = {}
    BY <1>22 DEF Restart
  <2> QED
    BY <2>1, FS_EmptySet DEF Orphaned
<1>23. CASE UNCHANGED vars
  BY <1>23 DEF vars, Orphaned
<1> QED
  BY <1>1, <1>2, <1>3, <1>4, <1>5, <1>6, <1>7, <1>8, <1>9, <1>10, <1>11, <1>12, <1>13, <1>14,
     <1>15, <1>16, <1>17, <1>18, <1>19, <1>20, <1>21, <1>22, <1>23
     DEF Next, TrainStep, EvalStep, Failure



(***************************************************************************)
(* The counters.                                                           *)
(***************************************************************************)

LEMMA CountsKept ==
    /\ UNCHANGED wver => \A s : Rollouts(s)' = Rollouts(s)
    /\ UNCHANGED orphans => \A s : Orphans(s)' = Orphans(s)
  BY DEF Rollouts, Orphans

LEMMA RolloutsAreNumbers ==
    \A s : /\ Rollouts(s) \in Nat /\ (Rollouts(s))' \in Nat
           /\ (\A w \in Workers : wver[w] # s) => Rollouts(s) = 0
  BY HoldersCounted DEF Rollouts

\* No rollout runs.
LEMMA NoRollouts ==
    ASSUME wver' = [w \in Workers |-> NoStep]
    PROVE  \A s \in Steps : Rollouts(s)' = 0
<1> SUFFICES ASSUME NEW s \in Steps PROVE Rollouts(s)' = 0
  OBVIOUS
<1>1. \A w \in Workers : wver'[w] # s
  BY StepsAreNumbers
<1> QED
  BY <1>1, HoldersCounted DEF Rollouts

LEMMA OrphansAreNumbers == IsFiniteSet(orphans) => \A s : Orphans(s) \in Nat
  BY OrphansCounted DEF Orphans

\* Who samples from a step, and who is scheduled to, holds leases of it.
LEMMA HoldersLease ==
    ASSUME TypeOK, Orphaned, Counted
    PROVE  /\ \A w \in Workers : wver[w] \in Steps => held[wver[w]] > 0 /\ leases[wver[w]] > 0
           /\ \A s \in scheduled : held[s] > 0 /\ leases[s] > 0
           /\ epc = "sampling" /\ eval \in Steps => held[eval] > 0 /\ leases[eval] > 0
           /\ \A o \in orphans : leases[o.step] > 0
<1> USE OrphansAreNumbers, RolloutsAreNumbers DEF Own, One, Orphaned, Counted
<1>1. \A s \in Steps : Own(s) \in Nat /\ Orphans(s) \in Nat
  OBVIOUS
<1>2. \A s \in Steps : Own(s) > 0 => held[s] > 0 /\ leases[s] > 0
  BY <1>1
<1>3. \A w \in Workers : Rollouts(wver[w]) > 0
  BY HoldersCounted DEF Rollouts
<1>4. \A o \in orphans : o.step \in Steps /\ Orphans(o.step) > 0
  BY RunsAreNumbers, OrphansCounted DEF Orphans
<1>5. scheduled \subseteq Steps
  BY DEF TypeOK
<1>6. \A w \in Workers : wver[w] \in Steps => Own(wver[w]) > 0
  BY <1>3
<1> QED
  BY <1>1, <1>2, <1>4, <1>5, <1>6

\* A lease taken and one dropped.
LEMMA TakeCounts ==
    ASSUME TypeOK, NEW t \in Steps, Take(t)
    PROVE  \A s \in Steps : /\ leases'[s] = leases[s] + One(s = t)
                            /\ held'[s] = held[s] + One(s = t)
<1>1. /\ leases \in [Steps -> Nat] /\ held \in [Steps -> Nat]
      /\ leases' = [leases EXCEPT ![t] = @ + 1] /\ held' = [held EXCEPT ![t] = @ + 1]
  BY DEF TypeOK, Take
<1>2. \A s \in Steps : s = t => leases'[s] = leases[s] + 1 /\ held'[s] = held[s] + 1
  BY <1>1
<1>3. \A s \in Steps : s # t => leases'[s] = leases[s] + 0 /\ held'[s] = held[s] + 0
  BY <1>1
<1> QED
  BY <1>2, <1>3 DEF One

LEMMA DropCounts ==
    ASSUME TypeOK, NEW t \in Steps, Drop(t)
    PROVE  \A s \in Steps : /\ leases'[s] = leases[s] - One(s = t)
                            /\ held'[s] = held[s] - One(s = t)
<1>1. /\ leases \in [Steps -> Nat] /\ held \in [Steps -> Nat]
      /\ leases' = [leases EXCEPT ![t] = @ - 1] /\ held' = [held EXCEPT ![t] = @ - 1]
  BY DEF TypeOK, Drop
<1>2. \A s \in Steps : s = t => leases'[s] = leases[s] - 1 /\ held'[s] = held[s] - 1
  BY <1>1
<1>3. \A s \in Steps : s # t => leases'[s] = leases[s] - 0 /\ held'[s] = held[s] - 0
  BY <1>1
<1> QED
  BY <1>2, <1>3 DEF One

\* A rollout that starts and one that ends.
LEMMA RolloutMoves ==
    ASSUME NEW w \in Workers, NEW v, DOMAIN wver = Workers, v # wver[w],
           wver' = [wver EXCEPT ![w] = v]
    PROVE  \A s \in Steps : Rollouts(s)' = Rollouts(s) + One(s = v) - One(s = wver[w])
<1> SUFFICES ASSUME NEW s \in Steps
             PROVE  Rollouts(s)' = Rollouts(s) + One(s = v) - One(s = wver[w])
  OBVIOUS
<1> DEFINE H == {x \in Workers : wver[x] = s}
           G == {x \in Workers : wver'[x] = s}
<1>1. IsFiniteSet(H) /\ Rollouts(s) = Cardinality(H) /\ Rollouts(s)' = Cardinality(G)
  <2>1. IsFiniteSet(H)
    BY RetentionAssumption, FS_Subset
  <2>2. Rollouts(s) = Cardinality(H)
    BY DEF Rollouts
  <2>3. Rollouts(s)' = Cardinality(G)
    BY DEF Rollouts
  <2> QED
    BY <2>1, <2>2, <2>3
<1>2. /\ s = v => G = H \cup {w} /\ w \notin H
      /\ s = wver[w] => G = H \ {w} /\ w \in H
      /\ s # v /\ s # wver[w] => G = H
  OBVIOUS
<1> HIDE DEF H, G
<1>3. Cardinality(H) \in Nat
  BY <1>1, FS_CardinalityType
<1>4. CASE s = v
  BY <1>1, <1>2, <1>3, <1>4, FS_AddElement DEF One
<1>5. CASE s = wver[w]
  BY <1>1, <1>2, <1>3, <1>5, FS_RemoveElement DEF One
<1>6. CASE s # v /\ s # wver[w]
  BY <1>1, <1>2, <1>3, <1>6 DEF One
<1> QED
  BY <1>4, <1>5, <1>6

\* An eval is orphaned, and comes back.
LEMMA OrphanAdded ==
    ASSUME IsFiniteSet(orphans), NEW o, o \notin orphans, orphans' = orphans \cup {o}
    PROVE  \A s : Orphans(s)' = Orphans(s) + One(s = o.step)
<1> SUFFICES ASSUME NEW s PROVE Orphans(s)' = Orphans(s) + One(s = o.step)
  OBVIOUS
<1> DEFINE H == {p \in orphans : p.step = s}
           G == {p \in orphans' : p.step = s}
<1>1. IsFiniteSet(H) /\ Orphans(s) = Cardinality(H) /\ Orphans(s)' = Cardinality(G)
  BY FS_Subset DEF Orphans
<1>2. IF s = o.step THEN G = H \cup {o} /\ o \notin H ELSE G = H
  OBVIOUS
<1> HIDE DEF H, G
<1>3. Cardinality(H) \in Nat
  BY <1>1, FS_CardinalityType
<1>4. CASE s = o.step
  <2>1. Cardinality(G) = Cardinality(H) + 1
    BY <1>1, <1>2, <1>4, FS_AddElement
  <2> QED
    BY <1>1, <1>4, <2>1 DEF One
<1>5. CASE s # o.step
  BY <1>1, <1>2, <1>3, <1>5 DEF One
<1> QED
  BY <1>4, <1>5

LEMMA OrphanRemoved ==
    ASSUME IsFiniteSet(orphans), NEW o \in orphans, orphans' = orphans \ {o}
    PROVE  \A s : Orphans(s)' = Orphans(s) - One(s = o.step)
<1> SUFFICES ASSUME NEW s PROVE Orphans(s)' = Orphans(s) - One(s = o.step)
  OBVIOUS
<1> DEFINE H == {p \in orphans : p.step = s}
           G == {p \in orphans' : p.step = s}
<1>1. IsFiniteSet(H) /\ Orphans(s) = Cardinality(H) /\ Orphans(s)' = Cardinality(G)
  BY FS_Subset DEF Orphans
<1>2. IF s = o.step THEN G = H \ {o} /\ o \in H ELSE G = H
  OBVIOUS
<1> HIDE DEF H, G
<1>3. Cardinality(H) \in Nat
  BY <1>1, FS_CardinalityType
<1> QED
  BY <1>1, <1>2, <1>3, FS_RemoveElement DEF One


\* A run that fails drops what it held, and no more.
LEMMA CountedFails ==
    ASSUME TypeOK, Orphaned, Scheduling, Counted, RunFails, run = "running"
    PROVE  Counted'
<1>1. PICK orphaned \in BOOLEAN :
         /\ orphaned => epc = "sampling"
         /\ leases' = [s \in Steps |-> leases[s] - Dropped(s, orphaned)]
         /\ orphans' = orphans \cup (IF orphaned THEN {[run |-> runs, step |-> eval]} ELSE {})
  BY DEF RunFails
<1>2. /\ wver' = [w \in Workers |-> NoStep] /\ scheduled' = {} /\ epc' = "none"
      /\ held' = NoLease
  BY DEF RunFails
<1>3. \A s \in Steps : held'[s] = 0 /\ Own(s)' = 0
  BY <1>2, NoRollouts DEF NoLease, Own, One
<1>4. \A s \in Steps : /\ Rollouts(s) \in Nat /\ Orphans(s) \in Nat
                       /\ leases[s] = Own(s) + Orphans(s)
  BY RolloutsAreNumbers, OrphansAreNumbers DEF Orphaned, Counted
<1>5. CASE orphaned
  <2>1. [run |-> runs, step |-> eval] \notin orphans
    BY RunsAreNumbers DEF Orphaned
  <2>2. \A s \in Steps : Orphans(s)' = Orphans(s) + One(s = eval)
    <3>1. orphans' = orphans \cup {[run |-> runs, step |-> eval]}
      BY <1>1, <1>5
    <3> QED
      BY <2>1, <3>1, OrphanAdded DEF Orphaned
  <2>3. \A s \in Steps : leases'[s] = leases[s] - (Rollouts(s) + One(s \in scheduled) + One(FALSE))
    BY <1>1, <1>5 DEF Dropped, Rollouts, One
  <2>4. \A s \in Steps : Own(s) = Rollouts(s) + One(s \in scheduled) + One(s = eval)
    BY <1>1, <1>5 DEF Own, One
  <2>5. \A s \in Steps : leases'[s] = Orphans(s)'
    BY <1>4, <2>2, <2>3, <2>4 DEF One
  <2> QED
    BY <1>3, <2>5, <2>2, <1>4 DEF Counted, One
<1>6. CASE ~ orphaned
  <2>1. \A s : Orphans(s)' = Orphans(s)
    BY <1>1, <1>6, CountsKept
  <2>2. \A s \in Steps : leases'[s] = leases[s] - Own(s)
    BY <1>1, <1>6 DEF Dropped, Own, Rollouts
  <2>3. \A s \in Steps : leases'[s] = Orphans(s)'
    BY <1>4, <2>1, <2>2 DEF Own, One
  <2> QED
    BY <1>3, <1>4, <2>1, <2>3 DEF Counted
<1> QED
  BY <1>5, <1>6

\* A run starts with no holder but, it may be, the first eval it schedules.
LEMMA CountedStarts ==
    ASSUME TypeOK, Newest, Scheduling, NEW base \in [Steps -> Nat], FirstEval(base),
           UNCHANGED <<wver, eval, epc>>, run # "running",
           \A s \in Steps : base[s] = Orphans(s)' /\ Orphans(s)' \in Nat
    PROVE  Counted'
<1>1. \A s \in Steps : Rollouts(s)' = 0
  <2>1. wver = [w \in Workers |-> NoStep]
    BY DEF Scheduling, TypeOK
  <2> QED
    BY <2>1, NoRollouts
<1>2. \A s \in Steps : Own(s)' = One(s \in scheduled')
  BY <1>1 DEF Scheduling, Own, One
<1>3. CASE scheduled' = {} /\ leases' = base /\ held' = NoLease
  BY <1>2, <1>3 DEF Counted, NoLease, One
<1>4. CASE /\ scheduled' = {BackendStep}
           /\ leases' = [base EXCEPT ![BackendStep] = @ + 1]
           /\ held' = [NoLease EXCEPT ![BackendStep] = 1]
  <2>1. BackendStep \in Steps
    BY NewestTyped
  <2>2. \A s \in Steps : leases'[s] = base[s] + One(s = BackendStep)
                         /\ held'[s] = One(s = BackendStep)
    BY <1>4, <2>1 DEF NoLease, One
  <2> QED
    BY <1>2, <1>4, <2>2 DEF Counted, One
<1> QED
  BY <1>3, <1>4 DEF FirstEval


LEMMA CountedStep ==
    ASSUME TypeOK, Newest, Scheduling, Orphaned, Counted, [Next]_vars
    PROVE  Counted'
<1> USE CountsKept DEF trainerVars, evalVars, leaseVars, serviceVars, Stays, NotTraining, NotEval
<1>0. \A s \in Steps : Rollouts(s) \in Nat /\ Orphans(s) \in Nat
  BY RolloutsAreNumbers, OrphansAreNumbers DEF Orphaned
<1> USE <1>0
<1>1. ASSUME NEW w \in Workers, RolloutStarts(w) PROVE Counted'
  <2>1. /\ wver' = [wver EXCEPT ![w] = pv] /\ wver[w] = NoStep /\ pv \in Steps
        /\ DOMAIN wver = Workers
    BY <1>1 DEF RolloutStarts, TypeOK
  <2>2. \A s \in Steps : Rollouts(s)' = Rollouts(s) + One(s = pv)
    <3>1. \A s \in Steps : Rollouts(s)' = Rollouts(s) + One(s = pv) - One(s = wver[w])
      <4>1. w \in Workers /\ pv # wver[w]
        BY <2>1, StepsAreNumbers
      <4> QED
        BY ONLY <2>1, <4>1, RolloutMoves DEF One
    <3>2. \A s \in Steps : One(s = wver[w]) = 0
      BY <2>1, StepsAreNumbers DEF One
    <3>3. \A s \in Steps : Rollouts(s)' = Rollouts(s) + One(s = pv) - 0
      BY <3>1, <3>2
    <3> QED
      BY <3>3 DEF One
  <2>3. \A s \in Steps : /\ leases'[s] = leases[s] + One(s = pv)
                         /\ held'[s] = held[s] + One(s = pv)
    BY <1>1, <2>1, TakeCounts DEF RolloutStarts
  <2>4. UNCHANGED <<scheduled, epc, eval, orphans>>
    BY <1>1 DEF RolloutStarts, evalVars
  <2> QED
    BY <2>2, <2>3, <2>4 DEF Counted, Own, One
<1>2. ASSUME NEW w \in Workers, RolloutEnds(w) PROVE Counted'
  <2>1. /\ wver' = [wver EXCEPT ![w] = NoStep] /\ wver[w] \in Steps
        /\ DOMAIN wver = Workers
    BY <1>2 DEF RolloutEnds, TypeOK
  <2>2. \A s \in Steps : Rollouts(s)' = Rollouts(s) - One(s = wver[w])
    <3>1. \A s \in Steps : Rollouts(s)' = Rollouts(s) + One(s = NoStep) - One(s = wver[w])
      <4>1. w \in Workers /\ NoStep # wver[w]
        BY <2>1, StepsAreNumbers
      <4> QED
        BY ONLY <2>1, <4>1, RolloutMoves DEF One
    <3>2. \A s \in Steps : One(s = NoStep) = 0
      BY StepsAreNumbers DEF One
    <3> QED
      BY <3>1, <3>2 DEF One
  <2>3. \A s \in Steps : /\ leases'[s] = leases[s] - One(s = wver[w])
                         /\ held'[s] = held[s] - One(s = wver[w])
    BY <1>2, <2>1, DropCounts DEF RolloutEnds
  <2>4. UNCHANGED <<scheduled, epc, eval, orphans>>
    BY <1>2 DEF RolloutEnds, evalVars
  <2> QED
    BY <2>2, <2>3, <2>4 DEF Counted, Own, One
<1>3. CASE BeginTrain
  <2>1. UNCHANGED <<wver, scheduled, epc, eval, orphans, leases, held>>
    BY <1>3 DEF BeginTrain
  <2> QED
    BY <2>1 DEF Counted, Own
<1>4. CASE WriteCheckpoint
  <2>1. UNCHANGED <<wver, scheduled, epc, eval, orphans, leases, held>>
    BY <1>4 DEF WriteCheckpoint
  <2> QED
    BY <2>1 DEF Counted, Own
<1>5. CASE VllmLoads
  <2>1. UNCHANGED <<wver, scheduled, epc, eval, orphans, leases, held>>
    BY <1>5 DEF VllmLoads
  <2> QED
    BY <2>1 DEF Counted, Own
<1>6. CASE LoadReplies
  <2>1. UNCHANGED <<wver, scheduled, epc, eval, orphans, leases, held>>
    BY <1>6 DEF LoadReplies
  <2> QED
    BY <2>1 DEF Counted, Own
<1>7. CASE Publish
  <2>1. UNCHANGED <<wver, scheduled, epc, eval, orphans, leases, held>>
    BY <1>7 DEF Publish
  <2> QED
    BY <2>1 DEF Counted, Own
<1>8. CASE VllmUnloads
  <2>1. UNCHANGED <<wver, scheduled, epc, eval, orphans, leases, held>>
    BY <1>8 DEF VllmUnloads
  <2> QED
    BY <2>1 DEF Counted, Own
<1>9. CASE UnloadReplies
  <2>1. UNCHANGED <<wver, scheduled, epc, eval, orphans, leases, held>>
    BY <1>9 DEF UnloadReplies
  <2> QED
    BY <2>1 DEF Counted, Own
<1>10. CASE PruneEnds
  <2>1. UNCHANGED <<wver, scheduled, epc, eval, orphans, leases, held>>
    BY <1>10 DEF PruneEnds
  <2> QED
    BY <2>1 DEF Counted, Own
<1>11. CASE RetainCheckpoints
  <2>1. UNCHANGED <<wver, scheduled, epc, eval, orphans, leases, held>>
    BY <1>11 DEF RetainCheckpoints
  <2> QED
    BY <2>1 DEF Counted, Own
<1>12. CASE StepEnds
  <2>1. UNCHANGED <<wver, epc, eval, orphans>>
    BY <1>12 DEF StepEnds
  <2>2. CASE UNCHANGED <<evalq, scheduled, leaseVars>>
    BY <2>1, <2>2 DEF Counted, Own
  <2>3. CASE pv \notin scheduled /\ scheduled' = scheduled \cup {pv} /\ Take(pv)
    <3>1. pv \in Steps
      BY DEF TypeOK
    <3>2. \A s \in Steps : /\ leases'[s] = leases[s] + One(s = pv)
                           /\ held'[s] = held[s] + One(s = pv)
      BY <2>3, <3>1, TakeCounts
    <3> QED
      BY <2>1, <2>3, <3>2 DEF Counted, Own, One
  <2> QED
    BY <1>12, <2>2, <2>3 DEF StepEnds
<1>13. CASE EvalStarts
  <2>1. /\ eval' = Head(evalq) /\ epc = "none" /\ epc' = "sampling" /\ Head(evalq) \in Steps
        /\ UNCHANGED <<wver, scheduled, orphans>>
    BY <1>13, RestOfQueue DEF EvalStarts, TypeOK
  <2>2. \A s \in Steps : /\ leases'[s] = leases[s] + One(s = Head(evalq))
                         /\ held'[s] = held[s] + One(s = Head(evalq))
    BY <1>13, <2>1, TakeCounts DEF EvalStarts
  <2> QED
    BY <2>1, <2>2 DEF Counted, Own, One
<1>14. CASE EvalReturns
  <2>1. /\ epc = "sampling" /\ epc' = "logging" /\ eval \in Steps
        /\ UNCHANGED <<wver, scheduled, eval, orphans>>
    BY <1>14 DEF EvalReturns, Scheduling, TypeOK
  <2>2. \A s \in Steps : /\ leases'[s] = leases[s] - One(s = eval)
                         /\ held'[s] = held[s] - One(s = eval)
    BY <1>14, <2>1, DropCounts DEF EvalReturns
  <2> QED
    BY <2>1, <2>2 DEF Counted, Own, One
<1>15. CASE EvalEnds
  <2>1. /\ epc = "logging" /\ epc' = "none" /\ eval \in scheduled
        /\ scheduled' = scheduled \ {eval} /\ scheduled \subseteq Steps
        /\ UNCHANGED <<wver, orphans>>
    BY <1>15 DEF EvalEnds, Scheduling, TypeOK
  <2>2. \A s \in Steps : /\ leases'[s] = leases[s] - One(s = eval)
                         /\ held'[s] = held[s] - One(s = eval)
    BY <1>15, <2>1, DropCounts DEF EvalEnds
  <2> QED
    BY <2>1, <2>2 DEF Counted, Own, One
<1>16. CASE OrphanEnds
  <2>1. PICK o \in orphans : orphans' = orphans \ {o} /\ leases' = [leases EXCEPT ![o.step] = @ - 1]
    BY <1>16 DEF OrphanEnds
  <2>2. \A s : Orphans(s)' = Orphans(s) - One(s = o.step)
    BY <2>1, OrphanRemoved DEF Orphaned
  <2>3. leases \in [Steps -> Nat]
    BY DEF TypeOK
  <2>4. \A s \in Steps : leases'[s] = IF s = o.step THEN leases[s] - 1 ELSE leases[s]
    BY <2>1, <2>3
  <2>5. UNCHANGED <<wver, scheduled, epc, eval, held>>
    BY <1>16 DEF OrphanEnds, trainerVars
  <2>6. \A s \in Steps : Own(s)' = Own(s) /\ Own(s) \in Nat
    BY <2>5 DEF Own, One
  <2> QED
    BY <2>2, <2>3, <2>4, <2>5, <2>6 DEF Counted, One
<1>17. CASE UnloadTimesOut
  <2>1. RunFails /\ run = "running"
    BY <1>17 DEF UnloadTimesOut, Settled, Ahead, Newest
  <2> QED
    BY <2>1, CountedFails
<1>18. CASE CopyTimesOut
  <2>1. RunFails /\ run = "running"
    BY <1>18 DEF CopyTimesOut, Settled, Ahead, Newest
  <2> QED
    BY <2>1, CountedFails
<1>19. CASE StageRaises
  <2>1. RunFails /\ run = "running"
    BY <1>19 DEF StageRaises, Settled, Ahead, Newest
  <2> QED
    BY <2>1, CountedFails
<1>20. CASE Dies
  <2>1. /\ wver' = [w \in Workers |-> NoStep] /\ scheduled' = {} /\ epc' = "none"
        /\ orphans' = {} /\ leases' = NoLease /\ held' = NoLease
    BY <1>20 DEF Dies
  <2>2. \A s \in Steps : Rollouts(s)' = 0 /\ Orphans(s)' = 0
    BY <2>1, NoRollouts, FS_EmptySet, OrphansCounted DEF Orphans
  <2> QED
    BY <2>1, <2>2 DEF Counted, Own, One, NoLease
<1>21. CASE Retry
  <2>1. /\ UNCHANGED <<wver, eval, epc, orphans>> /\ run # "running" /\ FirstEval(leases)
        /\ leases \in [Steps -> Nat]
    BY <1>21 DEF Retry, Starts, TypeOK
  <2>2. \A s \in Steps : leases[s] = Orphans(s)' /\ Orphans(s)' \in Nat
    <3>1. \A s \in Steps : Rollouts(s) = 0
      <4>1. \A w \in Workers : wver[w] = NoStep
        BY <2>1 DEF Scheduling
      <4>2. \A s \in Steps : \A w \in Workers : wver[w] # s
        BY <4>1, StepsAreNumbers
      <4> QED
        BY <4>2, RolloutsAreNumbers
    <3>2. \A s \in Steps : Own(s) = 0
      BY <2>1, <3>1 DEF Own, One, Scheduling
    <3> QED
      BY <2>1, <3>2, OrphansAreNumbers DEF Counted, Orphaned
  <2> QED
    BY <2>1, <2>2, CountedStarts
<1>22. CASE Restart
  <2>1. /\ UNCHANGED <<wver, eval, epc>> /\ run # "running" /\ FirstEval(NoLease)
        /\ orphans' = {} /\ NoLease \in [Steps -> Nat]
    BY <1>22 DEF Restart, Starts, NoLease
  <2>2. \A s \in Steps : NoLease[s] = Orphans(s)' /\ Orphans(s)' \in Nat
    BY <2>1, FS_EmptySet, OrphansCounted DEF Orphans, NoLease
  <2> QED
    BY <2>1, <2>2, CountedStarts
<1>23. CASE UNCHANGED vars
  BY <1>23 DEF vars, Counted, Own
<1> QED
  BY <1>1, <1>2, <1>3, <1>4, <1>5, <1>6, <1>7, <1>8, <1>9, <1>10, <1>11, <1>12, <1>13, <1>14,
     <1>15, <1>16, <1>17, <1>18, <1>19, <1>20, <1>21, <1>22, <1>23
     DEF Next, TrainStep, EvalStep, Failure


(***************************************************************************)
(* Types.  No lease counter is dropped below 0, because who drops one held *)
(* it.                                                                     *)
(***************************************************************************)

LEMMA TakeTyped ==
    ASSUME TypeOK, NEW t \in Steps, Take(t)
    PROVE  leases' \in [Steps -> Nat] /\ held' \in [Steps -> Nat]
<1>1. leases \in [Steps -> Nat] /\ held \in [Steps -> Nat]
  BY DEF TypeOK
<1>2. leases[t] + 1 \in Nat /\ held[t] + 1 \in Nat
  BY <1>1
<1> QED
  BY <1>1, <1>2 DEF Take

LEMMA DropTyped ==
    ASSUME TypeOK, NEW t \in Steps, Drop(t), leases[t] > 0, held[t] > 0
    PROVE  leases' \in [Steps -> Nat] /\ held' \in [Steps -> Nat]
<1>1. leases \in [Steps -> Nat] /\ held \in [Steps -> Nat]
  BY DEF TypeOK
<1>2. leases[t] - 1 \in Nat /\ held[t] - 1 \in Nat
  BY <1>1
<1> QED
  BY <1>1, <1>2 DEF Drop

LEMMA FailsTyped ==
    ASSUME TypeOK, Newest, Scheduling, Orphaned, Counted, RunFails, run = "running",
           unsure' \subseteq Steps
    PROVE  TypeOK'
<1>1. PICK orphaned \in BOOLEAN :
         /\ orphaned => epc = "sampling"
         /\ leases' = [s \in Steps |-> leases[s] - Dropped(s, orphaned)]
         /\ orphans' = orphans \cup (IF orphaned THEN {[run |-> runs, step |-> eval]} ELSE {})
  BY DEF RunFails
<1>2. \A s \in Steps : leases'[s] \in Nat
  <2>1. Counted' /\ wver' = [w \in Workers |-> NoStep] /\ scheduled' = {} /\ epc' = "none"
    BY CountedFails DEF RunFails
  <2>2. IsFiniteSet(orphans')
    <3>1. IsFiniteSet(orphans \cup {[run |-> runs, step |-> eval]})
      BY FS_AddElement DEF Orphaned
    <3> QED
      BY <1>1, <3>1 DEF Orphaned
  <2>3. \A s \in Steps : Orphans(s)' \in Nat /\ Rollouts(s)' \in Nat
    BY <2>2, OrphansCounted, RolloutsAreNumbers DEF Orphans
  <2> QED
    BY <2>1, <2>3 DEF Counted, Own, One
<1>3. leases' \in [Steps -> Nat]
  BY <1>1, <1>2
<1>4. orphans' \subseteq [run : 1 .. RunMax, step : Steps]
  <2>1. epc = "sampling" => eval \in Steps
    BY DEF Scheduling, TypeOK
  <2>2. orphans \subseteq [run : 1 .. RunMax, step : Steps] /\ runs \in 1 .. RunMax
    BY DEF TypeOK
  <2> QED
    BY <1>1, <2>1, <2>2
<1>5. held' \in [Steps -> Nat] /\ wver' \in [Workers -> Steps \cup {NoStep}]
  BY DEF RunFails, NoLease
<1>6. /\ evalq' \in Seq(Steps) /\ scheduled' \subseteq Steps /\ toUnload' \subseteq Steps
      /\ eval' \in Steps \cup {NoStep} /\ epc' = "none" /\ run' = "failed" /\ tpc' = "exit"
  BY DEF RunFails
<1>7. UNCHANGED <<runs, pv, nts, retain, ckpts, loaded, known, latest>>
  BY DEF RunFails, serviceVars
<1> QED
  BY <1>3, <1>4, <1>5, <1>6, <1>7 DEF TypeOK

LEMMA StartsTyped ==
    ASSUME TypeOK, Newest, runs < RunMax, NEW base \in [Steps -> Nat], Starts, FirstEval(base),
           orphans' \subseteq orphans, loaded' \subseteq Steps, known' \subseteq Steps,
           latest' \in Steps, unsure' \subseteq Steps
    PROVE  TypeOK'
<1>1. BackendStep \in Steps /\ runs + 1 \in 1 .. RunMax
  <2>1. runs \in 1 .. RunMax /\ RunMax \in Nat
    BY RetentionAssumption DEF TypeOK
  <2> QED
    BY <2>1, NewestTyped
<1>2. /\ evalq' \in Seq(Steps) /\ scheduled' \subseteq Steps
      /\ leases' \in [Steps -> Nat] /\ held' \in [Steps -> Nat]
  <2>1. CASE evalq' = <<>> /\ scheduled' = {} /\ leases' = base /\ held' = NoLease
    BY <2>1 DEF NoLease
  <2>2. CASE /\ evalq' = <<BackendStep>> /\ scheduled' = {BackendStep}
             /\ leases' = [base EXCEPT ![BackendStep] = @ + 1]
             /\ held' = [NoLease EXCEPT ![BackendStep] = 1]
    <3>1. base[BackendStep] + 1 \in Nat /\ NoLease \in [Steps -> Nat]
      BY <1>1 DEF NoLease
    <3> QED
      BY <1>1, <2>2, <3>1
  <2> QED
    BY <2>1, <2>2 DEF FirstEval
<1>3. /\ run' = "running" /\ runs' = runs + 1 /\ pv' = BackendStep /\ nts' = BackendStep
      /\ tpc' = "collect" /\ retain' = {} /\ toUnload' = {}
      /\ UNCHANGED <<wver, eval, epc, ckpts>>
  BY DEF Starts
<1> QED
  BY <1>1, <1>2, <1>3 DEF TypeOK


LEMMA TypeOKStep ==
    ASSUME TypeOK, Newest, Scheduling, Orphaned, Counted, [Next]_vars
    PROVE  TypeOK'
<1> USE DEF trainerVars, evalVars, leaseVars, serviceVars, Stays, NotTraining, NotEval
<1>1. ASSUME NEW w \in Workers, RolloutStarts(w) PROVE TypeOK'
  <2>1. leases' \in [Steps -> Nat] /\ held' \in [Steps -> Nat]
    BY <1>1, TakeTyped DEF RolloutStarts, TypeOK
  <2> QED
    BY <1>1, <2>1 DEF RolloutStarts, TypeOK
<1>2. ASSUME NEW w \in Workers, RolloutEnds(w) PROVE TypeOK'
  <2>1. wver[w] \in Steps
    BY <1>2 DEF RolloutEnds, TypeOK, Scheduling
  <2>2. leases' \in [Steps -> Nat] /\ held' \in [Steps -> Nat]
    BY <1>2, <2>1, HoldersLease, DropTyped DEF RolloutEnds
  <2> QED
    BY <1>2, <2>1, <2>2 DEF RolloutEnds, TypeOK
<1>3. CASE BeginTrain
  <2>1. nts' \in Steps
    BY <1>3, NewestTyped, StepsAreNumbers DEF BeginTrain, Newest, Settled
  <2> QED
    BY <1>3, <2>1 DEF BeginTrain, TypeOK
<1>4. CASE WriteCheckpoint
  <2>1. ckpts' \subseteq Steps
    BY <1>4, StepWritten DEF TypeOK
  <2> QED
    BY <1>4, <2>1 DEF WriteCheckpoint, TypeOK
<1>5. CASE VllmLoads
  BY <1>5, NewestTyped DEF VllmLoads, TypeOK
<1>6. CASE LoadReplies
  BY <1>6, NewestTyped DEF LoadReplies, TypeOK
<1>7. CASE Publish
  <2>1. retain' \subseteq Steps /\ toUnload' \subseteq Steps /\ BackendStep \in Steps
    BY <1>7, NewestTyped DEF Publish, Retained, Window, Active, TypeOK
  <2> QED
    BY <1>7, <2>1 DEF Publish, TypeOK
<1>8. CASE VllmUnloads
  BY <1>8 DEF VllmUnloads, TypeOK
<1>9. CASE UnloadReplies
  BY <1>9 DEF UnloadReplies, TypeOK
<1>10. CASE PruneEnds
  BY <1>10 DEF PruneEnds, TypeOK
<1>11. CASE RetainCheckpoints
  <2>1. ckpts' \subseteq Steps
    BY <1>11, StepRetained DEF TypeOK
  <2> QED
    BY <1>11, <2>1 DEF RetainCheckpoints, TypeOK
<1>12. CASE StepEnds
  <2>1. /\ tpc' = "collect"
        /\ UNCHANGED <<run, runs, pv, nts, wver, retain, toUnload, eval, epc, orphans, ckpts,
                       loaded, known, latest, unsure>>
    BY <1>12 DEF StepEnds
  <2>2. CASE UNCHANGED <<evalq, scheduled, leases, held>>
    BY <2>1, <2>2 DEF TypeOK
  <2>3. CASE evalq' = Append(evalq, pv) /\ scheduled' = scheduled \cup {pv} /\ Take(pv)
    <3>1. leases' \in [Steps -> Nat] /\ held' \in [Steps -> Nat]
      BY <2>3, TakeTyped DEF TypeOK
    <3>2. evalq' \in Seq(Steps) /\ scheduled' \subseteq Steps
      BY <2>3, AppendedQueue DEF TypeOK
    <3> QED
      BY <2>1, <3>1, <3>2 DEF TypeOK
  <2> QED
    BY <1>12, <2>2, <2>3 DEF StepEnds
<1>13. CASE EvalStarts
  <2>1. evalq \in Seq(Steps) /\ evalq # <<>>
    BY <1>13 DEF EvalStarts, TypeOK
  <2>2. Head(evalq) \in Steps /\ Tail(evalq) \in Seq(Steps)
    BY <2>1, RestOfQueue
  <2>3. leases' \in [Steps -> Nat] /\ held' \in [Steps -> Nat]
    BY <1>13, <2>2, TakeTyped DEF EvalStarts
  <2> QED
    BY <1>13, <2>2, <2>3 DEF EvalStarts, TypeOK
<1>14. CASE EvalReturns
  <2>1. eval \in Steps /\ epc = "sampling"
    BY <1>14 DEF EvalReturns, TypeOK, Scheduling
  <2>2. leases' \in [Steps -> Nat] /\ held' \in [Steps -> Nat]
    BY <1>14, <2>1, HoldersLease, DropTyped DEF EvalReturns
  <2> QED
    BY <1>14, <2>1, <2>2 DEF EvalReturns, TypeOK
<1>15. CASE EvalEnds
  <2>1. eval \in scheduled /\ eval \in Steps
    BY <1>15 DEF EvalEnds, TypeOK, Scheduling
  <2>2. leases' \in [Steps -> Nat] /\ held' \in [Steps -> Nat]
    BY <1>15, <2>1, HoldersLease, DropTyped DEF EvalEnds
  <2> QED
    BY <1>15, <2>1, <2>2 DEF EvalEnds, TypeOK
<1>16. CASE OrphanEnds
  <2>1. PICK o \in orphans : /\ orphans' = orphans \ {o}
                            /\ leases' = [leases EXCEPT ![o.step] = @ - 1]
    BY <1>16 DEF OrphanEnds
  <2>2. leases \in [Steps -> Nat] /\ o.step \in Steps /\ leases[o.step] > 0
    BY HoldersLease, RunsAreNumbers DEF TypeOK
  <2>3. leases' \in [Steps -> Nat]
    BY <2>1, <2>2
  <2> QED
    BY <1>16, <2>1, <2>3 DEF OrphanEnds, TypeOK
<1>17. CASE UnloadTimesOut
  <2>1. RunFails /\ run = "running" /\ unsure' \subseteq Steps
    BY <1>17, NewestTyped DEF UnloadTimesOut, TypeOK, Newest, Settled, Ahead
  <2> QED
    BY <2>1, FailsTyped
<1>18. CASE CopyTimesOut
  <2>1. RunFails /\ run = "running" /\ unsure' \subseteq Steps
    BY <1>18, NewestTyped DEF CopyTimesOut, TypeOK, Newest, Settled, Ahead
  <2> QED
    BY <2>1, FailsTyped
<1>19. CASE StageRaises
  <2>1. RunFails /\ run = "running" /\ unsure' \subseteq Steps
    BY <1>19, NewestTyped DEF StageRaises, TypeOK, Newest, Settled, Ahead
  <2> QED
    BY <2>1, FailsTyped
<1>20. CASE Dies
  <2>1. leases' \in [Steps -> Nat] /\ held' \in [Steps -> Nat] /\ evalq' \in Seq(Steps)
    BY <1>20 DEF Dies, NoLease
  <2> QED
    BY <1>20, <2>1 DEF Dies, TypeOK
<1>21. CASE Retry
  <2>1. leases \in [Steps -> Nat] /\ UNCHANGED <<orphans, loaded, known, latest, unsure>>
    BY <1>21 DEF Retry, TypeOK
  <2>2. /\ loaded' \subseteq Steps /\ known' \subseteq Steps /\ latest' \in Steps
        /\ unsure' \subseteq Steps
    BY <2>1 DEF TypeOK
  <2> QED
    BY <1>21, <2>1, <2>2, StartsTyped DEF Retry
<1>22. CASE Restart
  <2>1. NoLease \in [Steps -> Nat]
    BY DEF NoLease
  <2>2. /\ loaded' \subseteq Steps /\ known' \subseteq Steps /\ latest' \in Steps
        /\ unsure' \subseteq Steps
    BY <1>22, NewestTyped DEF Restart
  <2> QED
    BY <1>22, <2>1, <2>2, StartsTyped DEF Restart
<1>23. CASE UNCHANGED vars
  BY <1>23 DEF vars, TypeOK
<1> QED
  BY <1>1, <1>2, <1>3, <1>4, <1>5, <1>6, <1>7, <1>8, <1>9, <1>10, <1>11, <1>12, <1>13, <1>14,
     <1>15, <1>16, <1>17, <1>18, <1>19, <1>20, <1>21, <1>22, <1>23
     DEF Next, TrainStep, EvalStep, Failure


(***************************************************************************)
(* The references the next steps may take.                                 *)
(***************************************************************************)

LEMMA ReferencesKept == References /\ ckpts' = ckpts => References'
  BY StepKept DEF References, KlReference


LEMMA ReferencesStep == TypeOK /\ Newest /\ References /\ [Next]_vars => References'
<1> SUFFICES ASSUME TypeOK /\ Newest /\ References, [Next]_vars PROVE References'
  OBVIOUS
<1> USE DEF trainerVars, evalVars, leaseVars, serviceVars, Stays, NotTraining, NotEval
<1>1. ASSUME NEW w \in Workers, RolloutStarts(w) PROVE References'
  <2>1. ckpts' = ckpts
    BY <1>1 DEF RolloutStarts, Take
  <2> QED
    BY <2>1, ReferencesKept
<1>2. ASSUME NEW w \in Workers, RolloutEnds(w) PROVE References'
  <2>1. ckpts' = ckpts
    BY <1>2 DEF RolloutEnds, Drop
  <2> QED
    BY <2>1, ReferencesKept
<1>3. CASE BeginTrain
  <2>1. ckpts' = ckpts
    BY <1>3 DEF BeginTrain
  <2> QED
    BY <2>1, ReferencesKept
<1>4. CASE WriteCheckpoint
  <2>1. /\ BackendStep' = BackendStep + 1 /\ ckpts' = ckpts \cup {BackendStep'}
        /\ BackendStep \in Nat
    BY <1>4, StepWritten, NewestTyped
  <2>2. KlLag # 0 => KlReference(BackendStep) <= KlReference(BackendStep + 1)
    BY <2>1, RetentionAssumption DEF KlReference
  <2>3. KlReference(BackendStep) \in Int /\ KlReference(BackendStep + 1) \in Int
    BY <2>1, RetentionAssumption DEF KlReference
  <2>4. CASE KlLag = 0 \/ ~ UsesKl
    BY <2>1, <2>4 DEF References
  <2>5. CASE KlLag # 0 /\ UsesKl
    <3> SUFFICES ASSUME NEW s \in Steps, KlReference(BackendStep + 1) <= s,
                        s <= BackendStep + 1
                 PROVE  s \in ckpts'
      BY <2>1, <2>5 DEF References, KlReference
    <3>1. CASE s = BackendStep + 1
      BY <2>1, <3>1
    <3>2. CASE s # BackendStep + 1
      <4>1. KlReference(BackendStep) <= s /\ s <= BackendStep
        BY <2>1, <2>2, <2>3, <2>5, <3>2, StepsAreNumbers
      <4> QED
        BY <2>1, <2>5, <4>1 DEF References
    <3> QED
      BY <3>1, <3>2
  <2> QED
    BY <2>4, <2>5
<1>5. CASE VllmLoads
  <2>1. ckpts' = ckpts
    BY <1>5 DEF VllmLoads
  <2> QED
    BY <2>1, ReferencesKept
<1>6. CASE LoadReplies
  <2>1. ckpts' = ckpts
    BY <1>6 DEF LoadReplies
  <2> QED
    BY <2>1, ReferencesKept
<1>7. CASE Publish
  <2>1. ckpts' = ckpts
    BY <1>7 DEF Publish
  <2> QED
    BY <2>1, ReferencesKept
<1>8. CASE VllmUnloads
  <2>1. ckpts' = ckpts
    BY <1>8 DEF VllmUnloads
  <2> QED
    BY <2>1, ReferencesKept
<1>9. CASE UnloadReplies
  <2>1. ckpts' = ckpts
    BY <1>9 DEF UnloadReplies
  <2> QED
    BY <2>1, ReferencesKept
<1>10. CASE PruneEnds
  <2>1. ckpts' = ckpts
    BY <1>10 DEF PruneEnds
  <2> QED
    BY <2>1, ReferencesKept
<1>11. CASE RetainCheckpoints
  <2>1. BackendStep' = BackendStep /\ pv = BackendStep
    BY <1>11, StepRetained DEF RetainCheckpoints, Newest, Settled
  <2>2. ckpts \cap KlProtected(BackendStep) \subseteq ckpts'
    BY <1>11, <2>1 DEF RetainCheckpoints, Protected
  <2> QED
    BY <2>1, <2>2, StepsAreNumbers DEF References, KlProtected, KlReference
<1>12. CASE StepEnds
  <2>1. ckpts' = ckpts
    BY <1>12 DEF StepEnds, Take
  <2> QED
    BY <2>1, ReferencesKept
<1>13. CASE EvalStarts
  <2>1. ckpts' = ckpts
    BY <1>13 DEF EvalStarts, Take
  <2> QED
    BY <2>1, ReferencesKept
<1>14. CASE EvalReturns
  <2>1. ckpts' = ckpts
    BY <1>14 DEF EvalReturns, Drop
  <2> QED
    BY <2>1, ReferencesKept
<1>15. CASE EvalEnds
  <2>1. ckpts' = ckpts
    BY <1>15 DEF EvalEnds, Drop
  <2> QED
    BY <2>1, ReferencesKept
<1>16. CASE OrphanEnds
  <2>1. ckpts' = ckpts
    BY <1>16 DEF OrphanEnds
  <2> QED
    BY <2>1, ReferencesKept
<1>17. CASE UnloadTimesOut
  <2>1. ckpts' = ckpts
    BY <1>17 DEF UnloadTimesOut, RunFails
  <2> QED
    BY <2>1, ReferencesKept
<1>18. CASE CopyTimesOut
  <2>1. ckpts' = ckpts
    BY <1>18 DEF CopyTimesOut, RunFails
  <2> QED
    BY <2>1, ReferencesKept
<1>19. CASE StageRaises
  <2>1. ckpts' = ckpts
    BY <1>19 DEF StageRaises, RunFails
  <2> QED
    BY <2>1, ReferencesKept
<1>20. CASE Dies
  <2>1. ckpts' = ckpts
    BY <1>20 DEF Dies
  <2> QED
    BY <2>1, ReferencesKept
<1>21. CASE Retry
  <2>1. ckpts' = ckpts
    BY <1>21 DEF Retry, Starts, FirstEval
  <2> QED
    BY <2>1, ReferencesKept
<1>22. CASE Restart
  <2>1. ckpts' = ckpts
    BY <1>22 DEF Restart, Starts, FirstEval
  <2> QED
    BY <2>1, ReferencesKept
<1>23. CASE UNCHANGED vars
  BY <1>23 DEF vars, References, KlReference, BackendStep
<1> QED
  BY <1>1, <1>2, <1>3, <1>4, <1>5, <1>6, <1>7, <1>8, <1>9, <1>10, <1>11, <1>12, <1>13, <1>14,
     <1>15, <1>16, <1>17, <1>18, <1>19, <1>20, <1>21, <1>22, <1>23
     DEF Next, TrainStep, EvalStep, Failure


(***************************************************************************)
(* An adapter out of the window that nobody samples from stays so: leases  *)
(* are taken of the current step, or of one that is leased already.        *)
(***************************************************************************)

LEMMA OutdatedTaken ==
    ASSUME TypeOK, NEW t \in Steps, Take(t), UNCHANGED pv, t + MaxOff >= pv \/ leases[t] > 0
    PROVE  \A s \in Steps : Outdated(s) => Outdated(s)'
<1>1. \A s \in Steps : Outdated(s) => s # t
  <2>1. leases \in [Steps -> Nat] /\ pv \in Nat /\ Steps \subseteq Nat /\ MaxOff \in Nat
    BY StepsAreNumbers, RetentionAssumption DEF TypeOK
  <2> QED
    BY <2>1 DEF Outdated
<1>2. \A s \in Steps : s # t => leases'[s] = leases[s] + 0
  BY TakeCounts DEF One
<1> QED
  BY <1>1, <1>2 DEF Outdated

LEMMA NoMoreHolders ==
    ASSUME TypeOK, TypeOK', UNCHANGED pv, \A s \in Steps : leases'[s] <= leases[s]
    PROVE  \A s \in Steps : Outdated(s) => Outdated(s)'
<1>1. leases \in [Steps -> Nat] /\ leases' \in [Steps -> Nat]
  BY DEF TypeOK
<1> QED
  BY <1>1 DEF Outdated

LEMMA DropLess ==
    ASSUME TypeOK, NEW t \in Steps, Drop(t)
    PROVE  \A s \in Steps : leases'[s] <= leases[s]
<1>1. leases \in [Steps -> Nat]
  BY DEF TypeOK
<1> QED
  BY <1>1 DEF Drop

LEMMA FailsDrop ==
    ASSUME TypeOK, RunFails
    PROVE  \A s \in Steps : leases'[s] <= leases[s]
<1>1. PICK orphaned \in BOOLEAN : leases' = [s \in Steps |-> leases[s] - Dropped(s, orphaned)]
  BY DEF RunFails
<1>2. \A s \in Steps : Dropped(s, orphaned) \in Nat
  <2> SUFFICES ASSUME NEW s \in Steps PROVE Dropped(s, orphaned) \in Nat
    OBVIOUS
  <2>1. Dropped(s, orphaned)
          = Rollouts(s) + One(s \in scheduled) + One(epc = "sampling" /\ eval = s /\ ~ orphaned)
    BY DEF Rollouts, Dropped
  <2>2. Rollouts(s) \in Nat
    BY RolloutsAreNumbers
  <2> QED
    BY <2>1, <2>2 DEF One
<1>3. leases \in [Steps -> Nat]
  BY DEF TypeOK
<1> QED
  BY <1>1, <1>2, <1>3


LEMMA OutdatedStep ==
    ASSUME TypeOK, Newest, Scheduling, Orphaned, Counted, TypeOK', [Next]_vars
    PROVE  \A s \in Steps : (Outdated(s) => Outdated(s)')
<1> USE DEF trainerVars, evalVars, leaseVars, serviceVars, Stays, NotTraining, NotEval
<1>1. ASSUME NEW w \in Workers, RolloutStarts(w) PROVE \A s \in Steps : (Outdated(s) => Outdated(s)')
  <2>1. Take(pv) /\ pv \in Steps /\ UNCHANGED pv
    BY <1>1 DEF RolloutStarts, TypeOK
  <2>2. pv + MaxOff >= pv
    BY NewestTyped, RetentionAssumption
  <2> QED
    BY <2>1, <2>2, OutdatedTaken
<1>2. ASSUME NEW w \in Workers, RolloutEnds(w) PROVE \A s \in Steps : (Outdated(s) => Outdated(s)')
  <2>1. Drop(wver[w]) /\ UNCHANGED pv /\ wver[w] \in Steps
    BY <1>2 DEF RolloutEnds, TypeOK, Scheduling
  <2> QED
    BY <2>1, DropLess, NoMoreHolders
<1>3. CASE BeginTrain
  BY <1>3 DEF BeginTrain, Outdated
<1>4. CASE WriteCheckpoint
  BY <1>4 DEF WriteCheckpoint, Outdated
<1>5. CASE VllmLoads
  BY <1>5 DEF VllmLoads, Outdated
<1>6. CASE LoadReplies
  BY <1>6 DEF LoadReplies, Outdated
<1>7. CASE Publish
  <2>1. /\ pv' = BackendStep /\ UNCHANGED leases
        /\ BackendStep \in Nat /\ pv \in Nat /\ pv <= BackendStep
    BY <1>7, NewestTyped DEF Publish, Newest
  <2> QED
    BY <2>1, RetentionAssumption, StepsAreNumbers DEF Outdated
<1>8. CASE VllmUnloads
  BY <1>8 DEF VllmUnloads, Outdated
<1>9. CASE UnloadReplies
  BY <1>9 DEF UnloadReplies, Outdated
<1>10. CASE PruneEnds
  BY <1>10 DEF PruneEnds, Outdated
<1>11. CASE RetainCheckpoints
  BY <1>11 DEF RetainCheckpoints, Outdated
<1>12. CASE StepEnds
  <2>1. UNCHANGED pv /\ pv \in Steps
    BY <1>12 DEF StepEnds, TypeOK
  <2>4. pv + MaxOff >= pv
    BY NewestTyped, RetentionAssumption
  <2>2. CASE UNCHANGED leases
    BY <2>1, <2>2 DEF Outdated
  <2>3. CASE Take(pv)
    BY <2>1, <2>3, <2>4, OutdatedTaken
  <2> QED
    BY <1>12, <2>2, <2>3 DEF StepEnds
<1>13. CASE EvalStarts
  <2>1. /\ Take(Head(evalq)) /\ UNCHANGED pv
        /\ Head(evalq) \in Steps /\ leases[Head(evalq)] > 0
    <3>1. evalq \in Seq(Steps) /\ evalq # <<>>
      BY <1>13 DEF EvalStarts, TypeOK
    <3>2. Head(evalq) = evalq[1] /\ 1 \in 1 .. Len(evalq) /\ Head(evalq) \in Steps
      BY <3>1, RestOfQueue
    <3>3. Head(evalq) \in scheduled
      BY <3>2 DEF Scheduling
    <3> QED
      BY <1>13, <3>2, <3>3, HoldersLease DEF EvalStarts
  <2> QED
    BY <2>1, OutdatedTaken
<1>14. CASE EvalReturns
  <2>1. Drop(eval) /\ UNCHANGED pv /\ eval \in Steps
    BY <1>14 DEF EvalReturns, TypeOK, Scheduling
  <2> QED
    BY <2>1, DropLess, NoMoreHolders
<1>15. CASE EvalEnds
  <2>1. Drop(eval) /\ UNCHANGED pv /\ eval \in Steps
    BY <1>15 DEF EvalEnds, TypeOK, Scheduling
  <2> QED
    BY <2>1, DropLess, NoMoreHolders
<1>16. CASE OrphanEnds
  <2>1. /\ leases \in [Steps -> Nat] /\ UNCHANGED pv
        /\ \E o \in orphans : leases' = [leases EXCEPT ![o.step] = @ - 1]
    BY <1>16 DEF OrphanEnds, TypeOK
  <2>2. \A s \in Steps : leases'[s] <= leases[s]
    BY <2>1
  <2> QED
    BY <2>1, <2>2, NoMoreHolders
<1>17. CASE UnloadTimesOut
  <2>1. UNCHANGED pv /\ \A s \in Steps : leases'[s] <= leases[s]
    BY <1>17, FailsDrop DEF UnloadTimesOut, RunFails
  <2> QED
    BY <2>1, NoMoreHolders
<1>18. CASE CopyTimesOut
  <2>1. UNCHANGED pv /\ \A s \in Steps : leases'[s] <= leases[s]
    BY <1>18, FailsDrop DEF CopyTimesOut, RunFails
  <2> QED
    BY <2>1, NoMoreHolders
<1>19. CASE StageRaises
  <2>1. UNCHANGED pv /\ \A s \in Steps : leases'[s] <= leases[s]
    BY <1>19, FailsDrop DEF StageRaises, RunFails
  <2> QED
    BY <2>1, NoMoreHolders
<1>20. CASE Dies
  <2>1. UNCHANGED pv /\ leases' = NoLease
    BY <1>20 DEF Dies
  <2> QED
    BY <2>1 DEF NoLease, Outdated
<1>21. CASE Retry
  <2>1. /\ FirstEval(leases) /\ pv' = BackendStep /\ BackendStep \in Steps /\ BackendStep \in Nat
        /\ pv \in Nat /\ pv <= BackendStep /\ leases \in [Steps -> Nat]
    BY <1>21, NewestTyped DEF Retry, Starts, Newest, TypeOK, NoLease
  <2>2. \A s \in Steps : s # BackendStep => leases'[s] = leases[s]
    BY <2>1 DEF FirstEval
  <2>3. \A s \in Steps : s \in Nat /\ (s + MaxOff < pv => s # BackendStep /\ s + MaxOff < pv')
    BY <2>1, RetentionAssumption, StepsAreNumbers
  <2> QED
    BY <2>2, <2>3 DEF Outdated, NoLease
<1>22. CASE Restart
  <2>1. /\ FirstEval(NoLease) /\ pv' = BackendStep /\ BackendStep \in Steps /\ BackendStep \in Nat
        /\ pv \in Nat /\ pv <= BackendStep /\ NoLease \in [Steps -> Nat]
    BY <1>22, NewestTyped DEF Restart, Starts, Newest, TypeOK, NoLease
  <2>2. \A s \in Steps : s # BackendStep => leases'[s] = NoLease[s]
    BY <2>1 DEF FirstEval
  <2>3. \A s \in Steps : s \in Nat /\ (s + MaxOff < pv => s # BackendStep /\ s + MaxOff < pv')
    BY <2>1, RetentionAssumption, StepsAreNumbers
  <2> QED
    BY <2>2, <2>3 DEF Outdated, NoLease
<1>23. CASE UNCHANGED vars
  BY <1>23 DEF vars, Outdated
<1> QED
  BY <1>1, <1>2, <1>3, <1>4, <1>5, <1>6, <1>7, <1>8, <1>9, <1>10, <1>11, <1>12, <1>13, <1>14,
     <1>15, <1>16, <1>17, <1>18, <1>19, <1>20, <1>21, <1>22, <1>23
     DEF Next, TrainStep, EvalStep, Failure


\* Nobody samples from, or is scheduled to sample from, an outdated adapter.
LEMMA SampledAreLeased ==
    ASSUME TypeOK, Scheduling, Orphaned, Counted
    PROVE  \A s \in Sampled \cup scheduled : s \in Steps /\ leases[s] > 0 /\ ~ Outdated(s)
<1>1. \A w \in Workers : wver[w] # NoStep => wver[w] \in Steps
  BY DEF TypeOK
<1>2. epc = "sampling" => eval \in Steps
  BY DEF TypeOK, Scheduling
<1>3. scheduled \subseteq Steps /\ \A o \in orphans : o.step \in Steps
  BY RunsAreNumbers DEF TypeOK
<1>4. \A s \in Sampled \cup scheduled : s \in Steps /\ leases[s] > 0
  BY <1>1, <1>2, <1>3, HoldersLease DEF Sampled
<1> QED
  BY <1>4 DEF Outdated

\* The adapter the loop unloads next is one of those it has yet to unload.
LEMMA NextUnload ==
    ASSUME TypeOK, toUnload # {}
    PROVE  MinOf(toUnload) \in toUnload
  BY MinIsElement, StepsAreNumbers DEF TypeOK


(***************************************************************************)
(* What the service knows of the adapters vLLM holds.                      *)
(***************************************************************************)

LEMMA BelievedTyped ==
    TypeOK => loaded \subseteq Nat /\ known \subseteq Steps \cap Nat /\ unsure \subseteq Nat
  BY StepsAreNumbers DEF TypeOK

LEMMA NotYetBelieved ==
    ASSUME TypeOK, Newest, Believed, tpc \in Ahead \ {"returned"}
    PROVE  BackendStep \notin known /\ BackendStep \notin unsure
<1>1. \A s \in known \cup unsure : s <= pv
  BY DEF Believed
<1>2. pv < BackendStep /\ pv \in Nat /\ BackendStep \in Nat
  BY NewestTyped DEF Newest
<1> QED
  BY <1>1, <1>2

LEMMA BelievedKept ==
    ASSUME TypeOK, Believed, UNCHANGED <<ckpts, tpc, loaded, known, unsure, pv>>,
           \A s \in Steps : (Outdated(s) => Outdated(s)')
    PROVE  Believed'
<1>1. BackendStep' = BackendStep
  BY StepKept
<1> QED
  BY <1>1, BelievedTyped DEF Believed

LEMMA BelievedQuiet ==
    ASSUME TypeOK, Believed, UNCHANGED <<ckpts, loaded, known, unsure>>, tpc' \notin Ahead,
           tpc \notin {"copy loaded", "loaded"},
           \A s \in Steps : (Outdated(s) => Outdated(s)')
    PROVE  Believed'
<1>1. BackendStep' = BackendStep
  BY StepKept
<1> QED
  BY <1>1, BelievedTyped DEF Believed, Ahead


LEMMA BelievedStep ==
    ASSUME TypeOK, Newest, Scheduling, Orphaned, Counted, TypeOK', Believed, Pruning, Serves,
           [Next]_vars
    PROVE  Believed'
<1> USE DEF trainerVars, evalVars, leaseVars, serviceVars, Stays, NotTraining, NotEval
<1>0. \A s \in Steps : (Outdated(s) => Outdated(s)')
  BY OutdatedStep
<1> USE <1>0
<1>1. ASSUME NEW w \in Workers, RolloutStarts(w) PROVE Believed'
  <2>1. UNCHANGED <<ckpts, tpc, loaded, known, unsure, pv>>
    BY <1>1 DEF RolloutStarts
  <2> QED
    BY <2>1, BelievedKept
<1>2. ASSUME NEW w \in Workers, RolloutEnds(w) PROVE Believed'
  <2>1. UNCHANGED <<ckpts, tpc, loaded, known, unsure, pv>>
    BY <1>2 DEF RolloutEnds
  <2> QED
    BY <2>1, BelievedKept
<1>3. CASE BeginTrain
  <2>1. UNCHANGED <<ckpts, loaded, known, unsure>> /\ tpc' \notin Ahead
        /\ tpc \notin {"copy loaded", "loaded"}
    BY <1>3 DEF BeginTrain, Ahead, Settled, Newest
  <2> QED
    BY <2>1, BelievedQuiet
<1>4. CASE WriteCheckpoint
  <2>1. UNCHANGED <<pv, loaded, known, unsure>> /\ tpc' \in {"saved", "copied"}
        /\ tpc = "training" /\ pv = BackendStep /\ pv \in Nat
    BY <1>4, NewestTyped DEF WriteCheckpoint, Newest, Settled
  <2>2. BackendStep' = BackendStep + 1
    BY <1>4, StepWritten
  <2>3. \A s \in known \cup unsure : s \in Nat /\ s <= BackendStep
    BY BelievedTyped DEF Believed
  <2>4. \A s \in known \cup unsure : s <= BackendStep + 1 /\ s <= pv
    BY <2>1, <2>3
  <2>5. /\ loaded \subseteq known \cup unsure /\ known \cap unsure = {}
        /\ known \subseteq Steps /\ \A s \in known \ loaded : Outdated(s)
    BY <2>1, BelievedTyped DEF Believed
  <2> QED
    BY <2>1, <2>2, <2>4, <2>5 DEF Believed
<1>5. CASE VllmLoads
  <2>1. /\ UNCHANGED <<ckpts, pv, known, unsure>> /\ loaded' = loaded \cup {BackendStep}
        /\ tpc \in {"copied", "saved"} /\ tpc' \in {"copy loaded", "loaded"}
    BY <1>5 DEF VllmLoads
  <2>2. BackendStep' = BackendStep
    BY <2>1, StepKept
  <2> QED
    BY <2>1, <2>2, BelievedTyped DEF Believed, Ahead
<1>6. CASE LoadReplies
  <2>1. /\ UNCHANGED <<ckpts, pv, loaded, unsure>> /\ known' = known \cup {BackendStep}
        /\ tpc \in {"copy loaded", "loaded"} /\ tpc' = "returned"
    BY <1>6 DEF LoadReplies
  <2>2. BackendStep' = BackendStep /\ BackendStep \in loaded /\ BackendStep \in Nat
    BY <2>1, StepKept, NewestTyped DEF Serves
  <2>3. BackendStep \notin unsure
    BY <2>1, NotYetBelieved DEF Ahead
  <2>4. /\ loaded \subseteq known \cup unsure \cup {BackendStep} /\ known \cap unsure = {}
        /\ \A s \in known \cup unsure : s <= BackendStep
        /\ known \subseteq Steps /\ \A s \in known \ loaded : Outdated(s)
    BY <2>1, BelievedTyped DEF Believed
  <2>5. BackendStep <= BackendStep
    BY <2>2
  <2> QED
    BY <2>1, <2>2, <2>3, <2>4, <2>5 DEF Believed
<1>7. CASE Publish
  <2>1. UNCHANGED <<ckpts, loaded, known, unsure>> /\ tpc' \notin Ahead
        /\ tpc \notin {"copy loaded", "loaded"}
    BY <1>7 DEF Publish, Ahead, Settled, Newest
  <2> QED
    BY <2>1, BelievedQuiet
<1>8. CASE VllmUnloads
  <2>1. /\ UNCHANGED <<ckpts, pv, known, unsure>> /\ loaded' = loaded \ {MinOf(toUnload)}
        /\ tpc = "pruning" /\ tpc' = "unloading" /\ toUnload # {}
    BY <1>8 DEF VllmUnloads
  <2>2. BackendStep' = BackendStep /\ Outdated(MinOf(toUnload))
    BY <2>1, StepKept, NextUnload DEF Pruning
  <2> QED
    BY <2>1, <2>2, BelievedTyped DEF Believed, Ahead
<1>9. CASE UnloadReplies
  <2>1. /\ UNCHANGED <<ckpts, pv, loaded, unsure>> /\ known' = known \ {MinOf(toUnload)}
        /\ tpc = "unloading" /\ tpc' = "pruning" /\ MinOf(toUnload) \notin loaded
    BY <1>9 DEF UnloadReplies, Pruning
  <2>2. BackendStep' = BackendStep
    BY <2>1, StepKept
  <2> QED
    BY <2>1, <2>2, BelievedTyped DEF Believed, Ahead
<1>10. CASE PruneEnds
  <2>1. UNCHANGED <<ckpts, loaded, known, unsure>> /\ tpc' \notin Ahead
        /\ tpc \notin {"copy loaded", "loaded"}
    BY <1>10 DEF PruneEnds, Ahead, Settled, Newest
  <2> QED
    BY <2>1, BelievedQuiet
<1>11. CASE RetainCheckpoints
  <2>1. UNCHANGED <<loaded, known, unsure>> /\ tpc' = "retained" /\ tpc = "pruned"
        /\ BackendStep' = BackendStep
    BY <1>11, StepRetained DEF RetainCheckpoints
  <2> QED
    BY <2>1, BelievedTyped DEF Believed, Ahead
<1>12. CASE StepEnds
  <2>1. UNCHANGED <<ckpts, loaded, known, unsure>> /\ tpc' \notin Ahead
        /\ tpc \notin {"copy loaded", "loaded"}
    BY <1>12 DEF StepEnds, Take, Ahead, Settled, Newest
  <2> QED
    BY <2>1, BelievedQuiet
<1>13. CASE EvalStarts
  <2>1. UNCHANGED <<ckpts, tpc, loaded, known, unsure, pv>>
    BY <1>13 DEF EvalStarts
  <2> QED
    BY <2>1, BelievedKept
<1>14. CASE EvalReturns
  <2>1. UNCHANGED <<ckpts, tpc, loaded, known, unsure, pv>>
    BY <1>14 DEF EvalReturns
  <2> QED
    BY <2>1, BelievedKept
<1>15. CASE EvalEnds
  <2>1. UNCHANGED <<ckpts, tpc, loaded, known, unsure, pv>>
    BY <1>15 DEF EvalEnds
  <2> QED
    BY <2>1, BelievedKept
<1>16. CASE OrphanEnds
  <2>1. UNCHANGED <<ckpts, tpc, loaded, known, unsure, pv>>
    BY <1>16 DEF OrphanEnds
  <2> QED
    BY <2>1, BelievedKept
<1>17. CASE UnloadTimesOut
  <2>1. UNCHANGED <<ckpts, loaded, known, unsure>> /\ tpc' \notin Ahead
        /\ tpc \notin {"copy loaded", "loaded"}
    BY <1>17 DEF UnloadTimesOut, RunFails, Ahead, Settled, Newest
  <2> QED
    BY <2>1, BelievedQuiet
<1>18. CASE CopyTimesOut
  <2>1. /\ UNCHANGED <<ckpts, pv, loaded, known>> /\ unsure' = unsure \cup {BackendStep}
        /\ tpc \in {"copied", "copy loaded"} /\ tpc' = "exit"
    BY <1>18 DEF CopyTimesOut, RunFails
  <2>2. BackendStep' = BackendStep /\ BackendStep \in Nat /\ pv < BackendStep
    BY <2>1, StepKept, NewestTyped DEF Newest, Ahead
  <2>3. BackendStep \notin known
    BY <2>1, NotYetBelieved DEF Ahead
  <2>4. /\ loaded \subseteq known \cup unsure \cup {BackendStep} /\ known \cap unsure = {}
        /\ \A s \in known \cup unsure : s <= BackendStep
        /\ known \subseteq Steps /\ \A s \in known \ loaded : Outdated(s)
    BY <2>1, BelievedTyped DEF Believed
  <2>5. BackendStep <= BackendStep
    BY <2>2
  <2> QED
    BY <2>1, <2>2, <2>3, <2>4, <2>5 DEF Believed, Ahead
<1>19. CASE StageRaises
  <2>1. UNCHANGED <<ckpts, loaded, known, unsure>> /\ tpc' \notin Ahead
        /\ tpc \notin {"copy loaded", "loaded"}
    BY <1>19 DEF StageRaises, RunFails, Ahead, Settled, Newest
  <2> QED
    BY <2>1, BelievedQuiet
<1>20. CASE Dies
  <2>1. loaded' = {} /\ known' = {} /\ UNCHANGED <<unsure, ckpts>> /\ tpc' = "exit"
    BY <1>20 DEF Dies
  <2>2. BackendStep' = BackendStep
    BY <2>1, StepKept
  <2> QED
    BY <2>1, <2>2 DEF Believed, Ahead
<1>21. CASE Retry
  <2>1. UNCHANGED <<ckpts, loaded, known, unsure>> /\ tpc' \notin Ahead
        /\ tpc \notin {"copy loaded", "loaded"}
    BY <1>21 DEF Retry, Starts, FirstEval, Ahead, Settled, Newest
  <2> QED
    BY <2>1, BelievedQuiet
<1>22. CASE Restart
  <2>1. /\ loaded' = {BackendStep} /\ known' = {BackendStep} /\ unsure' = {}
        /\ tpc' = "collect" /\ UNCHANGED ckpts
    BY <1>22 DEF Restart, Starts
  <2>2. BackendStep' = BackendStep /\ BackendStep \in Nat
    BY <2>1, StepKept, NewestTyped
  <2>3. BackendStep <= BackendStep
    BY <2>2
  <2> QED
    BY <2>1, <2>2, <2>3, Zenon DEF Believed, Ahead
<1>23. CASE UNCHANGED vars
  BY <1>23, BelievedKept DEF vars
<1> QED
  BY <1>1, <1>2, <1>3, <1>4, <1>5, <1>6, <1>7, <1>8, <1>9, <1>10, <1>11, <1>12, <1>13, <1>14,
     <1>15, <1>16, <1>17, <1>18, <1>19, <1>20, <1>21, <1>22, <1>23
     DEF Next, TrainStep, EvalStep, Failure


(***************************************************************************)
(* The prune.                                                              *)
(***************************************************************************)

LEMMA PruningKept ==
    ASSUME TypeOK, Pruning, UNCHANGED <<tpc, toUnload, known, retain, loaded>>,
           \A s \in Steps : (Outdated(s) => Outdated(s)')
    PROVE  Pruning'
<1>1. MinOf(toUnload)' = MinOf(toUnload) /\ toUnload \subseteq Steps
  BY DEF MinOf, TypeOK
<1> QED
  BY <1>1 DEF Pruning


LEMMA PruningStep ==
    ASSUME TypeOK, Newest, Scheduling, Orphaned, Counted, TypeOK', Believed, Pruning, Serves,
           [Next]_vars
    PROVE  Pruning'
<1> USE DEF trainerVars, evalVars, leaseVars, serviceVars, Stays, NotTraining, NotEval
<1>0. \A s \in Steps : (Outdated(s) => Outdated(s)')
  BY OutdatedStep
<1> USE <1>0
<1>1. ASSUME NEW w \in Workers, RolloutStarts(w) PROVE Pruning'
  <2>1. UNCHANGED <<tpc, toUnload, known, retain, loaded>>
    BY <1>1 DEF RolloutStarts
  <2> QED
    BY <2>1, PruningKept
<1>2. ASSUME NEW w \in Workers, RolloutEnds(w) PROVE Pruning'
  <2>1. UNCHANGED <<tpc, toUnload, known, retain, loaded>>
    BY <1>2 DEF RolloutEnds
  <2> QED
    BY <2>1, PruningKept
<1>3. CASE BeginTrain
  <2>1. tpc' \notin {"pruning", "unloading", "pruned", "retained"}
    BY <1>3 DEF BeginTrain
  <2> QED
    BY <2>1 DEF Pruning
<1>4. CASE WriteCheckpoint
  <2>1. tpc' \notin {"pruning", "unloading", "pruned", "retained"}
    BY <1>4 DEF WriteCheckpoint
  <2> QED
    BY <2>1 DEF Pruning
<1>5. CASE VllmLoads
  <2>1. tpc' \notin {"pruning", "unloading", "pruned", "retained"}
    BY <1>5 DEF VllmLoads
  <2> QED
    BY <2>1 DEF Pruning
<1>6. CASE LoadReplies
  <2>1. tpc' \notin {"pruning", "unloading", "pruned", "retained"}
    BY <1>6 DEF LoadReplies
  <2> QED
    BY <2>1 DEF Pruning
<1>7. CASE Publish
  <2>1. /\ retain' = Retained(BackendStep) /\ UNCHANGED <<known, loaded>> /\ tpc' = "pruning"
        /\ toUnload' = known \ Retained(BackendStep) /\ pv' = BackendStep /\ UNCHANGED leases
    <3>1. tpc = "returned" /\ latest = BackendStep
      BY <1>7 DEF Publish, Serves
    <3>2. BackendStep \in Retained(BackendStep)
      BY NewestTyped, RetentionAssumption DEF Retained, Window
    <3> QED
      BY <1>7, <3>1, <3>2 DEF Publish
  <2>2. known \subseteq Steps /\ leases \in [Steps -> Nat] /\ BackendStep \in Nat /\ pv \in Nat
        /\ pv <= BackendStep /\ Steps \subseteq Nat /\ MaxOff \in Nat
    BY BelievedTyped, NewestTyped, StepsAreNumbers, RetentionAssumption DEF TypeOK, Newest
  <2>3. \A s \in known : s \in Nat /\ s <= BackendStep
    BY <2>2 DEF Believed
  <2>4. \A s \in known \ Retained(BackendStep) : s + MaxOff < BackendStep /\ leases[s] = 0
    BY <2>2, <2>3 DEF Retained, Window, Active
  <2>5. \A s \in known \ loaded : s \notin Retained(BackendStep)
    <3>1. \A s \in known \ loaded : s \in Nat /\ s + MaxOff < pv /\ leases[s] = 0
      BY <2>2 DEF Believed, Outdated
    <3>2. \A s \in known \ loaded : ~ (BackendStep - MaxOff <= s)
      BY <2>2, <3>1
    <3> QED
      BY <3>1, <3>2 DEF Retained, Window, Active
  <2>6. \A s \in toUnload' : Outdated(s)'
    BY <2>1, <2>4 DEF Outdated
  <2>7. /\ toUnload' \subseteq known' /\ known' \subseteq retain' \cup toUnload'
        /\ known' \subseteq loaded' \cup toUnload'
    BY <2>1, <2>5
  <2> QED
    BY <2>1, <2>6, <2>7 DEF Pruning
<1>8. CASE VllmUnloads
  <2>1. /\ UNCHANGED <<toUnload, known, retain>> /\ loaded' = loaded \ {MinOf(toUnload)}
        /\ tpc = "pruning" /\ tpc' = "unloading" /\ toUnload # {}
    BY <1>8 DEF VllmUnloads
  <2>2. MinOf(toUnload)' = MinOf(toUnload) /\ MinOf(toUnload) \in toUnload
    BY <2>1, NextUnload DEF MinOf
  <2>3. toUnload \subseteq Steps
    BY DEF TypeOK
  <2> QED
    BY <2>1, <2>2, <2>3 DEF Pruning
<1>9. CASE UnloadReplies
  <2>1. /\ known' = known \ {MinOf(toUnload)} /\ toUnload' = toUnload \ {MinOf(toUnload)}
        /\ UNCHANGED <<loaded, retain>> /\ tpc = "unloading" /\ tpc' = "pruning"
    BY <1>9 DEF UnloadReplies
  <2>2. toUnload \subseteq Steps
    BY DEF TypeOK
  <2> QED
    BY <2>1, <2>2 DEF Pruning
<1>10. CASE PruneEnds
  <2>1. /\ UNCHANGED <<known, retain, loaded, toUnload>> /\ toUnload = {}
        /\ tpc = "pruning" /\ tpc' = "pruned"
    BY <1>10 DEF PruneEnds
  <2> QED
    BY <2>1 DEF Pruning
<1>11. CASE RetainCheckpoints
  <2>1. /\ UNCHANGED <<known, retain, loaded, toUnload>>
        /\ tpc = "pruned" /\ tpc' = "retained"
    BY <1>11 DEF RetainCheckpoints
  <2> QED
    BY <2>1 DEF Pruning
<1>12. CASE StepEnds
  <2>1. tpc' \notin {"pruning", "unloading", "pruned", "retained"}
    BY <1>12 DEF StepEnds
  <2> QED
    BY <2>1 DEF Pruning
<1>13. CASE EvalStarts
  <2>1. UNCHANGED <<tpc, toUnload, known, retain, loaded>>
    BY <1>13 DEF EvalStarts
  <2> QED
    BY <2>1, PruningKept
<1>14. CASE EvalReturns
  <2>1. UNCHANGED <<tpc, toUnload, known, retain, loaded>>
    BY <1>14 DEF EvalReturns
  <2> QED
    BY <2>1, PruningKept
<1>15. CASE EvalEnds
  <2>1. UNCHANGED <<tpc, toUnload, known, retain, loaded>>
    BY <1>15 DEF EvalEnds
  <2> QED
    BY <2>1, PruningKept
<1>16. CASE OrphanEnds
  <2>1. UNCHANGED <<tpc, toUnload, known, retain, loaded>>
    BY <1>16 DEF OrphanEnds
  <2> QED
    BY <2>1, PruningKept
<1>17. CASE UnloadTimesOut
  <2>1. tpc' \notin {"pruning", "unloading", "pruned", "retained"}
    BY <1>17 DEF UnloadTimesOut, RunFails
  <2> QED
    BY <2>1 DEF Pruning
<1>18. CASE CopyTimesOut
  <2>1. tpc' \notin {"pruning", "unloading", "pruned", "retained"}
    BY <1>18 DEF CopyTimesOut, RunFails
  <2> QED
    BY <2>1 DEF Pruning
<1>19. CASE StageRaises
  <2>1. tpc' \notin {"pruning", "unloading", "pruned", "retained"}
    BY <1>19 DEF StageRaises, RunFails
  <2> QED
    BY <2>1 DEF Pruning
<1>20. CASE Dies
  <2>1. tpc' \notin {"pruning", "unloading", "pruned", "retained"}
    BY <1>20 DEF Dies
  <2> QED
    BY <2>1 DEF Pruning
<1>21. CASE Retry
  <2>1. tpc' \notin {"pruning", "unloading", "pruned", "retained"}
    BY <1>21 DEF Retry, Starts
  <2> QED
    BY <2>1 DEF Pruning
<1>22. CASE Restart
  <2>1. tpc' \notin {"pruning", "unloading", "pruned", "retained"}
    BY <1>22 DEF Restart, Starts
  <2> QED
    BY <2>1 DEF Pruning
<1>23. CASE UNCHANGED vars
  BY <1>23, PruningKept DEF vars
<1> QED
  BY <1>1, <1>2, <1>3, <1>4, <1>5, <1>6, <1>7, <1>8, <1>9, <1>10, <1>11, <1>12, <1>13, <1>14,
     <1>15, <1>16, <1>17, <1>18, <1>19, <1>20, <1>21, <1>22, <1>23
     DEF Next, TrainStep, EvalStep, Failure


(***************************************************************************)
(* What is sampled from is served.                                         *)
(***************************************************************************)

LEMMA ServesKept ==
    ASSUME Serves, UNCHANGED <<ckpts, run, tpc, pv, loaded, unsure, latest>>,
           \/ Sampled' \cup scheduled' \subseteq Sampled \cup scheduled
           \/ /\ Sampled' \cup scheduled' \subseteq Sampled \cup scheduled \cup {pv}
              /\ pv \in loaded \cup unsure
    PROVE  Serves'
  BY StepKept DEF Serves

LEMMA ServesFailed ==
    ASSUME Serves, RunFails, unsure \subseteq unsure', BackendStep \in loaded \cup unsure'
    PROVE  Serves'
<1>1. PICK orphaned \in BOOLEAN :
         /\ orphaned => epc = "sampling"
         /\ orphans' = orphans \cup (IF orphaned THEN {[run |-> runs, step |-> eval]} ELSE {})
  BY DEF RunFails
<1>2. /\ run' = "failed" /\ tpc' = "exit" /\ scheduled' = {} /\ epc' = "none"
      /\ wver' = [w \in Workers |-> NoStep] /\ UNCHANGED <<ckpts, loaded>>
  BY DEF RunFails, serviceVars
<1>3. Sampled' \subseteq Sampled
  <2>1. Sampled' = {o.step : o \in orphans'}
    BY <1>2 DEF Sampled
  <2>2. \A o \in orphans' : o \in orphans \/ (o.step = eval /\ epc = "sampling")
    BY <1>1
  <2> QED
    BY <2>1, <2>2 DEF Sampled
<1>4. BackendStep' = BackendStep
  BY <1>2, StepKept
<1> QED
  BY <1>2, <1>3, <1>4 DEF Serves


LEMMA ServesStep ==
    ASSUME TypeOK, Newest, Scheduling, Orphaned, Counted, TypeOK', Believed, Pruning, Serves,
           [Next]_vars
    PROVE  Serves'
<1> USE DEF trainerVars, evalVars, leaseVars, serviceVars, Stays, NotTraining, NotEval
<1>1. ASSUME NEW w \in Workers, RolloutStarts(w) PROVE Serves'
  <2>1. UNCHANGED <<ckpts, run, tpc, pv, loaded, unsure, latest>> /\ pv \in loaded \cup unsure
    BY <1>1 DEF RolloutStarts, Serves
  <2>2. Sampled' \cup scheduled' \subseteq Sampled \cup scheduled \cup {pv}
    <3>1. \A x \in Workers : wver'[x] = wver[x] \/ wver'[x] = pv
      BY <1>1 DEF RolloutStarts, TypeOK
    <3>2. UNCHANGED <<epc, eval, orphans, scheduled>>
      BY <1>1 DEF RolloutStarts
    <3> QED
      BY <3>1, <3>2 DEF Sampled
  <2> QED
    BY <2>1, <2>2, ServesKept
<1>2. ASSUME NEW w \in Workers, RolloutEnds(w) PROVE Serves'
  <2>1. UNCHANGED <<ckpts, run, tpc, pv, loaded, unsure, latest>>
    BY <1>2 DEF RolloutEnds
  <2>2. Sampled' \cup scheduled' \subseteq Sampled \cup scheduled
    BY <1>2 DEF RolloutEnds, Sampled
  <2> QED
    BY <2>1, <2>2, ServesKept
<1>3. CASE BeginTrain
  <2>1. /\ UNCHANGED <<wver, epc, eval, orphans, scheduled, run, unsure>>
        /\ UNCHANGED <<pv, loaded>> /\ tpc = "collect" /\ tpc' = "training"
    BY <1>3 DEF BeginTrain
  <2>2. Sampled' = Sampled /\ run = "running"
    BY <2>1 DEF Sampled, Newest
  <2> QED
    BY <2>1, <2>2 DEF Serves
<1>4. CASE WriteCheckpoint
  <2>1. /\ UNCHANGED <<wver, epc, eval, orphans, scheduled, run, unsure>>
        /\ UNCHANGED <<pv, loaded>> /\ tpc = "training" /\ tpc' \in {"saved", "copied"}
    BY <1>4 DEF WriteCheckpoint
  <2>2. Sampled' = Sampled /\ run = "running"
    BY <2>1 DEF Sampled, Newest
  <2> QED
    BY <2>1, <2>2 DEF Serves
<1>5. CASE VllmLoads
  <2>1. /\ UNCHANGED <<wver, epc, eval, orphans, scheduled, run, unsure>>
        /\ UNCHANGED <<ckpts, pv>> /\ loaded' = loaded \cup {BackendStep}
        /\ tpc \in {"copied", "saved"} /\ tpc' \in {"copy loaded", "loaded"}
    BY <1>5 DEF VllmLoads
  <2>2. Sampled' = Sampled /\ run = "running"
    BY <2>1 DEF Sampled, Newest
  <2>3. BackendStep' = BackendStep
    BY <2>1, StepKept
  <2> QED
    BY <2>1, <2>2, <2>3 DEF Serves
<1>6. CASE LoadReplies
  <2>1. /\ UNCHANGED <<wver, epc, eval, orphans, scheduled, run, unsure>>
        /\ UNCHANGED <<ckpts, pv, loaded>> /\ latest' = BackendStep
        /\ tpc \in {"copy loaded", "loaded"} /\ tpc' = "returned"
    BY <1>6 DEF LoadReplies
  <2>2. Sampled' = Sampled /\ run = "running"
    BY <2>1 DEF Sampled, Newest
  <2>3. BackendStep' = BackendStep
    BY <2>1, StepKept
  <2> QED
    BY <2>1, <2>2, <2>3 DEF Serves
<1>7. CASE Publish
  <2>1. /\ UNCHANGED <<wver, epc, eval, orphans, scheduled, run, unsure>>
        /\ UNCHANGED <<ckpts, loaded>> /\ pv' = BackendStep
        /\ tpc = "returned" /\ tpc' = "pruning"
    BY <1>7 DEF Publish
  <2>2. Sampled' = Sampled /\ run = "running"
    BY <2>1 DEF Sampled, Newest
  <2> QED
    BY <2>1, <2>2 DEF Serves
<1>8. CASE VllmUnloads
  <2>1. /\ UNCHANGED <<wver, epc, eval, orphans, scheduled, run, unsure>>
        /\ UNCHANGED <<ckpts, pv>> /\ loaded' = loaded \ {MinOf(toUnload)}
        /\ tpc = "pruning" /\ tpc' = "unloading" /\ toUnload # {}
    BY <1>8 DEF VllmUnloads
  <2>2. Sampled' = Sampled /\ run = "running"
    BY <2>1 DEF Sampled, Newest
  <2>3. Outdated(MinOf(toUnload))
    BY <2>1, NextUnload DEF Pruning
  <2>4. MinOf(toUnload) \notin Sampled \cup scheduled
    BY <2>3, SampledAreLeased
  <2>5. MinOf(toUnload) # pv
    BY <2>3, NewestTyped, RetentionAssumption DEF Outdated
  <2> QED
    BY <2>1, <2>2, <2>4, <2>5 DEF Serves
<1>9. CASE UnloadReplies
  <2>1. /\ UNCHANGED <<wver, epc, eval, orphans, scheduled, run, unsure>>
        /\ UNCHANGED <<pv, loaded>> /\ tpc = "unloading" /\ tpc' = "pruning"
    BY <1>9 DEF UnloadReplies
  <2>2. Sampled' = Sampled /\ run = "running"
    BY <2>1 DEF Sampled, Newest
  <2> QED
    BY <2>1, <2>2 DEF Serves
<1>10. CASE PruneEnds
  <2>1. /\ UNCHANGED <<wver, epc, eval, orphans, scheduled, run, unsure>>
        /\ UNCHANGED <<pv, loaded>> /\ tpc = "pruning" /\ tpc' = "pruned"
    BY <1>10 DEF PruneEnds
  <2>2. Sampled' = Sampled /\ run = "running"
    BY <2>1 DEF Sampled, Newest
  <2> QED
    BY <2>1, <2>2 DEF Serves
<1>11. CASE RetainCheckpoints
  <2>1. /\ UNCHANGED <<wver, epc, eval, orphans, scheduled, run, unsure>>
        /\ UNCHANGED <<pv, loaded>> /\ tpc = "pruned" /\ tpc' = "retained"
    BY <1>11 DEF RetainCheckpoints
  <2>2. Sampled' = Sampled /\ run = "running"
    BY <2>1 DEF Sampled, Newest
  <2> QED
    BY <2>1, <2>2 DEF Serves
<1>12. CASE StepEnds
  <2>1. /\ UNCHANGED <<wver, epc, eval, orphans, ckpts, run, pv, loaded, unsure>>
        /\ tpc = "retained" /\ tpc' = "collect" /\ scheduled' \subseteq scheduled \cup {pv}
    BY <1>12 DEF StepEnds
  <2>2. Sampled' = Sampled /\ run = "running"
    BY <2>1 DEF Sampled, Newest
  <2> QED
    BY <2>1, <2>2 DEF Serves
<1>13. CASE EvalStarts
  <2>1. UNCHANGED <<ckpts, run, tpc, pv, loaded, unsure, latest>>
    BY <1>13 DEF EvalStarts
  <2>2. Head(evalq) \in scheduled
    <3>1. evalq \in Seq(Steps) /\ evalq # <<>>
      BY <1>13 DEF EvalStarts, TypeOK
    <3>2. Head(evalq) = evalq[1] /\ 1 \in 1 .. Len(evalq)
      BY <3>1, RestOfQueue
    <3> QED
      BY <3>2 DEF Scheduling
  <2>3. Sampled' \cup scheduled' \subseteq Sampled \cup scheduled
    BY <1>13, <2>2 DEF EvalStarts, Sampled
  <2> QED
    BY <2>1, <2>3, ServesKept
<1>14. CASE EvalReturns
  <2>1. UNCHANGED <<ckpts, run, tpc, pv, loaded, unsure, latest>>
    BY <1>14 DEF EvalReturns
  <2>2. Sampled' \cup scheduled' \subseteq Sampled \cup scheduled
    BY <1>14 DEF EvalReturns, Sampled
  <2> QED
    BY <2>1, <2>2, ServesKept
<1>15. CASE EvalEnds
  <2>1. UNCHANGED <<ckpts, run, tpc, pv, loaded, unsure, latest>>
    BY <1>15 DEF EvalEnds
  <2>2. Sampled' \cup scheduled' \subseteq Sampled \cup scheduled
    BY <1>15 DEF EvalEnds, Sampled
  <2> QED
    BY <2>1, <2>2, ServesKept
<1>16. CASE OrphanEnds
  <2>1. UNCHANGED <<ckpts, run, tpc, pv, loaded, unsure, latest>>
    BY <1>16 DEF OrphanEnds
  <2>2. Sampled' \cup scheduled' \subseteq Sampled \cup scheduled
    BY <1>16 DEF OrphanEnds, Sampled
  <2> QED
    BY <2>1, <2>2, ServesKept
<1>17. CASE UnloadTimesOut
  <2>1. RunFails /\ UNCHANGED unsure /\ tpc \in Settled /\ run = "running"
    BY <1>17 DEF UnloadTimesOut, Settled, Newest
  <2>2. BackendStep \in loaded \cup unsure'
    BY <2>1 DEF Serves, Newest
  <2> QED
    BY <2>1, <2>2, ServesFailed
<1>18. CASE CopyTimesOut
  <2>1. RunFails /\ unsure' = unsure \cup {BackendStep}
    BY <1>18 DEF CopyTimesOut
  <2> QED
    BY <2>1, ServesFailed
<1>19. CASE StageRaises
  <2>1. RunFails /\ UNCHANGED unsure /\ tpc \in Settled /\ run = "running"
    BY <1>19 DEF StageRaises, Settled, Newest
  <2>2. BackendStep \in loaded \cup unsure'
    BY <2>1 DEF Serves, Newest
  <2> QED
    BY <2>1, <2>2, ServesFailed
<1>20. CASE Dies
  <2>1. /\ run' = "dead" /\ tpc' = "exit" /\ scheduled' = {} /\ orphans' = {} /\ epc' = "none"
        /\ wver' = [w \in Workers |-> NoStep]
    BY <1>20 DEF Dies
  <2>2. Sampled' = {}
    BY <2>1 DEF Sampled
  <2> QED
    BY <2>1, <2>2 DEF Serves
<1>21. CASE Retry
  <2>1. /\ run = "failed" /\ run' = "running" /\ pv' = BackendStep /\ tpc' = "collect"
        /\ UNCHANGED <<wver, eval, epc, orphans, loaded, unsure>>
        /\ scheduled' \subseteq {BackendStep}
    BY <1>21 DEF Retry, Starts, FirstEval
  <2>2. Sampled' = Sampled /\ BackendStep \in loaded \cup unsure
    BY <2>1 DEF Sampled, Serves
  <2> QED
    BY <2>1, <2>2 DEF Serves
<1>22. CASE Restart
  <2>1. /\ run # "running" /\ run' = "running" /\ pv' = BackendStep /\ tpc' = "collect"
        /\ UNCHANGED <<wver, eval, epc>> /\ orphans' = {} /\ loaded' = {BackendStep}
        /\ scheduled' \subseteq {BackendStep}
    BY <1>22 DEF Restart, Starts, FirstEval
  <2>2. Sampled' = {}
    BY <2>1 DEF Sampled, Scheduling
  <2> QED
    BY <2>1, <2>2 DEF Serves
<1>23. CASE UNCHANGED vars
  <2>1. UNCHANGED <<wver, epc, eval, orphans, scheduled, loaded, unsure, run, pv, tpc, latest, ckpts>>
    BY <1>23 DEF vars, trainerVars, evalVars, serviceVars
  <2>2. Sampled' = Sampled /\ BackendStep' = BackendStep
    BY <2>1 DEF Sampled, BackendStep
  <2> QED
    BY <2>1, <2>2 DEF Serves
<1> QED
  BY <1>1, <1>2, <1>3, <1>4, <1>5, <1>6, <1>7, <1>8, <1>9, <1>10, <1>11, <1>12, <1>13, <1>14,
     <1>15, <1>16, <1>17, <1>18, <1>19, <1>20, <1>21, <1>22, <1>23
     DEF Next, TrainStep, EvalStep, Failure


(***************************************************************************)
(* The invariant.                                                          *)
(***************************************************************************)

LEMMA InitInv == Init => IInv
<1> SUFFICES ASSUME Init PROVE IInv
  OBVIOUS
<1> USE StepsAreNumbers
<1>1. BackendStep = 0
  <2>1. ckpts \cup {0} \in SUBSET Nat /\ 0 \in ckpts \cup {0} /\ \A t \in ckpts \cup {0} : t <= 0
    BY DEF Init
  <2> QED
    BY <2>1, MaxIs DEF BackendStep
<1>2. TypeOK
  BY RetentionAssumption DEF Init, TypeOK, NoLease
<1>3. Newest
  BY <1>1 DEF Init, Newest, Settled, Ahead
<1>4. Scheduling
  BY DEF Init, Scheduling
<1>5. Orphaned
  BY FS_EmptySet DEF Init, Orphaned
<1>6. Counted
  <2>1. \A s \in Steps : Rollouts(s) = 0
    <3>1. \A s \in Steps : \A w \in Workers : wver[w] # s
      BY DEF Init
    <3> QED
      BY <3>1, RolloutsAreNumbers
  <2>2. \A s \in Steps : Orphans(s) = 0
    BY FS_EmptySet, OrphansCounted DEF Init, Orphans
  <2> QED
    BY <2>1, <2>2 DEF Init, Counted, Own, One, NoLease
<1>7. References
  BY <1>1, RetentionAssumption DEF Init, References
<1>8. Believed
  BY <1>1 DEF Init, Believed, Ahead
<1>9. Pruning
  BY DEF Init, Pruning
<1>10. Serves
  BY <1>1 DEF Init, Serves, Sampled
<1> QED
  BY <1>2, <1>3, <1>4, <1>5, <1>6, <1>7, <1>8, <1>9, <1>10 DEF IInv, CountInv

LEMMA StepInv == IInv /\ [Next]_vars => IInv'
<1> SUFFICES ASSUME IInv, [Next]_vars PROVE IInv'
  OBVIOUS
<1>1. TypeOK /\ Newest /\ Scheduling /\ Orphaned /\ Counted
  BY DEF IInv, CountInv
<1>2. References /\ Believed /\ Pruning /\ Serves
  BY DEF IInv
<1>3. TypeOK'
  BY <1>1, TypeOKStep
<1>4. Newest' /\ Scheduling' /\ Orphaned' /\ Counted'
  BY <1>1, NewestStep, SchedulingStep, OrphanedStep, CountedStep
<1>5. References'
  BY <1>1, <1>2, ReferencesStep
<1>6. Believed' /\ Pruning' /\ Serves'
  BY <1>1, <1>2, <1>3, BelievedStep, PruningStep, ServesStep
<1> QED
  BY <1>3, <1>4, <1>5, <1>6 DEF IInv, CountInv

THEOREM Invariant == Spec => []IInv
<1>1. Init => IInv
  BY InitInv
<1>2. IInv /\ [Next]_vars => IInv'
  BY StepInv
<1> QED
  BY <1>1, <1>2, PTL DEF Spec

(***************************************************************************)
(* The properties.                                                         *)
(***************************************************************************)

\* AdapterLeaseManager's counters and the trainer's own are the number of rollouts,
\* scheduled evals, evals under way and orphaned evals that hold each step, through every
\* cancellation, retry and restart: none is leaked, none dropped twice.
THEOREM LeasesCountedHolds == Spec => []LeasesCounted
<1>1. IInv => LeasesCounted
  BY DEF IInv, CountInv, LeasesCounted, Counted, Own, Rollouts, Orphans
<1> QED
  BY <1>1, Invariant, PTL

\* The adapter a rollout or an eval samples from stays loaded until it is over, however the
\* HTTP calls of a prune interleave with new leases, and a scheduled eval finds its adapter
\* and its checkpoint; only a copied checkpoint whose load failed may lack an adapter.
THEOREM LeasedServedHolds == Spec => []LeasedServed
<1>1. IInv => LeasedServed
  BY DEF IInv, CountInv, Serves, Scheduling, LeasedServed
<1> QED
  BY <1>1, Invariant, PTL

\* The checkpoint _get_kl_reference_step names is on disk when a train step starts: what the
\* retention protects for one step is enough for all that come.
THEOREM KlReferenceKeptHolds == Spec => []KlReferenceKept
<1>1. IInv => KlReferenceKept
  <2> SUFFICES ASSUME IInv, UsesKl, tpc = "training" PROVE KlReference(pv) \in ckpts
    BY DEF KlReferenceKept
  <2>1. pv = BackendStep /\ BackendStep \in Nat /\ BackendStep \in Steps
    BY NewestTyped DEF IInv, CountInv, Newest, Settled
  <2>2. CASE KlLag = 0
    BY <2>2 DEF IInv, References, KlReference
  <2>3. CASE KlLag # 0
    <3>1. KlReference(pv) \in Nat /\ KlReference(pv) <= BackendStep
      BY <2>1, <2>3, RetentionAssumption DEF KlReference
    <3>2. KlReference(pv) \in Steps
      BY <2>1, <3>1, StepsAreNumbers
    <3>3. KlReference(BackendStep) <= KlReference(pv)
      BY <2>1, <3>1
    <3> QED
      BY <2>3, <3>1, <3>2, <3>3 DEF IInv, References
  <2> QED
    BY <2>2, <2>3
<1> QED
  BY <1>1, Invariant, PTL

\* Between two prunes the service knows of every adapter vLLM holds, and a prune that ended
\* left none it was to unload, although the replies of loads and unloads may be lost.
THEOREM NothingLeakedHolds == Spec => []NothingLeaked
<1>1. IInv => NothingLeaked
  BY DEF IInv, Believed, Pruning, NothingLeaked
<1> QED
  BY <1>1, Invariant, PTL

\* get_model_step never answers less than before, whatever the strategy deletes: the newest
\* checkpoint is always among the protected ones.
THEOREM StepNeverGoesBackHolds == Spec => StepNeverGoesBack
<1>1. IInv /\ [Next]_vars => [BackendStep' >= BackendStep]_vars
  <2> SUFFICES ASSUME IInv, Next PROVE BackendStep' >= BackendStep
    BY DEF IInv
  <2>1. TypeOK /\ Newest /\ BackendStep \in Nat
    BY NewestTyped DEF IInv, CountInv
  <2>2. CASE WriteCheckpoint
    BY <2>1, <2>2, StepWritten
  <2>3. CASE RetainCheckpoints
    BY <2>1, <2>3, StepRetained
  <2>4. CASE ckpts' = ckpts
    BY <2>1, <2>4, StepKept
  <2>5. WriteCheckpoint \/ RetainCheckpoints \/ ckpts' = ckpts
    BY DEF Next, TrainStep, EvalStep, Failure, RolloutStarts, RolloutEnds, BeginTrain, VllmLoads,
           LoadReplies, Publish, VllmUnloads, UnloadReplies, PruneEnds, StepEnds, EvalStarts,
           EvalReturns, EvalEnds, OrphanEnds, UnloadTimesOut, CopyTimesOut, StageRaises,
           RunFails, Dies, Retry, Restart, Starts, Stays, NotTraining, NotEval
  <2> QED
    BY <2>2, <2>3, <2>4, <2>5
<1> QED
  BY <1>1, Invariant, PTL DEF Spec, StepNeverGoesBack

=============================================================================
