------------------------ MODULE PipelineTrainerProofs ------------------------
(***************************************************************************)
(* Proofs about PipelineTrainer, for every value of its constants.         *)
(***************************************************************************)
EXTENDS PipelineTrainer, FiniteSetTheorems, TLAPS

\* What the proofs use of the constants, and of the groups' type.
LEMMA Constants ==
    /\ QueueMax \in Nat /\ QueueMax > 0 /\ MinBatch \in Nat /\ MinBatch > 0
    /\ MaxBatch \in Nat /\ MaxBatch >= MinBatch /\ MaxOff \in Nat
    /\ \A m \in StepLimits : m = NoLimit \/ m \in Nat
    /\ DiscardLimit \in Nat /\ DiscardLimit > 0 /\ EvalEvery \in Nat
    /\ NumScenarios \in Nat /\ MaxRuns \in Nat /\ MaxRuns > 0
BY PipelineAssumption DEF PipelineAssumption

LEMMA GroupFacts ==
    /\ NoGroup \in Group
    /\ \A v \in Nat : [ver |-> v, kind |-> "empty"] \in Group
    /\ \A g \in Group : g.ver \in Nat
    /\ \A g \in Group, k \in GroupKinds :
          /\ [g EXCEPT !.kind = k] \in Group
          /\ [g EXCEPT !.kind = k].ver = g.ver
    /\ \A g \in Group \cup {Sentinel} : g.kind = "good" => g \in Group
BY DEF Group, NoGroup, Sentinel, GroupKinds

(***************************************************************************)
(* Type correctness.  The discard queue stays below its limit until the    *)
(* collapse, which ends the training stage.                                *)
(***************************************************************************)
DiscardRoom == tpc # "exit" => discard < DiscardLimit

Typed == TypeOK /\ DiscardRoom

LEMMA InitTyped == Init => Typed
<1> SUFFICES ASSUME Init PROVE Typed
    OBVIOUS
<1>1. WorkersTyped
    BY GroupFacts DEF Init, WorkersTyped
<1>2. QueueTyped
  <2>1. outq \in Seq(Group \cup {Sentinel}) /\ Len(outq) = 0
      BY DEF Init
  <2>2. Len(outq) <= QueueMax
      BY <2>1, Constants
  <2> QED BY <2>1, <2>2 DEF Init, QueueTyped
<1>3. TrainTyped /\ DiscardRoom
  <2>1. batch \in Seq(Group) /\ Len(batch) = 0
      BY DEF Init
  <2>2. Len(batch) <= MaxBatch /\ discard \in 0..DiscardLimit /\ DiscardRoom
      BY <2>1, Constants DEF Init, DiscardRoom
  <2> QED BY <2>1, <2>2 DEF Init, TrainTyped
<1>4. EvalTyped
    BY DEF Init, EvalTyped
<1>5. RunTyped
  <2>1. saved \in Saved
      BY DEF Init, NothingSaved, Saved
  <2>2. runs \in 1..MaxRuns
      BY Constants DEF Init
  <2> QED BY <2>1, <2>2 DEF Init, RunTyped
<1> QED BY <1>1, <1>2, <1>3, <1>4, <1>5 DEF Typed, TypeOK

\* A step of a worker keeps the types.
LEMMA WorkerTyped ==
    ASSUME Typed, NEW w \in Workers, WorkerStep(w)
    PROVE  Typed'
<1>1. /\ UNCHANGED NotWorkers
      /\ offset' \in Nat /\ settled' \in Nat
  <2> USE DEF WorkerStep, BeginFetch, NoScenarioLeft, TakeScenario, Recheck, RolloutReturns,
           RolloutFails, PutGroup, PutTimesOut
  <2>1. UNCHANGED NotWorkers
      OBVIOUS
  <2>2. offset' \in {offset, offset + 1} /\ settled' \in {settled, settled + 1}
      OBVIOUS
  <2>3. offset \in Nat /\ settled \in Nat
      BY DEF Typed, TypeOK, RunTyped
  <2> QED BY ONLY <2>1, <2>2, <2>3
<1>2. TrainTyped' /\ DiscardRoom' /\ EvalTyped' /\ RunTyped'
    BY <1>1 DEF Typed, TypeOK, TrainTyped, DiscardRoom, EvalTyped, RunTyped, NotWorkers,
                runVars, policyVars, trainVars, evalVars, evalMarks
<1>3. WorkersTyped' /\ QueueTyped'
  <2> USE DEF Typed, TypeOK, WorkersTyped, QueueTyped, Leaves, NotWorkers
  <2>1. CASE BeginFetch(w) BY <2>1 DEF BeginFetch
  <2>2. CASE NoScenarioLeft(w) BY <2>2, GroupFacts DEF NoScenarioLeft
  <2>3. CASE EnterRollout(w) /\ UNCHANGED outq /\ UNCHANGED NotWorkers
    <3>1. [ver |-> pv, kind |-> "empty"] \in Group /\ NoGroup \in Group
        BY GroupFacts DEF RunTyped
    <3>2. WorkersTyped'
        BY <2>3, <3>1 DEF EnterRollout
    <3> QED BY <2>3, <3>2
  <2>4. CASE RolloutReturns(w)
    <3>1. CASE done BY <2>4, <3>1, GroupFacts DEF RolloutReturns
    <3>2. CASE ~done
      <4>1. PICK k \in GroupKinds : wgroup' = [wgroup EXCEPT ![w].kind = k]
          BY <2>4, <3>2 DEF RolloutReturns
      <4>2. wgroup' \in [Workers -> Group]
          BY <4>1, GroupFacts
      <4> QED BY <2>4, <3>2, <4>2 DEF RolloutReturns
    <3> QED BY <3>1, <3>2
  <2>5. CASE RolloutFails(w) BY <2>5, GroupFacts DEF RolloutFails
  <2>6. CASE PutGroup(w) 
    <3>1. wgroup[w] \in Group /\ wpc' = [wpc EXCEPT ![w] = "idle"]
          /\ wgroup' = [wgroup EXCEPT ![w] = NoGroup]
        BY <2>6 DEF PutGroup
    <3>2. outq' \in Seq(Group \cup {Sentinel}) /\ Len(outq') = Len(outq) + 1
        BY <2>6, <3>1 DEF PutGroup
    <3>3. Len(outq') <= QueueMax
        BY <2>6, <3>2, Constants DEF PutGroup, QueueRoom
    <3> QED BY <3>1, <3>2, <3>3, <1>1, GroupFacts
  <2>7. CASE PutTimesOut(w) BY <2>7, GroupFacts DEF PutTimesOut
  <2> QED BY <2>1, <2>2, <2>3, <2>4, <2>5, <2>6, <2>7 DEF WorkerStep, TakeScenario, Recheck
<1> QED BY <1>2, <1>3 DEF Typed, TypeOK

\* So does the end of a run, whichever way it ends.
LEMMA EndTyped ==
    ASSUME Typed, NEW how \in {"finished", "down"}, EndRun(how), orphans' \subseteq Saved
    PROVE  Typed'
<1>1. WorkersTyped'
    BY GroupFacts DEF EndRun, WorkersTyped
<1>2. QueueTyped'
  <2>1. outq' \in Seq(Group \cup {Sentinel}) /\ Len(outq') = 0
      BY DEF EndRun
  <2>2. Len(outq') <= QueueMax
      BY <2>1, Constants
  <2> QED BY <2>1, <2>2 DEF EndRun, QueueTyped
<1>3. TrainTyped' /\ DiscardRoom'
  <2>1. batch' \in Seq(Group) /\ Len(batch') = 0
      BY DEF EndRun
  <2>2. Len(batch') <= MaxBatch /\ discard' \in 0..DiscardLimit
      BY <2>1, Constants DEF EndRun
  <2> QED BY <2>1, <2>2 DEF Typed, TypeOK, EndRun, TrainTyped, DiscardRoom
<1>4. EvalTyped'
    BY DEF Typed, TypeOK, EndRun, EvalTyped
<1>5. RunTyped'
    BY DEF Typed, TypeOK, EndRun, RunTyped, policyVars
<1> QED BY <1>1, <1>2, <1>3, <1>4, <1>5 DEF Typed, TypeOK

LEMMA SnapshotType ==
    ASSUME Typed, NEW step \in Nat, NEW last \in Nat, NEW compl \in SUBSET Nat
    PROVE  Snapshot(step, last, compl) \in Saved
BY DEF Typed, TypeOK, RunTyped, Snapshot, Saved

LEMMA FailTyped == ASSUME Typed, Fail PROVE Typed'
<1>1. pend # NoStep => Snapshot(nts, lastEval, completed \cup {pend}) \in Saved
    <2> SUFFICES ASSUME pend # NoStep
                 PROVE  Snapshot(nts, lastEval, completed \cup {pend}) \in Saved
        OBVIOUS
    <2>1. nts \in Nat /\ lastEval \in Nat /\ completed \cup {pend} \in SUBSET Nat
        BY DEF Typed, TypeOK, RunTyped, EvalTyped
    <2> QED BY <2>1, SnapshotType
<1>2. orphans' \subseteq Saved
    BY <1>1 DEF Fail, Typed, TypeOK, RunTyped
<1> QED BY <1>2, EndTyped DEF Fail

LEMMA ResumeTyped == ASSUME Typed, Resume PROVE Typed'
<1>1. WorkersTyped'
    BY GroupFacts DEF Resume, WorkersTyped
<1>2. QueueTyped'
  <2>1. outq' \in Seq(Group \cup {Sentinel}) /\ Len(outq') = 0
      BY DEF Resume
  <2>2. Len(outq') <= QueueMax
      BY <2>1, Constants
  <2> QED BY <2>1, <2>2 DEF Resume, QueueTyped
<1>3. TrainTyped' /\ DiscardRoom'
  <2>1. batch' \in Seq(Group) /\ Len(batch') = 0
      BY DEF Resume
  <2>2. Len(batch') <= MaxBatch /\ discard' \in 0..DiscardLimit /\ DiscardRoom'
      BY <2>1, Constants DEF Resume, DiscardRoom
  <2> QED BY <2>1, <2>2 DEF Typed, TypeOK, RunTyped, Resume, TrainTyped
<1>4. /\ saved.lastEval \in Nat /\ saved.offset \in Nat /\ saved.completed \in SUBSET Nat
      /\ ResumeOffset \in Nat
    BY Constants DEF Typed, TypeOK, RunTyped, Saved, ResumeOffset
<1>5. EvalTyped'
  <2>1. bstep \in Nat
      BY DEF Typed, TypeOK, RunTyped
  <2>2. <<bstep>> \in Seq(Nat) /\ <<>> \in Seq(Nat)
      BY <2>1
  <2>3. evalq' \in Seq(Nat) /\ scheduled' \subseteq Nat /\ lastEval' \in Nat
      BY <1>4, <2>1, <2>2 DEF Resume
  <2>4. /\ epc' \in {"idle", "exit"} /\ enext' = NoStep /\ pend' = NoStep
        /\ completed' \subseteq Nat
      BY <1>4 DEF Resume
  <2> QED BY <2>3, <2>4 DEF EvalTyped
<1>6. saved' \in Saved
    BY <1>4 DEF Typed, TypeOK, RunTyped, Resume, Saved
<1>7. runs' \in 1..MaxRuns /\ bstep \in Nat
  <2>1. runs' = runs + 1 /\ runs < MaxRuns
      BY DEF Resume
  <2>2. runs \in 1..MaxRuns /\ bstep \in Nat
      BY DEF Typed, TypeOK, RunTyped
  <2> QED BY <2>1, <2>2, Constants
<1>8. orphans' \subseteq Saved
    BY DEF Typed, TypeOK, RunTyped, Resume
<1>9. RunTyped'
    BY <1>4, <1>6, <1>7, <1>8 DEF Resume, RunTyped
<1> QED BY <1>1, <1>2, <1>3, <1>5, <1>9 DEF Typed, TypeOK

\* The steps on the output queue outside the workers.
LEMMA QueueStepTyped ==
    ASSUME Typed, RolloutStage \/ RequestStop \/ PutStopSentinel
    PROVE  Typed'
<1>1. /\ UNCHANGED NotQueue
      /\ rpc' \in {"workers", "sentinel", "exit"} /\ stopPut' \in BOOLEAN
      /\ done' \in BOOLEAN /\ stopRequested' \in BOOLEAN
      /\ wpc' \in {wpc, NotifyPolicy(wpc)}
      /\ outq' = outq \/ (QueueRoom /\ outq' = Append(outq, Sentinel))
    BY DEF Typed, TypeOK, QueueTyped, RunTyped, RolloutStage, RolloutStageEnds, PutSentinel,
           RequestStop, PutStopSentinel
<1>2. NotifyPolicy(wpc) \in [Workers -> {"idle", "fetching", "blocked", "woken", "rollout",
                                         "put", "exit"}]
    BY DEF Typed, TypeOK, WorkersTyped, NotifyPolicy
<1>3. outq' \in Seq(Group \cup {Sentinel}) /\ Len(outq') <= QueueMax
  <2>1. CASE outq' = outq
      BY <2>1 DEF Typed, TypeOK, QueueTyped
  <2>2. CASE QueueRoom /\ outq' = Append(outq, Sentinel)
    <3>1. outq' \in Seq(Group \cup {Sentinel}) /\ Len(outq') = Len(outq) + 1
        BY <2>2 DEF Typed, TypeOK, QueueTyped
    <3> QED BY <2>2, <3>1, Constants DEF QueueRoom, Typed, TypeOK, QueueTyped
  <2> QED BY <1>1, <2>1, <2>2
<1> QED BY <1>1, <1>2, <1>3
        DEF Typed, TypeOK, WorkersTyped, QueueTyped, TrainTyped, EvalTyped, RunTyped,
            DiscardRoom, NotQueue, runVars, policyVars, trainVars, evalVars, evalMarks

\* What leaving the training stage does to the types, the batch apart.
LEMMA LeaveTyped ==
    ASSUME Typed, NEW step \in Nat, LeaveTraining(step)
    PROVE  /\ WorkersTyped' /\ EvalTyped' /\ DiscardRoom'
           /\ settled' \in Nat => RunTyped'
           /\ UNCHANGED <<rpc, stopPut, cur, saw, evalDue>> /\ tpc' = "exit"
<1>1. saved' \in Saved
    BY SnapshotType DEF LeaveTraining, Typed, TypeOK, EvalTyped
<1> QED BY <1>1 DEF Typed, TypeOK, WorkersTyped, EvalTyped, RunTyped, DiscardRoom,
                LeaveTraining, NotifyPolicy, NotTraining, runVars, policyVars

\* Taking an item off the output queue.
LEMMA TakeTyped ==
    ASSUME Typed, TakeItem
    PROVE  /\ outq' \in Seq(Group \cup {Sentinel}) /\ Len(outq') <= QueueMax
           /\ Head(outq) \in Group \cup {Sentinel}
           /\ Len(batch) < MaxBatch
           /\ Append(batch, Head(outq)) \in Seq(Group \cup {Sentinel})
<1>1. outq \in Seq(Group \cup {Sentinel}) /\ outq # <<>>
    BY DEF Typed, TypeOK, QueueTyped, TakeItem
<1>2. /\ Tail(outq) \in Seq(Group \cup {Sentinel}) /\ Len(Tail(outq)) = Len(outq) - 1
      /\ Head(outq) \in Group \cup {Sentinel}
    BY <1>1
<1>3. Len(outq') <= QueueMax
    BY <1>1, <1>2, Constants DEF Typed, TypeOK, QueueTyped, TakeItem
<1>4. Len(batch) < MaxBatch
    BY Constants DEF Typed, TypeOK, TrainTyped, TakeItem, CollectionOver
<1>5. Append(batch, Head(outq)) \in Seq(Group \cup {Sentinel})
    BY <1>2 DEF Typed, TypeOK, TrainTyped
<1> QED BY <1>2, <1>3, <1>4, <1>5 DEF TakeItem

LEMMA CollectingTyped == ASSUME Typed, Collecting PROVE Typed'
<1> USE DEF Typed, TypeOK
<1> DEFINE Kept == WorkersTyped' /\ EvalTyped' /\ rpc' = rpc /\ stopPut' = stopPut
<1>1. ASSUME Collects, settled' \in Nat
      PROVE  Kept /\ RunTyped' /\ cur' = cur /\ evalDue' = evalDue /\ tpc' = "drain"
    BY <1>1 DEF Collects, WorkersTyped, EvalTyped, RunTyped, NotTraining, runVars, policyVars
<1>2. CASE TakeSentinel
    BY <1>1, <1>2, TakeTyped DEF TakeSentinel, RunTyped, QueueTyped, TrainTyped, DiscardRoom,
       TakeItem
<1>3. CASE TakeStale
  <2>1. /\ Kept /\ RunTyped' /\ cur' = cur /\ evalDue' = evalDue /\ tpc' = "drain"
        /\ tpc # "exit" /\ discard' = discard
        /\ UNCHANGED <<batch, saw>>
    <3>1. TakeItem /\ Collects /\ discard' = discard /\ UNCHANGED <<batch, saw>> /\ settled' = settled + 1
        BY <1>3 DEF TakeStale
    <3>2. settled' \in Nat
        BY <3>1 DEF RunTyped
    <3> QED BY <1>1, <3>1, <3>2 DEF TakeItem
  <2>2. QueueTyped'
      BY <1>3, <2>1, TakeTyped DEF TakeStale, QueueTyped
  <2>3. TrainTyped' /\ DiscardRoom'
      BY <2>1, Constants DEF TrainTyped, DiscardRoom
  <2> QED BY <2>1, <2>2, <2>3
<1>4. CASE TakeFlat
  <2>1. /\ Kept /\ RunTyped' /\ cur' = cur /\ evalDue' = evalDue /\ tpc' = "drain"
        /\ tpc # "exit" /\ discard + 1 < DiscardLimit /\ discard' = discard + 1
        /\ UNCHANGED <<batch, saw>>
    <3>1. TakeItem /\ Collects /\ discard + 1 < DiscardLimit /\ discard' = discard + 1 /\ UNCHANGED <<batch, saw>> /\ settled' = settled + 1
        BY <1>4 DEF TakeFlat
    <3>2. settled' \in Nat
        BY <3>1 DEF RunTyped
    <3> QED BY <1>1, <3>1, <3>2 DEF TakeItem
  <2>2. QueueTyped'
      BY <1>4, <2>1, TakeTyped DEF TakeFlat, QueueTyped
  <2>3. TrainTyped' /\ DiscardRoom'
      BY <2>1, Constants DEF TrainTyped, DiscardRoom
  <2> QED BY <2>1, <2>2, <2>3
<1>5. CASE TakeGood
  <2>1. Head(outq) \in Group
      BY <1>5, TakeTyped, GroupFacts DEF TakeGood
  <2>2. batch' \in Seq(Group) /\ Len(batch') = Len(batch) + 1
      BY <1>5, <2>1 DEF TakeGood, TrainTyped
  <2>3. Len(batch') <= MaxBatch
      BY <1>5, <2>2, TakeTyped, Constants DEF TakeGood, TrainTyped
  <2> QED BY <1>1, <1>5, <2>2, <2>3, TakeTyped
          DEF TakeGood, RunTyped, QueueTyped, TrainTyped, DiscardRoom, TakeItem
<1>6. CASE Collapse
  <2>1. /\ WorkersTyped' /\ EvalTyped' /\ DiscardRoom' /\ tpc' = "exit"
        /\ settled' \in Nat => RunTyped'
        /\ UNCHANGED <<rpc, stopPut, cur, saw, evalDue>>
      BY <1>6, LeaveTyped DEF Collapse, TrainTyped
  <2>2. settled' \in Nat
      BY <1>6 DEF Collapse, RunTyped, TrainTyped
  <2>3. batch' \in Seq(Group) /\ Len(batch') = 0
      BY <1>6 DEF Collapse
  <2>4. Len(batch') <= MaxBatch
      BY <2>3, Constants
  <2>5. discard' \in 0..DiscardLimit
      BY <1>6, Constants DEF Collapse, TakeItem, TrainTyped, DiscardRoom
  <2> QED BY <1>6, <2>1, <2>2, <2>3, <2>4, <2>5, TakeTyped
          DEF Collapse, QueueTyped, TrainTyped, TakeItem
<1>7. CASE TakeFailed
    BY <1>7, FailTyped DEF TakeFailed
<1>8. CASE BlockOnQueue
    BY <1>8 DEF BlockOnQueue, WorkersTyped, QueueTyped, TrainTyped, EvalTyped, RunTyped,
                DiscardRoom, NotTraining, runVars, policyVars
<1>9. CASE NothingToTrain
  <2>1. LeaveTraining(cur) /\ UNCHANGED <<outq, batch, discard, settled>>
      BY <1>9 DEF NothingToTrain
  <2> QED BY <2>1, LeaveTyped DEF QueueTyped, TrainTyped, RunTyped
<1>10. CASE BeginTrainStep
    BY <1>10 DEF BeginTrainStep, WorkersTyped, QueueTyped, TrainTyped, EvalTyped, RunTyped,
                 DiscardRoom, NotTraining, NotifyPolicy, ShouldEval, runVars
<1> QED BY <1>2, <1>3, <1>4, <1>5, <1>6, <1>7, <1>8, <1>9, <1>10 DEF Collecting

LEMMA TrainLoopTyped == ASSUME Typed, TrainLoop PROVE Typed'
<1> USE DEF Typed, TypeOK
<1>1. CASE NoStepToTrain
  <2>1. LeaveTraining(cur) /\ UNCHANGED <<outq, batch, discard, settled>>
      BY <1>1 DEF NoStepToTrain
  <2> QED BY <2>1, LeaveTyped DEF QueueTyped, TrainTyped, RunTyped
<1>2. CASE StartTraining
    BY <1>2 DEF StartTraining, WorkersTyped, QueueTyped, TrainTyped, EvalTyped, RunTyped,
                DiscardRoom, NotTraining, runVars, policyVars
<1>3. CASE BackendSaves
    BY <1>3 DEF BackendSaves, WorkersTyped, QueueTyped, TrainTyped, EvalTyped, RunTyped,
                DiscardRoom, NotTraining, runVars, policyVars
<1>4. CASE TrainReturns
  <2>1. batch' \in Seq(Group) /\ Len(batch') = 0
      BY <1>4 DEF TrainReturns
  <2>2. Len(batch') <= MaxBatch /\ settled' \in Nat
      BY <1>4, <2>1, Constants DEF TrainReturns, TrainTyped, RunTyped
  <2> QED BY <1>4, <2>1, <2>2
          DEF TrainReturns, WorkersTyped, QueueTyped, TrainTyped, EvalTyped, RunTyped,
              DiscardRoom, NotTraining, runVars
<1>5. CASE Publish
  <2>1. saved' \in Saved
      BY <1>5, SnapshotType DEF Publish, TrainTyped, EvalTyped
  <2>2. EvalTyped'
      BY <1>5 DEF Publish, TrainTyped, EvalTyped, NotTraining
  <2>3. WorkersTyped'
      BY <1>5 DEF Publish, WorkersTyped, NotifyPolicy, NotTraining
  <2>4. TrainTyped' /\ DiscardRoom' /\ QueueTyped'
      BY <1>5, Constants DEF Publish, TrainTyped, DiscardRoom, QueueTyped, NotTraining
  <2>5. RunTyped'
      BY <1>5, <2>1 DEF Publish, RunTyped, TrainTyped, NotTraining, runVars, policyVars
  <2> QED BY <2>2, <2>3, <2>4, <2>5
<1> QED BY <1>1, <1>2, <1>3, <1>4, <1>5 DEF TrainLoop

LEMMA EvalStepTyped ==
    ASSUME Typed, EvalStage \/ EvalRun \/ OrphanPersists
    PROVE  Typed'
<1> USE DEF Typed, TypeOK
<1>1. /\ UNCHANGED <<runVars, policyVars, offset, done, stopRequested, workerVars, rpc, outq,
                     stopPut, trainVars, lastEval, bstep, settled>>
      /\ orphans' \subseteq orphans
    BY DEF EvalStage, EvalRun, EvalGet, EvalNext, EvalCompletes, EvalFails, EvalStageEnds,
           EvalStageExits, OrphanPersists, NotEval, evalMarks
<1>2. EvalTyped'
  <2>1. CASE EvalGet
    <3>1. Head(evalq) \in Nat /\ Tail(evalq) \in Seq(Nat)
        BY <2>1 DEF EvalGet, EvalTyped
    <3> QED BY <2>1, <3>1 DEF EvalGet, EvalTyped, NotEval
  <2>2. CASE EvalNext BY <2>2 DEF EvalNext, EvalTyped, NotEval
  <2>3. CASE EvalRun BY <2>3 DEF EvalRun, EvalCompletes, EvalFails, EvalTyped, NotEval
  <2>4. CASE EvalStageEnds \/ EvalStageExits
      BY <2>4 DEF EvalStageEnds, EvalStageExits, EvalTyped, NotEval
  <2>5. CASE OrphanPersists BY <2>5 DEF OrphanPersists, EvalTyped, evalVars, evalMarks
  <2> QED BY <2>1, <2>2, <2>3, <2>4, <2>5 DEF EvalStage
<1>3. saved' \in Saved
  <2>1. CASE EvalCompletes
      BY <2>1, SnapshotType DEF EvalCompletes, EvalTyped, RunTyped
  <2>2. CASE OrphanPersists
      BY <2>2 DEF OrphanPersists, RunTyped
  <2> QED BY <2>1, <2>2 DEF EvalStage, EvalRun, EvalGet, EvalNext, EvalFails, EvalStageEnds,
                 EvalStageExits, RunTyped
<1> QED BY <1>1, <1>2, <1>3 DEF WorkersTyped, QueueTyped, TrainTyped, RunTyped, DiscardRoom,
                runVars, policyVars, workerVars, trainVars

LEMMA NextTyped == Typed /\ [Next]_vars => Typed'
<1> SUFFICES ASSUME Typed, [Next]_vars PROVE Typed'
    OBVIOUS
<1>1. CASE Collecting BY <1>1, CollectingTyped
<1>2. CASE \E w \in Workers : WorkerStep(w) BY <1>2, WorkerTyped
<1>3. CASE RolloutStage \/ RequestStop \/ PutStopSentinel BY <1>3, QueueStepTyped
<1>4. CASE TrainLoop BY <1>4, TrainLoopTyped
<1>5. CASE EvalStage \/ EvalRun \/ OrphanPersists BY <1>5, EvalStepTyped
<1>6. CASE Finish
    BY <1>6, EndTyped DEF Finish, Typed, TypeOK, RunTyped
<1>7. CASE Disruption
    BY <1>7, FailTyped, EndTyped, ResumeTyped
       DEF Disruption, FetchRaises, TrainRaises, Crash
<1>8. CASE UNCHANGED vars
    BY <1>8 DEF vars, Typed, TypeOK, WorkersTyped, QueueTyped, TrainTyped, EvalTyped,
                RunTyped, DiscardRoom, runVars, policyVars, workerVars, trainVars, evalVars,
                evalMarks
<1> QED BY <1>1, <1>2, <1>3, <1>4, <1>5, <1>6, <1>7, <1>8 DEF Next, OtherTask

\* The types are kept for ever, and the output queue stays within its maxsize.
THEOREM TypeCorrect == Spec => []TypeOK
<1>1. Typed => TypeOK
    BY DEF Typed
<1> QED BY <1>1, InitTyped, NextTyped, PTL DEF Spec

(***************************************************************************)
(* Policy versions.  Nothing the run holds was made by a policy newer than *)
(* policy_version, which the backend has saved.                            *)
(***************************************************************************)
MadeByNow ==
    /\ \A w \in Workers : wgroup[w].ver <= pv
    /\ \A i \in 1..Len(outq) : outq[i].ver <= pv

VersionInv ==
    /\ cur = pv /\ pv <= bstep
    /\ \A s \in scheduled : s <= bstep
    /\ MadeByNow /\ VersionGate /\ FreshBatch

LEMMA InitVersion == Init => VersionInv
<1> SUFFICES ASSUME Init PROVE VersionInv
    OBVIOUS
<1>1. MadeByNow
    BY DEF Init, MadeByNow, NoGroup
<1>2. VersionGate
    BY DEF Init, VersionGate
<1>3. FreshBatch
    BY DEF Init, FreshBatch
<1> QED BY <1>1, <1>2, <1>3 DEF Init, VersionInv

LEMMA WorkerVersion ==
    ASSUME Typed, VersionInv, NEW w \in Workers, WorkerStep(w)
    PROVE  VersionInv'
<1>1. UNCHANGED NotWorkers
    BY DEF WorkerStep, BeginFetch, NoScenarioLeft, TakeScenario, Recheck, RolloutReturns,
           RolloutFails, PutGroup, PutTimesOut
<1>2. \A v \in Workers : wgroup'[v].ver <= pv
  <2> USE GroupFacts DEF Typed, TypeOK, WorkersTyped, RunTyped, VersionInv, MadeByNow, Leaves
  <2>1. CASE UNCHANGED wgroup
      BY <2>1
  <2>2. CASE wgroup' = [wgroup EXCEPT ![w] = NoGroup]
      BY <2>2 DEF NoGroup
  <2>3. CASE wgroup' = [wgroup EXCEPT ![w] = [ver |-> pv, kind |-> "empty"]]
      BY <2>3
  <2>4. ASSUME NEW k \in GroupKinds, wgroup' = [wgroup EXCEPT ![w].kind = k]
        PROVE  \A v \in Workers : wgroup'[v].ver <= pv
      BY <2>4
  <2> QED BY <2>1, <2>2, <2>3, <2>4
          DEF WorkerStep, BeginFetch, NoScenarioLeft, TakeScenario, Recheck, EnterRollout,
              RolloutReturns, RolloutFails, PutGroup, PutTimesOut
<1>3. \A i \in 1..Len(outq') : outq'[i].ver <= pv
  <2>1. CASE UNCHANGED outq
      BY <2>1 DEF VersionInv, MadeByNow
  <2>2. CASE PutGroup(w)
    <3>1. /\ outq \in Seq(Group \cup {Sentinel}) /\ wgroup[w] \in Group
          /\ outq' = Append(outq, wgroup[w])
        BY <2>2 DEF PutGroup, Typed, TypeOK, WorkersTyped, QueueTyped
    <3>2. \A i \in 1..Len(outq') : outq'[i] = wgroup[w] \/ (i \in 1..Len(outq) /\ outq'[i] = outq[i])
        BY <3>1
    <3> QED BY <3>2 DEF VersionInv, MadeByNow
  <2> QED BY <2>1, <2>2 DEF WorkerStep, BeginFetch, NoScenarioLeft, TakeScenario, Recheck,
                 RolloutReturns, RolloutFails, PutTimesOut
<1> QED BY <1>1, <1>2, <1>3
        DEF VersionInv, MadeByNow, VersionGate, FreshBatch, NotWorkers, runVars, policyVars,
            trainVars, evalVars, evalMarks

\* The sentinel carries version 0.
LEMMA QueueStepVersion ==
    ASSUME Typed, VersionInv, RolloutStage \/ RequestStop \/ PutStopSentinel
    PROVE  VersionInv'
<1>1. /\ UNCHANGED NotQueue
      /\ outq' = outq \/ outq' = Append(outq, Sentinel)
    BY DEF RolloutStage, RolloutStageEnds, PutSentinel, RequestStop, PutStopSentinel
<1>2. \A i \in 1..Len(outq') : outq'[i].ver <= pv
  <2>1. CASE outq' = Append(outq, Sentinel)
    <3>1. \A i \in 1..Len(outq') : outq'[i] = Sentinel \/ (i \in 1..Len(outq) /\ outq'[i] = outq[i])
        BY <2>1 DEF Typed, TypeOK, QueueTyped
    <3>2. Sentinel.ver = 0 /\ pv \in Nat
        BY DEF Sentinel, Typed, TypeOK, RunTyped
    <3>3. \A i \in 1..Len(outq) : outq[i].ver <= pv
        BY DEF VersionInv, MadeByNow
    <3>4. UNCHANGED pv
        BY <1>1 DEF NotQueue, policyVars
    <3> QED BY <3>1, <3>2, <3>3
  <2> QED BY <1>1, <2>1 DEF VersionInv, MadeByNow
<1> QED BY <1>1, <1>2
        DEF VersionInv, MadeByNow, VersionGate, FreshBatch, NotQueue, runVars, policyVars,
            trainVars, evalVars, evalMarks

LEMMA EndVersion ==
    ASSUME Typed, VersionInv, NEW how \in {"finished", "down"}, EndRun(how)
    PROVE  VersionInv'
<1>1. /\ \A w \in Workers : wgroup'[w].ver <= pv'
      /\ \A i \in 1..Len(outq') : outq'[i].ver <= pv'
    BY DEF EndRun, NoGroup, policyVars, Typed, TypeOK, RunTyped
<1>2. FreshBatch'
    BY DEF EndRun, FreshBatch
<1> QED BY <1>1, <1>2 DEF EndRun, VersionInv, MadeByNow, VersionGate, policyVars

LEMMA ResumeVersion == ASSUME Typed, VersionInv, Resume PROVE VersionInv'
<1>1. /\ \A w \in Workers : wgroup'[w].ver <= pv'
      /\ \A i \in 1..Len(outq') : outq'[i].ver <= pv'
    BY DEF Resume, NoGroup, Typed, TypeOK, RunTyped
<1>2. FreshBatch'
    BY DEF Resume, FreshBatch
<1>3. \A s \in scheduled' : s <= bstep'
    BY DEF Resume, Typed, TypeOK, RunTyped
<1> QED BY <1>1, <1>2, <1>3 DEF Resume, VersionInv, MadeByNow, VersionGate, Typed, TypeOK, RunTyped

LEMMA CollectingVersion ==
    ASSUME Typed, VersionInv, Collecting
    PROVE  VersionInv'
<1>1. CASE TakeFailed
    BY <1>1, EndVersion DEF TakeFailed, Fail
<1>2. ASSUME ~TakeFailed
      PROVE  /\ UNCHANGED <<run, pv, cur, bstep, wgroup, scheduled>>
             /\ \/ nts' = nts /\ tpc \notin {"training", "saved"}
                \/ BeginTrainStep
             /\ outq' = outq \/ TakeItem
             /\ batch' \in {batch, <<>>, Append(batch, Head(outq))}
    BY <1>2 DEF Collecting, TakeItem, Collects, TakeSentinel, TakeStale, TakeFlat, TakeGood,
                Collapse, LeaveTraining, BlockOnQueue, NothingToTrain, BeginTrainStep,
                NotTraining, runVars, policyVars, Typed, TypeOK, TrainTyped
<1>3. ASSUME ~TakeFailed PROVE MadeByNow'
  <2>1. CASE outq' = outq
      BY <1>2, <1>3, <2>1 DEF VersionInv, MadeByNow
  <2>2. CASE TakeItem
    <3>1. \A i \in 1..Len(outq') : i + 1 \in 1..Len(outq) /\ outq'[i] = outq[i + 1]
        BY <2>2 DEF TakeItem, Typed, TypeOK, QueueTyped
    <3> QED BY <1>2, <1>3, <3>1 DEF VersionInv, MadeByNow
  <2> QED BY <1>2, <1>3, <2>1, <2>2
<1>4. ASSUME ~TakeFailed PROVE VersionGate'
    BY <1>2, <1>4 DEF VersionInv, VersionGate, Collecting, BeginTrainStep, Typed, TypeOK, RunTyped
<1>5. ASSUME ~TakeFailed PROVE FreshBatch'
  <2>1. CASE TakeGood
    <3>1. /\ outq \in Seq(Group \cup {Sentinel}) /\ outq # <<>> /\ Head(outq) = outq[1]
          /\ Head(outq) \in Group
        BY <2>1, TakeTyped, GroupFacts DEF TakeGood, TakeItem, Typed, TypeOK, QueueTyped
    <3>2. Head(outq).ver \in (cur - MaxOff)..cur
      <4>1. Head(outq).ver <= cur
          BY <3>1 DEF VersionInv, MadeByNow
      <4>2. ~(Head(outq).ver < cur - MaxOff)
          BY <2>1 DEF TakeGood, Stale
      <4>3. Head(outq).ver \in Nat /\ cur \in Nat
          BY <3>1, GroupFacts DEF Typed, TypeOK, TrainTyped
      <4> QED BY <4>1, <4>2, <4>3, Constants
    <3>3. \A i \in 1..Len(batch') : batch'[i] = Head(outq) \/ (i \in 1..Len(batch) /\ batch'[i] = batch[i])
        BY <2>1, <3>1 DEF TakeGood, Typed, TypeOK, TrainTyped
    <3> QED BY <1>2, <1>5, <3>2, <3>3 DEF VersionInv, FreshBatch
  <2>2. CASE batch' = batch \/ batch' = <<>>
      BY <1>2, <1>5, <2>2 DEF VersionInv, FreshBatch
  <2> QED BY <1>5, <2>1, <2>2
          DEF Collecting, TakeSentinel, TakeStale, TakeFlat, Collapse, BlockOnQueue,
              NothingToTrain, BeginTrainStep
<1> QED BY <1>1, <1>2, <1>3, <1>4, <1>5 DEF VersionInv

LEMMA TrainLoopVersion ==
    ASSUME Typed, VersionInv, TrainLoop
    PROVE  VersionInv'
<1> USE DEF Typed, TypeOK, RunTyped, VersionInv
<1>1. CASE NoStepToTrain \/ StartTraining
    BY <1>1 DEF NoStepToTrain, StartTraining, LeaveTraining, MadeByNow, VersionGate, FreshBatch,
                NotTraining, runVars, policyVars
<1>2. CASE BackendSaves
  <2>1. /\ tpc = "training" /\ tpc' = "saved" /\ bstep' = bstep + 1
        /\ UNCHANGED <<run, pv, nts, cur, batch, outq, wgroup, scheduled>>
      BY <1>2 DEF BackendSaves, NotTraining, runVars, policyVars
  <2>2. pv <= bstep' /\ \A s \in scheduled' : s <= bstep'
    <3>1. pv \in Nat /\ bstep \in Nat /\ scheduled \subseteq Nat
        BY DEF EvalTyped
    <3> QED BY <2>1, <3>1
  <2>3. MadeByNow' /\ FreshBatch'
      BY <2>1 DEF MadeByNow, FreshBatch
  <2>4. VersionGate'
      BY <2>1 DEF VersionGate
  <2> QED BY <2>1, <2>2, <2>3, <2>4
<1>3. CASE TrainReturns
  <2>1. MadeByNow'
    <3>1. \A w \in Workers : wgroup[w].ver \in Nat
        BY GroupFacts DEF WorkersTyped
    <3>2. \A i \in 1..Len(outq) : outq[i].ver \in Nat
      <4>1. outq \in Seq(Group \cup {Sentinel})
          BY DEF QueueTyped
      <4>2. \A i \in 1..Len(outq) : outq[i] \in Group \cup {Sentinel}
          BY ONLY <4>1
      <4>3. Sentinel.ver \in Nat
          BY DEF Sentinel
      <4> QED BY ONLY <4>2, <4>3, GroupFacts
    <3>3. pv' = bstep /\ wgroup' = wgroup /\ outq' = outq /\ pv \in Nat /\ bstep \in Nat
        BY <1>3 DEF TrainReturns, NotTraining
    <3>4. \A v \in Nat : v <= pv => v <= bstep
        BY <3>3
    <3>5. \A w \in Workers : wgroup[w].ver <= bstep
        BY <3>1, <3>4 DEF MadeByNow
    <3>6. \A i \in 1..Len(outq) : outq[i].ver <= bstep
        BY <3>2, <3>4 DEF MadeByNow
    <3> QED BY <3>3, <3>5, <3>6 DEF MadeByNow
  <2>2. FreshBatch'
      BY <1>3 DEF TrainReturns, FreshBatch
  <2> QED BY <1>3, <2>1, <2>2 DEF TrainReturns, VersionGate, NotTraining
<1>4. CASE Publish
  <2>1. \A s \in scheduled' : s <= bstep'
      BY <1>4 DEF Publish
  <2> QED BY <1>4, <2>1 DEF Publish, MadeByNow, VersionGate, FreshBatch, NotTraining, runVars,
                policyVars
<1> QED BY <1>1, <1>2, <1>3, <1>4 DEF TrainLoop

LEMMA EvalStepVersion ==
    ASSUME Typed, VersionInv, EvalStage \/ EvalRun \/ OrphanPersists
    PROVE  VersionInv'
<1>1. /\ UNCHANGED <<run, pv, nts, cur, bstep, tpc, batch, wgroup, outq>>
      /\ scheduled' \subseteq scheduled
    BY DEF EvalStage, EvalRun, EvalGet, EvalNext, EvalCompletes, EvalFails, EvalStageEnds,
           EvalStageExits, OrphanPersists, NotEval, evalMarks, runVars, policyVars, workerVars,
           trainVars
<1> QED BY <1>1 DEF VersionInv, MadeByNow, VersionGate, FreshBatch

LEMMA NextVersion == Typed /\ VersionInv /\ [Next]_vars => VersionInv'
<1> SUFFICES ASSUME Typed, VersionInv, [Next]_vars PROVE VersionInv'
    OBVIOUS
<1>1. CASE Collecting BY <1>1, CollectingVersion
<1>2. CASE \E w \in Workers : WorkerStep(w) BY <1>2, WorkerVersion
<1>3. CASE RolloutStage \/ RequestStop \/ PutStopSentinel BY <1>3, QueueStepVersion
<1>4. CASE TrainLoop BY <1>4, TrainLoopVersion
<1>5. CASE EvalStage \/ EvalRun \/ OrphanPersists BY <1>5, EvalStepVersion
<1>6. CASE Finish \/ Disruption
    BY <1>6, EndVersion, ResumeVersion DEF Finish, Disruption, FetchRaises, TrainRaises, Crash, Fail
<1>7. CASE UNCHANGED vars
    BY <1>7 DEF vars, VersionInv, MadeByNow, VersionGate, FreshBatch, runVars, policyVars,
                workerVars, trainVars, evalMarks
<1> QED BY <1>1, <1>2, <1>3, <1>4, <1>5, <1>6, <1>7 DEF Next, OtherTask

LEMMA Versions == Spec => []VersionInv
<1>1. Spec => []Typed
    BY InitTyped, NextTyped, PTL DEF Spec
<1> QED BY <1>1, InitVersion, NextVersion, PTL DEF Spec

\* The gate of _wait_for_policy closes during backend.train only.
THEOREM VersionGateHolds == Spec => []VersionGate
<1>1. VersionInv => VersionGate
    BY DEF VersionInv
<1> QED BY <1>1, Versions, PTL

\* No group is trained on that is more than max_steps_off_policy steps old,
\* nor one made by a policy newer than the one being trained.
THEOREM FreshBatchHolds == Spec => []FreshBatch
<1>1. VersionInv => FreshBatch
    BY DEF VersionInv
<1> QED BY <1>1, Versions, PTL

\* Every version in use by a rollout or an eval is a step the backend saved.
THEOREM StepsSavedHolds == Spec => []StepsSaved
<1>1. Typed /\ VersionInv => StepsSaved
  <2> SUFFICES ASSUME Typed, VersionInv PROVE StepsSaved
      OBVIOUS
  <2>1. \A w \in Workers : wgroup[w].ver \in Nat
      BY GroupFacts DEF Typed, TypeOK, WorkersTyped
  <2> QED BY <2>1 DEF StepsSaved, InUse, VersionInv, MadeByNow, Typed, TypeOK, RunTyped
<1>2. Spec => []Typed
    BY InitTyped, NextTyped, PTL DEF Spec
<1> QED BY <1>1, <1>2, Versions, PTL

(***************************************************************************)
(* max_steps.  The backend's step is the trainer's current_step but for    *)
(* the time between the write of a checkpoint and the return of train,     *)
(* and a batch is collected or trained on below the limit only.            *)
(***************************************************************************)
LimitInv ==
    /\ StepsBounded
    /\ tpc = "start" => cur = startStep
    /\ tpc \in {"start", "collect", "drain", "training", "publish"} => bstep = cur
    /\ tpc = "saved" => bstep = cur + 1
    /\ tpc \in {"collect", "drain", "training", "saved"} => ~AtStepLimit(cur)

LEMMA InitLimit == Init => LimitInv
BY Constants DEF Init, LimitInv, StepsBounded, AtStepLimit

LEMMA EndLimit ==
    ASSUME LimitInv, NEW how \in {"finished", "down"}, EndRun(how)
    PROVE  LimitInv'
BY DEF LimitInv, StepsBounded, EndRun

LEMMA NextLimit == Typed /\ LimitInv /\ [Next]_vars => LimitInv'
<1> SUFFICES ASSUME Typed, LimitInv, [Next]_vars PROVE LimitInv'
    OBVIOUS
<1> DEFINE Kept == UNCHANGED <<limit, startStep, cur, bstep, tpc>>
<1>1. Kept => LimitInv'
    BY DEF LimitInv, StepsBounded, AtStepLimit
<1>2. ASSUME NEW w \in Workers, WorkerStep(w) PROVE Kept
    BY <1>2 DEF WorkerStep, BeginFetch, NoScenarioLeft, TakeScenario, Recheck, RolloutReturns,
           RolloutFails, PutGroup, PutTimesOut, NotWorkers, runVars, trainVars
<1>3. CASE RolloutStage \/ RequestStop \/ PutStopSentinel
    BY <1>1, <1>3 DEF RolloutStage, RolloutStageEnds, PutSentinel, RequestStop, PutStopSentinel,
                      NotQueue, runVars, trainVars
<1>4. CASE Collecting
  <2>1. CASE TakeFailed
      BY <2>1, EndLimit DEF TakeFailed, Fail
  <2>2. ASSUME ~TakeFailed
        PROVE  /\ UNCHANGED <<limit, startStep, cur, bstep>> /\ tpc \in {"collect", "drain"}
               /\ tpc' \in {"drain", "collect", "training", "exit"}
      BY <1>4, <2>2 DEF Collecting, TakeItem, Collects, TakeSentinel, TakeStale, TakeFlat,
            TakeGood, Collapse, LeaveTraining, BlockOnQueue, NothingToTrain, BeginTrainStep,
            NotTraining, runVars
  <2> QED BY <2>1, <2>2 DEF LimitInv, StepsBounded, AtStepLimit
<1>5. CASE TrainLoop
  <2>1. (limit = NoLimit \/ limit \in Nat) /\ startStep \in Nat /\ cur \in Nat /\ bstep \in Nat
      BY Constants DEF Typed, TypeOK, TrainTyped, RunTyped
  <2> QED BY <1>5, <2>1 DEF TrainLoop, NoStepToTrain, StartTraining, LeaveTraining, BackendSaves,
       TrainReturns, Publish, NotTraining, runVars, LimitInv, StepsBounded, AtStepLimit
<1>6. CASE EvalStage \/ EvalRun \/ OrphanPersists
    BY <1>1, <1>6 DEF EvalStage, EvalRun, EvalGet, EvalNext, EvalCompletes, EvalFails,
       EvalStageEnds, EvalStageExits, OrphanPersists, NotEval, runVars, trainVars
<1>7. CASE Resume
  <2>1. startStep' = bstep' /\ cur' = bstep' /\ bstep' = bstep /\ tpc' = "start"
      BY <1>7 DEF Resume
  <2>2. bstep \in Int /\ (limit' = NoLimit \/ limit' \in Nat)
      BY <1>7, Constants DEF Resume, Typed, TypeOK, RunTyped
  <2> QED BY <2>1, <2>2 DEF LimitInv, StepsBounded
<1>8. CASE Finish \/ (Disruption /\ ~Resume)
    BY <1>8, EndLimit DEF Finish, Disruption, FetchRaises, TrainRaises, Crash, Fail
<1>9. CASE UNCHANGED vars
    BY <1>1, <1>9 DEF vars, runVars, trainVars
<1> QED BY <1>1, <1>2, <1>3, <1>4, <1>5, <1>6, <1>7, <1>8, <1>9 DEF Next, OtherTask, Disruption

\* A run writes no checkpoint past max_steps.
THEOREM StepsBoundedHolds == Spec => []StepsBounded
<1>1. Spec => []Typed
    BY InitTyped, NextTyped, PTL DEF Spec
<1>2. Spec => []LimitInv
    BY <1>1, InitLimit, NextLimit, PTL DEF Spec
<1>3. LimitInv => StepsBounded
    BY DEF LimitInv
<1> QED BY <1>2, <1>3, PTL

(***************************************************************************)
(* Leases of the scheduled evals.  The eval stage holds a dequeued step    *)
(* back while it awaits the eval under way, and at no other time.          *)
(***************************************************************************)
LeaseInv == EvalLeasesAccounted /\ (epc = "await" <=> enext # NoStep)

LEMMA InitLease == Init => LeaseInv
<1> SUFFICES ASSUME Init PROVE LeaseInv
    OBVIOUS
<1>1. epc # "await" /\ enext = NoStep /\ pend = NoStep
    BY DEF Init
<1>2. CASE HasEval /\ EvalAtStart
  <2>1. evalq = <<0>> /\ scheduled = {0} /\ Len(evalq) = 1 /\ evalq[1] = 0
      BY <1>2 DEF Init
  <2> QED BY <1>1, <2>1 DEF LeaseInv, EvalLeasesAccounted, EvalsUnderWay, NoStep
<1>3. CASE ~(HasEval /\ EvalAtStart)
  <2>1. evalq = <<>> /\ scheduled = {} /\ Len(evalq) = 0
      BY <1>3 DEF Init
  <2> QED BY <1>1, <2>1 DEF LeaseInv, EvalLeasesAccounted, EvalsUnderWay, NoStep
<1> QED BY <1>2, <1>3

LEMMA EndLease ==
    ASSUME NEW how \in {"finished", "down"}, EndRun(how)
    PROVE  LeaseInv'
<1>1. evalq' = <<>> /\ Len(evalq') = 0 /\ scheduled' = {} /\ epc' = "exit"
      /\ enext' = NoStep /\ pend' = NoStep
    BY DEF EndRun
<1> QED BY <1>1 DEF LeaseInv, EvalLeasesAccounted, EvalsUnderWay

LEMMA ResumeLease == ASSUME Typed, Resume PROVE LeaseInv'
<1>1. epc' # "await" /\ enext' = NoStep /\ pend' = NoStep /\ bstep \in Nat
    BY DEF Resume, Typed, TypeOK, RunTyped
<1>2. CASE HasEval /\ EvalAtStart
  <2>1. evalq' = <<bstep>> /\ scheduled' = {bstep}
      BY <1>2 DEF Resume
  <2>2. Len(evalq') = 1 /\ evalq'[1] = bstep
      BY <2>1
  <2> QED BY <1>1, <2>1, <2>2 DEF LeaseInv, EvalLeasesAccounted, EvalsUnderWay, NoStep
<1>3. CASE ~(HasEval /\ EvalAtStart)
  <2>1. evalq' = <<>> /\ scheduled' = {} /\ Len(evalq') = 0
      BY <1>3 DEF Resume
  <2> QED BY <1>1, <2>1 DEF LeaseInv, EvalLeasesAccounted, EvalsUnderWay, NoStep
<1> QED BY <1>2, <1>3

LEMMA PublishLease == ASSUME Typed, LeaseInv, Publish PROVE LeaseInv'
<1>1. UNCHANGED <<epc, enext, pend>>
    BY DEF Publish, NotTraining
<1>2. CASE UNCHANGED <<evalq, scheduled>>
    BY <1>1, <1>2 DEF LeaseInv, EvalLeasesAccounted, EvalsUnderWay
<1>3. CASE ~UNCHANGED <<evalq, scheduled>>
  <2>1. cur \notin scheduled /\ scheduled' = scheduled \cup {cur} /\ evalq' = Append(evalq, cur)
      BY <1>3 DEF Publish
  <2>2. evalq \in Seq(Nat) /\ cur \in Nat
      BY DEF Typed, TypeOK, TrainTyped, EvalTyped
  <2>3. /\ Len(evalq') = Len(evalq) + 1 /\ evalq'[Len(evalq) + 1] = cur
        /\ \A i \in 1..Len(evalq) : evalq'[i] = evalq[i]
        /\ Len(evalq) \in Nat
      BY <2>1, <2>2
  <2>4. \A i \in 1..Len(evalq') : i \in 1..Len(evalq) \/ i = Len(evalq) + 1
      BY <2>3
  <2>5. /\ \A i \in 1..Len(evalq) : i \in 1..Len(evalq') /\ evalq[i] \in scheduled
        /\ enext # NoStep => enext \in scheduled
        /\ pend # NoStep => pend \in scheduled
      BY <2>3 DEF LeaseInv, EvalLeasesAccounted, EvalsUnderWay
  <2>6. scheduled' = EvalsUnderWay'
    <3>1. scheduled = EvalsUnderWay
        BY DEF LeaseInv, EvalLeasesAccounted
    <3>2. {evalq'[i] : i \in 1..Len(evalq')} = {evalq[i] : i \in 1..Len(evalq)} \cup {cur}
        BY <2>3, <2>4, <2>5
    <3> QED BY <1>1, <2>1, <3>1, <3>2 DEF EvalsUnderWay
  <2>7. \A i, j \in 1..Len(evalq') : evalq'[i] = evalq'[j] => i = j
      BY <2>1, <2>3, <2>4, <2>5 DEF LeaseInv, EvalLeasesAccounted
  <2>8. \A i \in 1..Len(evalq') : evalq'[i] \notin {enext, pend}
      BY <2>1, <2>2, <2>3, <2>4, <2>5 DEF LeaseInv, EvalLeasesAccounted, NoStep
  <2> QED BY <1>1, <2>6, <2>7, <2>8 DEF LeaseInv, EvalLeasesAccounted
<1> QED BY <1>2, <1>3

LEMMA EvalStepLease ==
    ASSUME Typed, LeaseInv, EvalStage \/ EvalRun \/ OrphanPersists
    PROVE  LeaseInv'
<1>1. CASE EvalGet
  <2>1. /\ evalq \in Seq(Nat) /\ evalq # <<>> /\ evalq' = Tail(evalq) /\ scheduled' = scheduled
        /\ epc = "idle" /\ enext = NoStep
      BY <1>1 DEF EvalGet, LeaseInv, Typed, TypeOK, EvalTyped
  <2>2. /\ Len(evalq) \in Nat /\ Len(evalq) > 0 /\ Len(evalq') = Len(evalq) - 1
        /\ Head(evalq) = evalq[1] /\ Head(evalq) \in Nat
        /\ \A i \in 1..Len(evalq') : i + 1 \in 1..Len(evalq) /\ evalq'[i] = evalq[i + 1]
      BY <2>1
  <2>3. \A i \in 1..Len(evalq) : i = 1 \/ (i - 1 \in 1..Len(evalq') /\ evalq'[i - 1] = evalq[i])
      BY <2>2
  <2>4. {evalq[i] : i \in 1..Len(evalq)} = {evalq'[i] : i \in 1..Len(evalq')} \cup {Head(evalq)}
      BY <2>2, <2>3
  <2>5. /\ \A i, j \in 1..Len(evalq') : evalq'[i] = evalq'[j] => i = j
        /\ \A i \in 1..Len(evalq') : evalq'[i] # Head(evalq) /\ evalq'[i] \notin {enext, pend}
        /\ Head(evalq) \notin {enext, pend}
    <3>1. /\ \A i, j \in 1..Len(evalq) : evalq[i] = evalq[j] => i = j
          /\ \A i \in 1..Len(evalq) : evalq[i] \notin {enext, pend}
        BY DEF LeaseInv, EvalLeasesAccounted
    <3>2. 1 \in 1..Len(evalq) /\ Head(evalq) \notin {enext, pend}
        BY <2>2, <3>1
    <3>3. \A i \in 1..Len(evalq') : evalq'[i] # Head(evalq) /\ evalq'[i] \notin {enext, pend}
      <4> SUFFICES ASSUME NEW i \in 1..Len(evalq')
                   PROVE  evalq'[i] # Head(evalq) /\ evalq'[i] \notin {enext, pend}
          OBVIOUS
      <4>1. i + 1 # 1 /\ i + 1 \in 1..Len(evalq) /\ evalq'[i] = evalq[i + 1]
          BY <2>2
      <4> QED BY <2>2, <3>1, <3>2, <4>1
    <3>4. ASSUME NEW i \in 1..Len(evalq'), NEW j \in 1..Len(evalq'), evalq'[i] = evalq'[j]
          PROVE  i = j
      <4>1. /\ i + 1 \in 1..Len(evalq) /\ j + 1 \in 1..Len(evalq)
            /\ evalq[i + 1] = evalq[j + 1]
          BY <2>2, <3>4
      <4>2. i + 1 = j + 1
          BY <3>1, <4>1
      <4> QED BY <4>2
    <3> QED BY <3>2, <3>3, <3>4
  <2>6. CASE pend = NoStep
    <3>1. pend' = Head(evalq) /\ enext' = NoStep /\ epc' = "idle"
        BY <1>1, <2>1, <2>6 DEF EvalGet
    <3>2. NoStep \notin Nat
        BY DEF NoStep
    <3>3. scheduled' = EvalsUnderWay'
      <4>1. scheduled = EvalsUnderWay
          BY DEF LeaseInv, EvalLeasesAccounted
      <4> QED BY <2>1, <2>2, <2>4, <2>6, <3>1, <3>2, <4>1 DEF EvalsUnderWay
    <3>4. \A i \in 1..Len(evalq') : evalq'[i] \notin {enext', pend'}
        BY <2>1, <2>5, <3>1
    <3> QED BY <2>2, <2>5, <3>1, <3>2, <3>3, <3>4 DEF LeaseInv, EvalLeasesAccounted
  <2>7. CASE pend # NoStep
    <3>1. enext' = Head(evalq) /\ pend' = pend /\ epc' = "await"
        BY <1>1, <2>7 DEF EvalGet
    <3> QED BY <2>1, <2>2, <2>4, <2>5, <2>7, <3>1
            DEF LeaseInv, EvalLeasesAccounted, EvalsUnderWay, NoStep
  <2> QED BY <2>6, <2>7
<1>2. CASE EvalNext
    BY <1>2 DEF EvalNext, LeaseInv, EvalLeasesAccounted, EvalsUnderWay, Typed, TypeOK, EvalTyped,
                NoStep
<1>3. CASE EvalRun
  <2>1. /\ pend # NoStep /\ pend' = NoStep /\ scheduled' = scheduled \ {pend}
        /\ UNCHANGED <<epc, evalq, enext>>
      BY <1>3 DEF EvalRun, EvalCompletes, EvalFails
  <2>2. \A i \in 1..Len(evalq) : evalq[i] # NoStep
      BY DEF Typed, TypeOK, EvalTyped, NoStep
  <2> QED BY <2>1, <2>2 DEF LeaseInv, EvalLeasesAccounted, EvalsUnderWay
<1>4. CASE EvalStageEnds \/ EvalStageExits
    BY <1>4 DEF EvalStageEnds, EvalStageExits, LeaseInv, EvalLeasesAccounted, EvalsUnderWay
<1>5. CASE OrphanPersists
    BY <1>5 DEF OrphanPersists, LeaseInv, EvalLeasesAccounted, EvalsUnderWay, evalVars, evalMarks
<1> QED BY <1>1, <1>2, <1>3, <1>4, <1>5 DEF EvalStage

LEMMA NextLease == Typed /\ LeaseInv /\ [Next]_vars => LeaseInv'
<1> SUFFICES ASSUME Typed, LeaseInv, [Next]_vars PROVE LeaseInv'
    OBVIOUS
<1> DEFINE Kept == UNCHANGED <<epc, evalq, enext, pend, scheduled>>
<1>1. Kept => LeaseInv'
    BY DEF LeaseInv, EvalLeasesAccounted, EvalsUnderWay
<1>2. ASSUME NEW w \in Workers, WorkerStep(w) PROVE Kept
    BY <1>2 DEF WorkerStep, BeginFetch, NoScenarioLeft, TakeScenario, Recheck, RolloutReturns,
           RolloutFails, PutGroup, PutTimesOut, NotWorkers, evalVars, evalMarks
<1>3. CASE RolloutStage \/ RequestStop \/ PutStopSentinel
    BY <1>1, <1>3 DEF RolloutStage, RolloutStageEnds, PutSentinel, RequestStop, PutStopSentinel,
                      NotQueue, evalVars, evalMarks
<1>4. CASE Collecting
  <2>1. CASE TakeFailed
      BY <2>1, EndLease DEF TakeFailed, Fail
  <2>2. CASE Collecting /\ ~TakeFailed
      BY <1>1, <2>2 DEF Collecting, TakeItem, Collects, TakeSentinel, TakeStale, TakeFlat,
            TakeGood, Collapse, LeaveTraining, BlockOnQueue, NothingToTrain, BeginTrainStep,
            NotTraining
  <2> QED BY <1>4, <2>1, <2>2
<1>5. CASE TrainLoop
  <2>1. CASE TrainLoop /\ ~Publish
      BY <1>1, <2>1 DEF TrainLoop, NoStepToTrain, StartTraining, LeaveTraining, BackendSaves,
                        TrainReturns, NotTraining
  <2> QED BY <1>5, <2>1, PublishLease
<1>6. CASE EvalStage \/ EvalRun \/ OrphanPersists
    BY <1>6, EvalStepLease
<1>7. CASE Finish \/ Disruption
    BY <1>7, EndLease, ResumeLease DEF Finish, Disruption, FetchRaises, TrainRaises, Crash, Fail
<1>8. CASE UNCHANGED vars
    BY <1>1, <1>8 DEF vars, evalVars, evalMarks
<1> QED BY <1>1, <1>2, <1>3, <1>4, <1>5, <1>6, <1>7, <1>8 DEF Next, OtherTask

\* No scheduled-eval lease is leaked, released early or held for two evals.
THEOREM EvalLeasesHold == Spec => []EvalLeasesAccounted
<1>1. Spec => []Typed
    BY InitTyped, NextTyped, PTL DEF Spec
<1>2. Spec => []LeaseInv
    BY <1>1, InitLease, NextLease, PTL DEF Spec
<1>3. LeaseInv => EvalLeasesAccounted
    BY DEF LeaseInv
<1> QED BY <1>2, <1>3, PTL

(***************************************************************************)
(* Conservation of the groups.  Places of a queue that hold a group, and   *)
(* workers that hold one, are counted as sets: a put adds one place, a get *)
(* shifts the places and removes the first.                                *)
(***************************************************************************)
Places(s) == {i \in 1..Len(s) : s[i] # Sentinel}

Holders == {w \in Workers : Holding(w)}

LEMMA PlacesCounted ==
    ASSUME NEW S, NEW s \in Seq(S)
    PROVE  IsFiniteSet(Places(s)) /\ Cardinality(Places(s)) \in Nat
<1>1. IsFiniteSet(1..Len(s))
    BY FS_Interval
<1>2. Places(s) \in SUBSET (1..Len(s))
    BY DEF Places
<1>3. IsFiniteSet(Places(s))
    BY <1>1, <1>2, FS_Subset
<1> QED BY <1>3, FS_CardinalityType

LEMMA AppendCounted ==
    ASSUME NEW S, NEW s \in Seq(S), NEW x \in S
    PROVE  Cardinality(Places(Append(s, x)))
               = Cardinality(Places(s)) + (IF x = Sentinel THEN 0 ELSE 1)
<1> DEFINE n == Len(s) + 1
<1>1. /\ Len(s) \in Nat /\ Len(Append(s, x)) = n /\ Append(s, x)[n] = x
      /\ \A i \in 1..Len(s) : Append(s, x)[i] = s[i]
    OBVIOUS
<1>2. CASE x = Sentinel
  <2>1. Places(Append(s, x)) = Places(s)
      BY <1>1, <1>2 DEF Places
  <2>2. Cardinality(Places(s)) \in Nat
      BY PlacesCounted
  <2> QED BY <1>2, <2>1, <2>2
<1>3. CASE x # Sentinel
  <2>1. Places(Append(s, x)) = Places(s) \cup {n}
      BY <1>1, <1>3 DEF Places
  <2>2. n \notin Places(s)
      BY <1>1 DEF Places
  <2>3. IsFiniteSet(Places(s))
      BY PlacesCounted
  <2>4. Cardinality(Places(s) \cup {n}) = Cardinality(Places(s)) + 1
      BY <2>2, <2>3, FS_AddElement
  <2> QED BY <1>3, <2>1, <2>4
<1> QED BY <1>2, <1>3

LEMMA TailCounted ==
    ASSUME NEW S, NEW s \in Seq(S), s # <<>>
    PROVE  Cardinality(Places(s))
               = Cardinality(Places(Tail(s))) + (IF Head(s) = Sentinel THEN 0 ELSE 1)
<1> DEFINE T == Tail(s)
           F == [i \in Places(T) |-> i + 1]
           R == Places(s) \ {1}
<1>1. /\ Len(s) \in Nat /\ Len(s) > 0 /\ T \in Seq(S) /\ Len(T) = Len(s) - 1 /\ Head(s) = s[1]
      /\ \A i \in 1..Len(T) : T[i] = s[i + 1]
    OBVIOUS
<1>2. \A i \in Places(T) : i \in 1..Len(T) /\ T[i] # Sentinel
    BY DEF Places
<1>3. \A i \in Places(T) : F[i] = i + 1 /\ i + 1 \in R
  <2> TAKE i \in Places(T)
  <2>1. i \in 1..Len(T) /\ s[i + 1] # Sentinel
      BY <1>1, <1>2
  <2> QED BY <1>1, <2>1 DEF Places
<1>4. \A j \in R : j - 1 \in Places(T) /\ F[j - 1] = j
  <2> TAKE j \in R
  <2>1. j \in 1..Len(s) /\ j # 1 /\ s[j] # Sentinel
      BY DEF Places
  <2>2. j - 1 \in 1..Len(T) /\ T[j - 1] = s[(j - 1) + 1] /\ (j - 1) + 1 = j
      BY <1>1, <2>1
  <2>3. j - 1 \in Places(T)
      BY <2>1, <2>2 DEF Places
  <2> QED BY <2>2, <2>3
<1>5. F \in Bijection(Places(T), R)
  <2>1. F \in [Places(T) -> R]
      BY <1>3
  <2>2. \A i, j \in Places(T) : F[i] = F[j] => i = j
      BY <1>2, <1>3
  <2>3. \A j \in R : \E i \in Places(T) : F[i] = j
      BY <1>4
  <2> HIDE DEF F, R
  <2> QED BY <2>1, <2>2, <2>3 DEF Bijection, Injection, IsInjective, Surjection
<1>6. IsFiniteSet(Places(s)) /\ IsFiniteSet(Places(T)) /\ Cardinality(Places(T)) \in Nat
    BY <1>1, PlacesCounted
<1>7. Cardinality(R) = Cardinality(Places(T))
  <2>1. ExistsBijection(Places(T), R)
      BY <1>5 DEF ExistsBijection
  <2> HIDE DEF R, T
  <2> QED BY <2>1, <1>6, FS_Bijection
<1>8. Cardinality(R) = IF 1 \in Places(s) THEN Cardinality(Places(s)) - 1
                                           ELSE Cardinality(Places(s))
    BY <1>6, FS_RemoveElement
<1>9. 1 \in Places(s) <=> Head(s) # Sentinel
    BY <1>1 DEF Places
<1>10. Cardinality(Places(s)) \in Nat
    BY PlacesCounted
<1> HIDE DEF R, T
<1> QED BY <1>6, <1>7, <1>8, <1>9, <1>10 DEF T

LEMMA HoldersCounted == IsFiniteSet(Holders) /\ Cardinality(Holders) \in Nat
<1>1. IsFiniteSet(Workers) /\ Holders \in SUBSET Workers
    BY PipelineAssumption DEF PipelineAssumption, Holders
<1>2. IsFiniteSet(Holders)
    BY <1>1, FS_Subset
<1> QED BY <1>2, FS_CardinalityType

\* What a step of worker w alone changes.
HoldingAt(pc) == pc \in {"blocked", "woken", "rollout", "put"}

LEMMA HoldersMove ==
    ASSUME NEW w \in Workers, WorkersTyped, NEW pc, wpc' = [wpc EXCEPT ![w] = pc]
    PROVE  /\ HoldingAt(pc) => Holders' = Holders \cup {w}
           /\ ~HoldingAt(pc) => Holders' = Holders \ {w}
           /\ w \in Holders <=> HoldingAt(wpc[w])
<1>1. wpc'[w] = pc /\ \A v \in Workers : v # w => wpc'[v] = wpc[v]
    BY DEF WorkersTyped
<1>2. (Holding(w)' <=> HoldingAt(pc)) /\ (Holding(w) <=> HoldingAt(wpc[w]))
    BY <1>1 DEF Holding, HoldingAt
<1>3. \A v \in Workers : v # w => (Holding(v)' <=> Holding(v))
    BY <1>1 DEF Holding
<1>4. Holders' = {v \in Workers : Holding(v)'}
    BY DEF Holders, Holding
<1> QED BY <1>2, <1>3, <1>4 DEF Holders

LEMMA HolderStays ==
    ASSUME NEW w \in Workers, WorkersTyped, NEW pc, wpc' = [wpc EXCEPT ![w] = pc],
           HoldingAt(wpc[w]) <=> HoldingAt(pc)
    PROVE  Holders' = Holders
<1>1. CASE HoldingAt(pc)
  <2>1. w \in Holders /\ Holders' = Holders \cup {w}
      BY <1>1, HoldersMove
  <2> QED BY <2>1
<1>2. CASE ~HoldingAt(pc)
  <2>1. w \notin Holders /\ Holders' = Holders \ {w}
      BY <1>2, HoldersMove
  <2> QED BY <2>1
<1> QED BY <1>1, <1>2

LEMMA HolderAdded ==
    ASSUME NEW w \in Workers, WorkersTyped, NEW pc, wpc' = [wpc EXCEPT ![w] = pc],
           ~HoldingAt(wpc[w]), HoldingAt(pc)
    PROVE  Cardinality(Holders') = Cardinality(Holders) + 1
<1>1. w \notin Holders /\ Holders' = Holders \cup {w}
    BY HoldersMove
<1>2. Cardinality(Holders \cup {w}) = Cardinality(Holders) + 1
    BY <1>1, HoldersCounted, FS_AddElement
<1> QED BY <1>1, <1>2

LEMMA HolderGone ==
    ASSUME NEW w \in Workers, WorkersTyped, NEW pc, wpc' = [wpc EXCEPT ![w] = pc],
           HoldingAt(wpc[w]), ~HoldingAt(pc)
    PROVE  Cardinality(Holders') = Cardinality(Holders) - 1
<1>1. w \in Holders /\ Holders' = Holders \ {w}
    BY HoldersMove
<1>2. Cardinality(Holders \ {w}) = Cardinality(Holders) - 1
    BY <1>1, HoldersCounted, FS_RemoveElement
<1> QED BY <1>1, <1>2

LEMMA HoldersNotified ==
    ASSUME WorkersTyped, wpc' = NotifyPolicy(wpc)
    PROVE  Holders' = Holders
<1>1. \A v \in Workers : Holding(v)' <=> Holding(v)
    BY DEF NotifyPolicy, Holding, WorkersTyped
<1> QED BY <1>1 DEF Holders, Holding

\* Until a stop: what the run consumed is what is held, queued, in the batch
\* or settled.
Conserved(given, held, queued, got, gone) == given = held + queued + got + gone

LEMMA Settles ==
    ASSUME NEW given, NEW held \in Nat, NEW queued \in Nat, NEW got \in Nat, NEW got2 \in Nat,
           NEW gone \in Nat, NEW gone2 \in Nat,
           got2 + gone2 = got + gone,
           Conserved(given, held, queued, got, gone)
    PROVE  Conserved(given, held, queued, got2, gone2)
BY DEF Conserved

LEMMA OneMoreHeld ==
    ASSUME NEW given \in Int, NEW held \in Nat, NEW queued \in Nat, NEW got \in Nat,
           NEW gone \in Nat, Conserved(given, held, queued, got, gone),
           NEW given2, NEW held2, given2 = given + 1, held2 = held + 1
    PROVE  Conserved(given2, held2, queued, got, gone)
BY DEF Conserved

LEMMA OneLessHeld ==
    ASSUME NEW given, NEW held \in Nat, NEW queued \in Nat, NEW got \in Nat,
           NEW gone \in Nat, Conserved(given, held, queued, got, gone),
           NEW held2, NEW gone2, held2 = held - 1, gone2 = gone + 1
    PROVE  Conserved(given, held2, queued, got, gone2)
BY DEF Conserved

LEMMA Takes ==
    ASSUME NEW given, NEW held \in Nat, NEW queued \in Nat, NEW queued2 \in Nat, NEW got \in Nat,
           NEW got2 \in Nat, NEW gone \in Nat, NEW gone2 \in Nat,
           \/ queued = queued2 /\ got2 = got /\ gone2 = gone
           \/ queued = queued2 + 1 /\ got2 = got /\ gone2 = gone + 1
           \/ queued = queued2 + 1 /\ got2 = got + 1 /\ gone2 = gone,
           Conserved(given, held, queued, got, gone)
    PROVE  Conserved(given, held, queued2, got2, gone2)
BY DEF Conserved

LEMMA Balance ==
    GroupsConserved <=>
        (run = "running" /\ ~done =>
            Conserved(offset - startOffset, Cardinality(Holders), Cardinality(Places(outq)),
                      Len(batch), settled))
BY DEF GroupsConserved, Conserved, Holders, Queued, Places

LEMMA BalanceNext ==
    GroupsConserved' <=>
        (run' = "running" /\ ~done' =>
            Conserved(offset' - startOffset', Cardinality(Holders'),
                      Cardinality(Places(outq')), Len(batch'), settled'))
BY DEF GroupsConserved, Conserved, Holders, Queued, Places

LEMMA CountsTyped ==
    ASSUME Typed
    PROVE  /\ offset \in Nat /\ startOffset \in Nat /\ settled \in Nat
           /\ Cardinality(Holders) \in Nat /\ Cardinality(Places(outq)) \in Nat
           /\ batch \in Seq(Group) /\ Len(batch) \in Nat
           /\ outq \in Seq(Group \cup {Sentinel})
<1>1. outq \in Seq(Group \cup {Sentinel}) /\ batch \in Seq(Group)
    BY DEF Typed, TypeOK, QueueTyped, TrainTyped
<1>2. Cardinality(Places(outq)) \in Nat
    BY <1>1, PlacesCounted
<1>3. Len(batch) \in Nat
    BY <1>1
<1> QED BY <1>1, <1>2, <1>3, HoldersCounted DEF Typed, TypeOK, RunTyped

LEMMA NoneHeld ==
    /\ Holders = {} => Cardinality(Holders) = 0
    /\ Cardinality(Places(<<>>)) = 0
<1>1. Places(<<>>) = {}
    BY DEF Places
<1> QED BY <1>1, FS_EmptySet

LEMMA InitConserved == Init => GroupsConserved
<1> SUFFICES ASSUME Init PROVE GroupsConserved
    OBVIOUS
<1>1. Holders = {}
    BY DEF Init, Holders, Holding
<1>2. Len(batch) = 0 /\ outq = <<>> /\ offset - startOffset = 0 /\ settled = 0
    BY DEF Init
<1> QED BY <1>1, <1>2, NoneHeld, Balance DEF Conserved

LEMMA ResumeConserved == ASSUME Typed, Resume PROVE GroupsConserved'
<1>1. Holders' = {}
    BY DEF Resume, Holders, Holding
<1>2. /\ Len(batch') = 0 /\ outq' = <<>> /\ settled' = 0
      /\ offset' = ResumeOffset /\ startOffset' = ResumeOffset
    BY DEF Resume
<1>3. ResumeOffset \in Nat
    BY Constants DEF ResumeOffset, Typed, TypeOK, RunTyped, Saved
<1>4. Cardinality(Holders') = 0
    BY <1>1, FS_EmptySet
<1> QED BY <1>2, <1>3, <1>4, NoneHeld, BalanceNext DEF Conserved

LEMMA WorkerConserved ==
    ASSUME Typed, GroupsConserved, NEW w \in Workers, WorkerStep(w)
    PROVE  GroupsConserved'
<1>1. UNCHANGED NotWorkers
    BY DEF WorkerStep, BeginFetch, NoScenarioLeft, TakeScenario, Recheck, RolloutReturns,
           RolloutFails, PutGroup, PutTimesOut
<1>2. run' = run /\ done' = done /\ startOffset' = startOffset /\ Len(batch') = Len(batch)
    BY <1>1 DEF NotWorkers, runVars, trainVars
<1> SUFFICES ASSUME run = "running", ~done PROVE GroupsConserved'
    BY <1>2, BalanceNext
<1>3. Conserved(offset - startOffset, Cardinality(Holders), Cardinality(Places(outq)),
                Len(batch), settled)
    BY Balance
<1>4. /\ offset \in Nat /\ startOffset \in Nat /\ settled \in Nat
      /\ Cardinality(Holders) \in Nat /\ Cardinality(Places(outq)) \in Nat
      /\ Len(batch) \in Nat
    BY CountsTyped
<1>5. WorkersTyped
    BY DEF Typed, TypeOK
<1> DEFINE Goal == Conserved(offset' - startOffset', Cardinality(Holders'),
                             Cardinality(Places(outq')), Len(batch'), settled')
<1>6. SUFFICES Goal
    BY BalanceNext
<1>7. CASE UNCHANGED <<offset, outq, settled>> /\ Holders' = Holders
    BY <1>2, <1>3, <1>7
<1>8. CASE BeginFetch(w)
  <2>1. wpc' = [wpc EXCEPT ![w] = "fetching"] /\ wpc[w] = "idle"
        /\ UNCHANGED <<offset, outq, settled>>
      BY <1>8 DEF BeginFetch
  <2>2. Holders' = Holders
      BY <2>1, <1>5, HolderStays DEF HoldingAt
  <2> QED BY <2>1, <2>2, <1>7
<1>9. CASE NoScenarioLeft(w)
  <2>1. wpc' = [wpc EXCEPT ![w] = "exit"] /\ wpc[w] = "fetching"
        /\ UNCHANGED <<offset, outq, settled>>
      BY <1>9 DEF NoScenarioLeft, Leaves
  <2>2. Holders' = Holders
      BY <2>1, <1>5, HolderStays DEF HoldingAt
  <2> QED BY <2>1, <2>2, <1>7
<1>10. CASE TakeScenario(w)
  <2>1. /\ wpc' = [wpc EXCEPT ![w] = "blocked"] \/ wpc' = [wpc EXCEPT ![w] = "rollout"]
        /\ wpc[w] = "fetching" /\ offset' = offset + 1 /\ UNCHANGED <<outq, settled>>
      BY <1>10 DEF TakeScenario, EnterRollout
  <2>2. Cardinality(Holders') = Cardinality(Holders) + 1
      BY <2>1, <1>5, HolderAdded DEF HoldingAt
  <2>3. offset' - startOffset' = offset - startOffset + 1
      BY <2>1, <1>2, <1>4
  <2>4. offset - startOffset \in Int /\ Cardinality(Holders') \in Int
      BY <2>2, <1>4
  <2>5. Conserved(offset' - startOffset', Cardinality(Holders'), Cardinality(Places(outq)),
                  Len(batch), settled)
      BY ONLY <2>2, <2>3, <2>4, <1>3, <1>4, OneMoreHeld
  <2> QED BY ONLY <2>1, <2>5, <1>2
<1>11. CASE Recheck(w)
  <2>1. /\ wpc' = [wpc EXCEPT ![w] = "blocked"] \/ wpc' = [wpc EXCEPT ![w] = "rollout"]
        /\ wpc[w] = "woken" /\ UNCHANGED <<offset, outq, settled>>
      BY <1>11 DEF Recheck, EnterRollout
  <2>2. Holders' = Holders
      BY <2>1, <1>5, HolderStays DEF HoldingAt
  <2> QED BY <2>1, <2>2, <1>7
<1>12. CASE RolloutReturns(w)
  <2>1. wpc' = [wpc EXCEPT ![w] = "put"] /\ wpc[w] = "rollout"
        /\ UNCHANGED <<offset, outq, settled>>
      BY <1>12 DEF RolloutReturns
  <2>2. Holders' = Holders
      BY <2>1, <1>5, HolderStays DEF HoldingAt
  <2> QED BY <2>1, <2>2, <1>7
<1>13. CASE RolloutFails(w)
  <2>1. /\ wpc' = [wpc EXCEPT ![w] = "idle"] /\ wpc[w] = "rollout"
        /\ UNCHANGED <<offset, outq>> /\ settled' = settled + 1
      BY <1>13 DEF RolloutFails
  <2>2. Cardinality(Holders') = Cardinality(Holders) - 1
      BY <2>1, <1>5, HolderGone DEF HoldingAt
  <2>3. settled' \in Int /\ Cardinality(Holders') \in Int
      BY <2>1, <2>2, <1>4
  <2>4. Conserved(offset - startOffset, Cardinality(Holders'), Cardinality(Places(outq)),
                  Len(batch), settled')
      BY ONLY <2>1, <2>2, <2>3, <1>3, <1>4, OneLessHeld
  <2> QED BY ONLY <2>1, <2>4, <1>2
<1>14. CASE PutGroup(w)
  <2>1. /\ wpc' = [wpc EXCEPT ![w] = "idle"] /\ wpc[w] = "put"
        /\ outq' = Append(outq, wgroup[w]) /\ UNCHANGED <<offset, settled>>
      BY <1>14 DEF PutGroup
  <2>2. Cardinality(Holders') = Cardinality(Holders) - 1
      BY <2>1, <1>5, HolderGone DEF HoldingAt
  <2>3. wgroup[w] \in Group \cup {Sentinel} /\ wgroup[w] # Sentinel
      BY <1>5 DEF WorkersTyped, Group, GroupKinds, Sentinel
  <2>4. Cardinality(Places(outq')) = Cardinality(Places(outq)) + 1
      BY <2>1, <2>3, AppendCounted, CountsTyped
  <2> QED BY <2>1, <2>2, <2>4, <1>2, <1>3, <1>4 DEF Conserved
<1>15. CASE PutTimesOut(w)
    BY <1>15 DEF PutTimesOut
<1> QED BY <1>8, <1>9, <1>10, <1>11, <1>12, <1>13, <1>14, <1>15 DEF WorkerStep

\* Sentinels hold no group, and a stop wakes the workers that wait.
LEMMA QueueStepConserved ==
    ASSUME Typed, GroupsConserved, RolloutStage \/ RequestStop \/ PutStopSentinel
    PROVE  GroupsConserved'
<1>1. UNCHANGED NotQueue
    BY DEF RolloutStage, RolloutStageEnds, PutSentinel, RequestStop, PutStopSentinel
<1>2. UNCHANGED <<run, offset, startOffset, batch, settled>>
    BY <1>1 DEF NotQueue, runVars, trainVars
<1>3. done' \/ (wpc' = wpc /\ done' = done)
    BY DEF RolloutStage, RolloutStageEnds, PutSentinel, RequestStop, PutStopSentinel
<1> SUFFICES ASSUME run = "running", ~done' PROVE GroupsConserved'
    BY <1>2, BalanceNext
<1>4. Holders' = Holders
    BY <1>3 DEF Holders, Holding
<1>5. outq' = outq \/ outq' = Append(outq, Sentinel)
    BY DEF RolloutStage, RolloutStageEnds, PutSentinel, RequestStop, PutStopSentinel
<1>6. Cardinality(Places(outq')) = Cardinality(Places(outq))
  <2>1. Cardinality(Places(Append(outq, Sentinel))) = Cardinality(Places(outq))
      BY AppendCounted, CountsTyped
  <2> QED BY <1>5, <2>1
<1>7. ~done
    BY <1>3
<1> QED BY <1>2, <1>3, <1>4, <1>6, <1>7, Balance, BalanceNext

\* An item leaves the queue for the batch, or is settled.
LEMMA TakeConserved ==
    ASSUME Typed, GroupsConserved, TakeSentinel \/ TakeStale \/ TakeFlat \/ TakeGood
    PROVE  GroupsConserved'
<1>1. UNCHANGED <<run, done, wpc, offset, startOffset>>
    BY DEF TakeSentinel, TakeStale, TakeFlat, TakeGood, Collects, NotTraining, runVars
<1>2. outq # <<>> /\ outq' = Tail(outq)
    BY DEF TakeSentinel, TakeStale, TakeFlat, TakeGood, TakeItem
<1> SUFFICES ASSUME run = "running", ~done PROVE GroupsConserved'
    BY <1>1, BalanceNext
<1>3. Conserved(offset - startOffset, Cardinality(Holders), Cardinality(Places(outq)),
                Len(batch), settled)
    BY Balance
<1>4. /\ offset \in Nat /\ startOffset \in Nat /\ settled \in Nat
      /\ Cardinality(Holders) \in Nat /\ Cardinality(Places(outq)) \in Nat
      /\ Len(batch) \in Nat
    BY CountsTyped
<1>5. /\ Cardinality(Places(outq))
             = Cardinality(Places(outq')) + (IF Head(outq) = Sentinel THEN 0 ELSE 1)
      /\ Cardinality(Places(outq')) \in Nat
  <2>1. Tail(outq) \in Seq(Group \cup {Sentinel})
      BY <1>2, CountsTyped
  <2> QED BY <1>2, <2>1, TailCounted, PlacesCounted, CountsTyped
<1>6. Holders' = Holders
    BY <1>1 DEF Holders, Holding
<1>7. \/ Head(outq) = Sentinel /\ Len(batch') = Len(batch) /\ settled' = settled
      \/ Head(outq) # Sentinel /\ Len(batch') = Len(batch) /\ settled' = settled + 1
      \/ Head(outq) # Sentinel /\ Len(batch') = Len(batch) + 1 /\ settled' = settled
  <2>1. CASE TakeSentinel
      BY <2>1 DEF TakeSentinel
  <2>2. CASE TakeStale
      BY <2>2 DEF TakeStale, Sentinel
  <2>3. CASE TakeFlat
      BY <2>3 DEF TakeFlat, ZeroVariance, Sentinel
  <2>4. CASE TakeGood
    <3>1. Head(outq) # Sentinel /\ batch' = Append(batch, Head(outq)) /\ settled' = settled
        BY <2>4 DEF TakeGood, Sentinel
    <3>2. Head(outq) \in Group
      <4>1. Head(outq) \in Group \cup {Sentinel}
          BY <1>2, CountsTyped
      <4> QED BY <3>1, <4>1
    <3>3. Len(batch') = Len(batch) + 1
        BY <3>1, <3>2, CountsTyped
    <3> QED BY <3>1, <3>3
  <2> QED BY <2>1, <2>2, <2>3, <2>4
<1>8. Conserved(offset - startOffset, Cardinality(Holders), Cardinality(Places(outq')),
                Len(batch'), settled')
  <2> DEFINE h == Cardinality(Holders)
             q == Cardinality(Places(outq))
             p == Cardinality(Places(outq'))
             b == Len(batch)
             c == Len(batch')
  <2>1. /\ h \in Nat /\ q \in Nat /\ p \in Nat /\ b \in Nat /\ c \in Nat
        /\ settled \in Nat /\ settled' \in Nat
      BY <1>4, <1>5, <1>7
  <2>2. Conserved(offset - startOffset, h, q, b, settled)
      BY <1>3
  <2>3. \/ q = p /\ c = b /\ settled' = settled
        \/ q = p + 1 /\ c = b /\ settled' = settled + 1
        \/ q = p + 1 /\ c = b + 1 /\ settled' = settled
    <3>1. CASE Head(outq) = Sentinel
        BY <1>5, <1>7, <3>1, <2>1
    <3>2. CASE Head(outq) # Sentinel
        BY <1>5, <1>7, <3>2, <2>1
    <3> QED BY <3>1, <3>2
  <2> HIDE DEF h, q, p, b, c
  <2>4. Conserved(offset - startOffset, h, p, c, settled')
      BY <2>1, <2>2, <2>3, Takes
  <2> QED BY <2>4 DEF h, p, c
<1> QED BY <1>1, <1>6, <1>8, BalanceNext

\* The other steps of the training stage.
LEMMA TrainingConserved ==
    ASSUME Typed, GroupsConserved,
           TrainLoop \/ Collapse \/ BlockOnQueue \/ NothingToTrain \/ BeginTrainStep
    PROVE  GroupsConserved'
<1>1. UNCHANGED <<run, offset, startOffset>>
    BY DEF TrainLoop, NoStepToTrain, StartTraining, LeaveTraining, BackendSaves, TrainReturns,
           Publish, Collapse, BlockOnQueue, NothingToTrain, BeginTrainStep, NotTraining, runVars
<1> SUFFICES ASSUME run = "running", ~done' PROVE GroupsConserved'
    BY <1>1, BalanceNext
<1>2. ~Collapse /\ ~NothingToTrain /\ ~NoStepToTrain
    BY DEF Collapse, NothingToTrain, NoStepToTrain, LeaveTraining
<1>3. /\ ~done /\ outq' = outq
      /\ wpc' = wpc \/ wpc' = NotifyPolicy(wpc)
  <2>1. CASE Publish
      BY <2>1 DEF Publish
  <2> QED BY <1>2, <2>1 DEF TrainLoop, StartTraining, BackendSaves, TrainReturns, BlockOnQueue,
                      BeginTrainStep
<1>4. Holders' = Holders
  <2>1. CASE wpc' = wpc
      BY <2>1 DEF Holders, Holding
  <2> QED BY <1>3, <2>1, HoldersNotified DEF Typed, TypeOK
<1>5. Len(batch') + settled' = Len(batch) + settled
      /\ Len(batch') \in Nat /\ settled' \in Nat
  <2>1. CASE TrainReturns
    <3>1. settled' = settled + Len(batch) /\ Len(batch') = 0
        BY <2>1 DEF TrainReturns
    <3> QED BY <3>1, CountsTyped
  <2>2. CASE UNCHANGED <<batch, settled>>
      BY <2>2, CountsTyped
  <2> QED BY <1>2, <2>1, <2>2 DEF TrainLoop, StartTraining, BackendSaves, Publish, BlockOnQueue,
                            BeginTrainStep
<1>6. Conserved(offset - startOffset, Cardinality(Holders), Cardinality(Places(outq)),
                Len(batch), settled)
    BY <1>3, Balance
<1>7. Conserved(offset - startOffset, Cardinality(Holders), Cardinality(Places(outq)),
                Len(batch'), settled')
  <2> DEFINE h == Cardinality(Holders)
             q == Cardinality(Places(outq))
             b == Len(batch)
             c == Len(batch')
  <2>1. h \in Nat /\ q \in Nat /\ b \in Nat /\ c \in Nat /\ settled \in Nat /\ settled' \in Nat
      BY <1>5, CountsTyped
  <2>2. c + settled' = b + settled
      BY <1>5
  <2>3. Conserved(offset - startOffset, h, q, b, settled)
      BY <1>6
  <2> HIDE DEF h, q, b, c
  <2>4. Conserved(offset - startOffset, h, q, c, settled')
      BY <2>1, <2>2, <2>3, Settles
  <2> QED BY <2>4 DEF h, q, c
<1> QED BY <1>1, <1>3, <1>4, <1>7, BalanceNext

LEMMA NextConserved == Typed /\ GroupsConserved /\ [Next]_vars => GroupsConserved'
<1> SUFFICES ASSUME Typed, GroupsConserved, [Next]_vars PROVE GroupsConserved'
    OBVIOUS
<1>1. CASE UNCHANGED <<run, done, offset, startOffset, wpc, outq, batch, settled>>
    BY <1>1 DEF GroupsConserved, Holding, Queued
<1>2. CASE Collecting
    BY <1>2, TakeConserved, TrainingConserved, BalanceNext
       DEF Collecting, TakeFailed, Fail, EndRun
<1>3. CASE \E w \in Workers : WorkerStep(w)
    BY <1>3, WorkerConserved
<1>4. CASE RolloutStage \/ RequestStop \/ PutStopSentinel
    BY <1>4, QueueStepConserved
<1>5. CASE TrainLoop
    BY <1>5, TrainingConserved
<1>6. CASE EvalStage \/ EvalRun \/ OrphanPersists
    BY <1>1, <1>6 DEF EvalStage, EvalRun, EvalGet, EvalNext, EvalCompletes, EvalFails,
       EvalStageEnds, EvalStageExits, OrphanPersists, NotEval, runVars, trainVars, workerVars
<1>7. CASE Resume
    BY <1>7, ResumeConserved
<1>8. CASE Finish \/ (Disruption /\ ~Resume)
    BY <1>8, BalanceNext DEF Finish, Disruption, FetchRaises, TrainRaises, Crash, Fail, EndRun
<1>9. CASE UNCHANGED vars
    BY <1>1, <1>9 DEF vars, runVars, trainVars, workerVars
<1> QED BY <1>2, <1>3, <1>4, <1>5, <1>6, <1>7, <1>8, <1>9 DEF Next, OtherTask, Disruption

\* Until a stop no group is lost or counted twice on its way from the scenario
\* iterator to the trained batch, for any number of workers and scenarios.
THEOREM GroupsConservedHolds == Spec => []GroupsConserved
<1>1. Spec => []Typed
    BY InitTyped, NextTyped, PTL DEF Spec
<1> QED BY <1>1, InitConserved, NextConserved, PTL DEF Spec

(***************************************************************************)
(* A run that is over has nothing left but orphaned evals.                 *)
(***************************************************************************)
Over ==
    /\ wpc = [w \in Workers |-> "exit"] /\ rpc = "exit" /\ stopPut = FALSE
    /\ tpc = "exit" /\ epc = "exit"
    /\ evalq = <<>> /\ enext = NoStep /\ pend = NoStep /\ scheduled = {}

OverInv == run # "running" => Over

LEMMA OverSteps ==
    ASSUME OverInv, run # "running", Next
    PROVE  Resume \/ OrphanPersists
<1>1. /\ tpc = "exit" /\ epc = "exit" /\ rpc = "exit" /\ stopPut = FALSE /\ pend = NoStep
      /\ \A w \in Workers : wpc[w] = "exit"
    BY DEF OverInv, Over
<1>2. ~Collecting /\ ~TrainLoop /\ ~TrainRaises
    BY <1>1 DEF Collecting, TakeItem, TakeSentinel, TakeStale, TakeFlat, TakeGood, Collapse,
                TakeFailed, BlockOnQueue, NothingToTrain, BeginTrainStep, TrainLoop, NoStepToTrain,
                StartTraining, BackendSaves, TrainReturns, Publish, TrainRaises
<1>3. \A w \in Workers : ~WorkerStep(w) /\ ~FetchRaises(w)
    BY <1>1 DEF WorkerStep, BeginFetch, NoScenarioLeft, TakeScenario, Recheck, RolloutReturns,
                RolloutFails, PutGroup, PutTimesOut, FetchRaises
<1>4. ~RolloutStage /\ ~PutStopSentinel /\ ~RequestStop /\ ~Finish /\ ~Crash
    BY <1>1 DEF RolloutStage, RolloutStageEnds, PutSentinel, PutStopSentinel, RequestStop, Finish,
                Crash
<1>5. ~EvalStage /\ ~EvalRun
    BY <1>1 DEF EvalStage, EvalGet, EvalNext, EvalStageEnds, EvalStageExits, EvalRun,
                EvalCompletes, EvalFails
<1> QED BY <1>2, <1>3, <1>4, <1>5 DEF Next, OtherTask, Disruption

LEMMA EndOver ==
    ASSUME NEW how \in {"finished", "down"}, EndRun(how)
    PROVE  Over'
BY DEF EndRun, Over

\* While the run goes on it is ended by EndRun only.
LEMMA RunEnds ==
    ASSUME run = "running", Next
    PROVE  \/ run' = "running"
           \/ run' = "finished" /\ Finish /\ EndRun("finished")
           \/ run' = "down" /\ EndRun("down")
<1>1. CASE Collecting
    BY <1>1 DEF Collecting, TakeSentinel, TakeStale, TakeFlat, TakeGood, Collects, Collapse,
                LeaveTraining, TakeFailed, Fail, EndRun, BlockOnQueue, NothingToTrain,
                BeginTrainStep, NotTraining, runVars
<1>2. CASE \E w \in Workers : WorkerStep(w)
    BY <1>2 DEF WorkerStep, BeginFetch, NoScenarioLeft, TakeScenario, Recheck, RolloutReturns,
                RolloutFails, PutGroup, PutTimesOut, NotWorkers, runVars
<1>3. CASE RolloutStage \/ PutStopSentinel \/ RequestStop
    BY <1>3 DEF RolloutStage, RolloutStageEnds, PutSentinel, RequestStop, PutStopSentinel,
                NotQueue, runVars
<1>4. CASE TrainLoop
    BY <1>4 DEF TrainLoop, NoStepToTrain, StartTraining, LeaveTraining, BackendSaves,
                TrainReturns, Publish, NotTraining, runVars
<1>5. CASE EvalStage \/ EvalRun \/ OrphanPersists
    BY <1>5 DEF EvalStage, EvalRun, EvalGet, EvalNext, EvalCompletes, EvalFails,
                EvalStageEnds, EvalStageExits, OrphanPersists, NotEval, runVars
<1>6. CASE Finish \/ Disruption
    BY <1>6 DEF Finish, Disruption, FetchRaises, TrainRaises, Crash, Fail, EndRun, Resume
<1> QED BY <1>1, <1>2, <1>3, <1>4, <1>5, <1>6 DEF Next, OtherTask

LEMMA NextOver == OverInv /\ [Next]_vars => OverInv'
<1> SUFFICES ASSUME OverInv, [Next]_vars PROVE OverInv'
    OBVIOUS
<1>1. CASE UNCHANGED vars
    BY <1>1 DEF vars, OverInv, Over, runVars, workerVars, trainVars, evalVars, evalMarks
<1>2. CASE Next /\ run = "running"
    BY <1>2, RunEnds, EndOver DEF OverInv
<1>3. CASE Next /\ run # "running"
  <2>1. CASE Resume
      BY <2>1 DEF Resume, OverInv
  <2>2. CASE OrphanPersists
      BY <2>2 DEF OrphanPersists, OverInv, Over, runVars, workerVars, trainVars, evalVars,
                  evalMarks
  <2> QED BY <1>3, <2>1, <2>2, OverSteps
<1> QED BY <1>1, <1>2, <1>3

LEMMA AlwaysOver == Spec => []OverInv
<1>1. Init => OverInv
    BY DEF Init, OverInv
<1> QED BY <1>1, NextOver, PTL DEF Spec

(***************************************************************************)
(* Evals on time.  Whether an eval is due is decided before train, when it *)
(* is not known whether the step advances; no eval of the next step can be *)
(* scheduled yet, so that the decision is never lost.                      *)
(***************************************************************************)
OnTime == cur > startStep => cur - lastEval < EvalEvery

DueInv ==
    /\ HasEval /\ EvalEvery > 0 =>
        /\ tpc \in {"collect", "drain", "training", "saved"} => OnTime
        /\ tpc \in {"training", "saved"} => (evalDue <=> (cur + 1) - lastEval >= EvalEvery)
        /\ tpc = "publish" => OnTime \/ (evalDue /\ cur \notin scheduled)
    /\ tpc = "saved" => \A s \in scheduled : s <= cur

LEMMA DueKept ==
    ASSUME DueInv, UNCHANGED <<tpc, cur, startStep, lastEval, evalDue>>,
           scheduled' \subseteq scheduled
    PROVE  DueInv'
<1>1. OnTime' <=> OnTime
    BY DEF OnTime
<1> QED BY <1>1 DEF DueInv

LEMMA TrainLoopDue ==
    ASSUME Typed, VersionInv, LimitInv, DueInv, TrainLoop
    PROVE  DueInv'
<1>1. /\ cur \in Nat /\ bstep \in Nat /\ startStep \in Nat /\ lastEval \in Nat
      /\ EvalEvery \in Nat /\ scheduled \subseteq Nat
    BY Constants DEF Typed, TypeOK, TrainTyped, EvalTyped, RunTyped
<1>2. startStep' = startStep
    BY DEF TrainLoop, NoStepToTrain, StartTraining, LeaveTraining, BackendSaves, TrainReturns,
           Publish, NotTraining, runVars
<1>3. CASE NoStepToTrain
    BY <1>3 DEF NoStepToTrain, LeaveTraining, DueInv
<1>4. CASE StartTraining
  <2>1. tpc' = "collect" /\ cur' = startStep
      BY <1>4 DEF StartTraining, LimitInv
  <2> QED BY <1>1, <1>2, <2>1 DEF DueInv, OnTime
<1>5. CASE BackendSaves
  <2>1. tpc = "training" /\ tpc' = "saved" /\ UNCHANGED <<cur, lastEval, evalDue, scheduled>>
      BY <1>5 DEF BackendSaves
  <2>2. bstep = cur /\ \A s \in scheduled : s <= cur
      BY <2>1 DEF LimitInv, VersionInv
  <2>3. OnTime' <=> OnTime
      BY <1>2, <2>1 DEF OnTime
  <2> QED BY <2>1, <2>2, <2>3 DEF DueInv
<1>6. CASE TrainReturns
  <2>1. /\ tpc' = "publish" /\ cur' = bstep /\ UNCHANGED <<lastEval, evalDue, scheduled>>
        /\ tpc \in {"training", "saved"}
      BY <1>6 DEF TrainReturns
  <2>2. CASE tpc = "training"
    <3>1. cur' = cur
        BY <2>1, <2>2 DEF LimitInv
    <3>2. OnTime' <=> OnTime
        BY <1>2, <2>1, <3>1 DEF OnTime
    <3> QED BY <2>1, <2>2, <3>2 DEF DueInv
  <2>3. CASE tpc = "saved"
    <3>1. cur' = cur + 1
        BY <2>1, <2>3 DEF LimitInv
    <3>2. cur + 1 \notin scheduled
        BY <1>1, <2>3 DEF DueInv
    <3>3. ASSUME HasEval, EvalEvery > 0 PROVE OnTime' \/ evalDue
      <4>1. evalDue <=> (cur + 1) - lastEval >= EvalEvery
          BY <2>3, <3>3 DEF DueInv
      <4>2. CASE (cur + 1) - lastEval >= EvalEvery
          BY <4>1, <4>2
      <4>3. CASE ~((cur + 1) - lastEval >= EvalEvery)
        <5>1. cur' - lastEval' < EvalEvery
            BY <1>1, <2>1, <3>1, <4>3
        <5> QED BY <5>1 DEF OnTime
      <4> QED BY <4>2, <4>3
    <3> QED BY <2>1, <3>1, <3>2, <3>3 DEF DueInv
  <2> QED BY <2>1, <2>2, <2>3
<1>7. CASE Publish
  <2>1. /\ tpc = "publish" /\ tpc' \in {"exit", "collect"} /\ cur' = cur
        /\ HasEval /\ evalDue /\ cur \notin scheduled => lastEval' = cur
        /\ ~(HasEval /\ evalDue /\ cur \notin scheduled) => lastEval' = lastEval
      BY <1>7 DEF Publish
  <2>2. ASSUME HasEval, EvalEvery > 0 PROVE OnTime'
    <3>1. CASE evalDue /\ cur \notin scheduled
      <4>1. cur' - lastEval' < EvalEvery
          BY <1>1, <2>1, <2>2, <3>1
      <4> QED BY <4>1 DEF OnTime
    <3>2. CASE ~(evalDue /\ cur \notin scheduled)
      <4>1. OnTime
          BY <2>1, <2>2, <3>2 DEF DueInv
      <4>2. lastEval' = lastEval
          BY <2>1, <3>2
      <4> QED BY <1>2, <2>1, <4>1, <4>2 DEF OnTime
    <3> QED BY <3>1, <3>2
  <2> QED BY <2>1, <2>2 DEF DueInv
<1> QED BY <1>3, <1>4, <1>5, <1>6, <1>7 DEF TrainLoop

LEMMA CollectingDue ==
    ASSUME Typed, DueInv, Collecting
    PROVE  DueInv'
<1>1. CASE TakeFailed \/ Collapse \/ NothingToTrain
    BY <1>1 DEF TakeFailed, Fail, EndRun, Collapse, NothingToTrain, LeaveTraining, DueInv
<1>2. CASE BeginTrainStep
  <2>1. /\ tpc = "drain" /\ tpc' = "training" /\ UNCHANGED <<cur, startStep, lastEval>>
        /\ evalDue' = ShouldEval(cur + 1)
      BY <1>2 DEF BeginTrainStep, NotTraining, runVars
  <2>2. OnTime' <=> OnTime
      BY <2>1 DEF OnTime
  <2>3. HasEval /\ EvalEvery > 0 => (evalDue' <=> (cur + 1) - lastEval >= EvalEvery)
      BY <2>1 DEF ShouldEval
  <2> QED BY <2>1, <2>2, <2>3 DEF DueInv
<1>3. CASE TakeSentinel \/ TakeStale \/ TakeFlat \/ TakeGood \/ BlockOnQueue
  <2>1. /\ tpc \in {"collect", "drain"} /\ tpc' \in {"collect", "drain"}
        /\ UNCHANGED <<cur, startStep, lastEval>>
      BY <1>3 DEF TakeSentinel, TakeStale, TakeFlat, TakeGood, TakeItem, Collects, BlockOnQueue,
                  NotTraining, runVars
  <2>2. OnTime' <=> OnTime
      BY <2>1 DEF OnTime
  <2> QED BY <2>1, <2>2 DEF DueInv
<1> QED BY <1>1, <1>2, <1>3 DEF Collecting

LEMMA NextDue == Typed /\ VersionInv /\ LimitInv /\ DueInv /\ [Next]_vars => DueInv'
<1> SUFFICES ASSUME Typed, VersionInv, LimitInv, DueInv, [Next]_vars PROVE DueInv'
    OBVIOUS
<1>1. CASE Collecting
    BY <1>1, CollectingDue
<1>2. CASE \E w \in Workers : WorkerStep(w)
  <2>1. UNCHANGED <<tpc, cur, startStep, lastEval, evalDue, scheduled>>
      BY <1>2 DEF WorkerStep, BeginFetch, NoScenarioLeft, TakeScenario, Recheck, RolloutReturns,
           RolloutFails, PutGroup, PutTimesOut, NotWorkers, runVars, trainVars, evalMarks
  <2> QED BY <2>1, DueKept
<1>3. CASE RolloutStage \/ RequestStop \/ PutStopSentinel
  <2>1. UNCHANGED <<tpc, cur, startStep, lastEval, evalDue, scheduled>>
      BY <1>3 DEF RolloutStage, RolloutStageEnds, PutSentinel, RequestStop, PutStopSentinel,
                  NotQueue, runVars, trainVars, evalMarks
  <2> QED BY <2>1, DueKept
<1>4. CASE TrainLoop
    BY <1>4, TrainLoopDue
<1>5. CASE EvalStage \/ EvalRun \/ OrphanPersists
  <2>1. UNCHANGED <<tpc, cur, startStep, lastEval, evalDue>> /\ scheduled' \subseteq scheduled
      BY <1>5 DEF EvalStage, EvalRun, EvalGet, EvalNext, EvalCompletes, EvalFails,
                  EvalStageEnds, EvalStageExits, OrphanPersists, NotEval, runVars, trainVars,
                  evalMarks
  <2> QED BY <2>1, DueKept
<1>6. CASE Finish \/ Disruption
  <2>1. tpc' \in {"exit", "start"}
      BY <1>6 DEF Finish, Disruption, FetchRaises, TrainRaises, Crash, Fail, EndRun, Resume
  <2> QED BY <2>1 DEF DueInv
<1>7. CASE UNCHANGED vars
    BY <1>7, DueKept DEF vars, runVars, trainVars, evalMarks
<1> QED BY <1>1, <1>2, <1>3, <1>4, <1>5, <1>6, <1>7 DEF Next, OtherTask

(***************************************************************************)
(* No eval is left behind.  Unless a stop is requested, done is set by the *)
(* training stage on its way out; what the eval stage finds in its queue   *)
(* once it has seen done is all it will ever find.                         *)
(***************************************************************************)
NothingQueued == evalq = <<>> /\ enext = NoStep

Quiet ==
    /\ done => tpc = "exit"
    /\ epc = "final" => done /\ NothingQueued
    /\ epc = "exit" => (HasEval => done) /\ NothingQueued /\ pend = NoStep

QuietInv ==
    /\ run = "running" /\ ~stopRequested => Quiet
    /\ ~HasEval => epc = "exit" /\ NothingQueued /\ pend = NoStep

LEMMA InitQuiet == Init => QuietInv
BY DEF Init, QuietInv, Quiet, NothingQueued

\* What keeps the eval stage's part: nothing of it changes.
LEMMA QuietKept ==
    ASSUME QuietInv, UNCHANGED <<run, epc, evalq, enext, pend>>,
           run = "running" /\ ~stopRequested' =>
               /\ ~stopRequested
               /\ done => done'
               /\ Quiet => (done' => tpc' = "exit")
    PROVE  QuietInv'
<1>1. NothingQueued' <=> NothingQueued
    BY DEF NothingQueued
<1>2. ASSUME run' = "running", ~stopRequested' PROVE Quiet'
  <2>1. Quiet /\ (done => done') /\ (done' => tpc' = "exit")
      BY <1>2 DEF QuietInv
  <2> QED BY <1>1, <2>1 DEF Quiet
<1>3. ~HasEval => epc' = "exit" /\ NothingQueued' /\ pend' = NoStep
    BY <1>1 DEF QuietInv
<1> QED BY <1>2, <1>3 DEF QuietInv

LEMMA CollectingQuiet == ASSUME QuietInv, Collecting PROVE QuietInv'
<1>1. CASE TakeFailed
    BY <1>1 DEF TakeFailed, Fail, EndRun, QuietInv, NothingQueued
<1>2. CASE Collapse \/ NothingToTrain
  <2>1. /\ UNCHANGED <<run, epc, evalq, enext, pend, stopRequested>> /\ done' /\ tpc' = "exit"
      BY <1>2 DEF Collapse, NothingToTrain, LeaveTraining, NotTraining, runVars
  <2> QED BY <2>1, QuietKept
<1>3. CASE TakeSentinel \/ TakeStale \/ TakeFlat \/ TakeGood \/ BlockOnQueue \/ BeginTrainStep
  <2>1. /\ UNCHANGED <<run, epc, evalq, enext, pend, stopRequested, done>>
        /\ tpc # "exit"
      BY <1>3 DEF TakeSentinel, TakeStale, TakeFlat, TakeGood, TakeItem, Collects, BlockOnQueue,
                  BeginTrainStep, NotTraining, runVars
  <2>2. Quiet => ~done
      BY <2>1 DEF Quiet
  <2> QED BY <2>1, <2>2, QuietKept
<1> QED BY <1>1, <1>2, <1>3 DEF Collecting

LEMMA TrainLoopQuiet == ASSUME QuietInv, TrainLoop PROVE QuietInv'
<1>1. CASE NoStepToTrain
  <2>1. /\ UNCHANGED <<run, epc, evalq, enext, pend, stopRequested>> /\ done' /\ tpc' = "exit"
      BY <1>1 DEF NoStepToTrain, LeaveTraining, NotTraining, runVars
  <2> QED BY <2>1, QuietKept
<1>2. CASE StartTraining \/ BackendSaves \/ TrainReturns
  <2>1. /\ UNCHANGED <<run, epc, evalq, enext, pend, stopRequested, done>>
        /\ tpc # "exit"
      BY <1>2 DEF StartTraining, BackendSaves, TrainReturns, NotTraining, runVars
  <2>2. Quiet => ~done
      BY <2>1 DEF Quiet
  <2> QED BY <2>1, <2>2, QuietKept
<1>3. CASE Publish
  <2>1. /\ UNCHANGED <<run, epc, enext, pend, stopRequested>> /\ tpc = "publish"
        /\ ~HasEval => evalq' = evalq
      BY <1>3 DEF Publish, NotTraining, runVars
  <2>2. Quiet => ~done
      BY <2>1 DEF Quiet
  <2>3. Quiet /\ HasEval => epc \notin {"final", "exit"}
      BY <2>2 DEF Quiet
  <2>4. done' => tpc' = "exit" \/ done
    <3>1. CASE saw \/ AtStepLimit(cur)
        BY <1>3, <3>1 DEF Publish
    <3>2. CASE ~(saw \/ AtStepLimit(cur))
      <4>1. done' = done \/ (done' <=> done)
          BY <1>3, <3>2 DEF Publish
      <4> QED BY <4>1
    <3> QED BY <3>1, <3>2
  <2>5. CASE HasEval
    <3>1. ASSUME run' = "running", ~stopRequested' PROVE Quiet'
      <4>1. Quiet
          BY <2>1, <3>1 DEF QuietInv
      <4> QED BY <2>1, <2>2, <2>3, <2>4, <2>5, <4>1 DEF Quiet
    <3> QED BY <2>5, <3>1 DEF QuietInv
  <2>6. CASE ~HasEval
    <3>1. NothingQueued' <=> NothingQueued
        BY <2>1, <2>6 DEF NothingQueued
    <3>2. epc' = "exit" /\ NothingQueued' /\ pend' = NoStep
        BY <2>1, <2>6, <3>1 DEF QuietInv
    <3>3. ASSUME run' = "running", ~stopRequested' PROVE done' => tpc' = "exit"
      <4>1. Quiet
          BY <2>1, <3>3 DEF QuietInv
      <4> QED BY <2>2, <2>4, <4>1
    <3> QED BY <2>6, <3>2, <3>3 DEF QuietInv, Quiet
  <2> QED BY <2>5, <2>6
<1> QED BY <1>1, <1>2, <1>3 DEF TrainLoop

LEMMA EvalStageQuiet ==
    ASSUME QuietInv, LeaseInv, EvalStage \/ EvalRun \/ OrphanPersists
    PROVE  QuietInv'
<1>1. UNCHANGED <<run, stopRequested, done, tpc>>
    BY DEF EvalStage, EvalRun, EvalGet, EvalNext, EvalCompletes, EvalFails, EvalStageEnds,
           EvalStageExits, OrphanPersists, NotEval, runVars, trainVars
<1>2. CASE EvalGet \/ EvalNext
  <2>1. epc \in {"idle", "await"} /\ epc' \in {"idle", "await"}
      BY <1>2 DEF EvalGet, EvalNext
  <2> QED BY <1>1, <2>1 DEF QuietInv, Quiet
<1>3. CASE EvalRun
  <2>1. UNCHANGED <<epc, evalq, enext>> /\ pend # NoStep /\ pend' = NoStep
      BY <1>3 DEF EvalRun, EvalCompletes, EvalFails
  <2>2. NothingQueued' <=> NothingQueued
      BY <2>1 DEF NothingQueued
  <2> QED BY <1>1, <2>1, <2>2 DEF QuietInv, Quiet
<1>4. CASE EvalStageEnds
  <2>1. epc = "idle" /\ epc' = "final" /\ done /\ evalq = <<>> /\ UNCHANGED <<evalq, enext, pend>>
      BY <1>4 DEF EvalStageEnds
  <2>2. enext = NoStep
      BY <2>1 DEF LeaseInv
  <2>3. NothingQueued'
      BY <2>1, <2>2 DEF NothingQueued
  <2> QED BY <1>1, <2>1, <2>3 DEF QuietInv, Quiet
<1>5. CASE EvalStageExits
  <2>1. epc = "final" /\ epc' = "exit" /\ pend = NoStep /\ UNCHANGED <<evalq, enext, pend>>
      BY <1>5 DEF EvalStageExits
  <2>2. NothingQueued' <=> NothingQueued
      BY <2>1 DEF NothingQueued
  <2> QED BY <1>1, <2>1, <2>2 DEF QuietInv, Quiet
<1>6. CASE OrphanPersists
  <2>1. UNCHANGED <<epc, evalq, enext, pend>>
      BY <1>6 DEF OrphanPersists, evalVars
  <2> QED BY <1>1, <2>1, QuietKept DEF Quiet
<1> QED BY <1>2, <1>3, <1>4, <1>5, <1>6 DEF EvalStage

LEMMA NextQuiet == QuietInv /\ LeaseInv /\ [Next]_vars => QuietInv'
<1> SUFFICES ASSUME QuietInv, LeaseInv, [Next]_vars PROVE QuietInv'
    OBVIOUS
<1> DEFINE Kept == UNCHANGED <<run, epc, evalq, enext, pend, stopRequested, done, tpc>>
<1>1. Kept => QuietInv'
    BY QuietKept DEF Quiet
<1>2. CASE Collecting
    BY <1>2, CollectingQuiet
<1>3. CASE \E w \in Workers : WorkerStep(w)
    BY <1>1, <1>3 DEF WorkerStep, BeginFetch, NoScenarioLeft, TakeScenario, Recheck,
       RolloutReturns, RolloutFails, PutGroup, PutTimesOut, NotWorkers, runVars, trainVars, evalVars
<1>4. CASE RolloutStage \/ PutStopSentinel
    BY <1>1, <1>4 DEF RolloutStage, RolloutStageEnds, PutSentinel, PutStopSentinel, NotQueue,
                      runVars, trainVars, evalVars
<1>5. CASE RequestStop
  <2>1. UNCHANGED <<run, epc, evalq, enext, pend>> /\ stopRequested'
      BY <1>5 DEF RequestStop, NotQueue, runVars, evalVars
  <2> QED BY <2>1, QuietKept
<1>6. CASE TrainLoop
    BY <1>6, TrainLoopQuiet
<1>7. CASE EvalStage \/ EvalRun \/ OrphanPersists
    BY <1>7, EvalStageQuiet
<1>8. CASE Finish \/ (Disruption /\ ~Resume)
  <2>1. PICK how \in {"finished", "down"} : EndRun(how)
      BY <1>8 DEF Finish, Disruption, FetchRaises, TrainRaises, Crash, Fail
  <2> QED BY <2>1 DEF EndRun, QuietInv, NothingQueued
<1>9. CASE Resume
  <2>1. /\ ~done' /\ enext' = NoStep /\ pend' = NoStep
        /\ HasEval => epc' = "idle"
        /\ ~HasEval => epc' = "exit" /\ evalq' = <<>>
      BY <1>9 DEF Resume
  <2> QED BY <2>1 DEF QuietInv, Quiet, NothingQueued
<1>10. CASE UNCHANGED vars
    BY <1>1, <1>10 DEF vars, runVars, trainVars, evalVars
<1> QED BY <1>2, <1>3, <1>4, <1>5, <1>6, <1>7, <1>8, <1>9, <1>10 DEF Next, OtherTask, Disruption

\* An eval is never overdue between two steps, and a run that ends normally
\* without a stop has run every eval it scheduled.
THEOREM NoEvalLeftBehindHolds == Spec => NoEvalLeftBehind
<1>1. Spec => []Typed
    BY InitTyped, NextTyped, PTL DEF Spec
<1>2. Spec => []LimitInv
    BY <1>1, InitLimit, NextLimit, PTL DEF Spec
<1>3. Spec => []LeaseInv
    BY <1>1, InitLease, NextLease, PTL DEF Spec
<1>4. Init => DueInv
    BY DEF Init, DueInv
<1>5. Spec => []DueInv
    BY <1>1, <1>2, <1>4, Versions, NextDue, PTL DEF Spec
<1>6. DueInv => EvalOnTime
    BY DEF DueInv, OnTime, EvalOnTime
<1>7. Spec => []QuietInv
    BY <1>3, InitQuiet, NextQuiet, PTL DEF Spec
<1>8. ASSUME QuietInv, LeaseInv, OverInv, [Next]_vars
      PROVE  [run' = "finished" /\ ~stopRequested => scheduled = {}]_vars
  <2> SUFFICES ASSUME Next, run' = "finished", ~stopRequested PROVE scheduled = {}
      BY <1>8
  <2>1. CASE run # "running"
      BY <1>8, <2>1 DEF OverInv, Over
  <2>2. CASE run = "running"
    <3>1. Finish
        BY <2>2, RunEnds
    <3>2. evalq = <<>> /\ enext = NoStep /\ pend = NoStep
      <4>1. epc = "exit"
          BY <3>1 DEF Finish
      <4> QED BY <1>8, <2>2, <4>1 DEF QuietInv, Quiet, NothingQueued
    <3>3. EvalsUnderWay = {}
        BY <3>2 DEF EvalsUnderWay
    <3> QED BY <1>8, <3>3 DEF LeaseInv, EvalLeasesAccounted
  <2> QED BY <2>1, <2>2
<1> QED BY <1>3, <1>5, <1>6, <1>7, <1>8, AlwaysOver, PTL DEF Spec, NoEvalLeftBehind

(***************************************************************************)
(* What is persisted.  The eval an ended run left behind persists what     *)
(* that run had, which nobody overtakes as long as a new run starts in a   *)
(* new process.                                                            *)
(***************************************************************************)
SavedInv ==
    /\ saved.offset <= offset /\ offset <= NumScenarios
    /\ run = "running" => orphans = {} /\ saved.completed \subseteq completed
    /\ \A o \in orphans : o.offset = offset /\ saved.completed \subseteq o.completed
    /\ \A o, p \in orphans : o = p

Monotone ==
    /\ saved.offset <= saved'.offset /\ saved'.offset <= offset'
    /\ saved.completed \subseteq saved'.completed

LEMMA SnapshotFields ==
    ASSUME NEW step, NEW last, NEW compl
    PROVE  /\ Snapshot(step, last, compl).offset = offset
           /\ Snapshot(step, last, compl).completed = compl
BY DEF Snapshot

\* The run under way persists what it has: its offset, and its completed evals
\* or one more.
LEMMA PersistSaved ==
    ASSUME Typed, SavedInv, run = "running", run' = "running", offset' = offset,
           orphans' = orphans, completed \subseteq completed',
           saved' = saved \/ (saved'.offset = offset /\ saved'.completed = completed')
    PROVE  SavedInv' /\ Monotone
<1>1. saved.offset \in Nat /\ offset \in Nat
    BY DEF Typed, TypeOK, RunTyped, Saved
<1>2. saved.offset <= offset /\ offset <= NumScenarios /\ orphans = {}
      /\ saved.completed \subseteq completed
    BY DEF SavedInv
<1>3. CASE saved' = saved
    BY <1>1, <1>2, <1>3 DEF SavedInv, Monotone
<1>4. CASE saved'.offset = offset /\ saved'.completed = completed'
    BY <1>1, <1>2, <1>4 DEF SavedInv, Monotone
<1> QED BY <1>3, <1>4

LEMMA EndSaved ==
    ASSUME Typed, SavedInv, NEW how \in {"finished", "down"}, EndRun(how),
           run = "running",
           orphans' = {}
               \/ \E compl : completed \subseteq compl
                                /\ orphans' = {Snapshot(nts, lastEval, compl)}
    PROVE  SavedInv' /\ Monotone
<1>1. saved' = saved /\ offset' = offset /\ run' # "running"
    BY DEF EndRun
<1>2. saved.offset \in Nat
    BY DEF Typed, TypeOK, RunTyped, Saved
<1>3. \A o \in orphans' : o.offset = offset /\ saved.completed \subseteq o.completed
  <2>1. ASSUME NEW compl, completed \subseteq compl, orphans' = {Snapshot(nts, lastEval, compl)}
        PROVE  \A o \in orphans' : o.offset = offset /\ saved.completed \subseteq o.completed
      BY <2>1, SnapshotFields DEF SavedInv
  <2> QED BY <2>1
<1>4. \A o, p \in orphans' : o = p
    OBVIOUS
<1> QED BY <1>1, <1>2, <1>3, <1>4 DEF SavedInv, Monotone

LEMMA FailSaved ==
    ASSUME Typed, SavedInv, run = "running", Fail
    PROVE  SavedInv' /\ Monotone
<1>1. orphans = {}
    BY DEF SavedInv
<1>2. CASE epc = "idle" /\ pend # NoStep
  <2>1. orphans' = {Snapshot(nts, lastEval, completed \cup {pend})}
      BY <1>1, <1>2 DEF Fail
  <2> QED BY <2>1, EndSaved DEF Fail
<1>3. CASE ~(epc = "idle" /\ pend # NoStep)
  <2>1. orphans' = {}
      BY <1>1, <1>3 DEF Fail
  <2> QED BY <2>1, EndSaved DEF Fail
<1> QED BY <1>2, <1>3

LEMMA ResumeSaved ==
    ASSUME Typed, SavedInv, ~RetryInProcess, Resume
    PROVE  SavedInv' /\ Monotone
<1>1. saved.offset \in Nat /\ offset \in Nat /\ NumScenarios \in Nat
    BY Constants DEF Typed, TypeOK, RunTyped, Saved
<1>2. ResumeOffset = saved.offset /\ saved.offset <= NumScenarios
    BY <1>1 DEF ResumeOffset, SavedInv
<1>3. /\ run' = "running" /\ offset' = saved.offset /\ orphans' = {}
      /\ completed' = saved.completed
    BY <1>2 DEF Resume
<1>4. saved'.offset = saved.offset /\ saved'.completed = saved.completed
  <2>1. CASE HasEval /\ EvalAtStart
    <3>1. saved' = [offset |-> ResumeOffset, step |-> bstep, lastEval |-> bstep,
                    completed |-> saved.completed]
        BY <2>1 DEF Resume
    <3> QED BY <1>2, <3>1
  <2>2. CASE ~(HasEval /\ EvalAtStart)
      BY <2>2 DEF Resume
  <2> QED BY <2>1, <2>2
<1> QED BY <1>1, <1>2, <1>3, <1>4 DEF SavedInv, Monotone

LEMMA OrphanSaved ==
    ASSUME Typed, SavedInv, OrphanPersists
    PROVE  SavedInv' /\ Monotone
<1>1. PICK o \in orphans : saved' = o /\ orphans' = orphans \ {o}
    BY DEF OrphanPersists
<1>2. run # "running" /\ orphans' = {} /\ o.offset = offset
      /\ saved.completed \subseteq o.completed
    BY <1>1 DEF SavedInv
<1>3. run' = run /\ offset' = offset
    BY DEF OrphanPersists, runVars
<1>4. offset \in Nat /\ saved.offset <= offset /\ offset <= NumScenarios
    BY DEF Typed, TypeOK, RunTyped, SavedInv
<1> QED BY <1>1, <1>2, <1>3, <1>4 DEF SavedInv, Monotone

LEMMA CollectingSaved ==
    ASSUME Typed, SavedInv, run = "running", Collecting
    PROVE  SavedInv' /\ Monotone
<1>1. CASE TakeFailed
    BY <1>1, FailSaved DEF TakeFailed
<1>2. CASE ~TakeFailed
  <2>1. UNCHANGED <<run, offset, orphans, completed>>
      BY <1>2 DEF Collecting, TakeItem, Collects, TakeSentinel, TakeStale, TakeFlat, TakeGood,
                  Collapse, LeaveTraining, BlockOnQueue, NothingToTrain, BeginTrainStep,
                  NotTraining, runVars
  <2>2. saved' = saved \/ saved' = Snapshot(cur, lastEval, completed)
      BY <1>2 DEF Collecting, Collects, TakeSentinel, TakeStale, TakeFlat, TakeGood,
                  Collapse, LeaveTraining, BlockOnQueue, NothingToTrain, BeginTrainStep
  <2>3. saved' = saved \/ (saved'.offset = offset /\ saved'.completed = completed')
      BY <2>1, <2>2, SnapshotFields
  <2> QED BY <2>1, <2>3, PersistSaved
<1> QED BY <1>1, <1>2

LEMMA TrainLoopSaved ==
    ASSUME Typed, SavedInv, run = "running", TrainLoop
    PROVE  SavedInv' /\ Monotone
<1>1. UNCHANGED <<run, offset, orphans, completed>>
    BY DEF TrainLoop, NoStepToTrain, StartTraining, LeaveTraining, BackendSaves, TrainReturns,
           Publish, NotTraining, runVars
<1>2. saved' = saved \/ \E last : saved' = Snapshot(cur, last, completed)
    BY DEF TrainLoop, NoStepToTrain, StartTraining, LeaveTraining, BackendSaves, TrainReturns,
           Publish
<1>3. saved' = saved \/ (saved'.offset = offset /\ saved'.completed = completed')
    BY <1>1, <1>2, SnapshotFields
<1> QED BY <1>1, <1>3, PersistSaved

LEMMA EvalSaved ==
    ASSUME Typed, SavedInv, run = "running", EvalStage \/ EvalRun
    PROVE  SavedInv' /\ Monotone
<1>1. UNCHANGED <<run, offset, orphans>>
    BY DEF EvalStage, EvalRun, EvalGet, EvalNext, EvalCompletes, EvalFails, EvalStageEnds,
           EvalStageExits, NotEval, runVars
<1>2. \/ UNCHANGED <<saved, completed>>
      \/ /\ completed' = completed \cup {pend}
         /\ saved' = Snapshot(nts, lastEval, completed \cup {pend})
    BY DEF EvalStage, EvalRun, EvalGet, EvalNext, EvalCompletes, EvalFails, EvalStageEnds,
           EvalStageExits, NotEval, runVars
<1>3. saved' = saved \/ (saved'.offset = offset /\ saved'.completed = completed')
    BY <1>2, SnapshotFields
<1> QED BY <1>1, <1>2, <1>3, PersistSaved

LEMMA WorkerSaved ==
    ASSUME Typed, SavedInv, run = "running", NEW w \in Workers, WorkerStep(w)
    PROVE  SavedInv' /\ Monotone
<1>1. UNCHANGED NotWorkers
    BY DEF WorkerStep, BeginFetch, NoScenarioLeft, TakeScenario, Recheck, RolloutReturns,
           RolloutFails, PutGroup, PutTimesOut
<1>2. UNCHANGED <<run, orphans, completed, saved>>
    BY <1>1 DEF NotWorkers, runVars, evalMarks
<1>3. offset' = offset \/ (offset < NumScenarios /\ offset' = offset + 1)
    BY DEF WorkerStep, BeginFetch, NoScenarioLeft, TakeScenario, Recheck, RolloutReturns,
           RolloutFails, PutGroup, PutTimesOut
<1>4. offset \in Nat /\ saved.offset \in Nat /\ NumScenarios \in Nat
    BY Constants DEF Typed, TypeOK, RunTyped, Saved
<1>5. saved.offset <= offset' /\ offset' <= NumScenarios
    BY <1>3, <1>4 DEF SavedInv
<1> QED BY <1>2, <1>4, <1>5 DEF SavedInv, Monotone

LEMMA NextSaved ==
    ASSUME Typed, SavedInv, OverInv, ~RetryInProcess, Next
    PROVE  SavedInv' /\ Monotone
<1>1. CASE run # "running"
    BY <1>1, OverSteps, ResumeSaved, OrphanSaved
<1>2. CASE run = "running"
  <2>1. CASE Collecting
      BY <1>2, <2>1, CollectingSaved
  <2>2. CASE \E w \in Workers : WorkerStep(w)
      BY <1>2, <2>2, WorkerSaved
  <2>3. CASE RolloutStage \/ RequestStop \/ PutStopSentinel
    <3>1. UNCHANGED <<run, offset, orphans, completed, saved>>
        BY <2>3 DEF RolloutStage, RolloutStageEnds, PutSentinel, RequestStop, PutStopSentinel,
                    NotQueue, runVars, evalMarks
    <3> QED BY <1>2, <3>1, PersistSaved
  <2>4. CASE TrainLoop
      BY <1>2, <2>4, TrainLoopSaved
  <2>5. CASE EvalStage \/ EvalRun
      BY <1>2, <2>5, EvalSaved
  <2>6. CASE OrphanPersists
      BY <2>6, OrphanSaved
  <2>7. CASE Finish \/ Crash
    <3>1. orphans = {}
        BY <1>2 DEF SavedInv
    <3> QED BY <1>2, <2>7, <3>1, EndSaved DEF Finish, Crash
  <2>8. CASE (\E w \in Workers : FetchRaises(w)) \/ TrainRaises
      BY <1>2, <2>8, FailSaved DEF FetchRaises, TrainRaises
  <2>9. CASE Resume
      BY <2>9, ResumeSaved
  <2> QED BY <2>1, <2>2, <2>3, <2>4, <2>5, <2>6, <2>7, <2>8, <2>9
          DEF Next, OtherTask, Disruption
<1> QED BY <1>1, <1>2

\* As long as a failed train() is retried in a new process, state.json never
\* goes back over crashes, failures and resumed runs, neither its scenario
\* offset nor the set of completed evals, and no run starts behind it.
THEOREM SavedMonotoneHolds == ~RetryInProcess => (Spec => SavedMonotone)
<1> SUFFICES ASSUME ~RetryInProcess PROVE Spec => SavedMonotone
    OBVIOUS
<1>1. Spec => []Typed
    BY InitTyped, NextTyped, PTL DEF Spec
<1>2. Init => SavedInv
    BY Constants DEF Init, SavedInv, NothingSaved
<1>3. ASSUME Typed, SavedInv, OverInv, [Next]_vars
      PROVE  SavedInv' /\ [Monotone]_vars
  <2>1. CASE Next
      BY <1>3, <2>1, NextSaved
  <2>2. CASE UNCHANGED vars
      BY <1>3, <2>2 DEF vars, SavedInv, runVars, evalMarks
  <2> QED BY <1>3, <2>1, <2>2
<1>4. Spec => []SavedInv
    BY <1>1, <1>2, <1>3, AlwaysOver, PTL DEF Spec
<1>5. [Monotone]_vars <=>
          [/\ saved.offset <= saved'.offset /\ saved'.offset <= offset'
           /\ saved.completed \subseteq saved'.completed]_vars
    BY DEF Monotone
<1> QED BY <1>1, <1>3, <1>4, <1>5, AlwaysOver, PTL DEF Spec, SavedMonotone

=============================================================================
