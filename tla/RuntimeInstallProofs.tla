------------------------- MODULE RuntimeInstallProofs -------------------------
(***************************************************************************)
(* Proofs about RuntimeInstall, for every set of processes and versions:   *)
(* what is returned validates, and is whole unless a deletion of it was    *)
(* cut short, although anybody may die anywhere; what was left half done   *)
(* stays as it is and comes from mishaps only; and nobody touches a        *)
(* runtime in use whose other versions keep old runtimes.                  *)
(***************************************************************************)
EXTENDS RuntimeInstall, TLAPS

(***************************************************************************)
(* The lock, and where the process that holds it stands.                   *)
(***************************************************************************)

\* What a process in the critical section deletes: another version's directory
\* when it cleans up, its own when its install failed.
Targets ==
    \A p \in Procs :
        /\ pc[p] \notin {"deleting", "undoing"} => target[p] = NoVersion
        /\ pc[p] = "deleting" => target[p] \in Versions \ {VersionOf[p]}
        /\ pc[p] = "undoing" => target[p] = VersionOf[p]

\* What it has of its own runtime.
Progress ==
    \A p \in Procs :
        /\ pc[p] \in {"promoted", "installed"} => {"dir", "config"} \subseteq cache[VersionOf[p]]
        /\ pc[p] = "installed" => {"packages", "server"} \subseteq cache[VersionOf[p]]
        /\ pc[p] \in {"cleaning", "deleting"} => Validated(VersionOf[p])

Steady == TypeOK /\ Targets /\ Progress

LEMMA InitSteady == Init => Steady
BY InstallAssumption, NoProcAssumption DEF InstallAssumption, Init, Steady, TypeOK, Targets, Progress, InLock

\* The processes that do not hold the lock are outside the critical section, and
\* a step moves one process only.
LEMMA OthersOutside ==
    ASSUME TypeOK, NEW p \in Procs, pc[p] \in InLock, NEW q \in Procs, q # p
    PROVE  pc[q] \notin InLock
BY DEF TypeOK

LEMMA StepSteady ==
    ASSUME Steady, NEW p \in Procs, Enter(p) \/ Install(p) \/ Cleanup(p) \/ Again(p) \/ Dies(p)
    PROVE  Steady'
<1> USE DEF Steady
<1>1. /\ VersionOf[p] \in Versions /\ VersionOf \in [Procs -> Versions]
      /\ NoProc \notin Procs
    BY InstallAssumption, NoProcAssumption DEF InstallAssumption
<1>2. /\ cache \in [Versions -> SUBSET Parts] /\ target \in [Procs -> Versions \cup {NoVersion}]
      /\ pc \in [Procs -> InLock \cup {"out", "using", "failed"}]
      /\ stages \subseteq Procs /\ fresh \in [Procs -> BOOLEAN]
    BY DEF TypeOK
\* Every step, of a process that holds the lock or takes it, moves that process
\* only and changes at most one directory.
<1>3. CASE Enter(p)
  <2>1. TypeOK' BY <1>1, <1>2, <1>3 DEF TypeOK, Enter, InLock
  <2>2. Targets' BY <1>2, <1>3 DEF Targets, Enter
  <2>3. Progress' BY <1>2, <1>3 DEF Progress, Enter, Validated, Managed
  <2> QED BY <2>1, <2>2, <2>3
<1>4. CASE SyncFails(p)
  <2>1. TypeOK' BY <1>1, <1>2, <1>4 DEF TypeOK, SyncFails, Leave, Cut, InLock
  <2>2. Targets' BY <1>2, <1>4 DEF Targets, SyncFails, Leave
  <2>3. Progress' BY <1>2, <1>4 DEF Progress, SyncFails, Leave, Validated, Managed
  <2> QED BY <2>1, <2>2, <2>3
<1>5. CASE Promote(p)
  <2>1. TypeOK' BY <1>1, <1>2, <1>5 DEF TypeOK, Promote, Goto, InLock, Parts
  <2>2. Targets' BY <1>2, <1>5 DEF Targets, Promote, Goto
  <2>3. Progress' BY <1>1, <1>2, <1>5, OthersOutside DEF Progress, Promote, Goto, Validated, Managed, InLock
  <2> QED BY <2>1, <2>2, <2>3
<1>6. CASE InstallServer(p)
  <2>1. TypeOK' BY <1>1, <1>2, <1>6 DEF TypeOK, InstallServer, Goto, InLock, Parts
  <2>2. Targets' BY <1>2, <1>6 DEF Targets, InstallServer, Goto
  <2>3. Progress'
      BY <1>1, <1>2, <1>6, OthersOutside DEF Progress, InstallServer, Goto, Validated, Managed, InLock
  <2> QED BY <2>1, <2>2, <2>3
<1>7. CASE WriteMarker(p)
  <2>1. TypeOK' BY <1>1, <1>2, <1>7 DEF TypeOK, WriteMarker, Goto, InLock, Parts
  <2>2. Targets' BY <1>2, <1>7 DEF Targets, WriteMarker, Goto
  <2>3. Progress'
      BY <1>1, <1>2, <1>7, OthersOutside DEF Progress, WriteMarker, Goto, Validated, Managed, InLock, Parts
  <2> QED BY <2>1, <2>2, <2>3
<1>8. CASE InstallFails(p)
  <2>1. TypeOK' BY <1>1, <1>2, <1>8 DEF TypeOK, InstallFails, Goto, InLock
  <2>2. Targets' BY <1>2, <1>8 DEF Targets, InstallFails, Goto
  <2>3. Progress' BY <1>2, <1>8 DEF Progress, InstallFails, Goto, Validated, Managed
  <2> QED BY <2>1, <2>2, <2>3
<1>9. CASE CleanNext(p)
  <2>1. PICK v \in Versions \ {VersionOf[p]} : target' = [target EXCEPT ![p] = v]
      BY <1>9 DEF CleanNext, Old
  <2>2. TypeOK' BY <1>1, <1>2, <1>9, <2>1 DEF TypeOK, CleanNext, Goto, InLock
  <2>3. Targets' BY <1>2, <1>9, <2>1 DEF Targets, CleanNext, Goto
  <2>4. Progress' BY <1>2, <1>9 DEF Progress, CleanNext, Goto, Validated, Managed
  <2> QED BY <2>2, <2>3, <2>4
<1>10. CASE Delete(p)
  <2>1. PICK part \in cache[target[p]] : cache' = [cache EXCEPT ![target[p]] = @ \ {part}]
      BY <1>10 DEF Delete
  <2>2. TypeOK' BY <1>1, <1>2, <1>10, <2>1 DEF TypeOK, Delete, InLock
  <2>3. Targets' BY <1>10 DEF Targets, Delete
  <2>4. ASSUME NEW q \in Procs, pc[q] \in {"promoted", "installed", "cleaning", "deleting"}
        PROVE  q = p /\ target[p] # VersionOf[p]
      BY <1>10, <2>4, OthersOutside DEF Delete, InLock, Targets
  <2>5. Progress' BY <1>1, <1>2, <1>10, <2>1, <2>4 DEF Progress, Delete, Validated, Managed
  <2> QED BY <2>2, <2>3, <2>5
<1>11. CASE Deleted(p)
  <2>1. TypeOK' BY <1>1, <1>2, <1>11 DEF TypeOK, Deleted, Goto, InLock
  <2>2. Targets' BY <1>2, <1>11 DEF Targets, Deleted, Goto
  <2>3. Progress' BY <1>2, <1>11 DEF Progress, Deleted, Goto, Validated, Managed
  <2> QED BY <2>1, <2>2, <2>3
<1>12. CASE DeleteFails(p)
  <2>1. TypeOK' BY <1>1, <1>2, <1>12 DEF TypeOK, DeleteFails, Goto, Leave, Cut, InLock
  <2>2. Targets' BY <1>2, <1>12 DEF Targets, DeleteFails, Goto, Leave
  <2>3. Progress' BY <1>2, <1>12 DEF Progress, DeleteFails, Goto, Leave, Validated, Managed
  <2> QED BY <2>1, <2>2, <2>3
<1>13. CASE Undone(p)
  <2>1. TypeOK' BY <1>1, <1>2, <1>13 DEF TypeOK, Undone, Leave, Cut, InLock
  <2>2. Targets' BY <1>2, <1>13 DEF Targets, Undone, Leave
  <2>3. Progress' BY <1>2, <1>13 DEF Progress, Undone, Leave, Validated, Managed
  <2> QED BY <2>1, <2>2, <2>3
<1>14. CASE Return(p)
  <2>1. TypeOK' BY <1>1, <1>2, <1>14 DEF TypeOK, Return, Leave, Cut, InLock
  <2>2. Targets' BY <1>2, <1>14 DEF Targets, Return, Leave
  <2>3. Progress' BY <1>2, <1>14 DEF Progress, Return, Leave, Validated, Managed
  <2> QED BY <2>1, <2>2, <2>3
<1>15. CASE Again(p)
  <2>1. TypeOK' BY <1>1, <1>2, <1>15 DEF TypeOK, Again, InLock
  <2>2. Targets' BY <1>2, <1>15 DEF Targets, Again
  <2>3. Progress' BY <1>2, <1>15 DEF Progress, Again, Validated, Managed
  <2> QED BY <2>1, <2>2, <2>3
<1>16. CASE Dies(p)
  <2>1. TypeOK' BY <1>1, <1>2, <1>16 DEF TypeOK, Dies, Leave, Cut, InLock
  <2>2. Targets' BY <1>2, <1>16 DEF Targets, Dies, Leave
  <2>3. Progress' BY <1>2, <1>16 DEF Progress, Dies, Leave, Validated, Managed
  <2> QED BY <2>1, <2>2, <2>3
<1> QED BY <1>3, <1>4, <1>5, <1>6, <1>7, <1>8, <1>9, <1>10, <1>11, <1>12, <1>13, <1>14, <1>15,
           <1>16 DEF Install, Cleanup

LEMMA NextSteady == Steady /\ [Next]_vars => Steady'
<1> SUFFICES ASSUME Steady, [Next]_vars PROVE Steady'
    OBVIOUS
<1>1. CASE UNCHANGED vars
    BY <1>1 DEF Steady, TypeOK, Targets, Progress, Validated, Managed, vars
<1> QED BY <1>1, StepSteady DEF Next

\* Every variable keeps its type and the critical section is exclusive.
THEOREM TypeCorrect == Spec => []TypeOK
<1>1. Spec => []Steady
    BY InitSteady, NextSteady, PTL DEF Spec
<1> QED BY <1>1, PTL DEF Steady

(***************************************************************************)
(* What the validator does not see.                                        *)
(***************************************************************************)

\* A directory that validates although it is not whole is being deleted, or was
\* left so by a deletion that was cut short.
LossesKnown ==
    \A v \in Versions :
        Validated(v) /\ ~Whole(v) => v \in cutShort \/ \E p \in Procs : target[p] = v

\* When the lock is let go, or the deletion gives way to that of the process's own
\* runtime, an incomplete directory is noted.
LEMMA CutNoted ==
    ASSUME Steady, LossesKnown, NEW p \in Procs, pc[p] \in InLock, UNCHANGED cache,
           cutShort' = cutShort \cup Cut(p)
    PROVE  \A v \in Versions : Validated(v)' /\ ~Whole(v)' => v \in cutShort'
<1> SUFFICES ASSUME NEW v \in Versions, Validated(v), ~Whole(v) PROVE v \in cutShort'
    BY DEF Validated, Managed, Whole
<1>1. CASE v \in cutShort BY <1>1
<1>2. CASE v \notin cutShort
  <2>1. PICK q \in Procs : target[q] = v
      BY <1>2 DEF LossesKnown
  <2>2. q = p
      BY <2>1, OthersOutside, NoProcAssumption DEF Steady, Targets, NoProcAssumption, InLock
  <2> QED BY <2>1, <2>2 DEF Cut, Validated, Managed, Whole
<1> QED BY <1>1, <1>2

LEMMA StepLosses ==
    ASSUME Steady, LossesKnown, NEW p \in Procs,
           Enter(p) \/ Install(p) \/ Cleanup(p) \/ Again(p) \/ Dies(p)
    PROVE  LossesKnown'
<1>1. /\ VersionOf[p] \in Versions
      /\ cache \in [Versions -> SUBSET Parts] /\ target \in [Procs -> Versions \cup {NoVersion}]
    BY InstallAssumption DEF InstallAssumption, Steady, TypeOK
<1>2. ASSUME UNCHANGED <<cache, cutShort>>, \A q \in Procs : target[q] \in Versions => target'[q] = target[q]
      PROVE  LossesKnown'
    BY <1>2 DEF LossesKnown, Validated, Managed, Whole
<1>3. CASE SyncFails(p) \/ DeleteFails(p) \/ Undone(p) \/ Return(p) \/ Dies(p)
  <2>1. /\ pc[p] \in InLock /\ UNCHANGED cache /\ cutShort' = cutShort \cup Cut(p)
      BY <1>3 DEF SyncFails, DeleteFails, Undone, Return, Dies, Leave, InLock
  <2> QED BY <2>1, CutNoted DEF LossesKnown
<1>4. CASE Enter(p) \/ Again(p)
    BY <1>2, <1>4 DEF Enter, Again
<1>5. CASE InstallFails(p) \/ CleanNext(p)
  <2>1. UNCHANGED <<cache, cutShort>> /\ target[p] = NoVersion
      BY <1>5 DEF InstallFails, CleanNext, Goto, Steady, Targets
  <2>2. \A q \in Procs \ {p} : target'[q] = target[q]
      BY <1>1, <1>5 DEF InstallFails, CleanNext
  <2> QED BY <1>2, <2>1, <2>2, NoProcAssumption DEF NoProcAssumption
<1>6. CASE Promote(p)
  <2>1. /\ cutShort' = cutShort \ {VersionOf[p]} /\ target' = target
        /\ cache' = [cache EXCEPT ![VersionOf[p]] = {"dir", "config"}]
      BY <1>6 DEF Promote
  <2>2. ~Validated(VersionOf[p])'
      BY <1>1, <2>1 DEF Validated, Managed
  <2> QED BY <1>1, <2>1, <2>2 DEF LossesKnown, Validated, Managed, Whole
<1>7. CASE InstallServer(p)
  <2>1. /\ cutShort' = cutShort /\ target' = target /\ {"dir", "config"} \subseteq cache[VersionOf[p]]
        /\ cache' = [cache EXCEPT ![VersionOf[p]] = @ \cup {"packages", "server"}]
      BY <1>7 DEF InstallServer, Steady, Progress
  <2>2. Validated(VersionOf[p])' => Whole(VersionOf[p])'
      BY <1>1, <2>1 DEF Validated, Managed, Whole, Parts
  <2> QED BY <1>1, <2>1, <2>2 DEF LossesKnown, Validated, Managed, Whole
<1>8. CASE WriteMarker(p)
  <2>1. /\ cutShort' = cutShort /\ target' = target
        /\ {"dir", "config", "packages", "server"} \subseteq cache[VersionOf[p]]
        /\ cache' = [cache EXCEPT ![VersionOf[p]] = @ \cup {"marker"}]
      BY <1>8 DEF WriteMarker, Steady, Progress
  <2>2. Whole(VersionOf[p])'
      BY <1>1, <2>1 DEF Whole, Parts
  <2> QED BY <1>1, <2>1, <2>2 DEF LossesKnown, Validated, Managed, Whole
<1>9. CASE Delete(p)
  <2>1. UNCHANGED <<target, cutShort>> /\ \A v \in Versions : v # target[p] => cache'[v] = cache[v]
      BY <1>1, <1>9 DEF Delete
  <2> QED BY <2>1 DEF LossesKnown, Validated, Managed, Whole
<1>10. CASE Deleted(p)
  <2>1. /\ UNCHANGED <<cache, cutShort>> /\ cache[target[p]] = {}
        /\ \A q \in Procs \ {p} : target'[q] = target[q]
      BY <1>1, <1>10 DEF Deleted, Goto
  <2> QED BY <2>1 DEF LossesKnown, Validated, Managed, Whole
<1> QED BY <1>3, <1>4, <1>5, <1>6, <1>7, <1>8, <1>9, <1>10 DEF Install, Cleanup

LEMMA LossesInvariant == Spec => [](Steady /\ LossesKnown)
<1>1. Init => Steady /\ LossesKnown
    BY InitSteady DEF Init, LossesKnown, Validated, Managed
<1>2. Steady /\ LossesKnown /\ [Next]_vars => (Steady /\ LossesKnown)'
  <2> SUFFICES ASSUME Steady, LossesKnown, [Next]_vars PROVE LossesKnown'
      BY NextSteady
  <2>1. CASE UNCHANGED vars
      BY <2>1 DEF LossesKnown, Validated, Managed, Whole, vars
  <2> QED BY <2>1, StepLosses DEF Next
<1> QED BY <1>1, <1>2, PTL DEF Spec

\* ensure_vllm_runtime is left through Return alone, where the runtime validates
\* and the process deletes nothing: if the runtime is not whole, it is an earlier
\* deletion, cut short, that took the rest.
THEOREM ReturnsWholeHolds == Spec => ReturnsWhole
<1> DEFINE Returned == \A p \in Procs : pc[p] # "using" /\ pc'[p] = "using" =>
                          /\ Validated(VersionOf[p])'
                          /\ Whole(VersionOf[p])' \/ VersionOf[p] \in cutShort'
<1>1. ASSUME Steady, LossesKnown, [Next]_vars PROVE Returned
  <2> SUFFICES ASSUME NEW p \in Procs, pc[p] # "using", pc'[p] = "using"
               PROVE  /\ Validated(VersionOf[p])'
                      /\ Whole(VersionOf[p])' \/ VersionOf[p] \in cutShort'
      OBVIOUS
  <2>1. pc \in [Procs -> InLock \cup {"out", "using", "failed"}] /\ VersionOf[p] \in Versions
      BY <1>1, InstallAssumption DEF InstallAssumption, Steady, TypeOK
  <2>2. PICK q \in Procs : Enter(q) \/ Install(q) \/ Cleanup(q) \/ Again(q) \/ Dies(q)
      BY <1>1 DEF Next, vars
  <2>3. Return(q) /\ q = p
      BY <2>1, <2>2 DEF Enter, Install, Cleanup, Again, Dies, SyncFails, Promote, InstallServer,
            WriteMarker, InstallFails, CleanNext, Delete, Deleted, DeleteFails, Undone, Return,
            Goto, Leave
  <2>4. /\ Validated(VersionOf[p]) /\ cache' = cache /\ pc[p] \in InLock
        /\ cutShort' = cutShort \cup Cut(p)
      BY <1>1, <2>3 DEF Steady, Progress, Return, Leave, InLock
  <2>5. Validated(VersionOf[p])'
      BY <2>4 DEF Validated, Managed
  <2> QED BY <1>1, <2>1, <2>4, <2>5, CutNoted
<1>2. Steady /\ LossesKnown /\ [Next]_vars => [Returned]_vars
    BY <1>1
<1> QED BY <1>2, LossesInvariant, PTL DEF Spec, ReturnsWhole

(***************************************************************************)
(* What was left half done.                                                *)
(***************************************************************************)

\* Nobody has a hand on an abandoned directory, and it has no marker.
LeftAlone ==
    \A v \in abandoned :
        /\ cache[v] # {} /\ ~Managed(v)
        /\ \A p \in Procs : /\ target[p] # v
                            /\ pc[p] \in {"promoted", "installed"} => VersionOf[p] # v

LEMMA StepLeavesAlone ==
    ASSUME Steady, LeftAlone, NEW p \in Procs,
           Enter(p) \/ Install(p) \/ Cleanup(p) \/ Again(p) \/ Dies(p)
    PROVE  LeftAlone' /\ \A v \in abandoned : cache'[v] = cache[v]
<1> USE DEF Steady, LeftAlone
<1>1. /\ VersionOf[p] \in Versions
      /\ \A v \in Versions : v # NoVersion
      /\ cache \in [Versions -> SUBSET Parts] /\ target \in [Procs -> Versions \cup {NoVersion}]
      /\ pc \in [Procs -> InLock \cup {"out", "using", "failed"}] /\ abandoned \subseteq Versions
    BY InstallAssumption, NoProcAssumption DEF InstallAssumption, TypeOK
\* The lock is let go: nobody else is in the critical section.
<1>2. ASSUME NEW where \in {"out", "using", "failed"}, Leave(p, where), pc[p] \in InLock,
             UNCHANGED cache
      PROVE  LeftAlone' /\ \A v \in abandoned : cache'[v] = cache[v]
  <2>1. \A q \in Procs : target'[q] = NoVersion /\ pc'[q] \notin {"promoted", "installed"}
      BY <1>1, <1>2, OthersOutside DEF Leave, Targets, InLock
  <2>2. \A v \in abandoned' : v \in Versions /\ cache'[v] # {} /\ ~Managed(v)'
      BY <1>2 DEF Leave, Managed
  <2> QED BY <1>1, <1>2, <2>1, <2>2
<1>3. CASE Enter(p) \/ Again(p)
    BY <1>1, <1>3 DEF Enter, Again, Managed
<1>4. CASE Promote(p)
    BY <1>1, <1>4 DEF Promote, Goto, Managed
<1>5. CASE InstallServer(p)
    BY <1>1, <1>5 DEF InstallServer, Goto, Managed
<1>6. CASE WriteMarker(p)
    BY <1>1, <1>6 DEF WriteMarker, Goto, Managed
<1>7. CASE InstallFails(p)
    BY <1>1, <1>7 DEF InstallFails, Goto, Managed
<1>8. CASE CleanNext(p)
  <2>1. PICK v \in Versions : Managed(v) /\ target' = [target EXCEPT ![p] = v]
      BY <1>8 DEF CleanNext, Old
  <2> QED BY <1>1, <1>8, <2>1 DEF CleanNext, Goto, Managed
<1>9. CASE Delete(p)
  <2>1. PICK part \in cache[target[p]] : cache' = [cache EXCEPT ![target[p]] = @ \ {part}]
      BY <1>9 DEF Delete
  <2>2. \A v \in abandoned : cache'[v] = cache[v]
      BY <1>1, <2>1
  <2> QED BY <1>9, <2>2 DEF Delete, Managed
<1>10. CASE Deleted(p)
    BY <1>1, <1>10 DEF Deleted, Goto, Managed
<1>11. CASE DeleteFails(p)
  <2>1. Validated(VersionOf[p]) /\ pc[p] \in InLock
      BY <1>11 DEF DeleteFails, Progress, InLock
  <2>2. VersionOf[p] \notin abandoned
      BY <2>1 DEF Validated
  <2>3. CASE fresh[p] /\ target' = [target EXCEPT ![p] = VersionOf[p]] /\ Goto(p, "undoing")
      BY <1>1, <1>11, <2>2, <2>3 DEF DeleteFails, Goto, Managed
  <2>4. CASE Leave(p, "failed")
      BY <1>2, <1>11, <2>1, <2>4 DEF DeleteFails
  <2> QED BY <1>11, <2>3, <2>4 DEF DeleteFails
<1>12. CASE SyncFails(p) \/ Undone(p) \/ Return(p) \/ Dies(p)
    BY <1>2, <1>12 DEF SyncFails, Undone, Return, Dies, InLock
<1> QED BY <1>3, <1>4, <1>5, <1>6, <1>7, <1>8, <1>9, <1>10, <1>11, <1>12 DEF Install, Cleanup

\* A directory left unmanaged stays: it is neither replaced nor cleaned up.
THEOREM AbandonedKeptHolds == Spec => AbandonedKept
<1> DEFINE Kept == \A v \in abandoned : cache'[v] = cache[v]
<1>1. Init => Steady /\ LeftAlone
    BY InitSteady DEF Init, LeftAlone
<1>2. Steady /\ LeftAlone /\ [Next]_vars => (Steady /\ LeftAlone)' /\ Kept
  <2> SUFFICES ASSUME Steady, LeftAlone, [Next]_vars PROVE LeftAlone' /\ Kept
      BY NextSteady
  <2>1. CASE UNCHANGED vars
      BY <2>1 DEF LeftAlone, Managed, vars
  <2> QED BY <2>1, StepLeavesAlone DEF Next
<1>3. Steady /\ LeftAlone /\ [Next]_vars => [Kept]_vars
    BY <1>2
<1> QED BY <1>1, <1>2, <1>3, PTL DEF Spec, AbandonedKept

(***************************************************************************)
(* What is half done, there and not managed, has an owner, or was left by  *)
(* a mishap.                                                               *)
(***************************************************************************)

\* The directories a process in the critical section answers for.  A deletion that
\* failed after a good install may have left any of them.
Owns(p, v) ==
    \/ pc[p] \in {"promoted", "installed", "undoing"} /\ v = VersionOf[p]
    \/ pc[p] = "deleting" /\ v = target[p]
    \/ pc[p] = "undoing" /\ fresh[p]

HalfDoneOwned ==
    \A v \in Versions :
        cache[v] # {} /\ ~Managed(v) => v \in abandoned \/ \E p \in Procs : Owns(p, v)

\* Once the install is there, the process owns what it deletes only.
LEMMA StepOwned ==
    ASSUME Steady, HalfDoneOwned, NEW p \in Procs,
           Enter(p) \/ Install(p) \/ Cleanup(p) \/ Again(p) \/ Dies(p)
    PROVE  HalfDoneOwned' /\ (abandoned' \subseteq abandoned \/ Mishap(p))
<1> USE DEF Steady
<1>1. /\ VersionOf[p] \in Versions
      /\ \A v \in Versions : v # NoVersion
      /\ cache \in [Versions -> SUBSET Parts] /\ target \in [Procs -> Versions \cup {NoVersion}]
      /\ pc \in [Procs -> InLock \cup {"out", "using", "failed"}] /\ abandoned \subseteq Versions
      /\ fresh \in [Procs -> BOOLEAN]
    BY InstallAssumption, NoProcAssumption DEF InstallAssumption, TypeOK
\* Only the process with the lock owns anything.
<1>2. ASSUME pc[p] \in InLock, NEW v \in Versions, cache[v] # {}, ~Managed(v)
      PROVE  v \in abandoned \/ Owns(p, v)
    BY <1>2, OthersOutside DEF HalfDoneOwned, Owns, InLock
\* What is half done when the lock is let go is abandoned.
<1>3. ASSUME NEW where \in {"out", "using", "failed"}, Leave(p, where), UNCHANGED cache
      PROVE  HalfDoneOwned'
    BY <1>3 DEF Leave, HalfDoneOwned, Managed
<1>4. CASE Enter(p)
    BY <1>1, <1>4 DEF Enter, HalfDoneOwned, Owns, Managed
<1>5. CASE Again(p)
    BY <1>1, <1>5 DEF Again, HalfDoneOwned, Owns, Managed
<1>6. CASE SyncFails(p)
  <2>1. pc[p] \in InLock /\ Leave(p, "failed") /\ UNCHANGED cache
      BY <1>6 DEF SyncFails, InLock
  <2>2. abandoned' \subseteq abandoned
      BY <1>2, <1>6, <2>1 DEF SyncFails, Leave, Owns
  <2> QED BY <1>3, <2>1, <2>2
<1>7. CASE Promote(p)
  <2>1. HalfDoneOwned'
    <3> SUFFICES ASSUME NEW v \in Versions, cache'[v] # {}, ~Managed(v)'
                 PROVE  v \in abandoned' \/ Owns(p, v)'
        BY DEF HalfDoneOwned
    <3>1. CASE v = VersionOf[p] BY <1>1, <1>7, <3>1 DEF Promote, Goto, Owns
    <3>2. CASE v # VersionOf[p]
      <4>1. cache[v] # {} /\ ~Managed(v) /\ pc[p] \in InLock /\ abandoned' = abandoned
          BY <1>1, <1>7, <3>2 DEF Promote, Goto, Managed, InLock
      <4> QED BY <1>2, <1>7, <4>1 DEF Promote, Owns
    <3> QED BY <3>1, <3>2
  <2> QED BY <1>7, <2>1 DEF Promote, Goto
<1>8. CASE InstallServer(p) \/ WriteMarker(p)
  <2>1. /\ pc[p] \in {"promoted", "installed"} /\ abandoned' = abandoned
        /\ \A v \in Versions : v # VersionOf[p] => cache'[v] = cache[v]
        /\ pc[p] = "promoted" => pc'[p] = "installed"
        /\ pc[p] = "installed" => Managed(VersionOf[p])'
      BY <1>1, <1>8 DEF InstallServer, WriteMarker, Goto, Managed, Progress
  <2>2. HalfDoneOwned'
    <3> SUFFICES ASSUME NEW v \in Versions, cache'[v] # {}, ~Managed(v)'
                 PROVE  v \in abandoned' \/ Owns(p, v)'
        BY DEF HalfDoneOwned
    <3>1. CASE v = VersionOf[p] BY <2>1, <3>1 DEF Owns
    <3>2. CASE v # VersionOf[p]
      <4>1. cache[v] # {} /\ ~Managed(v) /\ pc[p] \in InLock
          BY <2>1, <3>2 DEF Managed, InLock
      <4> QED BY <1>2, <2>1, <3>2, <4>1 DEF Owns
    <3> QED BY <3>1, <3>2
  <2> QED BY <2>1, <2>2
<1>9. CASE InstallFails(p)
  <2>1. /\ pc[p] \in {"promoted", "installed"} /\ pc'[p] = "undoing"
        /\ UNCHANGED <<cache, abandoned>>
      BY <1>1, <1>9 DEF InstallFails, Goto
  <2>2. \A v \in Versions : cache[v] # {} /\ ~Managed(v) => v \in abandoned' \/ Owns(p, v)'
      BY <1>2, <2>1 DEF Owns, InLock
  <2> QED BY <2>1, <2>2 DEF HalfDoneOwned, Managed
<1>10. CASE CleanNext(p)
  <2>1. pc[p] = "cleaning" /\ UNCHANGED <<cache, abandoned>>
      BY <1>10 DEF CleanNext, Goto
  <2>2. \A v \in Versions : cache[v] # {} /\ ~Managed(v) => v \in abandoned
      BY <1>2, <2>1 DEF Owns, InLock
  <2> QED BY <2>1, <2>2 DEF HalfDoneOwned, Managed
<1>11. CASE Delete(p)
  <2>1. /\ pc[p] \in {"deleting", "undoing"} /\ UNCHANGED <<pc, target, fresh, abandoned>>
        /\ pc[p] = "undoing" => target[p] = VersionOf[p]
      BY <1>11 DEF Delete, Targets
  <2>2. \A v \in Versions : v # target[p] => cache'[v] = cache[v]
      BY <1>1, <1>11 DEF Delete
  <2>3. HalfDoneOwned'
    <3> SUFFICES ASSUME NEW v \in Versions, cache'[v] # {}, ~Managed(v)'
                 PROVE  v \in abandoned' \/ Owns(p, v)'
        BY DEF HalfDoneOwned
    <3>1. CASE v = target[p] BY <2>1, <3>1 DEF Owns
    <3>2. CASE v # target[p]
      <4>1. cache[v] # {} /\ ~Managed(v) /\ pc[p] \in InLock
          BY <2>1, <2>2, <3>2 DEF Managed, InLock
      <4> QED BY <1>2, <2>1, <4>1 DEF Owns
    <3> QED BY <3>1, <3>2
  <2> QED BY <2>1, <2>3
<1>12. CASE Deleted(p)
  <2>1. /\ pc[p] = "deleting" /\ cache[target[p]] = {} /\ UNCHANGED <<cache, abandoned>>
      BY <1>12 DEF Deleted, Goto
  <2>2. \A v \in Versions : cache[v] # {} /\ ~Managed(v) => v \in abandoned
      BY <1>2, <2>1 DEF Owns, InLock
  <2> QED BY <2>1, <2>2 DEF HalfDoneOwned, Managed
<1>13. CASE DeleteFails(p)
  <2>1. Mishap(p)
      BY <1>13 DEF Mishap
  <2>2. CASE fresh[p] /\ Goto(p, "undoing")
    <3>1. pc'[p] = "undoing" /\ fresh'[p]
        BY <1>1, <1>13, <2>2 DEF DeleteFails, Goto
    <3> QED BY <2>1, <3>1 DEF HalfDoneOwned, Owns
  <2>3. CASE Leave(p, "failed")
      BY <1>3, <1>13, <2>1, <2>3 DEF DeleteFails
  <2> QED BY <1>13, <2>2, <2>3 DEF DeleteFails
<1>14. CASE Undone(p)
  <2>1. pc[p] = "undoing" /\ Leave(p, "failed") /\ UNCHANGED cache
      BY <1>14 DEF Undone
  <2>2. CASE fresh[p] \/ cache[VersionOf[p]] # {}
      BY <1>3, <1>14, <2>1, <2>2 DEF Mishap
  <2>3. CASE ~fresh[p] /\ cache[VersionOf[p]] = {}
    <3>1. \A v \in Versions : cache[v] # {} /\ ~Managed(v) => v \in abandoned
        BY <1>2, <2>1, <2>3 DEF Owns, InLock
    <3> QED BY <1>3, <2>1, <3>1 DEF Leave
  <2> QED BY <2>2, <2>3
<1>15. CASE Return(p)
  <2>1. pc[p] = "cleaning" /\ Leave(p, "using") /\ UNCHANGED cache
      BY <1>15 DEF Return
  <2>2. \A v \in Versions : cache[v] # {} /\ ~Managed(v) => v \in abandoned
      BY <1>2, <2>1 DEF Owns, InLock
  <2> QED BY <1>3, <2>1, <2>2 DEF Leave
<1>16. CASE Dies(p)
    BY <1>3, <1>16 DEF Dies, Mishap
<1> QED BY <1>4, <1>5, <1>6, <1>7, <1>8, <1>9, <1>10, <1>11, <1>12, <1>13, <1>14, <1>15, <1>16
    DEF Install, Cleanup

\* A failed install leaves no directory that is not managed; a death or a failed
\* deletion may.
THEOREM OnlyMishapsAbandonHolds == Spec => OnlyMishapsAbandon
<1> DEFINE Explained == abandoned' \subseteq abandoned \/ \E p \in Procs : Mishap(p)
<1>1. Init => Steady /\ HalfDoneOwned
    BY InitSteady DEF Init, HalfDoneOwned
<1>2. Steady /\ HalfDoneOwned /\ [Next]_vars => (Steady /\ HalfDoneOwned)' /\ [Explained]_vars
  <2> SUFFICES ASSUME Steady, HalfDoneOwned, [Next]_vars PROVE HalfDoneOwned' /\ [Explained]_vars
      BY NextSteady
  <2>1. CASE UNCHANGED vars
      BY <2>1 DEF HalfDoneOwned, Owns, Managed, vars
  <2> QED BY <2>1, StepOwned DEF Next
<1> QED BY <1>1, <1>2, PTL DEF Spec, OnlyMishapsAbandon

(***************************************************************************)
(* Runtimes in use.                                                        *)
(***************************************************************************)

\* A spared version is not cleaned up, and is installed, or its install undone,
\* only while nobody uses it: a runtime in use validates.
Undisturbed ==
    \A p \in Procs :
        /\ pc[p] = "deleting" => ~Spared(target[p])
        /\ \/ pc[p] \in {"promoted", "installed", "undoing"}
           \/ pc[p] \in {"cleaning", "deleting"} /\ fresh[p]
           => \A q \in Procs :
                 pc[q] = "using" /\ Spared(VersionOf[q]) => VersionOf[p] # VersionOf[q]
        /\ pc[p] = "using" /\ Spared(VersionOf[p]) => Validated(VersionOf[p])

\* What UsedUntouched says of one step.
Untouched ==
    \A p \in Procs :
        pc[p] = "using" /\ pc'[p] = "using" /\ Spared(VersionOf[p])
            => cache'[VersionOf[p]] = cache[VersionOf[p]]

LEMMA StepUndisturbed ==
    ASSUME Steady, Undisturbed, NEW p \in Procs,
           Enter(p) \/ Install(p) \/ Cleanup(p) \/ Again(p) \/ Dies(p)
    PROVE  Undisturbed' /\ Untouched
<1> USE DEF Steady, Undisturbed, Untouched, Spared
<1>1. /\ VersionOf[p] \in Versions /\ VersionOf \in [Procs -> Versions]
      /\ cache \in [Versions -> SUBSET Parts] /\ target \in [Procs -> Versions \cup {NoVersion}]
      /\ pc \in [Procs -> InLock \cup {"out", "using", "failed"}] /\ fresh \in [Procs -> BOOLEAN]
    BY InstallAssumption DEF InstallAssumption, TypeOK
<1>2. CASE Enter(p) BY <1>1, <1>2 DEF Enter, Validated, Managed
<1>3. CASE SyncFails(p) BY <1>1, <1>3 DEF SyncFails, Leave, Validated, Managed
<1>4. CASE Promote(p)
  <2>1. \A q \in Procs : pc[q] = "using" /\ Spared(VersionOf[q]) => VersionOf[q] # VersionOf[p]
      BY <1>4 DEF Promote, Validated, Managed
  <2> QED BY <1>1, <1>4, <2>1, OthersOutside DEF Promote, Goto, Validated, Managed, InLock
<1>5. CASE InstallServer(p)
    BY <1>1, <1>5, OthersOutside DEF InstallServer, Goto, Validated, Managed, InLock
<1>6. CASE WriteMarker(p)
    BY <1>1, <1>6, OthersOutside DEF WriteMarker, Goto, Validated, Managed, InLock
<1>7. CASE InstallFails(p) BY <1>1, <1>7 DEF InstallFails, Goto, Validated, Managed
<1>8. CASE CleanNext(p)
  <2>1. PICK v \in Versions : v # VersionOf[p] /\ target' = [target EXCEPT ![p] = v]
      BY <1>8 DEF CleanNext, Old
  <2>2. p \notin Keepers
      BY <1>8 DEF CleanNext, Old
  <2>3. ~Spared(v)
      BY <2>1, <2>2
  <2> QED BY <1>1, <1>8, <2>1, <2>3 DEF CleanNext, Goto, Validated, Managed
<1>9. CASE Delete(p)
  <2>1. PICK part \in cache[target[p]] : cache' = [cache EXCEPT ![target[p]] = @ \ {part}]
      BY <1>9 DEF Delete
  <2>2. \A q \in Procs : pc[q] = "using" /\ Spared(VersionOf[q]) => VersionOf[q] # target[p]
      BY <1>9 DEF Delete, Targets
  <2> QED BY <1>1, <1>9, <2>1, <2>2 DEF Delete, Validated, Managed
<1>10. CASE Deleted(p) BY <1>1, <1>10 DEF Deleted, Goto, Validated, Managed
<1>11. CASE DeleteFails(p)
    BY <1>1, <1>11 DEF DeleteFails, Goto, Leave, Validated, Managed
<1>12. CASE Undone(p) BY <1>1, <1>12 DEF Undone, Leave, Validated, Managed
<1>13. CASE Return(p)
  <2>1. Validated(VersionOf[p]) /\ pc[p] \in InLock
      BY <1>13 DEF Return, Progress, InLock
  <2>2. \A q \in Procs : q # p => pc[q] \notin InLock
      BY <2>1, OthersOutside
  <2> QED BY <1>1, <1>13, <2>1, <2>2 DEF Return, Leave, Validated, Managed, InLock
<1>14. CASE Again(p) BY <1>1, <1>14 DEF Again, Validated, Managed
<1>15. CASE Dies(p) BY <1>1, <1>15 DEF Dies, Leave, Validated, Managed
<1> QED BY <1>2, <1>3, <1>4, <1>5, <1>6, <1>7, <1>8, <1>9, <1>10, <1>11, <1>12, <1>13, <1>14,
    <1>15 DEF Install, Cleanup

\* The directory of a runtime in use stays as it is, whoever installs, fails or dies
\* meanwhile, when the processes of other versions have ART_VLLM_RUNTIME_KEEP_OLD
\* set.
THEOREM UsedUntouchedHolds == Spec => UsedUntouched
<1> DEFINE I == Steady /\ Undisturbed
<1>1. Init => I
    BY InitSteady DEF Init, Undisturbed
<1>2. I /\ [Next]_vars => I' /\ Untouched
  <2> SUFFICES ASSUME I, [Next]_vars PROVE Undisturbed' /\ Untouched
      BY NextSteady
  <2>1. CASE UNCHANGED vars
      BY <2>1 DEF Undisturbed, Untouched, Spared, Validated, Managed, vars
  <2> QED BY <2>1, StepUndisturbed DEF Next
<1>3. I /\ [Next]_vars => [Untouched]_vars
    BY <1>2
<1> QED BY <1>1, <1>2, <1>3, PTL DEF Spec, UsedUntouched, Untouched

=============================================================================
