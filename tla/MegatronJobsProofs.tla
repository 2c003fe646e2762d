-------------------------- MODULE MegatronJobsProofs --------------------------
(***************************************************************************)
(* Theorems about MegatronJobs, for any number of ranks, jobs and starts   *)
(* and over every failure, kill and close of either side: vLLM is never    *)
(* awake beside the weights of a rank, a job that is done is saved, the    *)
(* checkpoints implement CheckpointHistory, disk, service and vLLM agree   *)
(* on the step, a rank trains with the optimizer state of its weights, and *)
(* none is left behind a collective.                                       *)
(***************************************************************************)
EXTENDS MegatronJobs, WellFoundedInduction, TLAPS

\* Where a rank is before the steps of a job, and from the first exchange after them on.
BeforeJob == {"boot", "barrier", "list", "ready", "load"}
Before == BeforeJob \cup {"begin", "step"}
AfterSteps ==
    {"write", "written", "shard", "reread", "merge", "after", "finalize", "remove", "log"}
InJob == AfterSteps \cup {"begin", "step"}
Written == AfterSteps \ {"write", "written"}
WithWeights == {"boot", "load", "begin", "step", "write", "written", "shard", "reread",
                "merge", "after"}

\* No rank is in a job or can find one.
Quiet ==
    worker = "up" => jobFile = NoFile /\ \A r \in Ranks : rank[r] \in {"barrier", "list"}

\* The job file, the logs and what the ranks hold are those of the last job submitted;
\* ranks are where the worker lets them be.
Sound ==
    /\ mode \in {"shared", "lora", "merged"}
    /\ DOMAIN rank = Ranks /\ DOMAIN held = Ranks /\ DOMAIN weights = Ranks
    /\ onGpu \subseteq Ranks /\ shards \in [Kinds -> [Ranks -> Nat]]
    /\ current.id \in Nat /\ done \subseteq 0 .. current.id
    /\ \/ jobFile = NoFile
       \/ jobFile = [job |-> current, whole |-> TRUE]
       \/ jobFile = [job |-> current, whole |-> FALSE]
    /\ worker \in {"off", "up", "ended"}
    /\ worker = "up" => \A r \in Ranks : rank[r] \in Before \cup AfterSteps
    /\ worker # "up" => \A r \in Ranks : rank[r] = "off"
    /\ \A r \in Ranks : rank[r] \in InJob => held[r] = current

\* Rank 0 ends a job alone: the others are back at the barrier, and the file goes first.
EndsAlone ==
    /\ rank[0] \in {"remove", "log"} => \A r \in Ranks \ {0} : rank[r] = "barrier"
    /\ rank[0] = "log" => jobFile = NoFile

\* No job is under way when the service submits one, nor when its log says all done.
Submits ==
    /\ service \in {"starting", "idle", "asleep", "waking", "reloading"} => Quiet
    /\ service = "writing" =>
        /\ ~jobFile.whole /\ current.id \notin done
        /\ worker = "up" => \A r \in Ranks : rank[r] \in BeforeJob
    /\ service = "streaming" /\ current.id \in done => Quiet

JobsInv == Sound /\ EndsAlone /\ Submits

\* On shared GPUs a rank that waits for the others, or for vLLM, has offloaded its weights;
\* vLLM is awake only while no job is under way.
Turns ==
    mode = "shared" =>
        /\ \A r \in onGpu : rank[r] \in WithWeights
        /\ vllm = "awake" => Quiet
        /\ service \in {"asleep", "writing", "streaming", "waking"} => vllm = "asleep"

\* The weights of every checkpoint were trained by jobs submitted, and by the last one only
\* once it is over.
Numbered ==
    /\ current.id <= MaxJobs
    /\ service \in {"writing", "streaming"} =>
           current.id > 0 /\ current.kind \in Kinds \cup {"sync"}
    /\ ckpts \in Seq(Seq(Effects)) /\ ckpts # <<>>
    /\ \A s \in DOMAIN ckpts : \A e \in ToSet(ckpts[s]) :
           /\ e.id <= current.id
           /\ service \in {"writing", "streaming"} => e.id < current.id

\* The staged adapter is the last checkpoint until rank 0 writes over it, and that
\* checkpoint trained by the job from then on.
Training == service \in {"writing", "streaming"} /\ current.kind # "sync"
Result == Append(Last(ckpts), Effect(current))

Staged ==
    Training =>
        /\ current.id \in done => staging = Result
        /\ current.id \notin done /\ rank[0] \in Before => staging = Last(ckpts)
        /\ \A r \in Ranks : rank[r] = "step" => weights[r] = Last(ckpts)
        /\ rank[0] \in AfterSteps => weights[0] = Result
        /\ rank[0] \in Written => staging = Result
        /\ rank[0] \in AfterSteps => \A r \in Ranks : rank[r] \notin Before \ {"barrier"}

\* From its own step on, each part of what a job saves is there.
Stored ==
    Training =>
        /\ \A r \in Ranks : rank[r] \in Written \ {"shard"} => shards[current.kind][r] = current.id
        /\ rank[0] \in {"remove", "log"} \/ current.id \in done =>
               \A r \in Ranks : shards[current.kind][r] = current.id
        /\ mode = "merged" /\ vllm = "awake"
               /\ (rank[0] \in {"after", "finalize", "remove", "log"} \/ current.id \in done) =>
                   served = Serving(current.step, Result)

IInv == JobsInv /\ Turns /\ Numbered /\ Staged /\ Stored

LEMMA ZeroIsRank == 0 \in Ranks
  BY BoundsAssumption DEF Ranks

\* The elements of a sequence that has been appended to.
LEMMA AppendElements ==
    ASSUME NEW S, NEW c \in Seq(S), NEW x \in S
    PROVE  /\ Append(c, x) \in Seq(S) /\ Append(c, x) # <<>>
           /\ \A s \in DOMAIN Append(c, x) :
                  Append(c, x)[s] = x \/ (s \in DOMAIN c /\ Append(c, x)[s] = c[s])
<1>1. /\ Append(c, x) \in Seq(S) /\ Len(Append(c, x)) = Len(c) + 1
      /\ DOMAIN Append(c, x) = 1 .. Len(c) + 1 /\ DOMAIN c = 1 .. Len(c) /\ Len(c) \in Nat
  OBVIOUS
<1>2. Append(c, x)[Len(c) + 1] = x
  OBVIOUS
<1>3. \A s \in 1 .. Len(c) : Append(c, x)[s] = c[s]
  OBVIOUS
<1>4. Append(c, x) # <<>>
  BY <1>1
<1>5. ASSUME NEW s \in 1 .. Len(c) + 1
      PROVE  Append(c, x)[s] = x \/ (s \in 1 .. Len(c) /\ Append(c, x)[s] = c[s])
  BY <1>1, <1>2, <1>3
<1> QED
  BY <1>1, <1>4, <1>5

LEMMA AppendToSet ==
    ASSUME NEW S, NEW c \in Seq(S), NEW x \in S
    PROVE  \A e \in ToSet(Append(c, x)) : e = x \/ e \in ToSet(c)
  BY AppendElements DEF ToSet

LEMMA LastElement ==
    ASSUME NEW S, NEW c \in Seq(S), c # <<>>
    PROVE  Last(c) \in S /\ Len(c) \in DOMAIN c /\ Last(c) = c[Len(c)]
<1>1. Len(c) \in Nat /\ c \in [1 .. Len(c) -> S]
  OBVIOUS
<1>2. Len(c) # 0
  OBVIOUS
<1>3. Len(c) \in 1 .. Len(c)
  BY <1>1, <1>2
<1> QED
  BY ONLY <1>1, <1>3 DEF Last

(***************************************************************************)
(* What the steps that fail or move a rank change, and what they do not.   *)
(***************************************************************************)

Kept == <<mode, service, current, vllm, served, ckpts, staging, jobFile, done>>

LEMMA Stutter ==
    UNCHANGED vars =>
        UNCHANGED <<mode, service, latest, current, vllm, served, ckpts, staging, jobFile, done,
                    shards, worker, rank, held, weights, onGpu, split>>
  BY DEF vars, serviceVars, vllmVars, fileVars, rankVars

LEMMA Failed ==
    Fail => /\ service' = "closing"
            /\ jobFile' = jobFile \/ (jobFile.job = current /\ jobFile' = NoFile)
            /\ done' \subseteq done
            /\ UNCHANGED <<mode, current, shards, worker, rank, held, weights, onGpu>>
  BY DEF Fail, RemoveFiles, fileVars, rankVars, vllmVars, countVars

LEMMA Stopped ==
    ASSUME NEW how, WorkerStops(how)
    PROVE  /\ worker' = how /\ rank' = [q \in Ranks |-> "off"] /\ onGpu' = {}
           /\ held' = [q \in Ranks |-> NoJob] /\ weights' = [q \in Ranks |-> <<>>]
  BY DEF WorkerStops

LEMMA Listed ==
    ASSUME NEW r \in Ranks, List(r)
    PROVE  /\ worker = "up" /\ rank[r] = "list"
           /\ rank' = [rank EXCEPT ![r] = IF jobFile = NoFile THEN "barrier" ELSE "ready"]
           /\ split' = (split \/ \E q \in Ranks :
                           rank[q] \in (IF jobFile = NoFile THEN Found ELSE {"barrier"}))
  BY DEF List, At, Goes

LEMMA Loaded ==
    ASSUME NEW r \in Ranks, Load(r)
    PROVE  /\ worker = "up" /\ rank[r] = "load"
           /\ \/ rank' = [rank EXCEPT ![r] = "begin"] /\ UNCHANGED <<worker, weights, onGpu>>
              \/ WorkerStops("ended")
           /\ UNCHANGED Kept /\ UNCHANGED shards
  BY DEF Load, At, Goes, Kept, ServiceSide, serviceVars, vllmVars, fileVars

LEMMA Begun ==
    ASSUME NEW r \in Ranks, Begin(r)
    PROVE  /\ worker = "up" /\ rank[r] = "begin" /\ DOMAIN weights' = DOMAIN weights
           /\ \/ held[r].kind = "sync" /\ rank' = [rank EXCEPT ![r] = "merge"]
              \/ rank' = [rank EXCEPT ![r] = "step"]
           /\ UNCHANGED Kept /\ UNCHANGED <<shards, worker, held, onGpu>>
  BY DEF Begin, At, Goes, Kept, ServiceSide, serviceVars, vllmVars, fileVars

LEMMA ShardSaved ==
    ASSUME NEW r \in Ranks, SaveShard(r)
    PROVE  /\ worker = "up" /\ rank[r] = "shard"
           /\ rank' = [rank EXCEPT ![r] = IF mode = "merged" THEN "reread" ELSE "after"]
           /\ shards' = [shards EXCEPT ![held[r].kind][r] = held[r].id]
           /\ UNCHANGED Kept /\ UNCHANGED <<weights, worker, held, onGpu>>
  BY DEF SaveShard, At, Goes, Kept, ServiceSide, serviceVars, vllmVars

LEMMA Readback ==
    ASSUME NEW r \in Ranks, Reread(r)
    PROVE  /\ worker = "up" /\ rank[r] = "reread"
           /\ \/ /\ rank' = [rank EXCEPT ![r] = "merge"]
                 /\ UNCHANGED <<worker, held, weights, onGpu>>
              \/ WorkerStops("ended")
           /\ UNCHANGED Kept /\ UNCHANGED shards
<1>1. /\ worker = "up" /\ rank[r] = "reread"
      /\ \/ rank' = [rank EXCEPT ![r] = "merge"] /\ UNCHANGED <<worker, held, weights, onGpu>>
         \/ WorkerStops("ended")
  BY DEF Reread, At, Goes
<1>2. UNCHANGED <<ServiceSide, vllmVars, fileVars>>
  BY DEF Reread
<1> QED
  BY <1>1, <1>2 DEF Kept, ServiceSide, serviceVars, vllmVars, fileVars

LEMMA JobsStep == JobsInv /\ [Next]_vars => JobsInv'
<1> SUFFICES ASSUME JobsInv, [Next]_vars PROVE JobsInv'
  OBVIOUS
<1> USE ZeroIsRank DEF JobsInv, Sound, EndsAlone, Submits, Quiet, serviceVars, vllmVars,
  fileVars, rankVars, countVars, ServiceSide, BeforeJob, Before, AfterSteps, InJob, Written,
  WithWeights
<1>1. CASE StartServer
  BY <1>1 DEF StartServer
<1>2. CASE Sleep
  BY <1>2 DEF Sleep
<1>3. CASE Copy
  BY <1>3 DEF Copy
<1>4. CASE Fail
  <2>1. /\ service' = "closing" /\ jobFile' \in {jobFile, NoFile} /\ done' \subseteq done
        /\ UNCHANGED <<mode, current, shards, worker, rank, held, weights, onGpu>>
    BY <1>4, Failed
  <2>2. Sound'
    BY <2>1
  <2>3. EndsAlone' /\ Submits'
    BY <2>1
  <2> QED
    BY <2>2, <2>3
<1>5. CASE Crash
  BY <1>5 DEF Crash
<1>6. ASSUME NEW kind \in {"rl", "sft", "sync"}, Submit(kind) PROVE JobsInv'
  BY <1>6 DEF Submit, MaySubmit, EnsureRunning, NoFile, NoJob
<1>7. CASE WriteJob
  <2>1. jobFile = [job |-> current, whole |-> FALSE]
    BY <1>7 DEF WriteJob, NoFile
  <2>2. jobFile' = [job |-> current, whole |-> TRUE]
    BY <1>7, <2>1 DEF WriteJob
  <2> QED
    BY <1>7, <2>2 DEF WriteJob
<1>8. CASE SyncDone
  BY <1>8 DEF SyncDone, AllDone, RemoveFiles, NoFile, NoJob
<1>9. CASE Publish
  BY <1>9 DEF Publish, AllDone, RemoveFiles
<1>10. CASE Refuse
  BY <1>10 DEF Refuse, AllDone, RemoveFiles
<1>11. CASE Wake
  BY <1>11 DEF Wake
<1>12. CASE Reload
  BY <1>12 DEF Reload
<1>13. CASE CloseVllm
  BY <1>13 DEF CloseVllm
<1>14. CASE CloseEnds
  BY <1>14 DEF CloseEnds
<1>15. CASE VllmEnds
  BY <1>15 DEF VllmEnds
<1>16. CASE WorkerEnds
  BY <1>16 DEF WorkerEnds, WorkerStops
<1>17. CASE WorkerFails
  BY <1>17 DEF WorkerFails, WorkerStops
<1>18. ASSUME NEW r \in Ranks, Boot(r) PROVE JobsInv'
  BY <1>18 DEF Boot, At, Goes, Offload
<1>19. ASSUME NEW r \in Ranks, List(r) PROVE JobsInv'
  BY <1>19 DEF List, At, Goes, NoFile, NoJob
<1>20. ASSUME NEW r \in Ranks, Ready(r) PROVE JobsInv'
  BY <1>20 DEF Ready, At, Goes
<1>21. ASSUME NEW r \in Ranks, Load(r) PROVE JobsInv'
  <2>1. CASE jobFile # NoFile /\ jobFile.whole
    <3>1. jobFile.job = current
      BY <2>1
    <3> QED
      BY <1>21, <2>1, <3>1 DEF Load, At, Goes
  <2>2. CASE ~(jobFile # NoFile /\ jobFile.whole)
    BY <1>21, <2>2 DEF Load, WorkerStops
  <2> QED
    BY <2>1, <2>2
<1>22. ASSUME NEW r \in Ranks, Begin(r) PROVE JobsInv'
  BY <1>22 DEF Begin, At, Goes
<1>23. ASSUME NEW r \in Ranks, SaveShard(r) PROVE JobsInv'
  <2>1. /\ worker = "up" /\ rank[r] = "shard"
        /\ \/ rank' = [rank EXCEPT ![r] = "reread"]
           \/ rank' = [rank EXCEPT ![r] = "after"]
        /\ UNCHANGED <<mode, service, current, jobFile, done, weights, worker, held, onGpu>>
    BY <1>23, ShardSaved DEF Kept
  <2>2. shards' \in [Kinds -> [Ranks -> Nat]]
    <3>1. shards' = [shards EXCEPT ![held[r].kind][r] = held[r].id]
      BY <1>23, ShardSaved
    <3>2. held[r] = current /\ current.id \in Nat /\ shards \in [Kinds -> [Ranks -> Nat]]
      BY <2>1
    <3> QED
      BY <3>1, <3>2
  <2>3. Sound'
    <3>1. DOMAIN rank' = Ranks
      BY <2>1
    <3>2. \A q \in Ranks : rank'[q] = rank[q] \/ (q = r /\ rank'[r] \in AfterSteps)
      BY <2>1
    <3>3. \A q \in Ranks : rank'[q] \in InJob => held'[q] = current'
      BY <2>1, <3>2
    <3>4. \A q \in Ranks : rank'[q] \in Before \cup AfterSteps
      BY <2>1, <3>2
    <3> QED
      BY <2>1, <2>2, <3>1, <3>3, <3>4
  <2>4. EndsAlone' /\ Submits'
    BY <2>1
  <2> QED
    BY <2>3, <2>4
<1>24. ASSUME NEW r \in Ranks, Reread(r) PROVE JobsInv'
  <2>1. /\ worker = "up" /\ rank[r] = "reread"
        /\ UNCHANGED <<mode, service, current, jobFile, done, shards>>
    BY <1>24, Readback DEF Kept
  <2>2. CASE rank' = [rank EXCEPT ![r] = "merge"] /\ UNCHANGED <<worker, held, weights, onGpu>>
    <3>1. Sound'
      BY <2>1, <2>2
    <3>2. EndsAlone' /\ Submits'
      BY <2>1, <2>2
    <3> QED
      BY <3>1, <3>2
  <2>3. CASE WorkerStops("ended")
    BY <2>1, <2>3 DEF WorkerStops
  <2> QED
    BY <1>24, <2>2, <2>3, Readback
<1>25. ASSUME NEW r \in Ranks, After(r) PROVE JobsInv'
  BY <1>25 DEF After, At, Goes, Offload
<1>26. CASE WriteAdapter
  BY <1>26 DEF WriteAdapter, At, Goes
<1>27. CASE AdapterWritten
  BY <1>27 DEF AdapterWritten, At, Goes
<1>28. CASE RemoveJob
  BY <1>28 DEF RemoveJob, At, Goes
<1>29. CASE LogDone
  <2>1. worker = "up" /\ rank[0] = "log" /\ rank' = [rank EXCEPT ![0] = "barrier"]
    BY <1>29 DEF LogDone, At, Goes
  <2>2. jobFile = NoFile /\ \A r \in Ranks : rank'[r] = "barrier"
    BY <2>1
  <2>3. held[0] = current /\ service # "writing"
    BY <2>1
  <2>4. current' = current /\ done' = done \cup {current.id}
    BY <1>29, <2>3 DEF LogDone
  <2> DEFINE n == current.id
  <2>5. n \in Nat /\ done \subseteq 0 .. n /\ done' = done \cup {n} /\ current'.id = n
    BY <2>4
  <2> HIDE DEF n
  <2>6. done' \subseteq 0 .. current'.id
    BY <2>5
  <2>7. UNCHANGED <<held, onGpu, worker, jobFile, shards, weights, mode>> /\ DOMAIN rank' = Ranks
    BY <1>29, <2>1 DEF LogDone
  <2>8. Sound'
    BY <2>1, <2>2, <2>4, <2>6, <2>7
  <2>9. EndsAlone' /\ Submits'
    BY <1>29, <2>2, <2>3, <2>7 DEF LogDone
  <2> QED
    BY <2>8, <2>9
<1>30. CASE Barrier
  BY <1>30 DEF Barrier, Together
<1>31. CASE TrainTogether
  BY <1>31 DEF TrainTogether, Together
<1>32. CASE Merge
  BY <1>32 DEF Merge, Together, WorkerStops
<1>33. CASE Finalize
  BY <1>33 DEF Finalize, Together
<1>34. CASE UNCHANGED vars
  BY <1>34 DEF vars
<1> QED
  BY <1>1, <1>2, <1>3, <1>4, <1>5, <1>6, <1>7, <1>8, <1>9, <1>10, <1>11, <1>12, <1>13, <1>14,
     <1>15, <1>16, <1>17, <1>18, <1>19, <1>20, <1>21, <1>22, <1>23, <1>24, <1>25, <1>26, <1>27,
     <1>28, <1>29, <1>30, <1>31, <1>32, <1>33, <1>34
     DEF Next, ServiceSteps, RankSteps, RankZeroSteps, Collectives

LEMMA TurnsStep == JobsInv /\ Turns /\ [Next]_vars => Turns'
<1> SUFFICES ASSUME JobsInv /\ Turns, [Next]_vars PROVE Turns'
  OBVIOUS
<1> USE ZeroIsRank DEF JobsInv, Turns, Sound, EndsAlone, Submits, Quiet, serviceVars, vllmVars,
  fileVars, rankVars, countVars, ServiceSide, BeforeJob, Before, AfterSteps, InJob, Written,
  WithWeights
<1>1. CASE StartServer
  BY <1>1 DEF StartServer
<1>2. CASE Sleep
  BY <1>2 DEF Sleep
<1>3. CASE Copy
  BY <1>3 DEF Copy
<1>4. CASE Fail
  BY <1>4 DEF Fail, RemoveFiles
<1>5. CASE Crash
  BY <1>5 DEF Crash
<1>6. ASSUME NEW kind \in {"rl", "sft", "sync"}, Submit(kind) PROVE Turns'
  BY <1>6 DEF Submit, MaySubmit, EnsureRunning
<1>7. CASE WriteJob
  BY <1>7 DEF WriteJob
<1>8. CASE SyncDone
  BY <1>8 DEF SyncDone, AllDone, RemoveFiles
<1>9. CASE Publish
  BY <1>9 DEF Publish, AllDone, RemoveFiles
<1>10. CASE Refuse
  BY <1>10 DEF Refuse, AllDone, RemoveFiles
<1>11. CASE Wake
  BY <1>11 DEF Wake
<1>12. CASE Reload
  BY <1>12 DEF Reload
<1>13. CASE CloseVllm
  BY <1>13 DEF CloseVllm
<1>14. CASE CloseEnds
  BY <1>14 DEF CloseEnds
<1>15. CASE VllmEnds
  BY <1>15 DEF VllmEnds
<1>16. CASE WorkerEnds
  BY <1>16 DEF WorkerEnds, WorkerStops
<1>17. CASE WorkerFails
  BY <1>17 DEF WorkerFails, WorkerStops
<1>18. ASSUME NEW r \in Ranks, Boot(r) PROVE Turns'
  BY <1>18 DEF Boot, At, Goes, Offload
<1>19. ASSUME NEW r \in Ranks, List(r) PROVE Turns'
  BY <1>19 DEF List, At, Goes
<1>20. ASSUME NEW r \in Ranks, Ready(r) PROVE Turns'
  BY <1>20 DEF Ready, At, Goes
<1>21. ASSUME NEW r \in Ranks, Load(r) PROVE Turns'
  <2>1. /\ worker = "up" /\ rank[r] = "load" /\ UNCHANGED Kept /\ UNCHANGED shards
    BY <1>21, Loaded
  <2>2. \/ rank' = [rank EXCEPT ![r] = "begin"] /\ UNCHANGED <<worker, weights, onGpu>>
        \/ worker' = "ended" /\ rank' = [q \in Ranks |-> "off"] /\ onGpu' = {}
    BY <1>21, Loaded, Stopped
  <2> QED
    BY <2>1, <2>2 DEF Kept
<1>22. ASSUME NEW r \in Ranks, Begin(r) PROVE Turns'
  BY <1>22 DEF Begin, At, Goes
<1>23. ASSUME NEW r \in Ranks, SaveShard(r) PROVE Turns'
  BY <1>23 DEF SaveShard, At, Goes
<1>24. ASSUME NEW r \in Ranks, Reread(r) PROVE Turns'
  <2>1. /\ worker = "up" /\ rank[r] = "reread" /\ UNCHANGED Kept
    BY <1>24, Readback
  <2>2. \/ rank' = [rank EXCEPT ![r] = "merge"] /\ UNCHANGED <<worker, held, weights, onGpu>>
        \/ worker' = "ended" /\ rank' = [q \in Ranks |-> "off"] /\ onGpu' = {}
    BY <1>24, Readback, Stopped
  <2> QED
    BY <2>1, <2>2 DEF Kept
<1>25. ASSUME NEW r \in Ranks, After(r) PROVE Turns'
  BY <1>25 DEF After, At, Goes, Offload
<1>26. CASE WriteAdapter
  BY <1>26 DEF WriteAdapter, At, Goes
<1>27. CASE AdapterWritten
  BY <1>27 DEF AdapterWritten, At, Goes
<1>28. CASE RemoveJob
  BY <1>28 DEF RemoveJob, At, Goes
<1>29. CASE LogDone
  BY <1>29 DEF LogDone, At, Goes
<1>30. CASE Barrier
  BY <1>30 DEF Barrier, Together
<1>31. CASE TrainTogether
  BY <1>31 DEF TrainTogether, Together
<1>32. CASE Merge
  BY <1>32 DEF Merge, Together, WorkerStops
<1>33. CASE Finalize
  BY <1>33 DEF Finalize, Together
<1>34. CASE UNCHANGED vars
  BY <1>34 DEF vars
<1> QED
  BY <1>1, <1>2, <1>3, <1>4, <1>5, <1>6, <1>7, <1>8, <1>9, <1>10, <1>11, <1>12, <1>13, <1>14,
     <1>15, <1>16, <1>17, <1>18, <1>19, <1>20, <1>21, <1>22, <1>23, <1>24, <1>25, <1>26, <1>27,
     <1>28, <1>29, <1>30, <1>31, <1>32, <1>33, <1>34
     DEF Next, ServiceSteps, RankSteps, RankZeroSteps, Collectives

LEMMA NumberedStep == JobsInv /\ Numbered /\ Staged /\ [Next]_vars => Numbered'
<1> SUFFICES ASSUME JobsInv /\ Numbered /\ Staged, [Next]_vars PROVE Numbered'
  OBVIOUS
<1> USE ZeroIsRank DEF Numbered, serviceVars, vllmVars, fileVars, rankVars, countVars, ServiceSide
<1>1. CASE StartServer
  BY <1>1 DEF StartServer
<1>2. CASE Sleep
  BY <1>2 DEF Sleep
<1>3. CASE Copy
  <2>1. ckpts' = Append(ckpts, Last(ckpts)) /\ UNCHANGED <<service, current>>
    BY <1>3 DEF Copy
  <2>2. Last(ckpts) \in Seq(Effects) /\ Len(ckpts) \in DOMAIN ckpts
        /\ Last(ckpts) = ckpts[Len(ckpts)]
    BY LastElement
  <2>3. /\ ckpts' \in Seq(Seq(Effects)) /\ ckpts' # <<>>
        /\ \A s \in DOMAIN ckpts' : \E t \in DOMAIN ckpts : ckpts'[s] = ckpts[t]
    <3>1. ckpts \in Seq(Seq(Effects))
      OBVIOUS
    <3>2. /\ Append(ckpts, Last(ckpts)) \in Seq(Seq(Effects))
          /\ Append(ckpts, Last(ckpts)) # <<>>
          /\ \A s \in DOMAIN Append(ckpts, Last(ckpts)) :
                 \/ Append(ckpts, Last(ckpts))[s] = Last(ckpts)
                 \/ s \in DOMAIN ckpts /\ Append(ckpts, Last(ckpts))[s] = ckpts[s]
      BY <2>2, <3>1, AppendElements
    <3> QED
      BY <2>1, <2>2, <3>2
  <2> QED
    BY <2>1, <2>3
<1>4. CASE Fail
  BY <1>4 DEF Fail, RemoveFiles
<1>5. CASE Crash
  BY <1>5 DEF Crash
<1>6. ASSUME NEW kind \in {"rl", "sft", "sync"}, Submit(kind) PROVE Numbered'
  <2>1. current.id < MaxJobs /\ current'.id = current.id + 1 /\ current'.kind = kind
    BY <1>6 DEF Submit
  <2>2. ckpts' = ckpts /\ service' = "writing" /\ current.id \in Nat
    BY <1>6 DEF Submit, JobsInv, Sound
  <2>3. \A s \in DOMAIN ckpts' : \A e \in ToSet(ckpts'[s]) :
           e.id < current'.id /\ e.id <= current'.id
    <3> SUFFICES ASSUME NEW s \in DOMAIN ckpts, NEW e \in ToSet(ckpts[s])
                 PROVE  e.id < current'.id /\ e.id <= current'.id
      BY <2>2
    <3>1. e.id <= current.id
      OBVIOUS
    <3>2. ckpts[s] \in Seq(Effects)
      OBVIOUS
    <3>3. e \in Effects
      BY <3>2 DEF ToSet
    <3>4. e.id \in Nat
      BY <3>3 DEF Effects
    <3> QED
      BY <2>1, <2>2, <3>1, <3>4
  <2>4. current'.id \in Nat /\ current'.id <= MaxJobs
    BY <2>1, <2>2, BoundsAssumption
  <2>5. ckpts' \in Seq(Seq(Effects)) /\ ckpts' # <<>>
    BY <2>2
  <2>6. current'.id > 0 /\ current'.kind \in Kinds \cup {"sync"}
    BY <2>1, <2>2 DEF Kinds
  <2> QED
    BY <2>3, <2>4, <2>5, <2>6
<1>7. CASE WriteJob
  BY <1>7 DEF WriteJob
<1>8. CASE SyncDone
  BY <1>8 DEF SyncDone, AllDone, RemoveFiles
<1>9. CASE Publish
  <2>1. /\ ckpts' = Append(ckpts, Result) /\ current' = current
        /\ service' \notin {"writing", "streaming"} /\ current.id \in Nat
    BY <1>9 DEF Publish, AllDone, Staged, Training, JobsInv, Sound
  <2>2. /\ Last(ckpts) \in Seq(Effects) /\ Len(ckpts) \in DOMAIN ckpts
        /\ Last(ckpts) = ckpts[Len(ckpts)]
    BY LastElement
  <2>3. Effect(current) \in Effects
    BY <1>9, <2>1 DEF Publish, AllDone, Effect, Effects
  <2>4. /\ Result \in Seq(Effects)
        /\ \A e \in ToSet(Result) : e = Effect(current) \/ e \in ToSet(Last(ckpts))
    BY <2>2, <2>3, AppendElements, AppendToSet DEF Result
  <2>5. /\ ckpts' \in Seq(Seq(Effects)) /\ ckpts' # <<>>
        /\ \A s \in DOMAIN ckpts' : ckpts'[s] = Result
              \/ (s \in DOMAIN ckpts /\ ckpts'[s] = ckpts[s])
    <3>1. ckpts \in Seq(Seq(Effects))
      OBVIOUS
    <3>2. Result \in Seq(Effects)
      BY <2>4
    <3>3. /\ Append(ckpts, Result) \in Seq(Seq(Effects))
          /\ Append(ckpts, Result) # <<>>
          /\ \A s \in DOMAIN Append(ckpts, Result) :
                 \/ Append(ckpts, Result)[s] = Result
                 \/ s \in DOMAIN ckpts /\ Append(ckpts, Result)[s] = ckpts[s]
      <4> DEFINE S == Seq(Effects)
      <4>1. ckpts \in Seq(S) /\ Result \in S
        BY <3>1, <3>2
      <4> HIDE DEF S
      <4>2. /\ Append(ckpts, Result) \in Seq(S)
            /\ Append(ckpts, Result) # <<>>
            /\ \A s \in DOMAIN Append(ckpts, Result) :
                   \/ Append(ckpts, Result)[s] = Result
                   \/ s \in DOMAIN ckpts /\ Append(ckpts, Result)[s] = ckpts[s]
        BY ONLY <4>1, AppendElements
      <4> QED
        BY ONLY <4>2 DEF S
    <3> QED
      BY <2>1, <3>3
  <2>6. \A s \in DOMAIN ckpts' : \A e \in ToSet(ckpts'[s]) : e.id <= current.id
    BY <2>1, <2>2, <2>4, <2>5 DEF Effect
  <2> QED
    BY <2>1, <2>5, <2>6
<1>10. CASE Refuse
  BY <1>10 DEF Refuse, AllDone, RemoveFiles
<1>11. CASE Wake
  BY <1>11 DEF Wake
<1>12. CASE Reload
  BY <1>12 DEF Reload
<1>13. CASE CloseVllm
  BY <1>13 DEF CloseVllm
<1>14. CASE CloseEnds
  BY <1>14 DEF CloseEnds
<1>15. CASE VllmEnds
  BY <1>15 DEF VllmEnds
<1>16. CASE WorkerEnds
  BY <1>16 DEF WorkerEnds, WorkerStops
<1>17. CASE WorkerFails
  BY <1>17 DEF WorkerFails, WorkerStops
<1>18. ASSUME NEW r \in Ranks, Boot(r) PROVE Numbered'
  BY <1>18 DEF Boot, At, Goes, Offload
<1>19. ASSUME NEW r \in Ranks, List(r) PROVE Numbered'
  BY <1>19 DEF List, At, Goes
<1>20. ASSUME NEW r \in Ranks, Ready(r) PROVE Numbered'
  BY <1>20 DEF Ready, At, Goes
<1>21. ASSUME NEW r \in Ranks, Load(r) PROVE Numbered'
  BY <1>21 DEF Load, At, Goes, WorkerStops
<1>22. ASSUME NEW r \in Ranks, Begin(r) PROVE Numbered'
  BY <1>22 DEF Begin, At, Goes
<1>23. ASSUME NEW r \in Ranks, SaveShard(r) PROVE Numbered'
  BY <1>23 DEF SaveShard, At, Goes
<1>24. ASSUME NEW r \in Ranks, Reread(r) PROVE Numbered'
  BY <1>24 DEF Reread, At, Goes, WorkerStops
<1>25. ASSUME NEW r \in Ranks, After(r) PROVE Numbered'
  BY <1>25 DEF After, At, Goes, Offload
<1>26. CASE WriteAdapter
  BY <1>26 DEF WriteAdapter, At, Goes
<1>27. CASE AdapterWritten
  BY <1>27 DEF AdapterWritten, At, Goes
<1>28. CASE RemoveJob
  BY <1>28 DEF RemoveJob, At, Goes
<1>29. CASE LogDone
  BY <1>29 DEF LogDone, At, Goes
<1>30. CASE Barrier
  BY <1>30 DEF Barrier, Together
<1>31. CASE TrainTogether
  BY <1>31 DEF TrainTogether, Together
<1>32. CASE Merge
  BY <1>32 DEF Merge, Together, WorkerStops
<1>33. CASE Finalize
  BY <1>33 DEF Finalize, Together
<1>34. CASE UNCHANGED vars
  BY <1>34, Stutter
<1> QED
  BY <1>1, <1>2, <1>3, <1>4, <1>5, <1>6, <1>7, <1>8, <1>9, <1>10, <1>11, <1>12, <1>13, <1>14,
     <1>15, <1>16, <1>17, <1>18, <1>19, <1>20, <1>21, <1>22, <1>23, <1>24, <1>25, <1>26, <1>27,
     <1>28, <1>29, <1>30, <1>31, <1>32, <1>33, <1>34
     DEF Next, ServiceSteps, RankSteps, RankZeroSteps, Collectives

LEMMA StagedStep == JobsInv /\ Numbered /\ Staged /\ [Next]_vars => Staged'
<1> SUFFICES ASSUME JobsInv /\ Numbered /\ Staged, [Next]_vars PROVE Staged'
  OBVIOUS
<1> USE ZeroIsRank DEF JobsInv, Sound, EndsAlone, Submits, Quiet, Staged, Training, Result,
  serviceVars, vllmVars, fileVars, rankVars, countVars, ServiceSide, BeforeJob, Before,
  AfterSteps, InJob, Written, WithWeights
<1>1. CASE StartServer
  BY <1>1 DEF StartServer
<1>2. CASE Sleep
  BY <1>2 DEF Sleep
<1>3. CASE Copy
  BY <1>3 DEF Copy
<1>4. CASE Fail
  BY <1>4 DEF Fail, RemoveFiles
<1>5. CASE Crash
  BY <1>5 DEF Crash
<1>6. ASSUME NEW kind \in {"rl", "sft", "sync"}, Submit(kind) PROVE Staged'
  BY <1>6 DEF Submit, MaySubmit, EnsureRunning
<1>7. CASE WriteJob
  BY <1>7 DEF WriteJob
<1>8. CASE SyncDone
  BY <1>8 DEF SyncDone, AllDone, RemoveFiles
<1>9. CASE Publish
  BY <1>9 DEF Publish, AllDone, RemoveFiles
<1>10. CASE Refuse
  BY <1>10 DEF Refuse, AllDone, RemoveFiles
<1>11. CASE Wake
  BY <1>11 DEF Wake
<1>12. CASE Reload
  BY <1>12 DEF Reload
<1>13. CASE CloseVllm
  BY <1>13 DEF CloseVllm
<1>14. CASE CloseEnds
  BY <1>14 DEF CloseEnds
<1>15. CASE VllmEnds
  BY <1>15 DEF VllmEnds
<1>16. CASE WorkerEnds
  BY <1>16 DEF WorkerEnds, WorkerStops
<1>17. CASE WorkerFails
  BY <1>17 DEF WorkerFails, WorkerStops
<1>18. ASSUME NEW r \in Ranks, Boot(r) PROVE Staged'
  BY <1>18 DEF Boot, At, Goes, Offload
<1>19. ASSUME NEW r \in Ranks, List(r) PROVE Staged'
  BY <1>19 DEF List, At, Goes
<1>20. ASSUME NEW r \in Ranks, Ready(r) PROVE Staged'
  BY <1>20 DEF Ready, At, Goes
<1>21. ASSUME NEW r \in Ranks, Load(r) PROVE Staged'
  BY <1>21 DEF Load, At, Goes, WorkerStops
<1>22. ASSUME NEW r \in Ranks, Begin(r) PROVE Staged'
  BY <1>22 DEF Begin, At, Goes
<1>23. ASSUME NEW r \in Ranks, SaveShard(r) PROVE Staged'
  BY <1>23 DEF SaveShard, At, Goes
<1>24. ASSUME NEW r \in Ranks, Reread(r) PROVE Staged'
  <2>1. /\ worker = "up" /\ rank[r] = "reread" /\ UNCHANGED Kept
    BY <1>24, Readback
  <2>2. \/ rank' = [rank EXCEPT ![r] = "merge"] /\ UNCHANGED <<worker, held, weights, onGpu>>
        \/ worker' = "ended" /\ rank' = [q \in Ranks |-> "off"] /\ onGpu' = {}
    BY <1>24, Readback, Stopped
  <2> QED
    BY <2>1, <2>2 DEF Kept
<1>25. ASSUME NEW r \in Ranks, After(r) PROVE Staged'
  BY <1>25 DEF After, At, Goes, Offload
<1>26. CASE WriteAdapter
  BY <1>26 DEF WriteAdapter, At, Goes
<1>27. CASE AdapterWritten
  BY <1>27 DEF AdapterWritten, At, Goes
<1>28. CASE RemoveJob
  BY <1>28 DEF RemoveJob, At, Goes
<1>29. CASE LogDone
  BY <1>29 DEF LogDone, At, Goes
<1>30. CASE Barrier
  BY <1>30 DEF Barrier, Together
<1>31. CASE TrainTogether
  BY <1>31 DEF TrainTogether, Together
<1>32. CASE Merge
  BY <1>32 DEF Merge, Together, WorkerStops
<1>33. CASE Finalize
  BY <1>33 DEF Finalize, Together
<1>34. CASE UNCHANGED vars
  BY <1>34, Stutter
<1> QED
  BY <1>1, <1>2, <1>3, <1>4, <1>5, <1>6, <1>7, <1>8, <1>9, <1>10, <1>11, <1>12, <1>13, <1>14,
     <1>15, <1>16, <1>17, <1>18, <1>19, <1>20, <1>21, <1>22, <1>23, <1>24, <1>25, <1>26, <1>27,
     <1>28, <1>29, <1>30, <1>31, <1>32, <1>33, <1>34
     DEF Next, ServiceSteps, RankSteps, RankZeroSteps, Collectives

LEMMA StoredStep == JobsInv /\ Numbered /\ Staged /\ Stored /\ [Next]_vars => Stored'
<1> SUFFICES ASSUME JobsInv /\ Numbered /\ Staged /\ Stored, [Next]_vars PROVE Stored'
  OBVIOUS
<1> USE ZeroIsRank DEF JobsInv, Sound, EndsAlone, Submits, Quiet, Numbered, Staged, Stored,
  Training, Result, serviceVars, vllmVars, fileVars, rankVars, countVars, ServiceSide,
  BeforeJob, Before, AfterSteps, InJob, Written, WithWeights
<1>1. CASE StartServer
  BY <1>1 DEF StartServer
<1>2. CASE Sleep
  BY <1>2 DEF Sleep
<1>3. CASE Copy
  BY <1>3 DEF Copy
<1>4. CASE Fail
  BY <1>4 DEF Fail, RemoveFiles
<1>5. CASE Crash
  BY <1>5 DEF Crash
<1>6. ASSUME NEW kind \in {"rl", "sft", "sync"}, Submit(kind) PROVE Stored'
  BY <1>6 DEF Submit, MaySubmit, EnsureRunning
<1>7. CASE WriteJob
  BY <1>7 DEF WriteJob
<1>8. CASE SyncDone
  BY <1>8 DEF SyncDone, AllDone, RemoveFiles
<1>9. CASE Publish
  BY <1>9 DEF Publish, AllDone, RemoveFiles
<1>10. CASE Refuse
  BY <1>10 DEF Refuse, AllDone, RemoveFiles
<1>11. CASE Wake
  BY <1>11 DEF Wake
<1>12. CASE Reload
  BY <1>12 DEF Reload
<1>13. CASE CloseVllm
  BY <1>13 DEF CloseVllm
<1>14. CASE CloseEnds
  BY <1>14 DEF CloseEnds
<1>15. CASE VllmEnds
  BY <1>15 DEF VllmEnds
<1>16. CASE WorkerEnds
  BY <1>16 DEF WorkerEnds, WorkerStops
<1>17. CASE WorkerFails
  BY <1>17 DEF WorkerFails, WorkerStops
<1>18. ASSUME NEW r \in Ranks, Boot(r) PROVE Stored'
  BY <1>18 DEF Boot, At, Goes, Offload
<1>19. ASSUME NEW r \in Ranks, List(r) PROVE Stored'
  BY <1>19 DEF List, At, Goes
<1>20. ASSUME NEW r \in Ranks, Ready(r) PROVE Stored'
  BY <1>20 DEF Ready, At, Goes
<1>21. ASSUME NEW r \in Ranks, Load(r) PROVE Stored'
  <2>1. /\ worker = "up" /\ rank[r] = "load" /\ UNCHANGED Kept /\ UNCHANGED shards
    BY <1>21, Loaded
  <2>2. \/ rank' = [rank EXCEPT ![r] = "begin"] /\ UNCHANGED <<worker, weights, onGpu>>
        \/ worker' = "ended" /\ rank' = [q \in Ranks |-> "off"] /\ onGpu' = {}
    BY <1>21, Loaded, Stopped
  <2> QED
    <3>1. \A q \in Ranks : rank'[q] \in Written => rank'[q] = rank[q]
      BY <2>1, <2>2
    <3>2. \A q \in Ranks : rank'[q] \in Written \ {"shard"} => rank[q] \in Written \ {"shard"}
      BY <3>1
    <3>3. rank'[0] \in {"after", "finalize", "remove", "log"} => rank'[0] = rank[0]
      BY <3>1
    <3> QED
      BY <2>1, <3>2, <3>3 DEF Kept
<1>22. ASSUME NEW r \in Ranks, Begin(r) PROVE Stored'
  <2>1. /\ worker = "up" /\ rank[r] = "begin"
        /\ UNCHANGED Kept /\ UNCHANGED <<shards, worker, held>>
    BY <1>22, Begun
  <2>2. \/ held[r] = current /\ current.kind = "sync"
        \/ rank' = [rank EXCEPT ![r] = "step"]
    BY <1>22, <2>1, Begun
  <2>3. CASE current.kind = "sync"
    BY <2>1, <2>3 DEF Kept
  <2>4. CASE rank' = [rank EXCEPT ![r] = "step"]
    BY <2>1, <2>4 DEF Kept
  <2> QED
    BY <2>2, <2>3, <2>4
<1>23. ASSUME NEW r \in Ranks, SaveShard(r) PROVE Stored'
  BY <1>23 DEF SaveShard, At, Goes
<1>24. ASSUME NEW r \in Ranks, Reread(r) PROVE Stored'
  <2>1. /\ worker = "up" /\ rank[r] = "reread" /\ UNCHANGED Kept /\ UNCHANGED shards
    BY <1>24, Readback
  <2>2. \/ rank' = [rank EXCEPT ![r] = "merge"]
        \/ rank' = [q \in Ranks |-> "off"]
    BY <1>24, Readback, Stopped
  <2> QED
    <3>1. /\ \A q \in Ranks : rank'[q] \in Written \ {"shard"} => rank[q] \in Written \ {"shard"}
          /\ rank'[0] \in {"after", "finalize", "remove", "log"} => rank'[0] = rank[0]
      BY <2>1, <2>2
    <3> QED
      BY <2>1, <3>1 DEF Kept
<1>25. ASSUME NEW r \in Ranks, After(r) PROVE Stored'
  BY <1>25 DEF After, At, Goes, Offload
<1>26. CASE WriteAdapter
  BY <1>26 DEF WriteAdapter, At, Goes
<1>27. CASE AdapterWritten
  BY <1>27 DEF AdapterWritten, At, Goes
<1>28. CASE RemoveJob
  BY <1>28 DEF RemoveJob, At, Goes
<1>29. CASE LogDone
  BY <1>29 DEF LogDone, At, Goes
<1>30. CASE Barrier
  BY <1>30 DEF Barrier, Together
<1>31. CASE TrainTogether
  BY <1>31 DEF TrainTogether, Together
<1>32. CASE Merge
  BY <1>32 DEF Merge, Together, WorkerStops
<1>33. CASE Finalize
  BY <1>33 DEF Finalize, Together
<1>34. CASE UNCHANGED vars
  BY <1>34 DEF vars
<1> QED
  BY <1>1, <1>2, <1>3, <1>4, <1>5, <1>6, <1>7, <1>8, <1>9, <1>10, <1>11, <1>12, <1>13, <1>14,
     <1>15, <1>16, <1>17, <1>18, <1>19, <1>20, <1>21, <1>22, <1>23, <1>24, <1>25, <1>26, <1>27,
     <1>28, <1>29, <1>30, <1>31, <1>32, <1>33, <1>34
     DEF Next, ServiceSteps, RankSteps, RankZeroSteps, Collectives

LEMMA InitInv == Init => IInv
<1> SUFFICES ASSUME Init PROVE IInv
  OBVIOUS
<1> USE ZeroIsRank, BoundsAssumption, ModesAssumption DEF Init
<1>1. JobsInv
  BY DEF JobsInv, Sound, EndsAlone, Submits, Quiet, NoJob, InJob, AfterSteps
<1>2. Turns
  BY DEF Turns, Quiet
<1>3. Numbered
  <2>1. ckpts = << <<>> >> /\ ckpts # <<>> /\ ckpts \in Seq(Seq(Effects))
    OBVIOUS
  <2>2. \A s \in DOMAIN ckpts : ToSet(ckpts[s]) = {}
    BY <2>1 DEF ToSet
  <2> QED
    BY <2>1, <2>2 DEF Numbered, NoJob
<1>4. Staged /\ Stored
  BY DEF Staged, Stored, Training
<1> QED
  BY <1>1, <1>2, <1>3, <1>4 DEF IInv

LEMMA StepInv == IInv /\ [Next]_vars => IInv'
  BY JobsStep, TurnsStep, NumberedStep, StagedStep, StoredStep DEF IInv

LEMMA Invariant == Spec => []IInv
  BY InitInv, StepInv, PTL DEF Spec

\* On shared GPUs vLLM and the ranks take turns (service.py:874), whatever fails: no weights
\* of the worker are on the GPU while vLLM is awake.
THEOREM GpuExclusiveHolds == Spec => []GpuExclusive
<1>1. IInv => GpuExclusive
  BY DEF IInv, JobsInv, Sound, Turns, Quiet, GpuExclusive, WithWeights
<1> QED
  BY Invariant, <1>1, PTL

\* When the log says "all done" the adapter is staged, every rank has saved its shard of the
\* optimizer and, in merged mode, vLLM has the weights (train.py:907).
THEOREM DoneMeansSavedHolds == Spec => []DoneMeansSaved
<1>1. IInv => DoneMeansSaved
  BY DEF IInv, Staged, Stored, Training, Result, DoneMeansSaved
<1> QED
  BY Invariant, <1>1, PTL

\* Every step of the service and its ranks is one of CheckpointHistory, or changes no
\* checkpoint: each checkpoint is the last one, trained by one job that trained none before.
LEMMA StepHistory == IInv /\ [Next]_vars => [History!Next]_ckpts
<1> SUFFICES ASSUME IInv, [Next]_vars PROVE [History!Next]_ckpts
  OBVIOUS
<1> USE DEF serviceVars, vllmVars, fileVars, rankVars, countVars, ServiceSide
<1>1. CASE Publish
  <2>1. ckpts' = Append(ckpts, Append(Last(ckpts), Effect(current)))
    BY <1>1 DEF Publish, AllDone, IInv, Staged, Training, Result
  <2>2. Effect(current) \in Effects
    BY <1>1 DEF Publish, AllDone, IInv, JobsInv, Sound, Numbered, Effect, Effects
  <2>3. \A s \in DOMAIN ckpts : Effect(current) \notin ToSet(ckpts[s])
    <3>1. current.id \in Nat /\ Effect(current).id = current.id
      BY DEF IInv, JobsInv, Sound, Effect
    <3> QED
      BY <1>1, <3>1 DEF Publish, AllDone, IInv, Numbered
  <2> QED
    BY <2>1, <2>2, <2>3 DEF History!Next, History!Trained, Last, History!Last, ToSet, History!ToSet
<1>2. CASE Copy
  BY <1>2 DEF Copy, History!Next, History!Copied, Last, History!Last
<1>3. CASE ~Publish /\ ~Copy
  <2>1. UNCHANGED ckpts
    BY <1>3 DEF Next, vars, StartServer, Sleep, Fail, Crash, ServiceSteps, Submit, WriteJob,
                SyncDone, Refuse, Wake, Reload, CloseVllm, CloseEnds, VllmEnds, WorkerEnds,
                WorkerFails, RankSteps, RankZeroSteps, Collectives, Boot, List, Ready, Load,
                Begin, SaveShard, Reread, After, WriteAdapter, AdapterWritten, RemoveJob,
                LogDone, Barrier, TrainTogether, Merge, Finalize
  <2> QED
    BY <2>1
<1> QED
  BY <1>1, <1>2, <1>3

\* The service implements CheckpointHistory: a checkpoint is published once for a job
\* (service.py:882), from the adapter that job alone has trained on from the last one.
THEOREM ServiceKeepsHistory == Spec => KeepsHistory
<1>1. Init => History!Init
  BY DEF Init, History!Init
<1> QED
  BY <1>1, Invariant, StepHistory, PTL DEF Spec, KeepsHistory, History!Spec

(***************************************************************************)
(* Steps, optimizer states and collectives.                                *)
(***************************************************************************)
\* The state has its types; a worker is started with a job.
Types == TypeOK /\ (worker # "off" => current.id > 0 /\ current.kind \in Kinds \cup {"sync"})

\* A job trains the step after the one the service remembers, which is the last on disk
\* unless a copy was not registered; vLLM serves what a sync job merged.
Synced == Serving(current.step, ckpts[current.step + 1])

Agree ==
    /\ service \in {"starting", "idle", "asleep"} /\ ~ unregistered => latest = LatestStep
    /\ Training /\ ~ unregistered => Len(ckpts) = current.step
    /\ service \in {"waking", "reloading"} => Len(ckpts) = current.step + 1
    /\ service = "idle" => served = Serving(latest, ckpts[latest + 1])
    /\ mode = "merged" /\ service \in {"starting", "idle", "writing", "streaming"} => vllm = "awake"
    /\ service \in {"starting", "waking"} => mode # "lora"
    /\ service \in {"waking", "asleep"} => mode = "shared"
    /\ service = "reloading" => mode # "merged"
    /\ service \in {"writing", "streaming"} /\ current.kind = "sync" =>
           /\ mode = "merged" /\ current.step = LatestStep
           /\ rank[0] \notin {"step", "write", "written", "shard", "reread"}
           /\ rank[0] = "merge" => weights[0] = ckpts[current.step + 1]
           /\ rank[0] \in {"after", "finalize", "remove", "log"} \/ current.id \in done =>
                  served = Synced

\* What a job trains is the last checkpoint, also when the service is no more.
Bases ==
    /\ \A r \in Ranks : rank[r] \in {"step", "write", "written", "shard", "reread"} =>
           current.kind \in Kinds
    /\ \A r \in Ranks : rank[r] = "step" => weights[r] = Last(ckpts)
    /\ current.kind # "sync" /\ rank[0] \in Before
           /\ (jobFile # NoFile \/ \E r \in Ranks : rank[r] \in {"begin", "step"}) =>
               staging = Last(ckpts)
    /\ current.kind # "sync" /\ rank[0] \in AfterSteps =>
           \A r \in Ranks : rank[r] \notin Before \ {"barrier"}
    /\ \A r \in Ranks : rank[r] \in {"shard", "reread"} => rank[0] \in AfterSteps

\* The optimizer state on disk is that of the last checkpoint; the job that is streamed
\* may have saved its own.
Fits ==
    ~ interrupted =>
        \A k \in Kinds, q \in Ranks :
            \/ shards[k][q] = LastOf(k, Last(ckpts))
            \/ /\ service = "streaming" /\ k = current.kind /\ shards[k][q] = current.id
               /\ rank[0] \in AfterSteps \cup {"off"} \/ current.id \in done

\* Past a collective of a job, every rank is.
Past == {"write", "written", "shard", "reread", "merge", "after", "finalize"}

Phases ==
    /\ \A q, r \in Ranks : rank[q] \in Past \ {"merge"} => rank[r] \in Past
    /\ \A q, r \in Ranks : rank[r] = "boot" => rank[q] \in {"boot", "barrier"}
    /\ ~ split => \A q, r \in Ranks : rank[q] \in Found => rank[r] # "barrier"

WholeInv == IInv /\ Types /\ Agree /\ Bases /\ Fits /\ Phases

LEMMA Appended ==
    ASSUME NEW S, NEW c \in Seq(S), NEW x \in S
    PROVE  /\ Append(c, x) \in Seq(S) /\ Len(c) \in Nat /\ Len(Append(c, x)) = Len(c) + 1
           /\ Append(c, x)[Len(c) + 1] = x /\ Last(Append(c, x)) = x
           /\ \A i \in 1 .. Len(c) : Append(c, x)[i] = c[i]
  BY DEF Last

LEMMA CkptsTyped ==
    ASSUME Numbered
    PROVE  ckpts \in Seq(Seq(Effects)) /\ ckpts # <<>> /\ Len(ckpts) \in Nat /\ Len(ckpts) > 0
<1>1. ckpts \in Seq(Seq(Effects)) /\ ckpts # <<>>
  BY DEF Numbered
<1> QED
  BY <1>1

\* The two halves of TypeOK: where everybody is, and the numbers.
Places ==
    /\ mode \in Modes
    /\ service \in {"down", "starting", "idle", "asleep", "writing", "streaming", "waking",
                    "reloading", "closing", "killing", "closed"}
    /\ vllm \in {"off", "awake", "asleep"}
    /\ jobFile.whole \in BOOLEAN /\ lock \in BOOLEAN
    /\ worker \in {"off", "up", "ended"} /\ onGpu \subseteq Ranks
    /\ rank \in [Ranks -> {"off", "boot", "barrier", "list", "ready", "load", "begin", "step",
                           "write", "written", "shard", "reread", "merge", "after", "finalize",
                           "remove", "log"}]

Counts ==
    /\ latest \in 0 .. LatestStep
    /\ current \in [id : 0 .. MaxJobs, kind : Kinds \cup {"none", "sync"}, step : Nat]
    /\ done \subseteq 1 .. MaxJobs
    /\ shards \in [Kinds -> [Ranks -> 0 .. MaxJobs]]
    /\ worker # "off" => current.id > 0 /\ current.kind \in Kinds \cup {"sync"}

LEMMA TypesParts == Numbered => (Types <=> Places /\ Counts)
  BY DEF Numbered, Types, TypeOK, Places, Counts

LEMMA NoFileWhole == NoFile.whole \in BOOLEAN
<1>1. NoFile.whole = TRUE
  BY DEF NoFile
<1> QED
  BY <1>1

LEMMA GreatestIs ==
    ASSUME NEW n \in Nat, NEW S \in SUBSET (1 .. n), NEW m \in S, \A t \in S : t <= m
    PROVE  Max(S) = m
<1>1. \A s \in S : (\A t \in S : s >= t) => s = m
  OBVIOUS
<1>2. m \in S /\ \A t \in S : m >= t
  OBVIOUS
<1> QED
  BY <1>1, <1>2 DEF Max

\* A set of indices has a greatest one: the least distance from the end.
LEMMA GreatestIsElement ==
    ASSUME NEW n \in Nat, NEW S \in SUBSET (1 .. n), S # {}
    PROVE  Max(S) \in S
<1> DEFINE R == OpToRel(<, Nat)
           T == {n - s : s \in S}
<1>1. \A x, y \in Nat : y < x => <<y, x>> \in R
  BY DEF OpToRel
<1>2. IsWellFoundedOn(R, Nat)
  BY NatLessThanWellFounded
<1>3. T \subseteq Nat /\ T # {}
  <2>1. \A s \in S : n - s \in Nat
    OBVIOUS
  <2>2. PICK s \in S : TRUE
    OBVIOUS
  <2>3. n - s \in T
    BY <2>2
  <2> QED
    BY <2>1, <2>3
<1> HIDE DEF R, T
<1>4. PICK d \in T : \A y \in T : ~ (<<y, d>> \in R)
  BY <1>2, <1>3, WFMin
<1>5. PICK m \in S : d = n - m
  BY DEF T
<1>6. ASSUME NEW t \in S PROVE t <= m
  <2>1. n - t \in T /\ n - t \in Nat /\ d \in Nat
    BY <1>3 DEF T
  <2>2. ~ (n - t < d)
    BY <1>1, <1>4, <2>1
  <2> QED
    BY <1>5, <2>1, <2>2
<1> QED
  BY <1>6, GreatestIs

LEMMA LastOfIs ==
    ASSUME NEW k, NEW w
    PROVE  LastOf(k, w) = LET I == {i \in 1 .. Len(w) : w[i].kind = k}
                          IN  IF (IF I # {} THEN Max(I) ELSE 0) = 0 THEN 0
                              ELSE w[IF I # {} THEN Max(I) ELSE 0].id
  BY DEF LastOf, SelectLastInSeq

\* The job that trains some weights is the last of its kind.
LEMMA LastOfAppended ==
    ASSUME NEW S, NEW w \in Seq(S), NEW e \in S, NEW k
    PROVE  LastOf(k, Append(w, e)) = IF e.kind = k THEN e.id ELSE LastOf(k, w)
<1> DEFINE v == Append(w, e)
           I == {i \in 1 .. Len(w) : w[i].kind = k}
           J == {i \in 1 .. Len(v) : v[i].kind = k}
<1>1. /\ Len(w) \in Nat /\ Len(v) = Len(w) + 1 /\ v[Len(w) + 1] = e
      /\ \A i \in 1 .. Len(w) : v[i] = w[i]
  BY Appended
<1>2. LastOf(k, v) = IF (IF J # {} THEN Max(J) ELSE 0) = 0 THEN 0
                     ELSE v[IF J # {} THEN Max(J) ELSE 0].id
  BY LastOfIs
<1>3. LastOf(k, w) = IF (IF I # {} THEN Max(I) ELSE 0) = 0 THEN 0
                     ELSE w[IF I # {} THEN Max(I) ELSE 0].id
  BY LastOfIs
<1>4. I \subseteq 1 .. Len(w) /\ J \subseteq 1 .. Len(w) + 1
  BY <1>1
<1>5. CASE e.kind = k
  <2>1. Len(w) + 1 \in J
    BY <1>1, <1>5
  <2>2. \A t \in J : t <= Len(w) + 1
    BY <1>1
  <2>3. Max(J) = Len(w) + 1
    <3>1. PICK n \in Nat : n = Len(w) + 1
      BY <1>1
    <3>2. J \in SUBSET (1 .. n) /\ n \in J /\ \A t \in J : t <= n
      BY <1>4, <2>1, <2>2, <3>1
    <3> HIDE DEF J
    <3> QED
      BY <3>1, <3>2, GreatestIs
  <2> HIDE DEF J, v
  <2> QED
    BY <1>1, <1>2, <1>5, <2>1, <2>3 DEF v
<1>6. CASE e.kind # k
  <2>1. J = I
    BY <1>1, <1>6
  <2>2. CASE I = {}
    <3> HIDE DEF I, J
    <3> QED
      BY <1>2, <1>3, <1>6, <2>1, <2>2
  <2>3. CASE I # {}
    <3>1. Max(I) \in I
      <4>1. PICK n \in Nat : n = Len(w)
        BY <1>1
      <4>2. I \in SUBSET (1 .. n)
        BY <1>4, <4>1
      <4> HIDE DEF I
      <4> QED
        BY <2>3, <4>2, GreatestIsElement
    <3>2. PICK m : m = Max(I)
      OBVIOUS
    <3> HIDE DEF I, J, v
    <3>3. m \in 1 .. Len(w)
      BY <1>4, <3>1, <3>2
    <3>4. v[m] = w[m] /\ m # 0
      BY <1>1, <3>3
    <3> QED
      BY <1>2, <1>3, <1>6, <2>1, <2>3, <3>2, <3>4 DEF v
  <2> QED
    BY <2>2, <2>3
<1> QED
  BY <1>5, <1>6

LEMMA LastOfEmpty == \A k : LastOf(k, <<>>) = 0
<1> SUFFICES ASSUME NEW k PROVE LastOf(k, <<>>) = 0
  OBVIOUS
<1>1. {i \in 1 .. Len(<<>>) : <<>>[i].kind = k} = {}
  OBVIOUS
<1> QED
  BY <1>1, LastOfIs

LEMMA PhasesStep == JobsInv /\ Phases /\ [Next]_vars => Phases'
<1> SUFFICES ASSUME JobsInv /\ Phases, [Next]_vars PROVE Phases'
  OBVIOUS
<1> USE ZeroIsRank DEF Phases, JobsInv, Sound, EndsAlone, Past, Found, Before, BeforeJob,
   AfterSteps, InJob, serviceVars, vllmVars, fileVars, rankVars, countVars, ServiceSide
<1>1. CASE StartServer
  BY <1>1 DEF StartServer
<1>2. CASE Sleep
  BY <1>2 DEF Sleep
<1>3. CASE Copy
  BY <1>3 DEF Copy
<1>4. CASE Fail
  BY <1>4 DEF Fail, RemoveFiles
<1>5. CASE Crash
  BY <1>5 DEF Crash
<1>6. ASSUME NEW kind \in {"rl", "sft", "sync"}, Submit(kind) PROVE Phases'
  BY <1>6 DEF Submit, MaySubmit, EnsureRunning
<1>7. CASE WriteJob
  BY <1>7 DEF WriteJob
<1>8. CASE SyncDone
  BY <1>8 DEF SyncDone, AllDone, RemoveFiles
<1>9. CASE Publish
  BY <1>9 DEF Publish, AllDone, RemoveFiles
<1>10. CASE Refuse
  BY <1>10 DEF Refuse, AllDone, RemoveFiles
<1>11. CASE Wake
  BY <1>11 DEF Wake
<1>12. CASE Reload
  BY <1>12 DEF Reload
<1>13. CASE CloseVllm
  BY <1>13 DEF CloseVllm
<1>14. CASE CloseEnds
  BY <1>14 DEF CloseEnds
<1>15. CASE VllmEnds
  BY <1>15 DEF VllmEnds
<1>16. CASE WorkerEnds
  BY <1>16 DEF WorkerEnds, WorkerStops
<1>17. CASE WorkerFails
  BY <1>17 DEF WorkerFails, WorkerStops
<1>18. ASSUME NEW r \in Ranks, Boot(r) PROVE Phases'
  BY <1>18 DEF Boot, At, Goes, Offload
<1>19. ASSUME NEW r \in Ranks, List(r) PROVE Phases'
  <2>1. /\ rank[r] = "list"
        /\ rank' = [rank EXCEPT ![r] = IF jobFile = NoFile THEN "barrier" ELSE "ready"]
        /\ split' = (split \/ \E q \in Ranks :
                        rank[q] \in (IF jobFile = NoFile THEN Found ELSE {"barrier"}))
    BY <1>19, Listed
  <2>2. \A q, p \in Ranks : rank'[q] \in Past \ {"merge"} => rank'[p] \in Past
    BY <2>1
  <2>3. \A q, p \in Ranks : rank'[p] = "boot" => rank'[q] \in {"boot", "barrier"}
    BY <2>1
  <2>4. ~ split' => \A q, p \in Ranks : rank'[q] \in Found => rank'[p] # "barrier"
    <3>1. CASE jobFile = NoFile
      BY <2>1, <3>1
    <3>2. CASE jobFile # NoFile
      <4>1. rank' = [rank EXCEPT ![r] = "ready"]
        BY <2>1, <3>2
      <4>2. ~ split' => ~ split /\ \A q \in Ranks : rank[q] # "barrier"
        BY <2>1, <3>2
      <4> QED
        BY <4>1, <4>2
    <3> QED
      BY <3>1, <3>2
  <2> QED
    BY <2>2, <2>3, <2>4
<1>20. ASSUME NEW r \in Ranks, Ready(r) PROVE Phases'
  BY <1>20 DEF Ready, At, Goes
<1>21. ASSUME NEW r \in Ranks, Load(r) PROVE Phases'
  BY <1>21 DEF Load, At, Goes, WorkerStops
<1>22. ASSUME NEW r \in Ranks, Begin(r) PROVE Phases'
  BY <1>22 DEF Begin, At, Goes
<1>23. ASSUME NEW r \in Ranks, SaveShard(r) PROVE Phases'
  BY <1>23 DEF SaveShard, At, Goes
<1>24. ASSUME NEW r \in Ranks, Reread(r) PROVE Phases'
  BY <1>24 DEF Reread, At, Goes, WorkerStops
<1>25. ASSUME NEW r \in Ranks, After(r) PROVE Phases'
  BY <1>25 DEF After, At, Goes, Offload
<1>26. CASE WriteAdapter
  BY <1>26 DEF WriteAdapter, At, Goes
<1>27. CASE AdapterWritten
  BY <1>27 DEF AdapterWritten, At, Goes
<1>28. CASE RemoveJob
  BY <1>28 DEF RemoveJob, At, Goes
<1>29. CASE LogDone
  BY <1>29 DEF LogDone, At, Goes
<1>30. CASE Barrier
  BY <1>30 DEF Barrier, Together
<1>31. CASE TrainTogether
  BY <1>31 DEF TrainTogether, Together
<1>32. CASE Finalize
  BY <1>32 DEF Finalize, Together
<1>33. CASE Merge
  BY <1>33 DEF Merge, Together, WorkerStops
<1>34. CASE UNCHANGED vars
  BY <1>34, Stutter
<1> QED
  BY <1>1, <1>2, <1>3, <1>4, <1>5, <1>6, <1>7, <1>8, <1>9, <1>10, <1>11, <1>12, <1>13, <1>14,
     <1>15, <1>16, <1>17, <1>18, <1>19, <1>20, <1>21, <1>22, <1>23, <1>24, <1>25, <1>26, <1>27,
     <1>28, <1>29, <1>30, <1>31, <1>32, <1>33, <1>34
     DEF Next, ServiceSteps, RankSteps, RankZeroSteps, Collectives


LEMMA BasesStep == JobsInv /\ Numbered /\ Types /\ Bases /\ [Next]_vars => Bases'
<1> SUFFICES ASSUME JobsInv /\ Numbered /\ Types /\ Bases, [Next]_vars PROVE Bases'
  OBVIOUS
<1> USE ZeroIsRank DEF Bases, JobsInv, Sound, EndsAlone, Submits, Quiet, Before, BeforeJob,
   AfterSteps, InJob, serviceVars, vllmVars, fileVars, rankVars, countVars, ServiceSide
<1>1. CASE StartServer
  BY <1>1 DEF StartServer
<1>2. CASE Sleep
  BY <1>2 DEF Sleep
<1>3. CASE Copy
  <2>1. Last(ckpts') = Last(ckpts)
    <3>1. ckpts' = Append(ckpts, Last(ckpts)) /\ ckpts \in Seq(Seq(Effects)) /\ ckpts # <<>>
      BY <1>3 DEF Copy, Numbered
    <3> QED
      BY <3>1, LastElement, Appended
  <2> QED
    BY <1>3, <2>1 DEF Copy
<1>4. CASE Fail
  BY <1>4 DEF Fail, RemoveFiles
<1>5. CASE Crash
  BY <1>5 DEF Crash
<1>6. ASSUME NEW kind \in {"rl", "sft", "sync"}, Submit(kind) PROVE Bases'
  BY <1>6 DEF Submit, MaySubmit, EnsureRunning
<1>7. CASE WriteJob
  <2>1. ~ jobFile.whole
    BY <1>7 DEF WriteJob
  <2>2. jobFile # NoFile
    BY <2>1 DEF NoFile
  <2> QED
    BY <1>7, <2>2 DEF WriteJob
<1>8. CASE SyncDone
  BY <1>8 DEF SyncDone, AllDone, RemoveFiles
<1>9. CASE Publish
  <2>1. /\ Quiet /\ UNCHANGED <<rank, current, held, worker, staging, weights>>
        /\ jobFile' = NoFile \/ jobFile' = jobFile
    BY <1>9 DEF Publish, AllDone, RemoveFiles
  <2>2. worker = "up" => jobFile' = NoFile
    BY <2>1 DEF Quiet
  <2> QED
    BY <2>1, <2>2 DEF Quiet
<1>10. CASE Refuse
  BY <1>10 DEF Refuse, AllDone, RemoveFiles
<1>11. CASE Wake
  BY <1>11 DEF Wake
<1>12. CASE Reload
  BY <1>12 DEF Reload
<1>13. CASE CloseVllm
  BY <1>13 DEF CloseVllm
<1>14. CASE CloseEnds
  BY <1>14 DEF CloseEnds
<1>15. CASE VllmEnds
  BY <1>15 DEF VllmEnds
<1>16. CASE WorkerEnds
  BY <1>16 DEF WorkerEnds, WorkerStops
<1>17. CASE WorkerFails
  BY <1>17 DEF WorkerFails, WorkerStops
<1>18. ASSUME NEW r \in Ranks, Boot(r) PROVE Bases'
  BY <1>18 DEF Boot, At, Goes, Offload
<1>19. ASSUME NEW r \in Ranks, List(r) PROVE Bases'
  BY <1>19 DEF List, At, Goes
<1>20. ASSUME NEW r \in Ranks, Ready(r) PROVE Bases'
  BY <1>20 DEF Ready, At, Goes
<1>21. ASSUME NEW r \in Ranks, Load(r) PROVE Bases'
  BY <1>21 DEF Load, At, Goes, WorkerStops
<1>22. ASSUME NEW r \in Ranks, Begin(r) PROVE Bases'
  <2>1. /\ worker = "up" /\ rank[r] = "begin" /\ held[r] = current
        /\ UNCHANGED <<current, staging, ckpts, jobFile, worker>>
    BY <1>22 DEF Begin, At
  <2>2. CASE current.kind = "sync"
    <3>1. rank' = [rank EXCEPT ![r] = "merge"]
      BY <1>22, <2>1, <2>2 DEF Begin, Goes
    <3> QED
      BY <1>22, <2>1, <2>2, <3>1 DEF Begin
  <2>3. CASE current.kind # "sync"
    <3>1. /\ rank' = [rank EXCEPT ![r] = "step"] /\ weights' = [weights EXCEPT ![r] = staging]
          /\ current.kind \in Kinds
      BY <1>22, <2>1, <2>3 DEF Begin, Goes, Types
    <3>2. rank[0] \in Before
      BY <2>1, <2>3
    <3>3. staging = Last(ckpts)
      BY <2>1, <2>3, <3>2
    <3> QED
      BY <2>1, <2>3, <3>1, <3>2, <3>3
  <2> QED
    BY <2>2, <2>3
<1>23. ASSUME NEW r \in Ranks, SaveShard(r) PROVE Bases'
  BY <1>23 DEF SaveShard, At, Goes
<1>24. ASSUME NEW r \in Ranks, Reread(r) PROVE Bases'
  BY <1>24 DEF Reread, At, Goes, WorkerStops
<1>25. ASSUME NEW r \in Ranks, After(r) PROVE Bases'
  BY <1>25 DEF After, At, Goes, Offload
<1>26. CASE WriteAdapter
  BY <1>26 DEF WriteAdapter, At, Goes
<1>27. CASE AdapterWritten
  BY <1>27 DEF AdapterWritten, At, Goes
<1>28. CASE RemoveJob
  BY <1>28 DEF RemoveJob, At, Goes
<1>29. CASE LogDone
  BY <1>29 DEF LogDone, At, Goes
<1>30. CASE Barrier
  BY <1>30 DEF Barrier, Together
<1>31. CASE TrainTogether
  BY <1>31 DEF TrainTogether, Together
<1>32. CASE Finalize
  BY <1>32 DEF Finalize, Together
<1>33. CASE Merge
  BY <1>33 DEF Merge, Together, WorkerStops
<1>34. CASE UNCHANGED vars
  BY <1>34 DEF vars
<1> QED
  BY <1>1, <1>2, <1>3, <1>4, <1>5, <1>6, <1>7, <1>8, <1>9, <1>10, <1>11, <1>12, <1>13, <1>14,
     <1>15, <1>16, <1>17, <1>18, <1>19, <1>20, <1>21, <1>22, <1>23, <1>24, <1>25, <1>26, <1>27,
     <1>28, <1>29, <1>30, <1>31, <1>32, <1>33, <1>34
     DEF Next, ServiceSteps, RankSteps, RankZeroSteps, Collectives


LEMMA AgreeStep ==
    ASSUME JobsInv, JobsInv', Numbered, Staged, Stored, Types, Agree, [Next]_vars
    PROVE  Agree'
<1> USE ZeroIsRank DEF serviceVars, vllmVars, fileVars, rankVars, countVars, ServiceSide
<1>1. CASE StartServer
  <2>0. ckpts \in Seq(Seq(Effects)) /\ ckpts # <<>> /\ Len(ckpts) \in Nat /\ Len(ckpts) > 0
    BY CkptsTyped
  <2>1. /\ latest' = LatestStep /\ LatestStep' = LatestStep /\ ckpts' = ckpts
        /\ vllm' = "awake" /\ UNCHANGED <<mode, current>>
    BY <1>1 DEF StartServer, LatestStep
  <2>2. LatestStep + 1 = Len(ckpts) /\ Last(ckpts) = ckpts[Len(ckpts)]
    BY <2>0, LastElement DEF LatestStep
  <2>3. CASE mode = "merged"
    BY <1>1, <2>1, <2>3 DEF StartServer, Agree, Training
  <2>4. CASE mode # "merged"
    <3>1. service' = "idle" /\ served' = Serving(LatestStep, Last(ckpts))
      BY <1>1, <2>4 DEF StartServer
    <3>2. served' = Serving(latest', ckpts'[latest' + 1])
      BY <2>1, <2>2, <3>1 DEF Serving
    <3> QED
      BY <2>1, <2>4, <3>1, <3>2 DEF Agree, Training
  <2> QED
    BY <2>3, <2>4
<1>2. CASE Sleep
  BY <1>2 DEF Sleep, Agree, Training, LatestStep, Synced
<1>3. CASE Copy
  <2>0. ckpts \in Seq(Seq(Effects)) /\ ckpts # <<>> /\ Len(ckpts) \in Nat /\ Len(ckpts) > 0
    BY CkptsTyped
  <2>1. /\ service = "idle" /\ service' = "idle" /\ ckpts' = Append(ckpts, Last(ckpts))
        /\ UNCHANGED <<mode, vllm, current>>
        /\ \/ /\ latest' = Len(ckpts) /\ served' = Serving(Len(ckpts), Last(ckpts))
              /\ UNCHANGED unregistered
           \/ unregistered' = TRUE /\ UNCHANGED <<latest, served>>
    BY <1>3 DEF Copy
  <2>2. Last(ckpts) \in Seq(Effects)
    BY <2>0, LastElement
  <2>3. /\ Len(ckpts') = Len(ckpts) + 1 /\ ckpts'[Len(ckpts) + 1] = Last(ckpts)
        /\ \A i \in 1 .. Len(ckpts) : ckpts'[i] = ckpts[i]
    BY <2>0, <2>1, <2>2, Appended
  <2>4. LatestStep' = Len(ckpts)
    BY <2>0, <2>3 DEF LatestStep
  <2>5. latest + 1 \in 1 .. Len(ckpts)
    BY <2>0 DEF Types, TypeOK, LatestStep
  <2>6. served' = Serving(latest', ckpts'[latest' + 1])
    BY <2>1, <2>3, <2>5 DEF Agree
  <2>7. ~ unregistered' => latest' = LatestStep'
    BY <2>1, <2>4
  <2>8. mode = "merged" => vllm = "awake"
    BY <2>1 DEF Agree
  <2> QED
    BY <2>1, <2>6, <2>7, <2>8 DEF Agree, Training
<1>4. CASE Fail
  BY <1>4 DEF Fail, RemoveFiles, Agree, Training, LatestStep, Synced
<1>5. CASE Crash
  BY <1>5 DEF Crash, Agree, Training, LatestStep, Synced
<1>6. ASSUME NEW kind \in {"rl", "sft", "sync"}, Submit(kind) PROVE Agree'
  <2>0. ckpts \in Seq(Seq(Effects)) /\ ckpts # <<>> /\ Len(ckpts) \in Nat /\ Len(ckpts) > 0
    BY CkptsTyped
  <2>1. /\ latest' = (IF mode = "shared" THEN latest ELSE LatestStep)
        /\ current' = [id |-> current.id + 1, kind |-> kind,
                       step |-> IF kind = "sync" THEN latest' ELSE latest' + 1]
        /\ service' = "writing" /\ UNCHANGED <<mode, vllm, ckpts, done, unregistered, served>>
        /\ MaySubmit(kind)
    BY <1>6 DEF Submit
  <2>2. current'.kind = kind /\ current'.step = IF kind = "sync" THEN latest' ELSE latest' + 1
    BY <2>1
  <2>3. kind = "sync" => mode = "merged" /\ current'.step = LatestStep'
    BY <2>1, <2>2 DEF MaySubmit, LatestStep
  <2>4. ~ unregistered => latest' = Len(ckpts) - 1
    <3>1. CASE mode = "shared"
      BY <2>1, <3>1 DEF MaySubmit, Agree, LatestStep
    <3>2. CASE mode # "shared"
      BY <2>1, <3>2 DEF LatestStep
    <3> QED
      BY <3>1, <3>2
  <2>5. kind # "sync" /\ ~ unregistered' => Len(ckpts') = current'.step
    BY <2>0, <2>1, <2>2, <2>4
  <2>6. mode = "merged" => vllm' = "awake"
    BY <2>1 DEF MaySubmit, Agree
  <2>7. rank'[0] \in BeforeJob \cup {"off"} /\ current'.id \notin done
    <3>1. Submits'
      BY DEF JobsInv
    <3>2. worker' = "up"
      BY <1>6 DEF Submit, EnsureRunning, JobsInv, Sound
    <3> QED
      BY <2>1, <3>1, <3>2 DEF Submits
  <2> QED
    BY <2>1, <2>2, <2>3, <2>5, <2>6, <2>7 DEF Agree, Training, BeforeJob
<1>7. CASE WriteJob
  BY <1>7 DEF WriteJob, Agree, Training, LatestStep, Synced
<1>8. CASE SyncDone
  <2>0. ckpts \in Seq(Seq(Effects)) /\ ckpts # <<>> /\ Len(ckpts) \in Nat /\ Len(ckpts) > 0
    BY CkptsTyped
  <2>1. /\ service = "streaming" /\ current.id \in done /\ current.kind = "sync"
        /\ latest' = current.step /\ service' = "idle"
        /\ UNCHANGED <<mode, current, vllm, served, ckpts, unregistered>>
    BY <1>8 DEF SyncDone, AllDone
  <2>2. /\ mode = "merged" /\ current.step = LatestStep /\ served = Synced /\ vllm = "awake"
    BY <2>1 DEF Agree
  <2>3. served' = Serving(latest', ckpts'[latest' + 1]) /\ latest' = LatestStep'
    BY <2>1, <2>2 DEF Synced, LatestStep
  <2> QED
    BY <2>1, <2>2, <2>3 DEF Agree, Training
<1>9. CASE Publish
  <2>0. ckpts \in Seq(Seq(Effects)) /\ ckpts # <<>> /\ Len(ckpts) \in Nat /\ Len(ckpts) > 0
    BY CkptsTyped
  <2>1. /\ service = "streaming" /\ current.id \in done /\ current.kind # "sync"
        /\ Len(ckpts) = current.step /\ ckpts' = Append(ckpts, staging)
        /\ UNCHANGED <<mode, current, vllm, served, unregistered>>
    BY <1>9 DEF Publish, AllDone
  <2>2. staging = Result /\ Training
    BY <2>1 DEF Staged, Training
  <2>3. Result \in Seq(Effects)
    <3>1. Last(ckpts) \in Seq(Effects)
      BY <2>0, LastElement
    <3>2. Effect(current) \in Effects
      <4>1. current.id \in Nat /\ current.id > 0 /\ current.id <= MaxJobs
            /\ current.kind \in Kinds
        BY <2>1 DEF Numbered, JobsInv, Sound
      <4> QED
        BY <4>1, BoundsAssumption DEF Effect, Effects
    <3> QED
      BY <3>1, <3>2 DEF Result
  <2>4. Len(ckpts') = current.step + 1 /\ ckpts'[current.step + 1] = Result
    BY <2>0, <2>1, <2>2, <2>3, Appended
  <2>5. CASE mode = "shared"
    <3>1. service' = "waking"
      BY <1>9, <2>5 DEF Publish
    <3> QED
      BY <2>1, <2>4, <2>5, <3>1 DEF Agree, Training
  <2>6. CASE mode = "lora"
    <3>1. service' = "reloading"
      BY <1>9, <2>6 DEF Publish
    <3> QED
      BY <2>1, <2>4, <2>6, <3>1 DEF Agree, Training
  <2>7. CASE mode = "merged"
    <3>1. service' = "idle" /\ latest' = current.step
      BY <1>9, <2>7 DEF Publish
    <3>2. vllm = "awake"
      BY <2>1, <2>7 DEF Agree
    <3>3. served = Serving(current.step, Result)
      BY <2>1, <2>2, <2>7, <3>2 DEF Stored
    <3>4. latest' = LatestStep'
      BY <2>0, <2>1, <2>4, <3>1 DEF LatestStep
    <3> QED
      BY <2>1, <2>4, <2>7, <3>1, <3>2, <3>3, <3>4 DEF Agree, Training
  <2> QED
    BY <2>5, <2>6, <2>7 DEF JobsInv, Sound
<1>10. CASE Refuse
  BY <1>10 DEF Refuse, AllDone, RemoveFiles, Agree, Training, LatestStep, Synced
<1>11. CASE Wake
  BY <1>11 DEF Wake, Agree, Training, LatestStep, Synced
<1>12. CASE Reload
  <2>0. ckpts \in Seq(Seq(Effects)) /\ ckpts # <<>> /\ Len(ckpts) \in Nat /\ Len(ckpts) > 0
    BY CkptsTyped
  <2>1. /\ service = "reloading" /\ service' = "idle" /\ latest' = current.step
        /\ served' = Serving(current.step, ckpts[current.step + 1])
        /\ UNCHANGED <<mode, current, vllm, ckpts, unregistered>>
    BY <1>12 DEF Reload
  <2>2. Len(ckpts) = current.step + 1 /\ mode # "merged" /\ current.step \in Nat
    BY <2>1 DEF Agree, Types, TypeOK
  <2>3. latest' = LatestStep'
    BY <2>0, <2>1, <2>2 DEF LatestStep
  <2> QED
    BY <2>1, <2>2, <2>3 DEF Agree, Training
<1>13. CASE CloseVllm
  BY <1>13 DEF CloseVllm, Agree, Training, LatestStep, Synced
<1>14. CASE CloseEnds
  BY <1>14 DEF CloseEnds, Agree, Training, LatestStep, Synced
<1>15. CASE VllmEnds
  BY <1>15 DEF VllmEnds, Agree, Training, LatestStep, Synced
<1>16. CASE WorkerEnds
  BY <1>16 DEF WorkerEnds, WorkerStops, Agree, Training, LatestStep, Synced
<1>17. CASE WorkerFails
  BY <1>17 DEF WorkerFails, WorkerStops, Agree, Training, LatestStep, Synced
<1>18. ASSUME NEW r \in Ranks, Boot(r) PROVE Agree'
  BY <1>18 DEF Boot, At, Goes, Offload, Agree, Training, LatestStep, Synced
<1>19. ASSUME NEW r \in Ranks, List(r) PROVE Agree'
  BY <1>19 DEF List, At, Goes, Agree, Training, LatestStep, Synced
<1>20. ASSUME NEW r \in Ranks, Ready(r) PROVE Agree'
  BY <1>20 DEF Ready, At, Goes, Agree, Training, LatestStep, Synced
<1>21. ASSUME NEW r \in Ranks, Load(r) PROVE Agree'
  <2>1. /\ UNCHANGED <<mode, service, latest, current, vllm, served, ckpts, unregistered, done>>
        /\ \/ rank' = [rank EXCEPT ![r] = "begin"] /\ UNCHANGED weights
           \/ rank' = [q \in Ranks |-> "off"]
    BY <1>21 DEF Load, Goes, WorkerStops
  <2>2. rank'[0] \in {rank[0], "begin", "off"} /\ (rank'[0] = "merge" => weights'[0] = weights[0])
    BY <2>1 DEF JobsInv, Sound
  <2> QED
    BY <2>1, <2>2 DEF Agree, Training, LatestStep, Synced
<1>22. ASSUME NEW r \in Ranks, Begin(r) PROVE Agree'
  <2>0. ckpts \in Seq(Seq(Effects)) /\ ckpts # <<>> /\ Len(ckpts) \in Nat /\ Len(ckpts) > 0
    BY CkptsTyped
  <2>1. /\ rank[r] = "begin" /\ held[r] = current
        /\ UNCHANGED <<mode, service, latest, current, vllm, served, ckpts, unregistered, done>>
    BY <1>22 DEF Begin, At, JobsInv, Sound, InJob
  <2>2. CASE current.kind = "sync"
    <3>1. /\ rank' = [rank EXCEPT ![r] = "merge"]
          /\ weights' = [weights EXCEPT ![r] = ckpts[current.step + 1]]
      BY <1>22, <2>1, <2>2 DEF Begin, Goes
    <3> QED
      BY <2>1, <2>2, <3>1 DEF Agree, Training, LatestStep, Synced, JobsInv, Sound
  <2>3. CASE current.kind # "sync"
    BY <2>1, <2>3 DEF Agree, Training, LatestStep
  <2> QED
    BY <2>2, <2>3
<1>23. ASSUME NEW r \in Ranks, SaveShard(r) PROVE Agree'
  BY <1>23 DEF SaveShard, At, Goes, Agree, Training, LatestStep, Synced
<1>24. ASSUME NEW r \in Ranks, Reread(r) PROVE Agree'
  <2>1. /\ UNCHANGED <<mode, service, latest, current, vllm, served, ckpts, unregistered, done>>
        /\ \/ rank' = [rank EXCEPT ![r] = "merge"] /\ UNCHANGED weights
           \/ rank' = [q \in Ranks |-> "off"]
    BY <1>24 DEF Reread, Goes, WorkerStops
  <2>2. r = 0 => rank[0] = "reread"
    BY <1>24 DEF Reread, At
  <2>3. \/ rank'[0] = "off"
        \/ rank'[0] = rank[0] /\ weights'[0] = weights[0]
        \/ rank[0] = "reread" /\ rank'[0] = "merge"
    BY <2>1, <2>2 DEF JobsInv, Sound
  <2> QED
    BY <2>1, <2>3 DEF Agree, Training, LatestStep, Synced
<1>25. ASSUME NEW r \in Ranks, After(r) PROVE Agree'
  BY <1>25 DEF After, At, Goes, Offload, Agree, Training, LatestStep, Synced
<1>26. CASE WriteAdapter
  BY <1>26 DEF WriteAdapter, At, Goes, Agree, Training, LatestStep, Synced
<1>27. CASE AdapterWritten
  BY <1>27 DEF AdapterWritten, At, Goes, Agree, Training, LatestStep, Synced
<1>28. CASE RemoveJob
  BY <1>28 DEF RemoveJob, At, Goes, Agree, Training, LatestStep, Synced
<1>29. CASE LogDone
  BY <1>29 DEF LogDone, At, Goes, Agree, Training, LatestStep, Synced
<1>30. CASE Barrier
  BY <1>30 DEF Barrier, Together, Agree, Training, LatestStep, Synced
<1>31. CASE TrainTogether
  BY <1>31 DEF TrainTogether, Together, Agree, Training, LatestStep, Synced
<1>32. CASE Finalize
  BY <1>32 DEF Finalize, Together, Agree, Training, LatestStep, Synced
<1>33. CASE Merge
  <2>0. ckpts \in Seq(Seq(Effects)) /\ ckpts # <<>> /\ Len(ckpts) \in Nat /\ Len(ckpts) > 0
    BY CkptsTyped
  <2>1. CASE vllm = "awake"
    <3>1. /\ worker = "up" /\ rank[0] = "merge" /\ served' = Serving(held[0].step, weights[0])
          /\ rank'[0] = "after"
          /\ UNCHANGED <<mode, service, latest, current, vllm, ckpts, unregistered, done, weights>>
      BY <1>33, <2>1 DEF Merge, Together
    <3>2. held[0] = current
      BY <3>1 DEF JobsInv, Sound, InJob, AfterSteps
    <3>3. service # "idle"
      BY <3>1 DEF JobsInv, Submits, Quiet
    <3>4. service \in {"writing", "streaming"} /\ current.kind = "sync" => served' = Synced'
      BY <3>1, <3>2 DEF Agree, Synced
    <3> QED
      BY <3>1, <3>3, <3>4 DEF Agree, Training, LatestStep
  <2>2. CASE vllm # "awake"
    <3>1. /\ UNCHANGED <<mode, service, latest, current, vllm, ckpts, unregistered, done, served>>
          /\ rank'[0] = "off"
      BY <1>33, <2>2 DEF Merge, WorkerStops
    <3> QED
      BY <3>1 DEF Agree, Training, LatestStep, Synced
  <2> QED
    BY <2>1, <2>2
<1>34. CASE UNCHANGED vars
  BY <1>34 DEF vars, Agree, Training, LatestStep, Synced
<1> QED
  BY <1>1, <1>2, <1>3, <1>4, <1>5, <1>6, <1>7, <1>8, <1>9, <1>10, <1>11, <1>12, <1>13, <1>14,
     <1>15, <1>16, <1>17, <1>18, <1>19, <1>20, <1>21, <1>22, <1>23, <1>24, <1>25, <1>26, <1>27,
     <1>28, <1>29, <1>30, <1>31, <1>32, <1>33, <1>34
     DEF Next, ServiceSteps, RankSteps, RankZeroSteps, Collectives


LEMMA PlacesStep == JobsInv /\ JobsInv' /\ Places /\ [Next]_vars => Places'
<1> SUFFICES ASSUME JobsInv /\ JobsInv' /\ Places, [Next]_vars PROVE Places'
  OBVIOUS
<1> USE ZeroIsRank DEF Places, serviceVars, vllmVars, fileVars, rankVars, countVars, ServiceSide
<1>1. CASE StartServer
  BY <1>1 DEF StartServer
<1>2. CASE Sleep
  BY <1>2 DEF Sleep
<1>3. CASE Copy
  BY <1>3 DEF Copy
<1>4. CASE Fail
  <2>1. jobFile' = NoFile \/ jobFile' = jobFile
    BY <1>4 DEF Fail, RemoveFiles
  <2>2. jobFile'.whole \in BOOLEAN
    <3>1. CASE jobFile' = NoFile
      BY <3>1, NoFileWhole, Zenon
    <3>2. CASE jobFile' = jobFile
      BY <3>2, Zenon DEF Places
    <3> QED
      BY <2>1, <3>1, <3>2
  <2> QED
    BY <1>4, <2>2 DEF Fail, AllDone
<1>5. CASE Crash
  BY <1>5 DEF Crash
<1>6. ASSUME NEW kind \in {"rl", "sft", "sync"}, Submit(kind) PROVE Places'
  BY <1>6 DEF Submit, MaySubmit, EnsureRunning
<1>7. CASE WriteJob
  BY <1>7 DEF WriteJob
<1>8. CASE SyncDone
  <2>1. jobFile' = NoFile \/ jobFile' = jobFile
    BY <1>8 DEF SyncDone, AllDone, RemoveFiles
  <2>2. jobFile'.whole \in BOOLEAN
    <3>1. CASE jobFile' = NoFile
      BY <3>1, NoFileWhole, Zenon
    <3>2. CASE jobFile' = jobFile
      BY <3>2, Zenon DEF Places
    <3> QED
      BY <2>1, <3>1, <3>2
  <2> QED
    BY <1>8, <2>2 DEF SyncDone, AllDone
<1>9. CASE Publish
  BY <1>9 DEF Publish, AllDone, RemoveFiles
<1>10. CASE Refuse
  <2>1. jobFile' = NoFile \/ jobFile' = jobFile
    BY <1>10 DEF Refuse, AllDone, RemoveFiles
  <2>2. jobFile'.whole \in BOOLEAN
    <3>1. CASE jobFile' = NoFile
      BY <3>1, NoFileWhole, Zenon
    <3>2. CASE jobFile' = jobFile
      BY <3>2, Zenon DEF Places
    <3> QED
      BY <2>1, <3>1, <3>2
  <2> QED
    BY <1>10, <2>2 DEF Refuse, AllDone
<1>11. CASE Wake
  BY <1>11 DEF Wake
<1>12. CASE Reload
  BY <1>12 DEF Reload
<1>13. CASE CloseVllm
  BY <1>13 DEF CloseVllm
<1>14. CASE CloseEnds
  BY <1>14 DEF CloseEnds
<1>15. CASE VllmEnds
  BY <1>15 DEF VllmEnds
<1>16. CASE WorkerEnds
  BY <1>16 DEF WorkerEnds, WorkerStops
<1>17. CASE WorkerFails
  BY <1>17 DEF WorkerFails, WorkerStops
<1>18. ASSUME NEW r \in Ranks, Boot(r) PROVE Places'
  BY <1>18 DEF Boot, At, Goes, Offload
<1>19. ASSUME NEW r \in Ranks, List(r) PROVE Places'
  BY <1>19 DEF List, At, Goes
<1>20. ASSUME NEW r \in Ranks, Ready(r) PROVE Places'
  BY <1>20 DEF Ready, At, Goes
<1>21. ASSUME NEW r \in Ranks, Load(r) PROVE Places'
  BY <1>21 DEF Load, At, Goes, WorkerStops
<1>22. ASSUME NEW r \in Ranks, Begin(r) PROVE Places'
  BY <1>22 DEF Begin, At, Goes
<1>23. ASSUME NEW r \in Ranks, SaveShard(r) PROVE Places'
  BY <1>23 DEF SaveShard, At, Goes
<1>24. ASSUME NEW r \in Ranks, Reread(r) PROVE Places'
  BY <1>24 DEF Reread, At, Goes, WorkerStops
<1>25. ASSUME NEW r \in Ranks, After(r) PROVE Places'
  BY <1>25 DEF After, At, Goes, Offload
<1>26. CASE WriteAdapter
  BY <1>26 DEF WriteAdapter, At, Goes
<1>27. CASE AdapterWritten
  BY <1>27 DEF AdapterWritten, At, Goes
<1>28. CASE RemoveJob
  <2>1. jobFile' = NoFile \/ jobFile' = jobFile
    BY <1>28 DEF RemoveJob, At, Goes
  <2>2. jobFile'.whole \in BOOLEAN
    <3>1. CASE jobFile' = NoFile
      BY <3>1, NoFileWhole, Zenon
    <3>2. CASE jobFile' = jobFile
      BY <3>2, Zenon DEF Places
    <3> QED
      BY <2>1, <3>1, <3>2
  <2> QED
    BY <1>28, <2>2 DEF RemoveJob, At, Goes, JobsInv, Sound
<1>29. CASE LogDone
  BY <1>29 DEF LogDone, At, Goes
<1>30. CASE Barrier
  BY <1>30 DEF Barrier, Together
<1>31. CASE TrainTogether
  BY <1>31 DEF TrainTogether, Together
<1>32. CASE Finalize
  BY <1>32 DEF Finalize, Together
<1>33. CASE Merge
  BY <1>33 DEF Merge, Together, WorkerStops
<1>34. CASE UNCHANGED vars
  BY <1>34 DEF vars
<1> QED
  BY <1>1, <1>2, <1>3, <1>4, <1>5, <1>6, <1>7, <1>8, <1>9, <1>10, <1>11, <1>12, <1>13, <1>14,
     <1>15, <1>16, <1>17, <1>18, <1>19, <1>20, <1>21, <1>22, <1>23, <1>24, <1>25, <1>26, <1>27,
     <1>28, <1>29, <1>30, <1>31, <1>32, <1>33, <1>34
     DEF Next, ServiceSteps, RankSteps, RankZeroSteps, Collectives


LEMMA CountsStep == JobsInv /\ Numbered /\ Counts /\ Agree /\ [Next]_vars => Counts'
<1> SUFFICES ASSUME JobsInv /\ Numbered /\ Counts /\ Agree, [Next]_vars PROVE Counts'
  OBVIOUS
<1> USE ZeroIsRank DEF Counts, LatestStep, serviceVars, vllmVars, fileVars, rankVars, countVars,
   ServiceSide
<1>1. CASE StartServer
  BY <1>1 DEF StartServer
<1>2. CASE Sleep
  BY <1>2 DEF Sleep
<1>3. CASE Copy
  BY <1>3 DEF Copy
<1>4. CASE Fail
  BY <1>4 DEF Fail, RemoveFiles
<1>5. CASE Crash
  BY <1>5 DEF Crash
<1>6. ASSUME NEW kind \in {"rl", "sft", "sync"}, Submit(kind) PROVE Counts'
  <2>0. /\ Len(ckpts) \in Nat /\ Len(ckpts) > 0
        /\ current.step \in Nat /\ latest \in 0 .. Len(ckpts) - 1
    BY CkptsTyped
  <2>1. /\ current.id < MaxJobs /\ current'.id = current.id + 1 /\ current'.kind = kind
        /\ latest' = (IF mode = "shared" THEN latest ELSE LatestStep)
        /\ current' = [id |-> current.id + 1, kind |-> kind,
                       step |-> IF kind = "sync" THEN latest' ELSE latest' + 1]
        /\ UNCHANGED <<ckpts, done, shards>>
    BY <1>6 DEF Submit
  <2>2. latest' \in 0 .. LatestStep'
    BY <2>0, <2>1
  <2>3. current.id \in 0 .. MaxJobs /\ MaxJobs \in Nat
    BY BoundsAssumption
  <2>4. current.id + 1 \in 0 .. MaxJobs /\ current.id + 1 > 0
    BY <2>1, <2>3
  <2>5. kind \in Kinds \cup {"sync"}
    BY DEF Kinds
  <2>6. (IF kind = "sync" THEN latest' ELSE latest' + 1) \in Nat
    BY <2>0, <2>2, <2>1
  <2>7. current' \in [id : 0 .. MaxJobs, kind : Kinds \cup {"none", "sync"}, step : Nat]
    BY <2>1, <2>4, <2>5, <2>6
  <2> QED
    BY <2>1, <2>2, <2>4, <2>5, <2>7
<1>7. CASE WriteJob
  BY <1>7 DEF WriteJob
<1>8. CASE SyncDone
  <2>0. /\ Len(ckpts) \in Nat /\ Len(ckpts) > 0
        /\ current.step \in Nat /\ latest \in 0 .. Len(ckpts) - 1
    BY CkptsTyped
  <2>1. /\ latest' = current.step /\ service = "streaming" /\ current.kind = "sync"
        /\ UNCHANGED <<ckpts, current, shards, worker>> /\ done' \subseteq done
    BY <1>8 DEF SyncDone, AllDone, RemoveFiles
  <2>2. current.step = LatestStep
    BY <2>1 DEF Agree
  <2>3. latest' \in 0 .. LatestStep'
    BY <2>0, <2>1, <2>2
  <2> QED
    BY <2>1, <2>3
<1>9. CASE Publish
  <2>0. /\ Len(ckpts) \in Nat /\ Len(ckpts) > 0
        /\ current.step \in Nat /\ latest \in 0 .. Len(ckpts) - 1
    BY CkptsTyped
  <2>1. /\ latest' = latest \/ latest' = current.step
        /\ Len(ckpts) = current.step /\ ckpts' = Append(ckpts, staging)
        /\ UNCHANGED <<current, shards, worker>> /\ done' \subseteq done
    BY <1>9 DEF Publish, AllDone, RemoveFiles, JobsInv, Sound
  <2>2. Len(ckpts') = Len(ckpts) + 1
    <3>1. ckpts \in Seq(Seq(Effects))
      BY CkptsTyped
    <3> QED
      BY <2>1, <3>1, SMTT(30)
  <2>3. latest' \in 0 .. LatestStep'
    BY <2>0, <2>1, <2>2
  <2> QED
    BY <2>1, <2>3
<1>10. CASE Refuse
  BY <1>10 DEF Refuse, AllDone, RemoveFiles
<1>11. CASE Wake
  BY <1>11 DEF Wake
<1>12. CASE Reload
  <2>0. /\ Len(ckpts) \in Nat /\ Len(ckpts) > 0
        /\ current.step \in Nat /\ latest \in 0 .. Len(ckpts) - 1
    BY CkptsTyped
  <2>1. /\ latest' = current.step /\ service = "reloading"
        /\ UNCHANGED <<ckpts, current, shards, worker, done>>
    BY <1>12 DEF Reload
  <2>2. Len(ckpts) = current.step + 1
    BY <2>1 DEF Agree
  <2>3. latest' \in 0 .. LatestStep'
    BY <2>0, <2>1, <2>2
  <2> QED
    BY <2>1, <2>3
<1>13. CASE CloseVllm
  BY <1>13 DEF CloseVllm
<1>14. CASE CloseEnds
  BY <1>14 DEF CloseEnds
<1>15. CASE VllmEnds
  BY <1>15 DEF VllmEnds
<1>16. CASE WorkerEnds
  BY <1>16 DEF WorkerEnds, WorkerStops
<1>17. CASE WorkerFails
  BY <1>17 DEF WorkerFails, WorkerStops
<1>18. ASSUME NEW r \in Ranks, Boot(r) PROVE Counts'
  BY <1>18 DEF Boot, At, Goes, Offload
<1>19. ASSUME NEW r \in Ranks, List(r) PROVE Counts'
  BY <1>19 DEF List, At, Goes
<1>20. ASSUME NEW r \in Ranks, Ready(r) PROVE Counts'
  BY <1>20 DEF Ready, At, Goes
<1>21. ASSUME NEW r \in Ranks, Load(r) PROVE Counts'
  BY <1>21 DEF Load, At, Goes, WorkerStops
<1>22. ASSUME NEW r \in Ranks, Begin(r) PROVE Counts'
  BY <1>22 DEF Begin, At, Goes
<1>23. ASSUME NEW r \in Ranks, SaveShard(r) PROVE Counts'
  <2>1. /\ shards' = [shards EXCEPT ![held[r].kind][r] = held[r].id]
        /\ UNCHANGED <<latest, ckpts, current, done, worker>>
    BY <1>23 DEF SaveShard
  <2>2. held[r] = current
    BY <1>23 DEF SaveShard, At, JobsInv, Sound, InJob, AfterSteps
  <2>3. current.id \in 0 .. MaxJobs
    OBVIOUS
  <2>4. shards' \in [Kinds -> [Ranks -> 0 .. MaxJobs]]
    BY <2>1, <2>2, <2>3
  <2> QED
    BY <2>1, <2>4
<1>24. ASSUME NEW r \in Ranks, Reread(r) PROVE Counts'
  BY <1>24 DEF Reread, At, Goes, WorkerStops
<1>25. ASSUME NEW r \in Ranks, After(r) PROVE Counts'
  BY <1>25 DEF After, At, Goes, Offload
<1>26. CASE WriteAdapter
  BY <1>26 DEF WriteAdapter, At, Goes
<1>27. CASE AdapterWritten
  BY <1>27 DEF AdapterWritten, At, Goes
<1>28. CASE RemoveJob
  BY <1>28 DEF RemoveJob, At, Goes
<1>29. CASE LogDone
  <2>1. /\ done' = done \cup {held[0].id} /\ worker = "up"
        /\ UNCHANGED <<latest, ckpts, current, shards, worker>>
    BY <1>29 DEF LogDone, At
  <2>2. held[0] = current
    BY <1>29 DEF LogDone, At, JobsInv, Sound, InJob, AfterSteps
  <2>3. current.id \in 1 .. MaxJobs
    BY <2>1
  <2> QED
    BY <2>1, <2>2, <2>3
<1>30. CASE Barrier
  BY <1>30 DEF Barrier, Together
<1>31. CASE TrainTogether
  BY <1>31 DEF TrainTogether, Together
<1>32. CASE Finalize
  BY <1>32 DEF Finalize, Together
<1>33. CASE Merge
  BY <1>33 DEF Merge, Together, WorkerStops
<1>34. CASE UNCHANGED vars
  BY <1>34 DEF vars
<1> QED
  BY <1>1, <1>2, <1>3, <1>4, <1>5, <1>6, <1>7, <1>8, <1>9, <1>10, <1>11, <1>12, <1>13, <1>14,
     <1>15, <1>16, <1>17, <1>18, <1>19, <1>20, <1>21, <1>22, <1>23, <1>24, <1>25, <1>26, <1>27,
     <1>28, <1>29, <1>30, <1>31, <1>32, <1>33, <1>34
     DEF Next, ServiceSteps, RankSteps, RankZeroSteps, Collectives


LEMMA FitsStep ==
    ASSUME JobsInv, Numbered, Staged, Stored, Bases, Fits, [Next]_vars
    PROVE  Fits'
<1> USE ZeroIsRank DEF serviceVars, vllmVars, fileVars, rankVars, countVars, ServiceSide
<1>1. CASE StartServer
  BY <1>1 DEF StartServer, Fits, JobsInv, Sound, AfterSteps
<1>2. CASE Sleep
  BY <1>2 DEF Sleep, Fits, JobsInv, Sound, AfterSteps
<1>3. CASE Copy
  <2>1. Last(ckpts') = Last(ckpts)
    <3>1. ckpts' = Append(ckpts, Last(ckpts)) /\ ckpts \in Seq(Seq(Effects)) /\ ckpts # <<>>
      BY <1>3, CkptsTyped DEF Copy
    <3> QED
      BY <3>1, LastElement, Appended
  <2> QED
    BY <1>3, <2>1 DEF Copy, Fits
<1>4. CASE Fail
  <2>1. /\ ~ interrupted' => ~ interrupted /\ ~ (service = "streaming" /\ Unpublished)
        /\ UNCHANGED <<shards, ckpts, current>>
    <3>1. UNCHANGED <<shards, ckpts, current>>
      BY <1>4 DEF Fail
    <3>2. ~ interrupted' => ~ interrupted /\ ~ (service = "streaming" /\ Unpublished)
      BY <1>4, Zenon DEF Fail
    <3> QED
      BY <3>1, <3>2
  <2>2. ASSUME ~ interrupted', NEW k \in Kinds, NEW q \in Ranks
        PROVE  shards[k][q] = LastOf(k, Last(ckpts))
    BY <2>1, <2>2 DEF Fits, Unpublished
  <2> QED
    BY <2>1, <2>2 DEF Fits
<1>5. CASE Crash
  <2>1. /\ ~ interrupted' => ~ interrupted /\ ~ (service = "streaming" /\ Unpublished)
        /\ UNCHANGED <<shards, ckpts, current>>
    <3>1. UNCHANGED <<shards, ckpts, current>>
      BY <1>5 DEF Crash
    <3>2. ~ interrupted' => ~ interrupted /\ ~ (service = "streaming" /\ Unpublished)
      BY <1>5, Zenon DEF Crash
    <3> QED
      BY <3>1, <3>2
  <2>2. ASSUME ~ interrupted', NEW k \in Kinds, NEW q \in Ranks
        PROVE  shards[k][q] = LastOf(k, Last(ckpts))
    BY <2>1, <2>2 DEF Fits, Unpublished
  <2> QED
    BY <2>1, <2>2 DEF Fits
<1>6. ASSUME NEW kind \in {"rl", "sft", "sync"}, Submit(kind) PROVE Fits'
  BY <1>6 DEF Submit, MaySubmit, EnsureRunning, Fits, JobsInv, Sound, AfterSteps
<1>7. CASE WriteJob
  BY <1>7 DEF WriteJob, Fits, JobsInv, Sound, AfterSteps
<1>8. CASE SyncDone
  <2>1. current.kind = "sync" /\ UNCHANGED <<shards, interrupted, ckpts, current>>
    BY <1>8 DEF SyncDone, AllDone
  <2> QED
    BY <2>1 DEF Fits, Kinds
<1>9. CASE Publish
  <2>1. /\ service = "streaming" /\ current.id \in done /\ current.kind # "sync"
        /\ ckpts' = Append(ckpts, staging) /\ UNCHANGED <<shards, interrupted, current>>
    BY <1>9 DEF Publish, AllDone
  <2>2. staging = Result /\ Training
    BY <2>1 DEF Staged, Training
  <2>3. Last(ckpts) \in Seq(Effects) /\ Effect(current) \in Effects
    BY <2>1, CkptsTyped, LastElement DEF Effect, Effects, Numbered, JobsInv, Sound
  <2>4. Last(ckpts') = Result
    <3>1. Result \in Seq(Effects)
      BY <2>3, Appended DEF Result
    <3> QED
      BY <2>1, <2>2, <3>1, CkptsTyped, Appended
  <2>5. ASSUME NEW k \in Kinds, NEW q \in Ranks, ~ interrupted
        PROVE  shards[k][q] = LastOf(k, Last(ckpts'))
    <3>1. LastOf(k, Last(ckpts')) = IF current.kind = k THEN current.id
                                    ELSE LastOf(k, Last(ckpts))
      BY <2>3, <2>4, LastOfAppended DEF Result, Effect
    <3>2. shards[current.kind][q] = current.id
      BY <2>1, <2>2 DEF Stored
    <3>3. current.kind # k => shards[k][q] = LastOf(k, Last(ckpts))
      BY <2>5 DEF Fits
    <3> QED
      BY <3>1, <3>2, <3>3
  <2> QED
    BY <2>1, <2>5 DEF Fits
<1>10. CASE Refuse
  <2>1. interrupted' = TRUE
    BY <1>10 DEF Refuse
  <2> QED
    BY <2>1 DEF Fits
<1>11. CASE Wake
  BY <1>11 DEF Wake, Fits, JobsInv, Sound, AfterSteps
<1>12. CASE Reload
  BY <1>12 DEF Reload, Fits, JobsInv, Sound, AfterSteps
<1>13. CASE CloseVllm
  BY <1>13 DEF CloseVllm, Fits, JobsInv, Sound, AfterSteps
<1>14. CASE CloseEnds
  BY <1>14 DEF CloseEnds, Fits, JobsInv, Sound, AfterSteps
<1>15. CASE VllmEnds
  BY <1>15 DEF VllmEnds, Fits, JobsInv, Sound, AfterSteps
<1>16. CASE WorkerEnds
  BY <1>16 DEF WorkerEnds, WorkerStops, Fits, JobsInv, Sound, AfterSteps
<1>17. CASE WorkerFails
  BY <1>17 DEF WorkerFails, WorkerStops, Fits, JobsInv, Sound, AfterSteps
<1>18. ASSUME NEW r \in Ranks, Boot(r) PROVE Fits'
  BY <1>18 DEF Boot, At, Goes, Offload, Fits, JobsInv, Sound, AfterSteps
<1>19. ASSUME NEW r \in Ranks, List(r) PROVE Fits'
  BY <1>19 DEF List, At, Goes, Fits, JobsInv, Sound, AfterSteps
<1>20. ASSUME NEW r \in Ranks, Ready(r) PROVE Fits'
  BY <1>20 DEF Ready, At, Goes, Fits, JobsInv, Sound, AfterSteps
<1>21. ASSUME NEW r \in Ranks, Load(r) PROVE Fits'
  <2>1. UNCHANGED <<service, ckpts, current, done, shards, interrupted>>
    BY <1>21 DEF Load
  <2>2. \/ rank' = [rank EXCEPT ![r] = "begin"]
        \/ rank' = [q \in Ranks |-> "off"]
    BY <1>21 DEF Load, Goes, WorkerStops
  <2>3. rank[r] = "load"
    BY <1>21 DEF Load, At
  <2>4. rank[0] \in AfterSteps \cup {"off"} => rank'[0] \in AfterSteps \cup {"off"}
    BY <2>2, <2>3 DEF JobsInv, Sound, AfterSteps
  <2> QED
    BY <2>1, <2>4 DEF Fits
<1>22. ASSUME NEW r \in Ranks, Begin(r) PROVE Fits'
  BY <1>22 DEF Begin, At, Goes, Fits, JobsInv, Sound, AfterSteps
<1>23. ASSUME NEW r \in Ranks, SaveShard(r) PROVE Fits'
  <2>1. /\ rank[r] = "shard" /\ worker = "up"
        /\ rank'[0] \in AfterSteps \/ rank'[0] = rank[0]
        /\ shards' = [shards EXCEPT ![held[r].kind][r] = held[r].id]
        /\ UNCHANGED <<service, ckpts, current, done>>
    BY <1>23 DEF SaveShard, At, Goes, AfterSteps, JobsInv, Sound
  <2>6. ~ interrupted' => ~ interrupted /\ service = "streaming"
    BY <1>23, Zenon DEF SaveShard
  <2>2. held[r] = current
    BY <2>1 DEF JobsInv, Sound, InJob, AfterSteps
  <2>3. current.kind \in Kinds /\ rank[0] \in AfterSteps
    BY <2>1 DEF Bases
  <2>4. shards \in [Kinds -> [Ranks -> Nat]]
    BY DEF JobsInv, Sound
  <2>5. ASSUME NEW k \in Kinds, NEW q \in Ranks
        PROVE  shards'[k][q] = (IF k = current.kind /\ q = r THEN current.id ELSE shards[k][q])
    BY <2>1, <2>2, <2>3, <2>4
  <2> QED
    BY <2>1, <2>3, <2>5, <2>6 DEF Fits
<1>24. ASSUME NEW r \in Ranks, Reread(r) PROVE Fits'
  <2>1. UNCHANGED <<service, ckpts, current, done, shards, interrupted>>
    BY <1>24 DEF Reread
  <2>2. \/ rank' = [rank EXCEPT ![r] = "merge"]
        \/ rank' = [q \in Ranks |-> "off"]
    BY <1>24 DEF Reread, Goes, WorkerStops
  <2>3. rank[r] = "reread"
    BY <1>24 DEF Reread, At
  <2>4. rank[0] \in AfterSteps \cup {"off"} => rank'[0] \in AfterSteps \cup {"off"}
    BY <2>2, <2>3 DEF JobsInv, Sound, AfterSteps
  <2> QED
    BY <2>1, <2>4 DEF Fits
<1>25. ASSUME NEW r \in Ranks, After(r) PROVE Fits'
  BY <1>25 DEF After, At, Goes, Offload, Fits, JobsInv, Sound, AfterSteps
<1>26. CASE WriteAdapter
  BY <1>26 DEF WriteAdapter, At, Goes, Fits, JobsInv, Sound, AfterSteps
<1>27. CASE AdapterWritten
  BY <1>27 DEF AdapterWritten, At, Goes, Fits, JobsInv, Sound, AfterSteps
<1>28. CASE RemoveJob
  BY <1>28 DEF RemoveJob, At, Goes, Fits, JobsInv, Sound, AfterSteps
<1>29. CASE LogDone
  <2>1. UNCHANGED <<service, ckpts, current, shards, interrupted>> /\ done' = done \cup {held[0].id}
        /\ rank[0] = "log"
    BY <1>29 DEF LogDone, At
  <2>2. held[0] = current
    BY <2>1 DEF JobsInv, Sound, InJob, AfterSteps
  <2> QED
    BY <2>1, <2>2 DEF Fits
<1>30. CASE Barrier
  BY <1>30 DEF Barrier, Together, Fits, JobsInv, Sound, AfterSteps
<1>31. CASE TrainTogether
  BY <1>31 DEF TrainTogether, Together, Fits, JobsInv, Sound, AfterSteps
<1>32. CASE Finalize
  BY <1>32 DEF Finalize, Together, Fits, JobsInv, Sound, AfterSteps
<1>33. CASE Merge
  BY <1>33 DEF Merge, Together, WorkerStops, Fits, JobsInv, Sound, AfterSteps
<1>34. CASE UNCHANGED vars
  BY <1>34 DEF vars, Fits
<1> QED
  BY <1>1, <1>2, <1>3, <1>4, <1>5, <1>6, <1>7, <1>8, <1>9, <1>10, <1>11, <1>12, <1>13, <1>14,
     <1>15, <1>16, <1>17, <1>18, <1>19, <1>20, <1>21, <1>22, <1>23, <1>24, <1>25, <1>26, <1>27,
     <1>28, <1>29, <1>30, <1>31, <1>32, <1>33, <1>34
     DEF Next, ServiceSteps, RankSteps, RankZeroSteps, Collectives


LEMMA InitWhole == Init => WholeInv
<1> SUFFICES ASSUME Init PROVE WholeInv
  OBVIOUS
<1>1. IInv
  BY InitInv
<1>2. /\ Len(ckpts) = 1 /\ Last(ckpts) = <<>> /\ service = "down" /\ worker = "off"
      /\ \A r \in Ranks : rank[r] = "off"
  BY DEF Init, Last
<1>3. rank[0] = "off"
  BY <1>2, ZeroIsRank
<1>4. Types
  <2>1. Places
    <3>1. mode \in Modes /\ jobFile.whole \in BOOLEAN
      BY NoFileWhole DEF Init
    <3> QED
      BY <3>1 DEF Init, Places
  <2>2. Counts
    <3>1. current \in [id : 0 .. MaxJobs, kind : Kinds \cup {"none", "sync"}, step : Nat]
      BY BoundsAssumption DEF Init, NoJob
    <3>2. latest \in 0 .. LatestStep /\ shards \in [Kinds -> [Ranks -> 0 .. MaxJobs]]
      BY <1>2, BoundsAssumption DEF Init, LatestStep
    <3> QED
      BY <1>2, <3>1, <3>2 DEF Init, Counts
  <2> QED
    BY <1>1, <2>1, <2>2, TypesParts DEF IInv
<1>5. Agree
  BY <1>2 DEF Agree, Training
<1>6. Bases
  BY <1>2, <1>3 DEF Bases, Before, BeforeJob, AfterSteps
<1>7. Fits
  <2>1. \A k \in Kinds : LastOf(k, Last(ckpts)) = 0
    BY <1>2, LastOfEmpty
  <2> QED
    BY <2>1 DEF Init, Fits
<1>8. Phases
  BY <1>2 DEF Phases, Past, Found
<1> QED
  BY <1>1, <1>4, <1>5, <1>6, <1>7, <1>8 DEF WholeInv

LEMMA StepWhole == WholeInv /\ [Next]_vars => WholeInv'
<1> SUFFICES ASSUME WholeInv, [Next]_vars PROVE WholeInv'
  OBVIOUS
<1>1. IInv /\ Types /\ Agree /\ Bases /\ Fits /\ Phases
  BY DEF WholeInv
<1>2. IInv'
  BY <1>1, StepInv
<1>3. /\ JobsInv /\ Numbered /\ Staged /\ Stored
      /\ JobsInv' /\ Numbered'
  BY <1>1, <1>2 DEF IInv
<1>4. Types'
  <2>1. Places /\ Counts
    BY <1>1, <1>3, TypesParts
  <2>2. Places' /\ Counts'
    BY <1>1, <1>3, <2>1, PlacesStep, CountsStep
  <2>3. Numbered' => (Types' <=> Places' /\ Counts')
    BY TypesParts, PTL
  <2> QED
    BY <1>3, <2>2, <2>3
<1>5. Agree' /\ Bases' /\ Fits' /\ Phases'
  BY <1>1, <1>3, AgreeStep, BasesStep, FitsStep, PhasesStep
<1> QED
  BY <1>2, <1>4, <1>5 DEF WholeInv

\* Disk, service, vLLM and ranks agree on the step, on the weights that are trained and on
\* the optimizer state, and no rank is left behind a collective.
THEOREM WholeInvariant == Spec => []WholeInv
  BY InitWhole, StepWhole, PTL DEF Spec

\* OptimizerFits: a rank trains with the optimizer state of the weights it trains, unless a
\* job had saved a shard and its checkpoint was not published (megatron/train.py:
\* _save_optimizer writes to the directory _load_lora_and_optimizer reads).
THEOREM OptimizerFitsHolds == Spec => []OptimizerFits
<1>1. WholeInv => OptimizerFits
  <2> SUFFICES ASSUME WholeInv, ~ interrupted, NEW r \in Ranks, NEW q \in Ranks,
                      rank[r] = "step"
               PROVE  shards[held[r].kind][q] = LastOf(held[r].kind, weights[r])
    BY DEF OptimizerFits
  <2>1. Bases /\ Fits /\ JobsInv
    BY DEF WholeInv, IInv
  <2>2. held[r] = current /\ worker = "up"
    BY <2>1 DEF JobsInv, Sound, InJob
  <2>3. current.kind \in Kinds /\ weights[r] = Last(ckpts)
    BY <2>1 DEF Bases
  <2>4. rank[0] \notin AfterSteps \cup {"off"}
    <3>1. rank[0] \notin AfterSteps
      BY <2>1, <2>3 DEF Bases, Before, Kinds
    <3>2. rank[0] \in Before \cup AfterSteps
      BY <2>1, <2>2, ZeroIsRank DEF JobsInv, Sound
    <3> QED
      BY <3>1, <3>2 DEF Before, BeforeJob
  <2>5. ~ (service = "streaming" /\ current.id \in done)
    BY <2>1, <2>2 DEF JobsInv, Submits, Quiet
  <2> QED
    BY <2>1, <2>2, <2>3, <2>4, <2>5 DEF Fits
<1> QED
  BY <1>1, WholeInvariant, PTL

\* RanksTogether: the types, and that ranks in a job are in the same one and do not wait
\* for one at the barrier, unless the job came or went while they listed the directory
\* (megatron/train.py: the loop of run_megatron_worker_loop).
THEOREM RanksTogetherHolds == Spec => []RanksTogether
<1>1. WholeInv => RanksTogether
  <2> SUFFICES ASSUME WholeInv PROVE RanksTogether
    OBVIOUS
  <2>1. TypeOK /\ Phases /\ Sound
    BY DEF WholeInv, IInv, JobsInv, Types
  <2> DEFINE inJob == {r \in Ranks : rank[r] \in {"begin", "step", "write", "written", "shard",
                                                  "reread", "merge", "after", "finalize"}}
  <2>2. \A q, r \in inJob : held[r] = held[q]
    BY <2>1 DEF Sound, InJob, AfterSteps
  <2>3. ASSUME ~ split, NEW q \in inJob, NEW r \in Ranks PROVE rank[r] # "barrier"
    <3>1. CASE rank[q] \in Past \ {"merge"}
      BY <2>1, <3>1 DEF Phases, Past
    <3>2. CASE rank[q] \in Found
      BY <2>1, <2>3, <3>2 DEF Phases
    <3> QED
      BY <3>1, <3>2 DEF Past, Found
  <2> QED
    BY <2>1, <2>2, <2>3 DEF RanksTogether
<1> QED
  BY <1>1, WholeInvariant, PTL

\* StepsAgree: the step a job trains is free on disk when it is published, and vLLM serves
\* the step the service remembers with the weights published for it (service.py:
\* _publish_staged_training_checkpoint, _reload_adapter, register_lora_for_step).
THEOREM StepsAgreeHolds == Spec => []StepsAgree
<1>1. WholeInv => StepsAgree
  <2> SUFFICES ASSUME WholeInv PROVE StepsAgree
    OBVIOUS
  <2>1. Agree /\ latest \in 0 .. LatestStep /\ Numbered
    BY DEF WholeInv, Types, TypeOK, IInv
  <2>2. latest < Len(ckpts)
    BY <2>1, CkptsTyped DEF LatestStep
  <2> QED
    BY <2>1, <2>2 DEF StepsAgree, Agree, Training
<1> QED
  BY <1>1, WholeInvariant, PTL

=============================================================================
