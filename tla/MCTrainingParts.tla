--------------------------- MODULE MCTrainingParts ---------------------------
(***************************************************************************)
(* Small instances for TLC of five parts of training that share no state:  *)
(* UnslothTraining, PackedRows, ContextParallel, WeightStreaming and       *)
(* PrefixCache.  One run explores them all: `part' says which of them      *)
(* takes steps, and the variables of the others keep their values.         *)
(***************************************************************************)
EXTENDS UnslothTraining, WeightStreaming

VARIABLES
    part,
    packCall, mask, taken, rows, packed, packPc,
    plan, rankPc, calls, completed, buffer, pending, out, grad,
    trie, lru, found

packVars == <<packCall, mask, taken, rows, packed, packPc>>
rankVars == <<plan, rankPc, calls, completed, buffer, pending, out, grad>>
cacheVars == <<trie, lru, found>>
allVars == <<part, vars, packVars, rankVars, streamVars, cacheVars>>
-----------------------------------------------------------------------------
\* Results, requests and configurations of packing.
R(tokens, train, prompt) == [tokens |-> tokens, train |-> train, prompt |-> prompt]

SmallResults == {R(<<1, 2>>, {2}, 1), R(<<1, 1, 2>>, {3}, 2), R(<<1, 1, 1>>, {3}, 2),
                 R(<<1, 1, 2, 1>>, {3, 4}, 2), R(<<1, 1, 2, 2>>, {4}, 3),
                 R(<<1, 2, 1, 1>>, {2, 4}, 3), R(<<1, 1>>, {1}, 1), R(<<1, 2>>, {1, 2}, 1),
                 R(<<1, 1, 2, 1, 1, 2, 1>>, {6}, 4)}
SmallRequests == {<<1>>, <<1, 2>>, <<1, 1, 2>>, <<1, 1, 1>>, <<2, 1>>, <<1, 1, 2, 1>>}
SmallCalls ==
    [kind : {"pack"}, seqLen : {6}, truncate : BOOLEAN, packResults : BOOLEAN,
     maxDepth : {0}, multiple : {1}]
    \cup [kind : {"forward"}, seqLen : {0}, truncate : {FALSE}, packResults : {TRUE},
          maxDepth : 0 .. 2, multiple : {2}]
SmallMasks == {[window |-> 0, qBlock |-> 2, kBlock |-> 2],
               [window |-> 2, qBlock |-> 2, kBlock |-> 3]}

Packing == INSTANCE PackedRows WITH
    Results <- SmallResults, Requests <- SmallRequests, MaxTaken <- 3, Calls <- SmallCalls,
    Masks <- SmallMasks, call <- packCall, pc <- packPc
-----------------------------------------------------------------------------
\* Rows of a context-parallel group: a prompt and two answers; two prompts, one with
\* nested branches, and padding at the end; a row shorter than the group.
Row(groups, parents, pos) == [groups |-> groups, parents |-> parents, pos |-> pos]

SmallRows == {Row(<<1, 1, 2, 2, 2, 3>>, <<1, 1, 1, 1, 1, 1>>, <<1, 2, 3, 4, 5, 3>>),
              Row(<<1, 2, 3, 4, 5, -1>>, <<1, 1, 2, 2, 5, -1>>, <<1, 2, 3, 3, 1, 1>>),
              Row(<<1, -1>>, <<1, -1>>, <<1, 1>>)}
SmallCases ==
    {[groups |-> row.groups, parents |-> row.parents, pos |-> row.pos,
      cpSize |-> cp, chunkSize |-> 2, maxWaves |-> 2, window |-> window,
      qBlock |-> 2, kBlock |-> 2] :
        row \in SmallRows, cp \in {2, 3}, window \in {0, 2}}
    \cup
    {[groups |-> row.groups, parents |-> row.parents, pos |-> row.pos,
      cpSize |-> 2, chunkSize |-> 1, maxWaves |-> 2, window |-> 0,
      qBlock |-> 3, kBlock |-> 2] : row \in SmallRows}

Attention == INSTANCE ContextParallel WITH
    Cases <- SmallCases, MaxRanks <- 3, pc <- rankPc

\* Every number of resident layers, from one that is loaded when it is needed to as many as
\* there are slots.
AnyResidents == 1 .. NumSlots

Cache == INSTANCE PrefixCache WITH
    Texts <- {<<1>>, <<1, 1>>, <<1, 2>>, <<1, 2, 1>>, <<1, 2, 2>>},
    Raws <- {"raw"}, MaxEntries <- 3
-----------------------------------------------------------------------------
None == "none"

PartsInit ==
    /\ part \in {"unsloth", "packing", "attention", "streaming", "cache"}
    /\ Init /\ (part # "unsloth" => mode = "shared")
    /\ StreamInit /\ (part # "streaming" => resident = 1)
    /\ IF part = "packing" THEN Packing!Init
       ELSE packCall = None /\ mask = None /\ taken = None /\ rows = None /\ packed = None
            /\ packPc = None
    /\ IF part = "attention" THEN Attention!Init
       ELSE plan = None /\ rankPc = None /\ calls = None /\ completed = None
            /\ buffer = None /\ pending = None /\ out = None /\ grad = None
    /\ IF part = "cache" THEN Cache!Init ELSE trie = None /\ lru = None /\ found = None

PartsNext ==
    \/ /\ part = "unsloth" /\ Next
       /\ UNCHANGED <<part, packVars, rankVars, streamVars, cacheVars>>
    \/ /\ part = "packing" /\ Packing!Next
       /\ UNCHANGED <<part, vars, rankVars, streamVars, cacheVars>>
    \/ /\ part = "attention" /\ Attention!Next
       /\ UNCHANGED <<part, vars, packVars, streamVars, cacheVars>>
    \/ /\ part = "streaming" /\ StreamNext
       /\ UNCHANGED <<part, vars, packVars, rankVars, cacheVars>>
    \/ /\ part = "cache" /\ Cache!Next
       /\ UNCHANGED <<part, vars, packVars, rankVars, streamVars>>
-----------------------------------------------------------------------------
\* Each part's own fairness.
PartsSpec ==
    /\ PartsInit /\ [][PartsNext]_allVars
    /\ WF_vars(part = "unsloth" /\ Steps)
    /\ WF_vars(part = "unsloth" /\ StepFails)
    /\ WF_rankVars(part = "attention" /\ Attention!Exchange)
    /\ \A r \in 0 .. 2 : WF_rankVars(part = "attention" /\ Attention!RankNext(r))
    /\ WF_streamVars(part = "streaming" /\ Between)
    /\ WF_streamVars(part = "streaming" /\ Hook)
    /\ WF_streamVars(part = "streaming" /\ Loader)
    /\ WF_streamVars(part = "streaming" /\ KernelEnds)
    /\ WF_streamVars(part = "streaming"
                     /\ (TransferBegins \/ TransferEnds))
-----------------------------------------------------------------------------
\* The properties of UnslothTraining and WeightStreaming are checked under their own names;
\* those of the other parts are put together here, each for its part.

\* The state of every part keeps its types.  The trie of the prefix cache is well formed:
\* links agree in both directions through splits and merges, eviction leaves no node that
\* neither holds an entry nor branches, and the order of use lists each entry once.
PartsWellFormed ==
    CASE part = "packing"   -> Packing!TypeOK
      [] part = "attention" -> Attention!TypeOK
      [] part = "streaming" -> StreamTypeOK
      [] part = "cache"     -> /\ Cache!TypeOK /\ Cache!LinksAgree
                               /\ Cache!StaysBounded /\ Cache!ListedOnce
      [] OTHER              -> TypeOK

\* A packed sequence is trained as if it were alone in its row: it is not refused and not
\* cut, its tokens attend to its own prefix and nothing else, and the token before a
\* trainable one is at its side, where the shifted loss reads it; the slices of its mask
\* hold all that it attends to (pack.py, block_mask.py, builder.py).
PackedAsAlone ==
    part = "packing" =>
        /\ Packing!NeverRefused /\ Packing!NothingCut
        /\ Packing!AttendsOwnPrefix /\ Packing!LossAdjacent /\ Packing!SlicesCover

\* Over the ranks of a context-parallel group each query is given each key it attends to
\* once, and no other; in the backward pass each key gets its gradient from each such
\* query, once; all ranks enter the same exchanges in the same order with matching sizes,
\* none of them gets stuck, and each stage gets the keys its mask was built for
\* (runtime.py, executor.py, comm.py).
AttentionExact ==
    part = "attention" =>
        /\ Attention!EachPairOnce /\ Attention!GradientsHome /\ Attention!CallsAgree
        /\ Attention!ExchangesFit /\ Attention!StagesGetTheirKeys
        /\ Attention!StageSlicesCover

\* No rank waits for ever in an exchange, and no training thread for a load: a job that
\* streams its weights ends or fails.
PartsEnd ==
    /\ part = "attention" ~> (part = "attention" /\ Attention!AllDone)
    /\ (part = "streaming" /\ stage = "between")
           ~> (part = "streaming" /\ stage \in {"idle", "failed"})

\* The trie implements the list of prefixes a reader expects of the cache
\* (PrefixList): lookups return the longest prefix, evictions take the oldest.
CacheKeepsPrefixList ==
    /\ part = "cache" => Cache!Abstract!Init
    /\ [][part = "cache" => [Cache!Abstract!Next]_(Cache!Abstract!vars)]_cacheVars
=============================================================================
