--------------------------- MODULE ContextParallel ---------------------------
(***************************************************************************)
(* The attention of one packed row over the ranks of a context-parallel    *)
(* group (art/megatron/context_parallel): the row is cut in chunks, each   *)
(* rank owns some of them, and keys and values travel to the ranks whose   *)
(* queries attend to them, in waves of all-to-all exchanges; in the        *)
(* backward pass the gradients of the keys travel back.                    *)
(*                                                                         *)
(* A tensor is the sequence of the tokens its rows belong to.  What a      *)
(* kernel computes is which query attends to which key, and a gradient is  *)
(* for a key the queries it comes from, with how often.                    *)
(***************************************************************************)
EXTENDS PrefixMask

CONSTANTS Cases,       \* what the planner is given: a set of [groups, parents, pos,
                       \* cpSize, chunkSize, maxWaves, window, qBlock, kBlock]
          MaxRanks     \* the largest cpSize

Ranks == 0 .. MaxRanks - 1

VARIABLES
    plan,       \* the case with the planner's choice, and each rank's stages
    pc,         \* where each rank is
    calls,      \* the collectives each rank has launched, in order
    completed,  \* how many collectives the group has been through
    buffer,     \* what each rank received in each collective
    pending,    \* the remote stages each rank has not merged yet
    out,        \* out[q][k]: how often the output of q has been given key k
    grad        \* grad[k][q]: how often key k has been given its gradient from q
vars == <<plan, pc, calls, completed, buffer, pending, out, grad>>

Group == 0 .. plan.cpSize - 1
-----------------------------------------------------------------------------
(***************************************************************************)
(* The planner (runtime.py).                                               *)
(***************************************************************************)
CeilDiv(n, d) == (n + d - 1) \div d
Low(x, y) == IF x < y THEN x ELSE y

\* _build_chunk_ranges; when a rank would get no chunk they are made smaller.
ChunkSize(c) ==
    LET valid == ValidLength(c.groups)
        size == Low(c.chunkSize, valid)
    IN  IF CeilDiv(valid, size) < c.cpSize /\ valid >= c.cpSize
        THEN valid \div c.cpSize ELSE size

Chunks(c) ==
    LET valid == ValidLength(c.groups)
        size == ChunkSize(c)
    IN  [n \in 1 .. CeilDiv(valid, size) |->
            {p \in 1 .. valid : (p - 1) \div size = n - 1}]

\* _search_chunk_assignment starts from consecutive shares and moves chunks from
\* the slowest rank while its estimate of the time improves; the estimate is not
\* modelled, so any assignment that leaves no rank without a chunk may come out.
Assignments(c) ==
    {f \in [DOMAIN Chunks(c) -> 0 .. c.cpSize - 1] :
        Len(Chunks(c)) >= c.cpSize => {f[n] : n \in DOMAIN f} = 0 .. c.cpSize - 1}

\* _wave_assignment
Waves(c, count) ==
    [n \in DOMAIN Chunks(c) |-> ((n - 1) * count) \div Len(Chunks(c)) + 1]

\* _resolve_stage_mask_kind
PieceKind(kind, q, k) ==
    IF kind = "full" \/ Max(k) < Min(q) THEN "full"
    ELSE IF Min(k) > Max(q) THEN "none" ELSE "causal"

\* The part of a slice with its queries in chunk x and its keys in chunk y.
Piece(chunks, owner, wave, s, x, y) ==
    LET q == s.q \cap chunks[x]
        k == s.k \cap chunks[y]
    IN  [q |-> q, k |-> k, host |-> owner[x], source |-> owner[y], wave |-> wave[y],
         kind |-> IF q = {} \/ k = {} THEN "none" ELSE PieceKind(s.kind, q, k)]

\* The slices cut along the chunks, with the owners of queries and keys.
Pieces(c, owner, wave) ==
    LET chunks == Chunks(c) IN
    {p \in {Piece(chunks, owner, wave, s, x, y) :
                s \in Slices(ParseRow(c.groups, c.parents)),
                x \in DOMAIN chunks, y \in DOMAIN chunks} : p.kind # "none"}

\* In the order of the row.
Sorted(tokens) ==
    [i \in 1 .. Cardinality(tokens) |->
        CHOOSE t \in tokens : Cardinality({u \in tokens : u < t}) = i - 1]
Queries(pieces) == UNION {p.q : p \in pieces}
Keys(pieces) == UNION {p.k : p \in pieces}
PadTo(tokens, size) ==
    tokens \o [i \in 1 .. CeilDiv(Len(tokens), size) * size - Len(tokens) |-> 0]

\* request_ranges_by_source, send_ranges_by_peer: the keys r receives from s, and
\* sends to p, in wave w.
Received(pieces, r, w, s) ==
    Sorted(Keys({x \in pieces : x.host = r /\ x.source = s /\ x.wave = w /\ s # r}))
Sent(pieces, r, w, p) ==
    Sorted(Keys({x \in pieces : x.source = r /\ x.host = p /\ x.wave = w /\ p # r}))

\* Mutant: the keys of a stage in the order of the row.
StageKeysSorted(c, pieces, r, w) ==
    Sorted(Keys({x \in pieces : x.host = r /\ x.source # r /\ x.wave = w}))

\* The keys of a remote stage, as they come out of the exchange: by source.
StageKeys(c, pieces, r, w) ==
    FlattenSeq([s \in 1 .. c.cpSize |-> Received(pieces, r, w, s - 1)])

\* _build_stage_from_pieces: the pieces over the stage's own rows, and its mask.
Stage(c, pieces, keys, span) ==
    LET q == Sorted(Queries(pieces))
        at(seq, tokens) == {i \in DOMAIN seq : seq[i] \in tokens}
        m == [q |-> PadTo(q, c.qBlock), k |-> PadTo(keys, c.kBlock),
              slices |-> {[q |-> at(q, p.q), k |-> at(keys, p.k), kind |-> p.kind] :
                              p \in pieces},
              enter |-> span.enter, exit |-> span.exit, pos |-> c.pos,
              window |-> c.window, qBlock |-> c.qBlock, kBlock |-> c.kBlock]
    IN  [q |-> q, k |-> keys, mask |-> m, sees |-> Attended(m)]

\* _build_rank_runtime_plan, for every rank: stage 0 is the local one.
Stages(c, pieces, count) ==
    LET span == Intervals(c.groups, c.parents)
        own(r) == {x \in pieces : x.host = r /\ x.source = r}
        remote(r, w) == {x \in pieces : x.host = r /\ x.source # r /\ x.wave = w}
    IN  [r \in 0 .. c.cpSize - 1 |-> [w \in 0 .. count |->
            IF w = 0 THEN Stage(c, own(r), Sorted(Keys(own(r))), span)
            ELSE Stage(c, remote(r, w), StageKeys(c, pieces, r, w), span)]]

Planned(c, owner, count) ==
    LET pieces == Pieces(c, owner, Waves(c, count)) IN
    [groups |-> c.groups, parents |-> c.parents, pos |-> c.pos, window |-> c.window,
     cpSize |-> c.cpSize, maxWaves |-> count,
     owned |-> [r \in 0 .. c.cpSize - 1 |->
                   UNION {Chunks(c)[n] : n \in {m \in DOMAIN owner : owner[m] = r}}],
     stages |-> Stages(c, pieces, count),
     sent |-> [r \in 0 .. c.cpSize - 1 |-> [w \in 1 .. count |->
                  [p \in 0 .. c.cpSize - 1 |-> Sent(pieces, r, w, p)]]],
     received |-> [r \in 0 .. c.cpSize - 1 |-> [w \in 1 .. count |->
                  [s \in 0 .. c.cpSize - 1 |-> Received(pieces, r, w, s)]]]]

WaveCount == plan.maxWaves
Positions == DOMAIN plan.groups
-----------------------------------------------------------------------------
(***************************************************************************)
(* The group's collectives (comm.py).  A call names its wave and holds the *)
(* rows for each peer and how many it expects of each.  The n-th calls of  *)
(* all ranks are one exchange: it takes place when all have launched it,   *)
(* and only if what each sends is what the other expects.                  *)
(***************************************************************************)
FetchCall(r, w) ==
    [kind |-> "fetch", wave |-> w, rows |-> plan.sent[r][w],
     expects |-> [s \in Group |-> Len(plan.received[r][w][s])]]

\* launch_dkv_reduce: row j of the stage's keys, with the queries that saw it.
Contribution(stage, j) ==
    {stage.q[i] : i \in {x \in DOMAIN stage.q : <<x, j>> \in stage.sees}}

\* _slice_peer_rows: where the rows of source s begin among those received.
Offset(received, s) ==
    FoldFunctionOnSet(LAMBDA tokens, n : n + Len(tokens), 0, received, 0 .. s - 1)

ReduceCall(r, w) ==
    LET stage == plan.stages[r][w] IN
    [kind |-> "reduce", wave |-> w,
     rows |-> [s \in Group |-> [j \in DOMAIN plan.received[r][w][s] |->
                                   Contribution(stage, Offset(plan.received[r][w], s) + j)]],
     expects |-> [p \in Group |-> Len(plan.sent[r][w][p])]]

Fits(n) ==
    \A r, p \in Group : /\ calls[r][n].kind = calls[p][n].kind
                        /\ Len(calls[r][n].rows[p]) = calls[p][n].expects[r]

Exchange ==
    LET n == completed + 1 IN
    /\ \A r \in Group : n <= Len(calls[r])
    /\ Fits(n)
    /\ completed' = n
    /\ buffer' = [r \in Ranks |-> IF r \in Group
                   THEN Append(buffer[r], [p \in Group |-> calls[p][n].rows[r]])
                   ELSE buffer[r]]
    /\ UNCHANGED <<plan, pc, calls, pending, out, grad>>
-----------------------------------------------------------------------------
(***************************************************************************)
(* A rank (executor.py).                                                   *)
(***************************************************************************)
\* The outputs of a stage whose keys hold these tokens.
Merged(stage, tokens) ==
    [q \in Positions |-> [k \in Positions |->
        out[q][k] + Cardinality({p \in stage.sees : stage.q[p[1]] = q
                                                    /\ tokens[p[2]] = k})]]

Init ==
    /\ \E c \in Cases : \E count \in 1 .. Low(c.maxWaves, Len(Chunks(c))) :
       \E owner \in Assignments(c) : plan = Planned(c, owner, count)
    /\ pc = [r \in Ranks |-> IF r \in Group THEN "fetch" ELSE "done"]
    /\ calls = [r \in Ranks |-> <<>>]
    /\ completed = 0
    /\ buffer = [r \in Ranks |-> <<>>]
    /\ pending = [r \in Ranks |-> {}]
    /\ out = [q \in Positions |-> [k \in Positions |-> 0]]
    /\ grad = [k \in Positions |-> [q \in Positions |-> 0]]

\* Every wave's exchange is launched, in order, also those without rows; a stage
\* with queries, keys and slices is waited for.
LaunchFetches(r) ==
    /\ pc[r] = "fetch"
    /\ calls' = [calls EXCEPT ![r] = [w \in 1 .. WaveCount |-> FetchCall(r, w)]]
    /\ pending' = [pending EXCEPT ![r] =
                      {w \in 1 .. WaveCount : /\ plan.stages[r][w].q # <<>>
                                              /\ plan.stages[r][w].k # <<>>}]
    /\ pc' = [pc EXCEPT ![r] = "local"]
    /\ UNCHANGED <<plan, completed, buffer, out, grad>>

RunLocal(r) ==
    /\ pc[r] = "local"
    /\ out' = Merged(plan.stages[r][0], plan.stages[r][0].k)
    /\ pc' = [pc EXCEPT ![r] = "remote"]
    /\ UNCHANGED <<plan, calls, completed, buffer, pending, grad>>

\* _ready_remote_stage_batch: a stage whose exchange is over runs; while none is
\* over the rank waits for the first.
RunReady(r) ==
    /\ pc[r] = "remote"
    /\ \E w \in pending[r] :
           /\ w <= completed
           /\ out' = Merged(plan.stages[r][w],
                            FlattenSeq([s \in 1 .. plan.cpSize |-> buffer[r][w][s - 1]]))
           /\ pending' = [pending EXCEPT ![r] = @ \ {w}]
    /\ UNCHANGED <<plan, pc, calls, completed, buffer, grad>>

\* _drain_launched_remote_fetch_works, and the backward pass begins.
Drain(r) ==
    /\ pc[r] = "remote" /\ pending[r] = {} /\ completed >= WaveCount
    /\ pc' = [pc EXCEPT ![r] = "backward"]
    /\ UNCHANGED <<plan, calls, completed, buffer, pending, out, grad>>

\* A stage's own gradients, added at the tokens of its keys.
Given(sofar, tokens, rows) ==
    [k \in Positions |-> [q \in Positions |->
        sofar[k][q] + Cardinality({j \in DOMAIN rows : tokens[j] = k /\ q \in rows[j]})]]

\* Mutant: a stage that did not run is passed over.
LaunchReducesRun(r) ==
    LET local == plan.stages[r][0]
        run == SelectSeq([w \in 1 .. WaveCount |-> w],
                         LAMBDA w : plan.stages[r][w].k # <<>>)
    IN
    /\ pc[r] = "backward"
    /\ calls' = [calls EXCEPT ![r] = @ \o [n \in DOMAIN run |-> ReduceCall(r, run[n])]]
    /\ grad' = Given(grad, local.k, [j \in DOMAIN local.k |-> Contribution(local, j)])
    /\ pc' = [pc EXCEPT ![r] = "reduce"]
    /\ UNCHANGED <<plan, completed, buffer, pending, out>>

\* The stages backward, the local one last; the reductions of the others are
\* launched on the way, also of stages that had nothing to do.
LaunchReduces(r) ==
    LET local == plan.stages[r][0] IN
    /\ pc[r] = "backward"
    /\ calls' = [calls EXCEPT ![r] = @ \o [w \in 1 .. WaveCount |-> ReduceCall(r, w)]]
    /\ grad' = Given(grad, local.k, [j \in DOMAIN local.k |-> Contribution(local, j)])
    /\ pc' = [pc EXCEPT ![r] = "reduce"]
    /\ UNCHANGED <<plan, completed, buffer, pending, out>>

\* What a rank has received in the reduction of wave w, at the keys it had sent.
Returned(r, w, sofar) ==
    FoldFunctionOnSet(LAMBDA pair, acc : Given(acc, pair[1], pair[2]), sofar,
                      [p \in Group |-> <<plan.sent[r][w][p],
                                         buffer[r][WaveCount + w][p]>>], Group)

\* wait_post_process of every reduction.
FinishBackward(r) ==
    /\ pc[r] = "reduce" /\ completed >= 2 * WaveCount
    /\ grad' = FoldLeft(LAMBDA acc, w : Returned(r, w, acc), grad,
                        [w \in 1 .. WaveCount |-> w])
    /\ pc' = [pc EXCEPT ![r] = "done"]
    /\ UNCHANGED <<plan, calls, completed, buffer, pending, out>>

RankNext(r) == LaunchFetches(r) \/ RunLocal(r) \/ RunReady(r) \/ Drain(r)
               \/ LaunchReduces(r) \/ FinishBackward(r)

AllDone == \A r \in Ranks : pc[r] = "done"

Next == (\E r \in Ranks : RankNext(r)) \/ Exchange \/ (AllDone /\ UNCHANGED vars)

FairSpec == /\ Init /\ [][Next]_vars
            /\ WF_vars(Exchange) /\ \A r \in Ranks : WF_vars(RankNext(r))
-----------------------------------------------------------------------------
\* The planner's cases: there are ranks, a row has tokens, and there is a wave.
CasesGood ==
    /\ MaxRanks \in Nat
    /\ \A c \in Cases :
           /\ c.groups \in Seq(Int) /\ ValidLength(c.groups) >= 1
           /\ c.cpSize \in 1 .. MaxRanks
           /\ c.chunkSize \in Nat \ {0} /\ c.maxWaves \in Nat \ {0}

TypeOK ==
    /\ CasesGood
    /\ pc \in [Ranks -> {"fetch", "local", "remote", "backward", "reduce", "done"}]
    /\ completed \in 0 .. 2 * WaveCount
    /\ \A r \in Ranks : pending[r] \subseteq 1 .. WaveCount
    /\ \A q, k \in Positions : out[q][k] \in 0 .. 1 /\ grad[k][q] \in 0 .. 1

\* The keys that token q attends to in the row: those before it of its own segment
\* and of the segments above.
Visible(q) ==
    LET segs == ToSet(ParseRow(plan.groups, plan.parents))
        own == CHOOSE s \in segs : q \in s.range
    IN  {k \in 1 .. q : /\ \E s \in segs : /\ k \in s.range
                                           /\ s = own \/ s.group \in ToSet(own.ancestors)
                        /\ plan.window # 0 => plan.pos[q] - plan.pos[k] < plan.window}

\* After a rank's forward pass each of its tokens has been given every key it
\* attends to once, wherever the key lives, and no other.
EachPairOnce ==
    \A r \in Group : pc[r] \in {"backward", "reduce", "done"} =>
        \A q \in plan.owned[r] : \A k \in Positions :
            out[q][k] = IF k \in Visible(q) THEN 1 ELSE 0

\* After the backward pass each key has its gradient from every query that attended
\* to it, once.
GradientsHome ==
    AllDone => \A k \in Positions : \A q \in 1 .. ValidLength(plan.groups) :
                   grad[k][q] = IF k \in Visible(q) THEN 1 ELSE 0

\* All ranks of the group enter the same collectives in the same order, and each
\* expects of each peer what the peer sends (the comment in _launch_peer_exchange).
CallsAgree ==
    \A r, p \in Group : \A n \in DOMAIN calls[r] \cap DOMAIN calls[p] :
        /\ calls[r][n].kind = calls[p][n].kind /\ calls[r][n].wave = calls[p][n].wave
        /\ Len(calls[r][n].rows[p]) = calls[p][n].expects[r]

\* An exchange that all ranks have launched takes place: what each rank sends each other
\* has the size that one expects (the all_to_all_single calls of comm.py).
ExchangesFit ==
    (\A r \in Group : completed + 1 <= Len(calls[r])) => Fits(completed + 1)

\* What a rank receives in a wave are the keys its stage was planned for, in the order its
\* mask was built for (_build_stage_from_pieces, _slice_peer_rows).
StagesGetTheirKeys ==
    \A r \in Group : \A w \in 1 .. WaveCount : w <= completed =>
        FlattenSeq([s \in 1 .. plan.cpSize |-> buffer[r][w][s - 1]]) = plan.stages[r][w].k

\* The slices of a stage, cut and gathered by source, hold every pair of its queries and
\* keys that the intervals let see.
StageSlicesCover ==
    \A r \in Group : pc[r] = "fetch" =>
        \A w \in 0 .. WaveCount : MaskFits(plan.stages[r][w].mask)

\* No rank waits for ever in an exchange.
RanksEnd == <>AllDone
=============================================================================
