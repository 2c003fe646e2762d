------------------------------ MODULE PrefixMask ------------------------------
(***************************************************************************)
(* Who attends to whom in a packed row: the row read back as a tree of     *)
(* segments (art/megatron/prefix_tree.py), the attention as slices         *)
(* (context_parallel/builder.py), and the sparse mask of blocks that the   *)
(* kernels run (context_parallel/block_mask.py).                           *)
(*                                                                         *)
(* Positions count from 1 and a range is a set of positions.               *)
(***************************************************************************)
EXTENDS Integers, Sequences, FiniteSets, SequencesExt, FiniteSetsExt

Padding == -1

(***************************************************************************)
(* The row as a tree.                                                      *)
(***************************************************************************)
ValidLength(groups) == Cardinality({p \in DOMAIN groups : groups[p] # Padding})

RunStarts(groups) ==
    {p \in 1 .. ValidLength(groups) : p = 1 \/ groups[p - 1] # groups[p]}

RunFrom(groups, p) ==
    {q \in p .. Len(groups) : \A r \in p .. q : groups[r] = groups[p]}

\* The parser raises on any other row.
Accepted(groups, parents) ==
    LET valid == ValidLength(groups)
        starts == RunStarts(groups)
    IN  /\ \A p \in 1 .. valid : groups[p] # Padding
        /\ \A p, q \in starts : groups[p] = groups[q] => p = q
        /\ \A p \in starts : \A q \in RunFrom(groups, p) : parents[q] = parents[p]
        /\ \A p \in starts : parents[p] # groups[p] =>
               \E q \in starts : q < p /\ groups[q] = parents[p]

\* The segments in the order of the row; the ancestors of each, root first.
ParseRow(groups, parents) ==
    LET above(segs, g) == SelectSeq(segs, LAMBDA s : s.group = g)[1]
        add(segs, p) ==
            Append(segs,
                [group |-> groups[p], range |-> RunFrom(groups, p),
                 ancestors |-> IF groups[p] = parents[p] THEN <<>>
                               ELSE Append(above(segs, parents[p]).ancestors,
                                           parents[p])])
    IN  FoldLeft(add, <<>>, SetToSortSeq(RunStarts(groups), <))

(***************************************************************************)
(* The attention as slices: a segment sees the whole of its ancestors, and *)
(* of itself what is not later.                                            *)
(***************************************************************************)
Slices(segs) ==
    UNION {LET s == segs[i] IN
           {[q |-> s.range, k |-> a.range, kind |-> "full"] :
                a \in {t \in ToSet(segs) : t.group \in ToSet(s.ancestors)}}
           \cup {[q |-> s.range, k |-> s.range, kind |-> "causal"]}
           : i \in DOMAIN segs}

\* prefix_tree_state.py adds a slice for the padding of the row.
PaddedSlices(groups, segs) ==
    LET tail == ValidLength(groups) + 1 .. Len(groups)
    IN  Slices(segs) \cup IF tail = {} THEN {}
                           ELSE {[q |-> tail, k |-> tail, kind |-> "causal"]}

(***************************************************************************)
(* The same by intervals: a group is entered in preorder and left after    *)
(* its last descendant; a query sees the keys whose interval it is in.     *)
(***************************************************************************)
Path(s) == Append(s.ancestors, s.group)

Before(segs, s, t) ==
    LET start(g) == Min(UNION {u.range : u \in {v \in ToSet(segs) : v.group = g}})
    IN  \/ s # t /\ IsPrefix(Path(s), Path(t))
        \/ \E i \in DOMAIN Path(s) \cap DOMAIN Path(t) :
               /\ SubSeq(Path(s), 1, i - 1) = SubSeq(Path(t), 1, i - 1)
               /\ start(Path(s)[i]) < start(Path(t)[i])

Intervals(groups, parents) ==
    LET segs == ParseRow(groups, parents)
        of(p) == CHOOSE s \in ToSet(segs) : p \in s.range
        enter(s) == Cardinality({t \in ToSet(segs) : Before(segs, t, s)})
        below(s) == {t \in ToSet(segs) : IsPrefix(Path(s), Path(t))}
        valid(p) == p <= ValidLength(groups)
    IN  [enter |-> [p \in DOMAIN groups |->
                        IF valid(p) THEN enter(of(p)) ELSE Len(segs)],
         exit |-> [p \in DOMAIN groups |->
                        IF valid(p) THEN enter(of(p)) + Cardinality(below(of(p)))
                        ELSE Len(segs) + 1]]

(***************************************************************************)
(* The blocks of a mask m: its queries and keys (each a sequence of        *)
(* positions of the row, 0 where the sequence is padded), its slices over  *)
(* the indices of these sequences, the row's intervals and positions, the  *)
(* window (0: none) and the sizes of the blocks.                           *)
(***************************************************************************)
Block(b, size, seq) == {i \in DOMAIN seq : (i - 1) \div size = b - 1}
BlockCount(seq, size) == (Len(seq) + size - 1) \div size

InWindow(m, q, k) ==
    m.window # 0 => m.pos[q] - m.pos[k] \in 0 .. m.window - 1

InSubtree(m, q, k) ==
    m.enter[k] <= m.enter[q] /\ m.enter[q] < m.exit[k]

\* mask_mod
Sees(m, q, k) == q >= k /\ InSubtree(m, q, k) /\ InWindow(m, q, k)

Values(seq, indices) == {seq[i] : i \in indices}
Places(m, seq, indices) == {m.pos[seq[i]] : i \in indices}

\* Mutant: a causal slice is looked at from its first query.
TouchesFirst(m, s, qs, ks) ==
    /\ qs # {} /\ ks # {}
    /\ s.kind = "causal" => Min(Values(m.q, qs)) >= Min(Values(m.k, ks))
    /\ m.window # 0 =>
           /\ Max(Places(m, m.q, qs)) >= Min(Places(m, m.k, ks))
           /\ Min(Places(m, m.q, qs)) - Max(Places(m, m.k, ks)) < m.window

\* Some pair of the slice in the block may see.  (qs, ks: the part of the slice
\* in the block.)
Touches(m, s, qs, ks) ==
    /\ qs # {} /\ ks # {}
    /\ s.kind = "causal" => Max(Values(m.q, qs)) >= Min(Values(m.k, ks))
    /\ m.window # 0 =>
           /\ Max(Places(m, m.q, qs)) >= Min(Places(m, m.k, ks))
           /\ Min(Places(m, m.q, qs)) - Max(Places(m, m.k, ks)) < m.window

\* The slice fills the block, and every pair sees.
Fills(m, s, qs, ks) ==
    /\ Cardinality(qs) = m.qBlock /\ Cardinality(ks) = m.kBlock
    /\ s.kind = "causal" => Min(Values(m.q, qs)) >= Max(Values(m.k, ks))
    /\ m.window # 0 =>
           /\ Min(Places(m, m.q, qs)) >= Max(Places(m, m.k, ks))
           /\ Max(Places(m, m.q, qs)) - Min(Places(m, m.k, ks)) < m.window

\* What the slices say of a block, then what the refinement by intervals makes of
\* a full block and of one that several slices touch, then the window's own.
BlockKind(m, qb, kb) ==
    LET qs == Block(qb, m.qBlock, m.q)
        ks == Block(kb, m.kBlock, m.k)
        touching == {s \in m.slices : Touches(m, s, s.q \cap qs, s.k \cap ks)}
        filling == {s \in m.slices : Fills(m, s, s.q \cap qs, s.k \cap ks)}
        pairs == {i \in qs : m.q[i] # 0} \X {j \in ks : m.k[j] # 0}
        whole == /\ Cardinality(qs) = m.qBlock /\ 0 \notin Values(m.q, qs)
                 /\ Cardinality(ks) = m.kBlock /\ 0 \notin Values(m.k, ks)
        byPairs(sees(_, _)) ==
            IF ~ \E p \in pairs : sees(m.q[p[1]], m.k[p[2]]) THEN "none"
            ELSE IF whole /\ \A p \in pairs : sees(m.q[p[1]], m.k[p[2]]) THEN "full"
            ELSE "partial"
        tree(q, k) == q >= k /\ InSubtree(m, q, k)
        windowed(q, k) == Sees(m, q, k)
        guess == IF filling # {} THEN "full"
                 ELSE IF touching # {} THEN "partial" ELSE "none"
        refined == IF guess = "full" \/ Cardinality(touching) > 1
                   THEN byPairs(tree) ELSE guess
    IN  IF m.window = 0 \/ refined = "none" THEN refined ELSE byPairs(windowed)

BlockKinds(m) ==
    [b \in (1 .. BlockCount(m.q, m.qBlock)) \X (1 .. BlockCount(m.k, m.kBlock)) |->
        BlockKind(m, b[1], b[2])]

\* The pairs of indices the kernel attends.
Attended(m) ==
    LET kinds == BlockKinds(m)
        kind(i, j) == kinds[<<(i - 1) \div m.qBlock + 1, (j - 1) \div m.kBlock + 1>>]
        live == {i \in DOMAIN m.q : m.q[i] # 0} \X {j \in DOMAIN m.k : m.k[j] # 0}
    IN  {p \in live : \/ kind(p[1], p[2]) = "full"
                      \/ kind(p[1], p[2]) = "partial" /\ Sees(m, m.q[p[1]], m.k[p[2]])}
-----------------------------------------------------------------------------
\* The indices of a padded sequence that hold a position.
Filled(seq) == {i \in DOMAIN seq : seq[i] # 0}

\* What a mask must be for its blocks to be right, at any sizes of the blocks: its slices
\* hold no padding, and every pair that sees is in one of them.
MaskFits(m) ==
    /\ m.q \in Seq(Int) /\ m.k \in Seq(Int)
    /\ m.qBlock \in Nat \ {0} /\ m.kBlock \in Nat \ {0} /\ m.window \in Int
    /\ \A i \in Filled(m.q) : m.pos[m.q[i]] \in Int
    /\ \A j \in Filled(m.k) : m.pos[m.k[j]] \in Int
    /\ \A s \in m.slices : s.q \subseteq Filled(m.q) /\ s.k \subseteq Filled(m.k)
    /\ \A i \in Filled(m.q), j \in Filled(m.k) :
           Sees(m, m.q[i], m.k[j]) => \E s \in m.slices : i \in s.q /\ j \in s.k
=============================================================================
