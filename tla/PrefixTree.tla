------------------------------ MODULE PrefixTree ------------------------------
(***************************************************************************)
(* Token sequences packed as a prefix tree in one row: a prefix that       *)
(* several sequences share is written once, each branch after it           *)
(* (art/megatron/prefix_tree_packing.py).                                  *)
(*                                                                         *)
(* rows: the sequences.  share[i]: how many of the first tokens of         *)
(* sequence i may be shared.  Positions count from 1; groups are numbered  *)
(* in the order they are written.                                          *)
(***************************************************************************)
EXTENDS Integers, Sequences, FiniteSets, SequencesExt, FiniteSetsExt

Emit(segs, members, start, end, parent) ==
    Append(segs, [members |-> members, start |-> start, end |-> end,
                  group |-> Len(segs) + 1,
                  parent |-> IF parent = 0 THEN Len(segs) + 1 ELSE parent])

\* Each sequence's own tail, from start on.
EmitTails(rows, segs, members, start, parent) ==
    FoldLeft(LAMBDA acc, i : Emit(acc, <<i>>, start, Len(rows[i]), parent),
             segs, members)

\* How far the members agree, and may be shared, from start on.
SharedEnd(rows, share, members, start) ==
    LET limit == Min({Min({Len(rows[i]), share[i]}) : i \in ToSet(members)})
        agree(n) == \A k \in start + 1 .. n : \A i, j \in ToSet(members) :
                        rows[i][k] = rows[j][k]
    IN  Max({n \in start .. limit : agree(n)})

\* The members by their next token, in the order the tokens are first seen.
Branches(rows, members, start) ==
    LET next(i) == rows[i][start + 1]
        firsts == SelectSeq(members, LAMBDA i :
            \A j \in ToSet(members) : next(j) = next(i) =>
                SelectInSeq(members, LAMBDA m : m = i)
                    <= SelectInSeq(members, LAMBDA m : m = j))
    IN  [b \in DOMAIN firsts |->
            SelectSeq(members, LAMBDA i : next(i) = next(firsts[b]))]

RECURSIVE Walk(_, _, _, _, _, _, _, _)
Walk(rows, share, maxDepth, segs, members, start, parent, depth) ==
    LET active == SelectSeq(members, LAMBDA i : Len(rows[i]) > start)
        shareable == SelectSeq(active, LAMBDA i : share[i] > start)
        alone == SelectSeq(active, LAMBDA i : share[i] <= start)
        own == EmitTails(rows, segs, alone, start, parent)
    IN  IF shareable = <<>> THEN own
        ELSE IF \/ maxDepth = 0
                \/ Len(shareable) = 1
                \/ parent # 0 /\ depth >= maxDepth
        THEN EmitTails(rows, own, shareable, start, parent)
        ELSE LET end == SharedEnd(rows, share, shareable, start)
             IN  IF end > start
                 THEN Walk(rows, share, maxDepth,
                           Emit(own, shareable, start, end, parent),
                           shareable, end, Len(own) + 1, depth + 1)
                 ELSE FoldLeft(LAMBDA acc, branch :
                                   Walk(rows, share, maxDepth, acc, branch, start,
                                        parent, depth),
                               own, Branches(rows, shareable, start))

Segments(rows, share, maxDepth) ==
    Walk(rows, share, maxDepth, <<>>, [i \in DOMAIN rows |-> i], 0, 0, 0)

Size(seg) == seg.end - seg.start
PackedTokens(rows, share, maxDepth) ==
    FoldLeft(LAMBDA n, seg : n + Size(seg), 0, Segments(rows, share, maxDepth))

\* The packed row: of each packed token its own value, its group, the group's
\* parent, and its position in its sequences.
Pack(rows, share, maxDepth) ==
    LET segs == Segments(rows, share, maxDepth)
        cells(seg) == [k \in 1 .. Size(seg) |->
            [token |-> rows[Head(seg.members)][seg.start + k],
             group |-> seg.group, parent |-> seg.parent,
             pos |-> seg.start + k, members |-> ToSet(seg.members)]]
    IN  FlattenSeq([s \in DOMAIN segs |-> cells(segs[s])])

\* positions_by_sequence: where the tokens of sequence i are.
PositionsOf(packed, i) ==
    SelectSeq([p \in DOMAIN packed |-> p], LAMBDA p : i \in packed[p].members)
=============================================================================
