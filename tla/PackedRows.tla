------------------------------ MODULE PackedRows ------------------------------
(***************************************************************************)
(* From tokenized results to the packed rows a step trains on              *)
(* (art/preprocessing/pack.py), and from the requests of a forward call to *)
(* its packed batch (art/trainer_rank/__init__.py); and who attends to     *)
(* whom in them (PrefixMask).                                              *)
(*                                                                         *)
(* A result is its tokens, the set `train' of the places of its trainable  *)
(* tokens and the length of its prompt.  Log probabilities are there for   *)
(* the trainable tokens and no others; weights, advantages, images and     *)
(* expert routes follow the tokens and are left out.                       *)
(***************************************************************************)
EXTENDS PrefixTree, PrefixMask

CONSTANTS Results,      \* the tokenized results a call may be given
          Requests,     \* the token sequences a forward call may be given
          MaxTaken,     \* bound: results or requests of a call
          Calls,        \* how the call is configured; see below
          Masks         \* the windows and block sizes of the mask: a set of
                        \* [window, qBlock, kBlock]

(***************************************************************************)
(* A call is a record: kind "pack" with seqLen, truncate (long results     *)
(* are cut rather than skipped) and packResults (several share a row), or  *)
(* kind "forward" with maxDepth (shared_prefix_max_depth) and multiple     *)
(* (the tensor-parallel size).                                             *)
(***************************************************************************)
VARIABLES call, mask, taken, rows, packed, pc
vars == <<call, mask, taken, rows, packed, pc>>

-----------------------------------------------------------------------------
\* _truncate_prefix_tree_pack_item
Cut(tokens, n) == SubSeq(tokens, 1, IF Len(tokens) < n THEN Len(tokens) ELSE n)

\* _prefix_tree_pack_item: the token before the first trainable one is not shared
\* either, for its logits predict that token.
Item(r, seqLen) ==
    LET first == Min(r.train \cup {Len(r.tokens) + 1})
        share == Min({r.prompt, Max({first - 2, 0})})
    IN  [tokens |-> Cut(r.tokens, seqLen), train |-> r.train \cap 1 .. seqLen,
         share |-> Min({share, seqLen})]

Tokens(row) == [i \in DOMAIN row |-> row[i].tokens]
Shares(row) == [i \in DOMAIN row |-> row[i].share]

\* _packed_row_token_count
Overflows(row, item) ==
    LET grown == Append(row, item)
    IN  PackedTokens(Tokens(grown), Shares(grown), call.seqLen) > call.seqLen

\* The groups, the parents and the positions of cells, padded to a length.
Padded(cells, length) ==
    [cells |-> cells,
     groups |-> [p \in 1 .. length |-> IF p <= Len(cells) THEN cells[p].group ELSE Padding],
     parents |-> [p \in 1 .. length |-> IF p <= Len(cells) THEN cells[p].parent ELSE Padding],
     pos |-> [p \in 1 .. length |-> IF p <= Len(cells) THEN cells[p].pos ELSE 1]]

\* _pack_prefix_tree_row; without pack_results nothing is shared.
PackRow(row) ==
    LET cells == IF call.packResults THEN Pack(Tokens(row), Shares(row), call.seqLen)
                 ELSE Pack(Tokens(row), [i \in DOMAIN row |-> 0], 0)
    IN  Padded(Cut(cells, call.seqLen), call.seqLen)

\* _validate_prefix_tree_assignment: a shared token is not a trainable one.
Valid(row) ==
    \A c \in ToSet(PackRow(row).cells) :
        Cardinality(c.members) > 1 => \A i \in c.members : c.pos \notin row[i].train

\* _pad_packed_batch: each token of the padding is a root of its own.
PadToMultiple(cells, multiple) ==
    LET length == ((Len(cells) + multiple - 1) \div multiple) * multiple
        next == IF cells = <<>> THEN 1 ELSE Max({c.group : c \in ToSet(cells)}) + 1
        own(p) == next + p - Len(cells) - 1
        bare == Padded(cells, length)
    IN  [bare EXCEPT
            !.groups = [p \in 1 .. length |-> IF p > Len(cells) THEN own(p) ELSE @[p]],
            !.parents = [p \in 1 .. length |-> IF p > Len(cells) THEN own(p) ELSE @[p]]]

-----------------------------------------------------------------------------
Init == /\ call \in Calls
        /\ mask \in Masks
        /\ taken = 0
        /\ rows = << <<>> >>
        /\ packed = <<>>
        /\ pc = "take"

\* A result that is too long, or has nothing to train after its prompt.
SkipResult ==
    /\ pc = "take" /\ call.kind = "pack" /\ taken < MaxTaken
    /\ \E r \in Results :
           \/ Len(r.tokens) > call.seqLen /\ ~call.truncate
           \/ \A n \in r.train : n <= r.prompt
    /\ taken' = taken + 1
    /\ UNCHANGED <<call, mask, rows, packed, pc>>

TakeResult ==
    /\ pc = "take" /\ call.kind = "pack" /\ taken < MaxTaken
    /\ \E r \in Results :
           LET item == Item(r, call.seqLen) IN
           /\ Len(r.tokens) <= call.seqLen \/ call.truncate
           /\ \E n \in r.train : n > r.prompt
           /\ rows' = IF /\ Last(rows) # <<>>
                         /\ ~call.packResults \/ Overflows(Last(rows), item)
                      THEN Append(rows, <<item>>)
                      ELSE [rows EXCEPT ![Len(rows)] = Append(@, item)]
    /\ taken' = taken + 1
    /\ UNCHANGED <<call, mask, packed, pc>>

\* The requests of one adapter slot are packed in one row.
TakeRequest ==
    /\ pc = "take" /\ call.kind = "forward" /\ taken < MaxTaken
    /\ \E tokens \in Requests :
           rows' = << Append(rows[1], [tokens |-> tokens, train |-> {},
                                       share |-> Len(tokens)]) >>
    /\ taken' = taken + 1
    /\ UNCHANGED <<call, mask, packed, pc>>

\* random.shuffle(rows): the rows do not depend on each other, and are packed as
\* they stand.
PackRows ==
    /\ pc = "take" /\ call.kind = "pack"
    /\ IF \A n \in DOMAIN rows : Valid(rows[n])
       THEN packed' = [n \in DOMAIN rows |-> PackRow(rows[n])] /\ pc' = "done"
       ELSE pc' = "raised" /\ UNCHANGED packed
    /\ UNCHANGED <<call, mask, taken, rows>>

PackRequests ==
    /\ pc = "take" /\ call.kind = "forward" /\ taken > 0
    /\ packed' = << PadToMultiple(Pack(Tokens(rows[1]), Shares(rows[1]), call.maxDepth),
                                  call.multiple) >>
    /\ pc' = "done"
    /\ UNCHANGED <<call, mask, taken, rows>>

Next == SkipResult \/ TakeResult \/ TakeRequest \/ PackRows \/ PackRequests

Spec == Init /\ [][Next]_vars
-----------------------------------------------------------------------------
\* _build_sparse_prefix_tree_block_mask: the mask of a row on one rank.
MaskOf(row) ==
    LET span == Intervals(row.groups, row.parents)
        identity == [p \in DOMAIN row.groups |-> p]
    IN  [q |-> identity, k |-> identity,
         slices |-> PaddedSlices(row.groups, ParseRow(row.groups, row.parents)),
         enter |-> span.enter, exit |-> span.exit, pos |-> row.pos,
         window |-> mask.window, qBlock |-> mask.qBlock, kBlock |-> mask.kBlock]

TypeOK ==
    /\ call \in Calls /\ mask \in Masks
    /\ taken \in 0 .. MaxTaken
    /\ pc \in {"take", "done", "raised"}
    /\ rows # <<>>
    /\ \A n \in DOMAIN rows : \A i \in DOMAIN rows[n] :
           rows[n][i].share \in 0 .. Len(rows[n][i].tokens)
    /\ pc = "done" => Len(packed) = Len(rows)

\* Where token n of sequence i of a packed row is.
At(row, i, n) == PositionsOf(row.cells, i)[n]

\* Packing never raises: no trainable token is shared, and the parser of the
\* attention mask accepts every row that was packed.
NeverRefused ==
    /\ pc # "raised"
    /\ \A n \in DOMAIN packed : Accepted(packed[n].groups, packed[n].parents)

\* No token is lost: each result of a row is in the packed row to its last token,
\* so the cut at seq_len at the end of _pack_prefix_tree_row cuts nothing.
NothingCut ==
    \A n \in DOMAIN packed : \A i \in DOMAIN rows[n] :
        [m \in DOMAIN PositionsOf(packed[n].cells, i) |->
            packed[n].cells[At(packed[n], i, m)].token] = rows[n][i].tokens

\* A token of a sequence attends to the earlier tokens of the same sequence within
\* the window and to itself, and to nothing else in the row: the sparse blocks say
\* the same as running the sequence alone.
AttendsOwnPrefix ==
    \A n \in DOMAIN packed :
        LET attended == Attended(MaskOf(packed[n])) IN
        \A i \in DOMAIN rows[n] : \A m \in 1 .. Len(PositionsOf(packed[n].cells, i)) :
            {p[2] : p \in {a \in attended : a[1] = At(packed[n], i, m)}}
                = {At(packed[n], i, k) : k \in
                      {l \in 1 .. m : mask.window # 0 => m - l < mask.window}}

\* The slices hold every pair of a row that the intervals let see, also in its padding:
\* the blocks are made from the slices, and mask_mod from the intervals.
SlicesCover == \A n \in DOMAIN packed : MaskFits(MaskOf(packed[n]))

\* The loss shifts the packed row by one: the place before a trainable token holds
\* the token before it in its own sequence.
LossAdjacent ==
    \A n \in DOMAIN packed : call.kind = "pack" =>
        \A i \in DOMAIN rows[n] : \A m \in rows[n][i].train :
            m > 1 => At(packed[n], i, m) = At(packed[n], i, m - 1) + 1
=============================================================================
