----------------------------- MODULE PrefixCache -----------------------------
(***************************************************************************)
(* LRUTrieCache (src/art/tinker/prefix_cache.py): the token prefixes the   *)
(* server has rendered before, in a radix trie, and the tokens the model   *)
(* itself produced for each.  At most MaxEntries are kept, the least       *)
(* recently used leave first, and the trie is kept as small as what is     *)
(* left of it allows.                                                      *)
(*                                                                         *)
(* A node is a number, as good as an address; 0 is the root.  An edge is   *)
(* found under the first token of its label.                               *)
(***************************************************************************)
EXTENDS Integers, Sequences, SequencesExt, FiniteSets, FiniteSetsExt, Functions

CONSTANTS
    Texts,       \* the token sequences that are rendered, none of them empty
    Raws,        \* the token sequences a prefix may stand for
    MaxEntries   \* max_entries, more than 0

NoEntry == [rendered_len |-> -1, raw |-> "none"]
Tokens == UNION {ToSet(text) : text \in Texts}

\* Every insertion needs two nodes at most, and what it evicts goes at once.
Nodes == 0 .. 2 * MaxEntries + 3
Root == 0

VARIABLES
    trie,        \* the nodes: children, parent, parent_token and entry
    lru,         \* _lru: the nodes with an entry, least recently used first
    found        \* what the last lookup returned

vars == <<trie, lru, found>>

Edge(label, child) == [label |-> label, child |-> child]
NoEdges == [token \in {} |-> Edge(<<>>, Root)]

\* Nodes nobody refers to are all alike.
Unused == [children |-> NoEdges, parent |-> Root, token |-> <<>>, entry |-> NoEntry]

Init ==
    /\ trie = [n \in Nodes |-> Unused]
    /\ lru = <<>>
    /\ found = NoEntry

Edges(t, n) == t[n].children
Children(t, n) == {Edges(t, n)[token].child : token \in DOMAIN Edges(t, n)}

\* The nodes of the trie.
RECURSIVE Below(_, _)
Below(t, n) == {n} \cup UNION {Below(t, m) : m \in Children(t, n)}

Reachable(t) == Below(t, Root)
Fresh(t) == Min(Nodes \ Reachable(t))

\* Puts an edge under the first token of its label.
Link(t, n, label, child) ==
    [t EXCEPT ![n].children = (Head(label) :> Edge(label, child)) @@ @,
              ![child].parent = n,
              ![child].token = <<Head(label)>>]

\* _common_prefix_len
CommonPrefixLen(tokens, label) == Len(LongestCommonPrefix({tokens, label}))

\* The nodes the tokens lead to by whole edges, with the tokens each leaves over.
RECURSIVE Walk(_, _, _)
Walk(t, n, tokens) ==
    << [node |-> n, rest |-> tokens] >> \o
        IF /\ tokens # <<>> /\ Head(tokens) \in DOMAIN Edges(t, n)
           /\ IsPrefix(Edges(t, n)[Head(tokens)].label, tokens)
        THEN LET edge == Edges(t, n)[Head(tokens)]
             IN  Walk(t, edge.child, SubSeq(tokens, Len(edge.label) + 1, Len(tokens)))
        ELSE <<>>

(***************************************************************************)
(* Eviction.                                                               *)
(***************************************************************************)

\* Mutant: the merged edge keeps the label it had.
MergedShort(t, n) ==
    LET up == t[n].parent
        edge == Edges(t, up)[t[n].token[1]]
        below == Edges(t, n)[CHOOSE token \in DOMAIN Edges(t, n) : TRUE]
    IN  [Link(t, up, edge.label, below.child) EXCEPT ![n] = Unused]

\* The parent's edge to n leads to n's only child.
Merged(t, n) ==
    LET up == t[n].parent
        edge == Edges(t, up)[t[n].token[1]]
        below == Edges(t, n)[CHOOSE token \in DOMAIN Edges(t, n) : TRUE]
    IN  [Link(t, up, edge.label \o below.label, below.child) EXCEPT ![n] = Unused]

Removed(t, n) ==
    [t EXCEPT ![t[n].parent].children =
                  Restrict(@, DOMAIN @ \ {t[n].token[1]}),
              ![n] = Unused]

\* Mutant: only leaves are pruned.
RECURSIVE PruneLeaves(_, _)
PruneLeaves(t, n) ==
    IF n = Root \/ t[n].entry # NoEntry \/ DOMAIN Edges(t, n) # {} THEN t
    ELSE PruneLeaves(Removed(t, n), t[n].parent)

\* _prune: from n up, a node without entry goes when it has no child or only one.
RECURSIVE Prune(_, _)
Prune(t, n) ==
    IF n = Root \/ t[n].entry # NoEntry \/ Cardinality(Children(t, n)) > 1 THEN t
    ELSE Prune(IF Children(t, n) = {} THEN Removed(t, n) ELSE Merged(t, n), t[n].parent)

\* _evict
RECURSIVE Evicted(_, _)
Evicted(t, order) ==
    IF Len(order) <= MaxEntries THEN <<t, order>>
    ELSE Evicted(Prune([t EXCEPT ![Head(order)].entry = NoEntry], Head(order)), Tail(order))

\* _lru.move_to_end
MovedToEnd(order, n) == Append(SelectSeq(order, LAMBDA m : m # n), n)

(***************************************************************************)
(* The operations.                                                         *)
(***************************************************************************)

\* The node lookup takes: the last one on the way that has an entry and is not the root.
Best(t, tokens) ==
    LET way == Walk(t, Root, tokens)
        with == {i \in 2 .. Len(way) : t[way[i].node].entry # NoEntry}
    IN  IF with = {} THEN Root ELSE way[Max(with)].node

\* lookup; the repair of a node missing in _lru is left out, see ListedOnce.
Lookup(tokens) ==
    LET best == Best(trie, tokens)
    IN  /\ found' = IF best = Root THEN NoEntry ELSE trie[best].entry
        /\ lru' = IF best = Root THEN lru ELSE MovedToEnd(lru, best)
        /\ UNCHANGED trie

\* The trie with a node where the tokens end, and that node.
Placed(t, tokens) ==
    LET end == Last(Walk(t, Root, tokens))
        n == end.node
        rest == end.rest
        new == Fresh(t)
    IN  IF rest = <<>> THEN <<t, n>>
        ELSE IF Head(rest) \notin DOMAIN Edges(t, n) THEN <<Link(t, n, rest, new), new>>
        ELSE LET edge == Edges(t, n)[Head(rest)]
                 matched == CommonPrefixLen(rest, edge.label)
                 mid == new
                 split == Link(Link(t, n, SubSeq(rest, 1, matched), mid),
                               mid, SubSeq(edge.label, matched + 1, Len(edge.label)), edge.child)
                 leaf == Fresh(split)
                 over == SubSeq(rest, matched + 1, Len(rest))
             IN  IF over = <<>> THEN <<split, mid>>
                 ELSE <<Link(split, mid, over, leaf), leaf>>

\* insert
Insert(tokens, raw) ==
    LET placed == Placed(trie, tokens)
        n == placed[2]
        t == [placed[1] EXCEPT ![n].entry = [rendered_len |-> Len(tokens), raw |-> raw]]
        kept == Evicted(t, MovedToEnd(lru, n))
    IN  trie' = kept[1] /\ lru' = kept[2] /\ UNCHANGED found

Next ==
    \E tokens \in Texts :
        \/ Lookup(tokens)
        \/ \E raw \in Raws : Insert(tokens, raw)

Spec == Init /\ [][Next]_vars

(***************************************************************************)
(* Properties.                                                             *)
(***************************************************************************)

TypeOK ==
    /\ \A n \in Nodes :
        /\ trie[n].parent \in Nodes /\ trie[n].token \in BoundedSeq(Tokens, 1)
        /\ DOMAIN Edges(trie, n) \subseteq Tokens
    /\ lru \in BoundedSeq(Nodes, MaxEntries)

\* The tokens from the root to a node.
RECURSIVE TextOf(_, _)
TextOf(t, n) ==
    IF n = Root THEN <<>> ELSE TextOf(t, t[n].parent) \o Edges(t, t[n].parent)[t[n].token[1]].label

\* What the parent of a node knows of it agrees with what it knows of its parent; an edge
\* is found under the first token of its label.
LinksAgree ==
    \A n \in Reachable(trie) : \A token \in DOMAIN Edges(trie, n) :
        LET edge == Edges(trie, n)[token]
        IN  /\ edge.label # <<>> /\ Head(edge.label) = token
            /\ trie[edge.child].parent = n /\ trie[edge.child].token = <<token>>

\* "Collapse empty branches after eviction so the bounded cache stays bounded"
\* (prefix_cache.py:156): no node is left that neither holds an entry nor branches, so the
\* cache never has more than twice as many nodes as entries, and the root.
StaysBounded ==
    /\ \A n \in Reachable(trie) \ {Root} :
        trie[n].entry # NoEntry \/ Cardinality(Children(trie, n)) > 1
    /\ Cardinality(Reachable(trie)) <= 2 * Len(lru) + 1

\* The order lists the nodes with an entry, and each once: lru_repairs stays 0.
ListedOnce ==
    /\ ToSet(lru) = {n \in Nodes : trie[n].entry # NoEntry}
    /\ ToSet(lru) \subseteq Reachable(trie)
    /\ Cardinality(ToSet(lru)) = Len(lru)

\* The cache is a list of prefixes in the order of their use.
Listed == [i \in DOMAIN lru |-> [text |-> TextOf(trie, lru[i]), entry |-> trie[lru[i]].entry]]

Abstract == INSTANCE PrefixList WITH entries <- Listed

KeepsPrefixList == Abstract!Spec

=============================================================================
