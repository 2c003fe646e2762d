------------------------------ MODULE PrefixList ------------------------------
(***************************************************************************)
(* What the prefix cache promises: a list of prefixes with their entries,  *)
(* the least recently used first, of which a lookup finds the longest that *)
(* begins the tokens, and no other than the oldest is ever forgotten.      *)
(***************************************************************************)
EXTENDS Integers, Sequences, SequencesExt, FiniteSets, FiniteSetsExt

CONSTANTS Texts, Raws, MaxEntries, NoEntry

VARIABLES entries, found
vars == <<entries, found>>

Init == entries = <<>> /\ found = NoEntry

Without(text) == SelectSeq(entries, LAMBDA e : e.text # text)

\* At most MaxEntries are kept.
Kept(list) == SubSeq(list, Len(list) - Min({Len(list), MaxEntries}) + 1, Len(list))

Insert(text, raw) ==
    /\ entries' = Kept(Append(Without(text),
                              [text |-> text, entry |-> [rendered_len |-> Len(text), raw |-> raw]]))
    /\ UNCHANGED found

\* The empty prefix is never found.
Matches(tokens) ==
    {e \in ToSet(entries) : e.text # <<>> /\ IsPrefix(e.text, tokens)}

Lookup(tokens) ==
    IF Matches(tokens) = {}
    THEN found' = NoEntry /\ UNCHANGED entries
    ELSE LET longest == CHOOSE e \in Matches(tokens) :
                            \A o \in Matches(tokens) : Len(o.text) <= Len(e.text)
         IN  /\ found' = longest.entry
             /\ entries' = Append(Without(longest.text), longest)

Next ==
    \E tokens \in Texts : Lookup(tokens) \/ \E raw \in Raws : Insert(tokens, raw)

Spec == Init /\ [][Next]_vars

=============================================================================
