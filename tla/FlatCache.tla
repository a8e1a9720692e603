------------------------------ MODULE FlatCache ------------------------------
(***************************************************************************)
(* What the prefix cache of the inference engine promises, without its     *)
(* trie: a list of entries, least recently used first.  An entry is a key  *)
(* (a sequence of token hashes) and the length of its slice.  A lookup     *)
(* finds the longest key that is a prefix of the query and makes its entry *)
(* the most recently used; a commit adds an entry or replaces a slice in   *)
(* its place, and then drops entries from the front until the slices fit   *)
(* the budget.                                                             *)
(***************************************************************************)
EXTENDS Integers, SequencesExt

CONSTANTS Keys,    \* sequences of token hashes
          Budget,  \* max_tokens
          Miss     \* the answer of a lookup that finds nothing

VARIABLES entries, \* [key, len] records, least recently used first
          answer   \* the entry found by a lookup that nothing was committed after

Total(es) == FoldLeft(LAMBDA sum, e : sum + e.len, 0, es)

\* The longest end of a list of entries that fits.
Fitting(es) ==
  LET Fits(i) == Total(SubSeq(es, i, Len(es))) <= Budget
  IN  SubSeq(es, CHOOSE i \in 1..Len(es) + 1 : Fits(i) /\ \A j \in 1..i - 1 : ~Fits(j), Len(es))

Init == entries = <<>> /\ answer = Miss

\* The empty key is a prefix of everything, but its slice is of no use.
Lookup(query) ==
  LET found == {i \in DOMAIN entries : entries[i].key # <<>> /\ IsPrefix(entries[i].key, query)}
  IN  IF found = {}
        THEN answer' = Miss /\ UNCHANGED entries
        ELSE LET best == CHOOSE i \in found :
                           \A j \in found : Len(entries[j].key) <= Len(entries[i].key)
             IN  /\ answer' = entries[best]
                 /\ entries' = Append(RemoveAt(entries, best), entries[best])

Commit(key, len) ==
  LET new == [key |-> key, len |-> len]
      same == {i \in DOMAIN entries : entries[i].key = key}
  IN  /\ entries' = Fitting(IF same = {}
                              THEN Append(entries, new)
                              ELSE [i \in DOMAIN entries |-> IF i \in same THEN new ELSE entries[i]])
      /\ answer' = Miss

\* A slice covers the tokens of its key.
Next == \E key \in Keys : Lookup(key) \/ Commit(key, Len(key))

Spec == Init /\ [][Next]_<<entries, answer>>
===============================================================================
