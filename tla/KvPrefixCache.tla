---------------------------- MODULE KvPrefixCache ----------------------------
(***************************************************************************)
(* The prefix cache of the inference engine, a trie in an arena            *)
(* (src/cesarops-inference/src/kv_prefix_cache.rs).  Its methods take the  *)
(* cache exclusively, so each is a function from a cache to a cache.       *)
(*                                                                         *)
(* A node is its index in the arena, and a slice is its length.  Left out: *)
(* the depth and the epochs of a node, which no decision reads, and the    *)
(* hit counters.                                                           *)
(***************************************************************************)
EXTENDS Integers, FiniteSets, SequencesExt

CONSTANTS Tokens,     \* token hashes, numbers of 64 bits
          Budget,     \* max_tokens
          NoNode,     \* NULL_NODE, and a child that is not there
          NoSlice     \* kv_slice: None

ASSUME CacheAssumption == /\ IsFiniteSet(Tokens)
                          /\ Budget \in Nat
                          /\ NoNode \notin Nat /\ NoSlice \notin Nat

ROOT == 0

Childless == [t \in Tokens |-> NoNode]

\* KvPrefixCache::new.  The root's count starts at one: it is never collected.
Empty == [parent |-> [n \in {ROOT} |-> NoNode],
          child  |-> [n \in {ROOT} |-> Childless],
          slice  |-> [n \in {ROOT} |-> NoSlice],
          refs   |-> [n \in {ROOT} |-> 1],
          free   |-> <<>>,   \* free_list, a stack
          used   |-> 1,      \* arena.len()
          lru    |-> <<>>,   \* nodes with a slice, the oldest in front
          total  |-> 0]

\* saturating_sub.
Less(a, b) == IF b <= a THEN a - b ELSE 0

\* The node after each token of a key, as far as the trie goes.
Walk(c, key) ==
  LET node[i \in 0..Len(key)] ==
        IF i = 0 THEN ROOT
        ELSE IF node[i - 1] = NoNode THEN NoNode ELSE c.child[node[i - 1]][key[i]]
  IN  node

Promote(c, n) ==
  IF n \in ToSet(c.lru) THEN [c EXCEPT !.lru = Append(RemoveFirst(@, n), n)] ELSE c

\* prefix_match: the last node with a slice on the way down, but never the root.
Matched(c, key) == {i \in 1..Len(key) : LET n == Walk(c, key)[i]
                                        IN  n # NoNode /\ c.slice[n] # NoSlice}

Longest(c, key) == CHOOSE i \in Matched(c, key) : \A j \in Matched(c, key) : j <= i

prefix_match(c, key) ==
  IF Matched(c, key) = {} THEN c ELSE Promote(c, Walk(c, key)[Longest(c, key)])

\* A slot is written; a new one is pushed to the arena.
Put(f, n, v) == [m \in DOMAIN f \cup {n} |-> IF m = n THEN v ELSE f[m]]

\* The slot of a new node: from the top of the free list, or behind the last one.
Slot(c) == IF c.free # <<>> THEN Last(c.free) ELSE c.used

\* Wrong on purpose: the parent's count is forgotten.
alloc_child_NoRef(c, parent, t) ==
  LET n == Slot(c)
  IN  [c EXCEPT !.free = IF @ # <<>> THEN Front(@) ELSE @,
                !.used = IF c.free # <<>> THEN @ ELSE @ + 1,
                !.parent = Put(@, n, parent), !.slice = Put(@, n, NoSlice),
                !.child = [Put(c.child, n, Childless) EXCEPT ![parent][t] = n],
                !.refs = Put(@, n, 0)]

alloc_child(c, parent, t) ==
  LET n == Slot(c)
  IN  [c EXCEPT !.free = IF @ # <<>> THEN Front(@) ELSE @,
                !.used = IF c.free # <<>> THEN @ ELSE @ + 1,
                !.parent = Put(@, n, parent), !.slice = Put(@, n, NoSlice),
                !.child = [Put(c.child, n, Childless) EXCEPT ![parent][t] = n],
                !.refs = [Put(c.refs, n, 0) EXCEPT ![parent] = @ + 1]]

\* The way down of commit, which makes the nodes that are not there.
Extend(at, t) == LET c == IF at.cache.child[at.node][t] # NoNode
                            THEN at.cache ELSE alloc_child(at.cache, at.node, t)
                 IN  [cache |-> c, node |-> c.child[at.node][t]]

\* The slice of a node is set; a slice that is replaced keeps its place in the list.
Stored(c, n, len) ==
  IF c.slice[n] = NoSlice
    THEN [c EXCEPT !.refs[n] = @ + 1, !.lru = Append(@, n), !.total = @ + len, !.slice[n] = len]
    ELSE [c EXCEPT !.total = Less(@, c.slice[n]) + len, !.slice[n] = len]

\* The link to a node is taken out of its parent.
Cut(c, n) ==
  LET p == c.parent[n]
      links == {t \in Tokens : c.child[p][t] = n}
  IN  IF links = {} THEN c
      ELSE [c EXCEPT !.child[p][CHOOSE t \in links : TRUE] = NoNode, !.refs[p] = Less(@, 1)]

\* One round of try_collect_chain: a node that holds nothing is freed, and it is
\* its parent's turn.
Detach(c, n) == [Cut(c, n) EXCEPT !.slice[n] = NoSlice, !.child[n] = Childless,
                                  !.parent[n] = NoNode, !.free = Append(@, n)]

Collectable(c, n) ==
  /\ n # ROOT /\ n # NoNode
  /\ c.refs[n] = 0 /\ c.child[n] = Childless
  /\ c.parent[n] # NoNode

Up(at) == IF Collectable(at.cache, at.node)
            THEN [cache |-> Detach(at.cache, at.node), node |-> at.cache.parent[at.node]]
            ELSE [at EXCEPT !.node = NoNode]

\* No more rounds than there are nodes.
try_collect_chain(c, n) ==
  LET after[i \in 0..c.used] == IF i = 0 THEN [cache |-> c, node |-> n] ELSE Up(after[i - 1])
  IN  after[c.used].cache

\* One round of evict_lru.
EvictOldest(c) ==
  LET n == Head(c.lru)
      popped == [c EXCEPT !.lru = Tail(@)]
  IN  IF c.slice[n] = NoSlice THEN popped
      ELSE try_collect_chain([popped EXCEPT !.slice[n] = NoSlice, !.refs[n] = Less(@, 1),
                                            !.total = Less(@, c.slice[n])], n)

EvictIf(c) == IF c.total > Budget /\ c.lru # <<>> THEN EvictOldest(c) ELSE c

\* Wrong on purpose: one eviction for one commit.
evict_lru_Once(c) == EvictIf(c)

\* No more rounds than the list has nodes.
evict_lru(c) ==
  LET after[i \in 0..Len(c.lru)] == IF i = 0 THEN c ELSE EvictIf(after[i - 1])
  IN  after[Len(c.lru)]

\* The node of a key, made if it is not there.
Descend(c, key) ==
  LET down[i \in 0..Len(key)] == IF i = 0 THEN [cache |-> c, node |-> ROOT]
                                 ELSE Extend(down[i - 1], key[i])
  IN  down[Len(key)]

commit(c, key, len) ==
  LET at == Descend(c, key) IN evict_lru(Stored(at.cache, at.node, len))

-------------------------------------------------------------------------------
(* What the representation must be like.                                   *)

Live(c) == {n \in 0..c.used - 1 : n \notin ToSet(c.free)}
Children(c, n) == {t \in Tokens : c.child[n][t] # NoNode}

\* Every field of every slot is there and has its type.
Typed(c) ==
  /\ c.used \in Nat \ {0}
  /\ c.parent \in [0..c.used - 1 -> Nat \cup {NoNode}]
  /\ c.child \in [0..c.used - 1 -> [Tokens -> Nat \cup {NoNode}]]
  /\ c.slice \in [0..c.used - 1 -> Nat \cup {NoSlice}]
  /\ c.refs \in [0..c.used - 1 -> Nat]
  /\ c.free \in Seq(Nat) /\ c.lru \in Seq(Nat)
  /\ c.total \in Nat
  /\ c = [parent |-> c.parent, child |-> c.child, slice |-> c.slice, refs |-> c.refs,
          free |-> c.free, used |-> c.used, lru |-> c.lru, total |-> c.total]

\* Links go both ways between live slots, and no two lead to the same one.
Linked(c) ==
  /\ \A n \in Live(c) : \A t \in Children(c, n) :
       LET m == c.child[n][t] IN /\ m \in Live(c) \ {ROOT} /\ c.parent[m] = n
                                 /\ \A u \in Children(c, n) : c.child[n][u] = m => u = t
  /\ \A m \in Live(c) \ {ROOT} : /\ c.parent[m] \in Live(c)
                                 /\ \E t \in Tokens : c.child[c.parent[m]][t] = m

\* "Number of children + 1-if-has-kv_slice", one more for the root.
Counted(c) ==
  \A n \in Live(c) : c.refs[n] = Cardinality(Children(c, n))
                                 + (IF c.slice[n] # NoSlice THEN 1 ELSE 0)
                                 + (IF n = ROOT THEN 1 ELSE 0)

\* No slot is free twice, and none keeps what it was used for.
FreeSlots(c) ==
  /\ IsInjective(c.free)
  /\ \A n \in ToSet(c.free) : /\ n \in 1..c.used - 1
                              /\ c.slice[n] = NoSlice /\ c.child[n] = Childless

\* The list names the nodes with a slice, each once.
ListExact(c) == /\ IsInjective(c.lru)
                /\ ToSet(c.lru) = {n \in Live(c) : c.slice[n] # NoSlice}

\* The total is what the slices add up to.
Lengths(c) == [n \in 0..c.used - 1 |-> IF c.slice[n] = NoSlice THEN 0 ELSE c.slice[n]]
TotalExact(c) == c.total = SumFunction(Lengths(c))

\* The nodes that are on the way to no slice, and hold none.
Orphans(c) == {n \in Live(c) \ {ROOT} : Children(c, n) = {} /\ c.slice[n] = NoSlice}

\* Every path ends in a slice: what was evicted leaves no node behind.
NoOrphans(c) == Orphans(c) = {}

WithinBudget(c) == c.total <= Budget

Sound(c) == Typed(c) /\ Linked(c) /\ Counted(c) /\ FreeSlots(c) /\ ListExact(c) /\ TotalExact(c)

WellFormed(c) == Sound(c) /\ NoOrphans(c) /\ WithinBudget(c)

\* The key of a node, and the entries of the cache in the order of its list.
EntriesOf(c, keys) ==
  LET KeyOf(n) == CHOOSE key \in keys : Walk(c, key)[Len(key)] = n
  IN  [i \in DOMAIN c.lru |-> [key |-> KeyOf(c.lru[i]), len |-> c.slice[c.lru[i]]]]
===============================================================================
