-------------------------- MODULE KvPrefixCacheProofs --------------------------
(***************************************************************************)
(* For every set of tokens and every budget: each operation of the prefix  *)
(* cache keeps it well-formed.  Between two steps of an operation the      *)
(* representation is Sound, which is WellFormed without the budget and     *)
(* with orphans, and at most one node is an orphan: the one that commit    *)
(* has just made, or the one whose turn it is in try_collect_chain.  Both  *)
(* loops of eviction are bounded in the model, and the bounds are shown to *)
(* be enough: a slot is freed once, and an empty list leaves nothing to    *)
(* count.                                                                  *)
(*                                                                         *)
(* The second half relates the trie to a flat list of entries: a list      *)
(* describes a cache when its entries are the slices of the LRU list, in   *)
(* its order, each under the key that leads to it.  A key is the only one  *)
(* that leads to its node, so there is one such list, and each operation   *)
(* of the trie does to it what the flat cache does.                        *)
(***************************************************************************)
EXTENDS KvPrefixCache, DataLemmas

LEMMA LengthsType ==
  ASSUME NEW c, Typed(c)
  PROVE  Lengths(c) \in [0..c.used - 1 -> Nat] /\ IsFiniteSet(0..c.used - 1)
<1>1. c.used - 1 \in Int /\ 0 \in Int
  BY DEF Typed
<1> QED
  BY <1>1, FS_Interval DEF Typed, Lengths

\* The cache is made with a root that holds nothing.
LEMMA EmptyWellFormed == WellFormed(Empty)
<1> DEFINE c == Empty
<1>1. /\ c.used = 1 /\ 0..c.used - 1 = {ROOT} /\ c.free = <<>> /\ c.lru = <<>> /\ c.total = 0
      /\ c.child = [n \in {ROOT} |-> Childless] /\ c.slice = [n \in {ROOT} |-> NoSlice]
      /\ c.refs = [n \in {ROOT} |-> 1]
  BY DEF Empty, ROOT
<1>2. Live(c) = {ROOT} /\ ToSet(c.free) = {} /\ ToSet(c.lru) = {}
  BY <1>1 DEF Live, ToSet
<1>3. Children(c, ROOT) = {}
  BY <1>1 DEF Children, Childless
<1>4. Typed(c)
  BY <1>1 DEF Typed, Empty, Childless, ROOT
<1>5. TotalExact(c)
  <2>1. Lengths(c) \in [0..c.used - 1 -> Int] /\ \A x \in 0..c.used - 1 : Lengths(c)[x] = 0
    BY <1>1 DEF Lengths
  <2>2. IsFiniteSet(0..c.used - 1)
    BY <1>4, LengthsType
  <2> QED
    BY <1>1, <2>1, <2>2, SumZero DEF TotalExact
<1>6. Linked(c) /\ FreeSlots(c) /\ ListExact(c) /\ NoOrphans(c)
  BY <1>1, <1>2, <1>3 DEF Linked, FreeSlots, ListExact, NoOrphans, Orphans, IsInjective
<1>7. Counted(c)
  BY <1>1, <1>2, <1>3, FS_EmptySet DEF Counted
<1> QED
  BY <1>1, <1>4, <1>5, <1>6, <1>7, CacheAssumption
  DEF WellFormed, Sound, WithinBudget, CacheAssumption

\* The links do not depend on the slices, the counts or the list.
LEMMA SameLinks ==
  ASSUME NEW c, NEW d, d.parent = c.parent, d.child = c.child, d.free = c.free, d.used = c.used,
         Linked(c)
  PROVE  Linked(d)
<1>1. Live(d) = Live(c) /\ \A m : Children(d, m) = Children(c, m)
  BY DEF Live, Children
<1> QED
  BY <1>1 DEF Linked

\* A cache of which only the list has changed.
LEMMA SameTree ==
  ASSUME NEW c, Sound(c), NEW list \in Seq(Nat), IsInjective(list), ToSet(list) = ToSet(c.lru),
         NEW d, d = [c EXCEPT !.lru = list]
  PROVE  Sound(d) /\ Orphans(d) = Orphans(c) /\ d.total = c.total /\ d.lru = list
<1>1. /\ d.parent = c.parent /\ d.child = c.child /\ d.slice = c.slice /\ d.refs = c.refs
      /\ d.free = c.free /\ d.used = c.used /\ d.lru = list /\ d.total = c.total
      /\ Typed(d)
  BY DEF Sound, Typed
<1>2. Live(d) = Live(c) /\ Lengths(d) = Lengths(c) /\ \A m : Children(d, m) = Children(c, m)
  BY <1>1 DEF Live, Children, Lengths
<1>3. Linked(d)
  BY <1>1, SameLinks DEF Sound
<1>4. Counted(d) /\ FreeSlots(d)
  BY <1>1, <1>2 DEF Sound, Counted, FreeSlots
<1>5. ListExact(d) /\ TotalExact(d)
  BY <1>1, <1>2 DEF Sound, ListExact, TotalExact
<1>6. Orphans(d) = Orphans(c)
  BY <1>1, <1>2 DEF Orphans
<1> QED
  BY <1>1, <1>3, <1>4, <1>5, <1>6 DEF Sound

LEMMA PromoteKeeps ==
  ASSUME NEW c, WellFormed(c), NEW n
  PROVE  WellFormed(Promote(c, n))
<1>1. CASE n \notin ToSet(c.lru)
  BY <1>1 DEF Promote
<1>2. CASE n \in ToSet(c.lru)
  <2> DEFINE rest == RemoveFirst(c.lru, n)
  <2>1. /\ c.lru \in Seq(Nat) /\ IsInjective(c.lru) /\ n \in Nat
    BY <1>2 DEF WellFormed, Sound, Typed, ListExact, ToSet
  <2>2. rest \in Seq(Nat) /\ IsInjective(rest) /\ ToSet(rest) = ToSet(c.lru) \ {n}
    BY <2>1, RemoveFirstSet, Zenon
  <2> HIDE DEF rest
  <2> DEFINE list == Append(rest, n)
  <2>3. list \in Seq(Nat) /\ IsInjective(list) /\ ToSet(list) = ToSet(c.lru)
    <3>1. list \in Seq(Nat) /\ IsInjective(list) /\ ToSet(list) = ToSet(rest) \cup {n}
      BY <2>1, <2>2, AppendNew
    <3> QED
      BY <1>2, <2>2, <3>1, Zenon
  <2>4. Promote(c, n) = [c EXCEPT !.lru = list]
    BY <1>2 DEF Promote, rest
  <2> HIDE DEF list
  <2> QED
    BY <2>3, <2>4, SameTree DEF WellFormed, NoOrphans, WithinBudget
<1> QED
  BY <1>1, <1>2

-------------------------------------------------------------------------------
(* A new node.                                                             *)

\* Where it goes, what is free then, and what each slot holds.
LEMMA AllocParts ==
  ASSUME NEW c, Sound(c), NEW p \in Live(c), NEW t \in Tokens
  PROVE  LET n == Slot(c)
             d == alloc_child(c, p, t)
         IN  /\ n \in Nat \ {ROOT} /\ n \notin Live(c) /\ n # p
             /\ 0..d.used - 1 = (0..c.used - 1) \cup {n}
             /\ d.free \in Seq(Nat) /\ IsInjective(d.free)
             /\ ToSet(d.free) = ToSet(c.free) \ {n}
             /\ d.used \in Nat \ {0} /\ d.lru = c.lru /\ d.total = c.total
             /\ d.parent = Put(c.parent, n, p) /\ d.slice = Put(c.slice, n, NoSlice)
             /\ d.child = [Put(c.child, n, Childless) EXCEPT ![p][t] = n]
             /\ d.refs = [Put(c.refs, n, 0) EXCEPT ![p] = @ + 1]
             /\ d = [parent |-> d.parent, child |-> d.child, slice |-> d.slice, refs |-> d.refs,
                     free |-> d.free, used |-> d.used, lru |-> d.lru, total |-> d.total]
             /\ n \in 0..c.used - 1 => c.slice[n] = NoSlice
<1> DEFINE n == Slot(c)
           d == alloc_child(c, p, t)
           free == IF c.free # <<>> THEN Front(c.free) ELSE c.free
           used == IF c.free # <<>> THEN c.used ELSE c.used + 1
<1>1. Typed(c) /\ FreeSlots(c)
  BY DEF Sound
<1>2. /\ d.free = free /\ d.used = used /\ d.lru = c.lru /\ d.total = c.total
      /\ d.parent = Put(c.parent, n, p) /\ d.slice = Put(c.slice, n, NoSlice)
      /\ d.child = [Put(c.child, n, Childless) EXCEPT ![p][t] = n]
      /\ d.refs = [Put(c.refs, n, 0) EXCEPT ![p] = @ + 1]
      /\ d = [parent |-> d.parent, child |-> d.child, slice |-> d.slice, refs |-> d.refs,
              free |-> d.free, used |-> d.used, lru |-> d.lru, total |-> d.total]
  <2> DEFINE child == [Put(c.child, n, Childless) EXCEPT ![p][t] = n]
             refs == [Put(c.refs, n, 0) EXCEPT ![p] = @ + 1]
  <2> HIDE DEF n
  <2>1. d = [c EXCEPT !.free = free, !.used = used, !.parent = Put(@, n, p),
                      !.slice = Put(@, n, NoSlice), !.child = child, !.refs = refs]
    BY DEF alloc_child, n
  <2> HIDE DEF d, free, used, child, refs
  <2>2. d = [parent |-> Put(c.parent, n, p), child |-> child, slice |-> Put(c.slice, n, NoSlice),
             refs |-> refs, free |-> free, used |-> used, lru |-> c.lru, total |-> c.total]
    BY <1>1, <2>1 DEF Typed
  <2> QED
    BY <2>2 DEF child, refs
<1> HIDE DEF n, d
<1>3. /\ n \in Nat \ {ROOT} /\ n \notin Live(c) /\ used \in Nat \ {0}
      /\ 0..used - 1 = (0..c.used - 1) \cup {n}
      /\ free \in Seq(Nat) /\ IsInjective(free) /\ ToSet(free) = ToSet(c.free) \ {n}
      /\ n \in 0..c.used - 1 => c.slice[n] = NoSlice
  <2>1. CASE c.free = <<>>
    <3>1. n = c.used /\ ToSet(c.free) = {} /\ c.used \in Nat \ {0} /\ used = c.used + 1
      BY <1>1, <2>1 DEF n, Slot, Typed, ToSet
    <3>2. 0..used - 1 = (0..c.used - 1) \cup {n} /\ n \notin 0..c.used - 1
      BY <3>1
    <3> QED
      BY <1>1, <2>1, <3>1, <3>2 DEF Live, FreeSlots, Typed, ROOT
  <2>2. CASE c.free # <<>>
    <3>1. /\ n = Last(c.free) /\ free = Front(c.free) /\ used = c.used /\ c.used \in Nat \ {0}
          /\ c.free \in Seq(Nat) /\ IsInjective(c.free)
      BY <1>1, <2>2 DEF n, Slot, Typed, FreeSlots
    <3>2. free \in Seq(Nat) /\ IsInjective(free) /\ n \in ToSet(c.free) /\ ToSet(free) = ToSet(c.free) \ {n}
      BY <2>2, <3>1, FrontParts, Zenon
    <3>3. n \in 1..c.used - 1 /\ c.slice[n] = NoSlice
      BY <1>1, <3>2 DEF FreeSlots
    <3> HIDE DEF free, used
    <3> QED
      BY <3>1, <3>2, <3>3 DEF Live, ROOT
  <2> QED
    BY <2>1, <2>2
<1> QED
  BY <1>2, <1>3 DEF n, d

\* The node is there, linked to its parent, and may be an orphan, which the parent
\* is no longer.
LEMMA AllocKeeps ==
  ASSUME NEW c, Sound(c), NEW p \in Live(c), NEW t \in Tokens, c.child[p][t] = NoNode
  PROVE  /\ Sound(alloc_child(c, p, t))
         /\ alloc_child(c, p, t).child[p][t] = Slot(c)
         /\ Slot(c) \in Live(alloc_child(c, p, t))
         /\ Orphans(alloc_child(c, p, t)) \subseteq (Orphans(c) \ {p}) \cup {Slot(c)}
<1> DEFINE n == Slot(c)
           d == alloc_child(c, p, t)
<1>1. /\ n \in Nat \ {ROOT} /\ n \notin Live(c) /\ n # p
      /\ 0..d.used - 1 = (0..c.used - 1) \cup {n}
      /\ d.free \in Seq(Nat) /\ IsInjective(d.free)
      /\ ToSet(d.free) = ToSet(c.free) \ {n}
      /\ d.used \in Nat \ {0} /\ d.lru = c.lru /\ d.total = c.total
      /\ d.parent = Put(c.parent, n, p) /\ d.slice = Put(c.slice, n, NoSlice)
      /\ d.child = [Put(c.child, n, Childless) EXCEPT ![p][t] = n]
      /\ d.refs = [Put(c.refs, n, 0) EXCEPT ![p] = @ + 1]
      /\ d = [parent |-> d.parent, child |-> d.child, slice |-> d.slice, refs |-> d.refs,
              free |-> d.free, used |-> d.used, lru |-> d.lru, total |-> d.total]
      /\ n \in 0..c.used - 1 => c.slice[n] = NoSlice
  BY AllocParts
<1> HIDE DEF n, d
<1>2. Typed(c) /\ Linked(c) /\ Counted(c) /\ FreeSlots(c) /\ ListExact(c) /\ TotalExact(c)
  BY DEF Sound
<1>3. p \in 0..c.used - 1 /\ p \in Nat
  BY <1>2 DEF Live, Typed
<1>4. /\ d.parent \in [0..d.used - 1 -> Nat \cup {NoNode}]
      /\ d.parent[n] = p /\ \A m \in 0..c.used - 1 : m # n => d.parent[m] = c.parent[m]
  <2>1. /\ c.parent \in [0..c.used - 1 -> Nat \cup {NoNode}] /\ p \in Nat
        /\ 0..d.used - 1 = (0..c.used - 1) \cup {n} /\ d.parent = Put(c.parent, n, p)
    BY <1>1, <1>2, <1>3 DEF Typed
  <2>2. d.parent \in [0..d.used - 1 -> Nat \cup {NoNode}]
    BY <2>1 DEF Put
  <2>3. d.parent[n] = p /\ \A m \in 0..c.used - 1 : m # n => d.parent[m] = c.parent[m]
    BY <2>1 DEF Put
  <2> QED
    BY <2>2, <2>3
<1>5. /\ d.slice \in [0..d.used - 1 -> Nat \cup {NoSlice}]
      /\ d.slice[n] = NoSlice /\ \A m \in 0..c.used - 1 : m # n => d.slice[m] = c.slice[m]
  <2>1. /\ c.slice \in [0..c.used - 1 -> Nat \cup {NoSlice}]
        /\ 0..d.used - 1 = (0..c.used - 1) \cup {n} /\ d.slice = Put(c.slice, n, NoSlice)
    BY <1>1, <1>2 DEF Typed
  <2>2. d.slice \in [0..d.used - 1 -> Nat \cup {NoSlice}]
    BY <2>1 DEF Put
  <2>3. d.slice[n] = NoSlice /\ \A m \in 0..c.used - 1 : m # n => d.slice[m] = c.slice[m]
    BY <2>1 DEF Put
  <2> QED
    BY <2>2, <2>3
<1>6. /\ d.refs \in [0..d.used - 1 -> Nat]
      /\ d.refs[n] = 0 /\ d.refs[p] = c.refs[p] + 1
      /\ \A m \in 0..c.used - 1 : m \notin {n, p} => d.refs[m] = c.refs[m]
  <2> DEFINE put == Put(c.refs, n, 0)
  <2>1. /\ put \in [0..d.used - 1 -> Nat] /\ put[n] = 0
        /\ \A m \in 0..c.used - 1 : m # n => put[m] = c.refs[m]
    <3>1. c.refs \in [0..c.used - 1 -> Nat] /\ 0..d.used - 1 = (0..c.used - 1) \cup {n}
      BY <1>1, <1>2 DEF Typed
    <3> QED
      BY <3>1 DEF Put
  <2> HIDE DEF put
  <2>2. d.refs = [put EXCEPT ![p] = @ + 1]
    BY <1>1 DEF put
  <2>3. p \in 0..d.used - 1 /\ n \in 0..d.used - 1
    BY <1>1, <1>3
  <2>4. put[p] = c.refs[p] /\ c.refs[p] \in Nat
    BY <1>1, <1>2, <1>3, <2>1 DEF Typed
  <2>5. /\ d.refs \in [0..d.used - 1 -> Nat] /\ d.refs[p] = put[p] + 1
        /\ \A m \in 0..d.used - 1 : m # p => d.refs[m] = put[m]
    BY <2>1, <2>2, <2>3, <2>4
  <2> QED
    BY <1>1, <1>3, <2>1, <2>3, <2>4, <2>5
<1>7. /\ d.child \in [0..d.used - 1 -> [Tokens -> Nat \cup {NoNode}]]
      /\ d.child[n] = Childless /\ d.child[p] = [c.child[p] EXCEPT ![t] = n]
      /\ \A m \in 0..c.used - 1 : m \notin {n, p} => d.child[m] = c.child[m]
  <2> DEFINE put == Put(c.child, n, Childless)
  <2>1. /\ put \in [0..d.used - 1 -> [Tokens -> Nat \cup {NoNode}]] /\ put[n] = Childless
        /\ \A m \in 0..c.used - 1 : m # n => put[m] = c.child[m]
    <3>1. /\ c.child \in [0..c.used - 1 -> [Tokens -> Nat \cup {NoNode}]]
          /\ Childless \in [Tokens -> Nat \cup {NoNode}]
          /\ 0..d.used - 1 = (0..c.used - 1) \cup {n}
      BY <1>1, <1>2 DEF Typed, Childless
    <3> QED
      BY <3>1 DEF Put
  <2> HIDE DEF put
  <2>2. d.child = [put EXCEPT ![p][t] = n]
    BY <1>1 DEF put
  <2>3. p \in 0..d.used - 1 /\ n \in 0..d.used - 1
    BY <1>1, <1>3
  <2>4. [put[p] EXCEPT ![t] = n] \in [Tokens -> Nat \cup {NoNode}]
    BY <1>1, <2>1, <2>3
  <2>5. d.child = [put EXCEPT ![p] = [put[p] EXCEPT ![t] = n]]
    BY <2>2
  <2>6. d.child \in [0..d.used - 1 -> [Tokens -> Nat \cup {NoNode}]]
    BY <2>1, <2>3, <2>4, <2>5
  <2>7. d.child[p] = [put[p] EXCEPT ![t] = n] /\ \A m \in 0..d.used - 1 : m # p => d.child[m] = put[m]
    BY <2>1, <2>3, <2>5
  <2> QED
    BY <1>1, <1>3, <2>1, <2>3, <2>6, <2>7
<1>8. Live(d) = Live(c) \cup {n}
  BY <1>1 DEF Live
<1>9. /\ Children(d, n) = {}
      /\ t \notin Children(c, p) /\ Children(d, p) = Children(c, p) \cup {t}
      /\ \A m \in Live(c) \ {p} : Children(d, m) = Children(c, m)
  <2>1. n # NoNode
    BY <1>1, CacheAssumption DEF CacheAssumption
  <2>2. c.child[p] \in [Tokens -> Nat \cup {NoNode}]
    BY <1>2, <1>3 DEF Typed
  <2>3. Children(d, n) = {}
    BY <1>7 DEF Children, Childless
  <2>4. t \notin Children(c, p) /\ Children(d, p) = Children(c, p) \cup {t}
    BY <1>7, <2>1, <2>2 DEF Children
  <2>5. \A m \in Live(c) \ {p} : m \in 0..c.used - 1 /\ m \notin {n, p}
    BY <1>1 DEF Live
  <2>6. \A m \in Live(c) \ {p} : d.child[m] = c.child[m]
    BY <1>7, <2>5
  <2>7. \A m \in Live(c) \ {p} : Children(d, m) = Children(c, m)
    BY <2>6 DEF Children
  <2> QED
    BY <2>3, <2>4, <2>7
<1>10. Typed(d)
  BY <1>1, <1>2, <1>4, <1>5, <1>6, <1>7 DEF Typed
<1>11. Linked(d)
  <2>1. ASSUME NEW m \in Live(d), NEW u \in Children(d, m)
        PROVE  /\ d.child[m][u] \in Live(d) \ {ROOT} /\ d.parent[d.child[m][u]] = m
               /\ \A v \in Children(d, m) : d.child[m][v] = d.child[m][u] => v = u
    <3>1. m \in Live(c) /\ m # n
      BY <1>8, <1>9, <2>1
    <3>2. \A v \in Children(c, m) : /\ c.child[m][v] \in Live(c) \ {ROOT}
                                    /\ c.parent[c.child[m][v]] = m
                                    /\ \A w \in Children(c, m) : c.child[m][w] = c.child[m][v] => w = v
      BY <1>2, <3>1 DEF Linked
    <3>3. \A v \in Children(c, m) : /\ c.child[m][v] # n
                                    /\ d.parent[c.child[m][v]] = c.parent[c.child[m][v]]
      BY <1>1, <1>4, <3>2 DEF Live
    <3>4. CASE m # p
      <4>1. d.child[m] = c.child[m] /\ Children(d, m) = Children(c, m)
        BY <1>1, <1>7, <1>9, <3>1, <3>4 DEF Live
      <4> QED
        BY <1>8, <2>1, <3>2, <3>3, <4>1
    <3>5. CASE m = p
      <4>1. /\ d.child[p][t] = n
            /\ \A v \in Children(c, p) : v # t /\ d.child[p][v] = c.child[p][v]
        <5>1. c.child[p] \in [Tokens -> Nat \cup {NoNode}]
          BY <1>2, <1>3 DEF Typed
        <5> QED
          BY <1>7, <1>9, <5>1 DEF Children
      <4>2. CASE u = t
        <5>1. \A v \in Children(d, p) : v # t => v \in Children(c, p) /\ d.child[p][v] # n
          BY <1>9, <3>3, <3>5, <4>1
        <5> QED
          BY <1>1, <1>4, <1>8, <3>5, <4>1, <4>2, <5>1
      <4>3. CASE u # t
        <5>1. u \in Children(c, p) /\ d.child[p][u] = c.child[p][u] /\ c.child[p][u] # n
          BY <1>9, <2>1, <3>3, <3>5, <4>1, <4>3
        <5>2. c.child[p][u] \in Live(c) \ {ROOT} /\ d.parent[c.child[p][u]] = p
          BY <3>2, <3>3, <3>5, <5>1
        <5>3. \A v \in Children(d, p) : d.child[p][v] = d.child[p][u] => v \in Children(c, p)
          BY <1>9, <4>1, <5>1
        <5>4. \A v \in Children(d, p) : d.child[p][v] = d.child[p][u] => v = u
          BY <3>2, <3>5, <4>1, <5>1, <5>3
        <5> QED
          BY <1>8, <3>5, <5>1, <5>2, <5>4
      <4> QED
        BY <4>2, <4>3
    <3> QED
      BY <3>4, <3>5
  <2>2. ASSUME NEW m \in Live(d) \ {ROOT}
        PROVE  d.parent[m] \in Live(d) /\ \E u \in Tokens : d.child[d.parent[m]][u] = m
    <3>1. CASE m = n
      <4>1. d.child[p][t] = n
        BY <1>2, <1>3, <1>7 DEF Typed
      <4> QED
        BY <1>4, <1>8, <3>1, <4>1
    <3>2. CASE m # n
      <4>1. m \in Live(c) \ {ROOT} /\ d.parent[m] = c.parent[m]
        BY <1>4, <1>8, <2>2, <3>2 DEF Live
      <4>2. c.parent[m] \in Live(c) /\ \E u \in Tokens : c.child[c.parent[m]][u] = m
        BY <1>2, <4>1 DEF Linked
      <4>3. PICK u \in Tokens : c.child[c.parent[m]][u] = m
        BY <4>2
      <4>4. m # NoNode
        BY <1>2, <4>1, CacheAssumption DEF Live, Typed, CacheAssumption
      <4>5. u \in Children(c, c.parent[m])
        BY <4>3, <4>4 DEF Children
      <4>6. d.child[c.parent[m]][u] = m
        <5>1. CASE c.parent[m] # p
          BY <1>1, <1>7, <4>2, <4>3, <5>1 DEF Live
        <5>2. CASE c.parent[m] = p
          <6>1. u # t
            BY <1>9, <4>5, <5>2
          <6>2. c.child[p] \in [Tokens -> Nat \cup {NoNode}]
            BY <1>2, <1>3 DEF Typed
          <6> QED
            BY <1>7, <4>3, <5>2, <6>1, <6>2
        <5> QED
          BY <5>1, <5>2
      <4> QED
        BY <1>8, <4>1, <4>2, <4>6
    <3> QED
      BY <3>1, <3>2
  <2> QED
    BY <2>1, <2>2 DEF Linked
<1>12. Counted(d)
  <2> SUFFICES ASSUME NEW m \in Live(d)
               PROVE  d.refs[m] = Cardinality(Children(d, m))
                                    + (IF d.slice[m] # NoSlice THEN 1 ELSE 0)
                                    + (IF m = ROOT THEN 1 ELSE 0)
    BY DEF Counted
  <2>1. CASE m = n
    <3>1. Cardinality(Children(d, m)) = 0 /\ d.refs[m] = 0 /\ d.slice[m] = NoSlice /\ m # ROOT
      BY <1>1, <1>5, <1>6, <1>9, <2>1, FS_EmptySet
    <3> QED
      BY <3>1
  <2>2. CASE m # n
    <3>1. /\ m \in Live(c) /\ d.slice[m] = c.slice[m]
          /\ c.refs[m] = Cardinality(Children(c, m)) + (IF c.slice[m] # NoSlice THEN 1 ELSE 0)
                                                     + (IF m = ROOT THEN 1 ELSE 0)
      BY <1>2, <1>5, <1>8, <2>2 DEF Counted, Live
    <3>2. CASE m # p
      BY <1>6, <1>9, <2>2, <3>1, <3>2 DEF Live
    <3>3. CASE m = p
      <4>1. /\ IsFiniteSet(Children(c, p)) /\ Cardinality(Children(c, p)) \in Nat
            /\ Cardinality(Children(c, p) \cup {t}) = Cardinality(Children(c, p)) + 1
        <5>1. IsFiniteSet(Children(c, p))
          BY FS_Subset, CacheAssumption DEF Children, CacheAssumption
        <5> QED
          BY <1>9, <5>1, FS_AddElement, FS_CardinalityType
      <4>2. Cardinality(Children(d, m)) = Cardinality(Children(c, m)) + 1 /\ d.refs[m] = c.refs[m] + 1
        BY <1>6, <1>9, <3>3, <4>1
      <4>3. d.slice[m] = c.slice[m] /\ Cardinality(Children(c, m)) \in Nat
        BY <3>1, <3>3, <4>1
      <4> QED
        BY <3>1, <4>2, <4>3
    <3> QED
      BY <3>2, <3>3
  <2> QED
    BY <2>1, <2>2
<1>13. FreeSlots(d)
  <2>1. ASSUME NEW m \in ToSet(d.free)
        PROVE  m \in 1..d.used - 1 /\ d.slice[m] = NoSlice /\ d.child[m] = Childless
    <3>1. m \in ToSet(c.free) /\ m # n
      BY <1>1, <2>1
    <3>2. m \in 1..c.used - 1 /\ c.slice[m] = NoSlice /\ c.child[m] = Childless
      BY <1>2, <3>1 DEF FreeSlots
    <3>3. m # p /\ m \in 0..c.used - 1 /\ m # 0 /\ m \in 0..d.used - 1
      BY <1>1, <3>1, <3>2 DEF Live
    <3>4. m \in 1..d.used - 1
      BY <1>1, <3>3
    <3> QED
      BY <1>5, <1>7, <3>1, <3>2, <3>3, <3>4
  <2> QED
    BY <1>1, <2>1 DEF FreeSlots
<1>14. ListExact(d)
  BY <1>1, <1>2, <1>5, <1>8 DEF ListExact, Live
<1>15. TotalExact(d)
  <2>1. /\ Lengths(c) \in [0..c.used - 1 -> Nat] /\ IsFiniteSet(0..c.used - 1)
        /\ Lengths(d) \in [0..d.used - 1 -> Nat]
    BY <1>2, <1>10, LengthsType
  <2>2. Lengths(d)[n] = 0 /\ \A m \in 0..c.used - 1 : Lengths(d)[m] = Lengths(c)[m]
    BY <1>1, <1>5 DEF Lengths
  <2>3. CASE n \in 0..c.used - 1
    <3>1. 0..d.used - 1 = 0..c.used - 1
      BY <1>1, <2>3
    <3>2. Lengths(d) = Lengths(c)
      <4> DEFINE g == Lengths(c)
                 h == Lengths(d)
                 S == 0..c.used - 1
      <4>1. g \in [S -> Nat] /\ h \in [S -> Nat] /\ \A m \in S : h[m] = g[m]
        BY <2>1, <2>2, <3>1
      <4> HIDE DEF g, h, S
      <4>2. g = h
        BY <4>1
      <4> QED
        BY <4>2 DEF g, h
    <3> QED
      BY <1>1, <1>2, <3>2 DEF TotalExact
  <2>4. CASE n \notin 0..c.used - 1
    <3> DEFINE S == 0..c.used - 1
    <3>1. /\ Lengths(c) \in [S -> Int] /\ Lengths(d) \in [S \cup {n} -> Int] /\ n \notin S
          /\ \A m \in S : Lengths(d)[m] = Lengths(c)[m]
      BY <1>1, <2>1, <2>2, <2>4
    <3>2. IsFiniteSet(S)
      BY <2>1
    <3> HIDE DEF S
    <3>3. SumFunction(Lengths(d)) = SumFunction(Lengths(c)) + Lengths(d)[n]
      <4> DEFINE g == Lengths(c)
                 h == Lengths(d)
      <4>1. g \in [S -> Int] /\ h \in [S \cup {n} -> Int] /\ n \notin S /\ \A m \in S : h[m] = g[m]
        BY <3>1
      <4> HIDE DEF g, h
      <4>2. n \notin S /\ IsFiniteSet(S) /\ \A m \in S : h[m] = g[m]
        BY <3>2, <4>1
      <4>3. SumFunction(h) = SumFunction(g) + h[n]
        BY <4>1, <4>2, SumExtend
      <4> QED
        BY <4>3 DEF g, h
    <3>4. SumFunction(Lengths(c)) = c.total /\ c.total \in Nat
      BY <1>2 DEF TotalExact, Typed
    <3> QED
      BY <1>1, <2>2, <3>3, <3>4 DEF TotalExact
  <2> QED
    BY <2>3, <2>4
<1>16. Orphans(d) \subseteq (Orphans(c) \ {p}) \cup {n}
  <2> SUFFICES ASSUME NEW m \in Orphans(d), m # n PROVE m \in Orphans(c) \ {p}
    OBVIOUS
  <2>1. /\ m \in Live(c) \ {ROOT} /\ Children(d, m) = {} /\ d.slice[m] = NoSlice
    BY <1>8 DEF Orphans
  <2>2. m # p
    BY <1>9, <2>1
  <2> QED
    BY <1>5, <1>9, <2>1, <2>2 DEF Orphans, Live
<1>17. d.child[p][t] = n /\ n \in Live(d)
  BY <1>2, <1>3, <1>7, <1>8 DEF Typed
<1> QED
  BY <1>10, <1>11, <1>12, <1>13, <1>14, <1>15, <1>16, <1>17 DEF Sound, n, d

-------------------------------------------------------------------------------
(* A slice is set.                                                         *)

\* Setting one slice sets one length.
LEMMA LengthsExcept ==
  ASSUME NEW c, Typed(c), NEW d, Typed(d), d.used = c.used, NEW n \in 0..c.used - 1,
         \A m \in 0..c.used - 1 : m # n => d.slice[m] = c.slice[m]
  PROVE  /\ SumFunction(Lengths(d)) = (SumFunction(Lengths(c)) - Lengths(c)[n]) + Lengths(d)[n]
         /\ Lengths(c)[n] \in Nat /\ Lengths(d)[n] \in Nat
         /\ Lengths(c)[n] <= SumFunction(Lengths(c)) /\ SumFunction(Lengths(c)) \in Nat
<1> DEFINE S == 0..c.used - 1
           g == Lengths(c)
           h == Lengths(d)
<1>1. g \in [S -> Nat] /\ h \in [S -> Nat] /\ IsFiniteSet(S)
  BY LengthsType
<1>2. \A m \in S : m # n => h[m] = g[m]
  BY DEF Lengths
<1>3. n \in S
  OBVIOUS
<1> HIDE DEF S, g, h
<1>4. h = [g EXCEPT ![n] = h[n]] /\ g \in [S -> Int] /\ g[n] \in Nat /\ h[n] \in Nat /\ h[n] \in Int
  BY <1>1, <1>2, <1>3
<1>5. SumFunction([g EXCEPT ![n] = h[n]]) = (SumFunction(g) - g[n]) + h[n]
  <2>1. \A v \in Int : SumFunction([g EXCEPT ![n] = v]) = (SumFunction(g) - g[n]) + v
    <3>1. g \in [S -> Int] /\ n \in S /\ IsFiniteSet(S)
      BY <1>1, <1>3, <1>4
    <3> QED
      BY <3>1, SumExcept, Zenon
  <2> QED
    BY <1>4, <2>1, Zenon
<1>6. SumFunction(g) \in Nat /\ g[n] <= SumFunction(g)
  BY <1>1, <1>3, SumNat, Zenon
<1> QED
  BY <1>4, <1>5, <1>6 DEF g, h

\* A slice more, or another one in its place: the node is no orphan.
LEMMA StoredKeeps ==
  ASSUME NEW c, Sound(c), NEW n \in Live(c), NEW len \in Nat
  PROVE  Sound(Stored(c, n, len)) /\ Orphans(Stored(c, n, len)) = Orphans(c) \ {n}
<1> DEFINE d == Stored(c, n, len)
           new == c.slice[n] = NoSlice
<1>0. Typed(c) /\ Linked(c) /\ Counted(c) /\ FreeSlots(c) /\ ListExact(c) /\ TotalExact(c)
  BY DEF Sound
<1>1. n \in 0..c.used - 1 /\ n \in Nat /\ n \notin ToSet(c.free)
  BY <1>0 DEF Live, Typed
<1>2. len # NoSlice
  BY CacheAssumption DEF CacheAssumption
<1> DEFINE refs == IF new THEN [c.refs EXCEPT ![n] = @ + 1] ELSE c.refs
           lru == IF new THEN Append(c.lru, n) ELSE c.lru
           total == IF new THEN c.total + len ELSE Less(c.total, c.slice[n]) + len
<1>3. /\ d.parent = c.parent /\ d.child = c.child /\ d.slice = [c.slice EXCEPT ![n] = len]
      /\ d.refs = refs /\ d.free = c.free /\ d.used = c.used /\ d.lru = lru /\ d.total = total
      /\ d = [parent |-> d.parent, child |-> d.child, slice |-> d.slice, refs |-> d.refs,
              free |-> d.free, used |-> d.used, lru |-> d.lru, total |-> d.total]
  BY <1>0 DEF Stored, Typed
<1> HIDE DEF d
<1>4. /\ d.slice \in [0..c.used - 1 -> Nat \cup {NoSlice}] /\ d.slice[n] = len
      /\ \A m \in 0..c.used - 1 : m # n => d.slice[m] = c.slice[m]
  BY <1>0, <1>1, <1>3 DEF Typed
<1>5. /\ Live(d) = Live(c) /\ \A m \in Live(c) : Children(d, m) = Children(c, m)
  BY <1>3 DEF Live, Children
<1>6. /\ lru \in Seq(Nat) /\ IsInjective(lru) /\ ToSet(lru) = ToSet(c.lru) \cup {n}
  <2>1. c.lru \in Seq(Nat) /\ IsInjective(c.lru) /\ (n \in ToSet(c.lru) <=> ~new)
    BY <1>0 DEF Typed, ListExact
  <2>2. CASE new
    <3> DEFINE s == c.lru
    <3>1. s \in Seq(Nat) /\ IsInjective(s) /\ n \notin ToSet(s) /\ n \in Nat /\ lru = Append(s, n)
      BY <1>1, <2>1, <2>2
    <3> HIDE DEF s, lru
    <3>2. lru \in Seq(Nat) /\ IsInjective(lru) /\ ToSet(lru) = ToSet(s) \cup {n}
      BY <3>1, AppendNew
    <3> QED
      BY <3>2 DEF s
  <2>3. CASE ~new
    BY <2>1, <2>3
  <2> QED
    BY <2>2, <2>3
<1>7. /\ refs \in [0..c.used - 1 -> Nat] /\ refs[n] = c.refs[n] + (IF new THEN 1 ELSE 0)
      /\ \A m \in 0..c.used - 1 : m # n => refs[m] = c.refs[m]
  BY <1>0, <1>1 DEF Typed
<1>8. total \in Nat
  BY <1>0, <1>1 DEF Less, Typed
<1>9. Typed(d)
  BY <1>0, <1>3, <1>4, <1>6, <1>7, <1>8 DEF Typed
<1>10. TotalExact(d)
  <2>1. /\ SumFunction(Lengths(d)) = (SumFunction(Lengths(c)) - Lengths(c)[n]) + Lengths(d)[n]
        /\ Lengths(c)[n] \in Nat /\ Lengths(c)[n] <= SumFunction(Lengths(c))
        /\ SumFunction(Lengths(c)) \in Nat
    <3>1. /\ Typed(c) /\ Typed(d) /\ d.used = c.used /\ n \in 0..c.used - 1
          /\ \A m \in 0..c.used - 1 : m # n => d.slice[m] = c.slice[m]
      BY <1>0, <1>1, <1>3, <1>4, <1>9
    <3> QED
      BY <3>1, LengthsExcept, Zenon
  <2>2. Lengths(d)[n] = len /\ Lengths(c)[n] = IF new THEN 0 ELSE c.slice[n]
    BY <1>1, <1>2, <1>3, <1>4 DEF Lengths
  <2>3. c.total = SumFunction(Lengths(c))
    BY <1>0 DEF TotalExact
  <2>4. total = (c.total - Lengths(c)[n]) + len
    BY <2>1, <2>2, <2>3 DEF Less
  <2> QED
    BY <1>3, <2>1, <2>2, <2>3, <2>4 DEF TotalExact
<1> HIDE DEF refs, lru, total
<1>11. Linked(d) /\ FreeSlots(d)
  <2>1. Linked(d)
    BY <1>0, <1>3, SameLinks
  <2>2. \A m \in ToSet(c.free) : m \in 1..c.used - 1 /\ d.slice[m] = NoSlice /\ c.child[m] = Childless
    BY <1>0, <1>1, <1>4 DEF FreeSlots
  <2> QED
    BY <1>0, <1>3, <2>1, <2>2 DEF FreeSlots
<1>12. Counted(d)
  <2> SUFFICES ASSUME NEW m \in Live(d)
               PROVE  d.refs[m] = Cardinality(Children(d, m))
                                    + (IF d.slice[m] # NoSlice THEN 1 ELSE 0)
                                    + (IF m = ROOT THEN 1 ELSE 0)
    BY DEF Counted
  <2>1. /\ m \in Live(c) /\ m \in 0..c.used - 1 /\ Children(d, m) = Children(c, m)
        /\ c.refs[m] = Cardinality(Children(c, m)) + (IF c.slice[m] # NoSlice THEN 1 ELSE 0)
                                                   + (IF m = ROOT THEN 1 ELSE 0)
    BY <1>0, <1>5 DEF Counted, Live
  <2>2. CASE m # n
    BY <1>3, <1>4, <1>7, <2>1, <2>2
  <2>3. CASE m = n
    <3>1. Cardinality(Children(c, n)) \in Nat
      <4>1. IsFiniteSet(Children(c, n))
        BY FS_Subset, CacheAssumption DEF Children, CacheAssumption
      <4> QED
        BY <4>1, FS_CardinalityType
    <3> QED
      BY <1>2, <1>3, <1>4, <1>7, <2>1, <2>3, <3>1
  <2> QED
    BY <2>2, <2>3
<1>13. ListExact(d)
  <2>1. \A m \in Live(c) : d.slice[m] # NoSlice <=> c.slice[m] # NoSlice \/ m = n
    BY <1>2, <1>4 DEF Live
  <2> QED
    BY <1>0, <1>3, <1>5, <1>6, <2>1 DEF ListExact
<1>14. Orphans(d) = Orphans(c) \ {n}
  BY <1>2, <1>4, <1>5 DEF Orphans, Live
<1> QED
  BY <1>9, <1>10, <1>11, <1>12, <1>13, <1>14 DEF Sound, d

-------------------------------------------------------------------------------
(* A node that holds nothing is freed.                                     *)

\* What there is of it: no child, no slice, and one link from its parent.
LEMMA CollectableNode ==
  ASSUME NEW c, Sound(c), NEW n \in Live(c), Collectable(c, n)
  PROVE  LET p == c.parent[n]
         IN  /\ n \in 1..c.used - 1 /\ n \notin ToSet(c.free) /\ p \in Live(c) /\ p # n
             /\ c.slice[n] = NoSlice /\ c.child[n] = Childless /\ Children(c, n) = {}
             /\ \E t \in Tokens : c.child[p][t] = n /\ {u \in Tokens : c.child[p][u] = n} = {t}
<1> DEFINE p == c.parent[n]
<1>0. Typed(c) /\ Linked(c) /\ Counted(c)
  BY DEF Sound
<1>1. n \in 0..c.used - 1 /\ n # ROOT /\ n \notin ToSet(c.free) /\ c.used \in Nat
  BY <1>0 DEF Live, Collectable, Typed
<1>2. c.child[n] = Childless /\ Children(c, n) = {}
  BY DEF Collectable, Children, Childless
<1>3. c.slice[n] = NoSlice
  <2>1. c.refs[n] = Cardinality(Children(c, n)) + (IF c.slice[n] # NoSlice THEN 1 ELSE 0)
                                                + (IF n = ROOT THEN 1 ELSE 0)
    BY <1>0 DEF Counted
  <2>2. Cardinality(Children(c, n)) = 0 /\ c.refs[n] = 0 /\ n # ROOT
    BY <1>2, FS_EmptySet DEF Collectable
  <2> QED
    BY <2>1, <2>2
<1>4. p \in Live(c) /\ \E t \in Tokens : c.child[p][t] = n
  BY <1>0, <1>1 DEF Linked
<1>5. PICK t \in Tokens : c.child[p][t] = n
  BY <1>4
<1>6. n # NoNode
  BY <1>1, CacheAssumption DEF CacheAssumption
<1>7. p # n
  BY <1>2, <1>5, <1>6 DEF Childless
<1>8. \A u \in Tokens : c.child[p][u] = n => u = t
  BY <1>0, <1>4, <1>5, <1>6 DEF Linked, Children
<1>9. {u \in Tokens : c.child[p][u] = n} = {t}
  BY <1>5, <1>8
<1> QED
  BY <1>1, <1>2, <1>3, <1>4, <1>5, <1>7, <1>9 DEF ROOT

\* It is free then, its parent has a child less, and the rest stays as it was.
LEMMA DetachKeeps ==
  ASSUME NEW c, Sound(c), NEW n \in Live(c), Collectable(c, n)
  PROVE  LET d == Detach(c, n)
             p == c.parent[n]
         IN  /\ Sound(d) /\ p \in Live(d) /\ Orphans(d) \subseteq (Orphans(c) \ {n}) \cup {p}
             /\ Len(d.free) = Len(c.free) + 1 /\ d.used = c.used
             /\ d.lru = c.lru /\ d.total = c.total
<1> DEFINE d == Detach(c, n)
           p == c.parent[n]
<1>0. Typed(c) /\ Linked(c) /\ Counted(c) /\ FreeSlots(c) /\ ListExact(c) /\ TotalExact(c)
  BY DEF Sound
<1>1. /\ n \in 1..c.used - 1 /\ n \notin ToSet(c.free) /\ p \in Live(c) /\ p # n
      /\ c.slice[n] = NoSlice /\ c.child[n] = Childless /\ Children(c, n) = {}
      /\ \E t \in Tokens : c.child[p][t] = n /\ {u \in Tokens : c.child[p][u] = n} = {t}
  BY CollectableNode
<1>2. PICK t \in Tokens : c.child[p][t] = n /\ {u \in Tokens : c.child[p][u] = n} = {t}
  BY <1>1
<1>3. p \in 0..c.used - 1 /\ p \in Nat /\ n \in 0..c.used - 1 /\ n \in Nat /\ n # NoNode
  BY <1>0, <1>1, CacheAssumption DEF Live, Typed, CacheAssumption
<1> HIDE DEF p
<1> DEFINE below == [c.child EXCEPT ![p][t] = NoNode]
           child == [below EXCEPT ![n] = Childless]
           refs == [c.refs EXCEPT ![p] = Less(@, 1)]
           free == Append(c.free, n)
<1>4. /\ d.parent = [c.parent EXCEPT ![n] = NoNode] /\ d.child = child
      /\ d.slice = [c.slice EXCEPT ![n] = NoSlice] /\ d.refs = refs
      /\ d.free = free /\ d.used = c.used /\ d.lru = c.lru /\ d.total = c.total
      /\ d = [parent |-> d.parent, child |-> d.child, slice |-> d.slice, refs |-> d.refs,
              free |-> d.free, used |-> d.used, lru |-> d.lru, total |-> d.total]
  <2> DEFINE cut == [c EXCEPT !.child = below, !.refs = refs]
  <2>1. Cut(c, n) = cut
    <3>1. (CHOOSE u \in {t} : TRUE) = t
      OBVIOUS
    <3> QED
      BY <1>2, <3>1 DEF Cut, p
  <2> HIDE DEF below, refs
  <2>2. cut = [parent |-> c.parent, child |-> below, slice |-> c.slice, refs |-> refs,
               free |-> c.free, used |-> c.used, lru |-> c.lru, total |-> c.total]
    <3> DEFINE a == c.parent  b == c.child  e == c.slice  f == c.refs
               g == c.free  h == c.used  i == c.lru  j == c.total
    <3>1. c = [parent |-> a, child |-> b, slice |-> e, refs |-> f, free |-> g, used |-> h,
               lru |-> i, total |-> j]
      BY <1>0 DEF Typed
    <3>3. cut = [c EXCEPT !.child = below, !.refs = refs]
      OBVIOUS
    <3> HIDE DEF a, b, e, f, g, h, i, j, cut
    <3>2. cut = [parent |-> a, child |-> below, slice |-> e, refs |-> refs, free |-> g, used |-> h,
                 lru |-> i, total |-> j]
      BY <3>1, <3>3
    <3> QED
      BY <3>2 DEF a, b, e, f, g, h, i, j
  <2> HIDE DEF cut
  <2>3. d = [cut EXCEPT !.slice[n] = NoSlice, !.child[n] = Childless,
                        !.parent[n] = NoNode, !.free = Append(@, n)]
    BY <2>1 DEF Detach
  <2> QED
    BY <2>2, <2>3
<1> HIDE DEF d
<1>5. d.slice = c.slice
  BY <1>0, <1>1, <1>3, <1>4 DEF Typed
<1>6. /\ d.parent \in [0..c.used - 1 -> Nat \cup {NoNode}]
      /\ \A m \in 0..c.used - 1 : m # n => d.parent[m] = c.parent[m]
  BY <1>0, <1>3, <1>4 DEF Typed
<1>7. /\ refs \in [0..c.used - 1 -> Nat] /\ refs[p] = Less(c.refs[p], 1)
      /\ \A m \in 0..c.used - 1 : m # p => refs[m] = c.refs[m]
  BY <1>0, <1>3 DEF Typed, Less
<1>8. /\ child \in [0..c.used - 1 -> [Tokens -> Nat \cup {NoNode}]]
      /\ child[n] = Childless /\ child[p] = [c.child[p] EXCEPT ![t] = NoNode]
      /\ \A m \in 0..c.used - 1 : m \notin {n, p} => child[m] = c.child[m]
  <2>1. c.child[p] \in [Tokens -> Nat \cup {NoNode}] /\ c.child \in [0..c.used - 1 -> [Tokens -> Nat \cup {NoNode}]]
    BY <1>0, <1>3 DEF Typed
  <2>2. [c.child[p] EXCEPT ![t] = NoNode] \in [Tokens -> Nat \cup {NoNode}]
    BY <2>1
  <2>3. below = [c.child EXCEPT ![p] = [c.child[p] EXCEPT ![t] = NoNode]]
    OBVIOUS
  <2> HIDE DEF below
  <2>4. /\ below \in [0..c.used - 1 -> [Tokens -> Nat \cup {NoNode}]]
        /\ below[p] = [c.child[p] EXCEPT ![t] = NoNode]
        /\ \A m \in 0..c.used - 1 : m # p => below[m] = c.child[m]
    BY <1>3, <2>1, <2>2, <2>3
  <2>5. Childless \in [Tokens -> Nat \cup {NoNode}]
    BY DEF Childless
  <2> QED
    BY <1>1, <1>3, <2>4, <2>5
<1> HIDE DEF below, child
<1>9. /\ free \in Seq(Nat) /\ Len(free) = Len(c.free) + 1 /\ IsInjective(free)
      /\ ToSet(free) = ToSet(c.free) \cup {n}
  <2>1. c.free \in Seq(Nat) /\ IsInjective(c.free) /\ n \notin ToSet(c.free) /\ n \in Nat
    BY <1>0, <1>1, <1>3 DEF Typed, FreeSlots
  <2> DEFINE s == c.free
  <2>2. s \in Seq(Nat) /\ IsInjective(s) /\ n \notin ToSet(s) /\ n \in Nat /\ free = Append(s, n)
    BY <2>1
  <2> HIDE DEF s, free
  <2>3. free \in Seq(Nat) /\ IsInjective(free) /\ ToSet(free) = ToSet(s) \cup {n}
    BY <2>2, AppendNew
  <2>4. Len(free) = Len(s) + 1
    BY <2>2
  <2> QED
    BY <2>3, <2>4 DEF s
<1> HIDE DEF free, refs
<1>10. Live(d) = Live(c) \ {n}
  BY <1>4, <1>9 DEF Live
<1>11. /\ t \in Children(c, p) /\ Children(d, p) = Children(c, p) \ {t}
       /\ \A m \in Live(c) \ {n, p} : Children(d, m) = Children(c, m)
  <2>1. c.child[p] \in [Tokens -> Nat \cup {NoNode}]
    BY <1>0, <1>3 DEF Typed
  <2>2. t \in Children(c, p) /\ Children(d, p) = Children(c, p) \ {t}
    BY <1>2, <1>3, <1>4, <1>8, <2>1 DEF Children
  <2>3. \A m \in Live(c) \ {n, p} : Children(d, m) = Children(c, m)
    BY <1>4, <1>8 DEF Children, Live
  <2> QED
    BY <2>2, <2>3
<1>12. Typed(d)
  BY <1>0, <1>4, <1>5, <1>6, <1>7, <1>8, <1>9 DEF Typed
<1>13. Linked(d)
  <2>1. ASSUME NEW m \in Live(d), NEW u \in Children(d, m)
        PROVE  /\ d.child[m][u] \in Live(d) \ {ROOT} /\ d.parent[d.child[m][u]] = m
               /\ \A v \in Children(d, m) : d.child[m][v] = d.child[m][u] => v = u
    <3>1. m \in Live(c) /\ m # n /\ Children(d, m) \subseteq Children(c, m)
      BY <1>10, <1>11, <2>1
    <3>2. \A v \in Children(c, m) : /\ c.child[m][v] \in Live(c) \ {ROOT}
                                    /\ c.parent[c.child[m][v]] = m
                                    /\ \A w \in Children(c, m) : c.child[m][w] = c.child[m][v] => w = v
      BY <1>0, <3>1 DEF Linked
    <3>3. \A v \in Children(d, m) : d.child[m][v] = c.child[m][v] /\ c.child[m][v] # n
      <4>1. CASE m = p
        <5>1. c.child[p] \in [Tokens -> Nat \cup {NoNode}]
          BY <1>0, <1>3 DEF Typed
        <5> QED
          BY <1>2, <1>4, <1>8, <1>11, <4>1, <5>1 DEF Children
      <4>2. CASE m # p
        <5>1. d.child[m] = c.child[m]
          BY <1>4, <1>8, <3>1, <4>2 DEF Live
        <5>2. \A v \in Children(c, m) : c.child[m][v] # n
          BY <3>2, <4>2 DEF p
        <5> QED
          BY <3>1, <5>1, <5>2
      <4> QED
        BY <4>1, <4>2
    <3>4. \A v \in Children(d, m) : d.parent[c.child[m][v]] = c.parent[c.child[m][v]]
      BY <1>6, <3>1, <3>2, <3>3 DEF Live
    <3> QED
      BY <1>10, <2>1, <3>1, <3>2, <3>3, <3>4
  <2>2. ASSUME NEW m \in Live(d) \ {ROOT}
        PROVE  d.parent[m] \in Live(d) /\ \E u \in Tokens : d.child[d.parent[m]][u] = m
    <3>1. m \in Live(c) \ {ROOT} /\ m # n /\ d.parent[m] = c.parent[m] /\ m \in Nat /\ m # NoNode
      BY <1>0, <1>6, <1>10, <2>2, CacheAssumption DEF Live, Typed, CacheAssumption
    <3>2. c.parent[m] \in Live(c) /\ \E u \in Tokens : c.child[c.parent[m]][u] = m
      BY <1>0, <3>1 DEF Linked
    <3>3. PICK u \in Tokens : c.child[c.parent[m]][u] = m
      BY <3>2
    <3>4. c.parent[m] # n
      BY <1>1, <3>1, <3>3 DEF Childless
    <3>5. d.child[c.parent[m]][u] = m
      <4>1. CASE c.parent[m] = p
        <5>1. c.child[p] \in [Tokens -> Nat \cup {NoNode}] /\ u # t
          BY <1>0, <1>2, <1>3, <3>1, <3>3, <4>1 DEF Typed
        <5> QED
          BY <1>4, <1>8, <3>3, <4>1, <5>1
      <4>2. CASE c.parent[m] # p
        BY <1>4, <1>8, <3>2, <3>3, <3>4, <4>2 DEF Live
      <4> QED
        BY <4>1, <4>2
    <3> QED
      BY <1>10, <3>1, <3>2, <3>4, <3>5
  <2> QED
    BY <2>1, <2>2 DEF Linked
<1>14. Counted(d)
  <2> SUFFICES ASSUME NEW m \in Live(d)
               PROVE  d.refs[m] = Cardinality(Children(d, m))
                                    + (IF d.slice[m] # NoSlice THEN 1 ELSE 0)
                                    + (IF m = ROOT THEN 1 ELSE 0)
    BY DEF Counted
  <2>1. /\ m \in Live(c) /\ m # n /\ m \in 0..c.used - 1
        /\ c.refs[m] = Cardinality(Children(c, m)) + (IF c.slice[m] # NoSlice THEN 1 ELSE 0)
                                                   + (IF m = ROOT THEN 1 ELSE 0)
    BY <1>0, <1>10 DEF Counted, Live
  <2>2. CASE m # p
    BY <1>4, <1>5, <1>7, <1>11, <2>1, <2>2
  <2>3. CASE m = p
    <3>1. /\ Cardinality(Children(c, p)) \in Nat
          /\ Cardinality(Children(c, p) \ {t}) = Cardinality(Children(c, p)) - 1
          /\ Cardinality(Children(c, p) \ {t}) \in Nat
      <4>1. IsFiniteSet(Children(c, p)) /\ IsFiniteSet(Children(c, p) \ {t})
        BY FS_Subset, CacheAssumption DEF Children, CacheAssumption
      <4> QED
        BY <1>11, <4>1, FS_RemoveElement, FS_CardinalityType
    <3>2. /\ Cardinality(Children(d, m)) = Cardinality(Children(c, m)) - 1
          /\ Cardinality(Children(d, m)) \in Nat /\ d.slice[m] = c.slice[m]
          /\ d.refs[m] = Less(c.refs[m], 1) /\ Cardinality(Children(c, m)) \in Nat
      BY <1>4, <1>5, <1>7, <1>11, <2>3, <3>1
    <3> QED
      BY <2>1, <3>2 DEF Less
  <2> QED
    BY <2>2, <2>3
<1>15. FreeSlots(d)
  <2>1. ASSUME NEW m \in ToSet(d.free)
        PROVE  m \in 1..d.used - 1 /\ d.slice[m] = NoSlice /\ d.child[m] = Childless
    <3>1. CASE m = n
      BY <1>1, <1>4, <1>5, <1>8, <3>1
    <3>2. CASE m # n
      <4>1. m \in ToSet(c.free)
        BY <1>4, <1>9, <2>1, <3>2
      <4>2. m \in 1..c.used - 1 /\ c.slice[m] = NoSlice /\ c.child[m] = Childless
        BY <1>0, <4>1 DEF FreeSlots
      <4>3. m # p /\ m \in 0..c.used - 1
        BY <1>1, <4>1, <4>2 DEF Live
      <4> QED
        BY <1>4, <1>5, <1>8, <3>2, <4>2, <4>3
    <3> QED
      BY <3>1, <3>2
  <2> QED
    BY <1>4, <1>9, <2>1 DEF FreeSlots
<1>16. ListExact(d) /\ TotalExact(d)
  <2>1. Lengths(d) = Lengths(c)
    BY <1>4, <1>5 DEF Lengths
  <2> QED
    BY <1>0, <1>1, <1>4, <1>5, <1>10, <2>1 DEF ListExact, TotalExact
<1>17. Orphans(d) \subseteq (Orphans(c) \ {n}) \cup {p}
  BY <1>5, <1>10, <1>11 DEF Orphans
<1>18. p \in Live(d)
  BY <1>1, <1>10 DEF p
<1> QED
  BY <1>4, <1>9, <1>12, <1>13, <1>14, <1>15, <1>16, <1>17, <1>18 DEF Sound, d, p

-------------------------------------------------------------------------------
(* A chain of nodes that hold nothing.                                     *)

\* The rounds of try_collect_chain are there, one after the other.
LEMMA Rounds ==
  ASSUME NEW first, NEW k \in Nat
  PROVE  \E f : f = [i \in 0..k |-> IF i = 0 THEN first ELSE Up(f[i - 1])]
<1> DEFINE IsUp(f, j) == f = [i \in 0..j |-> IF i = 0 THEN first ELSE Up(f[i - 1])]
           B == {j \in 0..k : \E f : IsUp(f, j)}
<1>1. 0 \in B
  <2>1. IsUp([i \in 0..0 |-> first], 0)
    OBVIOUS
  <2> HIDE DEF IsUp
  <2> QED
    BY <2>1
<1>2. ASSUME NEW j \in 0..k - 1, j \in B PROVE j + 1 \in B
  <2>1. PICK f : IsUp(f, j)
    BY <1>2
  <2> DEFINE g == [i \in 0..j + 1 |-> IF i = j + 1 THEN Up(f[j]) ELSE f[i]]
  <2>2. \A i \in 0..j + 1 : i # j + 1 => i \in 0..j
    OBVIOUS
  <2>3. \A i \in 0..j + 1 : g[i] = IF i = 0 THEN first ELSE Up(g[i - 1])
    BY <2>1, <2>2
  <2>4. IsUp(g, j + 1)
    <3> HIDE DEF g
    <3>1. g = [i \in 0..j + 1 |-> g[i]]
      BY DEF g
    <3> QED
      BY <2>3, <3>1
  <2> HIDE DEF IsUp, g
  <2>5. \E f2 : IsUp(f2, j + 1)
    BY <2>4
  <2> QED
    BY <2>5
<1> HIDE DEF B
<1>3. k \in 0..k /\ 0..k \subseteq B
  BY <1>1, <1>2, UpTo
<1> QED
  BY <1>3 DEF B

\* After i rounds the chain is done, or it is the turn of the only node that may be an
\* orphan, and i slots are free.
Climbing(at, c, i) ==
  /\ Sound(at.cache) /\ at.cache.used = c.used
  /\ at.cache.lru = c.lru /\ at.cache.total = c.total
  /\ \/ at.node = NoNode /\ NoOrphans(at.cache)
     \/ /\ at.node \in Live(at.cache) /\ Orphans(at.cache) \subseteq {at.node}
        /\ Len(at.cache.free) >= i

\* An orphan can be collected.
LEMMA OrphanCollectable ==
  ASSUME NEW c, Sound(c), NEW n \in Orphans(c)
  PROVE  Collectable(c, n)
<1>1. /\ n \in Live(c) \ {ROOT} /\ Children(c, n) = {} /\ c.slice[n] = NoSlice
      /\ n \in 0..c.used - 1 /\ n \in Nat /\ n # NoNode
  BY CacheAssumption DEF Orphans, Live, Sound, Typed, CacheAssumption
<1>2. c.refs[n] = 0
  <2>1. c.refs[n] = Cardinality(Children(c, n)) + (IF c.slice[n] # NoSlice THEN 1 ELSE 0)
                                                + (IF n = ROOT THEN 1 ELSE 0)
    BY <1>1 DEF Sound, Counted
  <2>2. Cardinality(Children(c, n)) = 0
    BY <1>1, FS_EmptySet
  <2> QED
    BY <1>1, <2>1, <2>2
<1>3. c.child[n] = Childless
  <2>1. c.child[n] \in [Tokens -> Nat \cup {NoNode}] /\ \A t \in Tokens : c.child[n][t] = NoNode
    BY <1>1 DEF Sound, Typed, Children
  <2> QED
    BY <2>1 DEF Childless
<1>4. c.parent[n] \in Live(c) /\ c.parent[n] \in Nat
  BY <1>1 DEF Sound, Linked, Live, Typed
<1> QED
  BY <1>1, <1>2, <1>3, <1>4, CacheAssumption DEF Collectable, CacheAssumption

LEMMA UpKeeps ==
  ASSUME NEW c, NEW at, NEW i \in Nat, Climbing(at, c, i),
         at = [cache |-> at.cache, node |-> at.node]
  PROVE  Climbing(Up(at), c, i + 1) /\ Up(at) = [cache |-> Up(at).cache, node |-> Up(at).node]
<1> DEFINE e == at.cache
           n == at.node
<1>1. CASE Collectable(e, n)
  <2> DEFINE d == Detach(e, n)
             p == e.parent[n]
  <2>1. Up(at) = [cache |-> d, node |-> p]
    BY <1>1 DEF Up
  <2>2. Sound(e) /\ n \in Live(e) /\ Orphans(e) \subseteq {n} /\ Len(e.free) >= i
    BY <1>1 DEF Climbing, Collectable
  <2>3. /\ Sound(d) /\ p \in Live(d) /\ Orphans(d) \subseteq (Orphans(e) \ {n}) \cup {p}
        /\ Len(d.free) = Len(e.free) + 1 /\ d.used = e.used
        /\ d.lru = e.lru /\ d.total = e.total
    BY <1>1, <2>2, DetachKeeps
  <2>4. Len(e.free) \in Nat
    BY <2>2 DEF Sound, Typed
  <2> HIDE DEF d, p
  <2>5. Orphans(d) \subseteq {p} /\ Len(d.free) >= i + 1
    BY <2>2, <2>3, <2>4
  <2>6. d.used = c.used /\ d.lru = c.lru /\ d.total = c.total
    BY <2>3 DEF Climbing
  <2>7. Climbing([cache |-> d, node |-> p], c, i + 1)
    BY <2>3, <2>5, <2>6 DEF Climbing
  <2> QED
    BY <2>1, <2>7
<1>2. CASE ~Collectable(e, n)
  <2>1. Up(at) = [cache |-> e, node |-> NoNode]
    BY <1>2 DEF Up
  <2>2. NoOrphans(e)
    <3>1. Sound(e) /\ (Orphans(e) = {} \/ Orphans(e) \subseteq {n})
      BY DEF Climbing, NoOrphans
    <3>2. n \notin Orphans(e)
      BY <1>2, <3>1, OrphanCollectable
    <3> QED
      BY <3>1, <3>2 DEF NoOrphans
  <2>3. Climbing([cache |-> e, node |-> NoNode], c, i + 1)
    BY <2>2 DEF Climbing
  <2> QED
    BY <2>1, <2>3
<1> QED
  BY <1>1, <1>2

\* try_collect_chain is where its last round ends.
LEMMA CollectSteps ==
  ASSUME NEW c, Sound(c), NEW n
  PROVE  \E f : /\ try_collect_chain(c, n) = f[c.used].cache
                /\ f[0] = [cache |-> c, node |-> n]
                /\ \A i \in 0..c.used - 1 : f[i + 1] = Up(f[i])
<1> DEFINE first == [cache |-> c, node |-> n]
           IsUp(f) == f = [i \in 0..c.used |-> IF i = 0 THEN first ELSE Up(f[i - 1])]
           after == CHOOSE f : IsUp(f)
<1>0. c.used \in Nat
  BY DEF Sound, Typed
<1>1. try_collect_chain(c, n) = after[c.used].cache
  BY DEF try_collect_chain
<1>2. IsUp(after)
  <2>1. \E f : IsUp(f)
    BY <1>0, Rounds
  <2> HIDE DEF IsUp
  <2> QED
    BY <2>1
<1>3. after[0] = first /\ \A i \in 0..c.used - 1 : after[i + 1] = Up(after[i])
  <2> HIDE DEF after, first
  <2>1. after = [i \in 0..c.used |-> IF i = 0 THEN first ELSE Up(after[i - 1])]
    BY <1>2
  <2>2. \A i \in 0..c.used : after[i] = IF i = 0 THEN first ELSE Up(after[i - 1])
    BY <2>1, Zenon
  <2>3. \A i \in 0..c.used - 1 : i + 1 \in 0..c.used /\ i + 1 # 0 /\ (i + 1) - 1 = i
    BY <1>0
  <2>4. 0 \in 0..c.used
    BY <1>0
  <2> QED
    BY <2>2, <2>3, <2>4
<1> HIDE DEF after, IsUp
<1> QED
  BY <1>1, <1>3

\* The rounds are enough: there are no more slots to free than there are rounds.
LEMMA CollectKeeps ==
  ASSUME NEW c, Sound(c), NEW n \in Live(c), Orphans(c) \subseteq {n}
  PROVE  LET d == try_collect_chain(c, n)
         IN  Sound(d) /\ NoOrphans(d) /\ d.lru = c.lru /\ d.total = c.total
<1> DEFINE first == [cache |-> c, node |-> n]
<1>0. c.used \in Nat
  BY DEF Sound, Typed
<1>1. PICK after : /\ try_collect_chain(c, n) = after[c.used].cache
                   /\ after[0] = first
                   /\ \A i \in 0..c.used - 1 : after[i + 1] = Up(after[i])
  BY CollectSteps
<1> DEFINE Good(i) == Climbing(after[i], c, i) /\ after[i] = [cache |-> after[i].cache, node |-> after[i].node]
           B == {i \in 0..c.used : Good(i)}
<1>4. 0 \in B
  <2>1. Len(c.free) \in Nat
    BY DEF Sound, Typed
  <2>2. Climbing(first, c, 0)
    BY <2>1 DEF Climbing
  <2> QED
    BY <1>0, <1>1, <2>2
<1>5. ASSUME NEW i \in 0..c.used - 1, i \in B PROVE i + 1 \in B
  <2>1. i \in Nat /\ i + 1 \in 0..c.used /\ Good(i)
    BY <1>0, <1>5
  <2> QED
    BY <1>1, <2>1, UpKeeps
<1> HIDE DEF B
<1>6. 0..c.used \subseteq B
  BY <1>0, <1>4, <1>5, UpTo
<1> DEFINE d == after[c.used].cache
<1>7. Climbing(after[c.used], c, c.used)
  <2>1. c.used \in B
    BY <1>0, <1>6
  <2> QED
    BY <2>1 DEF B
<1>8. ~(Len(d.free) >= c.used)
  <2>1. Sound(d) /\ d.used = c.used
    BY <1>7 DEF Climbing
  <2> HIDE DEF d
  <2> DEFINE k == d.used - 1
             s == d.free
  <2>2. /\ k \in Nat /\ s \in Seq(Nat) /\ IsInjective(s) /\ \A m \in ToSet(s) : m \in 1..k
    BY <2>1 DEF Sound, Typed, FreeSlots
  <2> HIDE DEF k, s
  <2>3. s \in Seq(1..k)
    BY <2>2 DEF ToSet
  <2>4. Len(s) <= k
    BY <2>2, <2>3, InjectiveBound
  <2>5. Len(s) \in Nat
    BY <2>2
  <2> QED
    BY <1>0, <2>1, <2>4, <2>5 DEF k, s
<1> QED
  BY <1>1, <1>7, <1>8 DEF Climbing

-------------------------------------------------------------------------------
(* The oldest slice is evicted.                                            *)

\* The node in front loses its slice and its place, and may be an orphan then.
LEMMA EvictParts ==
  ASSUME NEW c, Sound(c), NoOrphans(c), c.lru # <<>>
  PROVE  \E e : /\ EvictOldest(c) = try_collect_chain(e, Head(c.lru))
                /\ Sound(e) /\ Orphans(e) \subseteq {Head(c.lru)} /\ Head(c.lru) \in Live(e)
                /\ e.lru = Tail(c.lru) /\ Len(e.lru) = Len(c.lru) - 1
                /\ e.child = c.child /\ e.slice = [c.slice EXCEPT ![Head(c.lru)] = NoSlice]
<1> DEFINE n == Head(c.lru)
           popped == [c EXCEPT !.lru = Tail(@)]
           e == [popped EXCEPT !.slice[n] = NoSlice, !.refs[n] = Less(@, 1),
                               !.total = Less(@, c.slice[n])]
           list == Tail(c.lru)
           slice == [c.slice EXCEPT ![n] = NoSlice]
           refs == [c.refs EXCEPT ![n] = Less(@, 1)]
           total == Less(c.total, c.slice[n])
<1>0. Typed(c) /\ Linked(c) /\ Counted(c) /\ FreeSlots(c) /\ ListExact(c) /\ TotalExact(c)
  BY DEF Sound
<1>1. /\ list \in Seq(Nat) /\ Len(list) = Len(c.lru) - 1 /\ IsInjective(list)
      /\ n \in ToSet(c.lru) /\ ToSet(list) = ToSet(c.lru) \ {n}
  <2> DEFINE s == c.lru
  <2>1. s \in Seq(Nat) /\ s # <<>> /\ IsInjective(s)
    BY <1>0 DEF Typed, ListExact
  <2> HIDE DEF s
  <2>2. /\ Tail(s) \in Seq(Nat) /\ Len(Tail(s)) = Len(s) - 1
        /\ IsInjective(Tail(s)) /\ Head(s) \in ToSet(s)
        /\ ToSet(Tail(s)) = ToSet(s) \ {Head(s)}
    BY <2>1, TailParts, Zenon
  <2> QED
    BY <2>2 DEF s
<1>2. /\ n \in Live(c) /\ c.slice[n] # NoSlice /\ n \in 0..c.used - 1 /\ n \in Nat
      /\ n \notin ToSet(c.free) /\ c.slice[n] \in Nat
  BY <1>0, <1>1 DEF ListExact, Live, Typed
<1>3. EvictOldest(c) = try_collect_chain(e, n)
  BY <1>2 DEF EvictOldest
<1> HIDE DEF n
<1>4. e = [c EXCEPT !.lru = list, !.slice = slice, !.refs = refs, !.total = total]
  BY <1>0 DEF Typed
<1>5. /\ slice \in [0..c.used - 1 -> Nat \cup {NoSlice}] /\ slice[n] = NoSlice
      /\ \A m \in 0..c.used - 1 : m # n => slice[m] = c.slice[m]
  <2>1. c.slice \in [0..c.used - 1 -> Nat \cup {NoSlice}] /\ n \in 0..c.used - 1
    BY <1>0, <1>2 DEF Typed
  <2> QED
    BY <2>1
<1>6. /\ refs \in [0..c.used - 1 -> Nat] /\ refs[n] = Less(c.refs[n], 1)
      /\ \A m \in 0..c.used - 1 : m # n => refs[m] = c.refs[m]
  <2>1. c.refs \in [0..c.used - 1 -> Nat] /\ n \in 0..c.used - 1
    BY <1>0, <1>2 DEF Typed
  <2>2. Less(c.refs[n], 1) \in Nat
    <3>1. c.refs[n] \in Nat
      BY <2>1
    <3>2. \A r \in Nat : Less(r, 1) \in Nat
      BY DEF Less
    <3> QED
      BY <3>1, <3>2
  <2>3. refs = [c.refs EXCEPT ![n] = Less(c.refs[n], 1)]
    OBVIOUS
  <2> HIDE DEF refs
  <2> QED
    BY <2>1, <2>2, <2>3
<1>7. total \in Nat
  BY <1>0, <1>2 DEF Typed, Less
<1> HIDE DEF e, list, slice, refs, total, popped
<1>8. /\ Typed(e) /\ e.parent = c.parent /\ e.child = c.child /\ e.slice = slice
      /\ e.refs = refs /\ e.free = c.free /\ e.used = c.used /\ e.lru = list /\ e.total = total
  <2>1. /\ Typed(c) /\ list \in Seq(Nat) /\ slice \in [0..c.used - 1 -> Nat \cup {NoSlice}]
        /\ refs \in [0..c.used - 1 -> Nat]
    BY <1>0, <1>1, <1>5, <1>6
  <2> QED
    BY <1>4, <1>7, <2>1 DEF Typed
<1>9. /\ Live(e) = Live(c) /\ \A m \in Live(c) : Children(e, m) = Children(c, m)
  BY <1>8 DEF Live, Children
<1>10. Linked(e) /\ FreeSlots(e)
  <2>1. Linked(e)
    BY <1>0, <1>8, SameLinks
  <2>2. \A m \in ToSet(c.free) : m \in 1..c.used - 1 /\ slice[m] = NoSlice /\ c.child[m] = Childless
    BY <1>0, <1>2, <1>5 DEF FreeSlots
  <2> QED
    BY <1>0, <1>8, <2>1, <2>2 DEF FreeSlots
<1>11. Counted(e)
  <2> SUFFICES ASSUME NEW m \in Live(e)
               PROVE  e.refs[m] = Cardinality(Children(e, m))
                                    + (IF e.slice[m] # NoSlice THEN 1 ELSE 0)
                                    + (IF m = ROOT THEN 1 ELSE 0)
    BY DEF Counted
  <2>1. /\ m \in Live(c) /\ m \in 0..c.used - 1 /\ Children(e, m) = Children(c, m)
        /\ c.refs[m] = Cardinality(Children(c, m)) + (IF c.slice[m] # NoSlice THEN 1 ELSE 0)
                                                   + (IF m = ROOT THEN 1 ELSE 0)
    BY <1>0, <1>9 DEF Counted, Live
  <2>2. CASE m # n
    BY <1>5, <1>6, <1>8, <2>1, <2>2
  <2>3. CASE m = n
    <3>1. Cardinality(Children(c, n)) \in Nat
      <4>1. IsFiniteSet(Children(c, n))
        BY FS_Subset, CacheAssumption DEF Children, CacheAssumption
      <4> QED
        BY <4>1, FS_CardinalityType
    <3>2. e.refs[m] = Less(c.refs[m], 1) /\ e.slice[m] = NoSlice /\ c.slice[m] # NoSlice
      BY <1>2, <1>5, <1>6, <1>8, <2>3
    <3> QED
      BY <2>1, <2>3, <3>1, <3>2 DEF Less
  <2> QED
    BY <2>2, <2>3
<1>12. ListExact(e)
  BY <1>0, <1>1, <1>2, <1>5, <1>8, <1>9 DEF ListExact, Live
<1>13. TotalExact(e)
  <2>1. /\ SumFunction(Lengths(e)) = (SumFunction(Lengths(c)) - Lengths(c)[n]) + Lengths(e)[n]
        /\ Lengths(c)[n] \in Nat /\ Lengths(c)[n] <= SumFunction(Lengths(c))
        /\ SumFunction(Lengths(c)) \in Nat
    <3>1. /\ Typed(c) /\ Typed(e) /\ e.used = c.used /\ n \in 0..c.used - 1
          /\ \A m \in 0..c.used - 1 : m # n => e.slice[m] = c.slice[m]
      BY <1>0, <1>2, <1>5, <1>8
    <3> QED
      BY <3>1, LengthsExcept, Zenon
  <2>2. Lengths(e)[n] = 0 /\ Lengths(c)[n] = c.slice[n]
    BY <1>2, <1>5, <1>8 DEF Lengths
  <2>3. c.total = SumFunction(Lengths(c))
    BY <1>0 DEF TotalExact
  <2>4. total = c.total - Lengths(c)[n]
    BY <2>1, <2>2, <2>3 DEF Less, total
  <2> QED
    BY <1>8, <2>1, <2>2, <2>3, <2>4 DEF TotalExact
<1>14. Sound(e)
  BY <1>8, <1>10, <1>11, <1>12, <1>13 DEF Sound
<1>15. Orphans(e) \subseteq {n} /\ n \in Live(e)
  BY <1>2, <1>5, <1>8, <1>9 DEF NoOrphans, Orphans, Live
<1>16. /\ EvictOldest(c) = try_collect_chain(e, n) /\ Sound(e) /\ Orphans(e) \subseteq {n}
       /\ n \in Live(e) /\ e.lru = list /\ Len(e.lru) = Len(c.lru) - 1
       /\ e.child = c.child /\ e.slice = slice
  BY <1>1, <1>3, <1>8, <1>14, <1>15
<1> QED
  BY <1>16 DEF n, list, slice

\* The round takes one node off the list, and leaves nothing that leads nowhere.
LEMMA EvictOldestKeeps ==
  ASSUME NEW c, Sound(c), NoOrphans(c), c.lru # <<>>
  PROVE  LET d == EvictOldest(c)
         IN  Sound(d) /\ NoOrphans(d) /\ Len(d.lru) = Len(c.lru) - 1
<1> DEFINE n == Head(c.lru)
<1>1. PICK e : /\ EvictOldest(c) = try_collect_chain(e, n) /\ Sound(e) /\ Orphans(e) \subseteq {n}
               /\ n \in Live(e) /\ e.lru = Tail(c.lru) /\ Len(e.lru) = Len(c.lru) - 1
               /\ e.child = c.child /\ e.slice = [c.slice EXCEPT ![n] = NoSlice]
  BY EvictParts
<1> HIDE DEF n
<1> DEFINE d == try_collect_chain(e, n)
<1>2. Sound(d) /\ NoOrphans(d) /\ d.lru = e.lru
  BY <1>1, CollectKeeps
<1> QED
  BY <1>1, <1>2

\* Without a slice the total is zero.
LEMMA NothingStored ==
  ASSUME NEW c, Sound(c), c.lru = <<>>
  PROVE  c.total = 0
<1>1. ToSet(c.lru) = {}
  BY DEF ToSet
<1>2. \A m \in 0..c.used - 1 : c.slice[m] = NoSlice
  BY <1>1 DEF Sound, ListExact, FreeSlots, Live
<1>3. Lengths(c) \in [0..c.used - 1 -> Nat] /\ IsFiniteSet(0..c.used - 1)
  BY LengthsType DEF Sound
<1>4. \A m \in 0..c.used - 1 : Lengths(c)[m] = 0
  BY <1>2 DEF Lengths
<1> DEFINE S == 0..c.used - 1
           g == Lengths(c)
<1>5. g \in [S -> Int] /\ IsFiniteSet(S) /\ \A m \in S : g[m] = 0
  BY <1>3, <1>4
<1> HIDE DEF S, g
<1>6. SumFunction(g) = 0
  BY <1>5, SumZero, Zenon
<1> QED
  BY <1>6 DEF Sound, TotalExact, g

-------------------------------------------------------------------------------
(* Eviction, and the whole of commit.                                      *)

\* The rounds of evict_lru are there, one after the other.
LEMMA Evictions ==
  ASSUME NEW c, NEW k \in Nat
  PROVE  \E f : f = [i \in 0..k |-> IF i = 0 THEN c ELSE EvictIf(f[i - 1])]
<1> DEFINE IsEvict(f, j) == f = [i \in 0..j |-> IF i = 0 THEN c ELSE EvictIf(f[i - 1])]
           B == {j \in 0..k : \E f : IsEvict(f, j)}
<1>1. 0 \in B
  <2>1. IsEvict([i \in 0..0 |-> c], 0)
    OBVIOUS
  <2> HIDE DEF IsEvict
  <2> QED
    BY <2>1
<1>2. ASSUME NEW j \in 0..k - 1, j \in B PROVE j + 1 \in B
  <2>1. PICK f : IsEvict(f, j)
    BY <1>2
  <2> DEFINE g == [i \in 0..j + 1 |-> IF i = j + 1 THEN EvictIf(f[j]) ELSE f[i]]
  <2>2. \A i \in 0..j + 1 : i # j + 1 => i \in 0..j
    OBVIOUS
  <2>3. \A i \in 0..j + 1 : g[i] = IF i = 0 THEN c ELSE EvictIf(g[i - 1])
    BY <2>1, <2>2
  <2>4. IsEvict(g, j + 1)
    <3> HIDE DEF g
    <3>1. g = [i \in 0..j + 1 |-> g[i]]
      BY DEF g
    <3> QED
      BY <2>3, <3>1
  <2> HIDE DEF IsEvict, g
  <2>5. \E f2 : IsEvict(f2, j + 1)
    BY <2>4
  <2> QED
    BY <2>5
<1> HIDE DEF B
<1>3. k \in 0..k /\ 0..k \subseteq B
  BY <1>1, <1>2, UpTo
<1> QED
  BY <1>3 DEF B

\* After i rounds the total fits, or i nodes are off the list.
Evicting(d, c, i) ==
  /\ Sound(d) /\ NoOrphans(d)
  /\ WithinBudget(d) \/ Len(d.lru) <= Len(c.lru) - i

LEMMA EvictIfKeeps ==
  ASSUME NEW c, c.lru \in Seq(Nat), NEW i \in Nat, NEW d, Evicting(d, c, i)
  PROVE  Evicting(EvictIf(d), c, i + 1)
<1>1. Sound(d) /\ NoOrphans(d) /\ Len(d.lru) \in Nat /\ Len(c.lru) \in Nat /\ d.total \in Nat
  BY DEF Evicting, Sound, Typed
<1>2. CASE d.total <= Budget
  BY <1>1, <1>2, CacheAssumption DEF EvictIf, Evicting, WithinBudget, CacheAssumption
<1>3. CASE d.total > Budget /\ d.lru # <<>>
  <2> DEFINE e == EvictOldest(d)
  <2>1. EvictIf(d) = e
    BY <1>3 DEF EvictIf
  <2>2. Sound(e) /\ NoOrphans(e) /\ Len(e.lru) = Len(d.lru) - 1
    BY <1>1, <1>3, EvictOldestKeeps
  <2>3. Len(d.lru) <= Len(c.lru) - i
    BY <1>1, <1>3, CacheAssumption DEF Evicting, WithinBudget, CacheAssumption
  <2> HIDE DEF e
  <2> QED
    BY <1>1, <2>1, <2>2, <2>3 DEF Evicting
<1>4. CASE d.total > Budget /\ d.lru = <<>>
  BY <1>1, <1>4, NothingStored, CacheAssumption DEF CacheAssumption
<1> QED
  BY <1>1, <1>2, <1>3, <1>4, CacheAssumption DEF CacheAssumption

\* evict_lru is where its last round ends.
LEMMA EvictSteps ==
  ASSUME NEW c, Sound(c)
  PROVE  \E f : /\ evict_lru(c) = f[Len(c.lru)] /\ f[0] = c
                /\ \A i \in 0..Len(c.lru) - 1 : f[i + 1] = EvictIf(f[i])
<1> DEFINE IsEvict(f) == f = [i \in 0..Len(c.lru) |-> IF i = 0 THEN c ELSE EvictIf(f[i - 1])]
           after == CHOOSE f : IsEvict(f)
           k == Len(c.lru)
<1>0. k \in Nat /\ c.lru \in Seq(Nat)
  BY DEF Sound, Typed
<1>1. evict_lru(c) = after[k]
  BY DEF evict_lru
<1>2. IsEvict(after)
  <2>1. \E f : IsEvict(f)
    BY <1>0, Evictions
  <2> HIDE DEF IsEvict
  <2> QED
    BY <2>1
<1>3. after[0] = c /\ \A i \in 0..k - 1 : after[i + 1] = EvictIf(after[i])
  <2> HIDE DEF after
  <2>1. after = [i \in 0..k |-> IF i = 0 THEN c ELSE EvictIf(after[i - 1])]
    BY <1>2
  <2> HIDE DEF k
  <2>2. \A i \in 0..k : after[i] = IF i = 0 THEN c ELSE EvictIf(after[i - 1])
    BY <2>1, Zenon
  <2>3. \A i \in 0..k - 1 : i + 1 \in 0..k /\ i + 1 # 0 /\ (i + 1) - 1 = i
    BY <1>0
  <2>4. 0 \in 0..k
    BY <1>0
  <2> QED
    BY <2>2, <2>3, <2>4
<1> HIDE DEF after, IsEvict
<1> QED
  BY <1>1, <1>3

\* The rounds are enough: when the list is empty nothing counts any more.
LEMMA EvictKeeps ==
  ASSUME NEW c, Sound(c), NoOrphans(c)
  PROVE  WellFormed(evict_lru(c))
<1> DEFINE k == Len(c.lru)
<1>0. k \in Nat /\ c.lru \in Seq(Nat)
  BY DEF Sound, Typed
<1>1. PICK after : /\ evict_lru(c) = after[k] /\ after[0] = c
                   /\ \A i \in 0..k - 1 : after[i + 1] = EvictIf(after[i])
  BY EvictSteps
<1> DEFINE B == {i \in 0..k : Evicting(after[i], c, i)}
<1>4. 0 \in B
  BY <1>0, <1>1 DEF Evicting
<1>5. ASSUME NEW i \in 0..k - 1, i \in B PROVE i + 1 \in B
  <2>1. i \in Nat /\ i + 1 \in 0..k /\ Evicting(after[i], c, i)
    BY <1>0, <1>5
  <2> QED
    BY <1>0, <1>1, <2>1, EvictIfKeeps
<1> HIDE DEF B
<1>6. 0..k \subseteq B
  BY <1>0, <1>4, <1>5, UpTo
<1> DEFINE d == after[k]
<1>7. Evicting(d, c, k)
  <2>1. k \in B
    BY <1>0, <1>6
  <2> QED
    BY <2>1 DEF B
<1> HIDE DEF d
<1>8. WithinBudget(d)
  <2> SUFFICES ASSUME Len(d.lru) <= k - k PROVE WithinBudget(d)
    BY <1>7 DEF Evicting
  <2>1. Sound(d) /\ d.lru \in Seq(Nat) /\ Len(d.lru) \in Nat
    BY <1>7 DEF Evicting, Sound, Typed
  <2>2. d.lru = <<>>
    BY <1>0, <2>1
  <2> QED
    BY <2>1, <2>2, NothingStored, CacheAssumption DEF WithinBudget, CacheAssumption
<1> QED
  BY <1>1, <1>7, <1>8 DEF Evicting, WellFormed, d

\* The nodes on the way down are there, one after the other.
IsWay(f, c, key, k) == f = [i \in 0..k |-> IF i = 0 THEN [cache |-> c, node |-> ROOT]
                                           ELSE Extend(f[i - 1], key[i])]

LEMMA WayDown ==
  ASSUME NEW c, NEW key, NEW k \in Nat
  PROVE  \E f : IsWay(f, c, key, k)
<1> DEFINE first == [cache |-> c, node |-> ROOT]
           IsDown(f, j) == f = [i \in 0..j |-> IF i = 0 THEN first ELSE Extend(f[i - 1], key[i])]
           B == {j \in 0..k : \E f : IsDown(f, j)}
<1>1. 0 \in B
  <2>1. IsDown([i \in 0..0 |-> first], 0)
    OBVIOUS
  <2> HIDE DEF IsDown
  <2> QED
    BY <2>1
<1>2. ASSUME NEW j \in 0..k - 1, j \in B PROVE j + 1 \in B
  <2>1. PICK f : IsDown(f, j)
    BY <1>2
  <2> DEFINE g == [i \in 0..j + 1 |-> IF i = j + 1 THEN Extend(f[j], key[j + 1]) ELSE f[i]]
  <2>2. \A i \in 0..j + 1 : i # j + 1 => i \in 0..j
    OBVIOUS
  <2> HIDE DEF first
  <2>3. \A i \in 0..j + 1 : g[i] = IF i = 0 THEN first ELSE Extend(g[i - 1], key[i])
    BY <2>1, <2>2
  <2>4. IsDown(g, j + 1)
    <3> HIDE DEF g
    <3>1. g = [i \in 0..j + 1 |-> g[i]]
      BY DEF g
    <3> QED
      BY <2>3, <3>1
  <2> HIDE DEF IsDown, g
  <2>5. \E f2 : IsDown(f2, j + 1)
    BY <2>4
  <2> QED
    BY <2>5
<1> HIDE DEF B
<1>3. k \in 0..k /\ 0..k \subseteq B
  BY <1>1, <1>2, UpTo
<1> QED
  BY <1>3 DEF B, IsWay

\* The node that was reached is live, and no other is an orphan.
Descended(at) == /\ Sound(at.cache) /\ at.node \in Live(at.cache)
                 /\ Orphans(at.cache) \subseteq {at.node}

LEMMA ExtendKeeps ==
  ASSUME NEW at, Descended(at), NEW t \in Tokens
  PROVE  Descended(Extend(at, t))
<1> DEFINE c == at.cache
           p == at.node
<1>1. Sound(c) /\ p \in Live(c) /\ Orphans(c) \subseteq {p}
  BY DEF Descended
<1>2. CASE c.child[p][t] # NoNode
  <2> DEFINE m == c.child[p][t]
  <2>1. Extend(at, t) = [cache |-> c, node |-> m]
    BY <1>2 DEF Extend
  <2>2. t \in Children(c, p)
    BY <1>2 DEF Children
  <2>3. m \in Live(c) /\ p \notin Orphans(c)
    BY <1>1, <2>2 DEF Sound, Linked, Orphans
  <2> HIDE DEF m
  <2> QED
    BY <1>1, <2>1, <2>3 DEF Descended
<1>3. CASE c.child[p][t] = NoNode
  <2> DEFINE d == alloc_child(c, p, t)
             n == Slot(c)
  <2>1. Extend(at, t) = [cache |-> d, node |-> d.child[p][t]]
    BY <1>3 DEF Extend
  <2>2. /\ Sound(d) /\ d.child[p][t] = n /\ n \in Live(d)
        /\ Orphans(d) \subseteq (Orphans(c) \ {p}) \cup {n}
    BY <1>1, <1>3, AllocKeeps
  <2> HIDE DEF d, n
  <2> QED
    BY <1>1, <2>1, <2>2 DEF Descended
<1> QED
  BY <1>2, <1>3

\* Descend is where the last step down ends.
LEMMA DescendSteps ==
  ASSUME NEW c, NEW key \in Seq(Tokens)
  PROVE  \E f : /\ Descend(c, key) = f[Len(key)]
                /\ f[0] = [cache |-> c, node |-> ROOT]
                /\ \A i \in 0..Len(key) - 1 : f[i + 1] = Extend(f[i], key[i + 1])
<1> DEFINE first == [cache |-> c, node |-> ROOT]
           IsDown(f) == IsWay(f, c, key, Len(key))
           down == CHOOSE f : IsDown(f)
           k == Len(key)
<1>0. k \in Nat /\ \A i \in 1..k : key[i] \in Tokens
  OBVIOUS
<1>1. Descend(c, key) = down[k]
  BY DEF Descend, IsWay
<1>2. IsDown(down)
  <2>1. \E f : IsDown(f)
    BY <1>0, WayDown
  <2> HIDE DEF IsDown
  <2> QED
    BY <2>1
<1>3. down[0] = first /\ \A i \in 0..k - 1 : down[i + 1] = Extend(down[i], key[i + 1])
  <2> HIDE DEF down, first
  <2>1. down = [i \in 0..k |-> IF i = 0 THEN first ELSE Extend(down[i - 1], key[i])]
    BY <1>2 DEF IsWay, first
  <2> HIDE DEF k
  <2>2. \A i \in 0..k : down[i] = IF i = 0 THEN first ELSE Extend(down[i - 1], key[i])
    BY <2>1, Zenon
  <2>3. \A i \in 0..k - 1 : i + 1 \in 0..k /\ i + 1 # 0 /\ (i + 1) - 1 = i
    BY <1>0
  <2>4. 0 \in 0..k
    BY <1>0
  <2> QED
    BY <2>2, <2>3, <2>4
<1> HIDE DEF down, IsDown
<1> QED
  BY <1>1, <1>3

LEMMA DescendKeeps ==
  ASSUME NEW c, Sound(c), NoOrphans(c), NEW key \in Seq(Tokens)
  PROVE  Descended(Descend(c, key))
<1> DEFINE k == Len(key)
<1>0. k \in Nat /\ \A i \in 1..k : key[i] \in Tokens
  OBVIOUS
<1>1. PICK down : /\ Descend(c, key) = down[k] /\ down[0] = [cache |-> c, node |-> ROOT]
                  /\ \A i \in 0..k - 1 : down[i + 1] = Extend(down[i], key[i + 1])
  BY DescendSteps
<1> DEFINE B == {i \in 0..k : Descended(down[i])}
<1>4. 0 \in B
  <2>1. ROOT \in Live(c)
    BY DEF Sound, Typed, FreeSlots, Live, ROOT
  <2> QED
    BY <1>0, <1>1, <2>1 DEF Descended, NoOrphans
<1>5. ASSUME NEW i \in 0..k - 1, i \in B PROVE i + 1 \in B
  <2>1. i + 1 \in 0..k /\ key[i + 1] \in Tokens /\ Descended(down[i])
    BY <1>0, <1>5
  <2> QED
    BY <1>1, <2>1, ExtendKeeps
<1> HIDE DEF B
<1>6. 0..k \subseteq B
  BY <1>0, <1>4, <1>5, UpTo
<1>7. k \in B
  BY <1>0, <1>6
<1> QED
  BY <1>1, <1>7 DEF B

LEMMA CommitKeeps ==
  ASSUME NEW c, WellFormed(c), NEW key \in Seq(Tokens), NEW len \in Nat
  PROVE  WellFormed(commit(c, key, len))
<1> DEFINE at == Descend(c, key)
           d == Stored(at.cache, at.node, len)
<1>1. Descended(at)
  BY DescendKeeps DEF WellFormed
<1> HIDE DEF at
<1>2. Sound(d) /\ Orphans(d) = Orphans(at.cache) \ {at.node}
  BY <1>1, StoredKeeps DEF Descended
<1>3. NoOrphans(d)
  BY <1>1, <1>2 DEF Descended, NoOrphans
<1>4. commit(c, key, len) = evict_lru(d)
  BY DEF commit, at
<1> HIDE DEF d
<1> QED
  BY <1>2, <1>3, <1>4, EvictKeeps

-------------------------------------------------------------------------------
(* The trie as a flat list.                                                *)

\* One link down, as Walk takes it.
Onward(c, n, t) == IF n = NoNode THEN NoNode ELSE c.child[n][t]

IsWalk(f, c, key, k) == f = [i \in 0..k |-> IF i = 0 THEN ROOT ELSE Onward(c, f[i - 1], key[i])]

\* The places on the way along a key are there, one after the other.
LEMMA WalkExists ==
  ASSUME NEW c, NEW key, NEW k \in Nat
  PROVE  \E f : IsWalk(f, c, key, k)
<1> DEFINE B == {j \in 0..k : \E f : IsWalk(f, c, key, j)}
<1>1. 0 \in B
  <2>1. IsWalk([i \in 0..0 |-> ROOT], c, key, 0)
    BY DEF IsWalk
  <2> QED
    BY <2>1
<1>2. ASSUME NEW j \in 0..k - 1, j \in B PROVE j + 1 \in B
  <2>1. PICK f : IsWalk(f, c, key, j)
    BY <1>2
  <2> DEFINE g == [i \in 0..j + 1 |-> IF i = j + 1 THEN Onward(c, f[j], key[j + 1]) ELSE f[i]]
  <2>2. \A i \in 0..j + 1 : i # j + 1 => i \in 0..j
    OBVIOUS
  <2>3. \A i \in 0..j + 1 : g[i] = IF i = 0 THEN ROOT ELSE Onward(c, g[i - 1], key[i])
    BY <2>1, <2>2 DEF IsWalk
  <2>4. IsWalk(g, c, key, j + 1)
    <3> HIDE DEF g
    <3>1. g = [i \in 0..j + 1 |-> g[i]]
      BY DEF g
    <3> QED
      BY <2>3, <3>1 DEF IsWalk
  <2> HIDE DEF g
  <2>5. \E f2 : IsWalk(f2, c, key, j + 1)
    BY <2>4
  <2> QED
    BY <2>5
<1> HIDE DEF B
<1>3. k \in 0..k /\ 0..k \subseteq B
  BY <1>1, <1>2, UpTo
<1> QED
  BY <1>3 DEF B

LEMMA WalkParts ==
  ASSUME NEW c, NEW key \in Seq(Tokens)
  PROVE  /\ Walk(c, key)[0] = ROOT
         /\ \A i \in 1..Len(key) : Walk(c, key)[i] = Onward(c, Walk(c, key)[i - 1], key[i])
<1> DEFINE k == Len(key)
           w == CHOOSE f : IsWalk(f, c, key, k)
<1>0. k \in Nat
  OBVIOUS
<1>1. Walk(c, key) = w
  BY DEF Walk, IsWalk, Onward
<1>2. IsWalk(w, c, key, k)
  <2>1. \E f : IsWalk(f, c, key, k)
    BY <1>0, WalkExists
  <2> QED
    BY <2>1
<1> HIDE DEF w, k
<1>3. \A i \in 0..k : w[i] = IF i = 0 THEN ROOT ELSE Onward(c, w[i - 1], key[i])
  BY <1>2, Zenon DEF IsWalk
<1>4. 0 \in 0..k /\ \A i \in 1..k : i \in 0..k /\ i # 0
  BY <1>0
<1>5. w[0] = ROOT /\ \A i \in 1..k : w[i] = Onward(c, w[i - 1], key[i])
  BY <1>3, <1>4
<1> QED
  BY <1>1, <1>5 DEF k

\* A way leads over live nodes, and back to the root never; where it ends it has ended.
LEMMA WalkLive ==
  ASSUME NEW c, Sound(c), NEW key \in Seq(Tokens)
  PROVE  /\ \A i \in 0..Len(key) : Walk(c, key)[i] \in Live(c) \cup {NoNode}
         /\ \A i \in 1..Len(key) : Walk(c, key)[i] # NoNode =>
              LET m == Walk(c, key)[i - 1]
              IN  /\ Walk(c, key)[i] # ROOT
                  /\ m \in Live(c) /\ key[i] \in Children(c, m)
                  /\ c.child[m][key[i]] = Walk(c, key)[i] /\ c.parent[Walk(c, key)[i]] = m
<1> DEFINE k == Len(key)
           w == Walk(c, key)
           B == {i \in 0..k : w[i] \in Live(c) \cup {NoNode}}
<1>0. k \in Nat /\ \A i \in 1..k : key[i] \in Tokens
  OBVIOUS
<1>1. w[0] = ROOT /\ \A i \in 1..k : w[i] = Onward(c, w[i - 1], key[i])
  BY WalkParts
<1> HIDE DEF w, k
<1>2. ROOT \in Live(c) /\ NoNode \notin Live(c)
  BY CacheAssumption DEF CacheAssumption, Sound, Typed, FreeSlots, Live, ROOT
<1>3. \A m \in Live(c), t \in Tokens : c.child[m][t] # NoNode =>
        /\ t \in Children(c, m) /\ c.child[m][t] \in Live(c) \ {ROOT}
        /\ c.parent[c.child[m][t]] = m
  BY DEF Sound, Linked, Children
<1>4. ASSUME NEW i \in 0..k - 1, i \in B PROVE i + 1 \in B
  <2>1. w[i + 1] = Onward(c, w[i], key[i + 1]) /\ i + 1 \in 0..k /\ key[i + 1] \in Tokens
    BY <1>0, <1>1
  <2> QED
    BY <1>3, <1>4, <2>1 DEF Onward
<1>5. 0..k \subseteq B
  <2>1. 0 \in B
    BY <1>0, <1>1, <1>2
  <2> HIDE DEF B
  <2> QED
    BY <1>0, <1>4, <2>1, UpTo
<1>6. ASSUME NEW i \in 1..k, w[i] # NoNode
      PROVE  /\ w[i] # ROOT /\ w[i - 1] \in Live(c) /\ key[i] \in Children(c, w[i - 1])
             /\ c.child[w[i - 1]][key[i]] = w[i] /\ c.parent[w[i]] = w[i - 1]
  <2>1. w[i] = Onward(c, w[i - 1], key[i]) /\ i - 1 \in 0..k /\ key[i] \in Tokens
    BY <1>0, <1>1
  <2>2. w[i - 1] \in Live(c) /\ w[i] = c.child[w[i - 1]][key[i]]
    BY <1>5, <1>6, <2>1 DEF Onward
  <2> QED
    BY <1>3, <1>6, <2>1, <2>2
<1> QED
  BY <1>5, <1>6 DEF w, k

\* The way does not depend on what comes later in the key.
LEMMA WalkPrefix ==
  ASSUME NEW c, NEW p \in Seq(Tokens), NEW q \in Seq(Tokens), NEW k \in 0..Len(p), k <= Len(q),
         \A i \in 1..k : p[i] = q[i]
  PROVE  \A i \in 0..k : Walk(c, p)[i] = Walk(c, q)[i]
<1> DEFINE v == Walk(c, p)
           w == Walk(c, q)
           B == {i \in 0..k : v[i] = w[i]}
<1>0. k \in Nat
  OBVIOUS
<1>1. v[0] = ROOT /\ \A i \in 1..k : v[i] = Onward(c, v[i - 1], p[i])
  BY WalkParts
<1>2. w[0] = ROOT /\ \A i \in 1..k : w[i] = Onward(c, w[i - 1], q[i])
  BY WalkParts
<1> HIDE DEF v, w
<1>3. ASSUME NEW i \in 0..k - 1, i \in B PROVE i + 1 \in B
  <2>1. i + 1 \in 1..k /\ (i + 1) - 1 = i /\ i + 1 \in 0..k
    BY <1>0
  <2>2. v[i + 1] = Onward(c, v[i], p[i + 1]) /\ w[i + 1] = Onward(c, w[i], q[i + 1])
    BY <1>1, <1>2, <2>1
  <2> QED
    BY <1>3, <2>1, <2>2
<1>4. 0 \in B
  BY <1>0, <1>1, <1>2
<1> HIDE DEF B
<1>5. 0..k \subseteq B
  BY <1>0, <1>3, <1>4, UpTo
<1> QED
  BY <1>5 DEF B, v, w

\* A node has one key: links lead back to one parent and by one token.
LEMMA WalkUnique ==
  ASSUME NEW c, Sound(c), NEW p \in Seq(Tokens), NEW q \in Seq(Tokens),
         NEW i \in 0..Len(p), NEW j \in 0..Len(q),
         Walk(c, p)[i] = Walk(c, q)[j], Walk(c, p)[i] # NoNode
  PROVE  i = j /\ \A m \in 1..i : p[m] = q[m]
<1> DEFINE v == Walk(c, p)
           w == Walk(c, q)
           Same(a) == \A b \in 0..Len(q) : v[a] = w[b] /\ v[a] # NoNode =>
                        a = b /\ \A m \in 1..a : p[m] = q[m]
           B == {a \in 0..Len(p) : Same(a)}
<1>0. Len(p) \in Nat /\ Len(q) \in Nat
  OBVIOUS
<1>1. v[0] = ROOT /\ w[0] = ROOT
  BY WalkParts
<1>2. \A a \in 1..Len(p) : v[a] # NoNode =>
        /\ v[a] # ROOT /\ p[a] \in Children(c, v[a - 1]) /\ v[a - 1] \in Live(c)
        /\ c.child[v[a - 1]][p[a]] = v[a] /\ c.parent[v[a]] = v[a - 1]
  BY WalkLive
<1>3. \A b \in 1..Len(q) : w[b] # NoNode =>
        /\ w[b] # ROOT /\ q[b] \in Children(c, w[b - 1]) /\ w[b - 1] \in Live(c)
        /\ c.child[w[b - 1]][q[b]] = w[b] /\ c.parent[w[b]] = w[b - 1]
  BY WalkLive
<1>4. NoNode \notin Live(c)
  BY CacheAssumption DEF CacheAssumption, Live, Sound, Typed
<1> HIDE DEF v, w
<1>5. 0 \in B
  BY <1>0, <1>1, <1>3
<1>6. ASSUME NEW a \in 0..Len(p) - 1, a \in B PROVE a + 1 \in B
  <2>0. a \in Nat /\ a + 1 \in 1..Len(p) /\ (a + 1) - 1 = a /\ a + 1 \in 0..Len(p)
    BY <1>0
  <2> SUFFICES ASSUME NEW b \in 0..Len(q), v[a + 1] = w[b], v[a + 1] # NoNode
               PROVE  a + 1 = b /\ \A m \in 1..a + 1 : p[m] = q[m]
    BY <2>0
  <2>1. b \in 1..Len(q) /\ b - 1 \in 0..Len(q)
    BY <1>0, <1>1, <1>2, <2>0
  <2>2. /\ v[a] = c.parent[v[a + 1]] /\ w[b - 1] = c.parent[v[a + 1]]
        /\ c.child[v[a]][p[a + 1]] = v[a + 1] /\ c.child[v[a]][q[b]] = v[a + 1]
        /\ v[a] \in Live(c) /\ p[a + 1] \in Children(c, v[a]) /\ q[b] \in Children(c, v[a])
    <3>1. /\ v[a] = c.parent[v[a + 1]] /\ c.child[v[a]][p[a + 1]] = v[a + 1]
          /\ v[a] \in Live(c) /\ p[a + 1] \in Children(c, v[a])
      BY <1>2, <2>0
    <3>2. /\ w[b - 1] = c.parent[w[b]] /\ c.child[w[b - 1]][q[b]] = w[b]
          /\ q[b] \in Children(c, w[b - 1])
      BY <1>3, <2>1
    <3> QED
      BY <3>1, <3>2
  <2>3. p[a + 1] = q[b]
    BY <2>2 DEF Sound, Linked
  <2>4. a = b - 1 /\ \A m \in 1..a : p[m] = q[m]
    BY <1>4, <1>6, <2>1, <2>2
  <2>5. \A m \in 1..a + 1 : m \in 1..a \/ m = a + 1
    BY <2>0
  <2>6. a + 1 = b
    BY <2>0, <2>1, <2>4
  <2> QED
    BY <2>3, <2>4, <2>5, <2>6
<1> HIDE DEF B
<1>7. 0..Len(p) \subseteq B
  BY <1>0, <1>5, <1>6, UpTo
<1>8. Same(i)
  BY <1>7 DEF B
<1> QED
  BY <1>8 DEF v, w
\* A way that has not ended had not ended before.
LEMMA WalkAlive ==
  ASSUME NEW c, Sound(c), NEW key \in Seq(Tokens), NEW k \in 0..Len(key), Walk(c, key)[k] # NoNode
  PROVE  \A i \in 0..k : Walk(c, key)[i] # NoNode
<1> DEFINE w == Walk(c, key)
           B == {j \in 0..k : w[k - j] # NoNode}
<1>0. k \in Nat /\ k <= Len(key) /\ Len(key) \in Nat
  OBVIOUS
<1>1. \A i \in 1..Len(key) : w[i] # NoNode => w[i - 1] \in Live(c)
  BY WalkLive
<1>2. NoNode \notin Live(c)
  BY CacheAssumption DEF CacheAssumption, Live, Sound, Typed
<1> HIDE DEF w
<1>3. 0 \in B
  BY <1>0 DEF w
<1>4. ASSUME NEW j \in 0..k - 1, j \in B PROVE j + 1 \in B
  <2>1. k - j \in 1..Len(key) /\ (k - j) - 1 = k - (j + 1) /\ j + 1 \in 0..k
    BY <1>0
  <2> QED
    BY <1>1, <1>2, <1>4, <2>1
<1> HIDE DEF B
<1>5. 0..k \subseteq B
  BY <1>0, <1>3, <1>4, UpTo
<1>6. \A i \in 0..k : k - i \in 0..k /\ k - (k - i) = i
  BY <1>0
<1> QED
  BY <1>5, <1>6 DEF B, w

\* The way is the same in two caches whose links on it are the same.
LEMMA SameWay ==
  ASSUME NEW c, NEW d, NEW key \in Seq(Tokens), NEW k \in 0..Len(key),
         \A i \in 1..k : Walk(c, key)[i - 1] # NoNode =>
           d.child[Walk(c, key)[i - 1]][key[i]] = c.child[Walk(c, key)[i - 1]][key[i]]
  PROVE  \A i \in 0..k : Walk(d, key)[i] = Walk(c, key)[i]
<1> DEFINE v == Walk(c, key)
           w == Walk(d, key)
           B == {i \in 0..k : w[i] = v[i]}
<1>0. k \in Nat /\ Len(key) \in Nat /\ k <= Len(key)
  OBVIOUS
<1>1. v[0] = ROOT /\ \A i \in 1..Len(key) : v[i] = Onward(c, v[i - 1], key[i])
  BY WalkParts
<1>2. w[0] = ROOT /\ \A i \in 1..Len(key) : w[i] = Onward(d, w[i - 1], key[i])
  BY WalkParts
<1>3. \A i \in 1..k : v[i - 1] # NoNode => d.child[v[i - 1]][key[i]] = c.child[v[i - 1]][key[i]]
  OBVIOUS
<1> HIDE DEF v, w
<1>4. 0 \in B
  BY <1>0, <1>1, <1>2
<1>5. ASSUME NEW i \in 0..k - 1, i \in B PROVE i + 1 \in B
  <2>1. i + 1 \in 1..k /\ i + 1 \in 1..Len(key) /\ (i + 1) - 1 = i /\ i + 1 \in 0..k
    BY <1>0
  <2>2. v[i + 1] = Onward(c, v[i], key[i + 1]) /\ w[i + 1] = Onward(d, w[i], key[i + 1])
    BY <1>1, <1>2, <2>1
  <2>3. v[i] # NoNode => d.child[v[i]][key[i + 1]] = c.child[v[i]][key[i + 1]]
    BY <1>3, <2>1
  <2> QED
    BY <1>5, <2>1, <2>2, <2>3 DEF Onward
<1> HIDE DEF B
<1>6. 0..k \subseteq B
  BY <1>0, <1>4, <1>5, UpTo
<1> QED
  BY <1>6 DEF B, v, w

\* The node at the end of a key.
At(c, key, n) == Walk(c, key)[Len(key)] = n

LEMMA SameChildren ==
  ASSUME NEW c, NEW d, d.child = c.child, NEW key \in Seq(Tokens), NEW n
  PROVE  At(c, key, n) => At(d, key, n)
<1>1. Len(key) \in Nat /\ Len(key) \in 0..Len(key)
  OBVIOUS
<1>2. \A i \in 0..Len(key) : Walk(d, key)[i] = Walk(c, key)[i]
  BY <1>1, SameWay
<1> QED
  BY <1>1, <1>2 DEF At

LEMMA AtUnique ==
  ASSUME NEW c, Sound(c), NEW p \in Seq(Tokens), NEW q \in Seq(Tokens), NEW n, n # NoNode,
         At(c, p, n), At(c, q, n)
  PROVE  p = q
<1>1. Len(p) \in 0..Len(p) /\ Len(q) \in 0..Len(q)
  OBVIOUS
<1>2. Walk(c, p)[Len(p)] = n /\ Walk(c, q)[Len(q)] = n
  BY DEF At
<1>3. Len(p) = Len(q) /\ \A m \in 1..Len(p) : p[m] = q[m]
  BY <1>1, <1>2, WalkUnique
<1> QED
  BY <1>3

\* What a new node changes of links, slices and list.
LEMMA AllocLinks ==
  ASSUME NEW c, Sound(c), NEW p \in Live(c), NEW t \in Tokens
  PROVE  /\ Slot(c) \notin Live(c) /\ Slot(c) # p
         /\ alloc_child(c, p, t).child = [Put(c.child, Slot(c), Childless) EXCEPT ![p][t] = Slot(c)]
         /\ alloc_child(c, p, t).slice = Put(c.slice, Slot(c), NoSlice)
         /\ alloc_child(c, p, t).lru = c.lru
<1> DEFINE n == Slot(c)
           d == alloc_child(c, p, t)
<1>1. /\ n \in Nat \ {ROOT} /\ n \notin Live(c) /\ n # p
      /\ 0..d.used - 1 = (0..c.used - 1) \cup {n}
      /\ d.free \in Seq(Nat) /\ IsInjective(d.free)
      /\ ToSet(d.free) = ToSet(c.free) \ {n}
      /\ d.used \in Nat \ {0} /\ d.lru = c.lru /\ d.total = c.total
      /\ d.parent = Put(c.parent, n, p) /\ d.slice = Put(c.slice, n, NoSlice)
      /\ d.child = [Put(c.child, n, Childless) EXCEPT ![p][t] = n]
      /\ d.refs = [Put(c.refs, n, 0) EXCEPT ![p] = @ + 1]
      /\ d = [parent |-> d.parent, child |-> d.child, slice |-> d.slice, refs |-> d.refs,
              free |-> d.free, used |-> d.used, lru |-> d.lru, total |-> d.total]
      /\ n \in 0..c.used - 1 => c.slice[n] = NoSlice
  BY AllocParts
<1> HIDE DEF n, d
<1>2. /\ n \notin Live(c) /\ n # p
      /\ d.child = [Put(c.child, n, Childless) EXCEPT ![p][t] = n]
      /\ d.slice = Put(c.slice, n, NoSlice) /\ d.lru = c.lru
  BY <1>1
<1> QED
  BY <1>2 DEF n, d

\* Making a node changes the way to no other.
LEMMA AllocWay ==
  ASSUME NEW c, Sound(c), NEW p \in Live(c), NEW t \in Tokens, c.child[p][t] = NoNode,
         NEW key \in Seq(Tokens), NEW k \in 0..Len(key), Walk(c, key)[k] # NoNode
  PROVE  \A i \in 0..k : Walk(alloc_child(c, p, t), key)[i] = Walk(c, key)[i]
<1> DEFINE d == alloc_child(c, p, t)
           w == Walk(c, key)
           n == Slot(c)
<1>0. k \in Nat /\ Len(key) \in Nat /\ k <= Len(key)
  OBVIOUS
<1>1. /\ n \notin Live(c) /\ n # p
      /\ d.child = [Put(c.child, n, Childless) EXCEPT ![p][t] = n]
  BY AllocLinks
<1>2. \A i \in 0..k : w[i] # NoNode
  BY WalkAlive
<1>3. \A i \in 1..Len(key) : w[i] # NoNode =>
        w[i - 1] \in Live(c) /\ key[i] \in Children(c, w[i - 1])
  BY WalkLive
<1>4. \A m \in Live(c) : m \in DOMAIN c.child /\ c.child[m] \in [Tokens -> Nat \cup {NoNode}]
  BY DEF Live, Sound, Typed
<1>5. \A m \in Live(c), u \in Tokens : u \in Children(c, m) => d.child[m][u] = c.child[m][u]
  <2> HIDE DEF d, n
  <2> TAKE m \in Live(c), u \in Tokens
  <2> HAVE u \in Children(c, m)
  <2>1. m # n /\ p # n /\ ~(m = p /\ u = t)
    BY <1>1 DEF Children
  <2>2. /\ m \in DOMAIN Put(c.child, n, Childless) /\ p \in DOMAIN Put(c.child, n, Childless)
        /\ Put(c.child, n, Childless)[m] = c.child[m] /\ Put(c.child, n, Childless)[p] = c.child[p]
    BY <1>4, <2>1 DEF Put
  <2> DEFINE f == Put(c.child, n, Childless)
  <2> HIDE DEF f
  <2>3. m \in DOMAIN f /\ f[m] = c.child[m] /\ f[p] = c.child[p] /\ d.child = [f EXCEPT ![p][t] = n]
    BY <1>1, <2>2 DEF f
  <2> QED
    BY <1>4, <2>1, <2>3
<1> HIDE DEF d, w
<1>6. \A i \in 1..k : d.child[w[i - 1]][key[i]] = c.child[w[i - 1]][key[i]]
  <2> TAKE i \in 1..k
  <2>1. w[i - 1] \in Live(c) /\ key[i] \in Children(c, w[i - 1])
    BY <1>0, <1>2, <1>3
  <2> QED
    BY <1>5, <2>1 DEF Children
<1>7. \A i \in 1..k : Walk(c, key)[i - 1] # NoNode =>
        d.child[Walk(c, key)[i - 1]][key[i]] = c.child[Walk(c, key)[i - 1]][key[i]]
  BY <1>6 DEF w
<1>8. \A i \in 0..k : Walk(d, key)[i] = Walk(c, key)[i]
  BY <1>7, SameWay
<1> QED
  BY <1>8 DEF d

\* Nor does freeing one that leads nowhere.
LEMMA DetachWay ==
  ASSUME NEW c, Sound(c), NEW n \in Live(c), Collectable(c, n),
         NEW key \in Seq(Tokens), NEW k \in 0..Len(key),
         Walk(c, key)[k] # NoNode, Walk(c, key)[k] # n
  PROVE  \A i \in 0..k : Walk(Detach(c, n), key)[i] = Walk(c, key)[i]
<1> DEFINE d == Detach(c, n)
           w == Walk(c, key)
           p == c.parent[n]
<1>0. k \in Nat /\ Len(key) \in Nat /\ k <= Len(key)
  OBVIOUS
<1>1. /\ p \in Live(c) /\ p # n /\ Children(c, n) = {}
      /\ \E t \in Tokens : c.child[p][t] = n /\ {u \in Tokens : c.child[p][u] = n} = {t}
  BY CollectableNode
<1>2. \A i \in 0..k : w[i] # NoNode
  BY WalkAlive
<1>3. \A i \in 1..Len(key) : w[i] # NoNode =>
        /\ w[i - 1] \in Live(c) /\ key[i] \in Children(c, w[i - 1])
        /\ c.child[w[i - 1]][key[i]] = w[i]
  BY WalkLive
<1>4. \A m \in Live(c) : m \in DOMAIN c.child /\ c.child[m] \in [Tokens -> Nat \cup {NoNode}]
  BY DEF Live, Sound, Typed
<1>5. PICK t \in Tokens : d.child = [[c.child EXCEPT ![p][t] = NoNode] EXCEPT ![n] = Childless]
                          /\ c.child[p][t] = n
  <2>1. PICK t \in Tokens : c.child[p][t] = n /\ {u \in Tokens : c.child[p][u] = n} = {t}
    BY <1>1
  <2>2. (CHOOSE u \in {v \in Tokens : c.child[p][v] = n} : TRUE) = t
    BY <2>1
  <2>3. Cut(c, n) = [c EXCEPT !.child[p][t] = NoNode, !.refs[p] = Less(@, 1)]
    BY <2>1, <2>2 DEF Cut
  <2>4. c = [parent |-> c.parent, child |-> c.child, slice |-> c.slice, refs |-> c.refs,
             free |-> c.free, used |-> c.used, lru |-> c.lru, total |-> c.total]
    BY DEF Sound, Typed
  <2>5. Cut(c, n).child = [c.child EXCEPT ![p][t] = NoNode]
    BY <2>3, <2>4
  <2>6. \E r, a : Cut(c, n) = [parent |-> c.parent, child |-> a, slice |-> c.slice, refs |-> r,
             free |-> c.free, used |-> c.used, lru |-> c.lru, total |-> c.total]
    BY <2>3, <2>4
  <2>7. d.child = [Cut(c, n).child EXCEPT ![n] = Childless]
    BY <2>6 DEF Detach
  <2> QED
    BY <2>1, <2>5, <2>7
<1>6. \A m \in Live(c), u \in Tokens : m # n /\ c.child[m][u] # n => d.child[m][u] = c.child[m][u]
  <2> HIDE DEF d, p
  <2> TAKE m \in Live(c), u \in Tokens
  <2> HAVE m # n /\ c.child[m][u] # n
  <2>1. ~(m = p /\ u = t)
    BY <1>5
  <2> QED
    BY <1>1, <1>4, <1>5, <2>1
<1> HIDE DEF d, w
<1>7. \A i \in 1..k : w[i - 1] # n
  <2> TAKE i \in 1..k
  <2>1. key[i] \in Children(c, w[i - 1])
    BY <1>0, <1>2, <1>3
  <2> QED
    BY <1>1, <2>1
<1>8. \A i \in 1..k : w[i] # n
  <2> TAKE i \in 1..k
  <2>1. CASE i = k
    BY <2>1 DEF w
  <2>2. CASE i # k
    <3>1. i + 1 \in 1..k /\ (i + 1) - 1 = i
      BY <1>0, <2>2
    <3> QED
      BY <1>7, <3>1
  <2> QED
    BY <2>1, <2>2
<1>9. \A i \in 1..k : d.child[w[i - 1]][key[i]] = c.child[w[i - 1]][key[i]]
  <2> TAKE i \in 1..k
  <2>1. /\ w[i - 1] \in Live(c) /\ key[i] \in Children(c, w[i - 1])
        /\ c.child[w[i - 1]][key[i]] = w[i]
    BY <1>0, <1>2, <1>3
  <2> QED
    BY <1>6, <1>7, <1>8, <2>1 DEF Children
<1> QED
  BY <1>9, SameWay DEF d, w
\* The entries es are what the cache holds, in the order of its list.
Describes(es, c, keys) ==
  /\ es \in Seq([key : keys, len : Nat]) /\ Len(es) = Len(c.lru)
  /\ \A i \in 1..Len(es) : At(c, es[i].key, c.lru[i]) /\ es[i].len = c.slice[c.lru[i]]

\* A list has the nodes with a slice, each in one place.
LEMMA ListPlaces ==
  ASSUME NEW c, Sound(c)
  PROVE  /\ c.lru \in Seq(Nat) /\ Len(c.lru) \in Nat /\ DOMAIN c.lru = 1..Len(c.lru)
         /\ \A i \in 1..Len(c.lru) : /\ c.lru[i] \in Live(c) /\ c.lru[i] # NoNode
                                     /\ c.slice[c.lru[i]] \in Nat /\ c.slice[c.lru[i]] # NoSlice
         /\ \A i, j \in 1..Len(c.lru) : c.lru[i] = c.lru[j] => i = j
         /\ \A n \in Live(c) : c.slice[n] # NoSlice => \E i \in 1..Len(c.lru) : c.lru[i] = n
<1>1. /\ c.lru \in Seq(Nat) /\ IsInjective(c.lru)
      /\ ToSet(c.lru) = {n \in Live(c) : c.slice[n] # NoSlice}
  BY DEF Sound, Typed, ListExact
<1>2. Len(c.lru) \in Nat /\ DOMAIN c.lru = 1..Len(c.lru)
  BY <1>1
<1>3. ToSet(c.lru) = {c.lru[i] : i \in 1..Len(c.lru)}
  BY <1>2 DEF ToSet
<1>4. \A n \in Live(c) : n \in Nat /\ n # NoNode /\ c.slice[n] \in Nat \cup {NoSlice}
  BY CacheAssumption DEF CacheAssumption, Live, Sound, Typed
<1>5. \A i, j \in 1..Len(c.lru) : c.lru[i] = c.lru[j] => i = j
  BY <1>1, <1>2 DEF IsInjective
<1>6. \A i \in 1..Len(c.lru) : c.lru[i] \in Live(c) /\ c.slice[c.lru[i]] # NoSlice
  BY <1>1, <1>3
<1>7. \A n \in Live(c) : c.slice[n] # NoSlice => \E i \in 1..Len(c.lru) : c.lru[i] = n
  BY <1>1, <1>3
<1> QED
  BY <1>1, <1>2, <1>4, <1>5, <1>6, <1>7

LEMMA EntryTypes ==
  ASSUME NEW keys \in SUBSET Seq(Tokens), NEW es \in Seq([key : keys, len : Nat])
  PROVE  /\ Len(es) \in Nat /\ DOMAIN es = 1..Len(es)
         /\ \A i \in 1..Len(es) : /\ es[i] = [key |-> es[i].key, len |-> es[i].len]
                                  /\ es[i].key \in keys /\ es[i].key \in Seq(Tokens)
                                  /\ es[i].len \in Nat
<1> DEFINE E == [key : keys, len : Nat]
<1>1. \A e \in E : e = [key |-> e.key, len |-> e.len] /\ e.key \in keys /\ e.len \in Nat
  OBVIOUS
<1>2. es \in Seq(E)
  OBVIOUS
<1> HIDE DEF E
<1>3. Len(es) \in Nat /\ DOMAIN es = 1..Len(es) /\ \A i \in 1..Len(es) : es[i] \in E
  BY <1>2
<1> QED
  BY <1>1, <1>3

\* What describes a cache is what EntriesOf reads off it.
LEMMA EntriesDescribed ==
  ASSUME NEW c, Sound(c), NEW keys \in SUBSET Seq(Tokens), NEW es, Describes(es, c, keys)
  PROVE  EntriesOf(c, keys) = es
<1> DEFINE KeyOf(n) == CHOOSE key \in keys : Walk(c, key)[Len(key)] = n
<1>1. es \in Seq([key : keys, len : Nat]) /\ Len(es) = Len(c.lru)
  BY DEF Describes
<1>2. /\ Len(es) \in Nat /\ DOMAIN es = 1..Len(es)
      /\ \A i \in 1..Len(es) : /\ es[i] = [key |-> es[i].key, len |-> es[i].len]
                               /\ es[i].key \in keys /\ es[i].key \in Seq(Tokens)
                               /\ es[i].len \in Nat
  BY <1>1, EntryTypes
<1>3. /\ DOMAIN c.lru = 1..Len(c.lru)
      /\ \A i \in 1..Len(c.lru) : c.lru[i] # NoNode
  BY ListPlaces
<1>4. ASSUME NEW i \in 1..Len(es) PROVE KeyOf(c.lru[i]) = es[i].key /\ c.slice[c.lru[i]] = es[i].len
  <2>1. At(c, es[i].key, c.lru[i]) /\ c.slice[c.lru[i]] = es[i].len
    BY DEF Describes
  <2>2. KeyOf(c.lru[i]) \in keys /\ At(c, KeyOf(c.lru[i]), c.lru[i])
    BY <1>2, <2>1 DEF At
  <2> HIDE DEF KeyOf
  <2>3. KeyOf(c.lru[i]) \in Seq(Tokens) /\ es[i].key \in Seq(Tokens) /\ c.lru[i] # NoNode
    BY <1>1, <1>2, <1>3, <2>2
  <2> QED
    BY <2>1, <2>2, <2>3, AtUnique
<1>5. EntriesOf(c, keys) = [i \in DOMAIN c.lru |-> [key |-> KeyOf(c.lru[i]), len |-> c.slice[c.lru[i]]]]
  BY DEF EntriesOf
<1> HIDE DEF KeyOf
<1>6. EntriesOf(c, keys) = [i \in 1..Len(es) |-> es[i]]
  BY <1>1, <1>2, <1>3, <1>4, <1>5
<1>7. es = [i \in 1..Len(es) |-> es[i]]
  BY <1>1, <1>2
<1> QED
  BY <1>6, <1>7

\* A cache with the same list is described by the same entries.
LEMMA SameEntries ==
  ASSUME NEW c, NEW d, NEW keys \in SUBSET Seq(Tokens), NEW es, Describes(es, c, keys),
         d.lru = c.lru, \A i \in 1..Len(c.lru) : d.slice[c.lru[i]] = c.slice[c.lru[i]],
         \A key \in Seq(Tokens), i \in 1..Len(c.lru) : At(c, key, c.lru[i]) => At(d, key, c.lru[i])
  PROVE  Describes(es, d, keys)
<1>1. es \in Seq([key : keys, len : Nat]) /\ Len(es) = Len(c.lru)
  BY DEF Describes
<1>2. \A i \in 1..Len(es) : es[i].key \in Seq(Tokens)
  BY <1>1, EntryTypes
<1> QED
  BY <1>1, <1>2 DEF Describes

\* What was used last goes to the end, in the list and among the entries.
LEMMA PromoteEntries ==
  ASSUME NEW c, Sound(c), NEW keys \in SUBSET Seq(Tokens), NEW es, Describes(es, c, keys),
         NEW i \in 1..Len(es)
  PROVE  Describes(Append(RemoveAt(es, i), es[i]), Promote(c, c.lru[i]), keys)
<1> DEFINE E == [key : keys, len : Nat]
           n == c.lru[i]
           d == Promote(c, n)
           list == Append(RemoveAt(c.lru, i), n)
           fs == Append(RemoveAt(es, i), es[i])
           k == Len(es)
           at == [j \in 1..k |-> IF j = k THEN i ELSE IF j < i THEN j ELSE j + 1]
<1>1. es \in Seq(E) /\ k = Len(c.lru)
  BY DEF Describes
<1>2. /\ c.lru \in Seq(Nat) /\ IsInjective(c.lru) /\ DOMAIN c.lru = 1..Len(c.lru)
  BY ListPlaces DEF Sound, ListExact
<1>3. k \in Nat /\ DOMAIN es = 1..k /\ DOMAIN c.lru = 1..k /\ i \in 1..k
  <2> HIDE DEF E
  <2> QED
    BY <1>1, <1>2
<1>4. RemoveFirst(c.lru, n) = RemoveAt(c.lru, i)
  BY <1>2, <1>3, RemoveFirstAt
<1>5. d.lru = list /\ d.child = c.child /\ d.slice = c.slice
  <2>1. c = [parent |-> c.parent, child |-> c.child, slice |-> c.slice, refs |-> c.refs,
             free |-> c.free, used |-> c.used, lru |-> c.lru, total |-> c.total]
    BY DEF Sound, Typed
  <2>2. n \in ToSet(c.lru)
    BY <1>3 DEF ToSet
  <2>3. d = [c EXCEPT !.lru = Append(RemoveFirst(@, n), n)]
    BY <2>2 DEF Promote
  <2> HIDE DEF d, n
  <2>4. d = [c EXCEPT !.lru = list]
    BY <1>4, <2>3
  <2> HIDE DEF list
  <2> QED
    BY <2>1, <2>4
<1>6. /\ Len(list) = k
      /\ \A j \in 1..k : list[j] = c.lru[at[j]]
  <2> DEFINE r == c.lru
  <2>0. r \in Seq(Nat) /\ i \in DOMAIN r
    BY <1>2, <1>3
  <2>1. /\ Len(list) = Len(c.lru)
        /\ \A j \in 1..Len(c.lru) :
             list[j] = c.lru[IF j = Len(c.lru) THEN i ELSE IF j < i THEN j ELSE j + 1]
    <3> HIDE DEF r
    <3>1. /\ Append(RemoveAt(r, i), r[i]) \in Seq(Nat)
          /\ Len(Append(RemoveAt(r, i), r[i])) = Len(r)
          /\ \A j \in 1..Len(r) :
               Append(RemoveAt(r, i), r[i])[j] = r[IF j = Len(r) THEN i ELSE IF j < i THEN j ELSE j + 1]
      BY <2>0, ToBackParts
    <3> QED
      BY <3>1 DEF r
  <2> HIDE DEF list, k
  <2> QED
    BY <1>1, <2>1
<1>7. /\ fs \in Seq(E) /\ Len(fs) = k
      /\ \A j \in 1..k : fs[j] = es[at[j]]
  <2> HIDE DEF E
  <2>0. es \in Seq(E) /\ i \in DOMAIN es
    BY <1>1, <1>3
  <2>1. /\ fs \in Seq(E) /\ Len(fs) = Len(es)
        /\ \A j \in 1..Len(es) : fs[j] = es[IF j = Len(es) THEN i ELSE IF j < i THEN j ELSE j + 1]
    BY <2>0, ToBackParts, Zenon
  <2> HIDE DEF fs
  <2> QED
    BY <2>1
<1>8. \A j \in 1..k : at[j] \in 1..k
  <2> HIDE DEF k
  <2> QED
    BY <1>3
<1> HIDE DEF E, d, list, fs, k, at, n
<1>9. \A m \in 1..k : /\ At(c, es[m].key, c.lru[m]) /\ es[m].len = c.slice[c.lru[m]]
                      /\ es[m].key \in Seq(Tokens)
  <2>1. \A m \in 1..k : es[m].key \in Seq(Tokens)
    BY <1>1, EntryTypes DEF E, k
  <2> QED
    BY <2>1 DEF Describes, k
<1>10. \A m \in 1..k : At(d, es[m].key, c.lru[m]) /\ es[m].len = d.slice[c.lru[m]]
  BY <1>5, <1>9, SameChildren
<1>11. \A j \in 1..k : At(d, fs[j].key, d.lru[j]) /\ fs[j].len = d.slice[d.lru[j]]
  <2> TAKE j \in 1..k
  <2>1. d.lru[j] = c.lru[at[j]] /\ fs[j] = es[at[j]] /\ at[j] \in 1..k
    BY <1>5, <1>6, <1>7, <1>8
  <2>2. At(d, es[at[j]].key, c.lru[at[j]]) /\ es[at[j]].len = d.slice[c.lru[at[j]]]
    BY <1>10, <2>1
  <2> QED
    BY <2>1, <2>2
<1>12. fs \in Seq([key : keys, len : Nat]) /\ Len(fs) = Len(d.lru) /\ Len(fs) = k
  BY <1>5, <1>6, <1>7 DEF E
<1>13. Describes(fs, d, keys)
  BY <1>11, <1>12 DEF Describes
<1> QED
  BY <1>13 DEF fs, d, n
\* A new node is the end of no entry's key.
LEMMA AllocEntries ==
  ASSUME NEW c, Sound(c), NEW p \in Live(c), NEW t \in Tokens, c.child[p][t] = NoNode,
         NEW keys \in SUBSET Seq(Tokens), NEW es, Describes(es, c, keys)
  PROVE  Describes(es, alloc_child(c, p, t), keys)
<1> DEFINE d == alloc_child(c, p, t)
           n == Slot(c)
<1>1. n \notin Live(c) /\ d.slice = Put(c.slice, n, NoSlice) /\ d.lru = c.lru
  BY AllocLinks
<1>2. \A i \in 1..Len(c.lru) : c.lru[i] \in Live(c) /\ c.lru[i] # NoNode
  BY ListPlaces
<1> HIDE DEF n
<1>3. \A i \in 1..Len(c.lru) : d.slice[c.lru[i]] = c.slice[c.lru[i]]
  <2> HIDE DEF d
  <2> TAKE i \in 1..Len(c.lru)
  <2>1. c.lru[i] # n /\ c.lru[i] \in DOMAIN c.slice
    BY <1>1, <1>2 DEF Sound, Typed, Live
  <2> QED
    BY <1>1, <2>1 DEF Put
<1>4. ASSUME NEW key \in Seq(Tokens), NEW i \in 1..Len(c.lru), At(c, key, c.lru[i])
      PROVE  At(d, key, c.lru[i])
  <2>1. Len(key) \in 0..Len(key)
    OBVIOUS
  <2>2. Walk(c, key)[Len(key)] # NoNode
    BY <1>2, <1>4 DEF At
  <2>3. Walk(d, key)[Len(key)] = Walk(c, key)[Len(key)]
    BY <2>1, <2>2, AllocWay
  <2> HIDE DEF d
  <2> QED
    BY <1>4, <2>3 DEF At
<1> HIDE DEF d
<1>5. Describes(es, d, keys)
  BY <1>1, <1>3, <1>4, SameEntries
<1> QED
  BY <1>5 DEF d

\* One step down leads to the next place of the key and changes no entry.
LEMMA ExtendEntries ==
  ASSUME NEW at, Descended(at), NEW keys \in SUBSET Seq(Tokens), NEW es, Describes(es, at.cache, keys),
         NEW key \in Seq(Tokens), NEW i \in 0..Len(key) - 1, Walk(at.cache, key)[i] = at.node
  PROVE  LET x == Extend(at, key[i + 1])
         IN  Describes(es, x.cache, keys) /\ Walk(x.cache, key)[i + 1] = x.node
<1> DEFINE c == at.cache
           p == at.node
           t == key[i + 1]
<1>0. /\ i \in 0..Len(key) /\ i + 1 \in 1..Len(key) /\ (i + 1) - 1 = i /\ t \in Tokens
  OBVIOUS
<1>1. Sound(c) /\ p \in Live(c) /\ p # NoNode
  <2>1. Sound(c) /\ p \in Live(c)
    BY DEF Descended
  <2> HIDE DEF c, p
  <2>2. c.used \in Nat
    BY <2>1 DEF Sound, Typed
  <2>3. p \in Nat
    BY <2>1, <2>2 DEF Live
  <2> QED
    BY <2>1, <2>3, CacheAssumption DEF CacheAssumption
<1>2. CASE c.child[p][t] # NoNode
  <2>1. Extend(at, t) = [cache |-> c, node |-> c.child[p][t]]
    BY <1>2 DEF Extend
  <2>2. Walk(c, key)[i + 1] = Onward(c, p, t)
    BY <1>0, WalkParts
  <2> QED
    BY <1>1, <2>1, <2>2 DEF Onward
<1>3. CASE c.child[p][t] = NoNode
  <2> DEFINE d == alloc_child(c, p, t)
  <2>1. Extend(at, t) = [cache |-> d, node |-> d.child[p][t]]
    BY <1>3 DEF Extend
  <2>2. Describes(es, d, keys)
    <3> HIDE DEF t
    <3> QED
      BY <1>0, <1>1, <1>3, AllocEntries
  <2>3. Walk(d, key)[i] = p
    <3>1. \A j \in 0..i : Walk(d, key)[j] = Walk(c, key)[j]
      <4> HIDE DEF t
      <4> QED
        BY <1>0, <1>1, <1>3, AllocWay
    <3> QED
      BY <1>0, <3>1
  <2> HIDE DEF d
  <2>4. Walk(d, key)[i + 1] = Onward(d, Walk(d, key)[i], t)
    BY <1>0, WalkParts
  <2> QED
    BY <1>1, <2>1, <2>2, <2>3, <2>4 DEF Onward
<1> QED
  BY <1>2, <1>3

\* The way down leads to the node of the key.
LEMMA DescendEntries ==
  ASSUME NEW c, Sound(c), NoOrphans(c), NEW keys \in SUBSET Seq(Tokens), NEW es,
         Describes(es, c, keys), NEW key \in Seq(Tokens)
  PROVE  LET at == Descend(c, key)
         IN  Describes(es, at.cache, keys) /\ At(at.cache, key, at.node)
<1> DEFINE k == Len(key)
<1>0. k \in Nat /\ \A i \in 1..k : key[i] \in Tokens
  OBVIOUS
<1>1. PICK down : /\ Descend(c, key) = down[k] /\ down[0] = [cache |-> c, node |-> ROOT]
                  /\ \A i \in 0..k - 1 : down[i + 1] = Extend(down[i], key[i + 1])
  BY DescendSteps
<1> DEFINE Good(at, i) == /\ Descended(at) /\ Describes(es, at.cache, keys)
                          /\ Walk(at.cache, key)[i] = at.node
           B == {i \in 0..k : Good(down[i], i)}
<1>2. 0 \in B
  <2>1. ROOT \in Live(c)
    BY DEF Sound, Typed, FreeSlots, Live, ROOT
  <2>2. Walk(c, key)[0] = ROOT
    BY WalkParts
  <2> QED
    BY <1>0, <1>1, <2>1, <2>2 DEF Descended, NoOrphans
<1>3. ASSUME NEW i \in 0..k - 1, i \in B PROVE i + 1 \in B
  <2>1. i + 1 \in 0..k /\ key[i + 1] \in Tokens
    BY <1>0
  <2>2. Good(down[i], i) /\ down[i + 1] = Extend(down[i], key[i + 1])
    BY <1>1, <1>3
  <2> DEFINE at == down[i]
             x == Extend(at, key[i + 1])
  <2> HIDE DEF at
  <2>3. Descended(at) /\ Describes(es, at.cache, keys) /\ Walk(at.cache, key)[i] = at.node
    BY <2>2 DEF at
  <2>4. Descended(x)
    BY <2>1, <2>3, ExtendKeeps
  <2>5. Describes(es, x.cache, keys) /\ Walk(x.cache, key)[i + 1] = x.node
    BY <2>3, ExtendEntries
  <2>6. down[i + 1] = x
    BY <2>2 DEF at
  <2> HIDE DEF x
  <2> QED
    BY <2>1, <2>4, <2>5, <2>6
<1> HIDE DEF B
<1>4. 0..k \subseteq B
  BY <1>0, <1>2, <1>3, UpTo
<1>5. Good(down[k], k)
  BY <1>0, <1>4 DEF B
<1> QED
  BY <1>1, <1>5 DEF At
\* The entry that a commit makes or replaces is the one at its node.
Committed(es, key, len) ==
  LET new == [key |-> key, len |-> len]
      same == {i \in DOMAIN es : es[i].key = key}
  IN  IF same = {} THEN Append(es, new)
                   ELSE [i \in DOMAIN es |-> IF i \in same THEN new ELSE es[i]]

LEMMA StoredEntries ==
  ASSUME NEW c, Sound(c), NEW keys \in SUBSET Seq(Tokens), NEW es, Describes(es, c, keys),
         NEW key \in keys, NEW n \in Live(c), At(c, key, n), NEW len \in Nat
  PROVE  Describes(Committed(es, key, len), Stored(c, n, len), keys)
<1> DEFINE E == [key : keys, len : Nat]
           k == Len(es)
           new == [key |-> key, len |-> len]
           d == Stored(c, n, len)
           fs == Committed(es, key, len)
<1>1. es \in Seq(E) /\ k = Len(c.lru) /\ new \in E /\ new.key = key /\ new.len = len
  BY DEF Describes
<1>2. k \in Nat /\ DOMAIN es = 1..k
  <2> HIDE DEF E
  <2> QED
    BY <1>1
<1>3. \A i \in 1..k : /\ es[i].key \in Seq(Tokens) /\ At(c, es[i].key, c.lru[i])
                      /\ es[i].len = c.slice[c.lru[i]] /\ es[i] \in E
  <2>1. \A i \in 1..k : es[i].key \in Seq(Tokens)
    BY <1>1, EntryTypes
  <2>2. \A i \in 1..k : es[i] \in E
    <3> HIDE DEF E
    <3> QED
      BY <1>1
  <2> QED
    BY <2>1, <2>2 DEF Describes
<1>4. /\ c.lru \in Seq(Nat)
      /\ \A i \in 1..k : c.lru[i] \in Live(c) /\ c.lru[i] # NoNode /\ c.slice[c.lru[i]] # NoSlice
      /\ \A i, j \in 1..k : c.lru[i] = c.lru[j] => i = j
      /\ c.slice[n] # NoSlice => \E i \in 1..k : c.lru[i] = n
  BY <1>1, ListPlaces
<1>5. key \in Seq(Tokens) /\ n # NoNode /\ n \in Nat /\ n \in DOMAIN c.slice
  BY CacheAssumption DEF CacheAssumption, Live, Sound, Typed
<1>6. \A i \in 1..k : es[i].key = key <=> c.lru[i] = n
  <2> TAKE i \in 1..k
  <2>1. es[i].key = key => c.lru[i] = n
    BY <1>3 DEF At
  <2>2. c.lru[i] = n => es[i].key = key
    BY <1>3, <1>5, AtUnique
  <2> QED
    BY <2>1, <2>2
<1>7. c = [parent |-> c.parent, child |-> c.child, slice |-> c.slice, refs |-> c.refs,
           free |-> c.free, used |-> c.used, lru |-> c.lru, total |-> c.total]
  BY DEF Sound, Typed
<1>8. d.child = c.child /\ d.slice = [c.slice EXCEPT ![n] = len]
  <2>1. CASE c.slice[n] = NoSlice
    <3>1. d = [c EXCEPT !.refs[n] = @ + 1, !.lru = Append(@, n), !.total = @ + len, !.slice[n] = len]
      BY <2>1 DEF Stored
    <3> HIDE DEF d
    <3> QED
      BY <1>7, <3>1
  <2>2. CASE c.slice[n] # NoSlice
    <3>1. d = [c EXCEPT !.total = Less(@, c.slice[n]) + len, !.slice[n] = len]
      BY <2>2 DEF Stored
    <3> HIDE DEF d
    <3> QED
      BY <1>7, <3>1
  <2> QED
    BY <2>1, <2>2
<1>9. d.lru = IF c.slice[n] = NoSlice THEN Append(c.lru, n) ELSE c.lru
  <2>1. CASE c.slice[n] = NoSlice
    <3>1. d = [c EXCEPT !.refs[n] = @ + 1, !.lru = Append(@, n), !.total = @ + len, !.slice[n] = len]
      BY <2>1 DEF Stored
    <3> HIDE DEF d
    <3> QED
      BY <1>7, <2>1, <3>1
  <2>2. CASE c.slice[n] # NoSlice
    <3>1. d = [c EXCEPT !.total = Less(@, c.slice[n]) + len, !.slice[n] = len]
      BY <2>2 DEF Stored
    <3> HIDE DEF d
    <3> QED
      BY <1>7, <2>2, <3>1
  <2> QED
    BY <2>1, <2>2
<1> HIDE DEF d
<1>10. \A i \in 1..k : /\ At(d, es[i].key, c.lru[i])
                       /\ c.lru[i] # n => es[i].len = d.slice[c.lru[i]]
  <2>1. \A i \in 1..k : At(d, es[i].key, c.lru[i])
    BY <1>3, <1>8, SameChildren
  <2> QED
    BY <1>3, <1>8, <2>1
<1>11. At(d, key, n) /\ d.slice[n] = len
  BY <1>5, <1>8, SameChildren
<1>12. CASE c.slice[n] = NoSlice
  <2>1. \A i \in 1..k : c.lru[i] # n
    BY <1>4, <1>12
  <2>2. fs = Append(es, new)
    <3>1. {i \in DOMAIN es : es[i].key = key} = {}
      BY <1>2, <1>6, <2>1
    <3> QED
      BY <3>1 DEF Committed
  <2>3. d.lru = Append(c.lru, n)
    BY <1>9, <1>12
  <2> HIDE DEF E, fs, k, new
  <2>4. /\ fs \in Seq(E) /\ Len(fs) = k + 1 /\ Len(d.lru) = k + 1
        /\ \A i \in 1..k : fs[i] = es[i] /\ d.lru[i] = c.lru[i]
        /\ fs[k + 1] = new /\ d.lru[k + 1] = n
    BY <1>1, <1>2, <1>4, <1>5, <2>2, <2>3 DEF k
  <2>5. \A i \in 1..k + 1 : i \in 1..k \/ i = k + 1
    BY <1>2
  <2>6. \A i \in 1..k + 1 : At(d, fs[i].key, d.lru[i]) /\ fs[i].len = d.slice[d.lru[i]]
    <3> TAKE i \in 1..k + 1
    <3>1. CASE i \in 1..k
      <4>1. fs[i] = es[i] /\ d.lru[i] = c.lru[i] /\ c.lru[i] # n
        BY <2>1, <2>4, <3>1
      <4> QED
        BY <1>10, <3>1, <4>1
    <3>2. CASE i = k + 1
      BY <1>1, <1>11, <2>4, <3>2
    <3> QED
      BY <2>5, <3>1, <3>2
  <2>7. Describes(fs, d, keys)
    BY <2>4, <2>6 DEF Describes, E
  <2> QED
    BY <2>7 DEF fs, d
<1>13. CASE c.slice[n] # NoSlice
  <2>1. PICK m \in 1..k : c.lru[m] = n
    BY <1>4, <1>13
  <2>2. fs = [i \in 1..k |-> IF c.lru[i] = n THEN new ELSE es[i]]
    <3> DEFINE same == {i \in DOMAIN es : es[i].key = key}
    <3>1. same # {} /\ \A i \in 1..k : i \in same <=> c.lru[i] = n
      BY <1>2, <1>6, <2>1
    <3>2. fs = [i \in DOMAIN es |-> IF i \in same THEN new ELSE es[i]]
      BY <3>1 DEF Committed
    <3> HIDE DEF same, fs, new
    <3> QED
      BY <1>2, <3>1, <3>2
  <2>3. d.lru = c.lru
    BY <1>9, <1>13
  <2> HIDE DEF E, fs, k, new
  <2>4. fs \in Seq(E) /\ Len(fs) = k
    <3>1. fs \in [1..k -> E]
      BY <1>1, <1>3, <2>2
    <3> QED
      BY <1>2, <3>1
  <2>5. \A i \in 1..k : At(d, fs[i].key, d.lru[i]) /\ fs[i].len = d.slice[d.lru[i]]
    BY <1>1, <1>10, <1>11, <2>2, <2>3
  <2>6. Describes(fs, d, keys)
    BY <1>1, <2>3, <2>4, <2>5 DEF Describes, E
  <2> QED
    BY <2>6 DEF fs, d
<1> QED
  BY <1>12, <1>13

\* A node without a slice is the end of no entry's key.
LEMMA DetachEntries ==
  ASSUME NEW c, Sound(c), NEW n \in Live(c), Collectable(c, n),
         NEW keys \in SUBSET Seq(Tokens), NEW es, Describes(es, c, keys)
  PROVE  Describes(es, Detach(c, n), keys)
<1> DEFINE d == Detach(c, n)
<1>1. d.lru = c.lru
  BY DetachKeeps
<1>2. d.slice = [c.slice EXCEPT ![n] = NoSlice]
  <2>1. c = [parent |-> c.parent, child |-> c.child, slice |-> c.slice, refs |-> c.refs,
             free |-> c.free, used |-> c.used, lru |-> c.lru, total |-> c.total]
    BY DEF Sound, Typed
  <2>2. \E r, a : Cut(c, n) = [parent |-> c.parent, child |-> a, slice |-> c.slice, refs |-> r,
             free |-> c.free, used |-> c.used, lru |-> c.lru, total |-> c.total]
    <3> DEFINE p == c.parent[n]
               links == {t \in Tokens : c.child[p][t] = n}
               u == CHOOSE t \in links : TRUE
    <3>1. CASE links = {}
      BY <2>1, <3>1 DEF Cut
    <3>2. CASE links # {}
      <4>1. Cut(c, n) = [c EXCEPT !.child[p][u] = NoNode, !.refs[p] = Less(@, 1)]
        BY <3>2 DEF Cut
      <4> HIDE DEF u, p
      <4> QED
        BY <2>1, <4>1
    <3> QED
      BY <3>1, <3>2
  <2> QED
    BY <2>2 DEF Detach
<1>3. \A i \in 1..Len(c.lru) : c.lru[i] # NoNode /\ c.lru[i] # n
  <2>1. c.slice[n] = NoSlice
    BY CollectableNode
  <2> QED
    BY <2>1, ListPlaces
<1>4. \A i \in 1..Len(c.lru) : d.slice[c.lru[i]] = c.slice[c.lru[i]]
  <2> HIDE DEF d
  <2> QED
    BY <1>2, <1>3, ListPlaces DEF Sound, Typed, Live
<1>5. ASSUME NEW key \in Seq(Tokens), NEW i \in 1..Len(c.lru), At(c, key, c.lru[i])
      PROVE  At(d, key, c.lru[i])
  <2>1. Len(key) \in 0..Len(key)
    OBVIOUS
  <2>2. Walk(c, key)[Len(key)] # NoNode /\ Walk(c, key)[Len(key)] # n
    BY <1>3, <1>5 DEF At
  <2>3. \A j \in 0..Len(key) : Walk(d, key)[j] = Walk(c, key)[j]
    BY <2>1, <2>2, DetachWay
  <2> HIDE DEF d
  <2> QED
    BY <1>5, <2>1, <2>3 DEF At
<1> HIDE DEF d
<1>6. Describes(es, d, keys)
  BY <1>1, <1>4, <1>5, SameEntries
<1> QED
  BY <1>6 DEF d
\* Collecting changes no entry.
LEMMA CollectEntries ==
  ASSUME NEW c, Sound(c), NEW n \in Live(c), Orphans(c) \subseteq {n},
         NEW keys \in SUBSET Seq(Tokens), NEW es, Describes(es, c, keys)
  PROVE  Describes(es, try_collect_chain(c, n), keys)
<1> DEFINE first == [cache |-> c, node |-> n]
<1>0. c.used \in Nat
  BY DEF Sound, Typed
<1>1. PICK after : /\ try_collect_chain(c, n) = after[c.used].cache
                   /\ after[0] = first
                   /\ \A i \in 0..c.used - 1 : after[i + 1] = Up(after[i])
  BY CollectSteps
<1> DEFINE Good(at, i) == /\ Climbing(at, c, i) /\ at = [cache |-> at.cache, node |-> at.node]
                          /\ Describes(es, at.cache, keys)
           B == {i \in 0..c.used : Good(after[i], i)}
<1>2. 0 \in B
  <2>1. Len(c.free) \in Nat
    BY DEF Sound, Typed
  <2>2. Climbing(first, c, 0)
    BY <2>1 DEF Climbing
  <2> QED
    BY <1>0, <1>1, <2>2
<1>3. ASSUME NEW i \in 0..c.used - 1, i \in B PROVE i + 1 \in B
  <2>1. i \in Nat /\ i + 1 \in 0..c.used
    BY <1>0
  <2> DEFINE at == after[i]
  <2>2. Climbing(at, c, i) /\ at = [cache |-> at.cache, node |-> at.node] /\ Describes(es, at.cache, keys)
    BY <1>3
  <2>3. after[i + 1] = Up(at)
    BY <1>1
  <2> HIDE DEF at
  <2>4. Climbing(Up(at), c, i + 1) /\ Up(at) = [cache |-> Up(at).cache, node |-> Up(at).node]
    BY <2>1, <2>2, UpKeeps
  <2>5. Describes(es, Up(at).cache, keys)
    <3>1. CASE Collectable(at.cache, at.node)
      <4>1. Sound(at.cache) /\ at.node \in Live(at.cache)
        BY <2>2, <3>1 DEF Climbing, Collectable
      <4>2. Describes(es, Detach(at.cache, at.node), keys)
        BY <2>2, <3>1, <4>1, DetachEntries
      <4> QED
        BY <3>1, <4>2 DEF Up
    <3>2. CASE ~Collectable(at.cache, at.node)
      <4>1. Up(at).cache = at.cache
        BY <2>2, <3>2 DEF Up
      <4> QED
        BY <2>2, <4>1
    <3> QED
      BY <3>1, <3>2
  <2> QED
    BY <2>1, <2>3, <2>4, <2>5
<1> HIDE DEF B
<1>4. 0..c.used \subseteq B
  BY <1>0, <1>2, <1>3, UpTo
<1>5. Good(after[c.used], c.used)
  BY <1>0, <1>4 DEF B
<1> QED
  BY <1>1, <1>5

\* Evicting the node in front drops the first entry.
LEMMA EvictOldestEntries ==
  ASSUME NEW c, Sound(c), NoOrphans(c), c.lru # <<>>,
         NEW keys \in SUBSET Seq(Tokens), NEW es, Describes(es, c, keys)
  PROVE  Describes(Tail(es), EvictOldest(c), keys)
<1> DEFINE n == Head(c.lru)
           k == Len(es)
           E == [key : keys, len : Nat]
           fs == Tail(es)
<1>1. PICK e : /\ EvictOldest(c) = try_collect_chain(e, n) /\ Sound(e) /\ Orphans(e) \subseteq {n}
               /\ n \in Live(e) /\ e.lru = Tail(c.lru) /\ Len(e.lru) = Len(c.lru) - 1
               /\ e.child = c.child /\ e.slice = [c.slice EXCEPT ![n] = NoSlice]
  BY EvictParts
<1>2. es \in Seq(E) /\ k = Len(c.lru)
  BY DEF Describes
<1>3. /\ c.lru \in Seq(Nat) /\ DOMAIN c.lru = 1..k
      /\ \A i, j \in 1..k : c.lru[i] = c.lru[j] => i = j
      /\ \A i \in 1..k : c.lru[i] \in DOMAIN c.slice
  BY <1>2, ListPlaces DEF Sound, Typed, Live
<1>4. \A i \in 1..k : /\ es[i].key \in Seq(Tokens) /\ At(c, es[i].key, c.lru[i])
                      /\ es[i].len = c.slice[c.lru[i]]
  <2>1. \A i \in 1..k : es[i].key \in Seq(Tokens)
    BY <1>2, EntryTypes
  <2> QED
    BY <2>1 DEF Describes
<1> HIDE DEF E
<1>5. k \in Nat /\ k >= 1 /\ es # <<>>
  BY <1>2, <1>3
<1>6. /\ fs \in Seq(E) /\ Len(fs) = k - 1
      /\ \A i \in 1..k - 1 : fs[i] = es[i + 1]
  BY <1>2, <1>5
<1>7. n = c.lru[1] /\ \A i \in 1..k - 1 : e.lru[i] = c.lru[i + 1]
  <2> DEFINE s == c.lru
  <2>1. s \in Seq(Nat) /\ s # <<>> /\ Len(s) = k
    BY <1>2, <1>3
  <2>2. e.lru = Tail(s) /\ n = Head(s)
    BY <1>1
  <2> HIDE DEF s, n, k
  <2>3. n = s[1] /\ \A i \in 1..k - 1 : e.lru[i] = s[i + 1]
    BY <2>1, <2>2
  <2> QED
    BY <2>3 DEF s
<1> HIDE DEF fs, k, n
<1>8. \A i \in 1..k - 1 : At(e, fs[i].key, e.lru[i]) /\ fs[i].len = e.slice[e.lru[i]]
  <2> TAKE i \in 1..k - 1
  <2>1. i + 1 \in 1..k /\ 1 \in 1..k /\ i + 1 # 1
    BY <1>5
  <2>2. fs[i] = es[i + 1] /\ e.lru[i] = c.lru[i + 1] /\ c.lru[i + 1] # n
    BY <1>3, <1>6, <1>7, <2>1
  <2>3. /\ es[i + 1].key \in Seq(Tokens) /\ At(c, es[i + 1].key, c.lru[i + 1])
        /\ es[i + 1].len = c.slice[c.lru[i + 1]] /\ c.lru[i + 1] \in DOMAIN c.slice
    BY <1>3, <1>4, <2>1
  <2>4. At(e, es[i + 1].key, c.lru[i + 1])
    BY <1>1, <2>3, SameChildren
  <2>5. e.slice[c.lru[i + 1]] = c.slice[c.lru[i + 1]]
    BY <1>1, <2>2, <2>3
  <2> QED
    BY <2>2, <2>3, <2>4, <2>5
<1>9. Describes(fs, e, keys)
  BY <1>1, <1>2, <1>6, <1>8 DEF Describes, E
<1> QED
  BY <1>1, <1>9, CollectEntries DEF fs

-------------------------------------------------------------------------------
(* What fits.                                                              *)

Lens(es) == [i \in 1..Len(es) |-> es[i].len]

\* The total is what the entries add up to.
LEMMA TotalDescribed ==
  ASSUME NEW c, Sound(c), NEW keys \in SUBSET Seq(Tokens), NEW es, Describes(es, c, keys)
  PROVE  c.total = SumFunction(Lens(es))
<1> DEFINE k == Len(es)
           S == 1..k
           R == 0..c.used - 1
           g == Lens(es)
           h == Lengths(c)
           b == [i \in S |-> c.lru[i]]
<1>0. es \in Seq([key : keys, len : Nat]) /\ k = Len(c.lru)
  BY DEF Describes
<1>1. k \in Nat /\ \A i \in 1..k : es[i].len \in Nat /\ es[i].len = c.slice[c.lru[i]]
  <2>1. k \in Nat /\ \A i \in 1..k : es[i].len \in Nat
    BY <1>0, EntryTypes
  <2> QED
    BY <2>1 DEF Describes
<1>2. IsFiniteSet(S)
  BY <1>1, FS_Interval
<1>3. h \in [R -> Nat] /\ IsFiniteSet(R)
  BY LengthsType DEF Sound
<1>4. /\ \A i \in 1..k : c.lru[i] \in Live(c) /\ c.slice[c.lru[i]] # NoSlice
      /\ \A i, j \in 1..k : c.lru[i] = c.lru[j] => i = j
      /\ \A n \in Live(c) : c.slice[n] # NoSlice => \E i \in 1..k : c.lru[i] = n
  BY <1>0, ListPlaces
<1>5. g \in [S -> Int] /\ h \in [R -> Int]
  BY <1>1, <1>3 DEF Lens
<1>6. b \in [S -> R] /\ \A x, y \in S : b[x] = b[y] => x = y
  BY <1>4 DEF Live
<1>7. \A x \in S : h[b[x]] = g[x]
  BY <1>1, <1>4 DEF Lens, Lengths, Live
<1>8. \A y \in R : (\A x \in S : b[x] # y) => h[y] = 0
  <2> TAKE y \in R
  <2> HAVE \A x \in S : b[x] # y
  <2>1. \A i \in 1..k : c.lru[i] # y
    OBVIOUS
  <2>2. y \in Live(c) => c.slice[y] = NoSlice
    BY <1>4, <2>1
  <2>3. y \notin Live(c) => c.slice[y] = NoSlice
    BY DEF Live, Sound, FreeSlots
  <2> QED
    BY <2>2, <2>3 DEF Lengths
<1> HIDE DEF k, S, R, g, h, b
<1>9. SumFunction(g) = SumFunction(h)
  BY <1>2, <1>3, <1>5, <1>6, <1>7, <1>8, SumImage
<1> QED
  BY <1>9 DEF g, h, Sound, TotalExact

\* Eviction ends with the longest end of the entries that fits.
LEMMA EvictEntries ==
  ASSUME NEW c, Sound(c), NoOrphans(c), NEW keys \in SUBSET Seq(Tokens), NEW es, Describes(es, c, keys)
  PROVE  \E j \in 1..Len(es) + 1 :
           /\ Describes(SubSeq(es, j, Len(es)), evict_lru(c), keys)
           /\ SumFunction(Lens(SubSeq(es, j, Len(es)))) <= Budget
           /\ \A m \in 1..j - 1 : SumFunction(Lens(SubSeq(es, m, Len(es)))) > Budget
<1> DEFINE k == Len(es)
           E == [key : keys, len : Nat]
           End(j) == SubSeq(es, j, k)
<1>1. es \in Seq(E) /\ k = Len(c.lru)
  BY DEF Describes
<1> HIDE DEF E
<1>2. /\ k \in Nat /\ End(1) = es
      /\ \A j \in 1..k + 1 : End(j) \in Seq(E) /\ Len(End(j)) = (k - j) + 1
      /\ \A j \in 1..k : Tail(End(j)) = End(j + 1)
  BY <1>1, Ends
<1>3. PICK after : /\ evict_lru(c) = after[k] /\ after[0] = c
                   /\ \A i \in 0..k - 1 : after[i + 1] = EvictIf(after[i])
  BY <1>1, EvictSteps
<1> HIDE DEF k, End
<1> DEFINE Past(d, j) == /\ Describes(End(j), d, keys)
                         /\ \A m \in 1..j - 1 : SumFunction(Lens(End(m))) > Budget
           Good(d, i) == Evicting(d, c, i) /\ \E j \in 1..k + 1 : Past(d, j)
           B == {i \in 0..k : Good(after[i], i)}
<1>4. c.lru \in Seq(Nat)
  BY DEF Sound, Typed
<1>5. 0 \in B
  <2>1. Evicting(c, c, 0)
    BY <1>1, <1>2 DEF Evicting
  <2>2. Past(c, 1) /\ 1 \in 1..k + 1
    BY <1>2
  <2> HIDE DEF Past
  <2> QED
    BY <1>2, <1>3, <2>1, <2>2
<1>6. ASSUME NEW i \in 0..k - 1, i \in B PROVE i + 1 \in B
  <2>1. i \in Nat /\ i + 1 \in 0..k /\ Good(after[i], i) /\ after[i + 1] = EvictIf(after[i])
    BY <1>2, <1>3, <1>6
  <2> DEFINE d == after[i]
  <2> HIDE DEF d
  <2>2. Evicting(d, c, i) /\ Sound(d) /\ NoOrphans(d) /\ d.total \in Nat
    BY <2>1 DEF d, Evicting, Sound, Typed
  <2>3. PICK j \in 1..k + 1 : Past(d, j)
    BY <2>1 DEF d
  <2>4. Evicting(EvictIf(d), c, i + 1)
    BY <1>4, <2>1, <2>2, EvictIfKeeps
  <2>5. \E l \in 1..k + 1 : Past(EvictIf(d), l)
    <3>1. CASE d.total > Budget /\ d.lru # <<>>
      <4>1. EvictIf(d) = EvictOldest(d)
        BY <3>1 DEF EvictIf
      <4>2. Describes(Tail(End(j)), EvictOldest(d), keys)
        BY <2>2, <2>3, <3>1, EvictOldestEntries
      <4>3. SumFunction(Lens(End(j))) > Budget
        BY <2>2, <2>3, <3>1, TotalDescribed
      <4>4. Len(End(j)) = Len(d.lru) /\ Len(d.lru) \in Nat \ {0}
        BY <2>2, <2>3, <3>1 DEF Describes, Sound, Typed
      <4>5. j \in 1..k /\ j + 1 \in 1..k + 1
        <5>1. (k - j) + 1 \in Nat \ {0} /\ k \in Nat /\ j \in 1..k + 1
          BY <1>2, <4>4
        <5> QED
          BY <5>1
      <4>6. \A m \in 1..(j + 1) - 1 : m \in 1..j - 1 \/ m = j
        BY <4>5
      <4>7. Past(EvictIf(d), j + 1)
        BY <1>2, <2>3, <4>1, <4>2, <4>3, <4>5, <4>6
      <4> HIDE DEF Past
      <4> QED
        BY <4>5, <4>7
    <3>2. CASE ~(d.total > Budget /\ d.lru # <<>>)
      <4>1. EvictIf(d) = d
        BY <3>2 DEF EvictIf
      <4> HIDE DEF Past
      <4> QED
        BY <2>3, <4>1
    <3> QED
      BY <3>1, <3>2
  <2> HIDE DEF Past
  <2> QED
    BY <2>1, <2>4, <2>5 DEF d
<1> HIDE DEF B
<1>7. 0..k \subseteq B
  BY <1>2, <1>5, <1>6, UpTo
<1>8. k \in B
  BY <1>2, <1>7
<1> DEFINE d == evict_lru(c)
<1>9. PICK j \in 1..k + 1 : Past(d, j)
  BY <1>3, <1>8 DEF B
<1>10. Sound(d) /\ d.total <= Budget
  BY EvictKeeps DEF WellFormed, WithinBudget
<1> HIDE DEF d
<1>11. SumFunction(Lens(End(j))) <= Budget
  BY <1>9, <1>10, TotalDescribed
<1> QED
  BY <1>9, <1>11 DEF d, End, k
-------------------------------------------------------------------------------
(* What a lookup finds.                                                    *)

\* The entries whose key is a prefix of the query.
Found(es, query) == {i \in DOMAIN es : es[i].key # <<>> /\ IsPrefix(es[i].key, query)}

\* How long the keys are that are found.
FoundLens(es, query) == {Len(es[i].key) : i \in Found(es, query)}

\* The way down the query meets the slice of an entry where its key ends.
Meets(c, query, es, i) ==
  /\ i \in 1..Len(es) /\ Len(es[i].key) \in Matched(c, query)
  /\ Walk(c, query)[Len(es[i].key)] = c.lru[i]
  /\ SubSeq(query, 1, Len(es[i].key)) = es[i].key

\* It does so for every key that is found.
LEMMA FoundMatched ==
  ASSUME NEW c, Sound(c), NEW keys \in SUBSET Seq(Tokens), NEW es, Describes(es, c, keys),
         NEW query \in Seq(Tokens), NEW i \in Found(es, query)
  PROVE  Meets(c, query, es, i)
<1> DEFINE k == Len(es)
<1>0. es \in Seq([key : keys, len : Nat]) /\ k = Len(c.lru)
  BY DEF Describes
<1>1. k \in Nat /\ DOMAIN es = 1..k /\ \A j \in 1..k : es[j].key \in Seq(Tokens)
  BY <1>0, EntryTypes
<1>2. \A j \in 1..k : Walk(c, es[j].key)[Len(es[j].key)] = c.lru[j]
  BY DEF Describes, At
<1>3. \A j \in 1..k : c.lru[j] # NoNode /\ c.slice[c.lru[j]] # NoSlice
  BY <1>0, ListPlaces
<1>4. Len(query) \in Nat /\ \A x \in Seq(Tokens) : Len(x) \in Nat /\ (x # <<>> => Len(x) # 0)
  OBVIOUS
<1> HIDE DEF k
<1> DEFINE p == es[i].key
           m == Len(p)
<1>5. i \in 1..k /\ p # <<>> /\ IsPrefix(p, query) /\ p \in Seq(Tokens)
  BY <1>1 DEF Found
<1> HIDE DEF p
<1>6. m <= Len(query) /\ (\A j \in 1..m : p[j] = query[j]) /\ SubSeq(query, 1, m) = p
  BY <1>5, PrefixParts
<1>7. m \in 1..Len(query) /\ m \in 0..Len(p)
  BY <1>4, <1>5, <1>6
<1>8. Walk(c, p)[m] = Walk(c, query)[m]
  <2>1. \A j \in 0..m : Walk(c, p)[j] = Walk(c, query)[j]
    BY <1>5, <1>6, <1>7, WalkPrefix
  <2> QED
    BY <1>7, <2>1
<1>9. Walk(c, query)[m] = c.lru[i]
  BY <1>2, <1>5, <1>8 DEF p
<1>10. m \in Matched(c, query)
  BY <1>3, <1>5, <1>7, <1>9 DEF Matched
<1> QED
  BY <1>5, <1>6, <1>9, <1>10 DEF p, k, Meets

\* A slice on the way down has an entry whose key is found.
LEMMA MatchedFound ==
  ASSUME NEW c, Sound(c), NEW keys \in SUBSET Seq(Tokens), NEW es, Describes(es, c, keys),
         NEW query \in Seq(Tokens), NEW m \in Matched(c, query)
  PROVE  m \in FoundLens(es, query)
<1> DEFINE k == Len(es)
<1>0. es \in Seq([key : keys, len : Nat]) /\ k = Len(c.lru)
  BY DEF Describes
<1>1. k \in Nat /\ DOMAIN es = 1..k /\ \A i \in 1..k : es[i].key \in Seq(Tokens)
  BY <1>0, EntryTypes
<1>2. \A i \in 1..k : Walk(c, es[i].key)[Len(es[i].key)] = c.lru[i]
  BY DEF Describes, At
<1>3. \A n \in Live(c) : c.slice[n] # NoSlice => \E i \in 1..k : c.lru[i] = n
  BY <1>0, ListPlaces
<1>4. Len(query) \in Nat /\ \A x \in Seq(Tokens) : Len(x) \in Nat
  OBVIOUS
<1> HIDE DEF k
<1> DEFINE n == Walk(c, query)[m]
<1>5. m \in 1..Len(query) /\ n # NoNode /\ c.slice[n] # NoSlice
  BY DEF Matched
<1>6. m \in 0..Len(query) /\ n \in Live(c)
  BY <1>5, WalkLive
<1>7. PICK i \in 1..k : c.lru[i] = n
  BY <1>3, <1>5, <1>6
<1> DEFINE p == es[i].key
<1>8. p \in Seq(Tokens) /\ Walk(c, p)[Len(p)] = n
  BY <1>1, <1>2, <1>7
<1> HIDE DEF p, n
<1>9. Len(p) = m /\ \A j \in 1..Len(p) : p[j] = query[j]
  <2>1. Len(p) \in 0..Len(p) /\ Walk(c, p)[Len(p)] = Walk(c, query)[m] /\ Walk(c, p)[Len(p)] # NoNode
    BY <1>4, <1>5, <1>8 DEF n
  <2> QED
    BY <1>6, <1>8, <2>1, WalkUnique
<1>10. p # <<>> /\ Len(p) <= Len(query)
  BY <1>5, <1>9
<1>11. IsPrefix(p, query)
  BY <1>8, <1>9, <1>10, PrefixParts
<1>12. i \in Found(es, query)
  BY <1>1, <1>10, <1>11 DEF Found, p
<1> QED
  BY <1>9, <1>12 DEF p, FoundLens

\* The longest of the keys found is where prefix_match ends.
LEMMA LongestFound ==
  ASSUME NEW c, Sound(c), NEW keys \in SUBSET Seq(Tokens), NEW es, Describes(es, c, keys),
         NEW query \in Seq(Tokens)
  PROVE  /\ Found(es, query) = {} <=> Matched(c, query) = {}
         /\ Found(es, query) # {} =>
              \E i \in Found(es, query) : \A j \in Found(es, query) : Len(es[j].key) <= Len(es[i].key)
         /\ \A i \in Found(es, query) :
              (\A j \in Found(es, query) : Len(es[j].key) <= Len(es[i].key)) =>
                 Longest(c, query) = Len(es[i].key)
<1> DEFINE F == Found(es, query)
           M == Matched(c, query)
           L(i) == Len(es[i].key)
<1>1. (\A i \in F : L(i) \in M) /\ (\A m \in M : \E i \in F : L(i) = m)
  <2>1. ASSUME NEW i \in F PROVE L(i) \in M
    <3>1. Meets(c, query, es, i)
      BY FoundMatched
    <3> QED
      BY <3>1 DEF Meets
  <2>2. ASSUME NEW m \in M PROVE m \in FoundLens(es, query)
    BY MatchedFound
  <2> QED
    BY <2>1, <2>2 DEF FoundLens
<1>2. M \subseteq 1..Len(query) /\ Len(query) \in Nat
  BY DEF Matched
<1>3. Longest(c, query) = CHOOSE m \in M : \A l \in M : l <= m
  BY DEF Longest
<1> HIDE DEF F, M, L
<1>4. ASSUME M # {} PROVE \E m \in M : \A l \in M : l <= m
  <2> DEFINE N == {Len(query) - m : m \in M}
  <2>1. N \in SUBSET Nat /\ N # {}
    <3>1. \A m \in M : Len(query) - m \in Nat
      BY <1>2
    <3>2. N \in SUBSET Nat
      BY <3>1
    <3>3. N # {}
      BY <1>4
    <3> QED
      BY <3>2, <3>3
  <2> HIDE DEF N
  <2>2. PICK a \in N : \A b \in N : a <= b
    BY <2>1, NatLeast
  <2>3. PICK m \in M : a = Len(query) - m
    BY <2>2 DEF N
  <2>4. \A l \in M : a <= Len(query) - l
    BY <2>2 DEF N
  <2>5. \A l \in M : l \in Nat
    BY <1>2
  <2> QED
    BY <1>2, <2>3, <2>4, <2>5
<1>5. F = {} <=> M = {}
  BY <1>1
<1>6. F # {} => \E i \in F : \A j \in F : L(j) <= L(i)
  <2> HAVE F # {}
  <2>1. PICK m \in M : \A l \in M : l <= m
    BY <1>4, <1>5
  <2>2. PICK i \in F : L(i) = m
    BY <1>1
  <2> QED
    BY <1>1, <2>1, <2>2
<1>7. \A i \in F : (\A j \in F : L(j) <= L(i)) => Longest(c, query) = L(i)
  <2> TAKE i \in F
  <2> HAVE \A j \in F : L(j) <= L(i)
  <2>1. L(i) \in M /\ \A l \in M : l <= L(i)
    BY <1>1
  <2>2. \A l \in M : (\A a \in M : a <= l) => l = L(i)
    <3>1. \A l \in M : l \in Nat
      BY <1>2
    <3> QED
      BY <2>1, <3>1
  <2> QED
    BY <1>3, <2>1, <2>2
<1> QED
  BY <1>5, <1>6, <1>7 DEF F, M, L
-------------------------------------------------------------------------------
(* The whole of a commit, and the start.                                   *)

\* An empty cache has no entry.
LEMMA EmptyEntries ==
  ASSUME NEW keys \in SUBSET Seq(Tokens)
  PROVE  Describes(<<>>, Empty, keys)
BY DEF Describes, Empty

\* commit stores the entry, and then drops entries from the front until the rest fits.
LEMMA CommitEntries ==
  ASSUME NEW c, WellFormed(c), NEW keys \in SUBSET Seq(Tokens), NEW es, Describes(es, c, keys),
         NEW key \in keys, NEW len \in Nat
  PROVE  LET fs == Committed(es, key, len)
         IN  /\ fs \in Seq([key : keys, len : Nat])
             /\ \E j \in 1..Len(fs) + 1 :
                  /\ Describes(SubSeq(fs, j, Len(fs)), commit(c, key, len), keys)
                  /\ SumFunction(Lens(SubSeq(fs, j, Len(fs)))) <= Budget
                  /\ \A m \in 1..j - 1 : SumFunction(Lens(SubSeq(fs, m, Len(fs)))) > Budget
<1> DEFINE at == Descend(c, key)
           d == Stored(at.cache, at.node, len)
           fs == Committed(es, key, len)
<1>0. key \in Seq(Tokens) /\ Sound(c) /\ NoOrphans(c)
  BY DEF WellFormed
<1>1. Descended(at)
  BY <1>0, DescendKeeps
<1>2. Describes(es, at.cache, keys) /\ At(at.cache, key, at.node)
  BY <1>0, DescendEntries
<1>3. commit(c, key, len) = evict_lru(d)
  BY DEF commit
<1> HIDE DEF at
<1>4. Sound(at.cache) /\ at.node \in Live(at.cache)
  BY <1>1 DEF Descended
<1>5. Sound(d) /\ Orphans(d) = Orphans(at.cache) \ {at.node}
  BY <1>4, StoredKeeps
<1>6. NoOrphans(d)
  BY <1>1, <1>5 DEF Descended, NoOrphans
<1>7. Describes(fs, d, keys)
  BY <1>2, <1>4, StoredEntries
<1> HIDE DEF d, fs
<1>8. \E j \in 1..Len(fs) + 1 :
        /\ Describes(SubSeq(fs, j, Len(fs)), evict_lru(d), keys)
        /\ SumFunction(Lens(SubSeq(fs, j, Len(fs)))) <= Budget
        /\ \A m \in 1..j - 1 : SumFunction(Lens(SubSeq(fs, m, Len(fs)))) > Budget
  BY <1>5, <1>6, <1>7, EvictEntries
<1>9. fs \in Seq([key : keys, len : Nat])
  BY <1>7 DEF Describes
<1> QED
  BY <1>3, <1>8, <1>9 DEF fs
===============================================================================
