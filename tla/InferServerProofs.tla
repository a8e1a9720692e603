--------------------------- MODULE InferServerProofs ---------------------------
(***************************************************************************)
(* For every set of calls and prompts, every budget and any number of      *)
(* hang-ups: the permit is with the one call that is past the semaphore,   *)
(* its queue holds those that wait, and the prefix cache is well-formed    *)
(* after each lookup and commit, which do to it what they do to the flat   *)
(* cache of module FlatCache.                                              *)
(***************************************************************************)
EXTENDS InferServerProps, KvPrefixCacheProofs

\* The invariant holds at the start: nobody waits and nobody has the permit.
LEMMA InitInvariant == Init => IInv
BY InferAssumption DEF Init, IInv, TypeOK, PermitExact, QueueExact, OrphansCounted, KeyedHasId, HasPrompt,
   Stages, Permitted

\* A new call without a request id joins the queue once, at its end.
LEMMA Joins ==
  ASSUME IInv, NEW c \in Calls, pc[c] \in {"idle", "idem"},
         queue' = Append(queue, c), pc' = [pc EXCEPT ![c] = "wait"]
  PROVE  QueueExact' /\ queue' \in Seq(Calls)
<1>1. /\ queue \in Seq(Calls) /\ queue' \in Seq(Calls) /\ Len(queue) \in Nat
      /\ DOMAIN queue = 1..Len(queue) /\ DOMAIN queue' = 1..Len(queue) + 1
      /\ \A j \in 1..Len(queue) : queue'[j] = queue[j]
      /\ queue'[Len(queue) + 1] = c
  BY DEF IInv, TypeOK
<1>2. /\ \A j \in DOMAIN queue : queue[j] # c
      /\ \A i, j \in DOMAIN queue : queue[i] = queue[j] => i = j
      /\ \A d \in Calls : pc[d] = "wait" <=> \E i \in DOMAIN queue : queue[i] = d
  BY DEF IInv, QueueExact
<1>3. \A d \in Calls : pc'[d] = "wait" <=> pc[d] = "wait" \/ d = c
  BY DEF IInv, TypeOK
<1>4. \A i, j \in DOMAIN queue' : queue'[i] = queue'[j] => i = j
  BY <1>1, <1>2
<1>5. \A d \in Calls : (\E i \in DOMAIN queue' : queue'[i] = d)
                        <=> (\E i \in DOMAIN queue : queue[i] = d) \/ d = c
  BY <1>1
<1> QED
  BY <1>1, <1>2, <1>3, <1>4, <1>5 DEF QueueExact

\* The permit goes to the front of the queue, which goes on without it.
LEMMA Served ==
  ASSUME IInv, NEW c \in Calls, pc[c] = "wait", Head(queue) = c,
         queue' = Tail(queue), pc' = [pc EXCEPT ![c] = "match"]
  PROVE  QueueExact' /\ queue' \in Seq(Calls)
<1>1. queue # <<>>
  BY DEF IInv, TypeOK, QueueExact
<1>2. /\ queue \in Seq(Calls) /\ queue' \in Seq(Calls) /\ Len(queue') = Len(queue) - 1
      /\ \A j \in 1..Len(queue) - 1 : queue'[j] = queue[j + 1]
  BY <1>1 DEF IInv, TypeOK
<1>3. queue[1] = c
  BY <1>1, <1>2
<1>4. \A d \in Calls : pc'[d] = "wait" <=> pc[d] = "wait" /\ d # c
  BY DEF IInv, TypeOK
<1>5. \A i, j \in DOMAIN queue' : queue'[i] = queue'[j] => i = j
  BY <1>2 DEF IInv, QueueExact
<1>6. \A d \in Calls : (\E i \in DOMAIN queue' : queue'[i] = d)
                        <=> (\E i \in DOMAIN queue : queue[i] = d) /\ d # c
  <2> SUFFICES ASSUME NEW d \in Calls
               PROVE  (\E i \in DOMAIN queue' : queue'[i] = d)
                        <=> (\E i \in DOMAIN queue : queue[i] = d) /\ d # c
    OBVIOUS
  <2>1. ASSUME NEW i \in DOMAIN queue', queue'[i] = d
        PROVE  (\E k \in DOMAIN queue : queue[k] = d) /\ d # c
    BY <1>1, <1>2, <1>3, <2>1 DEF IInv, QueueExact
  <2>2. ASSUME NEW i \in DOMAIN queue, queue[i] = d, d # c
        PROVE  \E k \in DOMAIN queue' : queue'[k] = d
    <3>1. i - 1 \in DOMAIN queue' /\ queue'[i - 1] = d
      BY <1>2, <1>3, <2>2
    <3> QED
      BY <3>1
  <2> QED
    BY <2>1, <2>2
<1> QED
  BY <1>2, <1>4, <1>5, <1>6 DEF IInv, QueueExact

\* A call that is dropped while it waits leaves the queue, wherever it stands.
LEMMA Leaves ==
  ASSUME IInv, NEW c \in Calls, pc[c] = "wait", pc' = [pc EXCEPT ![c] = "idle"],
         NEW i \in DOMAIN queue, queue[i] = c, queue' = RemoveAt(queue, i)
  PROVE  QueueExact' /\ queue' \in Seq(Calls)
<1>1. queue \in Seq(Calls) /\ i \in 1..Len(queue)
  BY DEF IInv, TypeOK
<1>2. /\ queue' \in Seq(Calls) /\ Len(queue') = Len(queue) - 1
      /\ \A j \in 1..Len(queue) - 1 : queue'[j] = IF j < i THEN queue[j] ELSE queue[j + 1]
  BY <1>1, RemoveAtParts
<1>3. \A d \in Calls : pc'[d] = "wait" <=> pc[d] = "wait" /\ d # c
  BY DEF IInv, TypeOK
<1> DEFINE from(j) == IF j < i THEN j ELSE j + 1
<1>4. \A j \in DOMAIN queue' : /\ from(j) \in DOMAIN queue /\ from(j) # i
                               /\ queue'[j] = queue[from(j)]
  BY <1>1, <1>2
<1>5. \A j, k \in DOMAIN queue' : from(j) = from(k) => j = k
  BY <1>1, <1>2
<1>6. \A j, k \in DOMAIN queue : queue[j] = queue[k] => j = k
  BY DEF IInv, QueueExact
<1> HIDE DEF from
<1>7. \A j, k \in DOMAIN queue' : queue'[j] = queue'[k] => j = k
  BY <1>4, <1>5, <1>6
<1>8. \A d \in Calls : (\E j \in DOMAIN queue' : queue'[j] = d)
                        <=> (\E j \in DOMAIN queue : queue[j] = d) /\ d # c
  <2> SUFFICES ASSUME NEW d \in Calls
               PROVE  (\E j \in DOMAIN queue' : queue'[j] = d)
                        <=> (\E j \in DOMAIN queue : queue[j] = d) /\ d # c
    OBVIOUS
  <2>1. ASSUME NEW j \in DOMAIN queue', queue'[j] = d
        PROVE  (\E k \in DOMAIN queue : queue[k] = d) /\ d # c
    BY <1>4, <1>6, <2>1
  <2>2. ASSUME NEW j \in DOMAIN queue, queue[j] = d, d # c
        PROVE  \E k \in DOMAIN queue' : queue'[k] = d
    <3>1. CASE j < i
      BY <1>1, <1>2, <2>2, <3>1
    <3>2. CASE j > i
      <4>1. j - 1 \in DOMAIN queue' /\ queue'[j - 1] = d
        BY <1>1, <1>2, <2>2, <3>2
      <4> QED
        BY <4>1
    <3> QED
      BY <1>1, <2>2, <3>1, <3>2
  <2> QED
    BY <2>1, <2>2
<1> QED
  BY <1>2, <1>3, <1>7, <1>8 DEF IInv, QueueExact

\* Every other step leaves the queue and those who wait alone.
LEMMA SameQueue ==
  ASSUME IInv, NEW c \in Calls, NEW stage \in Stages, pc[c] # "wait", stage # "wait",
         queue' = queue, pc' = [pc EXCEPT ![c] = stage]
  PROVE  QueueExact' /\ queue' \in Seq(Calls)
BY DEF IInv, TypeOK, QueueExact

\* Each step of a call, of a pass that nobody waits for, and of time keeps the
\* invariant: the queue by the lemmas above, the rest case by case.
LEMMA NextInvariant == IInv /\ [Next]_vars => IInv'
<1> SUFFICES ASSUME IInv, [Next]_vars PROVE IInv'
  OBVIOUS
<1> USE InferAssumption
<1> DEFINE Rest == TypeOK' /\ PermitExact' /\ OrphansCounted' /\ KeyedHasId' /\ HasPrompt'
<1>1. ASSUME NEW c \in Calls, NEW p \in Prompts, NEW k \in BOOLEAN, Receive(c, p, k) PROVE IInv'
  <2>1. QueueExact' /\ queue' \in Seq(Calls)
    BY <1>1, Joins, SameQueue DEF Receive, Go, Stages
  <2>2. Rest
    BY <1>1, <2>1 DEF IInv, TypeOK, PermitExact, OrphansCounted, KeyedHasId, HasPrompt, Receive, Go,
       Stages, Permitted, stored
  <2> QED
    BY <2>1, <2>2 DEF IInv
<1>2. ASSUME NEW c \in Calls, IdemCheck(c) PROVE IInv'
  <2>1. QueueExact' /\ queue' \in Seq(Calls)
    BY <1>2, Joins, SameQueue DEF IdemCheck, Reply, Go, Stages
  <2>2. Rest
    BY <1>2, <2>1, ZenonT(30) DEF IInv, TypeOK, PermitExact, OrphansCounted, KeyedHasId, HasPrompt, IdemCheck,
       Reply, Go, Stages, Permitted
  <2> QED
    BY <2>1, <2>2 DEF IInv
<1>3. ASSUME NEW c \in Calls, Acquire(c) PROVE IInv'
  <2>1. QueueExact' /\ queue' \in Seq(Calls)
    BY <1>3, Served DEF Acquire, Go
  <2>2. Rest
    BY <1>3, <2>1 DEF IInv, TypeOK, PermitExact, OrphansCounted, KeyedHasId, HasPrompt, Acquire, Go,
       Stages, Permitted, stored
  <2> QED
    BY <2>1, <2>2 DEF IInv
<1>4. ASSUME NEW c \in Calls, PrefixMatch(c) \/ PassEnds(c) PROVE IInv'
  <2>1. QueueExact' /\ queue' \in Seq(Calls)
    BY <1>4, SameQueue DEF PrefixMatch, PassEnds, Go, Stages, lock
  <2>2. Rest
    BY <1>4, <2>1, ZenonT(30) DEF IInv, TypeOK, PermitExact, OrphansCounted, KeyedHasId, HasPrompt, PrefixMatch,
       PassEnds, Go, Stages, Permitted, lock, stored
  <2> QED
    BY <2>1, <2>2 DEF IInv
<1>5. ASSUME NEW c \in Calls, CommitPrompt(c) \/ StoreResult(c) PROVE IInv'
  <2>1. QueueExact' /\ queue' \in Seq(Calls)
    BY <1>5, SameQueue DEF CommitPrompt, StoreResult, Reply, Go, Stages
  <2>2. Rest
    <3>1. CASE CommitPrompt(c)
      BY <2>1, <3>1, ZenonT(30) DEF IInv, TypeOK, PermitExact, OrphansCounted, KeyedHasId, HasPrompt,
         CommitPrompt, Reply, Go, Stages, Permitted, stored
    <3>2. CASE StoreResult(c)
      <4>1. idem' \subseteq Ids
        <5>1. pc[c] = "store" /\ idem' \subseteq idem \cup {prompt[c]}
          BY <3>2, Zenon DEF StoreResult
        <5>2. keyed[c]
          BY <5>1 DEF IInv, KeyedHasId
        <5>3. prompt[c] \in Ids
          BY <5>2 DEF IInv, KeyedHasId
        <5>4. idem \subseteq Ids
          BY DEF IInv, TypeOK
        <5> QED
          BY <5>1, <5>3, <5>4
      <4>2. TypeOK'
        <5>1. /\ Reply(c) /\ holder' = None
              /\ orphans' = orphans /\ hangups' = hangups
              /\ stale' \subseteq stale
          BY <3>2 DEF StoreResult
        <5> QED
          BY <2>1, <4>1, <5>1 DEF IInv, TypeOK, Reply, Go, Stages
      <4>3. PermitExact'
        BY <3>2 DEF IInv, TypeOK, PermitExact, StoreResult, Reply, Go, Stages, Permitted
      <4>4. OrphansCounted' /\ KeyedHasId' /\ HasPrompt'
        BY <3>2 DEF IInv, TypeOK, OrphansCounted, KeyedHasId, HasPrompt, StoreResult, Reply, Go, Stages
      <4> QED
        BY <4>2, <4>3, <4>4
    <3> QED
      BY <1>5, <3>1, <3>2
  <2> QED
    BY <2>1, <2>2 DEF IInv
<1>6. ASSUME NEW c \in Calls, HangUp(c) PROVE IInv'
  <2>1. QueueExact' /\ queue' \in Seq(Calls)
    BY <1>6, Leaves, SameQueue DEF HangUp, Reply, Go, Stages
  <2>2. Rest
    BY <1>6, <2>1 DEF IInv, TypeOK, PermitExact, OrphansCounted, KeyedHasId, HasPrompt, HangUp, Reply, Go,
       Stages, Permitted, stored
  <2> QED
    BY <2>1, <2>2 DEF IInv
<1>7. CASE OrphanEnds
  BY <1>7 DEF IInv, TypeOK, PermitExact, QueueExact, OrphansCounted, KeyedHasId, HasPrompt, OrphanEnds,
     call, lock, stored
<1>8. ASSUME NEW p \in Ids, Expire(p) PROVE IInv'
  BY <1>8 DEF IInv, TypeOK, PermitExact, QueueExact, OrphansCounted, KeyedHasId, HasPrompt, Expire,
     call, lock, stored
<1>9. CASE UNCHANGED vars
  BY <1>9 DEF IInv, TypeOK, PermitExact, QueueExact, OrphansCounted, KeyedHasId, HasPrompt, vars, call, lock,
     stored
<1> QED
  BY <1>1, <1>2, <1>3, <1>4, <1>5, <1>6, <1>7, <1>8, <1>9 DEF Next, Handler

\* In every run the permit is with the one call that is past the semaphore and the
\* queue holds those that wait (server.rs: infer_lock, generate).
THEOREM PermitInvariant == Spec => []IInv
<1>1. Init => IInv
  BY InitInvariant
<1>2. IInv /\ [Next]_vars => IInv'
  BY NextInvariant
<1> QED
  BY <1>1, <1>2, PTL DEF Spec

\* Every variable keeps its type, whatever calls come, hang up or repeat.
THEOREM InferTypes == Spec => []TypeOK
<1>1. IInv => TypeOK
  BY DEF IInv
<1> QED
  BY <1>1, PermitInvariant, PTL

\* No two calls have a forward pass at a time, and at most as many passes run
\* without a call as clients have hung up.
THEOREM OnePassForEachCall == Spec => []OnePassEach
<1>1. IInv => OnePassEach
  BY DEF IInv, PermitExact, OrphansCounted, OnePassEach, Passing, Permitted
<1> QED
  BY <1>1, PermitInvariant, PTL

\* Whatever is looked up and committed by whichever call: links, counts, free list, LRU
\* list and total of the trie agree, no evicted node is left behind, and the slices fit
\* the budget (kv_prefix_cache.rs: prefix_match, commit, evict_lru, try_collect_chain).
THEOREM CacheAlwaysWellFormed == Spec => []CacheWellFormed
<1>1. Init => CacheWellFormed
  BY EmptyWellFormed DEF Init, CacheWellFormed
<1>2. IInv /\ CacheWellFormed /\ [Next]_vars => CacheWellFormed'
  <2> SUFFICES ASSUME IInv, CacheWellFormed, [Next]_vars PROVE CacheWellFormed'
    OBVIOUS
  <2>1. ASSUME NEW c \in Calls, PrefixMatch(c) PROVE CacheWellFormed'
    <3>1. cache' = cache \/ \E n : cache' = Promote(cache, n)
      BY <2>1 DEF PrefixMatch, prefix_match
    <3> QED
      BY <3>1, PromoteKeeps DEF CacheWellFormed
  <2>2. ASSUME NEW c \in Calls, CommitPrompt(c) PROVE CacheWellFormed'
    <3>1. prompt[c] \in Seq(Tokens)
      <4>1. prompt[c] \in Prompts \cup {<<>>}
        BY DEF IInv, TypeOK
      <4>2. Prompts \subseteq Seq(Tokens) /\ <<>> \in Seq(Tokens)
        BY InferAssumption DEF InferAssumption
      <4> QED
        BY <4>1, <4>2
    <3>2. Len(prompt[c]) \in Nat /\ cache' = commit(cache, prompt[c], Len(prompt[c]))
      BY <2>2, <3>1 DEF CommitPrompt
    <3> QED
      BY <3>1, <3>2, CommitKeeps DEF CacheWellFormed
  <2>3. CASE UNCHANGED cache
    BY <2>3 DEF CacheWellFormed
  <2>4. CASE UNCHANGED vars
    BY <2>3, <2>4 DEF vars, prefix
  <2>5. ASSUME NEW c \in Calls,
               \/ IdemCheck(c) \/ Acquire(c) \/ StoreResult(c) \/ PassEnds(c) \/ HangUp(c)
               \/ \E p \in Prompts, k \in BOOLEAN : Receive(c, p, k)
        PROVE  CacheWellFormed'
    BY <2>3, <2>5 DEF IdemCheck, Acquire, StoreResult, PassEnds, HangUp, Receive, prefix
  <2>6. CASE OrphanEnds \/ \E p \in Ids : Expire(p)
    BY <2>3, <2>6 DEF OrphanEnds, Expire, prefix
  <2> QED
    BY <2>1, <2>2, <2>4, <2>5, <2>6 DEF Next, Handler
<1> QED
  BY <1>1, <1>2, PermitInvariant, PTL DEF Spec

-------------------------------------------------------------------------------
(* The trie implements the flat cache.                                     *)

\* The entries of the flat cache are those the trie stands for.
Described == Describes(EntriesOf(cache, Prompts), cache, Prompts)

LEMMA PromptsAreKeys == Prompts \in SUBSET Seq(Tokens)
BY InferAssumption DEF InferAssumption

\* The sum the flat cache folds is the sum of the slices.
LEMMA FlatTotal ==
  ASSUME NEW fs \in Seq([key : Prompts, len : Nat])
  PROVE  Flat!Total(fs) = SumFunction(Lens(fs)) /\ SumFunction(Lens(fs)) \in Nat
<1>1. /\ Len(fs) \in Nat /\ DOMAIN fs = 1..Len(fs)
      /\ \A i \in 1..Len(fs) : fs[i].len \in Nat
  BY PromptsAreKeys, EntryTypes
<1>2. \A i \in 1..Len(fs) : fs[i].len \in Int
  BY <1>1
<1>3. FoldLeft(LAMBDA sum, e : sum + e.len, 0, fs) = SumFunction([i \in 1..Len(fs) |-> fs[i].len])
  BY <1>1, <1>2, SumLeft
<1>4. Flat!Total(fs) = FoldLeft(LAMBDA sum, e : sum + e.len, 0, fs)
  BY Zenon DEF Flat!Total, Flat!FoldLeft, FoldLeft, Flat!MapThenFoldSet, MapThenFoldSet, Flat!Max, Max
<1>5. SumFunction(Lens(fs)) \in Nat
  <2>1. Lens(fs) \in [1..Len(fs) -> Nat]
    BY <1>1 DEF Lens
  <2>2. IsFiniteSet(1..Len(fs))
    BY <1>1, FS_Interval
  <2> QED
    BY <2>1, <2>2, SumNat
<1> QED
  BY <1>3, <1>4, <1>5 DEF Lens

\* At the start both are empty.
LEMMA InitFlat == Init => Described /\ Flat!Init
<1> SUFFICES ASSUME Init PROVE Described /\ Flat!Init
  OBVIOUS
<1>1. cache = Empty /\ answer = Miss
  BY DEF Init
<1>2. Describes(<<>>, cache, Prompts)
  BY <1>1, PromptsAreKeys, EmptyEntries
<1>3. Sound(cache)
  BY <1>1, EmptyWellFormed DEF WellFormed
<1>4. EntriesOf(cache, Prompts) = <<>>
  BY <1>2, <1>3, PromptsAreKeys, EntriesDescribed
<1> QED
  BY <1>1, <1>2, <1>4 DEF Described, Flat!Init

\* Where eviction stops is the first end of the list that fits.
LEMMA FlatFitting ==
  ASSUME NEW fs \in Seq([key : Prompts, len : Nat]), NEW j \in 1..Len(fs) + 1,
         SumFunction(Lens(SubSeq(fs, j, Len(fs)))) <= Budget,
         \A m \in 1..j - 1 : SumFunction(Lens(SubSeq(fs, m, Len(fs)))) > Budget
  PROVE  Flat!Fitting(fs) = SubSeq(fs, j, Len(fs))
<1> DEFINE k == Len(fs)
           E == [key : Prompts, len : Nat]
           T(i) == Flat!Total(SubSeq(fs, i, k))
           First(i) == T(i) <= Budget /\ \A m \in 1..i - 1 : ~(T(m) <= Budget)
<1>1. k \in Nat /\ \A i \in 1..k + 1 : SubSeq(fs, i, k) \in Seq(E)
  <2>1. k \in Nat
    OBVIOUS
  <2>2. ASSUME NEW i \in 1..k + 1 PROVE SubSeq(fs, i, k) \in Seq(E)
    BY <2>1, Ends
  <2> QED
    BY <2>1, <2>2
<1>2. \A i \in 1..k + 1 : /\ T(i) = SumFunction(Lens(SubSeq(fs, i, k)))
                          /\ T(i) \in Int
  <2> TAKE i \in 1..k + 1
  <2> DEFINE gs == SubSeq(fs, i, k)
  <2>1. gs \in Seq(E)
    BY <1>1
  <2> HIDE DEF gs
  <2>2. Flat!Total(gs) = SumFunction(Lens(gs)) /\ SumFunction(Lens(gs)) \in Nat
    BY <2>1, FlatTotal
  <2> QED
    BY <2>2 DEF gs
<1>3. First(j)
  <2>1. \A m \in 1..j - 1 : m \in 1..k + 1
    BY <1>1
  <2>2. T(j) <= Budget
    BY <1>2
  <2>3. \A m \in 1..j - 1 : ~(T(m) <= Budget)
    BY <1>2, <2>1, CacheAssumption DEF CacheAssumption
  <2> QED
    BY <2>2, <2>3
<1> HIDE DEF T
<1>4. \A i \in 1..k + 1 : First(i) => i = j
  <2> TAKE i \in 1..k + 1
  <2> HAVE First(i)
  <2>1. ~(i < j)
    BY <1>1, <1>3
  <2>2. ~(j < i)
    BY <1>1, <1>3
  <2> QED
    BY <1>1, <2>1, <2>2
<1> HIDE DEF First
<1>5. (CHOOSE i \in 1..k + 1 : First(i)) = j
  BY <1>3, <1>4
<1>6. Flat!Fitting(fs) = SubSeq(fs, CHOOSE i \in 1..k + 1 : First(i), k)
  BY DEF Flat!Fitting, First, T
<1> QED
  BY <1>5, <1>6

\* What describes a sound cache is what the flat cache is made of.
LEMMA FlatEntries ==
  ASSUME NEW c, Sound(c), NEW es, Describes(es, c, Prompts)
  PROVE  EntriesOf(c, Prompts) = es
BY PromptsAreKeys, EntriesDescribed

\* prefix_match finds the longest key, and makes its entry the most recently used.
LEMMA LookupStep ==
  ASSUME CacheWellFormed, Described, NEW query \in Prompts,
         cache' = prefix_match(cache, query),
         answer' = IF Matched(cache, query) = {} THEN Miss
                   ELSE [key |-> SubSeq(query, 1, Longest(cache, query)),
                         len |-> cache.slice[Walk(cache, query)[Longest(cache, query)]]]
  PROVE  Described' /\ Flat!Lookup(query)
<1> DEFINE es == EntriesOf(cache, Prompts)
           F == Found(es, query)
<1>0. /\ query \in Seq(Tokens) /\ Prompts \in SUBSET Seq(Tokens)
      /\ WellFormed(cache) /\ Sound(cache) /\ Describes(es, cache, Prompts)
  BY PromptsAreKeys DEF CacheWellFormed, WellFormed, Described
<1> HIDE DEF es
<1>1. F = {i \in DOMAIN es : es[i].key # <<>> /\ Flat!IsPrefix(es[i].key, query)}
  BY DEF Found, IsPrefix, Flat!IsPrefix
<1>2. /\ F = {} <=> Matched(cache, query) = {}
      /\ F # {} => \E i \in F : \A j \in F : Len(es[j].key) <= Len(es[i].key)
      /\ \A i \in F : (\A j \in F : Len(es[j].key) <= Len(es[i].key)) =>
                         Longest(cache, query) = Len(es[i].key)
  BY <1>0, LongestFound
<1>3. CASE F = {}
  <2>1. cache' = cache /\ answer' = Miss
    BY <1>2, <1>3 DEF prefix_match
  <2>2. Described'
    BY <2>1 DEF Described
  <2>3. Flat!Lookup(query)
    BY <1>1, <1>3, <2>1 DEF Flat!Lookup, es
  <2> QED
    BY <2>2, <2>3
<1>4. CASE F # {}
  <2> DEFINE best == CHOOSE i \in F : \A j \in F : Len(es[j].key) <= Len(es[i].key)
             fs == Append(RemoveAt(es, best), es[best])
  <2>1. best \in F /\ \A j \in F : Len(es[j].key) <= Len(es[best].key)
    BY <1>2, <1>4
  <2> HIDE DEF best, F
  <2>2. Longest(cache, query) = Len(es[best].key) /\ Matched(cache, query) # {}
    BY <1>2, <2>1
  <2>3. /\ best \in 1..Len(es) /\ Len(es[best].key) \in Matched(cache, query)
        /\ Walk(cache, query)[Len(es[best].key)] = cache.lru[best]
        /\ SubSeq(query, 1, Len(es[best].key)) = es[best].key
    <3>1. best \in Found(es, query)
      BY <2>1 DEF F
    <3>2. Meets(cache, query, es, best)
      BY <1>0, <3>1, FoundMatched
    <3> QED
      BY <3>2 DEF Meets
  <2>4. cache' = Promote(cache, cache.lru[best])
    BY <2>2, <2>3 DEF prefix_match
  <2>5. Describes(fs, cache', Prompts)
    BY <1>0, <2>3, <2>4, PromoteEntries
  <2>6. Sound(cache')
    BY <1>0, <2>4, PromoteKeeps DEF WellFormed
  <2>7. EntriesOf(cache', Prompts) = fs
    BY <2>5, <2>6, FlatEntries
  <2>8. answer' = es[best]
    <3>1. es[best].len = cache.slice[cache.lru[best]] /\ es \in Seq([key : Prompts, len : Nat])
      BY <1>0, <2>3 DEF Describes
    <3>2. es[best] = [key |-> es[best].key, len |-> es[best].len]
      BY <1>0, <2>3, <3>1, EntryTypes
    <3> QED
      BY <2>2, <2>3, <3>1, <3>2
  <2>9. Flat!Lookup(query)
    <3>1. fs = Append(Flat!RemoveAt(es, best), es[best])
      BY DEF RemoveAt, Flat!RemoveAt
    <3> QED
      BY <1>1, <1>4, <2>7, <2>8, <3>1 DEF Flat!Lookup, es, best
  <2> QED
    BY <2>5, <2>7, <2>9 DEF Described
<1> QED
  BY <1>3, <1>4

\* commit stores the entry of the prompt, and evicts from the front what does not fit.
LEMMA CommitStep ==
  ASSUME CacheWellFormed, Described, NEW key \in Prompts,
         cache' = commit(cache, key, Len(key)), answer' = Miss
  PROVE  Described' /\ Flat!Commit(key, Len(key))
<1> DEFINE es == EntriesOf(cache, Prompts)
           len == Len(key)
           fs == Committed(es, key, len)
           k == Len(fs)
<1>0. /\ key \in Seq(Tokens) /\ Prompts \in SUBSET Seq(Tokens) /\ len \in Nat
      /\ WellFormed(cache) /\ Describes(es, cache, Prompts)
  BY PromptsAreKeys DEF CacheWellFormed, Described
<1> HIDE DEF es, len
<1>1. /\ fs \in Seq([key : Prompts, len : Nat])
      /\ \E j \in 1..k + 1 :
           /\ Describes(SubSeq(fs, j, k), commit(cache, key, len), Prompts)
           /\ SumFunction(Lens(SubSeq(fs, j, k))) <= Budget
           /\ \A m \in 1..j - 1 : SumFunction(Lens(SubSeq(fs, m, k))) > Budget
  BY <1>0, CommitEntries
<1>2. PICK j \in 1..k + 1 :
        /\ Describes(SubSeq(fs, j, k), commit(cache, key, len), Prompts)
        /\ SumFunction(Lens(SubSeq(fs, j, k))) <= Budget
        /\ \A m \in 1..j - 1 : SumFunction(Lens(SubSeq(fs, m, k))) > Budget
  BY <1>1
<1>3. cache' = commit(cache, key, len)
  BY DEF len
<1>4. Sound(cache')
  BY <1>0, <1>3, CommitKeeps DEF WellFormed
<1>5. EntriesOf(cache', Prompts) = SubSeq(fs, j, k)
  BY <1>2, <1>3, <1>4, FlatEntries
<1>6. Flat!Fitting(fs) = SubSeq(fs, j, k)
  BY <1>1, <1>2, FlatFitting
<1>7. Flat!Commit(key, Len(key))
  BY <1>5, <1>6 DEF Flat!Commit, Committed, es, len
<1> QED
  BY <1>2, <1>3, <1>5, <1>7 DEF Described

\* A step of the server is a lookup or a commit of the flat cache, or leaves it alone.
LEMMA FlatStep ==
  ASSUME IInv, CacheWellFormed, Described, [Next]_vars
  PROVE  Described' /\ [Flat!Next]_<<EntriesOf(cache, Prompts), answer>>
<1> DEFINE Goal == Described' /\ [Flat!Next]_<<EntriesOf(cache, Prompts), answer>>
<1>0. \A c \in Calls : pc[c] # "idle" => prompt[c] \in Prompts
  BY DEF IInv, HasPrompt
<1>1. ASSUME NEW c \in Calls, PrefixMatch(c) PROVE Goal
  <2>1. /\ prompt[c] \in Prompts /\ cache' = prefix_match(cache, prompt[c])
        /\ answer' = IF Matched(cache, prompt[c]) = {} THEN Miss
                     ELSE [key |-> SubSeq(prompt[c], 1, Longest(cache, prompt[c])),
                           len |-> cache.slice[Walk(cache, prompt[c])[Longest(cache, prompt[c])]]]
    BY <1>0, <1>1 DEF PrefixMatch
  <2>2. Described' /\ Flat!Lookup(prompt[c])
    BY <2>1, LookupStep
  <2> QED
    BY <2>1, <2>2 DEF Flat!Next
<1>2. ASSUME NEW c \in Calls, CommitPrompt(c) PROVE Goal
  <2>1. /\ prompt[c] \in Prompts /\ answer' = Miss
        /\ cache' = commit(cache, prompt[c], Len(prompt[c]))
    BY <1>0, <1>2 DEF CommitPrompt
  <2>2. Described' /\ Flat!Commit(prompt[c], Len(prompt[c]))
    BY <2>1, CommitStep
  <2> QED
    BY <2>1, <2>2 DEF Flat!Next
<1>3. CASE UNCHANGED prefix
  BY <1>3 DEF prefix, Described
<1>4. ASSUME NEW c \in Calls,
             \/ IdemCheck(c) \/ Acquire(c) \/ StoreResult(c) \/ PassEnds(c) \/ HangUp(c)
             \/ \E p \in Prompts, k \in BOOLEAN : Receive(c, p, k)
      PROVE  Goal
  BY <1>3, <1>4 DEF IdemCheck, Acquire, StoreResult, PassEnds, HangUp, Receive
<1>5. CASE OrphanEnds \/ (\E p \in Ids : Expire(p)) \/ UNCHANGED vars
  BY <1>3, <1>5 DEF OrphanEnds, Expire, vars
<1> QED
  BY <1>1, <1>2, <1>4, <1>5 DEF Next, Handler

\* The trie with its arena, counts and LRU list behaves as the list of entries of module
\* FlatCache: a lookup finds the longest key that is a prefix of the prompt, what it finds is
\* then the last to go, and what is evicted is exactly the oldest that does not fit
\* (kv_prefix_cache.rs: prefix_match, commit, evict_lru).
THEOREM FlatCacheImplemented == Spec => ImplementsFlatCache
<1>1. Init => Described /\ Flat!Init
  BY InitFlat
<1>2. IInv /\ CacheWellFormed /\ Described /\ [Next]_vars
        => Described' /\ [Flat!Next]_<<EntriesOf(cache, Prompts), answer>>
  BY FlatStep
<1> QED
  BY <1>1, <1>2, PermitInvariant, CacheAlwaysWellFormed, PTL DEF Spec, ImplementsFlatCache, Flat!Spec
===============================================================================
