--------------------------- MODULE InferServerProps ---------------------------
(***************************************************************************)
(* What the inference server of module InferServer should guarantee.       *)
(***************************************************************************)
EXTENDS InferServer

\* Every variable stays in the set of values its Rust type allows.
TypeOK ==
  /\ pc \in [Calls -> Stages]
  /\ prompt \in [Calls -> Prompts \cup {<<>>}] /\ keyed \in [Calls -> BOOLEAN]
  /\ queue \in Seq(Calls) /\ holder \in Calls \cup {None}
  /\ idem \subseteq Ids /\ stale \subseteq Ids
  /\ orphans \in Nat /\ hangups \in Nat

-------------------------------------------------------------------------------
(* Safety.                                                                 *)

\* The permit is with the one call that is past the semaphore, or with nobody.
PermitExact == \A c \in Calls : pc[c] \in Permitted <=> holder = c

\* A pass is without its call only if a client hung up.
OrphansCounted == orphans <= hangups

\* Only a call with a request id asks for a stored result or stores one.
KeyedHasId == /\ \A c \in Calls : keyed[c] => prompt[c] \in Ids
              /\ \A c \in Calls : pc[c] \in {"idem", "store"} => keyed[c]

\* The permit's queue holds the calls that wait, each once: who hangs up is out.
QueueExact ==
  /\ \A i, j \in DOMAIN queue : queue[i] = queue[j] => i = j
  /\ \A c \in Calls : pc[c] = "wait" <=> \E i \in DOMAIN queue : queue[i] = c

\* A call that is on its way has its prompt: what it looks up and commits is one.
HasPrompt == \A c \in Calls : pc[c] # "idle" => prompt[c] \in Prompts

\* The inductive invariant.
IInv == TypeOK /\ PermitExact /\ QueueExact /\ OrphansCounted /\ KeyedHasId /\ HasPrompt

\* "Single-flight permit. Only one forward pass runs at a time" (server.rs): true
\* as long as no client has hung up; each hang-up may add one.
Passing == {c \in Calls : pc[c] = "infer"}
OnePassEach == /\ \A c, d \in Passing : c = d
               /\ orphans <= hangups

\* Whatever is looked up, committed, replaced and evicted in whatever order: links,
\* counts, free list, LRU list and total of the trie agree, nothing evicted leaves
\* a node behind, and the slices fit the budget.
CacheWellFormed == WellFormed(cache)

\* The trie is a flat cache with an exact LRU order.
Flat == INSTANCE FlatCache WITH Keys <- Prompts, entries <- EntriesOf(cache, Prompts)

ImplementsFlatCache == Flat!Spec

-------------------------------------------------------------------------------
(* Liveness.                                                               *)

\* Every call is answered or given up: the permit always comes back.
Answered == \A c \in Calls : pc[c] = "wait" ~> pc[c] = "idle"

-------------------------------------------------------------------------------
(* What documentation and comments say and the code does not do.           *)

\* "Only one forward pass runs at a time" (server.rs).
OnePassAtATime == Cardinality(Passing) + orphans <= 1

\* "evict LRU leaf nodes first" (kv_prefix_cache.rs): the slice of a node on the way to
\* others is not taken while a leaf keeps the one it had.
WithSlice(c) == {n \in Live(c) : c.slice[n] # NoSlice}
LeavesWithSlice(c) == {n \in WithSlice(c) : Children(c, n) = {}}

Emptied == (WithSlice(cache) \cap Live(cache')) \ WithSlice(cache')
LeavesFirst == [][Emptied # {} => LeavesWithSlice(cache) \cap LeavesWithSlice(cache') = {}]_vars
===============================================================================
