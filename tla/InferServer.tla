----------------------------- MODULE InferServer -----------------------------
(***************************************************************************)
(* POST /api/v1/generate of the inference engine                           *)
(* (src/cesarops-inference/src/server.rs): the idempotency cache, the      *)
(* permit, the prefix cache and the forward pass on a blocking thread.     *)
(*                                                                         *)
(* A call whose client hangs up is dropped at the await it is suspended    *)
(* at, and gives back the permit if it has it; a closure handed to         *)
(* spawn_blocking runs to its end nonetheless.                             *)
(*                                                                         *)
(* A prompt stands for its tokens' hashes, and a request id for its        *)
(* prompt: whoever retries under an id repeats the prompt.                 *)
(***************************************************************************)
EXTENDS KvPrefixCache

CONSTANTS
  Calls,      \* requests that the server has to do with at a time
  Prompts,    \* prompts, as sequences of token hashes
  Ids,        \* prompts that are sent with a request_id
  None,       \* nobody
  Cap,        \* entries of the idempotency cache above which it is cleared (1024)
  MaxHangUps  \* bound: clients that hang up

ASSUME InferAssumption ==
  /\ None \notin Calls
  /\ Prompts \subseteq Seq(Tokens) /\ Ids \subseteq Prompts
  /\ Cap \in Nat /\ MaxHangUps \in Nat

\* Where a call is: in idem_cache, in the semaphore's queue, before the forward
\* pass, waiting for it, after it, before its result is stored.
Stages == {"idle", "idem", "wait", "match", "infer", "passed", "store"}
Permitted == {"match", "infer", "passed", "store"}

VARIABLES
  pc, prompt, keyed,  \* a call's stage, its prompt, whether it has a request id
  queue, holder,      \* infer_lock: who waits, in order, and who has the permit
  cache, answer,      \* prefix_cache, and what was found there last
  idem, stale,        \* idem_cache: ids with a result that is fresh, and too old
  orphans,            \* forward passes whose call is gone
  hangups

call == <<pc, prompt, keyed>>
lock == <<queue, holder>>
prefix == <<cache, answer>>
stored == <<idem, stale>>
vars == <<call, lock, prefix, stored, orphans, hangups>>

Miss == [key |-> <<>>, len |-> 0]

Init ==
  /\ pc = [c \in Calls |-> "idle"]
  /\ prompt = [c \in Calls |-> <<>>] /\ keyed = [c \in Calls |-> FALSE]
  /\ queue = <<>> /\ holder = None
  /\ cache = Empty /\ answer = Miss
  /\ idem = {} /\ stale = {} /\ orphans = 0 /\ hangups = 0

Go(c, stage) == pc' = [pc EXCEPT ![c] = stage]

\* The call is over.
Reply(c) == /\ Go(c, "idle")
            /\ prompt' = [prompt EXCEPT ![c] = <<>>]
            /\ keyed' = [keyed EXCEPT ![c] = FALSE]

Receive(c, p, k) ==
  /\ pc[c] = "idle"
  /\ k => p \in Ids
  /\ prompt' = [prompt EXCEPT ![c] = p] /\ keyed' = [keyed EXCEPT ![c] = k]
  /\ Go(c, IF k THEN "idem" ELSE "wait")
  /\ queue' = IF k THEN queue ELSE Append(queue, c)
  /\ UNCHANGED <<holder, prefix, stored, orphans, hangups>>

\* "Idempotent retry guard": a result that is still fresh is the reply;
\* the others are dropped on the way (get_fresh).
IdemCheck(c) ==
  /\ pc[c] = "idem"
  /\ \/ prompt[c] \in idem /\ Reply(c) /\ UNCHANGED queue
     \/ prompt[c] \notin idem /\ Go(c, "wait") /\ queue' = Append(queue, c)
        /\ UNCHANGED <<prompt, keyed>>
  /\ stale' = {}
  /\ UNCHANGED <<holder, prefix, idem, orphans, hangups>>

\* Wrong on purpose: the permit goes to any call that waits for it.
Acquire_Unfair(c) ==
  /\ pc[c] = "wait" /\ holder = None
  /\ queue' = Remove(queue, c) /\ holder' = c
  /\ Go(c, "match")
  /\ UNCHANGED <<prompt, keyed, prefix, stored, orphans, hangups>>

\* Wrong on purpose: the permit is given though it is not there.
Acquire_Any(c) ==
  /\ pc[c] = "wait"
  /\ Head(queue) = c
  /\ queue' = Tail(queue) /\ holder' = c
  /\ Go(c, "match")
  /\ UNCHANGED <<prompt, keyed, prefix, stored, orphans, hangups>>

\* The permit is given in the order of asking.
Acquire(c) ==
  /\ pc[c] = "wait" /\ holder = None
  /\ Head(queue) = c
  /\ queue' = Tail(queue) /\ holder' = c
  /\ Go(c, "match")
  /\ UNCHANGED <<prompt, keyed, prefix, stored, orphans, hangups>>

\* The lookup in the prefix cache; then the forward pass starts on its own thread.
PrefixMatch(c) ==
  /\ pc[c] = "match"
  /\ LET key == prompt[c]
         i == Longest(cache, key)
     IN  answer' = IF Matched(cache, key) = {} THEN Miss
                   ELSE [key |-> SubSeq(key, 1, i), len |-> cache.slice[Walk(cache, key)[i]]]
  /\ cache' = prefix_match(cache, prompt[c])
  /\ Go(c, "infer")
  /\ UNCHANGED <<prompt, keyed, lock, stored, orphans, hangups>>

\* The pass ends; a panic becomes the text of the reply.
PassEnds(c) ==
  /\ pc[c] = "infer"
  /\ Go(c, "passed")
  /\ UNCHANGED <<prompt, keyed, lock, prefix, stored, orphans, hangups>>

OrphanEnds ==
  /\ orphans > 0 /\ orphans' = orphans - 1
  /\ UNCHANGED <<call, lock, prefix, stored, hangups>>

\* Wrong on purpose: a result without a request id is stored too.
CommitPrompt_Store(c) ==
  /\ pc[c] = "passed"
  /\ cache' = commit(cache, prompt[c], Len(prompt[c])) /\ answer' = Miss
  /\ Go(c, "store")
  /\ UNCHANGED <<prompt, keyed, lock, stored, orphans, hangups>>

\* The prompt is committed with a slice that covers it; without a request id the
\* call ends here and drops the permit.
CommitPrompt(c) ==
  /\ pc[c] = "passed"
  /\ cache' = commit(cache, prompt[c], Len(prompt[c])) /\ answer' = Miss
  /\ \/ keyed[c] /\ Go(c, "store") /\ UNCHANGED <<prompt, keyed, holder>>
     \/ ~keyed[c] /\ Reply(c) /\ holder' = None
  /\ UNCHANGED <<queue, stored, orphans, hangups>>

\* IdemCache::insert, which clears a cache that has grown past its cap, what is too
\* old in it included.
StoreResult(c) ==
  /\ pc[c] = "store"
  /\ LET full == Cardinality(idem \cup stale) > Cap
     IN  /\ idem' = (IF full THEN {} ELSE idem) \cup {prompt[c]}
         /\ stale' = IF full THEN {} ELSE stale \ {prompt[c]}
  /\ Reply(c)
  /\ holder' = None
  /\ UNCHANGED <<queue, prefix, orphans, hangups>>

\* A result is ten minutes old; it stays until somebody asks or the cache is cleared.
Expire(p) ==
  /\ p \in idem /\ idem' = idem \ {p} /\ stale' = stale \cup {p}
  /\ UNCHANGED <<call, lock, prefix, orphans, hangups>>

\* Wrong on purpose: a call that is gone keeps its place in the queue.
HangUp_StaysQueued(c) ==
  /\ pc[c] # "idle"
  /\ hangups < MaxHangUps /\ hangups' = hangups + 1
  /\ Reply(c)
  /\ holder' = IF holder = c THEN None ELSE holder
  /\ orphans' = IF pc[c] = "infer" THEN orphans + 1 ELSE orphans
  /\ UNCHANGED <<queue, prefix, stored>>

\* The future is dropped: it leaves the queue or gives back the permit.
HangUp(c) ==
  /\ pc[c] # "idle"
  /\ hangups < MaxHangUps /\ hangups' = hangups + 1
  /\ Reply(c)
  /\ IF pc[c] = "wait" THEN \E i \in DOMAIN queue : queue[i] = c /\ queue' = RemoveAt(queue, i)
                       ELSE queue' = queue
  /\ holder' = IF holder = c THEN None ELSE holder
  /\ orphans' = IF pc[c] = "infer" THEN orphans + 1 ELSE orphans
  /\ UNCHANGED <<prefix, stored>>

-------------------------------------------------------------------------------
Handler(c) == \/ IdemCheck(c) \/ Acquire(c) \/ PrefixMatch(c)
              \/ CommitPrompt(c) \/ StoreResult(c)

Next == \/ \E c \in Calls : \/ Handler(c) \/ PassEnds(c) \/ HangUp(c)
                            \/ \E p \in Prompts, k \in BOOLEAN : Receive(c, p, k)
        \/ OrphanEnds
        \/ \E p \in Ids : Expire(p)

Spec == Init /\ [][Next]_vars

\* The runtime schedules handlers that can go on, and a forward pass ends: it makes
\* at most max_length tokens.  Of the two steps on the prefix cache this is said
\* without ENABLED, which TLC would compute by running them: they wait for nothing.
FairSpec ==
  /\ Spec
  /\ \A c \in Calls :
       /\ WF_vars(IdemCheck(c)) /\ WF_vars(Acquire(c)) /\ WF_vars(StoreResult(c))
       /\ WF_vars(PassEnds(c))
       /\ []<>(pc[c] \notin {"match", "passed"})
===============================================================================
