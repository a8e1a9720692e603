---------------------------- MODULE NautiInference ----------------------------
(***************************************************************************)
(* The inference path of the NautiInferer coordinator: the handler of      *)
(* POST /v1/inference reserves tokens in the credit ledger, stores a job   *)
(* record, spawns a runner task and then either collects the job's         *)
(* broadcast channel into one JSON reply or hands it out as server-sent    *)
(* events.  The runner streams deltas from a llama server into the         *)
(* channel, releases what was not used and removes the record.  Clients    *)
(* may cancel a job, or hang up; the coordinator may die.                  *)
(*                                                                         *)
(* Handlers and runners are tasks on several threads: every lock, SQL      *)
(* statement, atomic access and channel operation is a step of its own.    *)
(* One API key: the rows of api_quotas do not affect one another.          *)
(***************************************************************************)
EXTENDS Integers, FiniteSets

CONSTANTS Requests,   \* requests ever received
          Amounts,    \* values of max_tokens
          Half,       \* half of what an unsigned word counts: 2^63
          Balances,   \* values an administrator sets the balance to, unsigned words
          Costs,      \* what one delta is estimated to cost, max(1, chars/4)
          MaxDeltas,  \* bound: deltas one llama call yields (at most 2048 tokens)
          Capacity,   \* of a job's broadcast channel
          MaxFaults,  \* bound: crashes and failed releases
          MaxSets     \* bound: calls of set_balance after the first

ASSUME NautiAssumption == /\ Amounts \subseteq Nat
                          /\ Half \in Nat \ {0}
                          /\ Balances \subseteq 0..(2 * Half - 1)
                          /\ Costs \subseteq Nat \ {0}
                          /\ MaxDeltas \in Nat
                          /\ Capacity \in Nat \ {0}
                          /\ MaxFaults \in Nat
                          /\ MaxSets \in Nat

\* What is said of every state is said of one that finitely many requests led to.
ASSUME FiniteRequests == IsFiniteSet(Requests)

VARIABLES
  balance,    \* remaining_tokens of the key
  want,       \* reserve_tokens of the request
  stream,     \* whether it asked for server-sent events
  pc,         \* where its handler is
  reserved,   \* reserved_tokens of its job, 0 before it reserved any
  run,        \* where its runner is
  used,       \* used_estimate of the runner
  sent,       \* messages its runner sent to the channel
  next,       \* the next message its receiver reads
  cancelled,  \* the job's cancelled flag
  done,       \* the job's done flag
  cancelling, \* requests whose cancel call has set the flag, not yet removed the record
  jobs,       \* the JobStore: requests whose record it holds
  faults,     \* faults so far
  sets        \* administrator's calls so far

vars == <<balance, want, stream, pc, reserved, run, used, sent, next, cancelled, done,
          cancelling, jobs, faults, sets>>

flags == <<cancelled, cancelling>>  \* what cancel_inference writes, but for jobs
counts == <<faults, sets>>
request == <<want, stream>>

\* "idle" not received; "quota" before check_quota, "reserve" before
\* reserve_tokens, "insert", "spawn" and "subscribe" before what they name; "recv"
\* and "done?" the loop that collects a JSON reply; "events" server-sent events.
Over == {"answered", "refused", "gone", "lost"}
Stages == {"idle", "quota", "reserve", "insert", "spawn", "subscribe", "recv", "done?", "events"}
            \cup Over

\* "call" the request to llama-server is out; "read" its stream is being read;
\* "error" before the error message, "done" before the done flag, "release"
\* before release_tokens, "remove" before the record is removed.
RunStages == {"none", "call", "read", "error", "done", "release", "remove", "ended", "lost"}

\* balance_tokens as i64: what is stored of an unsigned word.
AsI64(word) == IF word < Half THEN word ELSE word - 2 * Half

Init ==
  /\ balance \in {AsI64(b) : b \in Balances}
  /\ want = [r \in Requests |-> 0]
  /\ stream = [r \in Requests |-> FALSE]
  /\ pc = [r \in Requests |-> "idle"]
  /\ reserved = [r \in Requests |-> 0]
  /\ run = [r \in Requests |-> "none"]
  /\ used = [r \in Requests |-> 0]
  /\ sent = [r \in Requests |-> 0]
  /\ next = [r \in Requests |-> 0]
  /\ cancelled = [r \in Requests |-> FALSE]
  /\ done = [r \in Requests |-> FALSE]
  /\ cancelling = {}
  /\ jobs = {}
  /\ faults = 0
  /\ sets = 0

Handler(r, stage) == pc' = [pc EXCEPT ![r] = stage]
Runner(r, stage) == run' = [run EXCEPT ![r] = stage]

-------------------------------------------------------------------------------
(* The handler.                                                            *)

\* Up to the quota: no eligible node, no key and max_tokens = 0 are refused.
Receive(r, n, s) ==
  /\ pc[r] = "idle"
  /\ want' = [want EXCEPT ![r] = n]
  /\ stream' = [stream EXCEPT ![r] = s]
  /\ \/ n > 0 /\ Handler(r, "quota")
     \/ Handler(r, "refused")
  /\ UNCHANGED <<balance, reserved, run, used, sent, next, flags, done, jobs, counts>>

CheckQuota(r) == /\ pc[r] = "quota"
                 /\ Handler(r, IF balance < want[r] THEN "refused" ELSE "reserve")
                 /\ UNCHANGED <<balance, request, reserved, run, used, sent, next, flags, done,
                                jobs, counts>>

\* Wrong on purpose: the balance was checked before, so it is not checked again.
Reserve_NoGuard(r) ==
  /\ pc[r] = "reserve"
  /\ balance' = balance - want[r]
  /\ reserved' = [reserved EXCEPT ![r] = want[r]]
  /\ Handler(r, "insert")
  /\ UNCHANGED <<request, run, used, sent, next, flags, done, jobs, counts>>

\* UPDATE ... WHERE remaining_tokens >= ?3.
Reserve(r) ==
  /\ pc[r] = "reserve"
  /\ IF balance >= want[r]
       THEN /\ balance' = balance - want[r]
            /\ reserved' = [reserved EXCEPT ![r] = want[r]]
            /\ Handler(r, "insert")
       ELSE Handler(r, "refused") /\ UNCHANGED <<balance, reserved>>
  /\ UNCHANGED <<request, run, used, sent, next, flags, done, jobs, counts>>

Insert(r) == /\ pc[r] = "insert"
             /\ jobs' = jobs \cup {r}
             /\ Handler(r, "spawn")
             /\ UNCHANGED <<balance, request, reserved, run, used, sent, next, flags, done, counts>>

Spawn(r) == /\ pc[r] = "spawn"
            /\ Runner(r, "call")
            /\ Handler(r, "subscribe")
            /\ UNCHANGED <<balance, request, reserved, used, sent, next, flags, done, jobs, counts>>

\* Wrong on purpose: the record is stored only when somebody listens.
Subscribe_Stores(r) == /\ pc[r] = "subscribe"
                       /\ next' = [next EXCEPT ![r] = sent[r]]
                       /\ jobs' = jobs \cup {r}
                       /\ Handler(r, IF stream[r] THEN "events" ELSE "recv")
                       /\ UNCHANGED <<balance, request, reserved, run, used, sent, flags, done, counts>>

\* What the runner sent before this is not received.
Subscribe(r) == /\ pc[r] = "subscribe"
                /\ next' = [next EXCEPT ![r] = sent[r]]
                /\ Handler(r, IF stream[r] THEN "events" ELSE "recv")
                /\ UNCHANGED <<balance, request, reserved, run, used, sent, flags, done, jobs, counts>>

Lagging(r) == sent[r] - next[r] > Capacity

\* rx.recv(): a message, or an error if messages were overwritten, which ends
\* the loop.  The channel is never closed, for the handler itself holds a sender.
Recv(r) == /\ pc[r] = "recv" /\ next[r] < sent[r]
           /\ IF Lagging(r)
                THEN Handler(r, "answered") /\ UNCHANGED next
                ELSE Handler(r, "done?") /\ next' = [next EXCEPT ![r] = @ + 1]
           /\ UNCHANGED <<balance, request, reserved, run, used, sent, flags, done, jobs, counts>>

CheckDone(r) == /\ pc[r] = "done?"
                /\ Handler(r, IF done[r] THEN "answered" ELSE "recv")
                /\ UNCHANGED <<balance, request, reserved, run, used, sent, next, flags, done,
                               jobs, counts>>

\* The last sender of a stream is the job record: held by the store, the runner
\* and a cancel call under way.
Closed(r) == run[r] = "ended" /\ r \notin jobs \cup cancelling

\* An event, after skipping what was overwritten; at the end, the end.
Event(r) ==
  /\ pc[r] = "events"
  /\ IF next[r] < sent[r]
       THEN next' = [next EXCEPT ![r] = IF Lagging(r) THEN sent[r] - Capacity ELSE @ + 1]
            /\ UNCHANGED pc
       ELSE Closed(r) /\ Handler(r, "answered") /\ UNCHANGED next
  /\ UNCHANGED <<balance, request, reserved, run, used, sent, flags, done, jobs, counts>>

\* The client hangs up: the handler is dropped where it waits.
HangUp(r) == /\ pc[r] \in {"recv", "events"}
             /\ Handler(r, "gone")
             /\ UNCHANGED <<balance, request, reserved, run, used, sent, next, flags, done, jobs,
                            counts>>

-------------------------------------------------------------------------------
(* The runner: spawn_job and stream_chat.                                  *)

Called(r) == /\ run[r] = "call"
             /\ \E stage \in {"read", "error"} : Runner(r, stage)
             /\ UNCHANGED <<balance, request, pc, reserved, used, sent, next, flags, done, jobs,
                            counts>>

\* A delta arrives.  The cancelled flag is looked at once per network chunk, so
\* after it was set there may be more deltas of the same chunk.
Delta(r) ==
  /\ run[r] = "read" /\ sent[r] < MaxDeltas
  /\ \/ cancelled[r] /\ Runner(r, "done") /\ UNCHANGED <<used, sent>>
     \/ /\ \E cost \in Costs : used' = [used EXCEPT ![r] = @ + cost]
        /\ sent' = [sent EXCEPT ![r] = @ + 1]
        /\ UNCHANGED run
  /\ UNCHANGED <<balance, request, pc, reserved, next, flags, done, jobs, counts>>

\* The stream ends, or fails (a broken connection, the timeout of 600 s), which
\* a cancelled job does not report.
StreamEnds(r) == /\ run[r] = "read"
                 /\ \/ Runner(r, "done")
                    \/ ~cancelled[r] /\ Runner(r, "error")
                 /\ UNCHANGED <<balance, request, pc, reserved, used, sent, next, flags, done, jobs,
                                counts>>

\* Wrong on purpose: a failed job ends in a state of its own, which nothing leaves.
SendError_Failed(r) == /\ run[r] = "error"
                       /\ sent' = [sent EXCEPT ![r] = @ + 1]
                       /\ Runner(r, "failed")
                       /\ UNCHANGED <<balance, request, pc, reserved, used, next, flags, done, jobs,
                                      counts>>

SendError(r) == /\ run[r] = "error"
                /\ sent' = [sent EXCEPT ![r] = @ + 1]
                /\ Runner(r, "done")
                /\ UNCHANGED <<balance, request, pc, reserved, used, next, flags, done, jobs, counts>>

SetDone(r) == /\ run[r] = "done"
              /\ done' = [done EXCEPT ![r] = TRUE]
              /\ Runner(r, "release")
              /\ UNCHANGED <<balance, request, pc, reserved, used, sent, next, flags, jobs, counts>>

Unused(r) == IF reserved[r] > used[r] THEN reserved[r] - used[r] ELSE 0

\* Wrong on purpose: what was used is given back.
Release_Used(r) == /\ run[r] = "release"
                   /\ balance' = balance + used[r]
                   /\ Runner(r, "remove")
                   /\ UNCHANGED <<request, pc, reserved, used, sent, next, flags, done, jobs, counts>>

\* Its errors are ignored: then nothing is given back.
Release(r) == /\ run[r] = "release"
              /\ \/ balance' = balance + Unused(r) /\ UNCHANGED faults
                 \/ faults < MaxFaults /\ faults' = faults + 1 /\ UNCHANGED balance
              /\ Runner(r, "remove")
              /\ UNCHANGED <<request, pc, reserved, used, sent, next, flags, done, jobs, sets>>

\* Wrong on purpose: the record of a job nobody cancelled stays.
RemoveJob_Keep(r) == /\ run[r] = "remove"
                     /\ Runner(r, "ended")
                     /\ UNCHANGED <<balance, request, pc, reserved, used, sent, next, flags, done, jobs,
                                    counts>>

RemoveJob(r) == /\ run[r] = "remove"
                /\ jobs' = jobs \ {r}
                /\ Runner(r, "ended")
                /\ UNCHANGED <<balance, request, pc, reserved, used, sent, next, flags, done, counts>>

-------------------------------------------------------------------------------
(* Cancellation, the administrator, and the end of the process.            *)

\* Clients learn a job's id from its first event, or from its JSON reply.  (What was
\* sent before the subscription counts as an event here: a few more cancel calls.)
KnowsId(r) == \/ stream[r] /\ pc[r] \in {"events", "gone", "answered"} /\ next[r] > 0
              \/ ~stream[r] /\ pc[r] = "answered"

\* JobStore::cancel: the flag is set through the record, which is then removed.
Cancel(r) == /\ KnowsId(r) /\ r \in jobs /\ r \notin cancelling
             /\ cancelled' = [cancelled EXCEPT ![r] = TRUE]
             /\ cancelling' = cancelling \cup {r}
             /\ UNCHANGED <<balance, request, pc, reserved, run, used, sent, next, done, jobs, counts>>

\* Wrong on purpose: cancelling gives the reservation back at once.
CancelRemove_Refund(r) ==
  /\ r \in cancelling
  /\ jobs' = jobs \ {r}
  /\ cancelling' = cancelling \ {r}
  /\ balance' = balance + reserved[r]
  /\ UNCHANGED <<request, pc, reserved, run, used, sent, next, cancelled, done, counts>>

\* Wrong on purpose: cancelling aborts the runner's task.
CancelRemove_Abort(r) ==
  /\ r \in cancelling
  /\ jobs' = jobs \ {r}
  /\ cancelling' = cancelling \ {r}
  /\ Runner(r, "none")
  /\ UNCHANGED <<balance, request, pc, reserved, used, sent, next, cancelled, done, counts>>

CancelRemove(r) ==
  /\ r \in cancelling
  /\ jobs' = jobs \ {r}
  /\ cancelling' = cancelling \ {r}
  /\ UNCHANGED <<balance, request, pc, reserved, run, used, sent, next, cancelled, done, counts>>

\* POST /internal/quotas/set overwrites the balance, with a negative one if the word
\* is large.
SetBalance(b) == /\ sets < MaxSets /\ sets' = sets + 1
                 /\ balance' = AsI64(b)
                 /\ UNCHANGED <<request, pc, reserved, run, used, sent, next, flags, done, jobs,
                                faults>>

\* The coordinator dies and is started again: only the ledger is on disk.
Crash == /\ faults < MaxFaults /\ faults' = faults + 1
         /\ pc' = [r \in Requests |-> IF pc[r] \in {"idle"} \cup Over THEN pc[r] ELSE "lost"]
         /\ run' = [r \in Requests |-> IF reserved[r] = 0 \/ run[r] = "ended" THEN run[r] ELSE "lost"]
         /\ jobs' = {} /\ cancelling' = {}
         /\ UNCHANGED <<balance, request, reserved, used, sent, next, cancelled, done, sets>>

-------------------------------------------------------------------------------
HandlerStep(r) == \/ CheckQuota(r) \/ Reserve(r) \/ Insert(r) \/ Spawn(r) \/ Subscribe(r)
                  \/ Recv(r) \/ CheckDone(r) \/ Event(r)

RunnerStep(r) == SendError(r) \/ SetDone(r) \/ Release(r) \/ RemoveJob(r)

\* What the llama server does; the request's timeout sees to it that it ends.
Upstream(r) == Called(r) \/ Delta(r) \/ StreamEnds(r)

Client(r) == \/ \E n \in Amounts, s \in BOOLEAN : Receive(r, n, s)
             \/ HangUp(r) \/ Cancel(r) \/ CancelRemove(r)

Next == \/ \E r \in Requests : HandlerStep(r) \/ RunnerStep(r) \/ Upstream(r) \/ Client(r)
        \/ \E b \in Balances : SetBalance(b)
        \/ Crash

Spec == Init /\ [][Next]_vars

\* The runtime schedules every task that can go on, a started cancel call goes on,
\* and a llama call ends within its timeout.
FairSpec == /\ Spec
            /\ \A r \in Requests : /\ WF_vars(HandlerStep(r))
                                   /\ WF_vars(RunnerStep(r))
                                   /\ WF_vars(CancelRemove(r))
                                   /\ WF_vars(Called(r))
                                   /\ WF_vars(StreamEnds(r))
===============================================================================
