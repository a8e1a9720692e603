# Verification of the CESAROPS / SonarSniffer services

TLA+ models of the concurrent parts of this repository, TLC configurations that
check them on small instances, and TLAPS proofs of the properties that matter
most.  Paths are relative to the repository root (`src/...`).

Six parts are modelled: the scan queue with its workers, the inference path of
NautiInferer with its credit ledger, the node registry of NautiInferer, the
inference server with its prefix cache, the send path of Forge v2, and its tool
loop with the operator's specification gate.  Each was chosen because several
processes or tasks change the same state there, or because a long sequence of
legal calls must not reach an illegal state, and a test drives only one of them.

| Part | Model | Promise (abstract) | Properties | Proofs |
|---|---|---|---|---|
| Scan queue and workers | `ScanQueue` | `JobBoard` | `ScanQueueProps` | `ScanQueueProofs` |
| NautiInferer inference and ledger | `NautiInference` | `TokenLedger` | `NautiInferenceProps` | `NautiInferenceProofs` |
| NautiInferer node registry and workers | `NautiRegistry` | | `NautiRegistryProps` | `NautiRegistryProofs` |
| Inference server and prefix cache | `InferServer`, `KvPrefixCache` | `FlatCache` | `InferServerProps` | `KvPrefixCacheProofs`, `InferServerProofs` |
| Forge v2 send path | `ForgeSend` | | `ForgeSendProps` | `ForgeSendProofs` |
| Forge v2 tool loop, specification gate, steering | `ForgeLoop`, `SpecGate` | | `ForgeLoopProps` | `ForgeLoopProofs` |

`InferServer` composes `KvPrefixCache` (functions from a cache to a cache) with the calls
that use it; `ForgeLoop` composes `SpecGate` (the calls of `/send` up to the exchange of
`send_busy`) with the loop that the accepted one runs.

`MC*` modules instantiate a model for TLC (symmetry sets, prompts, scenes); every
`.cfg` is one run.  Definitions whose comment begins with "Wrong on purpose" are
variants of the code with a plausible bug.  No specification uses them: put in the
place of the definition they follow, they show that a property would notice the bug.
`DataLemmas` holds what the proofs use about sequences, folds and sums, of no model.

To check: `tlc -config scan_safety.cfg MCScanQueue` (the runs and their modules are
listed in `PROJECT.json`); `tlapm ScanQueueProofs.tla`.

# 1. Inventory

## 1.1 Scan queue and workers (modelled)

*Code.* `src/scan_queue.py` (one SQLite table, `scan_jobs`), `src/scan_worker.py` (the
daemon on each home machine), and the queue's HTTP interface in
`src/wrecks_api/app.py:2410-2863`.

*State.* The table; per daemon `_STOP`, `_CURRENT_JOB`, the result directories on its
disk, `worker_state.json` and `band_scores.json`; in the API server the lock
`_queue_claim_lock`.

*Operations.* Users push, cancel and purge jobs and write the pause flag.  A daemon
claims the most urgent job in one transaction (`pop_next`), runs its sensors as
subprocesses and asks after each line of output whether something more urgent is
queued (`has_urgent`), in which case it gives the job back (`re_queue`).  Afterwards
it marks the job done or failed, uploads the result, records the upload and frees
its disk.  With nothing queued it pushes an idle job for the next tile of a coverage
grid.  Remote workers claim over HTTP with a SELECT and a later conditional UPDATE,
and finish over HTTP.

*Interaction.* Only through the table: separate processes, SQLite transactions.

*Hard behaviour.* Two ways to claim, of which one is not a transaction; four writers
that update a row by its id and do not look at its status; result directories named after
the second and the tile, which two jobs may share; SIGTERM, crash, restart
and "database is locked" between any two steps; an interrupt check that waits behind
a blocking read.

*Correct when* a job is never run twice at a time, only its runner settles it,
results are not lost before they were uploaded, final states are final, every claim
ends and a user's job preempts what runs.

## 1.2 NautiInferer inference and credit ledger (modelled)

*Code.* `src/nauti-inferer/src/api/handlers.rs:145-260`, `job_runner.rs`, `jobs.rs`,
`scheduler/quotas.rs`, `adapter/llama.rs`.

*State.* A SQLite table of balances (the only state on disk), a concurrent map of job
records with their `cancelled` and `done` flags, a bounded broadcast channel per job.

*Operations.* A request checks and then reserves tokens, stores a record, spawns a
runner, subscribes to the job's channel and collects it into one JSON reply or hands
it out as events.  The runner streams deltas, sets `done`, releases what was not used
and removes the record.  Clients cancel or hang up; an administrator overwrites
balances; the process dies.

*Hard behaviour.* Check-then-act on the balance; the end of a channel that depends on
who still holds a sender; a subscription made after the runner was spawned; cancel
racing the end of the job; a failed release whose error is dropped.

*Correct when* no request overdraws the balance, tokens are neither made nor lost while
nothing fails, each reservation is closed once, the store forgets ended jobs, and every
reply and stream ends.

## 1.3 NautiInferer node registry (modelled)

*Code.* `src/nauti-inferer/src/node/registry.rs`, `node/heartbeat.rs`, `fleet.rs`,
`coordinator.rs`, `worker.rs`, the worker endpoints of `api/handlers.rs`.

*State.* A concurrent map of nodes (metadata with an `online` flag, time of the last
heartbeat), in memory only.

*Operations.* Workers register once and beat every 10 s; the coordinator syncs with
Forge's list on its own and when asked, probing every node of the list (an await of
up to 3 s), registering or overwriting it and beating for it; a sweeper removes what was
silent for 30 s; requests pick a node that is online.

*Interaction.* HTTP from workers; shared objects of the map, which a task may hold after
the map has dropped or replaced them.

*Hard behaviour.* Every writer looks a node up, and writes later; the answer of a probe
is written over whatever came meanwhile; two lookups of a node with a sweep between
them; a restart of the coordinator that nobody tells the workers about; a worker whose
beats are sent one after the other, so that one that fails may outlast the sweeper's threshold.

*Correct when* no worker is swept whose heartbeats reach it within the threshold, one that
beats can be picked, and one that died is removed.

## 1.4 Inference server and prefix cache (modelled)

*Code.* `src/cesarops-inference/src/server.rs` (`POST /api/v1/generate`),
`src/cesarops-inference/src/kv_prefix_cache.rs`.

*State.* A semaphore of one permit; the idempotency cache (results by request id, for ten
minutes); the prefix cache: a trie in an arena with a free list, reference counts, a list
in order of use and a token total.

*Operations.* A call asks the idempotency cache, waits for the permit, looks its prompt
up in the prefix cache, runs the forward pass on a blocking thread, commits the prompt,
stores its result.  `prefix_match` promotes what it finds; `commit` makes the path, sets
or replaces the slice, and evicts from the front of the list until the total fits, giving
back every node that holds nothing any more.

*Hard behaviour.* A client that hangs up drops the handler and its permit, but not the
pass; slots of the arena are reused; eviction may hit what was just committed, or an
inner node; the trie, the counts, both lists and the total have to agree.

*Correct when* one pass runs at a time, every call gets its turn, and the trie behaves
like a flat list of entries with an exact LRU order.

## 1.5 Forge v2 send path (modelled)

*Code.* `src/cesarops-forge-v2/src/main.rs:129-145, 402-574, 727-985, 1533-1549, 3007-3041,
3521-3530` and where `loop_engine.rs::run` takes the configuration.

*State.* The flags `send_busy` and `interrupt`, the inference configuration behind a tokio
`RwLock`, and the routing files from which it is reloaded.

*Operations.* `POST /send` takes down the Stop flag, takes `send_busy` with one exchange,
reloads the routing files, points the configuration at the lane's coder, spawns a
background run to which it gives the guard of the flag, and restores the configuration.
The run points the configuration at its lane again, holds it for reading through all
its rounds and restores it.  `/interrupt`, `/clear`, the page's polling of
`/validate/ping` and changes of the routing files come in between.

*Hard behaviour.* A guard that changes hands and must be dropped exactly once, a handler
that is dropped at any await when its client hangs up, a fair lock that is read while
it is held for reading, panics in the background task, two tasks restoring the same
field.

*Correct when* one loop runs at a time while nobody clears, no lane's endpoint stays in the
configuration, and what a run waits for inside the server comes.

## 1.6 Forge v2 tool loop, specification gate and steering (modelled)

*Code.* `src/cesarops-forge-v2/src/loop_engine.rs:288-1545` (`run`), the ladders of
`corrector_preset.rs` and `loop_tuning.rs`, `operator_spec.rs`, the `/spec/*` handlers and
the first lines of `/send` in `main.rs`.

*State.* The draft that waits and its approval; the list of steering notes; of a run:
round, failures, rounds since the last tool, the failure count at the last automatic
search, the end of the list of tool calls, the last escalation.

*Operations.* Draft, approve, disapprove, clear, steer; a call is refused while a draft
waits, pushes an approved one into steering and then takes `send_busy`.  A round drains
steering, asks the model (sometimes two, with a grader), and executes, repairs, blocks or
wastes what it wrote; or ends the run.

*Hard behaviour.* The gate is read twice and the push comes before the busy check; four
ladders with counters of their own decide about a repeated call; counters are reset in
some paths and not in others; every path must use its round up.

*Correct when* no run reads a specification that nobody approved, repetitions are
throttled, a failing loop has searched, and every step uses a run up.

## 1.7 The rest

| Component | State and operations | Hard behaviour | Correct when | Here |
|---|---|---|---|---|
| Forge missions and cluster pages (`main.rs:4068-4137`) | list of at most 50 records; submit, complete | records are cut from the front while their mission runs | a report finds its record | not modelled: one push and one update, each under the lock of the list |
| Detection pipeline (`cesarops-detection`) | job map, endpoint pools; submit, per-tile scout, jitter, validator | a panic leaves the job running; failover only on a transport error | every job completes, no confirmation without all three locks | not modelled: one task per job, sequential |
| Watchdogs (`watchdog.py`, `scripts/*watchdog*`) | counters and state files; probe, restart | two of them restart the same unit | no restart loop | not modelled: what they decide on is the state of the machines |
| NautiInferer scheduler | none; scores nodes | `schedule_job` has no caller | | not modelled: floats, dead code |
| Forge routing, prompts, tuning, lanes | files read on each request | none shared but the configuration | | not modelled: data; the configuration's lock is in `ForgeSend` |
| sovereign-cloud | VRAM figure, idle scout | `can_accept`, `reserve`, `release` have no caller | | not modelled |
| Web search (`cesarops-wso`) | cache; search, allocate a budget in floats | none shared | | not modelled: data |
| Inference engine, sonar and geospatial processing | buffers, kernels, file formats | numerical | | not modelled: out of TLC's reach |
| MCP servers, agents, pages, downloaders, deployment | adapters | none of their own | | not modelled |
| `recovery/`, `integrate*/`, `live_reference/`, `dist/`, `var/`, `reports/` | copies and output | | | not modelled |

`cesarops-watchdog/src/main.rs` does not compile and has no behaviour to model.

The hazards of all of them, each at its line and with the properties that would
notice, are in `PROJECT.json` under `hazards`.

# 2. The models

One step of a model is one SQL statement or transaction, one acquisition of a lock,
one atomic access, one channel operation, or one await: whatever another process or
task can come in between.  Code between two such points runs inside the step before
or after it.

## 2.1 `ScanQueue`

Job `j` is the `j`-th row inserted, so the order of `created_at` is numeric order.

| In the model | In the code |
|---|---|
| `rows`, `created` | table `scan_jobs` (`scan_queue.py:50-74`) |
| `pc`, `job`, `todo`, `stop`, `pick` | a daemon's place in `run_daemon` / `_run_once` / `_execute_job` / `_run_sensor`, `_CURRENT_JOB`, sensors left, `_STOP`, the tile it is about to push |
| `made`, `disk`, `SameDir` | the second in a directory's name, the results on disk, jobs that share a directory (`scan_worker.py:312-314`) |
| `hits`, `paused` | `band_scores.json` (tiles with a hit), `worker_state.json` |
| `claimLock` | `_queue_claim_lock` |
| `Pop`, `Selected`, `has_urgent`, `NextIdleTile` | `pop_next`, its ORDER BY, `has_urgent`, `next_idle_tile` |
| `PopNext` ... `FreeDisk`, `Quit` | the path of one job through the daemon, one action per database call, subprocess event or file operation |
| `RamLow`, `JobRaises`, `DbError`, `Crash`, `Restart` | the pre-flight check, exceptions, a locked database, the machine, systemd's `Restart=always` |
| `ClaimSelect`, `ClaimUpdate`, `ClaimError`, `FinishHttp`, `LoseHttp` | `claim_job_http`, `finish_job_http`, a remote worker that dies |
| `Submit`, `Cancel`, `ClearDone`, `SetPause`, `Sigterm` | HTTP and command line, signals |

`JobBoard` is the abstract specification: jobs on a board, at most one taker per job,
only the taker gives it back or finishes it, a taker that dies abandons it for ever.
The mapping is `Place(rows[j].status)` for the board and the job of a process whose
`pc` is in `Holding` for who is busy with what.

Abstracted: what a sensor computes, coordinates, timestamps (but for the order of
rows), the text of results.  Left out: `--once`, the listing commands (they read only),
the table `worker_heartbeats` (no decision reads it), the contents of
`band_scores.json` beyond hits, an empty sensor list.  The remote worker is not in the
repository and is modelled from the endpoints it calls.

## 2.2 `NautiInference`

| In the model | In the code |
|---|---|
| `balance` | `remaining_tokens` of the key's row (`quotas.rs`); keys do not affect one another, so there is one |
| `pc`, `want`, `stream`, `next` | a handler's place in `inference`, `reserve_tokens`, `stream`, the place of its receiver in the channel |
| `run`, `used`, `sent`, `reserved`, `done`, `cancelled` | the runner's place in `spawn_job`, `used_estimate`, messages sent, the job record |
| `jobs`, `cancelling` | the `JobStore`; cancel calls between the flag and the removal |
| `AsI64`, `Half` | the cast of the administrator's `u64` (`scheduler/mod.rs:53`); 2^63 |
| `Receive` ... `Event` | `handlers.rs:145-260`, one action per await or store access |
| `Called` ... `Remove` | `stream_chat` and `spawn_job` |
| `Recv` / `Event` with `Lagging`, `Closed` | a `tokio` broadcast channel: what a slow reader misses, when it ends |
| `Cancel`, `CancelRemove`, `SetBalance`, `Crash`, `HangUp` | `JobStore::cancel` (two steps), `set_balance`, the process, the client |

`TokenLedger` is the abstract specification: a reservation is taken at most once and
only from tokens that are there, closed at most once, and gives back no more than it
took.  A crash forfeits what is held.  The mapping derives `hold` from `reserved` and
the runner's place.

Left out: how the node is picked (`NautiRegistry` says which nodes may be), the contents
of deltas, the other handlers of `handlers.rs`, which keep no state of their own, and
SQLite's change to floating point where a release would take the balance past 2^63.

## 2.3 `NautiRegistry`

| In the model | In the code |
|---|---|
| `nodes`, `age`, `online` | the map, `last_heartbeat` in ticks, `metadata.online` |
| `arc[p]` | the `Arc` a task got from a lookup, as long as the map still holds the same object; a write through any other reaches nobody |
| `SyncFetch`, `SyncProbe`, `SyncDone` | `sync_fleet`: the list of Forge or the fallback, `probe_online`, the end |
| `Look`, `Insert`, `Again`, `Write`, `Touch` | the two lookups, `register_node`, the write of the metadata and `touch_heartbeat`, shared by `sync_fleet` and `worker_register` |
| `Register`, `Beat`, `Mark` | the worker's two requests and what `worker_heartbeat` does with them |
| `Sweep` | `remove_stale`, entry by entry |
| `Tick`, `late` | a period of 10 s; how many have passed since a heartbeat of the worker found its node |
| `HangUp`, `Die`, `Crash` | the client of a sync over HTTP, a worker, the coordinator (its map is in memory) |

Time is counted in heartbeat periods of 10 s; `Stale = 3` is the sweeper's 30 s.  A worker
sends its heartbeats one after the other, each after a probe of up to 3 s and with a client
timeout of 30 s (`worker.rs:14-15, 54-66`), so any number of periods may pass before one
arrives, or between two that arrive: nothing bounds `late`.  Only the coordinator's part of a
heartbeat, which waits for nothing, ends within a period.

Left out: the scores of `pick_node_for_role` (floats): a node it may pick is `Pickable`.
Forge's list is external: any of `Lists`, at any time.

## 2.4 `InferServer` and `KvPrefixCache`

| In the model | In the code |
|---|---|
| `Walk`, `prefix_match`, `alloc_child`, `commit`, `evict_lru`, `try_collect_chain` | the methods of `KvPrefixCache`, as functions from a cache to a cache: they take it exclusively |
| `parent`, `child`, `slice`, `refs`, `free`, `used`, `lru`, `total` | the arena's nodes, `free_list`, `arena.len()`, `lru_order`, `total_tokens` |
| `queue`, `holder` | `infer_lock`, a tokio semaphore, which serves in order |
| `idem`, `stale` | the ids of `idem_cache` with a fresh result, and with one that is too old and not collected yet |
| `Receive`, `IdemCheck`, `Acquire`, `PrefixMatch`, `PassEnds`, `CommitPrompt`, `StoreResult` | `generate`, one action per await or lock |
| `orphans`, `HangUp` | passes on a blocking thread whose handler was dropped |
| `Expire` | the ten minutes of a result |

`FlatCache` is the abstract specification of the cache: a list of entries (key, length),
least recently used first; a lookup finds the longest key that is a prefix of the query
and moves it to the end, a commit adds or replaces and then keeps the longest end that
fits.  The mapping reads the entries off the LRU list; it is checked with the answer of
each lookup, so a lookup that finds the wrong node is a violation.

Left out: hit and miss counters, depth and epochs (no decision reads them), the forward
pass, the read-only endpoints.

## 2.5 `ForgeSend`

| In the model | In the code |
|---|---|
| `busy`, `interrupt` | `send_busy`, `interrupt` |
| `coder` | `coder_url` of the shared configuration |
| `files`, `Rewrite`, `resolved` | the coder endpoint that the routing files name; `save_routing_state` and `apply_routing_preset`; what a call or poll read there before it waited for the lock (`resolve_endpoints`) |
| `lockq`, `Ask`, `Granted`, `Set` | its `tokio::sync::RwLock`: a queue in order of asking; a writer is granted at the head, a reader while no writer is before it |
| `pc`, `saved`, `tune`, `lane` | `send_message` |
| `run`, `round` | `run_lane_task_background` and the rounds of `loop_engine::run` |
| `KeepsGuard`, `RunDrop`, `Return`, `HangUp` | the life of `SendBusyGuard` |
| `PingStart`, `PingRefresh`, `PingRead`, `PingHangUp` | `validate_ping`, with `refresh_routing` |
| `Stop`, `ClearStart`, `ClearBusy` | `/interrupt`, `/clear` (two stores) |

`named`, the endpoints that the files have named so far, is history: no guard reads it.
A hang-up is possible only where the handler is suspended at an await (`Suspended`).
The fairness of the lock is its documented policy; it is the point of the run
`forge_v_deadlock`.

Left out: conversations and lane logs, `parallel_dual_coders` (taken as off, the default),
`validate_endpoint`'s two reads, and other readers of the configuration.  What a round
decides is in `ForgeLoop`, the specification gate in `SpecGate`; here `Receive` may refuse.

## 2.6 `SpecGate` and `ForgeLoop`

| In the model | In the code |
|---|---|
| `pending`, `spec_draft`, `spec_approve`, `spec_clear` | `OperatorSpecGate.pending` and its handlers; a specification is the number of its draft |
| `steering`, `steer`, `Drain` | the list of notes, `/steer`, the loop's draining at the top of a round |
| `Gate`, `ReadSpec`, `Push`, `Refused`, `Accepted` | `send_message` up to the exchange: the blocking check, `inject_approved_spec` under its two locks, the busy reply |
| `round`, `failures`, `since`, `wsoAt` | `round`, `failure_count`, `rounds_since_last_tool`, `last_auto_wso_at` |
| `tool`, `streak` | the end of `tool_actions`: the last entry and how often in a row |
| `demanded` | `last_tool_repeat_escalation` is a `Demand` |
| `Stalls`, `Interrupted`, `BeginRound`, `Generated` | the top of a round up to what the model wrote |
| `Wasted`, `Corrected`, `Broken`, `Called`, `Answers` | the arms of the match over the translated output |
| `JudgeBlocks`, `LadderBlocks`, `StallBlocks`, `Escalation` | the loop judge, the preset's ladder, `decide_tool_repeat_stall` |
| `Executes`, `CloseEnough` | a call that is let through; a file that is finished by the loop |
| `max_rounds`, `hard_repeat_cap`, `hard_terminate_after` | `load_for_loop` with its clamps |

What the model writes is a choice among `Outputs`.  Three variables are history: `approvals` and
`seen` record which drafts were ever approved and which a run has read, `ran` whether the
last call was executed; no guard reads them.

Left out: all texts, the conversation with its trims and resets, the temperature and the
ladder for thinking without tools (they choose what is said to the model, not what the
loop does), the configuration that switches the gate off.

# 3. What is checked

Deadlock is not checked (`CHECK_DEADLOCK FALSE`) in any run: rows, requests and calls
are finite or wait for their clients, and a behaviour that has used them up rightly
stops.  That nothing stops earlier is what the liveness properties say.

| Run | Specification | Question | Instance | Distinct states |
|---|---|---|---|---|
| `scan_safety` | `Spec` | is the board implemented, with one runner per job, results kept and final states final, whatever fails where? | 2 daemons, 1 remote worker, 2 jobs of a tile, 2 seconds, 1 fault, 1 SIGTERM | 997,706 |
| `scan_live` | `ChattySpec` | does a user's job preempt what runs, and does every claim end if scripts do? | 1 daemon, 1 remote worker without GPU, 2 jobs with and without GPU, 1 SIGTERM, pause file | 239,832 |
| `nauti_ledger` | `Spec` | is the ledger implemented, overdrawn by no request, without tokens made or lost, the store without dead records? | 2 requests of 2 tokens against 3 or a value that wraps to -3, costs 1 and 3, 1 fault, 1 overwrite | 1,541,169 |
| `nauti_live` | `FairSpec` | is every reservation closed and does every stream end? | 2 requests, cancels, hang-ups | 89,216 |
| `nauti_registry` | `FairSpec` | is only swept who was not heard, does who is heard stay pickable, and does a dead one go? | 1 worker that Forge may list, the coordinator's sync and one over HTTP, 1 crash, 1 death | 116,530 |
| `infer_server` | `FairSpec` | is the permit exact, the trie well formed and a flat LRU cache, and does every call get its turn? | 2 calls, prompts a, ab, abb, b, budget 2, 1 id, 1 hang-up | 483,100 |
| `forge_safety` | `Spec` | one loop while nobody clears, and the configuration back where it belongs? | 2 calls, 1 poll, 2 endpoints in the routing files, and 1 `/clear`, Stop, panic or rewrite | about 266,600 |
| `forge_loop` | `Spec` | do the counters of the loop agree, come searches and throttling in time, does every step use the run up, and is only what was approved read? | 2 calls, 2 tools, five scenes (below) | 2,420,966 |
| `nauti_v_reply`, `forge_v_deadlock`, `infer_v_overlap`, `infer_v_leaves` | | what a comment or document says and the code does not do | see section 5 | |

The passing runs fire every action of the models between them.  Each property is paired
(under `mutants`) with a plausible bug it detects.

## 3.1 The properties

*Scan queue.*  `IInv`: every program counter agrees with the table.  `SingleRunner`: no job is
run by two processes.  `ResultKept`: a finished scan's result is on disk until its row says
uploaded, unless another job that shares its directory (same tile, same second) was uploaded
and freed it, or purged; without that exception it is violated.  `FinalIsFinal`: done, failed
and cancelled jobs are only ever purged.  `ImplementsBoard`: refinement of `JobBoard`.
`ClaimsEnd`: if scripts end, a `RUNNING` row does not stay so.  `UrgentStarts`: a queued user
job starts, unless every daemon comes to run a user job.

*NautiInferer inference.*  `NoOverdraft`: only the administrator's overwrite takes the balance
down to a negative number, whatever the balance is and however many handlers have checked it;
`Conserved`: what is left, held and charged add up to the grant while nothing failed and
nobody overwrote the balance; `StoreLive`: no record whose runner is gone; `ImplementsLedger`:
refinement of `TokenLedger`; `Settles`; `StreamsEnd`.

*Node registry.*  `BeatersKept`: the node of a worker leaves the map only when no heartbeat of
the worker has found it for the threshold, or with the coordinator, although syncs replace the
object under its requests and write to it late.  That a worker which is alive stays is not so
(section 5).  `HeardIsPickable`: a worker whose heartbeats go on finding it is online again
and again, whatever late answers of probes say.  `DeadRemoved`: a worker that is gone leaves,
unless a sync is given it in a list.  `ListedReturn`: a node that Forge goes on listing is
never gone for good, though a sync passes over a node that is swept between its two lookups.

*Inference server.*  `IInv` and `OnePassEach`: one pass with a call at a time, and no more
without one than clients that hung up.  `CacheWellFormed`: links, counts, free list, LRU
list and total of the trie agree, nothing that was evicted leaves a node behind, the slices
fit the budget.  `ImplementsFlatCache`: refinement of `FlatCache`.  `Answered`: a call that
waits for the permit gets an answer or is given up.

*Forge send path.*  `OneLoopUncleared`: one background run while nobody calls `/clear`; `IInv`:
the call that took the flag and has not given it back is the only one, a round is begun only
while rounds are left, the lock's queue holds exactly what the tasks ask for and hold, and
who may have pointed the configuration elsewhere is still to restore it; `CoderRestored`: with
nothing under way, no `/clear` and no panic the configuration points to an endpoint that the
routing files name or have named, and to no other; `RunsEnd`: if every request of a run to a
model, a service or a program ends, the run does (violated, see section 5).

*Forge loop and gate.*  `SearchAnswers`: no output is asked for after three failures or more
without the results of a search made since the last one, unless the last user message is
empty.  `RepeatsThrottled`: of the calls the model itself writes, the repetition at the cap is
not executed, after it no two in a row are, and from `hard_terminate_after` on none; a call
that was repaired is executed past both caps and not counted, as in the code.  `IInv`: rounds,
failures, searches and demands agree; "Model stuck" is said only with fewer than 8 rounds
configured.  `RunShortens`: each step of a run takes at least one from `StepsLeft`, on every
path through a round, and nobody else gives any back.  `OnlyApproved`: no run reads, steering
does not hold and no call is about to push a draft that nobody approved.  `OneSpec`: steering
holds one specification at a time.

## 3.2 Bounds

| Bound | Stands for | Why it is enough |
|---|---|---|
| `MaxJobs` | rows ever inserted | two jobs let two processes race for one and a second arrive meanwhile, also one more urgent than what runs |
| `NumTiles`, `NumSensors` | the coverage grid, a list of sensors | one sensor has all interrupt points, before, during and after; tiles matter to idle jobs' labels only |
| `Seconds` | the times in directories' names | two: jobs of a tile share a directory or do not |
| `MaxFaults`, `MaxStops`, `MaxPanics`, `MaxCrashes`, `MaxDeaths`, `MaxHangUps` | faults | every property is about one fault between two steps; there is no code that handles a fault of a recovery |
| `MaxDeltas`, `Capacity` | deltas of a call, 256 messages of a channel | one delta more than the capacity makes the reader lag; an error message counts too |
| `Amounts`, `Balances`, `Costs`, `Half` | token counts, 2^63 | two requests together want more than there is; a delta may cost less or more than was reserved; one value is below `Half` and one above, and no sum comes near it |
| `MaxSets` | calls of the administrator | an overwrite between reservation and release |
| `MaxRounds` (send path) | `MAX_TOOL_ROUNDS` | a round with or without a tool, and the end of the rounds; all 32 rounds are in `forge_loop` |
| `MaxClears` | calls of `/clear` | one is enough to break the flag |
| `Presets`, `MaxRewrites` | endpoints the routing files name, changes of the files | a change between a call's reading of the files and its run's restoring leaves the restored endpoint stale |
| `Workers`, `HttpSyncs` | workers, syncs over HTTP | nodes do not affect one another: the tasks that meet at one are its worker and two syncs |
| `MCPrompts`, `Budget` | prompts, the cache's budget | a chain of three nodes and one beside it: slices on inner nodes, a path that is shared, a slice larger than the budget, a slot that is used again; the arena grows as in the code |
| `Cap` | 1024 results | above it the table is cleared: with 0 the second result does it |
| `MaxSteering`, `drafts` | entries of steering when a note is added, drafts | a note beside a specification, and a second draft while the first is being pushed |
| `Scenes` | configurations | see below |

`forge_safety` compares states without the variables nothing reads any more (`VIEW View` of
`MCForgeSend`: the lane, `/tune`, `saved`, `resolved` and round of who is past them; no
property reads them there either).  Its `CONSTRAINT Apart` takes one of a `/clear`, a Stop, a panic
and a rewrite of the files at a time, and no poll from a `/clear` on: after a `/clear` neither
property promises anything, after a panic `CoderRestored` does not, and a Stop ends a run as an
answer does.  The proofs have no such constraint.

`Room` (in `ScanQueue`) makes `Submit` count the rows daemons are about to insert, so that
the bound never blocks a daemon half-way through `_run_once`.

The scenes of `forge_loop`: `Strict` (every ladder, tight caps), `Lax` (no ladder but the cap,
fewer rounds configured than the loop grants itself), `Long` (enough rounds to stall),
`Steered` (an operator with two drafts and notes over short runs) and `Shipped` (the numbers
of `cluster_config.toml` with its preset `balanced_tooling`).  The operator is active in
`Steered` only: the gate and the ladders share nothing but the drain.

## 3.3 Fairness

*Scan queue.*  A daemon's own code and systemd's restart (`Restart=always`,
`scan_worker.py:22-24`) are weakly fair; so is a remote worker that has claimed
something, an assumption about code outside the repository.  `ChattySpec` adds that
sensor scripts go on printing: the interrupt check is reached only through a line of
output (`scan_worker.py:264`), so without it a silent script is never preempted.
`UrgentStarts` needs no more.  `ClaimsEnd` has its own antecedent, that scripts end (strong
fairness, because a script alternates between printing and computing), so that one run
checks both.  Nothing is assumed of users.

*NautiInferer.*  The runtime schedules every task that can go on, a cancel call that
has started goes on, and a call of a llama server ends: its client has a timeout of
600 s.  Nothing is assumed of clients.  In the registry the coordinator's own sync and its
sweeper are started again and again by their intervals, a live worker goes on beating, and
time passes; nobody need ask for a sync over HTTP or start a worker.

*Inference server.*  The runtime schedules handlers that can go on, the semaphore serves in
order (tokio's documented policy), and a pass ends, since it makes at most `max_length` tokens.
Of the two steps on the trie this is stated as `[]<>(pc[c] \notin {"match", "passed"})`,
which is the same: nothing but the call's own step or a hang-up leaves these stages, and
that step waits for nothing.  (TLC would otherwise compute ENABLED by evaluating the trie.)

*Forge.*  `PatientSpec`: the runtime schedules every task that can go on.  It does not say that
what a round waits for ends: `run_command` (`tools.rs:576`) and `cargo_check` (`tools.rs:397`)
run programs without a timeout, `think_harder` (`tools.rs:446-473`) uses a client without one,
and there is no wall-clock limit (`main.rs:514`).  Nor do clients give up: `ide.html` polls
without a timeout.  So no run claims that a run ends.  `RunsEnd` has the end of those waits as
its antecedent (`WaitsEnd`), and `forge_v_deadlock` shows that even then it fails.  `ForgeLoop` has
no fairness: what its control flow guarantees is the safety property `RunShortens`.

# 4. What is proved

All theorems hold for every value of the constants that satisfies the named assumption
of the model (`ScanQueueAssumption`, `NautiAssumption`, `RegistryAssumption`,
`InferAssumption`, `CacheAssumption`, `ForgeAssumption`, `LoopAssumption`).  Those say that
process sets are disjoint, that special values are none of the others, that bounds are
numbers (balances those of a word, `Half` its sign bit), and that there are finitely many
requests (`FiniteRequests`) and token hashes (of 64 bits).

*`ScanQueueProofs`: `Agreement`, `TypeCorrect`, `OneRunner`.*  `SingleRunner` is not
inductive: that two processes do not hold the same job is known only because a runner's
name is in the row (`RunnerOwnsRow`), and that stays true only because nobody else writes
a `RUNNING` row, which needs `ClaimHasJob` (a selected row exists), `NewRows` (an insert
touches none that is in use) and `StoredRow` (a job past `mark_done` is done or purged).
Together with the type invariant these are `IInv`.  The proof has one lemma per group of
actions, one step per action under it.  `ResultsKept` and `FinalStaysFinal` follow from
`IInv`: the row a writer writes by id alone is `RUNNING` under its own name, so it is not
final; a directory is removed only after `uploaded` or after the row was purged.  What that row
was is remembered in `Freed`: a result that is gone while its row waits for the upload shares the
directory of a job that was freed, and rows are never un-uploaded or un-purged (`RowsKeep`).
`QueueImplementsBoard`: initial states map to initial states; each step maps to a step of
`JobBoard` (`Submit`/`PushIdle` to `Post`, the claims to `Take`, `ReQueue`/`RamLow` to
`GiveBack`, the ends to `Finish`, faults to `Abandon`) or to a stutter.

*`NautiInferenceProofs`: `Invariance`, `TypesKept`, `NeverOverdrawn`, `StoreHoldsLiveJobs`,
`LedgerImplemented`.*  `IInv` is what is known of a reservation: a request wants something
before it reserves, has its tokens exactly from then on, and has a runner only after that
(`Wants`, `NothingYet`, `NotSpawned`, `RunsReserved`).  One lemma for each of handler, runner,
llama server and client.  `NeverOverdrawn` is about steps, for any `u64` the administrator
sets: a reservation takes from a balance that covers it, and every other step but the
overwrite only adds.  `TokensConserved`: the balance and what each request took of it add up
to the grant.  Only a reservation and a release change both, each for one request by the same
amount, which is what `SumExcept` of `DataLemmas` says of a sum over all requests; every other
step leaves every term as it is.

*`NautiRegistryProofs`: `RegistryInvariant`, `RegistryTypes`, `BeatersStay`.*  `BeatersKept` rests
on the age of a worker's node: it is no more than the time since a heartbeat of the worker last
found it (`NotOlder`), and only what is as old as the threshold is swept.  No bound on how long a
heartbeat takes is assumed, and none on the threshold.  That is inductive only with `FreshBeat`: a
heartbeat whose object was replaced under it is lost, but then the new object is as fresh;
and with `ArcMapped`: who holds an object that the map holds looked that node up.

*`InferServerProofs`: `PermitInvariant`, `InferTypes`, `OnePassForEachCall`.*  The queue holds
exactly the calls that wait, each once (`QueueExact`), so giving the permit to its head and
taking a hung-up call out of it keep `PermitExact`.

*`KvPrefixCacheProofs`, and `CacheAlwaysWellFormed` of `InferServerProofs`.*  One lemma says of
each method that it takes a well-formed cache to a well-formed cache (`PromoteKeeps`,
`DescendKeeps`, `StoredKeeps`, `EvictKeeps`, `CommitKeeps`).  Within `commit` a cache is not
well formed: the last node on the way down holds nothing yet, and the total exceeds the
budget until enough is evicted.  `Sound` is what remains, the agreement of links, counts,
lists and total; with it goes how many orphans there are, none or the one node the method
works at.  `Collectable` asks for exactly what an orphan is, so each round of
`try_collect_chain` removes the one there is and leaves at most its parent (`DetachKeeps`,
`UpKeeps`).  The loops of the model end after as many rounds as there are slots, or
entries in the list; that this is as good as the code's loops, which end on a condition, is
proved too: no node comes up twice (`CollectKeeps`, by `InjectiveBound`), and a list that has
run empty leaves a total of zero (`NothingStored`).

*`FlatCacheImplemented` of `InferServerProofs`.*  The refinement `Spec => ImplementsFlatCache`.
What ties the two together is `Describes(es, cache, keys)`: entry `i` has a key whose way down
ends at the `i`-th node of the LRU list, and that node's slice.  It is kept rather than
computed, because `EntriesOf` chooses the key of a node: two keys that lead to one node are
equal, since every node has one parent and one link from it (`WalkUnique`), so what describes
a cache is `EntriesOf` of it (`EntriesDescribed`).  Each method does to the list what the flat
cache does: promoting moves an entry to the end (`PromoteEntries`), making or freeing a node
changes no way that leads to a slice (`AllocWay`, `DetachWay`), storing adds an entry or replaces
one in its place (`StoredEntries`), one round of eviction takes the first one away
(`EvictOldestEntries`).  The rounds end where the first end of the list that fits begins
(`EvictEntries`), which needs that the total, a sum over slots, is the sum over the list
(`TotalDescribed`, by `SumImage`) and the fold of `FlatCache` (`FlatTotal`, by `SumLeft`).  The
deepest slice on the way of a prompt is the longest key that is a prefix of it
(`LongestFound`).  That the keys are prompts is the part `HasPrompt` of `IInv`.

*`DataLemmas`.*  Sequences without an element or with one more, folds, and sums over a
function's domain.  Where an induction would be used, a least element of a set of numbers
is (`NatLeast`, `SubsetLeast`, `UpTo`): an invariant of a loop that failed would fail for a first
time.  A fold is treated as the function from subsets to values that its definition names
(`FoldUnique`, `FoldExists`).

*`ForgeSendProofs`: `FlagInvariant`, `OneLoopAtATime`, `CoderComesBack`.*  `Owns(c)` says that
call `c` has taken the flag and has not given it back, in its handler, its guard or its
run.  While nobody called `/clear`, an owner is alone and the flag is up (`FlagInv`).  A lemma
about steps that change one call only carries most of the actions.  `CoderRestored` needs more
(`RestoreInv`): whoever may have set `coder_url` to a lane is still to restore it, and what a
handler or run saved, and what a refresh is about to set, is an endpoint the files have named.

*`ForgeSendProofs`: `SendInvariant`, `SendTypes`, `RoundsUndisturbed`.*  `LockExact` ties the
lock's queue to where the tasks are, hang-ups and panics included.  It is proved one entry at a
time: a step adds one, or removes one or two, and what else was granted stays granted
(`Joins`, `Left`, `LeftTwice`).  `RoundsUndisturbed` is what the lock is for, and is not
checked by a run: no step of anybody changes `coder_url` while a run is in its rounds.
It follows because the run holds the lock for reading and a writer must be granted
(`ReadsExclude`).

*`ForgeLoopProofs`: `LoopInvariant`, `LoopTypesKept`, `SearchInTime`, `Throttled`, `ReadsApproved`,
`SteeredByOne`.*  Failures are fewer than rounds, a search is not ahead of the failures, and
a demand means that the last call was blocked; from the last, two repetitions in a row past
the cap are not both let through.  A search that is due is skipped for an empty message only
(the stage `unaided`).  The gate's two properties are inductive with what a call
carries from its reading of the gate to its push.

*`RunsShorten` of `ForgeLoopProofs`.*  `RunShortens` for every configuration: `StepsLeft` is a
number, every step of a run makes it smaller on every path through a round (wasted, repaired,
blocked, executed, finished for the model), and no step of the operator or of another call
changes it.  So a run takes no more than `5 * max_rounds` steps; that it takes them is more
than the code guarantees (section 3.3).

*Only model-checked.*  The liveness properties (`ClaimsEnd`, `UrgentStarts`, `Settles`,
`StreamsEnd`, `HeardIsPickable`, `DeadRemoved`, `ListedReturn`, `Answered`):
liveness under fairness is beyond the prover.  The findings are counterexamples of TLC.

# 5. Findings

Each is a run that violates one property, and a line of the repository that says
otherwise (quoted in `PROJECT.json`).

1. `nauti_v_reply` / `RepliesArrive`.  The loop that collects a JSON reply looks at `done`
   only after a message (`handlers.rs:225-229`), and the runner sets `done` after the last
   one.  The handler holds a sender itself, so the channel is never closed: the client
   may wait for ever.
2. `forge_v_deadlock` / `RunsEnd`.  A run holds the configuration for reading and its tools
   read it again; a writer that asks in between (a poll of `/validate/ping`) closes a cycle
   that lasts until that writer gives up.
3. `infer_v_overlap` / `OnePassAtATime`.  A client that hangs up during its pass gives back
   the permit (`server.rs:236-242`) while the pass runs on: the next call starts a second one
   on the same buffers.
4. `infer_v_leaves` / `LeavesFirst`.  Comments say that leaves are evicted first
   (`kv_prefix_cache.rs:13, 197`); the code takes the front of its list (`:203`) whatever node
   it is, so a prefix loses its slice while a longer prompt behind it keeps one.  `FlatCache`
   describes what the code does, the oldest first, and not what these comments say.

Seen while modelling and kept in the models, without a run of their own.

*Scan queue.*  Remote claims order by `priority DESC` (`app.py:2692`), opposite to daemons and
to the documented meaning of 0.  The pause file is written and never read
(`scan_worker.py:539`).  Two idle daemons may push the same tile (`scan_worker.py:471`), and
if they start it in one second they write into one directory (`:312-314`), which the first to
upload removes with the other's result (`:520`): the second upload finds no files, and counts
as done.  After the last tile `next_idle_tile` returns the first one for ever.  A crashed daemon's row stays
`RUNNING` for good.  A job whose sensors all failed is done.  `submit_job` needs columns
`init_db` does not create.

*NautiInferer.*  Deltas sent before the handler subscribes are in no reply
(`handlers.rs:223`).  A client that hangs up does not cancel its job, and the runner asks the
llama server for 2048 tokens whatever was reserved.  A worker registers once and drops the
error (`worker.rs:38-39`); the heartbeat of an unknown node changes nothing and is answered
ok, so after a restart of the coordinator a worker that Forge does not list is gone for good.
So is a live worker that was swept: one heartbeat that fails may take 33 s (a probe of 3 s, a
client timeout of 30 s, `worker.rs:14-15, 54-66`), past the threshold of 30 s.  An
administrator's value from 2^63 on becomes a negative balance (`scheduler/mod.rs:53`).  The
sync's period is the sweeper's threshold, so a node known only from Forge's list may blink out
between two syncs.  A heartbeat sets `online` though the worker said its llama server is down.

*Inference server.*  The idempotency cache is asked before the permit and not after it: a
retry that comes while the first call is in its pass repeats the pass.  The text of a panic
is stored under the request id for ten minutes.  A slice that is replaced is
not promoted; the slice of an empty key is never found; a commit larger than the budget
evicts itself, after everything else.

*Forge.*  `/clear` takes down `send_busy` while a run is under way (`main.rs:1541`): the next
`/send` starts a second loop.  A refused call takes down a Stop meant for the running task
(`main.rs:764`).  A hang-up while `refresh_routing` waits leaves `send_busy` up
(`main.rs:788`).  A run that panics leaves `coder_url` at its lane (`main.rs:427`).  A run
restores what it found (`main.rs:570-573`): if the routing files were rewritten and a poll
reloaded them in between, the old endpoint is back until the next reload.  `validate_endpoint`
takes two read guards in one expression (`main.rs:3486`).  A refused call has pushed the
specification into the steering of the running task (`main.rs:761`); a newer one that was
approved is not pushed while an older one is there; `spec_approve` approves whatever waits by
then.  Repaired calls pass no repetition ladder (`loop_engine.rs:476-506`).  A comment says
that at `demand_after` the repeat is no longer executed (`corrector_preset.rs:303`); that
holds of the call at the cap, but every second one after it is executed (`:340`).  A search
that is due is skipped when the last user message is empty (`loop_engine.rs:340`), and the
model is asked all the same.  "Model stuck" cannot be said with 8 rounds or more; the message
of an exhausted run says 32 rounds whatever it had; the escalation "Reboot" only sends a
message; a file that was finished by the loop resets neither failures nor the stall count.  A
hard reset of the conversation deletes the steering messages drained into it
(`loop_engine.rs:1243`).  Texts are cut at byte positions (`main.rs:731`,
`loop_engine.rs:341`, `:1298`), which panics inside a character.

# 6. Not modelled, and why

The components of section 1.7.  They fall into four groups: numerical code (engine,
kernels, sonar, geospatial processing, floats of schedulers and budgets), adapters without
state of their own (MCP servers, agents, pages, downloaders, deployment), code without a
caller (`schedule_job`, the reservation of sovereign-cloud, `cesarops-watchdog`), and copies
(`recovery/`, `integrate*/`, `live_reference/`), which are most of the repository by lines.
Three have control of their own that could be added in this order: the detection pipeline
(a ladder of verdicts per tile, endpoint failover), the list of missions, and the scripts
that restart units.  Each is one task and one lock today, so their models would say little
that reading the code does not.

What could be proved further: variants for the liveness properties, as `RunsShorten` gives one for
the tool loop; and a refinement for the registry, whose abstract specification (a set of
nodes, each as fresh as its last heartbeat) is still to be written.
