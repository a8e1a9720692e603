---------------------------- MODULE NautiRegistry ----------------------------
(***************************************************************************)
(* The node registry of a NautiInferer coordinator (src/nauti-inferer/src: *)
(* node/registry.rs, node/heartbeat.rs, fleet.rs, coordinator.rs, the      *)
(* worker endpoints of api/handlers.rs) and the workers that report to it  *)
(* (worker.rs).                                                            *)
(*                                                                         *)
(* The registry is a concurrent map from ids to shared objects.  A task    *)
(* looks an id up, keeps the object it got and writes to it later; by then *)
(* the sweeper may have removed the entry, or register_node put another    *)
(* object in its place, and the write reaches nobody.  arc[p] is the       *)
(* object p holds while the map holds it too, and None from then on.       *)
(*                                                                         *)
(* Time is counted in heartbeat periods (10 s).  A heartbeat that is k     *)
(* ticks old is between k-1 and k+1 periods old.  Nothing bounds how late  *)
(* a worker's next heartbeat is: its loop waits for a probe of its llama   *)
(* server (3 s) and for the answer of the coordinator (30 s).              *)
(***************************************************************************)
EXTENDS Integers, FiniteSets

CONSTANTS
  Workers,    \* ids of the worker processes, who are their own nodes
  Lists,      \* the ids, of the ones of interest, that Forge or the fallback may list
  Loop,       \* the coordinator's task that syncs with Forge on its own
  HttpSyncs,  \* syncs asked for over HTTP (/v1/inference, /internal/fleet/sync)
  None,       \* no node, no object
  Stale,      \* the sweeper's threshold (30 s)
  MaxCrashes, \* bound: crashes of the coordinator
  MaxDeaths   \* bound: deaths of workers

Syncs == {Loop} \cup HttpSyncs
Procs == Syncs \cup Workers
Listed == UNION Lists
Ids == Workers \cup Listed

ASSUME RegistryAssumption ==
  /\ Syncs \cap Workers = {}
  /\ None \notin Ids
  /\ Stale \in Nat /\ MaxCrashes \in Nat /\ MaxDeaths \in Nat

\* Where a worker or one of its requests, or a sync, is.
Stages == {"down", "start", "idle", "probe", "look", "insert", "again", "write", "touch", "mark"}

VARIABLES
  nodes,    \* ids in the map
  age,      \* ticks since last_heartbeat of the object under an id (0 if there is none)
  online,   \* its metadata's online flag
  pc, at,   \* stage of a process, the node it is about
  ok,       \* what it found out about that node: the answer of the probe
  arc,      \* the object it holds, if the map still holds it
  todo,     \* nodes of the list that a sync has not come to yet
  late,     \* ticks since a heartbeat of a worker last found its node, up to Stale
  serving,  \* the first sync is over: the coordinator listens and sweeps
  crashes, deaths

map == <<nodes, age, online>>
tasks == <<pc, at, ok, arc, todo>>
faults == <<crashes, deaths>>
vars == <<map, tasks, late, serving, faults>>

Init ==
  /\ nodes = {} /\ age = [n \in Ids |-> 0] /\ online = [n \in Ids |-> FALSE]
  /\ pc = [p \in Procs |-> IF p \in Workers THEN "down" ELSE "idle"]
  /\ at = [p \in Procs |-> IF p \in Workers THEN p ELSE None]
  /\ ok = [p \in Procs |-> TRUE]
  /\ arc = [p \in Procs |-> None]
  /\ todo = [s \in Syncs |-> {}]
  /\ late = [w \in Workers |-> Stale]
  /\ serving = FALSE /\ crashes = 0 /\ deaths = 0

Go(p, stage) == pc' = [pc EXCEPT ![p] = stage]

\* A request is answered, or a sync goes on to the next node of its list.
Leave(p) == /\ Go(p, IF p \in Syncs THEN "probe" ELSE "idle")
            /\ at' = IF p \in Syncs THEN [at EXCEPT ![p] = None] ELSE at
            /\ ok' = [ok EXCEPT ![p] = TRUE]

\* Whoever holds the object under n holds it no longer: n is removed or replaced.
Detached(n) == [p \in Procs |-> IF arc[p] = n THEN None ELSE arc[p]]

-------------------------------------------------------------------------------
(* sync_fleet.                                                             *)

\* fetch_fleet_from_forge: Forge's list, or the fallback list if Forge is down.
SyncFetch(s) ==
  /\ pc[s] = "idle"
  /\ serving \/ s = Loop
  /\ \E list \in Lists : todo' = [todo EXCEPT ![s] = list]
  /\ Go(s, "probe")
  /\ UNCHANGED <<map, at, ok, arc, late, serving, faults>>

\* probe_online: an await of up to 3 s, in which anything may happen.
SyncProbe(s) ==
  /\ pc[s] = "probe"
  /\ \E n \in todo[s], answer \in BOOLEAN :
       /\ at' = [at EXCEPT ![s] = n]
       /\ todo' = [todo EXCEPT ![s] = @ \ {n}]
       /\ ok' = [ok EXCEPT ![s] = answer]
  /\ Go(s, "look")
  /\ UNCHANGED <<map, arc, late, serving, faults>>

\* Wrong on purpose: one node more than the list has.
SyncDone_OneMore(s) ==
  /\ pc[s] = "probe" /\ todo[s] = {}
  /\ Go(s, "look")
  /\ serving' = TRUE
  /\ UNCHANGED <<map, at, ok, arc, todo, late, faults>>

\* The end of the list.  The coordinator awaits its first sync before it starts
\* the sweeper and the listener.
SyncDone(s) ==
  /\ pc[s] = "probe" /\ todo[s] = {}
  /\ Go(s, "idle")
  /\ serving' = TRUE
  /\ UNCHANGED <<map, at, ok, arc, todo, late, faults>>

\* The client of a request that syncs hangs up: the future is dropped at an await.
HangUp(s) ==
  /\ pc[s] = "probe" /\ s # Loop
  /\ Go(s, "idle")
  /\ todo' = [todo EXCEPT ![s] = {}]
  /\ UNCHANGED <<map, at, ok, arc, late, serving, faults>>

-------------------------------------------------------------------------------
(* What sync_fleet and worker_register do alike.                           *)

\* Wrong on purpose: a node that is not there is not registered.
Look_UpdateOnly(p) ==
  /\ pc[p] = "look"
  /\ IF at[p] \in nodes THEN Go(p, "again") /\ UNCHANGED <<at, ok>> ELSE Leave(p)
  /\ UNCHANGED <<map, arc, todo, late, serving, faults>>

\* get_node(id).is_some()
Look(p) ==
  /\ pc[p] = "look"
  /\ Go(p, IF at[p] \in nodes THEN "again" ELSE "insert")
  /\ UNCHANGED <<map, at, ok, arc, todo, late, serving, faults>>

\* Wrong on purpose: a node that is there keeps its last heartbeat.
Insert_OldBeat(p) ==
  /\ pc[p] = "insert"
  /\ nodes' = nodes \cup {at[p]}
  /\ online' = [online EXCEPT ![at[p]] = ok[p]]
  /\ arc' = Detached(at[p])
  /\ Leave(p)
  /\ UNCHANGED <<age, todo, late, serving, faults>>

\* register_node: a new object, with a fresh heartbeat, whatever was there.
Insert(p) ==
  /\ pc[p] = "insert"
  /\ nodes' = nodes \cup {at[p]}
  /\ age' = [age EXCEPT ![at[p]] = 0]
  /\ online' = [online EXCEPT ![at[p]] = ok[p]]
  /\ arc' = Detached(at[p])
  /\ Leave(p)
  /\ UNCHANGED <<todo, late, serving, faults>>

\* The second get_node: the node may be gone again.
Again(p) ==
  /\ pc[p] = "again"
  /\ IF at[p] \in nodes
       THEN arc' = [arc EXCEPT ![p] = at[p]] /\ Go(p, "write") /\ UNCHANGED <<at, ok>>
       ELSE Leave(p) /\ UNCHANGED arc
  /\ UNCHANGED <<map, todo, late, serving, faults>>

\* *md = meta.  worker_register ends here, without a heartbeat.
Write(p) ==
  /\ pc[p] = "write"
  /\ online' = IF arc[p] = None THEN online ELSE [online EXCEPT ![arc[p]] = ok[p]]
  /\ IF p \in Workers
       THEN Leave(p) /\ arc' = [arc EXCEPT ![p] = None]
       ELSE Go(p, "touch") /\ ok' = [ok EXCEPT ![p] = TRUE] /\ UNCHANGED <<at, arc>>
  /\ UNCHANGED <<nodes, age, todo, late, serving, faults>>

\* touch_heartbeat, by a sync for a node it knows, also for one that is offline,
\* or by a worker's heartbeat.
Touch(p) ==
  /\ pc[p] = "touch"
  /\ age' = IF arc[p] = None THEN age ELSE [age EXCEPT ![arc[p]] = 0]
  /\ IF p \in Workers
       THEN /\ late' = [late EXCEPT ![p] = 0]
            /\ Go(p, "mark")
            /\ UNCHANGED <<at, ok, arc>>
       ELSE Leave(p) /\ arc' = [arc EXCEPT ![p] = None] /\ UNCHANGED late
  /\ UNCHANGED <<nodes, online, todo, serving, faults>>

-------------------------------------------------------------------------------
(* A worker process.                                                       *)

Alive(w) == pc[w] # "down"
Beats(w) == pc[w] \notin {"down", "start"}

Start(w) ==
  /\ pc[w] = "down"
  /\ Go(w, "start")
  /\ UNCHANGED <<map, at, ok, arc, todo, late, serving, faults>>

\* POST /internal/worker/register, once; an error is dropped.
Register(w) ==
  /\ pc[w] = "start"
  /\ Go(w, IF serving THEN "look" ELSE "idle")
  /\ UNCHANGED <<map, at, ok, arc, todo, late, serving, faults>>

\* POST /internal/worker/heartbeat arrives, at most one per tick.  Nothing happens
\* for an id that is not there, and the worker is told ok; nor if the coordinator
\* is not there, or the request is lost.
Beat(w) ==
  /\ pc[w] = "idle" /\ late[w] > 0
  /\ serving /\ w \in nodes
  /\ arc' = [arc EXCEPT ![w] = w]
  /\ Go(w, "touch")
  /\ UNCHANGED <<map, at, ok, todo, late, serving, faults>>

\* Wrong on purpose: the heartbeat leaves the metadata alone.
Mark_NotOnline(w) ==
  /\ pc[w] = "mark"
  /\ arc' = [arc EXCEPT ![w] = None]
  /\ Go(w, "idle")
  /\ UNCHANGED <<map, at, ok, todo, late, serving, faults>>

\* md.online = true, whatever the worker said of its llama server.
Mark(w) ==
  /\ pc[w] = "mark"
  /\ online' = IF arc[w] = None THEN online ELSE [online EXCEPT ![w] = TRUE]
  /\ arc' = [arc EXCEPT ![w] = None]
  /\ Go(w, "idle")
  /\ UNCHANGED <<nodes, age, at, ok, todo, late, serving, faults>>

Die(w) ==
  /\ pc[w] \in {"start", "idle"}
  /\ deaths < MaxDeaths /\ deaths' = deaths + 1
  /\ Go(w, "down")
  /\ UNCHANGED <<map, at, ok, arc, todo, late, serving, crashes>>

-------------------------------------------------------------------------------
(* The sweeper, time and crashes.                                          *)

\* Wrong on purpose: only nodes that are offline are removed.
Sweep_OfflineOnly(n) ==
  /\ serving
  /\ n \in nodes /\ age[n] >= Stale /\ ~online[n]
  /\ nodes' = nodes \ {n}
  /\ age' = [age EXCEPT ![n] = 0] /\ online' = [online EXCEPT ![n] = FALSE]
  /\ arc' = Detached(n)
  /\ UNCHANGED <<pc, at, ok, todo, late, serving, faults>>

\* remove_stale, for one entry of the map.
Sweep(n) ==
  /\ serving
  /\ n \in nodes /\ age[n] >= Stale
  /\ nodes' = nodes \ {n}
  /\ age' = [age EXCEPT ![n] = 0] /\ online' = [online EXCEPT ![n] = FALSE]
  /\ arc' = Detached(n)
  /\ UNCHANGED <<pc, at, ok, todo, late, serving, faults>>

\* A period ends.  The coordinator handles a heartbeat without waiting for anything.
Tick ==
  /\ \A w \in Workers : Beats(w) => pc[w] = "idle"
  /\ age' = [n \in Ids |-> IF n \in nodes /\ age[n] < Stale THEN age[n] + 1 ELSE age[n]]
  /\ late' = [w \in Workers |-> IF late[w] < Stale THEN late[w] + 1 ELSE late[w]]
  /\ UNCHANGED <<nodes, online, tasks, serving, faults>>

\* The coordinator dies and is started again, with an empty map.
Crash ==
  /\ crashes < MaxCrashes /\ crashes' = crashes + 1
  /\ nodes' = {} /\ age' = [n \in Ids |-> 0] /\ online' = [n \in Ids |-> FALSE]
  /\ serving' = FALSE
  /\ pc' = [p \in Procs |-> IF p \in Workers /\ pc[p] \in {"down", "start"} THEN pc[p] ELSE "idle"]
  /\ arc' = [p \in Procs |-> None]
  /\ at' = [p \in Procs |-> IF p \in Workers THEN p ELSE None]
  /\ ok' = [p \in Procs |-> TRUE]
  /\ todo' = [s \in Syncs |-> {}]
  /\ UNCHANGED <<late, deaths>>

-------------------------------------------------------------------------------
Sync(s) == SyncFetch(s) \/ SyncProbe(s) \/ SyncDone(s) \/ HangUp(s)
Handler(p) == Look(p) \/ Insert(p) \/ Again(p) \/ Write(p) \/ Touch(p)
Worker(w) == Register(w) \/ Beat(w) \/ Mark(w)

Next == \/ \E s \in Syncs : Sync(s)
        \/ \E p \in Procs : Handler(p)
        \/ \E w \in Workers : Worker(w) \/ Start(w) \/ Die(w)
        \/ \E n \in Ids : Sweep(n)
        \/ Tick
        \/ Crash

Spec == Init /\ [][Next]_vars

\* The runtime schedules its tasks, the coordinator's own sync and its sweeper
\* are started again and again, live workers go on and time passes.  Nothing is
\* assumed of who asks for a sync over HTTP, nor of who starts workers.
FairSpec == /\ Spec
            /\ \A p \in Procs : WF_vars(Handler(p))
            /\ WF_vars(Sync(Loop))
            /\ \A w \in Workers : WF_vars(Worker(w))
            /\ \A n \in Ids : WF_vars(Sweep(n))
            /\ WF_vars(Tick)
===============================================================================
