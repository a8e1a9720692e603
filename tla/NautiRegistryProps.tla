-------------------------- MODULE NautiRegistryProps --------------------------
(***************************************************************************)
(* What the node registry of module NautiRegistry should guarantee.        *)
(***************************************************************************)
EXTENDS NautiRegistry

\* Every variable stays in the set of values its Rust type allows.
TypeOK ==
  /\ nodes \subseteq Ids
  /\ age \in [Ids -> 0..Stale] /\ online \in [Ids -> BOOLEAN]
  /\ pc \in [Procs -> Stages]
  /\ at \in [Procs -> Ids \cup {None}]
  /\ ok \in [Procs -> BOOLEAN]
  /\ arc \in [Procs -> Ids \cup {None}]
  /\ todo \in [Syncs -> SUBSET Listed]
  /\ late \in [Workers -> 0..Stale]
  /\ serving \in BOOLEAN
  /\ crashes \in Nat /\ deaths \in Nat

-------------------------------------------------------------------------------
(* Safety.                                                                 *)

\* "removing stale node" (registry.rs) never hits a fresh one: the node of a worker
\* leaves the map only if no heartbeat of the worker found it for the threshold,
\* although syncs replace the object under a heartbeat and write to it late; or
\* with the coordinator.  (A worker that goes on beating may still be removed: one
\* failing heartbeat can take longer than the threshold.)
BeatersKept ==
  [][\A w \in Workers : w \in nodes /\ w \notin nodes' =>
       late[w] >= Stale \/ crashes' = crashes + 1]_vars

\* What BeatersKept rests on.  Who holds an object the map holds looked it up.
AtNode == \A p \in Procs : /\ p \in Workers => at[p] = p /\ ok[p]
                           /\ pc[p] \in {"look", "insert", "again", "write", "touch", "mark"}
                                => at[p] \in Ids
ArcMapped == \A p \in Procs : arc[p] # None =>
               /\ arc[p] = at[p] /\ arc[p] \in nodes
               /\ pc[p] \in {"write", "touch", "mark"}

\* The heartbeat of a node is no older than the worker's last that found it; and if
\* a heartbeat is about to get lost in an object that was replaced, the new one is
\* as fresh.
NotOlder(w) == w \in nodes => age[w] <= late[w]
FreshBeat(w) == w \in nodes /\ pc[w] = "touch" /\ arc[w] = None => age[w] = 0
WorkerStages == \A w \in Workers : pc[w] # "probe"
SyncStages == \A s \in Syncs : pc[s] \notin {"down", "start", "mark"}

\* No request is under way before the coordinator listens.
NotYet == \A w \in Workers : ~serving => pc[w] \in {"down", "start", "idle"}

\* The inductive invariant.
IInv == /\ TypeOK
        /\ AtNode /\ ArcMapped
        /\ WorkerStages /\ SyncStages /\ NotYet
        /\ \A w \in Workers : NotOlder(w) /\ FreshBeat(w)

-------------------------------------------------------------------------------
(* Liveness.                                                               *)

\* What pick_node_for_role may choose.
Pickable(n) == n \in nodes /\ online[n]

\* A worker whose heartbeats arrive can be picked again and again, whatever late
\* answers of probes are written over its metadata.
Heard(w) == late[w] < Stale

HeardIsPickable == \A w \in Workers : Heard(w) ~> Pickable(w) \/ ~Heard(w)

\* A worker that is gone leaves the registry, unless a sync is given it in a list.
InSync(n) == \E s \in Syncs : n \in todo[s] \/ at[s] = n

DeadRemoved ==
  \A w \in Workers : ~Alive(w) ~> w \notin nodes \/ Alive(w) \/ InSync(w)

\* A node that Forge goes on listing is never gone for good, although a sync passes
\* over a node that is swept between its two lookups.
ListedReturn ==
  \A n \in Listed : []<>(pc[Loop] = "look" /\ at[Loop] = n) => []<>(n \in nodes)
===============================================================================
