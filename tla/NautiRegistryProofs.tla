------------------------- MODULE NautiRegistryProofs -------------------------
(***************************************************************************)
(* Proof that the sweeper of module NautiRegistry removes no worker that   *)
(* was heard within its threshold.                                         *)
(***************************************************************************)
EXTENDS NautiRegistryProps, TLAPS

\* A worker is its own node, and a sync is not a worker.
LEMMA Distinct == /\ Workers \subseteq Ids
                  /\ \A s \in Syncs : s \notin Workers
                  /\ Syncs \subseteq Procs /\ Workers \subseteq Procs /\ Loop \in Syncs
                  /\ \A p \in Procs : p \in Syncs \/ p \in Workers
                  /\ None \notin Ids
                  /\ Stale \in Nat
                  /\ \A list \in Lists : list \subseteq Listed
                  /\ Listed \subseteq Ids
BY RegistryAssumption DEF Ids, Procs, Syncs, Listed

\* At the start nothing is registered and no task holds anything.
LEMMA InitInv == Init => IInv
<1> USE Distinct DEF Init, Stages, Beats
<1>1. ASSUME Init PROVE TypeOK
  <2>1. at \in [Procs -> Ids \cup {None}] BY <1>1
  <2>2. pc \in [Procs -> Stages] BY <1>1
  <2>3. todo \in [Syncs -> SUBSET Listed] BY <1>1
  <2>4. age \in [Ids -> 0..Stale] /\ late \in [Workers -> 0..Stale] BY <1>1
  <2>5. ok \in [Procs -> BOOLEAN] /\ arc \in [Procs -> Ids \cup {None}] BY <1>1
  <2>. QED BY <1>1, <2>1, <2>2, <2>3, <2>4, <2>5 DEF TypeOK
<1>2. Init => AtNode /\ WorkerStages /\ SyncStages /\ NotYet
  BY DEF AtNode, WorkerStages, SyncStages, NotYet
<1>3. Init => ArcMapped BY DEF ArcMapped
<1>4. Init => \A v \in Workers : NotOlder(v) /\ FreshBeat(v) BY DEF NotOlder, FreshBeat
<1>. QED BY <1>1, <1>2, <1>3, <1>4 DEF IInv

\* What a sync does between its requests.
LEMMA SyncInv == ASSUME IInv, NEW s \in Syncs, Sync(s) PROVE IInv'
<1> USE Distinct DEF IInv, TypeOK, Stages, AtNode, ArcMapped, WorkerStages,
                     SyncStages, NotYet, NotOlder, FreshBeat, Beats, Go, map, faults, tasks
<1>1. CASE SyncFetch(s) BY <1>1 DEF SyncFetch
<1>2. CASE SyncProbe(s) BY <1>2 DEF SyncProbe
<1>3. CASE SyncDone(s) BY <1>3 DEF SyncDone
<1>4. CASE HangUp(s) BY <1>4 DEF HangUp
<1>. QED BY <1>1, <1>2, <1>3, <1>4 DEF Sync

\* Leaving keeps the types of what it writes.
LEMMA LeaveTypes ==
  ASSUME TypeOK, NEW p \in Procs, Leave(p)
  PROVE  /\ pc' \in [Procs -> Stages]
         /\ at' \in [Procs -> Ids \cup {None}]
         /\ ok' \in [Procs -> BOOLEAN]
<1>1. pc' \in [Procs -> Stages] BY DEF Leave, Go, TypeOK, Stages
<1>2. at' \in [Procs -> Ids \cup {None}] BY DEF Leave, TypeOK
<1>3. ok' \in [Procs -> BOOLEAN] BY DEF Leave, TypeOK
<1>. QED BY <1>1, <1>2, <1>3

\* The steps of a registration or a heartbeat, whoever calls them.
LEMMA HandlerInv == ASSUME IInv, NEW p \in Procs, Handler(p) PROVE IInv'
<1> USE Distinct DEF IInv, TypeOK, Stages, AtNode, ArcMapped, WorkerStages,
                     SyncStages, NotYet, NotOlder, FreshBeat, Beats, Go, map, faults, tasks, Leave
<1>1. CASE Look(p) BY <1>1 DEF Look
<1>2. CASE Insert(p)
  <2>1. TypeOK' BY <1>2 DEF Insert, Detached
  <2>2. AtNode' /\ WorkerStages' /\ SyncStages' /\ NotYet' BY <1>2 DEF Insert, Detached
  <2>3. ArcMapped' BY <1>2 DEF Insert, Detached
  <2>4. \A v \in Workers : NotOlder(v)' BY <1>2 DEF Insert, Detached
  <2>5. \A v \in Workers : FreshBeat(v)' BY <1>2 DEF Insert, Detached
  <2>. QED BY <2>1, <2>2, <2>3, <2>4, <2>5
<1>3. CASE Again(p)
  <2>1. TypeOK'
    <3>1. CASE at[p] \in nodes BY <1>3, <3>1 DEF Again
    <3>2. CASE at[p] \notin nodes
      <4>1. Leave(p) /\ UNCHANGED <<map, arc, todo, late, serving, faults>>
        BY <1>3, <3>2 DEF Again
      <4>. QED BY ONLY LeaveTypes, TypeOK, <4>1 DEF TypeOK, map, faults
    <3>. QED BY <3>1, <3>2
  <2>2. AtNode' /\ WorkerStages' /\ SyncStages' /\ NotYet' BY <1>3 DEF Again
  <2>3. ArcMapped' BY <1>3 DEF Again
  <2>4. \A v \in Workers : NotOlder(v)' BY <1>3 DEF Again
  <2>5. \A v \in Workers : FreshBeat(v)' BY <1>3 DEF Again
  <2>. QED BY <2>1, <2>2, <2>3, <2>4, <2>5
<1>4. CASE Write(p)
  <2>1. TypeOK'
    <3>0. online' \in [Ids -> BOOLEAN] BY <1>4 DEF Write
    <3>1. CASE p \in Workers
      <4>1. /\ Leave(p) /\ arc' = [arc EXCEPT ![p] = None]
            /\ UNCHANGED <<nodes, age, todo, late, serving, faults>>
        BY <1>4, <3>1 DEF Write
      <4>2. arc' \in [Procs -> Ids \cup {None}] BY <4>1
      <4>. QED BY ONLY LeaveTypes, TypeOK, <3>0, <4>1, <4>2 DEF TypeOK, faults
    <3>2. CASE p \notin Workers
      <4>1. /\ Go(p, "touch") /\ ok' = [ok EXCEPT ![p] = TRUE]
            /\ UNCHANGED <<nodes, age, at, arc, todo, late, serving, faults>>
        BY <1>4, <3>2 DEF Write
      <4>2. pc' \in [Procs -> Stages] /\ ok' \in [Procs -> BOOLEAN] BY <4>1
      <4>. QED BY ONLY TypeOK, <3>0, <4>1, <4>2 DEF TypeOK, faults
    <3>. QED BY <3>1, <3>2
  <2>2. AtNode' /\ WorkerStages' /\ SyncStages' /\ NotYet' BY <1>4 DEF Write
  <2>3. ArcMapped' BY <1>4 DEF Write
  <2>4. \A v \in Workers : NotOlder(v)' BY <1>4 DEF Write
  <2>5. \A v \in Workers : FreshBeat(v)' BY <1>4 DEF Write
  <2>. QED BY <2>1, <2>2, <2>3, <2>4, <2>5
<1>5. CASE Touch(p)
  <2>1. TypeOK'
    <3>0. age' \in [Ids -> 0..Stale] BY <1>5 DEF Touch
    <3>1. CASE p \in Workers BY <1>5, <3>0, <3>1 DEF Touch
    <3>2. CASE p \notin Workers
      <4>1. /\ Leave(p) /\ arc' = [arc EXCEPT ![p] = None]
            /\ UNCHANGED <<nodes, online, todo, late, serving, faults>>
        BY <1>5, <3>2 DEF Touch
      <4>2. arc' \in [Procs -> Ids \cup {None}] BY <4>1
      <4>. QED BY ONLY LeaveTypes, TypeOK, <3>0, <4>1, <4>2 DEF TypeOK, faults
    <3>. QED BY <3>1, <3>2
  <2>2. AtNode' /\ WorkerStages' /\ SyncStages' /\ NotYet' BY <1>5 DEF Touch
  <2>3. ArcMapped' BY <1>5 DEF Touch
  <2>4. \A v \in Workers : NotOlder(v)' BY <1>5 DEF Touch
  <2>5. \A v \in Workers : FreshBeat(v)' BY <1>5 DEF Touch
  <2>. QED BY <2>1, <2>2, <2>3, <2>4, <2>5
<1>. QED BY <1>1, <1>2, <1>3, <1>4, <1>5 DEF Handler

\* What a worker does between its requests, its start and its end.
LEMMA WorkerInv == ASSUME IInv, NEW w \in Workers, Worker(w) \/ Start(w) \/ Die(w) PROVE IInv'
<1> USE Distinct DEF IInv, TypeOK, Stages, AtNode, ArcMapped, WorkerStages,
                     SyncStages, NotYet, NotOlder, FreshBeat, Beats, Go, map, faults, tasks
<1>1. CASE Register(w) BY <1>1 DEF Register
<1>2. CASE Beat(w)
  <2>1. TypeOK' BY <1>2 DEF Beat
  <2>2. AtNode' /\ WorkerStages' /\ SyncStages' /\ NotYet' BY <1>2 DEF Beat
  <2>3. ArcMapped' BY <1>2 DEF Beat
  <2>4. \A v \in Workers : NotOlder(v)' BY <1>2 DEF Beat
  <2>5. \A v \in Workers : FreshBeat(v)' BY <1>2 DEF Beat
  <2>. QED BY <2>1, <2>2, <2>3, <2>4, <2>5
<1>3. CASE Mark(w)
  <2>1. TypeOK' BY <1>3 DEF Mark
  <2>2. AtNode' /\ WorkerStages' /\ SyncStages' /\ NotYet' BY <1>3 DEF Mark
  <2>3. ArcMapped' BY <1>3 DEF Mark
  <2>4. \A v \in Workers : NotOlder(v)' BY <1>3 DEF Mark
  <2>5. \A v \in Workers : FreshBeat(v)' BY <1>3 DEF Mark
  <2>. QED BY <2>1, <2>2, <2>3, <2>4, <2>5
<1>4. CASE Start(w) BY <1>4 DEF Start
<1>5. CASE Die(w) BY <1>5 DEF Die
<1>. QED BY <1>1, <1>2, <1>3, <1>4, <1>5 DEF Worker

\* The sweeper removes no node whose heartbeat is fresh.
LEMMA SweepInv == ASSUME IInv, NEW n \in Ids, Sweep(n) PROVE IInv'
BY Distinct DEF IInv, TypeOK, Stages, AtNode, ArcMapped, WorkerStages,
                     SyncStages, NotYet, NotOlder, FreshBeat, Beats, Sweep, Detached, faults

\* Time passes for heartbeats and workers alike.
LEMMA TickInv == ASSUME IInv, Tick PROVE IInv'
<1> USE Distinct DEF IInv, TypeOK, Stages, AtNode, ArcMapped, WorkerStages,
                     SyncStages, NotYet, NotOlder, FreshBeat, Beats, Tick, faults, tasks
<1>1. TypeOK' OBVIOUS
<1>2. AtNode' /\ WorkerStages' /\ SyncStages' /\ NotYet' /\ ArcMapped' OBVIOUS
<1>3. \A v \in Workers : NotOlder(v)' OBVIOUS
<1>4. \A v \in Workers : FreshBeat(v)' OBVIOUS
<1>. QED BY <1>1, <1>2, <1>3, <1>4

\* The coordinator starts again with an empty map.
LEMMA CrashInv == ASSUME IInv, Crash PROVE IInv'
<1> USE Distinct DEF IInv, TypeOK, Stages, AtNode, ArcMapped, WorkerStages,
                     SyncStages, NotYet, NotOlder, FreshBeat, Beats, Crash
<1>1. TypeOK'
  <2>1. at' \in [Procs -> Ids \cup {None}] OBVIOUS
  <2>2. pc' \in [Procs -> Stages] OBVIOUS
  <2>3. crashes' \in Nat /\ deaths' \in Nat /\ late' \in [Workers -> 0..Stale] OBVIOUS
  <2>4. UNCHANGED <<late, deaths>> /\ nodes' = {} /\ serving' = FALSE OBVIOUS
  <2>5. /\ age' \in [Ids -> 0..Stale] /\ online' \in [Ids -> BOOLEAN]
        /\ ok' \in [Procs -> BOOLEAN] /\ arc' \in [Procs -> Ids \cup {None}]
        /\ todo' \in [Syncs -> SUBSET Listed]
    OBVIOUS
  <2>. QED BY ONLY <2>1, <2>2, <2>3, <2>4, <2>5 DEF TypeOK
<1>2. AtNode' /\ WorkerStages' /\ SyncStages' /\ NotYet' OBVIOUS
<1>3. ArcMapped' OBVIOUS
<1>4. \A v \in Workers : NotOlder(v)' OBVIOUS
<1>5. \A v \in Workers : FreshBeat(v)' OBVIOUS
<1>. QED BY <1>1, <1>2, <1>3, <1>4, <1>5

\* A step that changes nothing.
LEMMA StutterInv == ASSUME IInv, UNCHANGED vars PROVE IInv'
BY DEF IInv, TypeOK, Stages, AtNode, ArcMapped, WorkerStages, SyncStages, NotYet,
       NotOlder, FreshBeat, Beats, vars, map, tasks, faults

\* Every step keeps the invariant.
LEMMA NextInv == IInv /\ [Next]_vars => IInv'
BY SyncInv, HandlerInv, WorkerInv, SweepInv, TickInv, CrashInv, StutterInv DEF Next

\* For any workers, lists, syncs and bounds: what a task that holds an object may
\* know of the map, and how old the heartbeat of a worker can be.
THEOREM RegistryInvariant == Spec => []IInv
BY InitInv, NextInv, PTL DEF Spec

\* Every variable keeps its type, for any number of workers and syncs.
THEOREM RegistryTypes == Spec => []TypeOK
<1>1. IInv => TypeOK
  BY DEF IInv
<1> QED
  BY <1>1, RegistryInvariant, PTL

\* Nobody but the sweeper and a crash takes a node out of the map.
LEMMA OnlySweptLeave ==
  ASSUME IInv, [Next]_vars, NEW w \in Workers, w \in nodes, w \notin nodes'
  PROVE  Sweep(w) \/ Crash
<1>1. UNCHANGED vars => nodes' = nodes BY DEF vars, map
<1>2. \A s \in Syncs : Sync(s) => nodes' = nodes
  BY DEF Sync, SyncFetch, SyncProbe, SyncDone, HangUp, map
<1>3. ASSUME NEW p \in Procs, Handler(p) PROVE w \in nodes'
  BY <1>3 DEF Handler, Look, Insert, Again, Write, Touch, map
<1>4. \A v \in Workers : Worker(v) \/ Start(v) \/ Die(v) => nodes' = nodes
  BY DEF Worker, Register, Beat, Mark, Start, Die, map
<1>5. \A n \in Ids : Sweep(n) => n = w BY DEF Sweep
<1>6. Tick => nodes' = nodes BY DEF Tick
<1>. QED BY <1>1, <1>2, <1>3, <1>4, <1>5, <1>6 DEF Next

\* A node of a worker leaves the map only if no heartbeat of the worker found it
\* for the sweeper's threshold, or with the coordinator, whatever syncs replace or
\* overwrite, for any threshold and however late heartbeats are.
THEOREM BeatersStay == Spec => BeatersKept
<1>1. ASSUME IInv, [Next]_vars, NEW w \in Workers, w \in nodes, w \notin nodes'
      PROVE  late[w] >= Stale \/ crashes' = crashes + 1
  <2>1. CASE Sweep(w)
    <3>1. age[w] >= Stale /\ age[w] <= late[w] BY <1>1, <2>1 DEF Sweep, IInv, NotOlder
    <3>2. age[w] \in Int /\ late[w] \in Int /\ Stale \in Int
      BY <1>1, Distinct DEF IInv, TypeOK
    <3>. QED BY <3>1, <3>2
  <2>2. CASE Crash BY <2>2 DEF Crash
  <2>. QED BY <1>1, <2>1, <2>2, OnlySweptLeave
<1>2. IInv /\ [Next]_vars => [\A w \in Workers : w \in nodes /\ w \notin nodes' =>
                                late[w] >= Stale \/ crashes' = crashes + 1]_vars
  BY <1>1
<1>. QED BY RegistryInvariant, <1>2, PTL DEF Spec, BeatersKept
===============================================================================
