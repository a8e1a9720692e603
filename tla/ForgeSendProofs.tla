---------------------------- MODULE ForgeSendProofs ----------------------------
(***************************************************************************)
(* For any calls, polls and bounds: as long as nobody calls /clear, there  *)
(* is one background run at a time, whatever hangs up, panics or waits;    *)
(* the lock's queue, readers and writer are those the program counters     *)
(* say; a run's configuration stays as it is while the run is in its       *)
(* rounds; and the configuration comes back to an endpoint of the routing  *)
(* files when nothing is under way, also if these are rewritten meanwhile. *)
(***************************************************************************)
EXTENDS ForgeSendProps, DataLemmas

\* The part of the invariant about who took the flag.
OneOwner == clears = 0 => /\ ~clearing
                          /\ \A c \in Calls : Owns(c) => busy
                          /\ \A c, d \in Calls : Owns(c) /\ Owns(d) => c = d

\* What handlers, runs and /clear have to be in for the rest to make sense.
Types == /\ pc \in [Calls -> HandlerStages]
         /\ run \in [Calls -> RunStages]
         /\ clears \in Nat

\* A run is spawned once, by a handler that then has its response left to give.
AllHanded == \A c \in Calls : Handed(c)

\* Nothing has happened yet, so nobody has the flag.
LEMMA InitFlag == Init => FlagInv
  BY DEF Init, FlagInv, HandlerStages, RunStages, Handed, Owns, KeepsGuard, Running

\* Who has the flag depends on where handlers and runs are, and on nothing else.
LEMMA Untouched ==
  ASSUME FlagInv, UNCHANGED <<busy, pc, run, clearing, clears>>
  PROVE  FlagInv'
  BY DEF FlagInv, Handed, Owns, KeepsGuard, Running

\* A step of one call that takes nothing: the call owns the flag afterwards only if
\* it did before, and the flag is taken down only if the call gave it up.
LEMMA OneCallSteps ==
  ASSUME FlagInv, NEW c \in Calls, UNCHANGED <<clearing, clears>>, Types', Handed(c)',
         \A d \in Calls \ {c} : pc'[d] = pc[d] /\ run'[d] = run[d],
         Owns(c)' => Owns(c) /\ busy' = busy,
         busy' = busy \/ (Owns(c) /\ ~Owns(c)')
  PROVE  FlagInv'
<1>1. AllHanded'
  BY DEF FlagInv, AllHanded, Handed
<1>2. \A d \in Calls \ {c} : Owns(d)' <=> Owns(d)
  BY DEF Owns, KeepsGuard, Running
<1>3. OneOwner'
  BY <1>2 DEF FlagInv, OneOwner
<1> QED
  BY <1>1, <1>3 DEF FlagInv, Types, AllHanded, OneOwner

-------------------------------------------------------------------------------
(* Handlers.                                                               *)

\* The exchange: a call takes the flag only if it is down, when nobody has it.
LEMMA TakeBusyKeeps ==
  ASSUME FlagInv, NEW c \in Calls, TakeBusy(c)
  PROVE  FlagInv'
<1>1. pc[c] = "busy" /\ run[c] = "none" /\ ~Owns(c)
  BY DEF TakeBusy, FlagInv, Handed, Owns, KeepsGuard, Running
<1>2. UNCHANGED <<run, clearing, clears>>
  BY DEF TakeBusy, operator
<1>3. CASE busy
  <2>1. pc' = [pc EXCEPT ![c] = "refused"] /\ UNCHANGED busy
    BY <1>3 DEF TakeBusy, Handler
  <2>2. Types' /\ Handed(c)' /\ ~Owns(c)'
    BY <1>1, <1>2, <2>1 DEF FlagInv, Types, HandlerStages, Handed, Owns, KeepsGuard, Running
  <2> QED
    BY <1>2, <2>1, <2>2, OneCallSteps DEF FlagInv
<1>4. CASE ~busy
  <2>1. pc' = [pc EXCEPT ![c] = "refresh"] /\ busy'
    BY <1>4 DEF TakeBusy, Handler
  <2>2. Types' /\ AllHanded'
    BY <1>1, <1>2, <2>1 DEF FlagInv, Types, HandlerStages, AllHanded, Handed
  <2>3. \A d \in Calls \ {c} : pc'[d] = pc[d] /\ run'[d] = run[d]
    BY <1>2, <2>1 DEF FlagInv
  <2>4. clears = 0 => \A d \in Calls \ {c} : ~Owns(d)'
    BY <1>4, <2>3 DEF FlagInv, Owns, KeepsGuard, Running
  <2>5. OneOwner'
    BY <1>2, <2>1, <2>4 DEF FlagInv, OneOwner
  <2> QED
    BY <2>2, <2>5 DEF FlagInv, Types, AllHanded, OneOwner
<1> QED
  BY <1>3, <1>4

\* Everything else a handler does, and its being dropped.
LEMMA HandlerKeeps ==
  ASSUME FlagInv, NEW c \in Calls,
         HandlerStep(c) \/ HangUp(c) \/ (\E l \in Lanes, t \in BOOLEAN : Receive(c, l, t))
  PROVE  FlagInv'
<1> USE DEF Handler, Runner, operator
<1>0. Types /\ Handed(c)
  BY DEF FlagInv, Types
<1>1. CASE \/ \E l \in Lanes, t \in BOOLEAN : Receive(c, l, t)
           \/ ClearInterrupt(c)
  <2>1. /\ pc[c] \in {"idle", "interrupt"}
        /\ \E stage \in {"interrupt", "refused", "busy"} : pc' = [pc EXCEPT ![c] = stage]
        /\ UNCHANGED <<busy, run, clearing, clears>>
    BY <1>1 DEF Receive, ClearInterrupt
  <2>2. Types' /\ Handed(c)' /\ ~Owns(c)'
    BY <1>0, <2>1 DEF Types, HandlerStages, Handed, Owns, KeepsGuard, Running
  <2> QED
    BY <1>0, <2>1, <2>2, OneCallSteps DEF Types
<1>2. CASE TakeBusy(c)
  BY <1>2, TakeBusyKeeps
<1>3. CASE Refresh(c) \/ Point(c)
  <2>1. /\ pc[c] \in {"refresh", "point"}
        /\ \E stage \in {"point", "spawn"} : pc' = [pc EXCEPT ![c] = stage]
        /\ UNCHANGED <<busy, run, clearing, clears>>
    BY <1>3 DEF Refresh, Point
  <2>2. Types' /\ Handed(c)' /\ Owns(c)
    BY <1>0, <2>1 DEF Types, HandlerStages, Handed, Owns, KeepsGuard
  <2> QED
    BY <1>0, <2>1, <2>2, OneCallSteps DEF Types
<1>4. CASE Spawn(c)
  <2>1. /\ pc[c] = "spawn" /\ pc' = [pc EXCEPT ![c] = "restore"]
        /\ UNCHANGED run \/ run' = [run EXCEPT ![c] = "point"]
        /\ UNCHANGED <<busy, clearing, clears>>
    BY <1>4 DEF Spawn
  <2>2. Types' /\ Handed(c)' /\ Owns(c)
    BY <1>0, <2>1 DEF Types, HandlerStages, RunStages, Handed, Owns, KeepsGuard
  <2>3. \A d \in Calls \ {c} : pc'[d] = pc[d] /\ run'[d] = run[d]
    BY <1>0, <2>1 DEF Types
  <2> QED
    BY <2>1, <2>2, <2>3, OneCallSteps
<1>5. CASE Restore(c)
  <2>1. /\ pc[c] = "restore" /\ UNCHANGED <<busy, run, clearing, clears>>
        /\ pc' = [pc EXCEPT ![c] = IF KeepsGuard(c) THEN "drop" ELSE "returned"]
    BY <1>5 DEF Restore
  <2>2. Types' /\ Handed(c)' /\ (Owns(c)' => Owns(c))
    BY <1>0, <2>1 DEF Types, HandlerStages, Handed, Owns, KeepsGuard, Running
  <2> QED
    BY <1>0, <2>1, <2>2, OneCallSteps DEF Types
<1>6. CASE Return(c)
  <2>1. /\ pc[c] = "drop" /\ pc' = [pc EXCEPT ![c] = "returned"] /\ ~busy'
        /\ UNCHANGED <<run, clearing, clears>>
    BY <1>6 DEF Return
  <2>2. Types' /\ Handed(c)' /\ Owns(c) /\ ~Owns(c)'
    BY <1>0, <2>1 DEF Types, HandlerStages, Handed, Owns, KeepsGuard, Running
  <2> QED
    BY <1>0, <2>1, <2>2, OneCallSteps DEF Types
<1>7. CASE HangUp(c)
  <2>1. /\ pc[c] \in {"refresh", "point", "spawn", "restore"} /\ pc' = [pc EXCEPT ![c] = "gone"]
        /\ busy' = IF KeepsGuard(c) THEN FALSE ELSE busy
        /\ UNCHANGED <<run, clearing, clears>>
    BY <1>7 DEF HangUp, Suspended
  <2>2. Types' /\ Handed(c)'
    BY <1>0, <2>1 DEF Types, HandlerStages, Handed
  <2>3. CASE KeepsGuard(c)
    <3>1. Owns(c) /\ ~Owns(c)'
      BY <1>0, <2>1, <2>3 DEF Types, Handed, Owns, KeepsGuard, Running
    <3> QED
      BY <1>0, <2>1, <2>2, <3>1, OneCallSteps DEF Types
  <2>4. CASE ~KeepsGuard(c)
    <3>1. Owns(c)' => Owns(c)
      BY <1>0, <2>1, <2>4 DEF Types, Owns, KeepsGuard, Running
    <3> QED
      BY <1>0, <2>1, <2>2, <2>4, <3>1, OneCallSteps DEF Types
  <2> QED
    BY <2>3, <2>4
<1> QED
  BY <1>1, <1>2, <1>3, <1>4, <1>5, <1>6, <1>7 DEF HandlerStep

-------------------------------------------------------------------------------
(* Runs.                                                                   *)

\* A run owns the flag from its first step to its last.
LEMMA RunKeeps ==
  ASSUME FlagInv, NEW c \in Calls, RunStep(c) \/ Panic(c)
  PROVE  FlagInv'
<1> USE DEF Runner, operator
<1>0. Types /\ Handed(c) /\ Owns(c) /\ Running(c)
  BY DEF FlagInv, Types, Owns, Running, RunStep, RunPoint, Load, Check, Generate, Tool, RunRestore,
         RunDrop, Panic, Rounds
<1>1. CASE RunDrop(c)
  <2>1. /\ run[c] = "drop" /\ run' = [run EXCEPT ![c] = "ended"] /\ ~busy'
        /\ UNCHANGED <<pc, clearing, clears>>
    BY <1>1 DEF RunDrop
  <2>2. Types' /\ Handed(c)' /\ ~Owns(c)'
    BY <1>0, <2>1 DEF Types, RunStages, HandlerStages, Handed, Owns, KeepsGuard, Running
  <2> QED
    BY <1>0, <2>1, <2>2, OneCallSteps DEF Types
<1>2. CASE ~RunDrop(c)
  <2>1. /\ \E stage \in RunStages \ {"none", "ended"} : run' = [run EXCEPT ![c] = stage]
        /\ UNCHANGED <<busy, pc, clearing, clears>>
    BY <1>2 DEF RunStep, RunPoint, Load, Check, Generate, Tool, RunRestore, Panic, Finish, RunStages
  <2>2. Types' /\ Handed(c)'
    BY <1>0, <2>1 DEF Types, Handed, Running
  <2> QED
    BY <1>0, <2>1, <2>2, OneCallSteps DEF Types
<1> QED
  BY <1>1, <1>2

\* Every step keeps the invariant: /clear ends what it says, the rest touch nothing.
LEMMA StepKeeps == FlagInv /\ [Next]_vars => FlagInv'
<1>1. SUFFICES ASSUME FlagInv, [Next]_vars PROVE FlagInv'
  OBVIOUS
<1>2. CASE \E e \in Wanted : Ask(e)
  BY <1>1, <1>2, Untouched DEF Ask, operator
<1>3. CASE \E c \in Calls : \/ \E l \in Lanes, t \in BOOLEAN : Receive(c, l, t)
                            \/ HandlerStep(c) \/ HangUp(c) \/ RunStep(c) \/ Panic(c)
  BY <1>1, <1>3, HandlerKeeps, RunKeeps
<1>4. CASE \E p \in Pings : PingStart(p) \/ PingRefresh(p) \/ PingRead(p) \/ PingHangUp(p)
  BY <1>1, <1>4, Untouched DEF PingStart, PingRefresh, PingRead, PingHangUp, operator
<1>5. CASE Stop \/ \E url \in Presets : Rewrite(url)
  BY <1>1, <1>5, Untouched DEF Stop, Rewrite, operator
<1>6. CASE ClearStart
  BY <1>1, <1>6 DEF ClearStart, FlagInv, Handed
<1>7. CASE ClearBusy
  BY <1>1, <1>7 DEF ClearBusy, FlagInv, Handed, counts
<1>8. CASE UNCHANGED vars
  BY <1>1, <1>8, Untouched DEF vars
<1> QED
  BY <1>1, <1>2, <1>3, <1>4, <1>5, <1>6, <1>7, <1>8 DEF Next

-------------------------------------------------------------------------------
(* The theorems.                                                           *)

\* The invariant holds in every reachable state.
THEOREM FlagInvariant == Spec => []FlagInv
<1>1. Init => FlagInv
  BY InitFlag
<1>2. FlagInv /\ [Next]_vars => FlagInv'
  BY StepKeeps
<1> QED
  BY <1>1, <1>2, PTL DEF Spec

\* "Only one `/send` loop at a time" (main.rs), as long as nobody calls /clear.
THEOREM OneLoopAtATime == Spec => []OneLoopUncleared
<1>1. FlagInv => OneLoopUncleared
  BY DEF FlagInv, OneLoopUncleared, OneLoop, Owns
<1> QED
  BY <1>1, FlagInvariant, PTL

-------------------------------------------------------------------------------
(* The coder endpoint.                                                     *)

\* What was read of the routing files is what they named then.
ReadNamed == files \in named /\ resolved \in [Calls \cup Pings -> named]

\* The steps of a handler.
LEMMA HandlerRestores ==
  ASSUME FlagInv, RestoreInv, ReadNamed, clears = 0, clears' = 0,
         NEW c \in Calls, HandlerStep(c) \/ HangUp(c)
  PROVE  RestoreInv'
<1>1. /\ saved \in [Calls -> named]
      /\ \A d \in Calls : pc[d] = "point" => coder \in named
      /\ panics = 0 /\ coder \notin named => \E d \in Calls : Pointed(d)
  BY DEF RestoreInv
<1>2. pc \in [Calls -> HandlerStages] /\ run \in [Calls -> RunStages] /\ resolved[c] \in named
  BY DEF FlagInv, ReadNamed
<1>3. CASE ClearInterrupt(c) \/ TakeBusy(c) \/ Return(c)
  BY <1>1, <1>2, <1>3 DEF ClearInterrupt, TakeBusy, Return, Handler, operator, routing, RestoreInv,
     Pointed
<1>4. CASE Refresh(c)
  BY <1>1, <1>2, <1>4 DEF Refresh, Set, Handler, operator, routing, RestoreInv
<1>5. CASE Point(c)
  <2>1. named' = named /\ saved' \in [Calls -> named]
    BY <1>1, <1>5 DEF Point, routing
  <2>2. pc' = [pc EXCEPT ![c] = "spawn"] /\ Pointed(c)'
    BY <1>2, <1>5 DEF Point, Handler, Pointed
  <2>3. ASSUME NEW d \in Calls, pc'[d] = "point" PROVE FALSE
    <3>1. pc[c] = "point" /\ pc[d] = "point" /\ d # c
      BY <1>2, <1>5, <2>2, <2>3 DEF Point
    <3> QED
      BY <3>1 DEF FlagInv, Owns, KeepsGuard
  <2> QED
    BY <2>1, <2>2, <2>3 DEF RestoreInv
<1>6. CASE Spawn(c) \/ HangUp(c)
  <2>1. /\ UNCHANGED <<named, coder, saved, panics>>
        /\ \E stage \in {"restore", "gone"} : pc' = [pc EXCEPT ![c] = stage]
        /\ \A d \in Calls : d # c => run'[d] = run[d]
    BY <1>2, <1>6 DEF Spawn, HangUp, Handler, Runner, operator, routing
  <2>2. Pointed(c)' /\ \A d \in Calls : (pc'[d] = "point" => pc[d] = "point")
    BY <1>2, <2>1 DEF Pointed
  <2> QED
    BY <1>1, <2>1, <2>2 DEF RestoreInv
<1>7. CASE Restore(c)
  <2>1. coder' \in named /\ UNCHANGED <<named, saved>>
    BY <1>1, <1>7 DEF Restore, Set, routing
  <2> QED
    BY <1>1, <2>1 DEF RestoreInv
<1> QED
  BY <1>3, <1>4, <1>5, <1>6, <1>7 DEF HandlerStep

\* The steps of a run: while it is under way no other call is about to look.
LEMMA RunRestores ==
  ASSUME FlagInv, RestoreInv, clears = 0, clears' = 0, panics \in Nat,
         NEW c \in Calls, RunStep(c) \/ Panic(c)
  PROVE  RestoreInv'
<1>1. /\ saved \in [Calls -> named]
      /\ \A d \in Calls : pc[d] = "point" => coder \in named
      /\ panics = 0 /\ coder \notin named => \E d \in Calls : Pointed(d)
  BY DEF RestoreInv
<1>2. pc \in [Calls -> HandlerStages] /\ run \in [Calls -> RunStages]
  BY DEF FlagInv
<1>3. UNCHANGED <<named, pc, saved>> /\ \A d \in Calls : d # c => run'[d] = run[d]
  BY <1>2 DEF RunStep, RunPoint, Load, Check, Generate, Tool, RunRestore, RunDrop, Panic, Finish,
     Runner, routing
<1>4. CASE RunPoint(c)
  <2>1. \A d \in Calls : pc[d] # "point"
    BY <1>2, <1>4 DEF RunPoint, FlagInv, Owns, KeepsGuard, Running, Handed
  <2>2. Pointed(c)'
    BY <1>2, <1>4 DEF RunPoint, Runner, Pointed
  <2> QED
    BY <1>1, <1>3, <2>1, <2>2 DEF RestoreInv
<1>5. CASE Load(c) \/ Check(c) \/ Generate(c) \/ Tool(c)
  <2>1. UNCHANGED <<coder, panics>>
    BY <1>5 DEF Load, Check, Generate, Tool
  <2>2. Pointed(c)'
    BY <1>2, <1>5 DEF Load, Check, Generate, Tool, Finish, Runner, Pointed, Rounds
  <2> QED
    BY <1>1, <1>3, <2>1, <2>2 DEF RestoreInv
<1>6. CASE RunRestore(c)
  <2>1. coder' \in named
    BY <1>1, <1>6 DEF RunRestore, Set
  <2> QED
    BY <1>1, <1>3, <2>1 DEF RestoreInv
<1>7. CASE RunDrop(c)
  <2>1. UNCHANGED <<coder, panics>> /\ run[c] = "drop"
    BY <1>7 DEF RunDrop
  <2>2. \A d \in Calls : Pointed(d) => Pointed(d)'
    BY <1>3, <2>1 DEF Pointed, Rounds
  <2> QED
    BY <1>1, <1>3, <2>1, <2>2 DEF RestoreInv
<1>8. CASE Panic(c)
  <2>1. UNCHANGED coder /\ panics' # 0
    BY <1>8 DEF Panic
  <2> QED
    BY <1>1, <1>3, <2>1 DEF RestoreInv
<1> QED
  BY <1>4, <1>5, <1>6, <1>7, <1>8 DEF RunStep

\* Every step keeps it: polls only set what the files named, and these may name more.
LEMMA RestoreNext ==
  FlagInv /\ panics \in Nat /\ ReadNamed /\ RestoreInv /\ [Next]_vars => RestoreInv'
<1> SUFFICES ASSUME FlagInv, panics \in Nat, ReadNamed, RestoreInv, [Next]_vars, clears' = 0
             PROVE  RestoreInv'
  BY DEF RestoreInv
<1>1. clears = 0
  <2>1. UNCHANGED clears \/ ClearStart
    BY DEF Next, Ask, Receive, HandlerStep, ClearInterrupt, TakeBusy, Refresh, Point, Spawn,
       Restore, Return, HangUp, RunStep, RunPoint, Load, Check, Generate, Tool, RunRestore, RunDrop,
       Panic, PingStart, PingRefresh, PingRead, PingHangUp, Rewrite, Stop, ClearBusy, operator,
       counts, vars
  <2>2. CASE ClearStart
    BY <2>2 DEF ClearStart, FlagInv
  <2> QED
    BY <2>1, <2>2
<1>2. /\ saved \in [Calls -> named]
      /\ \A c \in Calls : pc[c] = "point" => coder \in named
      /\ panics = 0 /\ coder \notin named => \E c \in Calls : Pointed(c)
  BY <1>1 DEF RestoreInv
<1>3. ASSUME NEW c \in Calls, HandlerStep(c) \/ HangUp(c) \/ RunStep(c) \/ Panic(c) PROVE RestoreInv'
  BY <1>1, <1>3, HandlerRestores, RunRestores
<1>4. ASSUME NEW c \in Calls, NEW l \in Lanes, NEW t \in BOOLEAN, Receive(c, l, t) PROVE RestoreInv'
  <2>1. /\ UNCHANGED <<named, coder, saved, run, panics>> /\ pc[c] = "idle"
        /\ \E stage \in {"interrupt", "refused"} : pc' = [pc EXCEPT ![c] = stage]
    BY <1>4 DEF Receive, Handler, routing
  <2>2. pc \in [Calls -> HandlerStages]
    BY DEF FlagInv
  <2>3. \A d \in Calls : /\ pc'[d] = "point" => pc[d] = "point"
                        /\ Pointed(d) => Pointed(d)'
    BY <2>1, <2>2 DEF Pointed
  <2> QED
    BY <1>2, <2>1, <2>3 DEF RestoreInv
<1>5. ASSUME NEW p \in Pings, PingRefresh(p) PROVE RestoreInv'
  <2>1. coder' \in named /\ UNCHANGED <<named, pc, saved>>
    BY <1>5 DEF PingRefresh, Set, ReadNamed, routing
  <2> QED
    BY <1>2, <2>1 DEF RestoreInv
<1>6. ASSUME NEW url \in Presets, Rewrite(url) PROVE RestoreInv'
  <2>1. named \subseteq named' /\ UNCHANGED <<coder, saved, pc, run, panics>>
    BY <1>6 DEF Rewrite
  <2> QED
    BY <1>2, <2>1 DEF RestoreInv, Pointed
<1>7. CASE UNCHANGED <<named, coder, saved, pc, run, panics>>
  BY <1>2, <1>7 DEF RestoreInv, Pointed
<1> QED
  BY <1>3, <1>4, <1>5, <1>6, <1>7 DEF Next, Ask, PingStart, PingRead, PingHangUp, Stop, ClearStart,
     ClearBusy, counts, routing, vars

-------------------------------------------------------------------------------
(* The configuration's lock.                                               *)

LockTypes == lockq \in Seq(Entries) /\ IsInjective(lockq)

GrantedIn(q, e) == \E i \in DOMAIN q : /\ q[i] = e
                                       /\ IF e.write THEN i = 1
                                          ELSE \A j \in 1..(i - 1) : ~q[j].write

\* Who asks joins the queue once; who has the lock keeps it.
LEMMA Joins ==
  ASSUME LockTypes, NEW x \in Entries, ~Asked(x), lockq' = Append(lockq, x)
  PROVE  /\ LockTypes' /\ ToSet(lockq)' = ToSet(lockq) \cup {x}
         /\ \A e : Granted(e) => Granted(e)'
<1>1. /\ Len(lockq) \in Nat /\ DOMAIN lockq = 1..Len(lockq) /\ DOMAIN lockq' = 1..Len(lockq) + 1
      /\ lockq' \in Seq(Entries)
      /\ \A i \in 1..Len(lockq) : lockq'[i] = lockq[i]
      /\ lockq'[Len(lockq) + 1] = x
  BY DEF LockTypes
<1>2. \A i \in 1..Len(lockq) : lockq[i] # x
  BY <1>1 DEF Asked, ToSet
<1>3. IsInjective(lockq')
  BY <1>1, <1>2 DEF LockTypes, IsInjective
<1>4. ToSet(lockq)' = ToSet(lockq) \cup {x}
  BY <1>1 DEF ToSet
<1>5. ASSUME NEW e, Granted(e) PROVE Granted(e)'
  BY <1>1, <1>5 DEF Granted
<1> QED
  BY <1>1, <1>3, <1>4, <1>5 DEF LockTypes

\* Who lets go or gives up leaves the queue; everybody else keeps what they have.
LEMMA Leaves ==
  ASSUME NEW q \in Seq(Entries), IsInjective(q), NEW x
  PROVE  LET r == RemoveFirst(q, x)
         IN  /\ r \in Seq(Entries) /\ IsInjective(r)
             /\ ToSet(r) = ToSet(q) \ {x}
             /\ \A e : e # x /\ GrantedIn(q, e) => GrantedIn(r, e)
<1> DEFINE r == RemoveFirst(q, x)
<1>1. /\ r \in Seq(Entries) /\ IsInjective(r)
      /\ ToSet(r) = ToSet(q) \ {x}
      /\ \A j \in DOMAIN q : q[j] # x =>
           \E k \in DOMAIN r : /\ r[k] = q[j] /\ k <= j
                               /\ \A m \in 1..k - 1 : \E n \in 1..j - 1 : r[m] = q[n]
  BY RemoveFirstParts
<1> HIDE DEF r
<1>2. ASSUME NEW e, e # x, GrantedIn(q, e) PROVE GrantedIn(r, e)
  <2>1. PICK j \in DOMAIN q : /\ q[j] = e
                              /\ IF e.write THEN j = 1 ELSE \A i \in 1..(j - 1) : ~q[i].write
    BY <1>2 DEF GrantedIn
  <2>2. PICK k \in DOMAIN r : /\ r[k] = q[j] /\ k <= j
                              /\ \A m \in 1..k - 1 : \E n \in 1..j - 1 : r[m] = q[n]
    BY <1>1, <1>2, <2>1
  <2>3. k \in 1..Len(r)
    BY <1>1, <2>2
  <2> QED
    BY <2>1, <2>2, <2>3 DEF GrantedIn
<1> QED
  BY <1>1, <1>2 DEF r

\* As long as somebody has the lock for reading nobody has it for writing.
LEMMA ReadsExclude ==
  ASSUME LockTypes, NEW c, NEW d, NEW v, NEW w, Granted(Reads(c, v))
  PROVE  ~Granted(Writes(d, w))
<1> SUFFICES ASSUME Granted(Writes(d, w)) PROVE FALSE
  OBVIOUS
<1>1. lockq[1] = Writes(d, w) /\ Writes(d, w).write
  BY DEF Granted, Writes
<1>2. PICK i \in DOMAIN lockq : /\ lockq[i] = Reads(c, v)
                                /\ \A j \in 1..(i - 1) : ~lockq[j].write
  BY DEF Granted, Reads
<1>3. i \in Nat /\ i >= 1
  BY <1>2 DEF LockTypes
<1>4. i # 1
  BY <1>1, <1>2 DEF Reads
<1> QED
  BY <1>1, <1>2, <1>3, <1>4

\* Entries of different tasks, or for different things, differ.
LEMMA Distinct ==
  /\ \A c, d, v, w : Writes(c, v) = Writes(d, w) => c = d /\ v = w
  /\ \A c, d, v, w : Reads(c, v) = Reads(d, w) => c = d /\ v = w
  /\ \A c, d, v, w : Writes(c, v) # Reads(d, w)
<1>1. \A c, v : /\ Writes(c, v).of = c /\ Writes(c, v).by = v /\ Writes(c, v).write = TRUE
                /\ Reads(c, v).of = c /\ Reads(c, v).by = v /\ Reads(c, v).write = FALSE
  BY DEF Writes, Reads
<1> QED
  BY <1>1

Kinds == {Writes(c, w) : c \in Calls, w \in {"handler", "run"}}
         \cup {Reads(c, w) : c \in Calls, w \in {"run", "tool"}}
         \cup {Writes(p, "ping") : p \in Pings} \cup {Reads(p, "ping") : p \in Pings}

\* The first part of LockExact, task by task.
Placed == LET In(e) == e \in ToSet(lockq)
          IN  /\ ToSet(lockq) \subseteq Kinds
              /\ \A c \in Calls :
                   /\ In(Writes(c, "handler")) => pc[c] \in {"refresh", "point", "restore"}
                   /\ In(Writes(c, "run")) => run[c] \in {"point", "restore"}
                   /\ In(Reads(c, "run")) => run[c] \in {"load"} \cup Rounds
                   /\ In(Reads(c, "tool")) => run[c] = "tool"
              /\ \A p \in Pings : /\ In(Writes(p, "ping")) => ping[p] = "refresh"
                                  /\ In(Reads(p, "ping")) => ping[p] = "read"

Holds == \A c \in Calls : run[c] \in Rounds => Granted(Reads(c, "run"))

LEMMA PlacedExact == LockExact <=> Placed /\ Holds
<1> DEFINE Right(e) == e \in Wanted \/ \E c \in Calls : run[c] \in Rounds /\ e = Reads(c, "run")
<1>1. \A e : Right(e) => e \in Kinds
  BY DEF Wanted, Kinds
<1>2. /\ \A c \in Calls :
           /\ Right(Writes(c, "handler")) <=> pc[c] \in {"refresh", "point", "restore"}
           /\ Right(Writes(c, "run")) <=> run[c] \in {"point", "restore"}
           /\ Right(Reads(c, "run")) <=> run[c] \in {"load"} \cup Rounds
           /\ Right(Reads(c, "tool")) <=> run[c] = "tool"
      /\ \A p \in Pings : /\ Right(Writes(p, "ping")) <=> ping[p] = "refresh"
                          /\ Right(Reads(p, "ping")) <=> ping[p] = "read"
  BY Distinct DEF Wanted
<1> HIDE DEF Right
<1>3. (\A e \in ToSet(lockq) : Right(e)) <=> Placed
  BY <1>1, <1>2 DEF Placed, Kinds
<1> QED
  BY <1>3 DEF LockExact, Holds, Right

\* The two ways to leave the queue.
LEMMA Left ==
  ASSUME LockTypes, NEW x, lockq' = Without(x)
  PROVE  /\ LockTypes' /\ ToSet(lockq)' = ToSet(lockq) \ {x}
         /\ \A e : e # x /\ Granted(e) => Granted(e)'
  BY Leaves DEF LockTypes, Without, Granted, GrantedIn

LEMMA LeftTwice ==
  ASSUME LockTypes, NEW x, NEW y, lockq' = RemoveFirst(Without(x), y)
  PROVE  /\ LockTypes' /\ ToSet(lockq)' = ToSet(lockq) \ {x, y}
         /\ \A e : e \notin {x, y} /\ Granted(e) => Granted(e)'
<1> DEFINE q == Without(x)
<1>1. /\ q \in Seq(Entries) /\ IsInjective(q) /\ ToSet(q) = ToSet(lockq) \ {x}
      /\ \A e : e # x /\ Granted(e) => GrantedIn(q, e)
  BY Leaves DEF LockTypes, Without, Granted, GrantedIn
<1>2. lockq' = RemoveFirst(q, y)
  OBVIOUS
<1> HIDE DEF q
<1>3. /\ LockTypes' /\ ToSet(lockq)' = ToSet(q) \ {y}
      /\ \A e : e # y /\ GrantedIn(q, e) => Granted(e)'
  <2> DEFINE r == RemoveFirst(q, y)
  <2>1. /\ r \in Seq(Entries) /\ IsInjective(r) /\ ToSet(r) = ToSet(q) \ {y}
        /\ \A e : e # y /\ GrantedIn(q, e) => GrantedIn(r, e)
    BY <1>1, Leaves
  <2>2. lockq' = r
    BY <1>2
  <2> HIDE DEF r
  <2> QED
    BY <2>1, <2>2 DEF LockTypes, Granted, GrantedIn
<1> QED
  BY <1>1, <1>3

LockInv == LockTypes /\ Placed /\ Holds

\* A handler has at most one entry, where it waits for it.
LEMMA HandlerLocks ==
  ASSUME LockInv, FlagInv, NEW c \in Calls,
         HandlerStep(c) \/ HangUp(c) \/ \E l \in Lanes, t \in BOOLEAN : Receive(c, l, t)
  PROVE  LockInv'
<1> USE DEF Handler, Runner
<1>0. /\ pc \in [Calls -> HandlerStages] /\ run \in [Calls -> RunStages] /\ Handed(c)
      /\ LockTypes /\ Placed /\ Holds
  BY DEF FlagInv, LockInv
<1>1. CASE \/ \E l \in Lanes, b \in BOOLEAN : Receive(c, l, b)
           \/ ClearInterrupt(c) \/ TakeBusy(c) \/ Spawn(c) \/ Return(c)
  <2>1. /\ ping' = ping /\ lockq' = lockq /\ pc[c] \notin {"refresh", "point", "restore"}
        /\ \A d \in Calls \ {c} : pc'[d] = pc[d] /\ run'[d] = run[d]
        /\ run'[c] = run[c] \/ (run[c] = "none" /\ run'[c] = "point")
    BY <1>0, <1>1 DEF Receive, ClearInterrupt, TakeBusy, Spawn, Return, Handed
  <2>2. Writes(c, "handler") \notin ToSet(lockq)
    BY <1>0, <2>1 DEF Placed
  <2>3. Placed'
    <3>1. ToSet(lockq)' = ToSet(lockq)
      BY <2>1 DEF ToSet
    <3>2. run'[c] # run[c] => /\ Writes(c, "run") \notin ToSet(lockq)
                              /\ Reads(c, "run") \notin ToSet(lockq)
                              /\ Reads(c, "tool") \notin ToSet(lockq)
      BY <1>0, <2>1 DEF Placed, Rounds
    <3> QED
      BY <1>0, <2>1, <2>2, <3>1, <3>2 DEF Placed
  <2>4. Holds'
    BY <1>0, <2>1 DEF Holds, Granted, Rounds
  <2> QED
    BY <1>0, <2>1, <2>3, <2>4 DEF LockInv, LockTypes
<1>2. CASE Refresh(c) \/ Point(c) \/ Restore(c) \/ HangUp(c)
  <2>1. /\ ping' = ping /\ run' = run /\ \A d \in Calls \ {c} : pc'[d] = pc[d]
        /\ lockq' = Without(Writes(c, "handler"))
    BY <1>0, <1>2 DEF Refresh, Point, Restore, HangUp, Set
  <2>2. /\ LockTypes' /\ ToSet(lockq)' = ToSet(lockq) \ {Writes(c, "handler")}
        /\ \A e : e # Writes(c, "handler") /\ Granted(e) => Granted(e)'
    BY <1>0, <2>1, Left
  <2>3. Placed'
    BY <1>0, <2>1, <2>2 DEF Placed
  <2>4. Holds'
    BY <1>0, <2>1, <2>2, Distinct DEF Holds
  <2> QED
    BY <2>2, <2>3, <2>4 DEF LockInv
<1> QED
  BY <1>1, <1>2 DEF HandlerStep

\* A run has its hold from its first round until it lets go of it.
LEMMA RunLocks ==
  ASSUME LockInv, FlagInv, NEW c \in Calls, RunStep(c) \/ Panic(c)
  PROVE  LockInv'
<1> USE DEF Runner
<1>0. /\ run \in [Calls -> RunStages] /\ LockTypes /\ Placed /\ Holds
  BY DEF FlagInv, LockInv
<1> DEFINE Mine == {Writes(c, "run"), Reads(c, "run"), Reads(c, "tool")}
<1>1. /\ UNCHANGED <<pc, ping>> /\ \A d \in Calls \ {c} : run'[d] = run[d]
  BY <1>0 DEF RunStep, RunPoint, Load, Check, Generate, Tool, RunRestore, RunDrop, Panic, Finish
<1>2. ASSUME NEW gone \in SUBSET Mine, LockTypes', ToSet(lockq)' = ToSet(lockq) \ gone,
             \A e : e \notin gone /\ Granted(e) => Granted(e)',
             Writes(c, "run") \in ToSet(lockq) \ gone => run'[c] \in {"point", "restore"},
             Reads(c, "run") \in ToSet(lockq) \ gone => run'[c] \in {"load"} \cup Rounds,
             Reads(c, "tool") \in ToSet(lockq) \ gone => run'[c] = "tool",
             run'[c] \in Rounds => Granted(Reads(c, "run"))'
      PROVE  LockInv'
  <2>1. Placed'
    BY <1>0, <1>1, <1>2 DEF Placed
  <2>2. Holds'
    BY <1>0, <1>1, <1>2, Distinct DEF Holds
  <2> QED
    BY <1>2, <2>1, <2>2 DEF LockInv
<1>3. ASSUME UNCHANGED lockq PROVE /\ LockTypes' /\ ToSet(lockq)' = ToSet(lockq) \ {}
                                  /\ \A e : Granted(e) => Granted(e)'
  BY <1>0, <1>3 DEF LockTypes, ToSet, Granted
<1>4. CASE Load(c) \/ RunDrop(c)
  BY <1>0, <1>2, <1>3, <1>4 DEF Load, RunDrop, Placed, Rounds
<1>5. ASSUME run[c] \in {"check", "generate"}, Finish(c) PROVE LockInv'
  <2>1. run'[c] = "restore" /\ lockq' = Without(Reads(c, "run"))
    BY <1>0, <1>5 DEF Finish
  <2> QED
    BY <1>0, <1>2, <1>5, <2>1, Left, Distinct DEF Placed, Rounds
<1>6. CASE Check(c) \/ Generate(c)
  <2>1. run[c] \in {"check", "generate"}
    BY <1>6 DEF Check, Generate
  <2>2. CASE Finish(c)
    BY <1>5, <2>1, <2>2
  <2>3. CASE ~Finish(c)
    <3>1. UNCHANGED lockq /\ run'[c] \in Rounds /\ (run'[c] # "tool" => run[c] # "tool")
      BY <1>0, <1>6, <2>3 DEF Check, Generate, Rounds
    <3> QED
      BY <1>0, <1>2, <1>3, <2>1, <3>1 DEF Placed, Holds, Rounds
  <2> QED
    BY <2>2, <2>3
<1>7. CASE Tool(c)
  <2>1. run[c] = "tool" /\ run'[c] = "check" /\ lockq' = Without(Reads(c, "tool"))
    BY <1>0, <1>7 DEF Tool
  <2>2. Reads(c, "run") # Reads(c, "tool") /\ Granted(Reads(c, "run"))
    BY <1>0, <2>1, Distinct DEF Holds, Rounds
  <2> QED
    BY <1>0, <1>2, <2>1, <2>2, Left DEF Placed, Rounds
<1>8. CASE RunPoint(c) \/ RunRestore(c)
  <2>1. /\ run[c] \in {"point", "restore"} /\ run'[c] \in {"load", "drop"}
        /\ lockq' = Without(Writes(c, "run"))
    BY <1>0, <1>8 DEF RunPoint, RunRestore, Set
  <2> QED
    BY <1>0, <1>2, <2>1, Left DEF Placed, Rounds
<1>9. CASE Panic(c)
  <2>1. /\ run[c] \in Rounds /\ run'[c] = "drop"
        /\ lockq' = RemoveFirst(Without(Reads(c, "run")), Reads(c, "tool"))
    BY <1>0, <1>9 DEF Panic
  <2>2. /\ LockTypes' /\ ToSet(lockq)' = ToSet(lockq) \ {Reads(c, "run"), Reads(c, "tool")}
        /\ \A e : e \notin {Reads(c, "run"), Reads(c, "tool")} /\ Granted(e) => Granted(e)'
    BY <1>0, <2>1, LeftTwice
  <2>3. Writes(c, "run") \notin ToSet(lockq)
    BY <1>0, <2>1 DEF Placed, Rounds
  <2> QED
    BY <1>0, <1>2, <2>1, <2>2, <2>3 DEF Rounds
<1> QED
  BY <1>4, <1>6, <1>7, <1>8, <1>9 DEF RunStep

\* A poll has one entry at a time.
LEMMA PingLocks ==
  ASSUME LockInv, ping \in [Pings -> {"idle", "refresh", "read"}], NEW p \in Pings,
         PingStart(p) \/ PingRefresh(p) \/ PingRead(p) \/ PingHangUp(p)
  PROVE  LockInv'
<1> USE DEF Poll
<1>0. LockTypes /\ Placed /\ Holds
  BY DEF LockInv
<1>1. /\ UNCHANGED <<pc, run>> /\ \A q \in Pings \ {p} : ping'[q] = ping[q]
  BY DEF PingStart, PingRefresh, PingRead, PingHangUp
<1>2. ASSUME NEW gone \in SUBSET {Writes(p, "ping"), Reads(p, "ping")},
             LockTypes', ToSet(lockq)' = ToSet(lockq) \ gone,
             \A e : e \notin gone /\ Granted(e) => Granted(e)',
             Writes(p, "ping") \in ToSet(lockq) \ gone => ping'[p] = "refresh",
             Reads(p, "ping") \in ToSet(lockq) \ gone => ping'[p] = "read"
      PROVE  LockInv'
  <2>1. Placed'
    BY <1>0, <1>1, <1>2 DEF Placed
  <2>2. \A c \in Calls : Reads(c, "run") \notin gone
    BY <1>2, Distinct
  <2>3. Holds'
    BY <1>0, <1>1, <1>2, <2>2 DEF Holds
  <2> QED
    BY <1>2, <2>1, <2>3 DEF LockInv
<1>3. CASE PingStart(p)
  <2>1. LockTypes' /\ ToSet(lockq)' = ToSet(lockq) \ {} /\ \A e : Granted(e) => Granted(e)'
    BY <1>0, <1>3 DEF PingStart, LockTypes, ToSet, Granted
  <2>2. Writes(p, "ping") \notin ToSet(lockq) /\ Reads(p, "ping") \notin ToSet(lockq)
    BY <1>0, <1>3 DEF PingStart, Placed
  <2> QED
    BY <1>2, <2>1, <2>2
<1>4. CASE PingRefresh(p)
  <2>1. ping[p] = "refresh" /\ lockq' = Without(Writes(p, "ping"))
    BY <1>4 DEF PingRefresh, Set
  <2> QED
    BY <1>0, <1>2, <2>1, Left DEF Placed
<1>5. CASE PingRead(p)
  <2>1. ping[p] = "read" /\ lockq' = Without(Reads(p, "ping"))
    BY <1>5 DEF PingRead
  <2> QED
    BY <1>0, <1>2, <2>1, Left DEF Placed
<1>6. CASE PingHangUp(p)
  <2>1. lockq' = RemoveFirst(Without(Writes(p, "ping")), Reads(p, "ping"))
    BY <1>6 DEF PingHangUp
  <2>2. /\ LockTypes' /\ ToSet(lockq)' = ToSet(lockq) \ {Writes(p, "ping"), Reads(p, "ping")}
        /\ \A e : e \notin {Writes(p, "ping"), Reads(p, "ping")} /\ Granted(e) => Granted(e)'
    BY <1>0, <2>1, LeftTwice
  <2> QED
    BY <1>2, <2>2
<1> QED
  BY <1>3, <1>4, <1>5, <1>6

\* Who asks was not in the queue yet, and is where it asks.
LEMMA AskLocks ==
  ASSUME LockInv, NEW x \in Wanted, Ask(x)
  PROVE  LockInv'
<1>1. x \in Entries
  <2>1. \A c \in Calls \cup Pings : \A w \in {"handler", "run", "tool", "ping"} :
          Writes(c, w) \in Entries /\ Reads(c, w) \in Entries
    BY DEF Entries, Writes, Reads
  <2> QED
    BY <2>1 DEF Wanted
<1>2. /\ LockTypes' /\ ToSet(lockq)' = ToSet(lockq) \cup {x}
      /\ \A e : Granted(e) => Granted(e)'
  BY <1>1, Joins DEF LockInv, Ask
<1>3. UNCHANGED <<pc, run, ping>>
  BY DEF Ask
<1>4. Wanted' = Wanted
  BY <1>3 DEF Wanted
<1>5. LockExact'
  BY <1>2, <1>3, <1>4, PlacedExact DEF LockInv, LockExact
<1> QED
  BY <1>2, <1>5, PlacedExact, PTL DEF LockInv

\* Every step leaves the lock as it should be.
LEMMA LockNext == LockInv /\ FlagInv /\ TypeOK /\ [Next]_vars => LockInv'
<1> SUFFICES ASSUME LockInv, FlagInv, TypeOK, [Next]_vars PROVE LockInv'
  OBVIOUS
<1>1. CASE (\E url \in Presets : Rewrite(url)) \/ Stop \/ ClearStart \/ ClearBusy \/ UNCHANGED vars
  BY <1>1 DEF Rewrite, Stop, ClearStart, ClearBusy, vars, LockInv, LockTypes, Placed, Holds, ToSet, Granted
<1> QED
  BY <1>1, AskLocks, HandlerLocks, RunLocks, PingLocks DEF Next, TypeOK

-------------------------------------------------------------------------------
(* Types and rounds.                                                       *)

\* The type invariant without the lock's queue, which the lemmas above are about.
Flags == /\ busy \in BOOLEAN /\ interrupt \in BOOLEAN /\ clearing \in BOOLEAN
         /\ tune \in [Calls -> BOOLEAN]
Places ==
  /\ coder \in Lanes \cup named
  /\ pc \in [Calls -> HandlerStages]
  /\ lane \in [Calls -> Lanes \cup named]
  /\ saved \in [Calls -> Lanes \cup named]
  /\ run \in [Calls -> RunStages] /\ round \in [Calls -> 0..MaxRounds]
  /\ ping \in [Pings -> {"idle", "refresh", "read"}]
  /\ clears \in Nat /\ stops \in Nat /\ panics \in Nat
PlainTypes == Flags /\ Places
NameTypes == named \subseteq Presets /\ ReadNamed /\ rewrites \in Nat

LEMMA TypeParts == TypeOK <=> PlainTypes /\ NameTypes /\ LockTypes
  BY DEF TypeOK, PlainTypes, Flags, Places, NameTypes, ReadNamed, LockTypes

\* Whoever reads the routing files reads what they name.
LEMMA NamesNext == NameTypes /\ [Next]_vars => NameTypes' /\ named \subseteq named'
<1> SUFFICES ASSUME NameTypes, [Next]_vars PROVE NameTypes' /\ named \subseteq named'
  OBVIOUS
<1>1. ASSUME NEW c \in Calls, TakeBusy(c) PROVE NameTypes' /\ named \subseteq named'
  BY <1>1 DEF TakeBusy, NameTypes, ReadNamed
<1>2. ASSUME NEW p \in Pings, PingStart(p) PROVE NameTypes' /\ named \subseteq named'
  BY <1>2 DEF PingStart, NameTypes, ReadNamed
<1>3. ASSUME NEW url \in Presets, Rewrite(url) PROVE NameTypes' /\ named \subseteq named'
  BY <1>3 DEF Rewrite, NameTypes, ReadNamed
<1>4. CASE UNCHANGED routing
  BY <1>4 DEF routing, NameTypes, ReadNamed
<1> QED
  BY <1>1, <1>2, <1>3, <1>4 DEF Next, Ask, Receive, HandlerStep, ClearInterrupt, Refresh, Point,
     Spawn, Restore, Return, HangUp, RunStep, RunPoint, Load, Check, Generate, Tool, RunRestore,
     RunDrop, Panic, PingRefresh, PingRead, PingHangUp, Stop, ClearStart, ClearBusy, routing, vars

\* A step of a handler: where it may go and what it may save.
LEMMA HandlerTypes ==
  ASSUME PlainTypes, ReadNamed, NEW c \in Calls,
         HandlerStep(c) \/ HangUp(c) \/ \E l \in Lanes, t \in BOOLEAN : Receive(c, l, t)
  PROVE  PlainTypes' /\ \A d \in Calls : run'[d] = run[d] \/ run'[d] = "point"
<1> USE DEF PlainTypes, Flags, Places, Handler, Runner, request, operator, routing, HandlerStages,
            RunStages
<1>1. ASSUME NEW l \in Lanes, NEW t \in BOOLEAN, Receive(c, l, t)
      PROVE  PlainTypes' /\ \A d \in Calls : run'[d] = run[d] \/ run'[d] = "point"
  BY <1>1 DEF Receive
<1>2. CASE HangUp(c)
  BY <1>2 DEF HangUp
<1>3. CASE ClearInterrupt(c) \/ TakeBusy(c) \/ Return(c)
  BY <1>3 DEF ClearInterrupt, TakeBusy, Return
<1>4. CASE Spawn(c)
  BY <1>4 DEF Spawn
<1>5. CASE Refresh(c)
  BY <1>5 DEF Refresh, Set, ReadNamed
<1>6. CASE Point(c)
  BY <1>6 DEF Point, Set
<1>7. CASE Restore(c)
  BY <1>7 DEF Restore, Set
<1> QED
  BY <1>1, <1>2, <1>3, <1>4, <1>5, <1>6, <1>7 DEF HandlerStep

\* A step of a run: it ends at the latest when its rounds are used up.
LEMMA RunTypes ==
  ASSUME PlainTypes, RoundsLeft, NEW c \in Calls, RunStep(c) \/ Panic(c)
  PROVE  PlainTypes' /\ RoundsLeft'
<1> USE ForgeAssumption DEF PlainTypes, Flags, Places, RoundsLeft, Runner, request, operator, routing,
                            RunStages
<1>1. CASE RunPoint(c) \/ RunRestore(c)
  <2>1. /\ \E stage \in {"load", "drop"} : run' = [run EXCEPT ![c] = stage]
        /\ coder' \in Lanes \cup named
        /\ UNCHANGED <<busy, interrupt, named, pc, lane, tune, saved, round, ping, clearing, clears,
                       stops, panics>>
    BY <1>1 DEF RunPoint, RunRestore, Set
  <2> QED
    BY <2>1
<1>2. CASE Load(c) \/ RunDrop(c) \/ Panic(c)
  <2>1. Flags'
    BY <1>2, Zenon DEF Load, RunDrop, Panic
  <2>2. /\ \E stage \in {"check", "drop", "ended"} : run' = [run EXCEPT ![c] = stage]
        /\ panics' \in Nat
        /\ UNCHANGED <<named, coder, pc, lane, saved, round, ping, clears, stops>>
    BY <1>2 DEF Load, RunDrop, Panic
  <2> QED
    BY <2>1, <2>2
<1>3. CASE Check(c)
  BY <1>3 DEF Check, Finish
<1>4. CASE Generate(c) \/ Tool(c)
  <2>1. /\ run[c] \in {"generate", "tool"} /\ round[c] < MaxRounds
        /\ \E stage \in {"restore", "tool", "check"} : run' = [run EXCEPT ![c] = stage]
        /\ \/ round' = round
           \/ round' = [round EXCEPT ![c] = @ + 1] /\ run'[c] = "check"
        /\ UNCHANGED <<busy, interrupt, named, coder, pc, lane, tune, saved, ping, clearing, clears,
                       stops, panics>>
    BY <1>4 DEF Generate, Tool, Finish
  <2>2. round' \in [Calls -> 0..MaxRounds]
    BY <2>1
  <2> QED
    BY <2>1, <2>2
<1> QED
  BY <1>1, <1>2, <1>3, <1>4 DEF RunStep

\* Every step keeps every variable in its type.
LEMMA TypesNext ==
  PlainTypes /\ NameTypes /\ RoundsLeft /\ [Next]_vars => PlainTypes' /\ RoundsLeft'
<1> SUFFICES ASSUME PlainTypes, NameTypes, RoundsLeft, [Next]_vars PROVE PlainTypes' /\ RoundsLeft'
  OBVIOUS
<1>1. ASSUME NEW c \in Calls,
             HandlerStep(c) \/ HangUp(c) \/ \E l \in Lanes, t \in BOOLEAN : Receive(c, l, t)
      PROVE  PlainTypes' /\ RoundsLeft'
  <2>1. PlainTypes' /\ \A d \in Calls : run'[d] = run[d] \/ run'[d] = "point"
    BY <1>1, HandlerTypes DEF NameTypes
  <2>2. round' = round
    BY <1>1 DEF HandlerStep, ClearInterrupt, TakeBusy, Refresh, Point, Spawn, Restore, Return,
       HangUp, Receive
  <2> QED
    BY <2>1, <2>2 DEF RoundsLeft
<1>2. ASSUME NEW p \in Pings, PingStart(p) \/ PingRefresh(p) \/ PingRead(p) \/ PingHangUp(p)
      PROVE  PlainTypes' /\ RoundsLeft'
  BY <1>2 DEF PingStart, PingRefresh, PingRead, PingHangUp, Set, Poll, PlainTypes, Flags,
     Places, RoundsLeft, request, operator, routing, NameTypes, ReadNamed
<1>3. CASE Stop \/ ClearStart \/ ClearBusy
  <2>1. Flags'
    BY <1>3, Zenon DEF Stop, ClearStart, ClearBusy, PlainTypes, Flags, request
  <2>2. Places' /\ RoundsLeft'
    BY <1>3 DEF Stop, ClearStart, ClearBusy, PlainTypes, Places, RoundsLeft, request, routing, counts
  <2> QED
    BY <2>1, <2>2 DEF PlainTypes
<1>4. CASE (\E e \in Wanted : Ask(e)) \/ UNCHANGED vars
  <2>1. UNCHANGED <<busy, interrupt, named, coder, pc, lane, tune, saved, run, round, ping, clearing,
                    clears, stops, panics>>
    BY <1>4 DEF Ask, vars, request, operator, routing
  <2> QED
    BY <2>1 DEF PlainTypes, Flags, Places, RoundsLeft
<1>5. ASSUME NEW url \in Presets, Rewrite(url) PROVE PlainTypes' /\ RoundsLeft'
  <2>1. Flags'
    BY <1>5, Zenon DEF Rewrite, PlainTypes, Flags, request, operator
  <2>2. named \subseteq named' /\ UNCHANGED <<coder, pc, request, saved, run, round, ping, operator, panics>>
    BY <1>5 DEF Rewrite
  <2>3. Places' /\ RoundsLeft'
    BY <2>2 DEF PlainTypes, Places, RoundsLeft, request, operator
  <2> QED
    BY <2>1, <2>3 DEF PlainTypes
<1> QED
  BY <1>1, <1>2, <1>3, <1>4, <1>5, RunTypes DEF Next

-------------------------------------------------------------------------------
(* The whole invariant.                                                    *)

\* In every run the whole invariant holds: types, flag, rounds, lock and coder
\* endpoint, for any calls, polls, hang-ups, panics and calls of /clear.
THEOREM SendInvariant == Spec => []IInv
<1> USE DEF LockInv
<1>1. Init => IInv
  <2> SUFFICES ASSUME Init PROVE IInv
    OBVIOUS
  <2>1. lockq = <<>> /\ ToSet(lockq) = {}
    BY DEF Init, ToSet
  <2>2. TypeOK /\ RoundsLeft
    <3>1. LockTypes
      BY <2>1 DEF LockTypes, IsInjective
    <3>2. Flags
      BY Zenon DEF Init, Flags
    <3>3. Places /\ RoundsLeft
      BY ForgeAssumption DEF Init, Places, RoundsLeft, HandlerStages, RunStages
    <3>4. NameTypes
      BY DEF Init, NameTypes, ReadNamed
    <3> QED
      BY <3>1, <3>2, <3>3, <3>4, TypeParts DEF PlainTypes
  <2>3. LockExact /\ RestoreInv
    BY <2>1 DEF Init, LockExact, RestoreInv, Rounds
  <2> QED
    BY <2>2, <2>3, InitFlag DEF IInv
<1>2. IInv /\ [Next]_vars => IInv'
  <2> SUFFICES ASSUME IInv, [Next]_vars PROVE IInv'
    OBVIOUS
  <2>1. TypeOK /\ PlainTypes /\ NameTypes /\ FlagInv /\ RoundsLeft /\ LockInv /\ RestoreInv
    BY PlacedExact, TypeParts DEF IInv
  <2>2. LockInv' /\ FlagInv'
    BY <2>1, LockNext, StepKeeps
  <2>3. LockExact'
    BY <2>2, PlacedExact, PTL
  <2>4. PlainTypes' /\ RoundsLeft'
    BY <2>1, TypesNext
  <2>5. TypeOK'
    BY <2>1, <2>2, <2>4, NamesNext, TypeParts, PTL
  <2>6. RestoreInv'
    BY <2>1, RestoreNext DEF PlainTypes, Places, NameTypes
  <2> QED
    BY <2>2, <2>3, <2>4, <2>5, <2>6 DEF IInv
<1> QED
  BY <1>1, <1>2, PTL DEF Spec

\* Every variable keeps its type, and no task is in the lock's queue twice for the
\* same thing (main.rs: send_message, the run it spawns, validate_ping; the queue
\* is that of the configuration's RwLock).
THEOREM SendTypes == Spec => []TypeOK
<1>1. IInv => TypeOK
  BY DEF IInv
<1> QED
  BY <1>1, SendInvariant, PTL

\* When nothing is under way the configuration points at an endpoint that the routing
\* files named, never at a lane's own, in whatever order handlers, runs and polls
\* restored it and whenever the files were rewritten, unless /clear let two runs in
\* or a run panicked (main.rs, send_message and the run it spawns).
THEOREM CoderComesBack == Spec => []CoderRestored
<1>1. IInv => CoderRestored
  BY DEF IInv, RestoreInv, CoderRestored, Pointed, Idle, Running, Rounds
<1> QED
  BY <1>1, SendInvariant, PTL

\* While any run is in its rounds nothing repoints the configuration: neither a
\* poll, nor a handler or run that restores it, nor another lane's call
\* (main.rs: the read guard that run_loop is called under).
THEOREM RoundsUndisturbed ==
  Spec => [][(\E c \in Calls : run[c] \in Rounds) => UNCHANGED coder]_vars
<1>1. IInv /\ [Next]_vars => [(\E c \in Calls : run[c] \in Rounds) => UNCHANGED coder]_vars
  <2> SUFFICES ASSUME IInv, Next, NEW c \in Calls, run[c] \in Rounds PROVE UNCHANGED coder
    OBVIOUS
  <2>1. LockTypes /\ Granted(Reads(c, "run"))
    BY DEF IInv, TypeOK, LockTypes, LockExact
  <2>2. \A d, w : ~Granted(Writes(d, w))
    BY <2>1, ReadsExclude
  <2> QED
    BY <2>2 DEF Next, Ask, Receive, HandlerStep, ClearInterrupt, TakeBusy, Refresh, Point, Spawn,
       Restore, Return, HangUp, RunStep, RunPoint, Load, Check, Generate, Tool, RunRestore, RunDrop,
       Panic, PingStart, PingRefresh, PingRead, PingHangUp, Rewrite, Stop,
       ClearStart, ClearBusy, Set
<1> QED
  BY <1>1, SendInvariant, PTL DEF Spec
===============================================================================
