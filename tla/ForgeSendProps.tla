----------------------------- MODULE ForgeSendProps -----------------------------
(***************************************************************************)
(* What the send path of module ForgeSend should guarantee.                *)
(***************************************************************************)
EXTENDS ForgeSend

\* Every variable stays in the set of values its Rust type allows, and no task is
\* in the lock's queue twice for the same thing.
TypeOK ==
  /\ busy \in BOOLEAN /\ interrupt \in BOOLEAN
  /\ named \subseteq Presets /\ files \in named
  /\ coder \in Lanes \cup named
  /\ lockq \in Seq(Entries) /\ IsInjective(lockq)
  /\ pc \in [Calls -> HandlerStages]
  /\ lane \in [Calls -> Lanes \cup named]
  /\ tune \in [Calls -> BOOLEAN]
  /\ saved \in [Calls -> Lanes \cup named]
  /\ resolved \in [Calls \cup Pings -> named]
  /\ run \in [Calls -> RunStages]
  /\ round \in [Calls -> 0..MaxRounds]
  /\ ping \in [Pings -> {"idle", "refresh", "read"}]
  /\ clearing \in BOOLEAN
  /\ {clears, stops, panics, rewrites} \subseteq Nat

-------------------------------------------------------------------------------
(* Safety.                                                                 *)

Running(c) == run[c] \notin {"none", "ended"}

\* "Only one `/send` loop at a time" (main.rs): no two background runs.
OneLoop == \A c, d \in Calls : Running(c) /\ Running(d) => c = d

\* It is so as long as nobody calls /clear: the flag is taken by one exchange, and
\* its guard is dropped once, wherever the task was when it ended or was dropped.
OneLoopUncleared == clears = 0 => OneLoop

\* The parts of the inductive invariant.  A call that took the flag and has not given
\* it back, in its handler or in its run, is the only one, and the flag is up.
Owns(c) == pc[c] = "refresh" \/ KeepsGuard(c) \/ Running(c)
Handed(c) == run[c] # "none" => pc[c] \in {"restore", "returned", "gone"}

FlagInv == /\ pc \in [Calls -> HandlerStages]
           /\ run \in [Calls -> RunStages]
           /\ clears \in Nat
           /\ \A c \in Calls : Handed(c)
           /\ clears = 0 => /\ ~clearing
                            /\ \A c \in Calls : Owns(c) => busy
                            /\ \A c, d \in Calls : Owns(c) /\ Owns(d) => c = d

\* A round is begun only while there are rounds left.
RoundsLeft == \A c \in Calls : run[c] \in {"generate", "tool"} => round[c] < MaxRounds

\* The lock's queue holds what a task asks for where it is, and what a run holds from
\* its first round to its last; nobody who hung up, panicked or was served is left
\* in it, and no run is without its hold.
LockExact == /\ \A e \in ToSet(lockq) :
                  e \in Wanted \/ \E c \in Calls : run[c] \in Rounds /\ e = Reads(c, "run")
             /\ \A c \in Calls : run[c] \in Rounds => Granted(Reads(c, "run"))

\* Who may have left the configuration pointed at a lane, and will restore it or
\* is gone; and nobody saves anything but what the routing files named: between a
\* call's refresh and its look at the endpoint nothing but a restore or a poll can
\* come.
Pointed(c) == \/ pc[c] \in {"spawn", "restore", "gone"}
              \/ run[c] \in Rounds \cup {"load", "restore"}
RestoreInv ==
  clears = 0 =>
    /\ saved \in [Calls -> named]
    /\ \A c \in Calls : pc[c] = "point" => coder \in named
    /\ panics = 0 /\ coder \notin named => \E c \in Calls : Pointed(c)

IInv == TypeOK /\ FlagInv /\ RoundsLeft /\ LockExact /\ RestoreInv

\* When nothing is under way the configuration points where the routing files say,
\* or said: handlers and runs restore it in any order, and a poll resets it in
\* between.  It is never left to a lane; and it is exactly the endpoint of the files
\* if they were never rewritten.  (If they were, a run may restore what it saved
\* before over what a poll has just set.)
Idle(c) == pc[c] \in {"idle", "interrupt", "busy", "returned", "refused"} /\ ~Running(c)
CoderRestored ==
  clears = 0 /\ panics = 0 /\ (\A c \in Calls : Idle(c)) => coder \in named

-------------------------------------------------------------------------------
(* Liveness.                                                               *)

\* If every request of a run to a model, a service or a program is answered, "the full
\* reply will appear in this lane when done" (main.rs): every background run ends.
WaitsEnd == \A c \in Calls : WF_vars(Generate(c)) /\ WF_vars(Tool(c))
RunsEnd == WaitsEnd => \A c \in Calls : run[c] = "point" ~> run[c] = "ended"
===============================================================================
