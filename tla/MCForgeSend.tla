------------------------------ MODULE MCForgeSend ------------------------------
(***************************************************************************)
(* Instances of ForgeSend for TLC.                                         *)
(***************************************************************************)
EXTENDS ForgeSendProps, TLC

Symmetry == Permutations(Calls) \cup Permutations(Presets)

\* A state as TLC compares it: without the variables of handlers, runs and polls that
\* nothing reads any more.
TuneRead(c) == pc[c] \in {"interrupt", "busy", "refresh", "point", "spawn", "restore"}
SavedRead(c) == pc[c] \in {"spawn", "restore"} \/ Running(c)

View == <<busy, interrupt, files, named, coder, lockq, pc, run, ping, operator, panics, rewrites,
          [c \in {d \in Calls : TuneRead(d)} |-> tune[c]],
          [c \in {d \in Calls : TuneRead(d) \/ run[d] = "point"} |-> lane[c]],
          [c \in {d \in Calls : SavedRead(d)} |-> saved[c]],
          [c \in {d \in Calls : run[d] \in Rounds} |-> round[c]],
          [c \in {d \in Calls : pc[d] = "refresh"} |-> resolved[c]],
          [p \in {q \in Pings : ping[q] = "refresh"} |-> resolved[p]]>>

\* One of a /clear, a Stop, a panic and a change of the routing files, and no poll
\* from a /clear on.  After a /clear nothing is promised of the flag, after a /clear or
\* a panic nothing of the coder endpoint, and a Stop ends a run no differently than an
\* answer does.
Apart == /\ clears + stops + panics + rewrites <= 1
         /\ clears > 0 => \A p \in Pings : ping[p] = "idle"
===============================================================================
