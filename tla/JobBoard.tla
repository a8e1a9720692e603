------------------------------- MODULE JobBoard -------------------------------
(***************************************************************************)
(* What the scan queue promises, without its table, its daemons or its     *)
(* HTTP interface: a board of jobs from which processes take one job at a  *)
(* time.  A job that is on the board is taken by at most one process; only *)
(* that process may put it back or finish it; a process that dies abandons *)
(* its job, which then stays taken for ever (nothing in the code reclaims  *)
(* it); finished and withdrawn jobs leave the board only when purged.      *)
(***************************************************************************)
EXTENDS Naturals

CONSTANTS Procs,   \* every process that takes jobs
          Jobs,    \* job identities, positive numbers
          NoJob    \* what a process without a job is busy with; not a job

VARIABLES board,   \* board[j]: where job j is in its life
          busy     \* busy[p]: the job process p has taken, or NoJob

vars == <<board, busy>>

Places == {"unborn", "queued", "taken", "finished", "withdrawn", "purged"}

TypeOK == /\ board \in [Jobs -> Places]
          /\ busy \in [Procs -> Jobs \cup {NoJob}]

Init == /\ board = [j \in Jobs |-> "unborn"]
        /\ busy = [p \in Procs |-> NoJob]

Post(j) == /\ board[j] = "unborn"
           /\ board' = [board EXCEPT ![j] = "queued"]
           /\ UNCHANGED busy

Take(p, j) == /\ board[j] = "queued" /\ busy[p] = NoJob
              /\ board' = [board EXCEPT ![j] = "taken"]
              /\ busy' = [busy EXCEPT ![p] = j]

\* The process that took a job is the only one to say what becomes of it.
Release(p, place) == /\ busy[p] # NoJob
                     /\ board' = [board EXCEPT ![busy[p]] = place]
                     /\ busy' = [busy EXCEPT ![p] = NoJob]

GiveBack(p) == Release(p, "queued")

Finish(p) == Release(p, "finished")

Abandon(p) == /\ busy[p] # NoJob
              /\ busy' = [busy EXCEPT ![p] = NoJob]
              /\ UNCHANGED board

Withdraw(j) == /\ board[j] = "queued"
               /\ board' = [board EXCEPT ![j] = "withdrawn"]
               /\ UNCHANGED busy

Purge == /\ board' = [j \in Jobs |-> IF board[j] \in {"finished", "withdrawn"}
                                       THEN "purged" ELSE board[j]]
         /\ UNCHANGED busy

Next == \/ \E j \in Jobs : Post(j) \/ Withdraw(j)
        \/ \E p \in Procs : GiveBack(p) \/ Finish(p) \/ Abandon(p)
        \/ \E p \in Procs, j \in Jobs : Take(p, j)
        \/ Purge

Spec == Init /\ [][Next]_vars
===============================================================================
