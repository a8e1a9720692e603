---------------------------- MODULE ScanQueueProps ----------------------------
(***************************************************************************)
(* What the scan queue of module ScanQueue should guarantee.               *)
(***************************************************************************)
EXTENDS ScanQueue

\* Every variable stays in the set of values its Python or SQL type allows.
TypeOK ==
  /\ rows \in [Jobs -> Row]
  /\ created \in 0..MaxJobs
  /\ pc \in [Procs -> Stages]
  /\ job \in [Procs -> Jobs \cup {NoJob}]
  /\ pick \in [Workers -> Tiles \cup {NoTile}]
  /\ todo \in [Workers -> Nat]
  /\ stop \in [Workers -> BOOLEAN]
  /\ paused \in BOOLEAN
  /\ hits \subseteq Tiles
  /\ made \in [Jobs -> Seconds \cup {None}]
  /\ disk \subseteq Jobs
  /\ claimLock \in HttpWorkers \cup {None}
  /\ faults \in Nat
  /\ stops \in Nat

-------------------------------------------------------------------------------
(* Safety.                                                                 *)

\* A process that is running a job owns it: the row is RUNNING under its name.
\* re_queue, mark_done, mark_failed and finish_job_http write the row by id alone,
\* without looking at its status, and are correct only because of this.
RunnerOwnsRow ==
  \A p \in Procs : pc[p] \in Holding =>
    /\ job[p] \in Jobs
    /\ rows[job[p]].status = "RUNNING"
    /\ rows[job[p]].owner = p

\* What RunnerOwnsRow rests on: rows not inserted yet are untouched, a selected job
\* exists, and a stored job stays DONE or purged, uploaded before its disk is freed.
NewRows == \A j \in Jobs : j > created => rows[j].status = "NEW"

ClaimHasJob == \A p \in Procs : pc[p] = "claim" => job[p] \in Jobs

StoredRow ==
  \A p \in Procs : pc[p] \in Storing =>
    /\ job[p] \in Jobs
    /\ rows[job[p]].status \in {"DONE", "DELETED"}
    /\ pc[p] = "clean" => rows[job[p]].uploaded \/ rows[job[p]].status = "DELETED"

TodoPositive == \A w \in Workers : pc[w] \in {"next", "sensor", "line"} => todo[w] > 0

\* The inductive invariant: every process's program counter agrees with the table.
IInv == /\ TypeOK
        /\ NewRows
        /\ RunnerOwnsRow
        /\ ClaimHasJob
        /\ StoredRow
        /\ TodoPositive

\* No job is ever run by two processes at once, whichever way each claimed it:
\* pop_next in its transaction, or claim_job_http in a SELECT and a later UPDATE.
SingleRunner == \A j \in Jobs : \A p, q \in Runners(j) : p = q

\* The result of a finished scan is not lost: until the row says it was uploaded,
\* all of it is on the daemon's disk, wherever the daemon dies in between.  There is
\* one exception, the code's own: another job that shares the directory freed it
\* after its upload.
Freed(k) == \/ rows[k].status = "DONE" /\ rows[k].uploaded
            \/ rows[k].status = "DELETED"

Intact(j) == \/ j \in disk
             \/ \E k \in Jobs \ {j} : SameDir(j, k) /\ Freed(k)

ResultKept ==
  \A j \in Jobs : rows[j].status = "DONE" /\ rows[j].owner \in Workers =>
    rows[j].uploaded \/ Intact(j)

\* A job that is done, failed or cancelled is never put back, claimed again or
\* finished differently; it can only be purged.  None of the writers checks this.
FinalIsFinal ==
  [][\A j \in Jobs : rows[j].status \in Finished =>
       rows'[j].status \in {rows[j].status, "DELETED"}]_vars

\* The queue with its table, transactions, daemons and HTTP clients implements
\* the board of module JobBoard: one taker per job, settled by its taker only.
Place(s) == CASE s = "NEW" -> "unborn"
              [] s = "QUEUED" -> "queued"
              [] s = "RUNNING" -> "taken"
              [] s \in {"DONE", "FAILED"} -> "finished"
              [] s = "CANCELLED" -> "withdrawn"
              [] s = "DELETED" -> "purged"

boardOf == [j \in Jobs |-> Place(rows[j].status)]
busyOf == [p \in Procs |-> IF pc[p] \in Holding THEN job[p] ELSE NoJob]

Board == INSTANCE JobBoard WITH board <- boardOf, busy <- busyOf

ImplementsBoard == Board!Spec

-------------------------------------------------------------------------------
(* Liveness.                                                               *)

\* "user jobs (priority 0) preempt everything" (scan_worker.py): a queued user
\* job is eventually started (or cancelled), unless every daemon comes to run a
\* user job.  It needs the interrupt check: nothing says that scripts end.
AllUrgent == \A w \in Workers :
               pc[w] \in Holding /\ rows[job[w]].priority = PRIORITY_USER

UrgentStarts ==
  \A j \in Jobs : rows[j].status = "QUEUED" /\ rows[j].priority = PRIORITY_USER
                     ~> rows[j].status # "QUEUED" \/ AllUrgent

\* Every claim ends: a job that is RUNNING is eventually done, failed or back in
\* the queue, when scripts end, no process dies and no database write fails.
ClaimsEnd ==
  ScriptsEnd => \A j \in Jobs : rows[j].status = "RUNNING" ~> rows[j].status # "RUNNING"

===============================================================================
