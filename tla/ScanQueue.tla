------------------------------- MODULE ScanQueue -------------------------------
(***************************************************************************)
(* The scan job queue: one SQLite table (scan_queue.py) shared by          *)
(*   - the worker daemons of the home machines (scan_worker.py), which     *)
(*     claim with pop_next, run the job's sensors one after the other,     *)
(*     give the job back when something more urgent waits, and invent idle *)
(*     jobs over the coverage grid when the table has nothing queued;      *)
(*   - remote workers, which claim and finish over HTTP (wrecks_api);      *)
(*   - users, who push, cancel and purge over HTTP or the command line.    *)
(*                                                                         *)
(* Every SQL statement or BEGIN IMMEDIATE transaction is one step; between *)
(* two of them every other process may run, and the process may die.       *)
(* Job j is the j-th row inserted, so created_at order is numeric order.   *)
(***************************************************************************)
EXTENDS Naturals, FiniteSets

CONSTANTS Workers,      \* scan_worker.py daemons
          HttpWorkers,  \* clients of POST /jobs/claim and /jobs/{id}/finish
          Capable,      \* the remote workers that advertise has_gpu
          None,         \* no worker
          Wanted,       \* priorities users ask for
          GpuFlags,     \* whether what they ask for needs a GPU
          PauseFlags,   \* what they write to the pause flag
          MaxJobs,      \* bound: rows ever inserted
          NumTiles,     \* tiles of COVERAGE_GRID
          NumSensors,   \* length of a job's sensor list
          Seconds,      \* readings of the wall clock
          MaxFaults,    \* bound: crashes and failed database writes
          MaxStops      \* bound: SIGTERMs sent to daemons

Procs == Workers \cup HttpWorkers
Jobs == 1..MaxJobs
Tiles == 1..NumTiles
NoJob == 0
NoTile == 0             \* a label that is not of the form idle:<lake>:<lat>,<lon>

PRIORITY_USER == 0
PRIORITY_DIRECTED == 1
PRIORITY_IDLE == 2
Priorities == {PRIORITY_USER, PRIORITY_DIRECTED, PRIORITY_IDLE}

ASSUME ScanQueueAssumption ==
         /\ Workers \cap HttpWorkers = {}
         /\ Capable \subseteq HttpWorkers
         /\ None \notin Procs
         /\ Wanted \subseteq Priorities
         /\ GpuFlags \subseteq BOOLEAN
         /\ PauseFlags \subseteq BOOLEAN
         /\ MaxJobs \in Nat
         /\ NumTiles \in Nat \ {0}
         /\ NumSensors \in Nat \ {0}
         /\ MaxFaults \in Nat
         /\ MaxStops \in Nat

\* "NEW" is a row not inserted yet, "DELETED" one that clear-done removed.
Statuses == {"NEW", "QUEUED", "RUNNING", "DONE", "FAILED", "CANCELLED", "DELETED"}
Finished == {"DONE", "FAILED", "CANCELLED"}

Row == [status : Statuses, priority : Priorities, tile : Tiles \cup {NoTile},
        gpu : BOOLEAN, owner : Procs \cup {None}, uploaded : BOOLEAN]

VARIABLES
  rows,       \* the table scan_jobs
  created,    \* how many rows were ever inserted
  pc,         \* where each process is
  job,        \* _CURRENT_JOB of a daemon; the job a remote worker selected or runs
  pick,       \* the coverage tile a daemon chose and has not pushed yet
  todo,       \* sensors of its job a daemon has still to run
  stop,       \* _STOP of a daemon: SIGTERM was received
  paused,     \* the "paused" key of worker_state.json
  hits,       \* band_scores.json: tiles for which some sensor was ever a hit
  made,       \* the second in which a job's result directory was last named
  disk,       \* jobs with a directory from which nothing was deleted since then
  claimLock,  \* _queue_claim_lock of the API server
  faults,     \* faults so far
  stops       \* SIGTERMs so far

vars == <<rows, created, pc, job, pick, todo, stop, paused, hits, made, disk,
          claimLock, faults, stops>>

local == <<pick, todo, stop>>    \* the state of daemons only
results == <<made, disk>>        \* their result directories
files == <<paused, hits, results>>  \* the state on their disk
counts == <<faults, stops>>

\* "poll" top of the loop; "pick", "push", "pop" the idle path of _run_once;
\* "ram" the pre-flight check; "next" top of the sensor loop; "sensor" blocked in
\* readline; "line" the interrupt check after it; then what _run_once does with
\* the outcome; "down" not running.  Remote: "poll", "claim" between SELECT and
\* UPDATE, "work".
Holding == {"ram", "next", "sensor", "line", "requeue", "done", "failed", "work"}
Storing == {"upload", "record", "clean"}
Stages == Holding \cup Storing \cup {"poll", "pick", "push", "pop", "claim", "down"}

Queued == {j \in Jobs : rows[j].status = "QUEUED"}

\* Every process that holds job j, in the sense that it is running it now.
Runners(j) == {p \in Procs : job[p] = j /\ pc[p] \in Holding}

Init ==
  /\ rows = [j \in Jobs |-> [status |-> "NEW", priority |-> PRIORITY_IDLE, tile |-> NoTile,
                             gpu |-> FALSE, owner |-> None, uploaded |-> FALSE]]
  /\ created = 0
  /\ pc = [p \in Procs |-> "poll"]
  /\ job = [p \in Procs |-> NoJob]
  /\ pick = [w \in Workers |-> NoTile]
  /\ todo = [w \in Workers |-> 0]
  /\ stop = [w \in Workers |-> FALSE]
  /\ paused = FALSE
  /\ hits = {}
  /\ made = [j \in Jobs |-> None]
  /\ disk = {}
  /\ claimLock = None
  /\ faults = 0
  /\ stops = 0

-------------------------------------------------------------------------------
(* The table's operations, as state functions of the row they write.       *)

SetStatus(j, s) == rows' = [rows EXCEPT ![j].status = s]

Insert(priority, tile, gpu) ==
  /\ created < MaxJobs
  /\ created' = created + 1
  /\ rows' = [rows EXCEPT ![created + 1] =
                [status |-> "QUEUED", priority |-> priority, tile |-> tile,
                 gpu |-> gpu, owner |-> None, uploaded |-> FALSE]]

re_queue(j) == rows' = [rows EXCEPT ![j].status = "QUEUED", ![j].owner = None]

Start(j, p) == rows' = [rows EXCEPT ![j].status = "RUNNING", ![j].owner = p]

\* ORDER BY priority ASC, created_at ASC
Before(j, k) == \/ rows[j].priority < rows[k].priority
                \/ rows[j].priority = rows[k].priority /\ j < k

\* The row pop_next selects.
Selected(j) == j \in Queued /\ \A k \in Queued \ {j} : Before(j, k)

\* Wrong on purpose: the order of urgency the other way round.
has_urgent_Inverted(priority) == \E j \in Queued : rows[j].priority > priority

has_urgent(priority) == \E j \in Queued : rows[j].priority < priority

\* ORDER BY priority DESC, created_at ASC, over the rows this client may run.
HttpBefore(j, k) == \/ rows[j].priority > rows[k].priority
                    \/ rows[j].priority = rows[k].priority /\ j < k

Suitable(h) == {j \in Queued : rows[j].gpu => h \in Capable}

HttpSelected(h, j) == j \in Suitable(h) /\ \A k \in Suitable(h) \ {j} : HttpBefore(j, k)

\* next_idle_tile: the labels that count as scanned, and the tile returned.
DoneLabels == {rows[j].tile : j \in {k \in Jobs : rows[k].status \in {"DONE", "RUNNING"}}}

NextIdleTile(t) == IF Tiles \subseteq DoneLabels
                     THEN t = 1
                     ELSE t \notin DoneLabels /\ \A u \in 1..(t - 1) : u \in DoneLabels

-------------------------------------------------------------------------------
(* Users: POST /scan/queue, POST /jobs, the command line, the pause file.  *)

\* Rows that daemons have decided to insert count against the bound, so that
\* the bound never blocks a daemon in the middle of _run_once.
Room == created + Cardinality({w \in Workers : pc[w] \in {"pick", "push"}}) < MaxJobs

Submit == /\ Room
          /\ \E priority \in Wanted, gpu \in GpuFlags : Insert(priority, NoTile, gpu)
          /\ UNCHANGED <<pc, job, claimLock, counts, local, files>>

\* Wrong on purpose: UPDATE without AND status='QUEUED'.
Cancel_AnyStatus(j) == /\ rows[j].status \notin {"NEW", "DELETED"}
                       /\ SetStatus(j, "CANCELLED")
                       /\ UNCHANGED <<created, pc, job, claimLock, counts, local, files>>

Cancel(j) == /\ rows[j].status = "QUEUED"
             /\ SetStatus(j, "CANCELLED")
             /\ UNCHANGED <<created, pc, job, claimLock, counts, local, files>>

\* Wrong on purpose: DELETE of everything that is not queued.
ClearDone_Running ==
  /\ rows' = [j \in Jobs |-> IF rows[j].status \in Finished \cup {"RUNNING"}
                               THEN [rows[j] EXCEPT !.status = "DELETED"] ELSE rows[j]]
  /\ UNCHANGED <<created, pc, job, claimLock, counts, local, files>>

ClearDone == /\ rows' = [j \in Jobs |-> IF rows[j].status \in Finished
                                          THEN [rows[j] EXCEPT !.status = "DELETED"]
                                          ELSE rows[j]]
             /\ UNCHANGED <<created, pc, job, claimLock, counts, local, files>>

SetPause(on) == /\ paused' = on
                /\ UNCHANGED <<rows, created, pc, job, claimLock, counts, hits, results, local>>

Sigterm(w) == /\ pc[w] # "down"
              /\ stops < MaxStops /\ stops' = stops + 1
              /\ stop' = [stop EXCEPT ![w] = TRUE]
              /\ UNCHANGED <<rows, created, pc, job, pick, todo, claimLock, faults, files>>

-------------------------------------------------------------------------------
(* The daemon: run_daemon, _run_once, _execute_job, _run_sensor.           *)

Goto(p, stage) == pc' = [pc EXCEPT ![p] = stage]

\* Back to the top of run_daemon's loop, without a job.
Home(p) == Goto(p, "poll") /\ job' = [job EXCEPT ![p] = NoJob]

\* pop_next: one BEGIN IMMEDIATE transaction.
Pop(w) == \E j \in Jobs : /\ Selected(j)
                          /\ Start(j, w)
                          /\ job' = [job EXCEPT ![w] = j]
                          /\ Goto(w, "ram")

PopNext(w) == /\ pc[w] = "poll" /\ ~stop[w]
              /\ \/ Pop(w)
                 \/ /\ Queued = {} /\ Room
                    /\ Goto(w, "pick") /\ UNCHANGED <<rows, job>>
              /\ UNCHANGED <<created, claimLock, counts, local, files>>

PickTile(w) == /\ pc[w] = "pick"
               /\ \E t \in Tiles : NextIdleTile(t) /\ pick' = [pick EXCEPT ![w] = t]
               /\ Goto(w, "push")
               /\ UNCHANGED <<rows, created, job, todo, stop, claimLock, counts, files>>

PushIdle(w) == /\ pc[w] = "push"
               /\ Insert(PRIORITY_IDLE, pick[w], FALSE)
               /\ pick' = [pick EXCEPT ![w] = NoTile]
               /\ Goto(w, "pop")
               /\ UNCHANGED <<job, todo, stop, claimLock, counts, files>>

\* The second pop_next: the tile it pushed, or whatever else is there by now.
PopAgain(w) == /\ pc[w] = "pop"
               /\ \/ Pop(w)
                  \/ Queued = {} /\ Home(w) /\ UNCHANGED rows
               /\ UNCHANGED <<created, claimLock, counts, local, files>>

\* Low memory defers an idle job; any other job proceeds into _execute_job.
RamLow(w) == /\ pc[w] = "ram" /\ rows[job[w]].priority = PRIORITY_IDLE
             /\ re_queue(job[w])
             /\ Home(w)
             /\ UNCHANGED <<created, claimLock, counts, local, files>>

\* A result directory is named after the second and the label, not after the job:
\* jobs of one label share it when they start within one second.  The labels users
\* give are not told apart.
SameDir(j, k) == rows[j].tile = rows[k].tile /\ made[j] = made[k]

\* _execute_job names the directory and overwrites the state file.
Execute(w) == /\ pc[w] = "ram"
              /\ Goto(w, "next")
              /\ todo' = [todo EXCEPT ![w] = NumSensors]
              /\ paused' = FALSE
              /\ \E second \in Seconds : made' = [made EXCEPT ![job[w]] = second]
              /\ disk' = disk \cup {job[w]}
              /\ UNCHANGED <<rows, created, job, pick, stop, hits, claimLock, counts>>

\* Wrong on purpose: a stopped daemon leaves at once, without re_queue.
StartSensor_JustQuit(w) == /\ pc[w] = "next"
                           /\ IF stop[w] THEN Goto(w, "down") ELSE Goto(w, "sensor")
                           /\ UNCHANGED <<rows, created, job, claimLock, counts, local, files>>

\* The top of the sensor loop, where _STOP counts as an interrupt.
StartSensor(w) == /\ pc[w] = "next"
                  /\ Goto(w, IF stop[w] THEN "requeue" ELSE "sensor")
                  /\ UNCHANGED <<rows, created, job, claimLock, counts, local, files>>

\* _execute_job raises (bad JSON, a directory or the summary cannot be written).
JobRaises(w) == /\ pc[w] \in {"ram", "next", "requeue", "done"}
                /\ Goto(w, "failed")
                /\ UNCHANGED <<rows, created, job, claimLock, counts, local, files>>

\* The sensor script prints a line: only then is interrupt_check called.
SensorLine(w) == /\ pc[w] = "sensor"
                 /\ Goto(w, "line")
                 /\ UNCHANGED <<rows, created, job, claimLock, counts, local, files>>

InterruptCheck(w) ==
  /\ pc[w] = "line"
  /\ Goto(w, IF has_urgent(rows[job[w]].priority) \/ stop[w] THEN "requeue" ELSE "sensor")
  /\ UNCHANGED <<rows, created, job, claimLock, counts, local, files>>

\* The script ends (exit, OOM kill, error, or a failing interrupt check); its
\* band score is recorded; a failed sensor does not stop the loop.
SensorEnd(w, hit) ==
  /\ pc[w] = "sensor"
  /\ hits' = IF hit /\ rows[job[w]].tile # NoTile THEN hits \cup {rows[job[w]].tile} ELSE hits
  /\ todo' = [todo EXCEPT ![w] = @ - 1]
  /\ Goto(w, IF todo[w] = 1 THEN "done" ELSE "next")
  /\ UNCHANGED <<rows, created, job, pick, stop, paused, results, claimLock, counts>>

\* _run_once after _execute_job returned "interrupted".
ReQueue(w) == /\ pc[w] = "requeue"
              /\ re_queue(job[w])
              /\ Home(w)
              /\ paused' = FALSE
              /\ UNCHANGED <<created, hits, results, claimLock, counts, local>>

MarkDone(w) == /\ pc[w] = "done"
               /\ SetStatus(job[w], "DONE")
               /\ Goto(w, "upload")
               /\ UNCHANGED <<created, job, claimLock, counts, local, files>>

MarkFailed(w) == /\ pc[w] = "failed"
                 /\ SetStatus(job[w], "FAILED")
                 /\ Home(w)
                 /\ UNCHANGED <<created, claimLock, counts, local, files>>

\* Wrong on purpose: the disk is freed before the upload is recorded.
Upload_FreeFirst(w) == /\ pc[w] = "upload"
                       /\ \/ Goto(w, "clean") /\ UNCHANGED <<job, paused>>
                          \/ Home(w) /\ paused' \in {paused, FALSE}
                       /\ UNCHANGED <<rows, created, hits, results, claimLock, counts, local>>

\* The upload succeeds; or it is skipped or fails, and the job ends (a scp that
\* times out raises, so the state file is not written).
Upload(w) == /\ pc[w] = "upload"
             /\ \/ Goto(w, "record") /\ UNCHANGED <<job, paused>>
                \/ Home(w) /\ paused' \in {paused, FALSE}
             /\ UNCHANGED <<rows, created, hits, results, claimLock, counts, local>>

\* Wrong on purpose: the upload is a status of its own.
MarkUploaded_Status(w) ==
  /\ pc[w] = "record"
  /\ SetStatus(job[w], "UPLOADED")
  /\ Home(w)
  /\ paused' = FALSE
  /\ UNCHANGED <<created, hits, results, claimLock, counts, local>>

\* mark_uploaded: no row is touched if clear-done removed it meanwhile.
MarkUploaded(w) ==
  /\ pc[w] = "record"
  /\ rows' = IF rows[job[w]].status = "DELETED"
               THEN rows ELSE [rows EXCEPT ![job[w]].uploaded = TRUE]
  /\ IF rows[job[w]].priority = PRIORITY_IDLE
       THEN Goto(w, "clean") /\ UNCHANGED <<job, paused>>
       ELSE Home(w) /\ paused' = FALSE
  /\ UNCHANGED <<created, hits, results, claimLock, counts, local>>

\* rmtree of the directory of an uploaded idle job, with whatever else is in it by
\* then; its failure is ignored.
FreeDisk(w) == /\ pc[w] = "clean"
               /\ disk' \in {disk, disk \ {j \in Jobs : SameDir(j, job[w])}}
               /\ Home(w)
               /\ paused' = FALSE
               /\ UNCHANGED <<rows, created, hits, made, claimLock, counts, local>>

\* A database call raises (locked for longer than its timeout): the exception
\* reaches run_daemon, which logs it and polls again.
DbError(w) == /\ pc[w] \in {"pick", "push", "pop", "ram", "requeue", "done", "failed", "record"}
              /\ pc[w] = "ram" => rows[job[w]].priority = PRIORITY_IDLE
              /\ faults < MaxFaults /\ faults' = faults + 1
              /\ Home(w)
              /\ pick' = [pick EXCEPT ![w] = NoTile]
              /\ UNCHANGED <<rows, created, todo, stop, claimLock, files, stops>>

\* The loop condition of run_daemon.
Quit(w) == /\ pc[w] = "poll" /\ stop[w]
           /\ Goto(w, "down")
           /\ UNCHANGED <<rows, created, job, claimLock, counts, local, files>>

Crash(w) == /\ pc[w] # "down"
            /\ faults < MaxFaults /\ faults' = faults + 1
            /\ Goto(w, "down")
            /\ job' = [job EXCEPT ![w] = NoJob]
            /\ pick' = [pick EXCEPT ![w] = NoTile]
            /\ UNCHANGED <<rows, created, todo, stop, claimLock, files, stops>>

\* Wrong on purpose: a starting daemon puts every RUNNING row back.
Restart_Recover(w) ==
  /\ pc[w] = "down"
  /\ Goto(w, "poll")
  /\ rows' = [j \in Jobs |-> IF rows[j].status = "RUNNING"
                               THEN [rows[j] EXCEPT !.status = "QUEUED", !.owner = None]
                               ELSE rows[j]]
  /\ todo' = [todo EXCEPT ![w] = 0]
  /\ stop' = [stop EXCEPT ![w] = FALSE]
  /\ UNCHANGED <<created, job, pick, claimLock, counts, files>>

\* systemd: Restart=always.
Restart(w) == /\ pc[w] = "down"
              /\ Goto(w, "poll")
              /\ todo' = [todo EXCEPT ![w] = 0]
              /\ stop' = [stop EXCEPT ![w] = FALSE]
              /\ UNCHANGED <<rows, created, job, pick, claimLock, counts, files>>

-------------------------------------------------------------------------------
(* The HTTP interface for remote workers.                                  *)

\* claim_job_http up to its SELECT, under _queue_claim_lock.
ClaimSelect(h) == /\ pc[h] = "poll" /\ claimLock = None
                  /\ \E j \in Jobs : HttpSelected(h, j) /\ job' = [job EXCEPT ![h] = j]
                  /\ claimLock' = h
                  /\ Goto(h, "claim")
                  /\ UNCHANGED <<rows, created, counts, local, files>>

\* Wrong on purpose: UPDATE ... WHERE id=? only.
ClaimUpdate_ById(h) == /\ pc[h] = "claim"
                       /\ Start(job[h], h) /\ Goto(h, "work")
                       /\ claimLock' = None
                       /\ UNCHANGED <<created, job, counts, local, files>>

\* UPDATE ... WHERE id=? AND status='QUEUED'; no row affected: someone else got it.
ClaimUpdate(h) == /\ pc[h] = "claim"
                  /\ IF rows[job[h]].status = "QUEUED"
                       THEN Start(job[h], h) /\ Goto(h, "work") /\ UNCHANGED job
                       ELSE Home(h) /\ UNCHANGED rows
                  /\ claimLock' = None
                  /\ UNCHANGED <<created, counts, local, files>>

\* The UPDATE raises (database locked for longer than its timeout): a 500.
ClaimError(h) == /\ pc[h] = "claim"
                 /\ faults < MaxFaults /\ faults' = faults + 1
                 /\ Home(h)
                 /\ claimLock' = None
                 /\ UNCHANGED <<rows, created, local, files, stops>>

FinishHttp(h) == /\ pc[h] = "work"
                 /\ \E s \in {"DONE", "FAILED"} : SetStatus(job[h], s)
                 /\ Home(h)
                 /\ UNCHANGED <<created, claimLock, counts, local, files>>

\* The remote worker is gone, or never got the reply to its claim.
LoseHttp(h) == /\ pc[h] = "work"
               /\ faults < MaxFaults /\ faults' = faults + 1
               /\ Home(h)
               /\ UNCHANGED <<rows, created, claimLock, local, files, stops>>

-------------------------------------------------------------------------------
Users == \/ Submit \/ ClearDone
         \/ \E j \in Jobs : Cancel(j)
         \/ \E on \in PauseFlags : SetPause(on)
         \/ \E w \in Workers : Sigterm(w)

\* What the daemon's own code does next, whatever it is.
Daemon(w) == \/ PopNext(w) \/ PickTile(w) \/ PushIdle(w) \/ PopAgain(w)
             \/ Execute(w) \/ StartSensor(w) \/ InterruptCheck(w)
             \/ ReQueue(w) \/ MarkDone(w) \/ MarkFailed(w)
             \/ Upload(w) \/ MarkUploaded(w) \/ FreeDisk(w)
             \/ Quit(w)

\* What befalls it: memory, the sensor scripts, exceptions, the machine.
Sensor(w) == SensorLine(w) \/ \E hit \in BOOLEAN : SensorEnd(w, hit)
Misfortune(w) == RamLow(w) \/ JobRaises(w) \/ DbError(w) \/ Crash(w)

Http(h) == ClaimSelect(h) \/ ClaimUpdate(h) \/ ClaimError(h) \/ FinishHttp(h) \/ LoseHttp(h)

Next == \/ Users
        \/ \E w \in Workers : Daemon(w) \/ Sensor(w) \/ Misfortune(w) \/ Restart(w)
        \/ \E h \in HttpWorkers : Http(h)

Spec == Init /\ [][Next]_vars

\* A daemon runs its code and systemd restarts it; remote workers finish what
\* they claimed.  Nothing is assumed of users, and nothing of the sensor scripts,
\* which are not the daemon's code.
SilentSpec == /\ Spec
              /\ \A w \in Workers : WF_vars(Daemon(w)) /\ WF_vars(Restart(w))
              /\ \A h \in HttpWorkers : WF_vars(ClaimUpdate(h) \/ FinishHttp(h))

\* The scripts go on printing, but need not end.
ChattySpec == SilentSpec /\ \A w \in Workers : WF_vars(Sensor(w))

\* The scripts end.
ScriptsEnd == \A w \in Workers : SF_vars(\E hit \in BOOLEAN : SensorEnd(w, hit))
===============================================================================
