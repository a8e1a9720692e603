---------------------------- MODULE ScanQueueProofs ----------------------------
(***************************************************************************)
(* For every set of jobs and processes: the program counters of the        *)
(* daemons and remote workers agree with the table (IInv), what follows    *)
(* for finished jobs, and that the queue implements the job board.         *)
(***************************************************************************)
EXTENDS ScanQueueProps, TLAPS

USE ScanQueueAssumption DEF ScanQueueAssumption

\* Every row keeps its type, and the rows other than row j keep everything.
Others(j) == /\ rows' \in [Jobs -> Row]
             /\ \A k \in Jobs \ {j} : rows'[k] = rows[k]

LEMMA SetStatusEffect ==
  ASSUME rows \in [Jobs -> Row], NEW j \in Jobs, NEW s \in Statuses, SetStatus(j, s)
  PROVE  /\ Others(j)
         /\ rows'[j].status = s
         /\ rows'[j].owner = rows[j].owner
         /\ rows'[j].uploaded = rows[j].uploaded
         /\ rows'[j].tile = rows[j].tile
  BY SMTT(30) DEF SetStatus, Others, Row

LEMMA ReQueueEffect ==
  ASSUME rows \in [Jobs -> Row], NEW j \in Jobs, re_queue(j)
  PROVE  Others(j) /\ rows'[j].status = "QUEUED" /\ rows'[j].tile = rows[j].tile
  BY ZenonT(30) DEF re_queue, Others, Row, Statuses

LEMMA UploadedEffect ==
  ASSUME rows \in [Jobs -> Row], NEW j \in Jobs, rows' = [rows EXCEPT ![j].uploaded = TRUE]
  PROVE  /\ Others(j)
         /\ rows'[j].status = rows[j].status
         /\ rows'[j].uploaded
         /\ rows'[j].tile = rows[j].tile
  BY ZenonT(30) DEF Others, Row

LEMMA StartEffect ==
  ASSUME rows \in [Jobs -> Row], NEW j \in Jobs, NEW p \in Procs, Start(j, p)
  PROVE  /\ Others(j)
         /\ rows'[j].status = "RUNNING"
         /\ rows'[j].owner = p
         /\ rows'[j].tile = rows[j].tile
  BY ZenonT(30) DEF Start, Others, Row, Statuses

LEMMA InsertEffect ==
  ASSUME rows \in [Jobs -> Row], created \in 0..MaxJobs,
         NEW priority \in Priorities, NEW tile \in Tiles \cup {NoTile}, NEW gpu \in BOOLEAN,
         Insert(priority, tile, gpu)
  PROVE  /\ created + 1 \in Jobs
         /\ created' = created + 1
         /\ created' \in 0..MaxJobs
         /\ Others(created + 1)
         /\ rows'[created + 1].status = "QUEUED"
  BY DEF Insert, Others, Row, Statuses, Jobs

LEMMA ClearDoneEffect ==
  ASSUME rows \in [Jobs -> Row], ClearDone
  PROVE  /\ rows' \in [Jobs -> Row]
         /\ \A j \in Jobs : /\ rows[j].status \notin Finished => rows'[j] = rows[j]
                            /\ rows[j].status \in Finished => rows'[j].status = "DELETED"
                            /\ rows'[j].tile = rows[j].tile
  BY DEF ClearDone, Row, Statuses

-------------------------------------------------------------------------------
(* The inductive invariant.                                                *)

LEMMA InitIInv == Init => IInv
  <1> SUFFICES ASSUME Init PROVE IInv
    OBVIOUS
  <1>1. rows \in [Jobs -> Row] /\ \A j \in Jobs : rows[j].status = "NEW"
    BY DEF Init, Row, Statuses, Priorities, PRIORITY_IDLE
  <1>2. TypeOK
    <2>1. created \in 0..MaxJobs
      BY DEF Init
    <2>2. pc \in [Procs -> Stages] /\ job \in [Procs -> Jobs \cup {NoJob}]
      BY DEF Init, Stages
    <2>3. /\ pick \in [Workers -> Tiles \cup {NoTile}]
          /\ todo \in [Workers -> Nat]
          /\ stop \in [Workers -> BOOLEAN]
      BY DEF Init
    <2>4. QED
      BY <1>1, <2>1, <2>2, <2>3 DEF Init, TypeOK
  <1>3. QED
    BY <1>1, <1>2 DEF Init, IInv, NewRows, RunnerOwnsRow, ClaimHasJob, StoredRow, TodoPositive,
                      Holding, Storing, Procs

\* The steps of users: they run no job, and touch no row that is running.
LEMMA UsersIInv == IInv /\ Users => IInv'
  <1> SUFFICES ASSUME IInv, Users PROVE IInv'
    OBVIOUS
  <1> USE DEF IInv, TypeOK, NewRows, RunnerOwnsRow, ClaimHasJob, StoredRow, TodoPositive,
              local, files, results, counts
  <1>1. CASE Submit
    <2>1. PICK priority \in Priorities, gpu \in BOOLEAN : Insert(priority, NoTile, gpu)
      BY <1>1 DEF Submit
    <2>2. /\ created + 1 \in Jobs /\ created' = created + 1 /\ created' \in 0..MaxJobs
          /\ Others(created + 1) /\ rows'[created + 1].status = "QUEUED"
      <3>1. rows \in [Jobs -> Row] /\ created \in 0..MaxJobs
        OBVIOUS
      <3>2. NoTile \in Tiles \cup {NoTile}
        OBVIOUS
      <3> HIDE DEF IInv
      <3>3. QED
        BY <2>1, <3>1, <3>2, InsertEffect
    <2>3. rows[created + 1].status = "NEW"
      BY <2>2 DEF Jobs
    <2>4. /\ pc' = pc /\ job' = job
          /\ UNCHANGED <<pick, todo, stop, paused, hits, made, disk, claimLock, faults, stops>>
      BY <1>1 DEF Submit
    <2>5. TypeOK'
      BY <2>2, <2>4 DEF Others
    <2>6. NewRows'
      BY <2>2 DEF Others, Jobs
    <2>7. RunnerOwnsRow' /\ StoredRow'
      BY <2>2, <2>3, <2>4 DEF Others
    <2>8. QED
      BY <2>4, <2>5, <2>6, <2>7
  <1>2. CASE ClearDone
    BY <1>2, ClearDoneEffect DEF ClearDone, Finished
  <1>3. ASSUME NEW j \in Jobs, Cancel(j) PROVE IInv'
    BY <1>3, SetStatusEffect DEF Cancel, Others, Statuses, Storing
  <1>4. ASSUME NEW on \in BOOLEAN, SetPause(on) PROVE IInv'
    BY <1>4 DEF SetPause
  <1>5. ASSUME NEW w \in Workers, Sigterm(w) PROVE IInv'
    BY <1>5 DEF Sigterm
  <1>6. QED
    BY <1>1, <1>2, <1>3, <1>4, <1>5 DEF Users

\* A process that holds or stores job j and rewrites row j, and only it, leaves
\* every other process's agreement with the table intact.
LEMMA OthersUndisturbed ==
  ASSUME IInv, NEW w \in Procs, NEW j \in Jobs, Others(j),
         \A p \in Procs \ {w} : pc'[p] = pc[p] /\ job'[p] = job[p],
         rows[j].status \in {"QUEUED", "RUNNING"},
         \A p \in Procs \ {w} : pc[p] \in Holding => job[p] # j
  PROVE  \A p \in Procs \ {w} :
           /\ pc'[p] \in Holding =>
                job'[p] \in Jobs /\ rows'[job'[p]].status = "RUNNING" /\ rows'[job'[p]].owner = p
           /\ pc'[p] = "claim" => job'[p] \in Jobs
           /\ pc'[p] \in Storing =>
                /\ job'[p] \in Jobs
                /\ rows'[job'[p]].status \in {"DONE", "DELETED"}
                /\ pc'[p] = "clean" =>
                     rows'[job'[p]].uploaded \/ rows'[job'[p]].status = "DELETED"
  BY DEF IInv, RunnerOwnsRow, ClaimHasJob, StoredRow, Others

\* A step of w that writes no row and ends in a stage where its job needs no more
\* than it needed before.
LEMMA NoRowWritten ==
  ASSUME IInv, NEW w \in Procs, NEW s \in Stages, UNCHANGED <<rows, created, job>>,
         pc' = [pc EXCEPT ![w] = s],
         s \in Holding => pc[w] \in Holding,
         s = "claim" => pc[w] = "claim",
         s \in Storing => pc[w] \in Storing /\ s # "clean"
  PROVE  /\ pc' \in [Procs -> Stages]
         /\ NewRows' /\ RunnerOwnsRow' /\ ClaimHasJob' /\ StoredRow'
  BY DEF IInv, TypeOK, NewRows, RunnerOwnsRow, ClaimHasJob, StoredRow

\* The same when w lets go of its job.
LEMMA JobDropped ==
  ASSUME IInv, NEW w \in Procs, NEW s \in {"poll", "down"}, UNCHANGED <<rows, created>>,
         pc' = [pc EXCEPT ![w] = s], job' = [job EXCEPT ![w] = NoJob]
  PROVE  /\ pc' \in [Procs -> Stages] /\ job' \in [Procs -> Jobs \cup {NoJob}]
         /\ NewRows' /\ RunnerOwnsRow' /\ ClaimHasJob' /\ StoredRow'
  BY DEF IInv, TypeOK, NewRows, RunnerOwnsRow, ClaimHasJob, StoredRow, Holding, Storing, Stages

\* A process that runs its job writes its row and lets go of it.
LEMMA JobSettled ==
  ASSUME IInv, NEW w \in Procs, pc[w] \in Holding, NEW j \in Jobs, j = job[w], Others(j),
         UNCHANGED created, Home(w)
  PROVE  /\ rows' \in [Jobs -> Row]
         /\ pc' \in [Procs -> Stages] /\ job' \in [Procs -> Jobs \cup {NoJob}]
         /\ NewRows' /\ RunnerOwnsRow' /\ ClaimHasJob' /\ StoredRow'
  <1>1. rows[j].status = "RUNNING" /\ rows[j].owner = w
    BY DEF IInv, RunnerOwnsRow
  <1>2. \A p \in Procs \ {w} : pc[p] \in Holding => job[p] # j
    BY <1>1 DEF IInv, RunnerOwnsRow
  <1>3. \A p \in Procs \ {w} : pc'[p] = pc[p] /\ job'[p] = job[p]
    BY DEF Home, Goto, IInv, TypeOK
  <1>4. pc'[w] = "poll" /\ pc' \in [Procs -> Stages] /\ job' \in [Procs -> Jobs \cup {NoJob}]
    BY DEF Home, Goto, IInv, TypeOK, Stages
  <1>5. NewRows'
    BY <1>1 DEF IInv, NewRows, Others
  <1>6. RunnerOwnsRow' /\ ClaimHasJob' /\ StoredRow'
    BY <1>1, <1>2, <1>3, <1>4, OthersUndisturbed
       DEF RunnerOwnsRow, ClaimHasJob, StoredRow, Holding, Storing
  <1>7. QED
    BY <1>4, <1>5, <1>6 DEF Others

\* A process without a job claims the queued job j.
LEMMA JobTaken ==
  ASSUME IInv, NEW w \in Procs, NEW j \in Jobs, rows[j].status = "QUEUED", Start(j, w),
         UNCHANGED created, NEW s \in {"ram", "work"}, pc' = [pc EXCEPT ![w] = s],
         job' = [job EXCEPT ![w] = j]
  PROVE  /\ rows' \in [Jobs -> Row]
         /\ pc' \in [Procs -> Stages] /\ job' \in [Procs -> Jobs \cup {NoJob}]
         /\ NewRows' /\ RunnerOwnsRow' /\ ClaimHasJob' /\ StoredRow'
  <1>1. Others(j) /\ rows'[j].status = "RUNNING" /\ rows'[j].owner = w
    BY StartEffect DEF IInv, TypeOK
  <1>2. \A p \in Procs \ {w} : pc[p] \in Holding => job[p] # j
    BY DEF IInv, RunnerOwnsRow
  <1>3. /\ \A p \in Procs \ {w} : pc'[p] = pc[p] /\ job'[p] = job[p]
        /\ pc'[w] = s /\ job'[w] = j
        /\ pc' \in [Procs -> Stages] /\ job' \in [Procs -> Jobs \cup {NoJob}]
    BY DEF IInv, TypeOK, Stages, Holding
  <1>4. NewRows'
    BY <1>1 DEF IInv, NewRows, Others
  <1>5. RunnerOwnsRow' /\ ClaimHasJob' /\ StoredRow'
    BY <1>1, <1>2, <1>3, OthersUndisturbed
       DEF RunnerOwnsRow, ClaimHasJob, StoredRow, Holding, Storing
  <1>6. QED
    BY <1>1, <1>3, <1>4, <1>5 DEF Others

-------------------------------------------------------------------------------
(* The steps of a daemon.                                                  *)

\* Everything of IInv but the table and the program counters.
LEMMA SmallTypes ==
  ASSUME IInv
  PROVE  /\ pick \in [Workers -> Tiles \cup {NoTile}]
         /\ todo \in [Workers -> Nat]
         /\ stop \in [Workers -> BOOLEAN]
         /\ paused \in BOOLEAN /\ hits \subseteq Tiles /\ disk \subseteq Jobs
         /\ made \in [Jobs -> Seconds \cup {None}]
         /\ claimLock \in HttpWorkers \cup {None} /\ faults \in Nat /\ stops \in Nat
         /\ created \in 0..MaxJobs
         /\ rows \in [Jobs -> Row]
         /\ pc \in [Procs -> Stages] /\ job \in [Procs -> Jobs \cup {NoJob}]
         /\ TodoPositive
  BY DEF IInv, TypeOK

LEMMA PopIInv ==
  ASSUME IInv, NEW w \in Workers, Pop(w), UNCHANGED <<created, claimLock, counts, local, files>>
  PROVE  IInv'
  <1>1. PICK j \in Jobs : /\ rows[j].status = "QUEUED" /\ Start(j, w)
                          /\ job' = [job EXCEPT ![w] = j] /\ pc' = [pc EXCEPT ![w] = "ram"]
    BY DEF Pop, Selected, Queued, Goto
  <1>2. /\ rows' \in [Jobs -> Row]
        /\ pc' \in [Procs -> Stages] /\ job' \in [Procs -> Jobs \cup {NoJob}]
        /\ NewRows' /\ RunnerOwnsRow' /\ ClaimHasJob' /\ StoredRow'
    BY <1>1, JobTaken DEF Procs
  <1>3. TodoPositive'
    BY <1>1, SmallTypes DEF TodoPositive, local, Procs
  <1>4. QED
    BY <1>2, <1>3, SmallTypes DEF IInv, TypeOK, local, files, results, counts

LEMMA DaemonIInv ==
  ASSUME IInv, NEW w \in Workers, Daemon(w)
  PROVE  IInv'
  <1>0. w \in Procs
    BY DEF Procs
  <1> USE DEF local, files, results, counts
  <1>1. CASE PopNext(w)
    <2>1. CASE Pop(w)
      BY <1>1, <2>1, PopIInv DEF PopNext
    <2>2. CASE Queued = {} /\ Room /\ Goto(w, "pick") /\ UNCHANGED <<rows, job>>
      <3>1. pc' = [pc EXCEPT ![w] = "pick"] /\ "pick" \in Stages
        BY <2>2 DEF Goto, Stages
      <3>2. pc' \in [Procs -> Stages] /\ NewRows' /\ RunnerOwnsRow' /\ ClaimHasJob' /\ StoredRow'
        BY <1>0, <1>1, <2>2, <3>1, NoRowWritten DEF PopNext, Holding, Storing
      <3>3. QED
        BY <1>1, <2>2, <3>1, <3>2, SmallTypes DEF PopNext, IInv, TypeOK, TodoPositive, Procs
    <2>3. QED
      BY <1>1, <2>1, <2>2 DEF PopNext
  <1>2. CASE PickTile(w)
    <2>1. pc' = [pc EXCEPT ![w] = "push"] /\ "push" \in Stages
      BY <1>2 DEF PickTile, Goto, Stages
    <2>2. pc' \in [Procs -> Stages] /\ NewRows' /\ RunnerOwnsRow' /\ ClaimHasJob' /\ StoredRow'
      BY <1>0, <1>2, <2>1, NoRowWritten DEF PickTile, Holding, Storing
    <2>3. pick' \in [Workers -> Tiles \cup {NoTile}]
      BY <1>2, SmallTypes DEF PickTile
    <2>4. QED
      BY <1>2, <2>1, <2>2, <2>3, SmallTypes DEF PickTile, IInv, TypeOK, TodoPositive, Procs
  <1>3. CASE PushIdle(w)
    <2>1. /\ created + 1 \in Jobs /\ created' = created + 1 /\ created' \in 0..MaxJobs
          /\ Others(created + 1) /\ rows'[created + 1].status = "QUEUED"
      <3>1. PICK gpu \in BOOLEAN : Insert(PRIORITY_IDLE, pick[w], gpu)
        BY <1>3 DEF PushIdle
      <3>0. PRIORITY_IDLE \in Priorities
        BY DEF Priorities
      <3>2. pick[w] \in Tiles \cup {NoTile}
        BY SmallTypes
      <3>3. QED
        BY <3>0, <3>1, <3>2, InsertEffect, SmallTypes
    <2>2. rows[created + 1].status = "NEW"
      BY <2>1, SmallTypes DEF Jobs, IInv, NewRows
    <2>3. /\ pc' = [pc EXCEPT ![w] = "pop"] /\ job' = job
          /\ pc' \in [Procs -> Stages] /\ pick' \in [Workers -> Tiles \cup {NoTile}]
      BY <1>3, SmallTypes DEF PushIdle, Goto, Stages
    <2>4. NewRows'
      <3> SUFFICES ASSUME NEW j \in Jobs, j > created' PROVE rows'[j].status = "NEW"
        BY DEF NewRows
      <3>1. j # created + 1 /\ j > created
        BY <2>1, SmallTypes DEF Jobs
      <3>2. QED
        BY <2>1, <3>1 DEF Others, IInv, NewRows
    <2>5. RunnerOwnsRow' /\ ClaimHasJob' /\ StoredRow'
      BY <1>0, <2>1, <2>2, <2>3, SmallTypes
         DEF Others, IInv, RunnerOwnsRow, ClaimHasJob, StoredRow, Holding, Storing
    <2>6. QED
      BY <1>3, <2>1, <2>3, <2>4, <2>5, SmallTypes
         DEF PushIdle, IInv, TypeOK, TodoPositive, Others, Procs
  <1>4. CASE PopAgain(w)
    <2>1. CASE Pop(w)
      BY <1>4, <2>1, PopIInv DEF PopAgain
    <2>2. CASE Home(w) /\ UNCHANGED rows
      <3>1. pc' = [pc EXCEPT ![w] = "poll"] /\ job' = [job EXCEPT ![w] = NoJob]
        BY <2>2 DEF Home, Goto
      <3>2. QED
        BY <1>0, <1>4, <2>2, <3>1, JobDropped, SmallTypes
           DEF PopAgain, IInv, TypeOK, TodoPositive, Procs
    <2>3. QED
      BY <1>4, <2>1, <2>2 DEF PopAgain
  <1>5. CASE Execute(w)
    <2>1. pc' = [pc EXCEPT ![w] = "next"] /\ "next" \in Stages
      BY <1>5 DEF Execute, Goto, Stages, Holding
    <2>2. pc' \in [Procs -> Stages] /\ NewRows' /\ RunnerOwnsRow' /\ ClaimHasJob' /\ StoredRow'
      BY <1>0, <1>5, <2>1, NoRowWritten DEF Execute, Holding, Storing
    <2>3. todo' \in [Workers -> Nat] /\ TodoPositive'
      BY <1>5, <2>1, SmallTypes DEF Execute, TodoPositive, Procs
    <2>4. job[w] \in Jobs
      BY <1>0, <1>5 DEF Execute, Holding, IInv, RunnerOwnsRow
    <2>5. disk' \subseteq Jobs /\ made' \in [Jobs -> Seconds \cup {None}]
      BY <1>5, <2>4, SmallTypes DEF Execute
    <2>6. QED
      BY <1>5, <2>2, <2>3, <2>5, SmallTypes DEF Execute, IInv, TypeOK
  <1>6. CASE StartSensor(w)
    <2>1. PICK s \in {"requeue", "sensor"} : pc' = [pc EXCEPT ![w] = s]
      BY <1>6 DEF StartSensor, Goto
    <2>2. pc' \in [Procs -> Stages] /\ NewRows' /\ RunnerOwnsRow' /\ ClaimHasJob' /\ StoredRow'
      BY <1>0, <1>6, <2>1, NoRowWritten DEF StartSensor, Holding, Storing, Stages
    <2>3. QED
      BY <1>6, <2>1, <2>2, SmallTypes DEF StartSensor, IInv, TypeOK, TodoPositive, Procs
  <1>7. CASE InterruptCheck(w)
    <2>1. PICK s \in {"requeue", "sensor"} : pc' = [pc EXCEPT ![w] = s]
      BY <1>7 DEF InterruptCheck, Goto
    <2>2. pc' \in [Procs -> Stages] /\ NewRows' /\ RunnerOwnsRow' /\ ClaimHasJob' /\ StoredRow'
      BY <1>0, <1>7, <2>1, NoRowWritten DEF InterruptCheck, Holding, Storing, Stages
    <2>3. QED
      BY <1>7, <2>1, <2>2, SmallTypes DEF InterruptCheck, IInv, TypeOK, TodoPositive, Procs
  <1>8. CASE ReQueue(w)
    <2>1. pc[w] \in Holding /\ job[w] \in Jobs
      BY <1>0, <1>8 DEF ReQueue, Holding, IInv, RunnerOwnsRow
    <2>2. Others(job[w])
      BY <1>8, <2>1, ReQueueEffect, SmallTypes DEF ReQueue
    <2>3. QED
      BY <1>0, <1>8, <2>1, <2>2, JobSettled, SmallTypes
         DEF ReQueue, Home, Goto, IInv, TypeOK, TodoPositive, Procs
  <1>9. CASE MarkDone(w)
    <2>1. /\ job[w] \in Jobs /\ rows[job[w]].status = "RUNNING"
          /\ \A p \in Procs \ {w} : pc[p] \in Holding => job[p] # job[w]
      BY <1>0, <1>9 DEF MarkDone, Holding, IInv, RunnerOwnsRow
    <2>2. Others(job[w]) /\ rows'[job[w]].status = "DONE"
      BY <1>9, <2>1, SetStatusEffect, SmallTypes DEF MarkDone, Statuses
    <2>3. /\ pc' \in [Procs -> Stages] /\ pc'[w] = "upload" /\ job' = job
          /\ \A p \in Procs \ {w} : pc'[p] = pc[p]
      BY <1>0, <1>9, SmallTypes DEF MarkDone, Goto, Stages, Storing
    <2>4. RunnerOwnsRow' /\ ClaimHasJob' /\ StoredRow'
      BY <1>0, <2>1, <2>2, <2>3, OthersUndisturbed
         DEF RunnerOwnsRow, ClaimHasJob, StoredRow, Holding, Storing
    <2>5. NewRows'
      BY <1>9, <2>1, <2>2, SmallTypes DEF MarkDone, IInv, NewRows, Others
    <2>6. QED
      BY <1>9, <2>2, <2>3, <2>4, <2>5, SmallTypes
         DEF MarkDone, IInv, TypeOK, TodoPositive, Others, Procs
  <1>10. CASE MarkFailed(w)
    <2>1. pc[w] \in Holding /\ job[w] \in Jobs
      BY <1>0, <1>10 DEF MarkFailed, Holding, IInv, RunnerOwnsRow
    <2>2. Others(job[w])
      BY <1>10, <2>1, SetStatusEffect, SmallTypes DEF MarkFailed, Statuses
    <2>3. QED
      BY <1>0, <1>10, <2>1, <2>2, JobSettled, SmallTypes
         DEF MarkFailed, Home, Goto, IInv, TypeOK, TodoPositive, Procs
  <1>11. CASE Upload(w)
    <2>1. CASE Goto(w, "record") /\ UNCHANGED <<job, paused>>
      <3>1. pc' = [pc EXCEPT ![w] = "record"] /\ "record" \in Stages
        BY <2>1 DEF Goto, Stages, Storing
      <3>2. pc' \in [Procs -> Stages] /\ NewRows' /\ RunnerOwnsRow' /\ ClaimHasJob' /\ StoredRow'
        BY <1>0, <1>11, <2>1, <3>1, NoRowWritten DEF Upload, Holding, Storing
      <3>3. QED
        BY <1>11, <2>1, <3>1, <3>2, SmallTypes DEF Upload, IInv, TypeOK, TodoPositive, Procs
    <2>2. CASE Home(w) /\ paused' \in {paused, FALSE}
      <3>1. pc' = [pc EXCEPT ![w] = "poll"] /\ job' = [job EXCEPT ![w] = NoJob]
        BY <2>2 DEF Home, Goto
      <3>2. QED
        BY <1>0, <1>11, <2>2, <3>1, JobDropped, SmallTypes
           DEF Upload, IInv, TypeOK, TodoPositive, Procs
    <2>3. QED
      BY <1>11, <2>1, <2>2 DEF Upload
  <1>12. CASE MarkUploaded(w)
    <2>1. /\ job[w] \in Jobs /\ rows[job[w]].status \in {"DONE", "DELETED"}
      BY <1>0, <1>12 DEF MarkUploaded, Storing, IInv, StoredRow
    <2>2. /\ Others(job[w]) /\ rows'[job[w]].status = rows[job[w]].status
          /\ rows'[job[w]].uploaded \/ rows'[job[w]].status = "DELETED"
      <3>1. CASE rows[job[w]].status = "DELETED"
        BY <1>12, <3>1, SmallTypes DEF MarkUploaded, Others
      <3>2. CASE rows[job[w]].status # "DELETED"
        <4>1. rows' = [rows EXCEPT ![job[w]].uploaded = TRUE]
          BY <1>12, <3>2 DEF MarkUploaded
        <4>2. QED
          BY <2>1, <4>1, UploadedEffect, SmallTypes
      <3>3. QED
        BY <3>1, <3>2
    <2>3. \/ pc' = [pc EXCEPT ![w] = "clean"] /\ job' = job
          \/ pc' = [pc EXCEPT ![w] = "poll"] /\ job' = [job EXCEPT ![w] = NoJob]
      BY <1>12 DEF MarkUploaded, Home, Goto
    <2>4. /\ pc' \in [Procs -> Stages] /\ job' \in [Procs -> Jobs \cup {NoJob}]
          /\ \A p \in Procs \ {w} : pc'[p] = pc[p] /\ job'[p] = job[p]
          /\ pc'[w] = "poll" \/ (pc'[w] = "clean" /\ job'[w] = job[w])
      <3>1. CASE pc' = [pc EXCEPT ![w] = "clean"] /\ job' = job
        BY <1>0, <3>1, SmallTypes DEF Stages, Storing
      <3>2. CASE pc' = [pc EXCEPT ![w] = "poll"] /\ job' = [job EXCEPT ![w] = NoJob]
        <4>1. "poll" \in Stages /\ NoJob \in Jobs \cup {NoJob}
          BY DEF Stages
        <4>2. pc' \in [Procs -> Stages] /\ pc'[w] = "poll"
          BY <1>0, <3>2, <4>1, SmallTypes
        <4>3. job' \in [Procs -> Jobs \cup {NoJob}]
          BY <3>2, <4>1, SmallTypes
        <4>4. \A p \in Procs \ {w} : pc'[p] = pc[p] /\ job'[p] = job[p]
          BY <3>2, SmallTypes
        <4>5. QED
          BY <4>2, <4>3, <4>4
      <3>3. QED
        BY <2>3, <3>1, <3>2
    <2>5. \A p \in Procs \ {w} : pc[p] \in Holding => job[p] # job[w]
      BY <2>1 DEF IInv, RunnerOwnsRow
    <2>6. RunnerOwnsRow'
      BY <2>2, <2>4, <2>5 DEF IInv, RunnerOwnsRow, Others, Holding
    <2>7. ClaimHasJob'
      BY <2>4 DEF IInv, ClaimHasJob
    <2>8. StoredRow'
      <3> SUFFICES ASSUME NEW p \in Procs, pc'[p] \in Storing
                   PROVE  /\ job'[p] \in Jobs
                          /\ rows'[job'[p]].status \in {"DONE", "DELETED"}
                          /\ pc'[p] = "clean" => rows'[job'[p]].uploaded
                                                  \/ rows'[job'[p]].status = "DELETED"
        BY DEF StoredRow
      <3>1. CASE p = w
        BY <2>1, <2>2, <2>4, <3>1 DEF Storing
      <3>2. CASE p # w /\ job[p] = job[w]
        BY <2>1, <2>2, <2>4, <3>2
      <3>3. CASE p # w /\ job[p] # job[w]
        BY <2>2, <2>4, <3>3 DEF IInv, StoredRow, Others
      <3>4. QED
        BY <3>1, <3>2, <3>3
    <2>9. NewRows' /\ paused' \in BOOLEAN
      BY <1>12, <2>1, <2>2, SmallTypes DEF MarkUploaded, IInv, NewRows, Others
    <2>10. QED
      BY <1>12, <2>2, <2>4, <2>6, <2>7, <2>8, <2>9, SmallTypes
         DEF MarkUploaded, IInv, TypeOK, TodoPositive, Others, Procs
  <1>13. CASE FreeDisk(w)
    <2>1. pc' = [pc EXCEPT ![w] = "poll"] /\ job' = [job EXCEPT ![w] = NoJob]
      BY <1>13 DEF FreeDisk, Home, Goto
    <2>2. QED
      BY <1>0, <1>13, <2>1, JobDropped, SmallTypes
         DEF FreeDisk, IInv, TypeOK, TodoPositive, Procs
  <1>14. CASE Quit(w)
    <2>1. pc' = [pc EXCEPT ![w] = "down"] /\ "down" \in Stages
      BY <1>14 DEF Quit, Goto, Stages
    <2>2. pc' \in [Procs -> Stages] /\ NewRows' /\ RunnerOwnsRow' /\ ClaimHasJob' /\ StoredRow'
      BY <1>0, <1>14, <2>1, NoRowWritten DEF Quit, Holding, Storing
    <2>3. QED
      BY <1>14, <2>1, <2>2, SmallTypes DEF Quit, IInv, TypeOK, TodoPositive, Procs
  <1>15. QED
    BY <1>1, <1>2, <1>3, <1>4, <1>5, <1>6, <1>7, <1>8, <1>9, <1>10, <1>11, <1>12, <1>13, <1>14
       DEF Daemon

\* What befalls a daemon: its sensor scripts, low memory, exceptions, crashes.
LEMMA AccidentIInv ==
  ASSUME IInv, NEW w \in Workers, Sensor(w) \/ Misfortune(w) \/ Restart(w)
  PROVE  IInv'
  <1>0. w \in Procs
    BY DEF Procs
  <1> USE DEF local, files, results, counts
  <1>1. CASE SensorLine(w)
    <2>1. pc' = [pc EXCEPT ![w] = "line"] /\ "line" \in Stages
      BY <1>1 DEF SensorLine, Goto, Stages, Holding
    <2>2. pc' \in [Procs -> Stages] /\ NewRows' /\ RunnerOwnsRow' /\ ClaimHasJob' /\ StoredRow'
      BY <1>0, <1>1, <2>1, NoRowWritten DEF SensorLine, Holding, Storing
    <2>3. QED
      BY <1>1, <2>1, <2>2, SmallTypes DEF SensorLine, IInv, TypeOK, TodoPositive, Procs
  <1>2. ASSUME NEW hit \in BOOLEAN, SensorEnd(w, hit) PROVE IInv'
    <2>1. PICK s \in {"done", "next"} :
             pc' = [pc EXCEPT ![w] = s] /\ (s = "done" <=> todo[w] = 1)
      BY <1>2 DEF SensorEnd, Goto
    <2>2. pc' \in [Procs -> Stages] /\ NewRows' /\ RunnerOwnsRow' /\ ClaimHasJob' /\ StoredRow'
      BY <1>0, <1>2, <2>1, NoRowWritten DEF SensorEnd, Holding, Storing, Stages
    <2>3. todo[w] \in Nat /\ todo[w] > 0
      BY <1>0, <1>2, SmallTypes DEF SensorEnd, TodoPositive
    <2>4. todo' \in [Workers -> Nat]
      BY <1>2, <2>3, SmallTypes DEF SensorEnd
    <2>5. TodoPositive'
      BY <1>0, <1>2, <2>1, <2>3, SmallTypes DEF SensorEnd, TodoPositive, Procs
    <2>6. hits' \subseteq Tiles
      <3>1. rows[job[w]] \in Row
        BY <1>0, <1>2, SmallTypes DEF SensorEnd, IInv, RunnerOwnsRow, Holding
      <3>2. rows[job[w]].tile \in Tiles \cup {NoTile}
        BY <3>1 DEF Row
      <3>3. QED
        BY <1>2, <3>2, SmallTypes DEF SensorEnd
    <2>7. QED
      BY <1>2, <2>2, <2>4, <2>5, <2>6, SmallTypes DEF SensorEnd, IInv, TypeOK
  <1>3. CASE RamLow(w)
    <2>1. pc[w] \in Holding /\ job[w] \in Jobs
      BY <1>0, <1>3 DEF RamLow, Holding, IInv, RunnerOwnsRow
    <2>2. Others(job[w])
      BY <1>3, <2>1, ReQueueEffect, SmallTypes DEF RamLow
    <2>3. QED
      BY <1>0, <1>3, <2>1, <2>2, JobSettled, SmallTypes
         DEF RamLow, Home, Goto, IInv, TypeOK, TodoPositive, Procs
  <1>4. CASE JobRaises(w)
    <2>1. pc' = [pc EXCEPT ![w] = "failed"] /\ "failed" \in Stages
      BY <1>4 DEF JobRaises, Goto, Stages, Holding
    <2>2. pc' \in [Procs -> Stages] /\ NewRows' /\ RunnerOwnsRow' /\ ClaimHasJob' /\ StoredRow'
      BY <1>0, <1>4, <2>1, NoRowWritten DEF JobRaises, Holding, Storing
    <2>3. QED
      BY <1>4, <2>1, <2>2, SmallTypes DEF JobRaises, IInv, TypeOK, TodoPositive, Procs
  <1>5. CASE DbError(w)
    <2>1. pc' = [pc EXCEPT ![w] = "poll"] /\ job' = [job EXCEPT ![w] = NoJob]
      BY <1>5 DEF DbError, Home, Goto
    <2>2. pick' \in [Workers -> Tiles \cup {NoTile}] /\ faults' \in Nat
      BY <1>5, SmallTypes DEF DbError
    <2>3. QED
      BY <1>0, <1>5, <2>1, <2>2, JobDropped, SmallTypes
         DEF DbError, IInv, TypeOK, TodoPositive, Procs
  <1>6. CASE Crash(w)
    <2>1. pc' = [pc EXCEPT ![w] = "down"] /\ job' = [job EXCEPT ![w] = NoJob]
      BY <1>6 DEF Crash, Goto
    <2>2. pick' \in [Workers -> Tiles \cup {NoTile}] /\ faults' \in Nat
      BY <1>6, SmallTypes DEF Crash
    <2>3. QED
      BY <1>0, <1>6, <2>1, <2>2, JobDropped, SmallTypes
         DEF Crash, IInv, TypeOK, TodoPositive, Procs
  <1>7. CASE Restart(w)
    <2>1. pc' = [pc EXCEPT ![w] = "poll"] /\ "poll" \in Stages
      BY <1>7 DEF Restart, Goto, Stages
    <2>2. pc' \in [Procs -> Stages] /\ NewRows' /\ RunnerOwnsRow' /\ ClaimHasJob' /\ StoredRow'
      BY <1>0, <1>7, <2>1, NoRowWritten DEF Restart, Holding, Storing
    <2>3. todo' \in [Workers -> Nat] /\ TodoPositive' /\ stop' \in [Workers -> BOOLEAN]
      BY <1>7, <2>1, SmallTypes DEF Restart, TodoPositive, Procs
    <2>4. QED
      BY <1>7, <2>2, <2>3, SmallTypes DEF Restart, IInv, TypeOK
  <1>8. QED
    BY <1>1, <1>2, <1>3, <1>4, <1>5, <1>6, <1>7 DEF Sensor, Misfortune

\* The steps of remote workers.
LEMMA HttpIInv ==
  ASSUME IInv, NEW h \in HttpWorkers, Http(h)
  PROVE  IInv'
  <1>0. h \in Procs /\ \A w \in Workers : w # h /\ w \in Procs
    BY DEF Procs
  <1> USE DEF local, files, results, counts
  <1>1. CASE ClaimSelect(h)
    <2>1. /\ pc' = [pc EXCEPT ![h] = "claim"] /\ pc[h] = "poll"
          /\ \E j \in Jobs : job' = [job EXCEPT ![h] = j]
      BY <1>1 DEF ClaimSelect, Goto
    <2>2. /\ pc' \in [Procs -> Stages] /\ job' \in [Procs -> Jobs \cup {NoJob}]
          /\ \A p \in Procs \ {h} : pc'[p] = pc[p] /\ job'[p] = job[p]
          /\ pc'[h] = "claim" /\ job'[h] \in Jobs
      BY <1>0, <2>1, SmallTypes DEF Stages
    <2>3. RunnerOwnsRow' /\ ClaimHasJob' /\ StoredRow' /\ NewRows'
      BY <1>1, <2>2
         DEF ClaimSelect, IInv, RunnerOwnsRow, ClaimHasJob, StoredRow, NewRows, Holding, Storing
    <2>4. QED
      BY <1>0, <1>1, <2>2, <2>3, SmallTypes DEF ClaimSelect, IInv, TypeOK, TodoPositive
  <1>2. CASE ClaimUpdate(h)
    <2>0. job[h] \in Jobs
      BY <1>0, <1>2 DEF ClaimUpdate, IInv, ClaimHasJob
    <2>1. CASE rows[job[h]].status = "QUEUED"
      <3>1. /\ Start(job[h], h) /\ pc' = [pc EXCEPT ![h] = "work"] /\ job' = job
            /\ UNCHANGED <<created, pick, todo, stop, paused, hits, made, disk, faults, stops>>
            /\ claimLock' = None
        BY <1>2, <2>1 DEF ClaimUpdate, Goto
      <3>2. job' = [job EXCEPT ![h] = job[h]]
        BY <1>0, <3>1, SmallTypes
      <3>3. QED
        BY <1>0, <2>0, <2>1, <3>1, <3>2, JobTaken, SmallTypes DEF IInv, TypeOK, TodoPositive
    <2>2. CASE rows[job[h]].status # "QUEUED"
      <3>1. /\ pc' = [pc EXCEPT ![h] = "poll"] /\ job' = [job EXCEPT ![h] = NoJob]
            /\ UNCHANGED <<rows, created, pick, todo, stop, paused, hits, made, disk, faults, stops>>
            /\ claimLock' = None
        BY <1>2, <2>2 DEF ClaimUpdate, Home, Goto
      <3>2. QED
        BY <1>0, <3>1, JobDropped, SmallTypes DEF IInv, TypeOK, TodoPositive
    <2>3. QED
      BY <2>1, <2>2
  <1>3. CASE FinishHttp(h)
    <2>1. pc[h] \in Holding /\ job[h] \in Jobs
      BY <1>0, <1>3 DEF FinishHttp, Holding, IInv, RunnerOwnsRow
    <2>2. Others(job[h])
      BY <1>3, <2>1, SetStatusEffect, SmallTypes DEF FinishHttp, Statuses
    <2>3. QED
      BY <1>0, <1>3, <2>1, <2>2, JobSettled, SmallTypes
         DEF FinishHttp, Home, Goto, IInv, TypeOK, TodoPositive
  <1>4. CASE LoseHttp(h)
    <2>1. pc' = [pc EXCEPT ![h] = "poll"] /\ job' = [job EXCEPT ![h] = NoJob]
      BY <1>4 DEF LoseHttp, Home, Goto
    <2>2. faults' \in Nat
      BY <1>4, SmallTypes DEF LoseHttp
    <2>3. QED
      BY <1>0, <1>4, <2>1, <2>2, JobDropped, SmallTypes DEF LoseHttp, IInv, TypeOK, TodoPositive
  <1>5. CASE ClaimError(h)
    <2>1. pc' = [pc EXCEPT ![h] = "poll"] /\ job' = [job EXCEPT ![h] = NoJob]
      BY <1>5 DEF ClaimError, Home, Goto
    <2>2. faults' \in Nat
      BY <1>5, SmallTypes DEF ClaimError
    <2>3. QED
      BY <1>0, <1>5, <2>1, <2>2, JobDropped, SmallTypes DEF ClaimError, IInv, TypeOK, TodoPositive
  <1>6. QED
    BY <1>1, <1>2, <1>3, <1>4, <1>5 DEF Http

LEMMA StutterIInv == IInv /\ UNCHANGED vars => IInv'
  BY DEF vars, IInv, TypeOK, NewRows, RunnerOwnsRow, ClaimHasJob, StoredRow, TodoPositive

-------------------------------------------------------------------------------
(* The theorems.                                                           *)

\* Every program counter agrees with the table, for any number of daemons, remote
\* workers, jobs and faults.
THEOREM Agreement == Spec => []IInv
  <1>1. IInv /\ [Next]_vars => IInv'
    BY UsersIInv, DaemonIInv, AccidentIInv, HttpIInv, StutterIInv DEF Next
  <1>2. QED
    BY <1>1, InitIInv, PTL DEF Spec

\* Every variable keeps its type.
THEOREM TypeCorrect == Spec => []TypeOK
  <1>1. IInv => TypeOK
    BY DEF IInv
  <1>2. QED
    BY <1>1, Agreement, PTL

\* No job is run by two processes at once.
THEOREM OneRunner == Spec => []SingleRunner
  <1>1. IInv => SingleRunner
    BY DEF IInv, RunnerOwnsRow, SingleRunner, Runners
  <1>2. QED
    BY <1>1, Agreement, PTL

-------------------------------------------------------------------------------
(* What becomes of a finished job: its row stays as it is until it is      *)
(* purged, and all of its result stays on disk until the row says it was   *)
(* uploaded, unless a job with the same directory frees it.  Both follow   *)
(* from the agreement of program counters and table (IInv): a writer that  *)
(* looks at nothing but the id writes only a row that is RUNNING, or,      *)
(* after the upload, its own row that is DONE.                             *)

FinalStep == \A j \in Jobs : rows[j].status \in Finished =>
                               rows'[j].status \in {rows[j].status, "DELETED"}

\* ResultKept is not inductive: what a running job has written so far may be freed
\* only by a job of the same directory as well.
Writing == {"next", "sensor", "line", "done"}

Kept == /\ ResultKept
        /\ \A w \in Workers : pc[w] \in Writing => Intact(job[w])

\* What one step may do, given that results were kept so far.
GoodStep == FinalStep /\ Kept'

\* A row that may still be written, and one that may not: it is never NEW again.
Open == {"NEW", "QUEUED", "RUNNING"}

\* Labels stay, and what was freed by its own upload or purged stays so.
RowsKeep ==
  \A j \in Jobs : /\ rows[j].status # "NEW" => rows'[j].tile = rows[j].tile
                  /\ Freed(j) => Freed(j)'

\* A daemon that is in the sensor loop after the step was there before it.
LoopKeeps ==
  \A w \in Workers : pc'[w] \in Writing => pc[w] \in Writing /\ job'[w] = job[w]

\* The job of a daemon in the sensor loop exists and is running.
LEMMA WriterRuns ==
  ASSUME IInv, NEW w \in Workers, pc[w] \in Writing
  PROVE  job[w] \in Jobs /\ rows[job[w]].status = "RUNNING"
  BY DEF IInv, RunnerOwnsRow, Writing, Holding, Procs

\* A result that is intact stays intact while its directory is only added to.
LEMMA IntactStays ==
  ASSUME NEW j \in Jobs, Intact(j), rows[j].status # "NEW", RowsKeep,
         UNCHANGED made, disk \subseteq disk'
  PROVE  Intact(j)'
  <1>1. CASE j \in disk
    BY <1>1 DEF Intact
  <1>2. ASSUME NEW k \in Jobs \ {j}, SameDir(j, k), Freed(k) PROVE Intact(j)'
    <2>1. rows[k].status # "NEW" /\ Freed(k)'
      BY <1>2 DEF Freed, RowsKeep
    <2>2. rows'[j].tile = rows[j].tile /\ rows'[k].tile = rows[k].tile
      BY <2>1 DEF RowsKeep
    <2>3. SameDir(j, k)'
      BY <1>2, <2>2 DEF SameDir
    <2>4. QED
      BY <2>1, <2>3 DEF Intact
  <1>3. QED
    BY <1>1, <1>2 DEF Intact

\* A step that names no directory and deletes nothing keeps every result, if the
\* rows that become DONE by a daemon have an intact one.
LEMMA KeptStays ==
  ASSUME IInv, Kept, RowsKeep, LoopKeeps, UNCHANGED made, disk \subseteq disk',
         \A j \in Jobs : rows'[j].status = "DONE" /\ rows'[j].owner \in Workers =>
           \/ rows'[j].uploaded
           \/ rows[j].status # "NEW" /\ Intact(j)
  PROVE  Kept'
  <1>1. ASSUME NEW w \in Workers, pc'[w] \in Writing PROVE Intact(job[w])' /\ job'[w] = job[w]
    <2>1. pc[w] \in Writing /\ job'[w] = job[w]
      BY <1>1 DEF LoopKeeps
    <2>2. job[w] \in Jobs /\ rows[job[w]].status = "RUNNING" /\ Intact(job[w])
      BY <2>1, WriterRuns DEF Kept
    <2>3. PICK j \in Jobs : j = job[w]
      BY <2>2
    <2>4. Intact(j)'
      BY <2>2, <2>3, IntactStays
    <2>5. QED
      BY <2>1, <2>3, <2>4 DEF Intact, SameDir
  <1>2. ASSUME NEW j \in Jobs, rows'[j].status = "DONE", rows'[j].owner \in Workers
        PROVE  rows'[j].uploaded \/ Intact(j)'
    BY <1>2, IntactStays
  <1>3. QED
    BY <1>1, <1>2 DEF Kept, ResultKept, Intact, SameDir

\* A step that writes no row and no directory.
LEMMA NothingWritten ==
  ASSUME IInv, Kept, UNCHANGED <<rows, made, disk>>, LoopKeeps
  PROVE  GoodStep
  <1>1. RowsKeep /\ FinalStep
    BY DEF RowsKeep, FinalStep, Freed
  <1>2. \A j \in Jobs : rows'[j].status = "DONE" /\ rows'[j].owner \in Workers =>
           \/ rows'[j].uploaded
           \/ rows[j].status # "NEW" /\ Intact(j)
    BY DEF Kept, ResultKept
  <1>3. QED
    BY <1>1, <1>2, KeptStays DEF GoodStep

\* A step that writes one row that is not final yet; if it becomes DONE by a
\* daemon, its result is intact.
LEMMA OneRowWritten ==
  ASSUME IInv, Kept, NEW j \in Jobs, Others(j), rows[j].status \in Open,
         rows[j].status = "NEW" \/ rows'[j].tile = rows[j].tile,
         UNCHANGED <<made, disk>>, LoopKeeps,
         rows'[j].status = "DONE" /\ rows'[j].owner \in Workers =>
           rows[j].status # "NEW" /\ Intact(j)
  PROVE  GoodStep
  <1>1. RowsKeep /\ FinalStep
    BY DEF RowsKeep, FinalStep, Freed, Others, Open, Finished
  <1>2. \A k \in Jobs : rows'[k].status = "DONE" /\ rows'[k].owner \in Workers =>
           \/ rows'[k].uploaded
           \/ rows[k].status # "NEW" /\ Intact(k)
    BY DEF Kept, ResultKept, Others
  <1>3. QED
    BY <1>1, <1>2, KeptStays DEF GoodStep

\* A process that moves to a stage outside the sensor loop, or stays in it.
LEMMA OneMoves ==
  ASSUME IInv, NEW p \in Procs, NEW stage, pc' = [pc EXCEPT ![p] = stage],
         \/ stage \notin Writing
         \/ pc[p] \in Writing /\ job' = job,
         job' = job \/ \E j : job' = [job EXCEPT ![p] = j]
  PROVE  LoopKeeps
  <1>1. pc \in [Procs -> Stages] /\ job \in [Procs -> Jobs \cup {NoJob}]
    BY SmallTypes
  <1>2. \A q \in Workers : q \in Procs
    BY DEF Procs
  <1>3. ASSUME NEW q \in Workers, q # p PROVE pc'[q] = pc[q] /\ job'[q] = job[q]
    BY <1>1, <1>2, <1>3
  <1>4. pc'[p] = stage
    BY <1>1
  <1>5. QED
    BY <1>3, <1>4 DEF LoopKeeps

\* A process that runs a job ends or gives back its own row.
LEMMA OwnRowWritten ==
  ASSUME IInv, Kept, NEW p \in Procs, pc[p] \in Holding, UNCHANGED <<made, disk>>, LoopKeeps,
         \/ re_queue(job[p])
         \/ SetStatus(job[p], "FAILED")
         \/ SetStatus(job[p], "DONE") /\ (p \in Workers => pc[p] \in Writing)
  PROVE  GoodStep
  <1>1. job[p] \in Jobs /\ rows[job[p]].status = "RUNNING" /\ rows[job[p]].owner = p
    BY DEF IInv, RunnerOwnsRow
  <1>2. rows[job[p]].status \in Open
    BY <1>1 DEF Open
  <1>3. PICK j \in Jobs : j = job[p]
    BY <1>1
  <1>4. CASE re_queue(j)
    BY <1>1, <1>2, <1>3, <1>4, ReQueueEffect, OneRowWritten, SmallTypes
  <1>5. CASE SetStatus(j, "FAILED")
    BY <1>1, <1>2, <1>3, <1>5, SetStatusEffect, OneRowWritten, SmallTypes DEF Statuses
  <1>6. CASE SetStatus(j, "DONE") /\ (p \in Workers => pc[p] \in Writing)
    <2>1. /\ Others(j)
          /\ rows'[j].owner = p
          /\ rows'[j].tile = rows[j].tile
      BY <1>1, <1>3, <1>6, SetStatusEffect, SmallTypes DEF Statuses
    <2>2. rows'[j].owner \in Workers => rows[j].status # "NEW" /\ Intact(j)
      BY <1>1, <1>3, <1>6, <2>1 DEF Kept
    <2>3. QED
      BY <1>2, <1>3, <2>1, <2>2, OneRowWritten
  <1>7. QED
    BY <1>3, <1>4, <1>5, <1>6

\* A queued job is claimed.
LEMMA RowStarted ==
  ASSUME IInv, Kept, NEW p \in Procs, NEW j \in Jobs, rows[j].status = "QUEUED",
         Start(j, p), UNCHANGED <<made, disk>>, LoopKeeps
  PROVE  GoodStep
  BY StartEffect, OneRowWritten, SmallTypes DEF Open

\* A job is inserted.
LEMMA RowInserted ==
  ASSUME IInv, Kept, NEW priority \in Priorities, NEW tile \in Tiles \cup {NoTile},
         NEW gpu \in BOOLEAN, Insert(priority, tile, gpu), UNCHANGED <<made, disk>>, LoopKeeps
  PROVE  GoodStep
  <1>1. /\ created + 1 \in Jobs
        /\ Others(created + 1)
        /\ rows'[created + 1].status = "QUEUED"
    BY InsertEffect, SmallTypes
  <1>2. rows[created + 1].status = "NEW"
    BY <1>1, SmallTypes DEF IInv, NewRows
  <1>3. rows[created + 1].status \in Open
    BY <1>2 DEF Open
  <1>4. QED
    BY <1>1, <1>2, <1>3, OneRowWritten

\* The job that starts has a new directory; the other results stay as they are.
LEMMA ExecuteGood ==
  ASSUME IInv, Kept, NEW w \in Workers, Execute(w)
  PROVE  GoodStep
  <1>0. w \in Procs
    BY DEF Procs
  <1>1. /\ job[w] \in Jobs /\ rows[job[w]].status = "RUNNING" /\ rows[job[w]].owner = w
        /\ pc[w] = "ram"
    BY <1>0 DEF Execute, IInv, RunnerOwnsRow, Holding
  <1>2. /\ UNCHANGED <<rows, job>>
        /\ disk' = disk \cup {job[w]}
        /\ \E second \in Seconds : made' = [made EXCEPT ![job[w]] = second]
        /\ pc' = [pc EXCEPT ![w] = "next"]
    BY DEF Execute, Goto
  <1>3. \A j \in Jobs \ {job[w]} : made'[j] = made[j]
    BY <1>1, <1>2, SmallTypes
  <1>4. \A k \in Jobs : Freed(k) => k # job[w] /\ Freed(k)'
    BY <1>1, <1>2 DEF Freed
  <1>5. ASSUME NEW j \in Jobs, Intact(j) \/ j = job[w] PROVE Intact(j)'
    <2>1. CASE j \in disk'
      BY <2>1 DEF Intact
    <2>2. CASE j \notin disk'
      <3>1. j # job[w] /\ j \notin disk
        BY <1>2, <2>2
      <3>2. PICK k \in Jobs \ {j} : SameDir(j, k) /\ Freed(k)
        BY <1>5, <3>1 DEF Intact
      <3>3. made'[k] = made[k] /\ made'[j] = made[j] /\ Freed(k)'
        BY <1>3, <1>4, <3>1, <3>2
      <3>4. SameDir(j, k)'
        BY <1>2, <3>2, <3>3 DEF SameDir
      <3>5. QED
        BY <3>2, <3>3, <3>4 DEF Intact
    <2>3. QED
      BY <2>1, <2>2
  <1>6. ResultKept'
    BY <1>2, <1>5 DEF Kept, ResultKept
  <1>7. ASSUME NEW v \in Workers, pc'[v] \in Writing PROVE Intact(job[v])'
    <2>1. v = w \/ pc[v] \in Writing
      BY <1>2, <1>7, SmallTypes DEF Procs
    <2>2. job[v] \in Jobs /\ (Intact(job[v]) \/ job[v] = job[w])
      BY <1>1, <2>1, WriterRuns DEF Kept
    <2>3. PICK j \in Jobs : j = job[v]
      BY <2>2
    <2>4. Intact(j)'
      BY <1>5, <2>2, <2>3
    <2>5. QED
      BY <1>2, <2>3, <2>4 DEF Intact, SameDir
  <1>8. Kept'
    BY <1>2, <1>6, <1>7 DEF Kept, Intact, SameDir
  <1>9. QED
    BY <1>2, <1>8 DEF GoodStep, FinalStep

\* rmtree after the upload: what it deletes of other jobs is freed by this one.
LEMMA FreeDiskGood ==
  ASSUME IInv, Kept, NEW w \in Workers, FreeDisk(w)
  PROVE  GoodStep
  <1>0. w \in Procs
    BY DEF Procs
  <1>1. job[w] \in Jobs /\ Freed(job[w]) /\ rows[job[w]].status # "RUNNING"
    BY <1>0 DEF FreeDisk, IInv, StoredRow, Storing, Freed
  <1>2. /\ UNCHANGED <<rows, made>>
        /\ pc' = [pc EXCEPT ![w] = "poll"] /\ job' = [job EXCEPT ![w] = NoJob]
        /\ disk' \in {disk, disk \ {j \in Jobs : SameDir(j, job[w])}}
    BY DEF FreeDisk, Home, Goto
  <1>3. LoopKeeps
    BY <1>0, <1>2, OneMoves DEF Writing
  <1>4. ASSUME NEW j \in Jobs, Intact(j), j # job[w] PROVE Intact(j)'
    <2>1. CASE j \in disk'
      BY <2>1 DEF Intact
    <2>2. CASE j \in disk /\ j \notin disk'
      <3>1. SameDir(j, job[w])
        BY <1>2, <2>2
      <3>2. QED
        BY <1>1, <1>2, <1>4, <3>1 DEF Intact, SameDir, Freed
    <2>3. CASE \E k \in Jobs \ {j} : SameDir(j, k) /\ Freed(k)
      BY <1>2, <2>3 DEF Intact, SameDir, Freed
    <2>4. QED
      BY <1>4, <2>1, <2>2, <2>3 DEF Intact
  <1>5. ResultKept'
    <2> SUFFICES ASSUME NEW j \in Jobs, rows'[j].status = "DONE", rows'[j].owner \in Workers
                 PROVE  rows'[j].uploaded \/ Intact(j)'
      BY DEF ResultKept, Intact, SameDir
    <2>1. CASE j = job[w]
      BY <1>1, <1>2, <2>1 DEF Freed
    <2>2. CASE j # job[w]
      BY <1>2, <1>4, <2>2 DEF Kept, ResultKept
    <2>3. QED
      BY <2>1, <2>2
  <1>6. ASSUME NEW v \in Workers, pc'[v] \in Writing PROVE Intact(job[v])' /\ job'[v] = job[v]
    <2>1. pc[v] \in Writing /\ job'[v] = job[v]
      BY <1>3, <1>6 DEF LoopKeeps
    <2>2. job[v] \in Jobs /\ job[v] # job[w] /\ Intact(job[v])
      BY <1>1, <2>1, WriterRuns DEF Kept
    <2>3. PICK j \in Jobs : j = job[v]
      BY <2>2
    <2>4. Intact(j)'
      BY <1>4, <2>2, <2>3
    <2>5. QED
      BY <2>1, <2>3, <2>4 DEF Intact, SameDir
  <1>7. Kept'
    BY <1>5, <1>6 DEF Kept, Intact, SameDir
  <1>8. QED
    BY <1>2, <1>7 DEF GoodStep, FinalStep

LEMMA DaemonGood ==
  ASSUME IInv, Kept, NEW w \in Workers, Daemon(w)
  PROVE  GoodStep
  <1>0. w \in Procs
    BY DEF Procs
  <1> USE DEF local, files, results, counts
  <1>p. ASSUME Pop(w), UNCHANGED <<made, disk>> PROVE GoodStep
    <2>1. PICK j \in Jobs : /\ rows[j].status = "QUEUED" /\ Start(j, w)
                            /\ job' = [job EXCEPT ![w] = j]
                            /\ pc' = [pc EXCEPT ![w] = "ram"]
      BY <1>p DEF Pop, Selected, Queued, Goto
    <2>2. LoopKeeps
      BY <1>0, <2>1, OneMoves DEF Writing
    <2>3. QED
      BY <1>0, <1>p, <2>1, <2>2, RowStarted
  <1>h. ASSUME Home(w) PROVE LoopKeeps
    BY <1>0, <1>h, OneMoves DEF Home, Goto, Writing
  <1>1. CASE PopNext(w)
    <2>1. CASE Goto(w, "pick") /\ UNCHANGED <<rows, job>>
      <3>1. LoopKeeps
        BY <1>0, <2>1, OneMoves DEF Goto, Writing
      <3>2. QED
        BY <1>1, <2>1, <3>1, NothingWritten DEF PopNext
    <2>2. QED
      BY <1>1, <1>p, <2>1 DEF PopNext
  <1>2. CASE PickTile(w)
    <2>1. LoopKeeps
      BY <1>0, <1>2, OneMoves DEF PickTile, Goto, Writing
    <2>2. QED
      BY <1>2, <2>1, NothingWritten DEF PickTile
  <1>3. CASE PushIdle(w)
    <2>1. pick[w] \in Tiles \cup {NoTile} /\ PRIORITY_IDLE \in Priorities /\ FALSE \in BOOLEAN
      BY SmallTypes DEF Priorities
    <2>2. PICK gpu \in BOOLEAN : Insert(PRIORITY_IDLE, pick[w], gpu)
      BY <1>3, <2>1 DEF PushIdle
    <2>3. LoopKeeps
      BY <1>0, <1>3, OneMoves DEF PushIdle, Goto, Writing
    <2>4. QED
      BY <1>3, <2>1, <2>2, <2>3, RowInserted DEF PushIdle
  <1>4. CASE PopAgain(w)
    BY <1>4, <1>h, <1>p, NothingWritten DEF PopAgain
  <1>5. CASE Execute(w)
    BY <1>5, ExecuteGood
  <1>6. CASE StartSensor(w)
    <2>1. LoopKeeps
      BY <1>0, <1>6, OneMoves DEF StartSensor, Goto, Writing
    <2>2. QED
      BY <1>6, <2>1, NothingWritten DEF StartSensor
  <1>7. CASE InterruptCheck(w)
    <2>1. LoopKeeps
      BY <1>0, <1>7, OneMoves DEF InterruptCheck, Goto, Writing
    <2>2. QED
      BY <1>7, <2>1, NothingWritten DEF InterruptCheck
  <1>8. CASE ReQueue(w)
    BY <1>0, <1>8, <1>h, OwnRowWritten DEF ReQueue, Holding
  <1>9. CASE MarkDone(w)
    <2>1. LoopKeeps
      BY <1>0, <1>9, OneMoves DEF MarkDone, Goto, Writing
    <2>2. QED
      BY <1>0, <1>9, <2>1, OwnRowWritten DEF MarkDone, Holding, Writing
  <1>10. CASE MarkFailed(w)
    BY <1>0, <1>10, <1>h, OwnRowWritten DEF MarkFailed, Holding
  <1>11. CASE Upload(w)
    <2>1. LoopKeeps
      <3>1. CASE Goto(w, "record") /\ UNCHANGED job
        BY <1>0, <3>1, OneMoves DEF Goto, Writing
      <3>2. QED
        BY <1>11, <1>h, <3>1 DEF Upload
    <2>2. QED
      BY <1>11, <2>1, NothingWritten DEF Upload
  <1>12. CASE MarkUploaded(w)
    <2>1. job[w] \in Jobs /\ UNCHANGED <<made, disk>>
      BY <1>0, <1>12 DEF MarkUploaded, IInv, StoredRow, Storing
    <2>2. LoopKeeps
      <3>1. CASE Goto(w, "clean") /\ UNCHANGED job
        BY <1>0, <3>1, OneMoves DEF Goto, Writing
      <3>2. QED
        BY <1>12, <1>h, <3>1 DEF MarkUploaded
    <2>3. CASE UNCHANGED rows
      BY <2>1, <2>2, <2>3, NothingWritten
    <2>4. CASE rows' = [rows EXCEPT ![job[w]].uploaded = TRUE]
      <3>1. /\ Others(job[w])
            /\ rows'[job[w]].status = rows[job[w]].status /\ rows'[job[w]].uploaded
            /\ rows'[job[w]].tile = rows[job[w]].tile
        BY <2>1, <2>4, UploadedEffect, SmallTypes
      <3>2. RowsKeep /\ FinalStep
        BY <2>1, <3>1 DEF RowsKeep, FinalStep, Freed, Others
      <3>3. \A j \in Jobs : rows'[j].status = "DONE" /\ rows'[j].owner \in Workers =>
               \/ rows'[j].uploaded
               \/ rows[j].status # "NEW" /\ Intact(j)
        BY <2>1, <3>1 DEF Kept, ResultKept, Others
      <3>4. QED
        BY <2>1, <2>2, <3>2, <3>3, KeptStays DEF GoodStep
    <2>5. QED
      BY <1>12, <2>3, <2>4 DEF MarkUploaded
  <1>13. CASE FreeDisk(w)
    BY <1>13, FreeDiskGood
  <1>14. CASE Quit(w)
    <2>1. LoopKeeps
      BY <1>0, <1>14, OneMoves DEF Quit, Goto, Writing
    <2>2. QED
      BY <1>14, <2>1, NothingWritten DEF Quit
  <1>15. QED
    BY <1>1, <1>2, <1>3, <1>4, <1>5, <1>6, <1>7, <1>8, <1>9, <1>10, <1>11, <1>12, <1>13, <1>14
       DEF Daemon

LEMMA AccidentGood ==
  ASSUME IInv, Kept, NEW w \in Workers, Sensor(w) \/ Misfortune(w) \/ Restart(w)
  PROVE  GoodStep
  <1>0. w \in Procs
    BY DEF Procs
  <1> USE DEF local, files, results, counts
  <1>h. ASSUME Home(w) PROVE LoopKeeps
    BY <1>0, <1>h, OneMoves DEF Home, Goto, Writing
  <1>1. CASE RamLow(w)
    BY <1>0, <1>1, <1>h, OwnRowWritten DEF RamLow, Holding
  <1>2. CASE SensorLine(w)
    <2>1. LoopKeeps
      BY <1>0, <1>2, OneMoves DEF SensorLine, Goto, Writing
    <2>2. QED
      BY <1>2, <2>1, NothingWritten DEF SensorLine
  <1>3. ASSUME NEW hit \in BOOLEAN, SensorEnd(w, hit) PROVE GoodStep
    <2>1. LoopKeeps
      BY <1>0, <1>3, OneMoves DEF SensorEnd, Goto, Writing
    <2>2. QED
      BY <1>3, <2>1, NothingWritten DEF SensorEnd
  <1>4. CASE JobRaises(w)
    <2>1. LoopKeeps
      BY <1>0, <1>4, OneMoves DEF JobRaises, Goto, Writing
    <2>2. QED
      BY <1>4, <2>1, NothingWritten DEF JobRaises
  <1>5. CASE DbError(w)
    BY <1>5, <1>h, NothingWritten DEF DbError
  <1>6. CASE Crash(w)
    <2>1. LoopKeeps
      BY <1>0, <1>6, OneMoves DEF Crash, Goto, Writing
    <2>2. QED
      BY <1>6, <2>1, NothingWritten DEF Crash
  <1>7. CASE Restart(w)
    <2>1. LoopKeeps
      BY <1>0, <1>7, OneMoves DEF Restart, Goto, Writing
    <2>2. QED
      BY <1>7, <2>1, NothingWritten DEF Restart
  <1>8. QED
    BY <1>1, <1>2, <1>3, <1>4, <1>5, <1>6, <1>7 DEF Sensor, Misfortune

LEMMA HttpGood ==
  ASSUME IInv, Kept, NEW h \in HttpWorkers, Http(h)
  PROVE  GoodStep
  <1>0. h \in Procs /\ h \notin Workers
    BY ScanQueueAssumption DEF ScanQueueAssumption, Procs
  <1> USE DEF local, files, results, counts
  <1>h. ASSUME Home(h) PROVE LoopKeeps
    BY <1>0, <1>h, OneMoves DEF Home, Goto, Writing
  <1>1. CASE ClaimSelect(h)
    <2>1. PICK j \in Jobs : job' = [job EXCEPT ![h] = j]
      BY <1>1 DEF ClaimSelect
    <2>2. LoopKeeps
      BY <1>0, <1>1, <2>1, OneMoves DEF ClaimSelect, Goto, Writing
    <2>3. QED
      BY <1>1, <2>2, NothingWritten DEF ClaimSelect
  <1>2. CASE ClaimUpdate(h)
    <2>1. job[h] \in Jobs /\ UNCHANGED <<made, disk>>
      BY <1>0, <1>2 DEF ClaimUpdate, IInv, ClaimHasJob
    <2>2. CASE /\ rows[job[h]].status = "QUEUED" /\ Start(job[h], h)
               /\ Goto(h, "work") /\ UNCHANGED job
      <3>1. LoopKeeps
        BY <1>0, <2>2, OneMoves DEF Goto, Writing
      <3>2. QED
        BY <1>0, <2>1, <2>2, <3>1, RowStarted
    <2>3. CASE Home(h) /\ UNCHANGED rows
      BY <1>h, <2>1, <2>3, NothingWritten
    <2>4. QED
      BY <1>2, <2>2, <2>3 DEF ClaimUpdate
  <1>3. CASE FinishHttp(h)
    <2>1. pc[h] \in Holding /\ UNCHANGED <<made, disk>> /\ LoopKeeps
      BY <1>3, <1>h DEF FinishHttp, Holding
    <2>2. SetStatus(job[h], "DONE") \/ SetStatus(job[h], "FAILED")
      BY <1>3 DEF FinishHttp
    <2>3. QED
      BY <1>0, <2>1, <2>2, OwnRowWritten
  <1>4. CASE LoseHttp(h)
    BY <1>4, <1>h, NothingWritten DEF LoseHttp
  <1>5. CASE ClaimError(h)
    BY <1>5, <1>h, NothingWritten DEF ClaimError
  <1>6. QED
    BY <1>1, <1>2, <1>3, <1>4, <1>5 DEF Http

LEMMA UsersGood ==
  ASSUME IInv, Kept, Users
  PROVE  GoodStep
  <1> USE DEF local, files, results, counts
  <1>0. UNCHANGED <<pc, job>> => LoopKeeps
    BY DEF LoopKeeps
  <1>1. CASE Submit
    <2>1. PICK priority \in Wanted, gpu \in GpuFlags : Insert(priority, NoTile, gpu)
      BY <1>1 DEF Submit
    <2>2. priority \in Priorities /\ gpu \in BOOLEAN /\ NoTile \in Tiles \cup {NoTile}
      BY ScanQueueAssumption DEF ScanQueueAssumption
    <2>3. UNCHANGED <<made, disk>> /\ LoopKeeps
      BY <1>0, <1>1 DEF Submit
    <2>4. QED
      BY <2>1, <2>2, <2>3, RowInserted
  <1>2. ASSUME NEW j \in Jobs, Cancel(j) PROVE GoodStep
    <2>1. /\ Others(j) /\ rows'[j].status = "CANCELLED" /\ rows[j].status = "QUEUED"
          /\ rows'[j].tile = rows[j].tile
      BY <1>2, SetStatusEffect, SmallTypes DEF Cancel, Statuses
    <2>2. UNCHANGED <<made, disk>> /\ LoopKeeps
      BY <1>0, <1>2 DEF Cancel
    <2>3. QED
      BY <2>1, <2>2, OneRowWritten DEF Open
  <1>3. CASE ClearDone
    <2>1. \A j \in Jobs : /\ rows[j].status \notin Finished => rows'[j] = rows[j]
                          /\ rows[j].status \in Finished => rows'[j].status = "DELETED"
                          /\ rows'[j].tile = rows[j].tile
      BY <1>3, ClearDoneEffect, SmallTypes
    <2>2. UNCHANGED <<made, disk>> /\ LoopKeeps
      BY <1>0, <1>3 DEF ClearDone
    <2>3. RowsKeep /\ FinalStep
      BY <2>1 DEF RowsKeep, FinalStep, Freed, Finished
    <2>4. \A j \in Jobs : rows'[j].status = "DONE" /\ rows'[j].owner \in Workers =>
             \/ rows'[j].uploaded
             \/ rows[j].status # "NEW" /\ Intact(j)
      BY <2>1 DEF Finished
    <2>5. QED
      BY <2>2, <2>3, <2>4, KeptStays DEF GoodStep
  <1>4. ASSUME NEW on \in PauseFlags, SetPause(on) PROVE GoodStep
    BY <1>0, <1>4, NothingWritten DEF SetPause
  <1>5. ASSUME NEW w \in Workers, Sigterm(w) PROVE GoodStep
    BY <1>0, <1>5, NothingWritten DEF Sigterm
  <1>6. QED
    BY <1>1, <1>2, <1>3, <1>4, <1>5 DEF Users

LEMMA EveryStepGood == IInv /\ Kept /\ [Next]_vars => GoodStep
  <1>1. ASSUME IInv, Kept, UNCHANGED vars PROVE GoodStep
    <2>1. LoopKeeps
      BY <1>1 DEF vars, LoopKeeps
    <2>2. QED
      BY <1>1, <2>1, NothingWritten DEF vars
  <1>2. QED
    BY <1>1, UsersGood, DaemonGood, AccidentGood, HttpGood DEF Next


-------------------------------------------------------------------------------
(* The theorems.                                                           *)

\* Results are kept, and so is what running jobs have written.
LEMMA EveryResultKept == Spec => []Kept
  <1>1. Init => Kept
    BY DEF Init, Kept, ResultKept, Writing, Procs
  <1>2. IInv /\ Kept /\ [Next]_vars => Kept'
    BY EveryStepGood DEF GoodStep
  <1>3. QED
    BY <1>1, <1>2, Agreement, PTL DEF Spec

\* All of the result of a finished scan is on the daemon's disk until it is uploaded,
\* whatever crashes, failed writes and purges come in between, unless a job of the
\* same second and label freed the directory they share.
THEOREM ResultsKept == Spec => []ResultKept
  <1>1. Kept => ResultKept
    BY DEF Kept
  <1>2. QED
    BY <1>1, EveryResultKept, PTL

\* A finished job is never put back, claimed again or finished differently.
THEOREM FinalStaysFinal == Spec => FinalIsFinal
  <1>1. IInv /\ Kept /\ [Next]_vars => [FinalStep]_vars
    BY EveryStepGood DEF GoodStep
  <1>2. QED
    BY <1>1, Agreement, EveryResultKept, PTL DEF Spec, FinalIsFinal, FinalStep

-------------------------------------------------------------------------------
(* The scan queue implements the job board: every step of ScanQueue moves  *)
(* one job on the board, or none.  boardOf changes with the status of a    *)
(* row and busyOf with the stage of a process; the four lemmas below say   *)
(* how, and each action is then one of the board's.                        *)

\* The row of job j, and no other, changes in this step.
BoardMoves(j, place) == boardOf' = [boardOf EXCEPT ![j] = place]

\* Process p, and no other, changes what it is busy with in this step.
BusyMoves(p, j) == busyOf' = [busyOf EXCEPT ![p] = j]

\* Only process p moves in this step.
Alone(p) == \A q \in Procs \ {p} : pc'[q] = pc[q] /\ job'[q] = job[q]

LEMMA BoardSet ==
  ASSUME NEW j \in Jobs, Others(j)
  PROVE  BoardMoves(j, Place(rows'[j].status))
  <1>1. \A k \in Jobs : k # j => rows'[k].status = rows[k].status
    BY DEF Others
  <1>2. QED
    BY <1>1 DEF BoardMoves, boardOf

LEMMA BoardKept ==
  ASSUME \A j \in Jobs : rows'[j].status = rows[j].status
  PROVE  UNCHANGED boardOf
  BY DEF boardOf

LEMMA BusySet ==
  ASSUME NEW p \in Procs, Alone(p)
  PROVE  BusyMoves(p, IF pc'[p] \in Holding THEN job'[p] ELSE NoJob)
  BY DEF Alone, BusyMoves, busyOf

LEMMA BusyKept ==
  ASSUME NEW p \in Procs, Alone(p),
         \/ pc[p] \notin Holding /\ pc'[p] \notin Holding
         \/ pc[p] \in Holding /\ pc'[p] \in Holding /\ job'[p] = job[p]
  PROVE  UNCHANGED busyOf
  BY DEF Alone, busyOf

LEMMA NoJobIsNoJob == NoJob \notin Jobs
  BY DEF NoJob, Jobs

-------------------------------------------------------------------------------
(* The moves of the board, from what a step does to rows, pc and job.      *)

LEMMA TakeMove ==
  ASSUME NEW p \in Procs, NEW j \in Jobs, Others(j), Alone(p),
         rows[j].status = "QUEUED", rows'[j].status = "RUNNING",
         pc[p] \notin Holding, pc'[p] \in Holding, job'[p] = j
  PROVE  Board!Next
  <1>1. boardOf[j] = "queued" /\ busyOf[p] = NoJob
    BY DEF boardOf, busyOf, Place
  <1>2. boardOf' = [boardOf EXCEPT ![j] = "taken"]
    BY BoardSet DEF BoardMoves, Place
  <1>3. busyOf' = [busyOf EXCEPT ![p] = j]
    BY BusySet DEF BusyMoves
  <1>4. Board!Take(p, j)
    BY <1>1, <1>2, <1>3 DEF Board!Take
  <1>5. QED
    BY <1>4 DEF Board!Next

LEMMA SettleMove ==
  ASSUME IInv, NEW p \in Procs, Others(job[p]), Alone(p),
         pc[p] \in Holding, pc'[p] \notin Holding,
         rows'[job[p]].status \in {"QUEUED", "DONE", "FAILED"}
  PROVE  Board!Next
  <1>1. job[p] \in Jobs
    BY DEF IInv, RunnerOwnsRow
  <1>2. busyOf[p] = job[p] /\ busyOf[p] # NoJob
    BY <1>1, NoJobIsNoJob DEF busyOf
  <1>3. busyOf' = [busyOf EXCEPT ![p] = NoJob]
    BY BusySet DEF BusyMoves
  <1>4. boardOf' = [boardOf EXCEPT ![job[p]] = Place(rows'[job[p]].status)]
    BY <1>1, BoardSet DEF BoardMoves
  <1>5. CASE rows'[job[p]].status = "QUEUED"
    <2>1. Board!GiveBack(p)
      BY <1>2, <1>3, <1>4, <1>5 DEF Board!GiveBack, Board!Release, Place
    <2>2. QED
      BY <2>1 DEF Board!Next
  <1>6. CASE rows'[job[p]].status \in {"DONE", "FAILED"}
    <2>1. Board!Finish(p)
      BY <1>2, <1>3, <1>4, <1>6 DEF Board!Finish, Board!Release, Place
    <2>2. QED
      BY <2>1 DEF Board!Next
  <1>7. QED
    BY <1>5, <1>6

LEMMA AbandonMove ==
  ASSUME IInv, NEW p \in Procs, Alone(p), rows' = rows, pc[p] \in Holding, pc'[p] \notin Holding
  PROVE  Board!Next
  <1>1. job[p] \in Jobs
    BY DEF IInv, RunnerOwnsRow
  <1>2. busyOf[p] # NoJob
    BY <1>1, NoJobIsNoJob DEF busyOf
  <1>3. busyOf' = [busyOf EXCEPT ![p] = NoJob] /\ UNCHANGED boardOf
    BY BusySet, BoardKept DEF BusyMoves
  <1>4. Board!Abandon(p)
    BY <1>2, <1>3 DEF Board!Abandon
  <1>5. QED
    BY <1>4 DEF Board!Next

LEMMA IdleMove ==
  ASSUME NEW p \in Procs, Alone(p), \A j \in Jobs : rows'[j].status = rows[j].status,
         \/ pc[p] \notin Holding /\ pc'[p] \notin Holding
         \/ pc[p] \in Holding /\ pc'[p] \in Holding /\ job'[p] = job[p]
  PROVE  UNCHANGED Board!vars
  BY BoardKept, BusyKept DEF Board!vars

LEMMA PostMove ==
  ASSUME IInv, NEW priority \in Priorities, NEW tile \in Tiles \cup {NoTile}, NEW gpu \in BOOLEAN,
         Insert(priority, tile, gpu), UNCHANGED busyOf
  PROVE  Board!Next
  <1>1. /\ created + 1 \in Jobs
        /\ Others(created + 1)
        /\ rows'[created + 1].status = "QUEUED"
    BY InsertEffect, SmallTypes
  <1>2. created + 1 > created
    BY SmallTypes
  <1>3. rows[created + 1].status = "NEW"
    BY <1>1, <1>2 DEF IInv, NewRows
  <1>4. boardOf' = [boardOf EXCEPT ![created + 1] = "queued"]
    BY <1>1, BoardSet DEF BoardMoves, Place
  <1>5. Board!Post(created + 1)
    BY <1>1, <1>3, <1>4 DEF Board!Post, boardOf, Place
  <1>6. QED
    BY <1>1, <1>5 DEF Board!Next

-------------------------------------------------------------------------------
(* Every action is a move of the board or leaves it as it is.              *)

BoardStep == Board!Next \/ UNCHANGED Board!vars

LEMMA GotoAlone ==
  ASSUME IInv, NEW p \in Procs, NEW s, Goto(p, s), UNCHANGED job
  PROVE  Alone(p) /\ pc'[p] = s /\ job'[p] = job[p]
  BY SmallTypes DEF Goto, Alone

LEMMA HomeAlone ==
  ASSUME IInv, NEW p \in Procs, Home(p)
  PROVE  Alone(p) /\ pc'[p] = "poll"
  <1>1. pc' = [pc EXCEPT ![p] = "poll"] /\ job' = [job EXCEPT ![p] = NoJob]
    BY DEF Home, Goto
  <1>2. QED
    BY <1>1, SmallTypes DEF Alone

LEMMA Quiet ==
  ASSUME NEW p \in Procs, Alone(p), UNCHANGED rows, (pc[p] \in Holding) = (pc'[p] \in Holding),
         pc[p] \in Holding => job'[p] = job[p]
  PROVE  BoardStep
  BY IdleMove DEF BoardStep

LEMMA PopBoard ==
  ASSUME IInv, NEW w \in Workers, w \in Procs, Pop(w), pc[w] \notin Holding
  PROVE  BoardStep
  <1>1. PICK j \in Jobs : /\ rows[j].status = "QUEUED" /\ Start(j, w)
                          /\ job' = [job EXCEPT ![w] = j] /\ pc' = [pc EXCEPT ![w] = "ram"]
    BY DEF Pop, Selected, Queued, Goto
  <1>2. Others(j) /\ rows'[j].status = "RUNNING"
    BY <1>1, StartEffect, SmallTypes
  <1>3. Alone(w) /\ pc'[w] = "ram" /\ job'[w] = j
    BY <1>1, SmallTypes DEF Alone
  <1>4. QED
    BY <1>1, <1>2, <1>3, TakeMove DEF BoardStep, Holding

LEMMA SettleBoard ==
  ASSUME IInv, NEW p \in Procs, pc[p] \in Holding, Alone(p), pc'[p] \notin Holding,
         \/ re_queue(job[p])
         \/ SetStatus(job[p], "DONE")
         \/ SetStatus(job[p], "FAILED")
  PROVE  BoardStep
  <1>1. job[p] \in Jobs
    BY DEF IInv, RunnerOwnsRow
  <1>2. Others(job[p]) /\ rows'[job[p]].status \in {"QUEUED", "DONE", "FAILED"}
    <2>1. CASE re_queue(job[p])
      BY <1>1, <2>1, ReQueueEffect, SmallTypes
    <2>2. CASE SetStatus(job[p], "DONE")
      BY <1>1, <2>2, SetStatusEffect, SmallTypes DEF Statuses
    <2>3. CASE SetStatus(job[p], "FAILED")
      BY <1>1, <2>3, SetStatusEffect, SmallTypes DEF Statuses
    <2>4. QED
      BY <2>1, <2>2, <2>3
  <1>3. QED
    BY <1>2, SettleMove DEF BoardStep

LEMMA DaemonBoard ==
  ASSUME IInv, NEW w \in Workers, Daemon(w)
  PROVE  BoardStep
  <1>0. w \in Procs
    BY DEF Procs
  <1>1. CASE PopNext(w)
    <2>1. pc[w] = "poll"
      BY <1>1 DEF PopNext
    <2>2. CASE Pop(w)
      BY <1>0, <2>1, <2>2, PopBoard DEF Holding
    <2>3. CASE Goto(w, "pick") /\ UNCHANGED <<rows, job>>
      BY <1>0, <2>1, <2>3, GotoAlone, Quiet DEF Holding
    <2>4. QED
      BY <1>1, <2>2, <2>3 DEF PopNext
  <1>2. CASE PickTile(w)
    BY <1>0, <1>2, GotoAlone, Quiet DEF PickTile, Holding
  <1>3. CASE PushIdle(w)
    <2>1. Alone(w) /\ pc'[w] = "pop" /\ pc[w] = "push"
      BY <1>0, <1>3, GotoAlone DEF PushIdle
    <2>2. UNCHANGED busyOf
      BY <1>0, <2>1, BusyKept DEF Holding
    <2>3. pick[w] \in Tiles \cup {NoTile} /\ PRIORITY_IDLE \in Priorities /\ FALSE \in BOOLEAN
      BY SmallTypes DEF Priorities
    <2>4. PICK gpu \in BOOLEAN : Insert(PRIORITY_IDLE, pick[w], gpu)
      BY <1>3, <2>3 DEF PushIdle
    <2>5. QED
      BY <2>2, <2>3, <2>4, PostMove DEF BoardStep
  <1>4. CASE PopAgain(w)
    <2>1. pc[w] = "pop"
      BY <1>4 DEF PopAgain
    <2>2. CASE Pop(w)
      BY <1>0, <2>1, <2>2, PopBoard DEF Holding
    <2>3. CASE Home(w) /\ UNCHANGED rows
      BY <1>0, <2>1, <2>3, HomeAlone, Quiet DEF Holding
    <2>4. QED
      BY <1>4, <2>2, <2>3 DEF PopAgain
  <1>5. CASE Execute(w)
    BY <1>0, <1>5, GotoAlone, Quiet DEF Execute, Holding
  <1>6. CASE StartSensor(w)
    BY <1>0, <1>6, GotoAlone, Quiet DEF StartSensor, Holding
  <1>7. CASE InterruptCheck(w)
    BY <1>0, <1>7, GotoAlone, Quiet DEF InterruptCheck, Holding
  <1>8. CASE ReQueue(w)
    BY <1>0, <1>8, HomeAlone, SettleBoard DEF ReQueue, Holding
  <1>9. CASE MarkDone(w)
    BY <1>0, <1>9, GotoAlone, SettleBoard DEF MarkDone, Holding
  <1>10. CASE MarkFailed(w)
    BY <1>0, <1>10, HomeAlone, SettleBoard DEF MarkFailed, Holding
  <1>11. CASE Upload(w)
    <2>1. pc[w] = "upload" /\ UNCHANGED rows
      BY <1>11 DEF Upload
    <2>2. CASE Goto(w, "record") /\ UNCHANGED job
      BY <1>0, <2>1, <2>2, GotoAlone, Quiet DEF Holding
    <2>3. CASE Home(w)
      BY <1>0, <2>1, <2>3, HomeAlone, Quiet DEF Holding
    <2>4. QED
      BY <1>11, <2>2, <2>3 DEF Upload
  <1>12. CASE MarkUploaded(w)
    <2>1. pc[w] = "record" /\ job[w] \in Jobs
      BY <1>0, <1>12 DEF MarkUploaded, IInv, StoredRow, Storing
    <2>2. \A j \in Jobs : rows'[j].status = rows[j].status
      <3>1. CASE UNCHANGED rows
        BY <3>1
      <3>2. CASE rows' = [rows EXCEPT ![job[w]].uploaded = TRUE]
        BY <2>1, <3>2, UploadedEffect, SmallTypes DEF Others
      <3>3. QED
        BY <1>12, <3>1, <3>2 DEF MarkUploaded
    <2>3. CASE Goto(w, "clean") /\ UNCHANGED job
      BY <1>0, <2>1, <2>2, <2>3, GotoAlone, IdleMove DEF Holding, BoardStep
    <2>4. CASE Home(w)
      BY <1>0, <2>1, <2>2, <2>4, HomeAlone, IdleMove DEF Holding, BoardStep
    <2>5. QED
      BY <1>12, <2>3, <2>4 DEF MarkUploaded
  <1>13. CASE FreeDisk(w)
    BY <1>0, <1>13, HomeAlone, Quiet DEF FreeDisk, Holding
  <1>14. CASE Quit(w)
    BY <1>0, <1>14, GotoAlone, Quiet DEF Quit, Holding
  <1>15. QED
    BY <1>1, <1>2, <1>3, <1>4, <1>5, <1>6, <1>7, <1>8, <1>9, <1>10, <1>11, <1>12, <1>13, <1>14
       DEF Daemon

\* A process that loses its job without a word abandons it.
LEMMA LostBoard ==
  ASSUME IInv, NEW p \in Procs, UNCHANGED rows, Alone(p), pc'[p] \in {"poll", "down"}
  PROVE  BoardStep
  <1>1. pc'[p] \notin Holding
    BY DEF Holding
  <1>2. CASE pc[p] \in Holding
    BY <1>1, <1>2, AbandonMove DEF BoardStep
  <1>3. CASE pc[p] \notin Holding
    BY <1>1, <1>3, Quiet
  <1>4. QED
    BY <1>2, <1>3

LEMMA AccidentBoard ==
  ASSUME IInv, NEW w \in Workers, Sensor(w) \/ Misfortune(w) \/ Restart(w)
  PROVE  BoardStep
  <1>0. w \in Procs
    BY DEF Procs
  <1>1. CASE SensorLine(w)
    BY <1>0, <1>1, GotoAlone, Quiet DEF SensorLine, Holding
  <1>2. CASE \E hit \in BOOLEAN : SensorEnd(w, hit)
    <2>1. pc[w] = "sensor" /\ UNCHANGED <<rows, job>>
          /\ Goto(w, IF todo[w] = 1 THEN "done" ELSE "next")
      BY <1>2 DEF SensorEnd
    <2>2. QED
      BY <1>0, <2>1, GotoAlone, Quiet DEF Holding
  <1>3. CASE RamLow(w)
    BY <1>0, <1>3, HomeAlone, SettleBoard DEF RamLow, Holding
  <1>4. CASE JobRaises(w)
    BY <1>0, <1>4, GotoAlone, Quiet DEF JobRaises, Holding
  <1>5. CASE DbError(w)
    BY <1>0, <1>5, HomeAlone, LostBoard DEF DbError
  <1>6. CASE Crash(w)
    <2>1. pc' = [pc EXCEPT ![w] = "down"] /\ job' = [job EXCEPT ![w] = NoJob] /\ UNCHANGED rows
      BY <1>6 DEF Crash, Goto
    <2>2. Alone(w) /\ pc'[w] = "down"
      BY <1>0, <2>1, SmallTypes DEF Alone
    <2>3. QED
      BY <1>0, <2>1, <2>2, LostBoard
  <1>7. CASE Restart(w)
    BY <1>0, <1>7, GotoAlone, LostBoard DEF Restart
  <1>8. QED
    BY <1>1, <1>2, <1>3, <1>4, <1>5, <1>6, <1>7 DEF Sensor, Misfortune

LEMMA HttpBoard ==
  ASSUME IInv, NEW h \in HttpWorkers, Http(h)
  PROVE  BoardStep
  <1>0. h \in Procs
    BY DEF Procs
  <1>1. CASE ClaimSelect(h)
    <2>1. PICK j \in Jobs : job' = [job EXCEPT ![h] = j]
      BY <1>1 DEF ClaimSelect
    <2>2. pc' = [pc EXCEPT ![h] = "claim"] /\ pc[h] = "poll" /\ UNCHANGED rows
      BY <1>1 DEF ClaimSelect, Goto
    <2>3. Alone(h) /\ pc'[h] = "claim"
      BY <1>0, <2>1, <2>2, SmallTypes DEF Alone
    <2>4. QED
      BY <1>0, <2>2, <2>3, Quiet DEF Holding
  <1>2. CASE ClaimUpdate(h)
    <2>1. pc[h] = "claim" /\ job[h] \in Jobs
      BY <1>0, <1>2 DEF ClaimUpdate, IInv, ClaimHasJob
    <2>2. CASE rows[job[h]].status = "QUEUED"
      <3>1. Start(job[h], h) /\ Goto(h, "work") /\ UNCHANGED job
        BY <1>2, <2>2 DEF ClaimUpdate
      <3>2. Others(job[h]) /\ rows'[job[h]].status = "RUNNING"
        BY <1>0, <2>1, <3>1, StartEffect, SmallTypes
      <3>3. QED
        BY <1>0, <2>1, <2>2, <3>1, <3>2, GotoAlone, TakeMove DEF Holding, BoardStep
    <2>3. CASE rows[job[h]].status # "QUEUED"
      <3>1. Home(h) /\ UNCHANGED rows
        BY <1>2, <2>3 DEF ClaimUpdate
      <3>2. QED
        BY <1>0, <3>1, HomeAlone, LostBoard
    <2>4. QED
      BY <2>2, <2>3
  <1>3. CASE FinishHttp(h)
    BY <1>0, <1>3, HomeAlone, SettleBoard DEF FinishHttp, Holding
  <1>4. CASE LoseHttp(h)
    BY <1>0, <1>4, HomeAlone, LostBoard DEF LoseHttp
  <1>5. CASE ClaimError(h)
    BY <1>0, <1>5, HomeAlone, LostBoard DEF ClaimError
  <1>6. QED
    BY <1>1, <1>2, <1>3, <1>4, <1>5 DEF Http

LEMMA UsersBoard ==
  ASSUME IInv, Users
  PROVE  BoardStep
  <1> USE DEF local, files, results, counts
  <1>1. CASE Submit
    <2>1. PICK priority \in Priorities, gpu \in BOOLEAN : Insert(priority, NoTile, gpu)
      <3>1. PICK p \in Wanted, g \in GpuFlags : Insert(p, NoTile, g)
        BY <1>1 DEF Submit
      <3>2. p \in Priorities /\ g \in BOOLEAN
        BY ScanQueueAssumption DEF ScanQueueAssumption
      <3>3. QED
        BY <3>1, <3>2
    <2>2. UNCHANGED busyOf
      BY <1>1 DEF Submit, busyOf
    <2>3. QED
      BY <2>1, <2>2, PostMove DEF BoardStep
  <1>2. ASSUME NEW j \in Jobs, Cancel(j) PROVE BoardStep
    <2>1. Others(j) /\ rows'[j].status = "CANCELLED" /\ rows[j].status = "QUEUED"
      BY <1>2, SetStatusEffect, SmallTypes DEF Cancel, Statuses
    <2>2. boardOf[j] = "queued" /\ boardOf' = [boardOf EXCEPT ![j] = "withdrawn"]
      BY <2>1, BoardSet DEF BoardMoves, boardOf, Place
    <2>3. UNCHANGED busyOf
      BY <1>2 DEF Cancel, busyOf
    <2>4. Board!Withdraw(j)
      BY <2>2, <2>3 DEF Board!Withdraw
    <2>5. QED
      BY <2>4 DEF Board!Next, BoardStep
  <1>3. CASE ClearDone
    <2>1. \A j \in Jobs : /\ rows[j].status \notin Finished => rows'[j] = rows[j]
                          /\ rows[j].status \in Finished => rows'[j].status = "DELETED"
      BY <1>3, ClearDoneEffect, SmallTypes
    <2>2. \A j \in Jobs : rows[j].status \in Statuses
      BY SmallTypes DEF Row
    <2>3. \A j \in Jobs : boardOf[j] \in {"finished", "withdrawn"} <=> rows[j].status \in Finished
      BY <2>2 DEF boardOf, Place, Finished, Statuses
    <2>4. ASSUME NEW j \in Jobs
          PROVE  Place(rows'[j].status) =
                   IF boardOf[j] \in {"finished", "withdrawn"} THEN "purged" ELSE boardOf[j]
      <3>1. boardOf[j] = Place(rows[j].status)
        BY DEF boardOf
      <3>2. CASE rows[j].status \in Finished
        BY <2>1, <2>3, <3>2 DEF Place
      <3>3. CASE rows[j].status \notin Finished
        BY <2>1, <2>3, <3>1, <3>3
      <3>4. QED
        BY <3>2, <3>3
    <2>5. UNCHANGED busyOf
      BY <1>3 DEF ClearDone, busyOf
    <2>6. Board!Purge
      BY <2>4, <2>5 DEF Board!Purge, boardOf
    <2>7. QED
      BY <2>6 DEF Board!Next, BoardStep
  <1>4. ASSUME NEW on \in PauseFlags, SetPause(on) PROVE BoardStep
    BY <1>4 DEF SetPause, BoardStep, Board!vars, boardOf, busyOf
  <1>5. ASSUME NEW w \in Workers, Sigterm(w) PROVE BoardStep
    BY <1>5 DEF Sigterm, BoardStep, Board!vars, boardOf, busyOf
  <1>6. QED
    BY <1>1, <1>2, <1>3, <1>4, <1>5 DEF Users

-------------------------------------------------------------------------------
(* The theorems.                                                           *)

\* The table with its daemons and remote workers implements the board, for any
\* number of them: a job has one taker, and only the taker says what becomes of it.
THEOREM QueueImplementsBoard == Spec => ImplementsBoard
  <1>1. Init => Board!Init
    BY DEF Init, Board!Init, boardOf, busyOf, Place, Holding
  <1>2. IInv /\ [Next]_vars => [Board!Next]_(Board!vars)
    <2> SUFFICES ASSUME IInv, [Next]_vars PROVE BoardStep
      BY DEF BoardStep
    <2>1. CASE UNCHANGED vars
      BY <2>1 DEF vars, BoardStep, Board!vars, boardOf, busyOf
    <2>2. CASE Next
      BY <2>2, UsersBoard, DaemonBoard, AccidentBoard, HttpBoard DEF Next
    <2>3. QED
      BY <2>1, <2>2
  <1>3. QED
    BY <1>1, <1>2, Agreement, PTL DEF Spec, ImplementsBoard, Board!Spec

===============================================================================
