------------------------- MODULE NautiInferenceProofs -------------------------
(***************************************************************************)
(* For any requests, amounts, costs and bounds: only an administrator puts *)
(* the balance below zero, the store holds no dead record, handlers,       *)
(* runners and cancel calls implement the ledger of module TokenLedger,    *)
(* and no token is made or lost while nobody sets the balance and nothing  *)
(* fails.                                                                  *)
(***************************************************************************)
EXTENDS NautiInferenceProps, DataLemmas

\* Every request's part of the invariant; the other parts speak of the whole state.
Each == \A r \in Requests : Wants(r) /\ NothingYet(r) /\ NotSpawned(r) /\ RunsReserved(r)

\* The invariant in two parts, each with its own proof.
LEMMA Parts == IInv <=> TypeOK /\ StoreLive /\ Each
  BY DEF IInv, Each

\* What a runner gives back is part of what was reserved.
LEMMA UnusedRange ==
  ASSUME TypeOK, NEW r \in Requests
  PROVE  Unused(r) \in 0..reserved[r]
  BY DEF TypeOK, Unused

\* What is stored of a word is an integer, negative or not.
LEMMA StoredInt == \A b \in Balances : AsI64(b) \in Int
  BY NautiAssumption DEF NautiAssumption, AsI64

\* The state the coordinator is started in.
LEMMA InitIInv == Init => IInv
<1>1. SUFFICES ASSUME Init PROVE IInv
  OBVIOUS
<1>2. balance \in Int
  BY <1>1, StoredInt DEF Init
<1>3. TypeOK
  BY <1>1, <1>2 DEF Init, TypeOK, Stages, RunStages
<1>4. StoreLive
  BY <1>1, <1>2 DEF Init, StoreLive
<1>5. Each
  BY <1>1 DEF Init, Each, Wants, NothingYet, NotSpawned, RunsReserved
<1> QED
  BY <1>3, <1>4, <1>5, Parts

-------------------------------------------------------------------------------
(* One lemma per actor: what its steps keep.                               *)

\* Steps of a handler.
LEMMA HandlerKeeps ==
  ASSUME IInv, NEW r \in Requests,
         HandlerStep(r) \/ HangUp(r) \/ (\E n \in Amounts, s \in BOOLEAN : Receive(r, n, s))
  PROVE  IInv'
<1> USE DEF Handler, Runner, flags, counts, request
<1>0. TypeOK /\ StoreLive /\ Each
  BY Parts
<1>1. CASE \E n \in Amounts, s \in BOOLEAN : Receive(r, n, s)
  <2>1. PICK n \in Amounts, s \in BOOLEAN : Receive(r, n, s)
    BY <1>1
  <2>2. n \in Nat
    BY NautiAssumption DEF NautiAssumption
  <2>3. TypeOK' /\ StoreLive'
    BY <1>0, <2>1, <2>2 DEF Receive, TypeOK, StoreLive, Stages, RunStages, Over
  <2>4. Each'
    BY <1>0, <2>1, <2>2 DEF Receive, TypeOK, Each, Wants, NothingYet, NotSpawned, RunsReserved, BeforeReserve
  <2> QED
    BY <2>3, <2>4 DEF IInv, Each
<1>2. CASE CheckQuota(r)
  <2>1. TypeOK' /\ StoreLive'
    BY <1>0, <1>2 DEF CheckQuota, TypeOK, StoreLive, Stages, RunStages, Over
  <2>2. Each'
    BY <1>0, <1>2 DEF CheckQuota, TypeOK, Each, Wants, NothingYet, NotSpawned, RunsReserved, BeforeReserve
  <2> QED
    BY <2>1, <2>2 DEF IInv, Each
<1>3. CASE Reserve(r)
  <2>1. TypeOK' /\ StoreLive'
    BY <1>0, <1>3 DEF Reserve, TypeOK, StoreLive, Stages, RunStages, Over
  <2>2. Each'
    BY <1>0, <1>3 DEF Reserve, TypeOK, Each, Wants, NothingYet, NotSpawned, RunsReserved, BeforeReserve
  <2> QED
    BY <2>1, <2>2 DEF IInv, Each
<1>4. CASE Insert(r)
  <2>1. TypeOK'
    BY <1>0, <1>4 DEF Insert, TypeOK, Stages, RunStages, Over
  <2>2. StoreLive'
    BY <1>0, <1>4 DEF Insert, StoreLive, Each, NotSpawned
  <2>3. Each'
    BY <1>0, <1>4 DEF Insert, TypeOK, Each, Wants, NothingYet, NotSpawned, RunsReserved, BeforeReserve
  <2> QED
    BY <2>1, <2>2, <2>3 DEF IInv, Each
<1>5. CASE Spawn(r)
  <2>1. TypeOK' /\ StoreLive'
    BY <1>0, <1>5 DEF Spawn, TypeOK, StoreLive, Stages, RunStages, Over
  <2>2. Each'
    BY <1>0, <1>5 DEF Spawn, TypeOK, Each, Wants, NothingYet, NotSpawned, RunsReserved, BeforeReserve
  <2> QED
    BY <2>1, <2>2 DEF IInv, Each
<1>6. CASE Subscribe(r) \/ Recv(r) \/ CheckDone(r) \/ Event(r) \/ HangUp(r)
  \* Behind the spawn nothing the invariant speaks of changes but pc and next.
  <2>0. NautiAssumption
    BY NautiAssumption
  <2>1. TypeOK' /\ StoreLive'
    <3>1. CASE Subscribe(r)
      BY <1>0, <3>1 DEF Subscribe, TypeOK, StoreLive, Stages, RunStages, Over
    <3>2. CASE Recv(r)
      BY <1>0, <3>2 DEF Recv, TypeOK, StoreLive, Stages, RunStages, Over
    <3>3. CASE CheckDone(r)
      BY <1>0, <3>3 DEF CheckDone, TypeOK, StoreLive, Stages, RunStages, Over
    <3>4. CASE Event(r)
      BY <1>0, <2>0, <3>4
      DEF Event, Lagging, NautiAssumption, TypeOK, StoreLive, Stages, RunStages, Over
    <3>5. CASE HangUp(r)
      BY <1>0, <3>5 DEF HangUp, TypeOK, StoreLive, Stages, RunStages, Over
    <3> QED
      BY <1>6, <3>1, <3>2, <3>3, <3>4, <3>5
  <2>2. Each'
    <3>1. /\ UNCHANGED <<want, reserved, run>>
          /\ \/ UNCHANGED pc
             \/ \E stage \in {"events", "recv", "done?", "answered", "gone"} :
                  pc' = [pc EXCEPT ![r] = stage]
      BY <1>6 DEF Subscribe, Recv, CheckDone, Event, HangUp
    <3> QED
      BY <1>0, <3>1 DEF TypeOK, Each, Wants, NothingYet, NotSpawned, RunsReserved, BeforeReserve
  <2> QED
    BY <2>1, <2>2 DEF IInv, Each
<1> QED
  BY <1>1, <1>2, <1>3, <1>4, <1>5, <1>6 DEF HandlerStep

\* Steps of a runner, the llama server's included.
LEMMA RunnerKeeps ==
  ASSUME IInv, NEW r \in Requests, RunnerStep(r) \/ Upstream(r)
  PROVE  IInv'
<1> USE DEF Runner, flags, counts, request
<1>0. TypeOK /\ StoreLive /\ Each
  BY Parts
<1>1. run[r] \notin {"none", "lost"} /\ reserved[r] > 0
  BY <1>0 DEF RunnerStep, Upstream, SendError, SetDone, Release, RemoveJob, Called, Delta, StreamEnds,
              Each, RunsReserved
\* Whatever the step is, it leaves the handler's variables alone.
<1>2. /\ UNCHANGED <<want, pc, reserved>>
      /\ \/ UNCHANGED run
         \/ \E stage \in RunStages \ {"none", "lost"} : run' = [run EXCEPT ![r] = stage]
  BY DEF RunnerStep, Upstream, SendError, SetDone, Release, RemoveJob, Called, Delta, StreamEnds,
         RunStages
<1>3. Each'
  BY <1>0, <1>1, <1>2 DEF TypeOK, Each, Wants, NothingYet, NotSpawned, RunsReserved, BeforeReserve
<1>4. NautiAssumption
  BY NautiAssumption
<1>5. TypeOK' /\ StoreLive'
  <2>1. CASE Called(r) \/ StreamEnds(r) \/ SendError(r) \/ SetDone(r)
    <3>1. TypeOK'
      <4>1. CASE Called(r) \/ StreamEnds(r)
        BY <1>0, <4>1 DEF Called, StreamEnds, TypeOK, RunStages
      <4>2. CASE SendError(r)
        BY <1>0, <4>2 DEF SendError, TypeOK, RunStages
      <4>3. CASE SetDone(r)
        BY <1>0, <4>3 DEF SetDone, TypeOK, RunStages
      <4> QED
        BY <2>1, <4>1, <4>2, <4>3
    <3>2. StoreLive'
      BY <1>0, <2>1 DEF Called, StreamEnds, SendError, SetDone, TypeOK, StoreLive
    <3> QED
      BY <3>1, <3>2
  <2>2. CASE Delta(r)
    BY <1>0, <1>4, <2>2 DEF Delta, TypeOK, StoreLive, RunStages, NautiAssumption
  <2>3. CASE Release(r)
    BY <1>0, <2>3, UnusedRange DEF Release, TypeOK, StoreLive, RunStages
  <2>4. CASE RemoveJob(r)
    BY <1>0, <2>4 DEF RemoveJob, TypeOK, StoreLive, RunStages
  <2> QED
    BY <2>1, <2>2, <2>3, <2>4 DEF RunnerStep, Upstream
<1> QED
  BY <1>3, <1>5 DEF IInv, Each

\* Cancel calls.
LEMMA CancelKeeps ==
  ASSUME IInv, NEW r \in Requests, Cancel(r) \/ CancelRemove(r)
  PROVE  IInv'
<1>1. UNCHANGED <<balance, want, stream, pc, reserved, run, used, sent, next, done, faults, sets>>
  BY DEF Cancel, CancelRemove, flags, counts, request
<1>2. /\ jobs' \subseteq jobs
      /\ cancelling' \subseteq Requests
      /\ cancelled' \in [Requests -> BOOLEAN]
  BY DEF IInv, TypeOK, Cancel, CancelRemove
<1> QED
  BY <1>1, <1>2 DEF IInv, TypeOK, StoreLive, Wants, NothingYet, NotSpawned, RunsReserved

\* A new balance.
LEMMA SetBalanceKeeps ==
  ASSUME IInv, NEW b \in Balances, SetBalance(b)
  PROVE  IInv'
  BY StoredInt DEF SetBalance, IInv, TypeOK, StoreLive, Wants,
       NothingYet, NotSpawned, RunsReserved, request, flags

\* The coordinator dies.
LEMMA CrashKeeps ==
  ASSUME IInv, Crash
  PROVE  IInv'
<1>1. TypeOK' /\ StoreLive'
  BY DEF Crash, IInv, TypeOK, StoreLive, Stages, RunStages, Over, request
<1>2. Each'
  <2> SUFFICES ASSUME NEW r \in Requests
               PROVE  (Wants(r) /\ NothingYet(r) /\ NotSpawned(r) /\ RunsReserved(r))'
    BY DEF Each
  <2>1. /\ pc'[r] = IF pc[r] \in {"idle"} \cup Over THEN pc[r] ELSE "lost"
        /\ run'[r] = IF reserved[r] = 0 \/ run[r] = "ended" THEN run[r] ELSE "lost"
        /\ UNCHANGED <<want, reserved>>
    BY DEF Crash, request
  <2> QED
    BY <2>1 DEF IInv, Wants, NothingYet, NotSpawned, RunsReserved, BeforeReserve, Over
<1> QED
  BY <1>1, <1>2 DEF IInv, Each

\* Every step keeps the invariant.
LEMMA StepKeeps == IInv /\ [Next]_vars => IInv'
<1>1. SUFFICES ASSUME IInv, [Next]_vars PROVE IInv'
  OBVIOUS
<1>2. CASE \E r \in Requests : HandlerStep(r) \/ RunnerStep(r) \/ Upstream(r) \/ Client(r)
  <2>1. PICK r \in Requests : HandlerStep(r) \/ RunnerStep(r) \/ Upstream(r) \/ Client(r)
    BY <1>2
  <2> QED
    BY <1>1, <2>1, HandlerKeeps, RunnerKeeps, CancelKeeps DEF Client
<1>3. CASE \E b \in Balances : SetBalance(b)
  BY <1>1, <1>3, SetBalanceKeeps
<1>4. CASE Crash
  BY <1>1, <1>4, CrashKeeps
<1>5. CASE UNCHANGED vars
  BY <1>1, <1>5 DEF vars, flags, counts, request, IInv, TypeOK, StoreLive, Wants,
                    NothingYet, NotSpawned, RunsReserved
<1> QED
  BY <1>1, <1>2, <1>3, <1>4, <1>5 DEF Next

-------------------------------------------------------------------------------
(* The theorems.                                                           *)

\* The invariant holds in every reachable state.
THEOREM Invariance == Spec => []IInv
<1>1. Init => IInv
  BY InitIInv
<1>2. IInv /\ [Next]_vars => IInv'
  BY StepKeeps
<1> QED
  BY <1>1, <1>2, PTL DEF Spec

\* Every variable keeps its type, whatever balances are set and whatever fails.
THEOREM TypesKept == Spec => []TypeOK
<1>1. IInv => TypeOK
  BY DEF IInv
<1> QED
  BY <1>1, Invariance, PTL

\* Only an administrator puts the balance below zero or, once it is there, further
\* below, whichever handlers look at the balance between another's look and its
\* taking of tokens.
THEOREM NeverOverdrawn == Spec => NoOverdraft
<1>1. IInv /\ [Next]_vars => [balance' < 0 /\ balance' < balance => sets' = sets + 1]_vars
  <2>1. SUFFICES ASSUME IInv, Next PROVE balance' < 0 /\ balance' < balance => sets' = sets + 1
    OBVIOUS
  <2>2. TypeOK
    BY <2>1 DEF IInv
  <2>3. CASE \E r \in Requests : HandlerStep(r) \/ RunnerStep(r) \/ Upstream(r) \/ Client(r)
    <3>1. PICK r \in Requests : HandlerStep(r) \/ RunnerStep(r) \/ Upstream(r) \/ Client(r)
      BY <2>3
    <3>2. CASE Reserve(r)
      BY <2>2, <3>2 DEF Reserve, TypeOK
    <3>3. CASE Release(r)
      BY <2>2, <3>3, UnusedRange DEF Release, TypeOK
    <3>4. CASE UNCHANGED balance
      BY <2>2, <3>4 DEF TypeOK
    <3> QED
      BY <3>1, <3>2, <3>3, <3>4
      DEF HandlerStep, CheckQuota, Insert, Spawn, Subscribe, Recv, CheckDone, Event,
          RunnerStep, SendError, SetDone, RemoveJob, Upstream, Called, Delta, StreamEnds, Client,
          Receive, HangUp, Cancel, CancelRemove
  <2>4. CASE \E b \in Balances : SetBalance(b)
    BY <2>4 DEF SetBalance
  <2>5. CASE Crash
    BY <2>2, <2>5 DEF Crash, TypeOK
  <2> QED
    BY <2>1, <2>3, <2>4, <2>5 DEF Next
<1> QED
  BY <1>1, Invariance, PTL DEF Spec, NoOverdraft

\* Every record in the store belongs to a job that is still to end: what the
\* metrics count as active is, cancelled or crashed jobs included.
THEOREM StoreHoldsLiveJobs == Spec => []StoreLive
<1>1. IInv => StoreLive
  BY DEF IInv
<1> QED
  BY <1>1, Invariance, PTL

-------------------------------------------------------------------------------
(* The refinement.                                                         *)

\* The coordinator starts with no reservation.
LEMMA InitLedger == Init => Ledger!Init
<1>1. SUFFICES ASSUME Init PROVE Ledger!Init
  OBVIOUS
<1>2. balance \in Int /\ sets = 0 /\ reserved = [r \in Requests |-> 0]
  BY <1>1, StoredInt DEF Init
<1>3. holdOf = [r \in Requests |-> "none"]
  BY <1>2 DEF holdOf
<1> QED
  BY <1>2, <1>3 DEF Ledger!Init

\* A step that leaves the ledger alone and ends no reservation is a stutter.
LEMMA Stutters ==
  ASSUME TypeOK, UNCHANGED <<balance, reserved, sets>>,
         \A q \in Requests : reserved[q] > 0 =>
           (run'[q] \in {"remove", "ended", "lost"} <=> run[q] \in {"remove", "ended", "lost"})
  PROVE  UNCHANGED Ledger!vars
<1>1. \A q \in Requests : reserved[q] = 0 \/ reserved[q] > 0
  BY DEF TypeOK
<1>2. holdOf' = holdOf
  BY <1>1 DEF holdOf
<1> QED
  BY <1>2 DEF Ledger!vars

\* A reservation opens a hold.
LEMMA ReserveSteps ==
  ASSUME IInv, NEW r \in Requests, Reserve(r)
  PROVE  [Ledger!Next]_(Ledger!vars)
<1>1. /\ TypeOK /\ want[r] > 0 /\ reserved[r] = 0 /\ run[r] = "none"
  BY DEF IInv, Wants, NothingYet, BeforeReserve, Reserve
<1>2. CASE balance >= want[r]
  <2>1. /\ balance' = balance - want[r] /\ reserved' = [reserved EXCEPT ![r] = want[r]]
        /\ UNCHANGED <<run, sets>>
    BY <1>2 DEF Reserve, counts
  <2>2. holdOf[r] = "none" /\ holdOf' = [holdOf EXCEPT ![r] = "held"]
    <3>1. reserved'[r] > 0 /\ reserved'[r] # 0
      BY <1>1, <2>1 DEF TypeOK
    <3>2. \A q \in Requests \ {r} : reserved'[q] = reserved[q]
      BY <1>1, <2>1 DEF TypeOK
    <3> QED
      BY <1>1, <2>1, <3>1, <3>2 DEF holdOf
  <2>3. want[r] \in 1..balance
    BY <1>1, <1>2 DEF TypeOK
  <2>4. Ledger!Reserve(r, want[r])
    BY <1>1, <1>2, <2>1, <2>2, <2>3 DEF TypeOK, Ledger!Reserve
  <2> QED
    BY <2>3, <2>4 DEF Ledger!Next
<1>3. CASE ~(balance >= want[r])
  BY <1>1, <1>3, Stutters DEF Reserve, counts
<1> QED
  BY <1>2, <1>3

\* A release closes it, with or without giving anything back.
LEMMA ReleaseSteps ==
  ASSUME IInv, NEW r \in Requests, Release(r)
  PROVE  Ledger!Next
<1>1. TypeOK /\ reserved[r] > 0 /\ run[r] = "release"
  BY DEF IInv, RunsReserved, Release
<1>2. PICK back \in 0..reserved[r] : balance' = balance + back
  BY <1>1, UnusedRange DEF Release, TypeOK
<1>3. UNCHANGED <<reserved, sets>> /\ run' = [run EXCEPT ![r] = "remove"]
  BY DEF Release, Runner
<1>4. holdOf[r] = "held" /\ holdOf' = [holdOf EXCEPT ![r] = "closed"]
  <2>1. run'[r] = "remove" /\ \A q \in Requests \ {r} : run'[q] = run[q]
    BY <1>1, <1>3 DEF TypeOK
  <2>2. reserved[r] # 0
    BY <1>1 DEF TypeOK
  <2> QED
    BY <1>1, <1>3, <2>1, <2>2 DEF holdOf
<1>5. Ledger!Close(r, back)
  BY <1>1, <1>2, <1>3, <1>4 DEF TypeOK, Ledger!Close
<1> QED
  BY <1>2, <1>5 DEF Ledger!Next

\* A crash forfeits everything that is held.
LEMMA CrashForfeits ==
  ASSUME IInv, Crash
  PROVE  Ledger!Next
<1>1. TypeOK /\ UNCHANGED <<balance, reserved, sets>>
  BY DEF IInv, Crash, request
<1>2. run' = [r \in Requests |-> IF reserved[r] = 0 \/ run[r] = "ended" THEN run[r] ELSE "lost"]
  BY DEF Crash
<1>3. holdOf' = [r \in Requests |-> IF holdOf[r] = "held" THEN "closed" ELSE holdOf[r]]
  BY <1>1, <1>2 DEF TypeOK, holdOf
<1>4. Ledger!Forfeit
  BY <1>1, <1>3 DEF Ledger!Forfeit
<1> QED
  BY <1>4 DEF Ledger!Next

\* Every other step of a handler or a runner is a stutter of the ledger.
LEMMA OthersStutter ==
  ASSUME IInv, NEW r \in Requests,
         \/ CheckQuota(r) \/ Insert(r) \/ Spawn(r) \/ Subscribe(r) \/ Recv(r) \/ CheckDone(r)
         \/ Event(r) \/ SendError(r) \/ SetDone(r) \/ RemoveJob(r) \/ Upstream(r) \/ Client(r)
  PROVE  UNCHANGED Ledger!vars
<1>1. TypeOK
  BY DEF IInv
<1>2. UNCHANGED <<balance, reserved, sets>>
  BY DEF CheckQuota, Insert, Spawn, Subscribe, Recv, CheckDone, Event, SendError, SetDone, RemoveJob,
         Upstream, Called, Delta, StreamEnds, Client, Receive, HangUp, Cancel, CancelRemove, counts
<1>3. \/ UNCHANGED run
      \/ /\ run[r] = "remove" /\ run' = [run EXCEPT ![r] = "ended"]
      \/ \E stage \in {"call", "read", "error", "done", "release"} :
           run[r] \in {"none", "call", "read", "error", "done"} /\ run' = [run EXCEPT ![r] = stage]
  BY DEF IInv, NotSpawned, CheckQuota, Insert, Spawn, Subscribe, Recv, CheckDone, Event, SendError,
         SetDone, RemoveJob, Upstream, Called, Delta, StreamEnds, Client, Receive, HangUp, Cancel,
         CancelRemove, Runner
<1> QED
  BY <1>1, <1>2, <1>3, Stutters DEF TypeOK

\* Handlers, runners and cancel calls implement the ledger.
THEOREM LedgerImplemented == Spec => ImplementsLedger
<1>1. Init => Ledger!Init
  BY InitLedger
<1>2. IInv /\ [Next]_vars => [Ledger!Next]_(Ledger!vars)
  <2>1. SUFFICES ASSUME IInv, [Next]_vars PROVE [Ledger!Next]_(Ledger!vars)
    OBVIOUS
  <2>2. CASE \E r \in Requests : HandlerStep(r) \/ RunnerStep(r) \/ Upstream(r) \/ Client(r)
    <3>1. PICK r \in Requests : HandlerStep(r) \/ RunnerStep(r) \/ Upstream(r) \/ Client(r)
      BY <2>2
    <3> QED
      BY <2>1, <3>1, ReserveSteps, ReleaseSteps, OthersStutter DEF HandlerStep, RunnerStep
  <2>3. CASE \E b \in Balances : SetBalance(b)
    <3>1. balance' \in Int /\ sets' = sets + 1 /\ UNCHANGED <<reserved, run>>
      BY <2>3, StoredInt DEF SetBalance, request
    <3>2. Ledger!Overwrite
      BY <3>1 DEF Ledger!Overwrite, holdOf
    <3> QED
      BY <3>2 DEF Ledger!Next
  <2>4. CASE Crash
    BY <2>1, <2>4, CrashForfeits
  <2>5. CASE UNCHANGED vars
    BY <2>5 DEF vars, counts, holdOf, Ledger!vars
  <2> QED
    BY <2>1, <2>2, <2>3, <2>4, <2>5 DEF Next
<1> QED
  BY <1>1, <1>2, Invariance, PTL DEF Spec, ImplementsLedger, Ledger!Spec

-------------------------------------------------------------------------------
(* Conservation.                                                           *)

\* What a request has taken is a number, and it changes only where its
\* reservation, its runner's end or the use of an ended job does.
LEMMA TakenRange ==
  ASSUME TypeOK
  PROVE  takenOf \in [Requests -> Int]
  BY UnusedRange DEF TypeOK, takenOf, Charge

Closing == {"remove", "ended", "lost"}

LEMMA TakenSame ==
  ASSUME TypeOK, UNCHANGED reserved,
         \A q \in Requests : reserved[q] > 0 =>
           /\ run'[q] \in Closing <=> run[q] \in Closing
           /\ run[q] \in Closing => used'[q] = used[q]
  PROVE  takenOf' = takenOf
<1>1. \A q \in Requests : reserved[q] = 0 \/ reserved[q] > 0
  BY DEF TypeOK
<1>2. ASSUME NEW q \in Requests
      PROVE  (IF holdOf'[q] = "closed" THEN Charge(q)' ELSE reserved'[q])
               = IF holdOf[q] = "closed" THEN Charge(q) ELSE reserved[q]
  BY <1>1 DEF holdOf, Charge, Unused, Closing
<1> QED
  BY <1>2 DEF takenOf

\* The total of an instant.
Total == balance + SumFunction(takenOf)

\* Taking tokens moves them from the balance to the request.
LEMMA ReserveConserves ==
  ASSUME IInv, NEW r \in Requests, Reserve(r)
  PROVE  Total' = Total
<1>1. /\ TypeOK /\ want[r] > 0 /\ reserved[r] = 0 /\ run[r] = "none"
  BY DEF IInv, Wants, NothingYet, BeforeReserve, Reserve
<1>2. CASE balance >= want[r]
  <2>1. /\ balance' = balance - want[r] /\ reserved' = [reserved EXCEPT ![r] = want[r]]
        /\ UNCHANGED <<run, used>>
    BY <1>2 DEF Reserve
  <2>2. takenOf[r] = 0 /\ takenOf' = [takenOf EXCEPT ![r] = want[r]]
    <3>1. reserved'[r] = want[r] /\ want[r] # 0
      BY <1>1, <2>1 DEF TypeOK
    <3>2. \A q \in Requests \ {r} : reserved'[q] = reserved[q]
      BY <1>1, <2>1 DEF TypeOK
    <3>3. holdOf[r] = "none" /\ holdOf'[r] # "closed"
      BY <1>1, <2>1, <3>1 DEF holdOf
    <3>4. \A q \in Requests \ {r} : holdOf'[q] = holdOf[q] /\ Charge(q)' = Charge(q)
      BY <2>1, <3>2 DEF holdOf, Charge, Unused
    <3> QED
      BY <1>1, <3>1, <3>2, <3>3, <3>4 DEF takenOf
  <2>3. SumFunction(takenOf') = (SumFunction(takenOf) - takenOf[r]) + want[r]
    <3>1. want[r] \in Int
      BY <1>1 DEF TypeOK
    <3>2. takenOf \in [Requests -> Int]
      BY <1>1, TakenRange
    <3>3. SumFunction([takenOf EXCEPT ![r] = want[r]]) = (SumFunction(takenOf) - takenOf[r]) + want[r]
      BY <3>1, <3>2, FiniteRequests, SumExcept, Zenon
    <3> QED
      BY <2>2, <3>3, Zenon
  <2>4. SumFunction(takenOf) \in Int
    BY <1>1, TakenRange, FiniteRequests, SumInt
  <2> QED
    BY <1>1, <2>1, <2>2, <2>3, <2>4 DEF Total, TypeOK
<1>3. CASE ~(balance >= want[r])
  <2>1. UNCHANGED <<balance, reserved, run, used>>
    BY <1>3 DEF Reserve
  <2> QED
    BY <1>1, <2>1, TakenSame DEF Total
<1> QED
  BY <1>2, <1>3

\* A release gives back exactly what is not charged, unless it fails.
LEMMA ReleaseConserves ==
  ASSUME IInv, NEW r \in Requests, Release(r), faults' = 0
  PROVE  Total' = Total
<1>1. TypeOK /\ reserved[r] > 0 /\ run[r] = "release"
  BY DEF IInv, RunsReserved, Release
<1>2. balance' = balance + Unused(r)
  BY <1>1 DEF Release, TypeOK
<1>3. UNCHANGED <<reserved, used>> /\ run'[r] = "remove" /\ \A q \in Requests \ {r} : run'[q] = run[q]
  BY <1>1 DEF Release, Runner, TypeOK
<1>4. takenOf[r] = reserved[r] /\ takenOf' = [takenOf EXCEPT ![r] = reserved[r] - Unused(r)]
  <2>1. holdOf[r] = "held" /\ holdOf'[r] = "closed"
    BY <1>1, <1>3 DEF holdOf, TypeOK
  <2>2. \A q \in Requests : Charge(q)' = Charge(q) /\ (q # r => holdOf'[q] = holdOf[q])
    BY <1>3 DEF holdOf, Charge, Unused
  <2> QED
    BY <1>3, <2>1, <2>2 DEF takenOf, Charge
<1>5. Unused(r) \in Int /\ reserved[r] \in Int /\ balance \in Int
  BY <1>1, UnusedRange DEF TypeOK
<1>6. SumFunction(takenOf') = (SumFunction(takenOf) - reserved[r]) + (reserved[r] - Unused(r))
  <2>1. reserved[r] - Unused(r) \in Int
    BY <1>5
  <2>2. takenOf \in [Requests -> Int]
    BY <1>1, TakenRange
  <2>3. SumFunction([takenOf EXCEPT ![r] = reserved[r] - Unused(r)])
          = (SumFunction(takenOf) - takenOf[r]) + (reserved[r] - Unused(r))
    BY <2>1, <2>2, FiniteRequests, SumExcept, Zenon
  <2> QED
    BY <1>4, <2>3, Zenon
<1>7. SumFunction(takenOf) \in Int
  BY <1>1, TakenRange, FiniteRequests, SumInt
<1> QED
  BY <1>2, <1>5, <1>6, <1>7 DEF Total

\* Every other step of a request leaves the balance and what it took alone.
LEMMA OthersConserve ==
  ASSUME IInv, NEW r \in Requests,
         \/ CheckQuota(r) \/ Insert(r) \/ Spawn(r) \/ Subscribe(r) \/ Recv(r) \/ CheckDone(r)
         \/ Event(r) \/ SendError(r) \/ SetDone(r) \/ RemoveJob(r) \/ Upstream(r) \/ Client(r)
  PROVE  Total' = Total
<1>1. TypeOK
  BY DEF IInv
<1>2. UNCHANGED <<balance, reserved>>
  BY DEF CheckQuota, Insert, Spawn, Subscribe, Recv, CheckDone, Event, SendError, SetDone, RemoveJob,
         Upstream, Called, Delta, StreamEnds, Client, Receive, HangUp, Cancel, CancelRemove
<1>3. \/ UNCHANGED run
      \/ /\ run[r] = "remove" /\ run' = [run EXCEPT ![r] = "ended"]
      \/ \E stage \in {"call", "read", "error", "done", "release"} :
           run[r] \in {"none", "call", "read", "error", "done"} /\ run' = [run EXCEPT ![r] = stage]
  BY DEF IInv, NotSpawned, CheckQuota, Insert, Spawn, Subscribe, Recv, CheckDone, Event, SendError,
         SetDone, RemoveJob, Upstream, Called, Delta, StreamEnds, Client, Receive, HangUp, Cancel,
         CancelRemove, Runner
<1>4. \/ UNCHANGED used
      \/ run[r] = "read" /\ \E cost \in Costs : used' = [used EXCEPT ![r] = @ + cost]
  BY DEF CheckQuota, Insert, Spawn, Subscribe, Recv, CheckDone, Event, SendError, SetDone, RemoveJob,
         Upstream, Called, Delta, StreamEnds, Client, Receive, HangUp, Cancel, CancelRemove
<1>5. takenOf' = takenOf
  BY <1>1, <1>2, <1>3, <1>4, TakenSame DEF TypeOK, Closing
<1> QED
  BY <1>2, <1>5 DEF Total

\* At the start nothing is taken.
LEMMA InitConserved == Init => Conserved
<1>1. SUFFICES ASSUME Init PROVE Conserved
  OBVIOUS
<1>2. TypeOK
  BY <1>1, InitIInv DEF IInv
<1>3. \A r \in Requests : takenOf[r] = 0
  BY <1>1 DEF Init, takenOf, holdOf
<1>4. SumFunction(takenOf) = 0
  BY <1>2, <1>3, TakenRange, FiniteRequests, SumZero
<1>5. balance \in {AsI64(b) : b \in Balances} /\ balance \in Int
  BY <1>1, <1>2 DEF Init, TypeOK
<1> QED
  BY <1>4, <1>5 DEF Conserved

\* While nobody overwrote the balance and nothing failed, what is left, what is
\* held and what was charged add up to the grant: no interleaving of handlers,
\* runners, cancel calls and hang-ups loses a token or makes one.
THEOREM TokensConserved == Spec => []Conserved
<1>1. Init => IInv /\ Conserved
  BY InitIInv, InitConserved
<1>2. IInv /\ Conserved /\ [Next]_vars => IInv' /\ Conserved'
  <2>1. SUFFICES ASSUME IInv, Conserved, [Next]_vars, sets' = 0, faults' = 0
                 PROVE  balance' + SumFunction(takenOf') \in {AsI64(b) : b \in Balances}
    BY StepKeeps DEF Conserved
  <2>2. TypeOK
    BY <2>1 DEF IInv
  <2>3. \/ (\E r \in Requests : HandlerStep(r) \/ RunnerStep(r) \/ Upstream(r) \/ Client(r))
        \/ UNCHANGED vars
    BY <2>1, <2>2 DEF Next, SetBalance, Crash, TypeOK
  <2>4. sets = 0 /\ faults = 0
    BY <2>1, <2>2, <2>3
    DEF TypeOK, HandlerStep, CheckQuota, Reserve, Insert, Spawn, Subscribe, Recv, CheckDone, Event,
        RunnerStep, SendError, SetDone, Release, RemoveJob, Upstream, Called, Delta, StreamEnds, Client,
        Receive, HangUp, Cancel, CancelRemove, counts, vars
  <2>5. Total' = Total
    <3>1. CASE UNCHANGED vars
      BY <3>1 DEF vars, Total, takenOf, holdOf, Charge, Unused
    <3>2. CASE \E r \in Requests : HandlerStep(r) \/ RunnerStep(r) \/ Upstream(r) \/ Client(r)
      <4>1. PICK r \in Requests : HandlerStep(r) \/ RunnerStep(r) \/ Upstream(r) \/ Client(r)
        BY <3>2
      <4> QED
        BY <2>1, <4>1, ReserveConserves, ReleaseConserves, OthersConserve DEF HandlerStep, RunnerStep
    <3> QED
      BY <2>3, <3>1, <3>2
  <2> QED
    BY <2>1, <2>4, <2>5 DEF Conserved, Total
<1> QED
  BY <1>1, <1>2, PTL DEF Spec
===============================================================================
