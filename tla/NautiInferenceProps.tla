-------------------------- MODULE NautiInferenceProps --------------------------
(***************************************************************************)
(* What the inference path of module NautiInference should guarantee.      *)
(***************************************************************************)
EXTENDS NautiInference, Functions

\* Every variable stays in the set of values its Rust or SQL type allows.
TypeOK ==
  /\ balance \in Int
  /\ want \in [Requests -> Nat]
  /\ stream \in [Requests -> BOOLEAN]
  /\ pc \in [Requests -> Stages]
  /\ reserved \in [Requests -> Nat]
  /\ run \in [Requests -> RunStages]
  /\ used \in [Requests -> Nat]
  /\ sent \in [Requests -> Nat]
  /\ next \in [Requests -> Nat]
  /\ cancelled \in [Requests -> BOOLEAN]
  /\ done \in [Requests -> BOOLEAN]
  /\ cancelling \subseteq Requests
  /\ jobs \subseteq Requests
  /\ faults \in Nat
  /\ sets \in Nat

-------------------------------------------------------------------------------
(* Safety.                                                                 *)

\* The ledger is never overdrawn, although a handler looks at the balance in one
\* statement and takes its tokens in another, with other handlers in between: only
\* an administrator, whose large word is stored as a negative one, puts the balance
\* below zero, or further below.
NoOverdraft == [][balance' < 0 /\ balance' < balance => sets' = sets + 1]_vars

\* A reservation is open from the moment the tokens are taken until the runner
\* gives the rest back, or the coordinator dies.
holdOf == [r \in Requests |-> IF reserved[r] = 0 THEN "none"
                              ELSE IF run[r] \in {"remove", "ended", "lost"} THEN "closed"
                              ELSE "held"]

\* Handlers, runners and cancel calls together implement the ledger of module
\* TokenLedger: each reservation is taken once and closed once, whether the job
\* ends, fails, is cancelled or is abandoned by its client.
Ledger == INSTANCE TokenLedger WITH funds <- balance, amount <- reserved, hold <- holdOf,
                                    orders <- sets

ImplementsLedger == Ledger!Spec

\* No token is lost or made: while nobody overwrote the balance and nothing
\* failed, what is left, what is held and what was charged add up to the grant.
Charge(r) == reserved[r] - Unused(r)
takenOf == [r \in Requests |-> IF holdOf[r] = "closed" THEN Charge(r) ELSE reserved[r]]
Conserved == sets = 0 /\ faults = 0 =>
               balance + SumFunction(takenOf) \in {AsI64(b) : b \in Balances}

\* The store holds no record whose runner is gone: GET /metrics counts it as
\* active for ever.
StoreLive == \A r \in jobs : run[r] \notin {"ended", "lost"}

\* The inductive invariant behind the three: a request that is received wants
\* something, it has its tokens exactly from its reservation on, and its runner is
\* started once, after that and after the record was stored.
BeforeReserve == {"idle", "quota", "reserve", "refused"}
Wants(r) == pc[r] \in {"quota", "reserve"} => want[r] > 0
NothingYet(r) == pc[r] \in BeforeReserve => reserved[r] = 0 /\ run[r] = "none"
NotSpawned(r) == pc[r] \in {"insert", "spawn"} => reserved[r] > 0 /\ run[r] = "none"
RunsReserved(r) == run[r] \notin {"none", "lost"} => reserved[r] > 0

IInv == /\ TypeOK
        /\ StoreLive
        /\ \A r \in Requests : Wants(r) /\ NothingYet(r) /\ NotSpawned(r) /\ RunsReserved(r)

-------------------------------------------------------------------------------
(* Liveness.                                                               *)

\* "we release any unused remainder on completion/cancel" (jobs.rs): every
\* reservation is closed in the end, unless the coordinator dies.
Settles == \A r \in Requests : reserved[r] > 0 ~> holdOf[r] = "closed"

\* Every stream of events ends, also when its job was cancelled or failed: the
\* last sender of its channel is dropped.
StreamsEnd == \A r \in Requests : pc[r] = "events" ~> pc[r] \in Over

-------------------------------------------------------------------------------
(* What documentation and comments say and the code does not do.           *)

\* "Chat inference (SSE or JSON)" (README): a request for JSON gets its reply.
RepliesArrive == \A r \in Requests : pc[r] = "recv" ~> pc[r] \in Over
===============================================================================
