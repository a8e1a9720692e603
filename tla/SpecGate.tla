------------------------------- MODULE SpecGate -------------------------------
(***************************************************************************)
(* The operator specification of Forge and the notes that steer a run      *)
(* (src/cesarops-forge-v2/src/main.rs, operator_spec.rs): a specification  *)
(* is drafted, approved or cleared; POST /send is refused while one waits  *)
(* for its approval, and pushes an approved one into steering; the call    *)
(* that then takes send_busy runs the tool loop, which drains steering.    *)
(*                                                                         *)
(* A specification is the number of its draft.  The gate is enabled and    *)
(* asks for approval, as it does by default.  The rest of the send path is *)
(* in module ForgeSend.                                                    *)
(***************************************************************************)
EXTENDS Integers, SequencesExt

CONSTANTS
  Calls,       \* POST /send calls that are under way at a time
  Nobody,
  Note,        \* an operator's note in steering
  MaxSteering  \* bound: entries of steering when a note is added

NoSpec == [id |-> 0, approved |-> FALSE]

VARIABLES
  pending,    \* spec_gate: the last draft, or NoSpec
  drafts,     \* drafts that were made
  approvals,  \* drafts that were ever approved
  steering,   \* Note or a draft's number, in order
  seen,       \* drafts that a run has read
  at, block,  \* where a call is, and the specification it took from the gate
  runner      \* the call that has send_busy

gate == <<pending, drafts, approvals>>
send == <<at, block>>

GateInit ==
  /\ pending = NoSpec /\ drafts = 0 /\ approvals = {}
  /\ steering = <<>> /\ seen = {}
  /\ at = [c \in Calls |-> "idle"] /\ block = [c \in Calls |-> 0]
  /\ runner = Nobody

\* POST /spec/draft: whatever waits is replaced.
spec_draft == /\ drafts' = drafts + 1
              /\ pending' = [id |-> drafts', approved |-> FALSE]
              /\ UNCHANGED <<approvals, steering, seen, send, runner>>

\* POST /spec/approve says yes or no to whatever waits now.
spec_approve(yes) ==
  /\ pending # NoSpec
  /\ pending' = [pending EXCEPT !.approved = yes]
  /\ approvals' = approvals \cup (IF yes THEN {pending.id} ELSE {})
  /\ UNCHANGED <<drafts, steering, seen, send, runner>>

spec_clear == /\ pending' = NoSpec
              /\ UNCHANGED <<drafts, approvals, steering, seen, send, runner>>

steer == /\ Len(steering) < MaxSteering
         /\ steering' = Append(steering, Note)
         /\ UNCHANGED <<gate, seen, send, runner>>

\* POST /send: refused while a draft waits, except for a message under /spec/.
Gate(c, slash) ==
  /\ at[c] = "idle"
  /\ slash \/ pending = NoSpec \/ pending.approved
  /\ at' = [at EXCEPT ![c] = "inject"]
  /\ UNCHANGED <<gate, steering, seen, block, runner>>

\* Wrong on purpose: whatever waits is taken.
ReadSpec_Any(c) ==
  /\ at[c] = "inject"
  /\ IF pending # NoSpec
       THEN block' = [block EXCEPT ![c] = pending.id] /\ at' = [at EXCEPT ![c] = "push"]
       ELSE at' = [at EXCEPT ![c] = "exchange"] /\ UNCHANGED block
  /\ UNCHANGED <<gate, steering, seen, runner>>

\* inject_approved_spec reads the gate a second time, under its lock,
ReadSpec(c) ==
  /\ at[c] = "inject"
  /\ IF pending.approved
       THEN block' = [block EXCEPT ![c] = pending.id] /\ at' = [at EXCEPT ![c] = "push"]
       ELSE at' = [at EXCEPT ![c] = "exchange"] /\ UNCHANGED block
  /\ UNCHANGED <<gate, steering, seen, runner>>

\* Wrong on purpose: nobody looks what is there.
Push_Always(c) ==
  /\ at[c] = "push"
  /\ steering' = Append(steering, block[c])
  /\ block' = [block EXCEPT ![c] = 0]
  /\ at' = [at EXCEPT ![c] = "exchange"]
  /\ UNCHANGED <<gate, seen, runner>>

\* and pushes what it read under the lock of steering, unless any specification,
\* also an older one, is there.
Push(c) ==
  /\ at[c] = "push"
  /\ steering' = IF ToSet(steering) \subseteq {Note} THEN Append(steering, block[c]) ELSE steering
  /\ block' = [block EXCEPT ![c] = 0]
  /\ at' = [at EXCEPT ![c] = "exchange"]
  /\ UNCHANGED <<gate, seen, runner>>

\* The exchange of send_busy: a refused call has steered the run that is on.
Refused(c) ==
  /\ at[c] = "exchange" /\ runner # Nobody
  /\ at' = [at EXCEPT ![c] = "idle"]
  /\ UNCHANGED <<gate, steering, seen, block, runner>>

Accepted(c) ==
  /\ at[c] = "exchange" /\ runner = Nobody
  /\ runner' = c /\ at' = [at EXCEPT ![c] = "run"]
  /\ UNCHANGED <<gate, steering, seen, block>>

\* A round of the loop takes everything that is in steering.
Drain == /\ seen' = seen \cup (ToSet(steering) \ {Note})
         /\ steering' = <<>>

\* The guard of send_busy is dropped with the run.
Release == /\ runner' = Nobody /\ at' = [at EXCEPT ![runner] = "idle"]
           /\ UNCHANGED <<gate, steering, seen, block>>
===============================================================================
