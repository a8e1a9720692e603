---------------------------- MODULE ForgeLoopProps ----------------------------
(***************************************************************************)
(* What the tool loop of module ForgeLoop and the operator's specification *)
(* of module SpecGate should guarantee.                                    *)
(***************************************************************************)
EXTENDS ForgeLoop

\* Every variable stays in the set of values its Rust type allows; the loop never
\* starts a round it does not have.
TypeOK ==
  /\ pending \in [id : Nat, approved : BOOLEAN] /\ drafts \in Nat /\ approvals \subseteq Nat
  /\ steering \in Seq(Nat \cup {Note}) /\ seen \subseteq Nat
  /\ at \in [Calls -> {"idle", "inject", "push", "exchange", "run"}]
  /\ block \in [Calls -> Nat]
  /\ runner \in Calls \cup {Nobody}
  /\ scene \in Scenes
  /\ pc \in {"idle", "top", "generate", "unaided", "output", "call", "over"}
  /\ round \in 1..max_rounds
  /\ {failures, since, wsoAt, streak} \subseteq Nat
  /\ tool \in Tools \cup {Grade, NoTool}
  /\ demanded \in BOOLEAN /\ ran \in BOOLEAN
  /\ outcome \in {"none", "stalled", "interrupted", "exhausted", "stuck", "answered"}

-------------------------------------------------------------------------------
(* The loop.                                                               *)

\* A round fails at most once, a search answers the last failure, and a demand
\* means that the last call was blocked.
RoundsFail == failures <= round /\ (pc # "over" => failures < round)
SearchLags == wsoAt <= failures
DemandBlocks == demanded => ~ran

\* "Model stuck after {} attempts" is never said unless fewer than 8 rounds are
\* configured: the run is out of rounds before it is out of patience.
StuckIfShort == outcome = "stuck" => scene.max_think_rounds < MIN_ROUNDS

\* The inductive invariant of the loop.
IInv == TypeOK /\ RoundsFail /\ SearchLags /\ DemandBlocks /\ StuckIfShort

\* The model never writes after three failures or more without the results of a
\* search made since the last one, unless no user's message says what to search for
\* (pc = "unaided"): whatever resets the failures arms the search again.
SearchAnswers == pc = "generate" /\ failures >= AUTO_WSO_AFTER_FAILURES => wsoAt = failures

\* Of the calls the model itself writes, the one that reaches the cap is not executed,
\* nor any from hard_terminate_after on; and in between none that follows an executed
\* one, so that at most every other repetition is.  A call that a corrector repaired is
\* executed whatever its repetitions, and adds to them, but not to what was executed.
RepeatsThrottled ==
  [][pc = "call" /\ pc' # "call" /\ ran' =>
       \/ streak < hard_repeat_cap
       \/ streak > hard_repeat_cap /\ ~ran /\ streak < hard_terminate_after]_vars

\* What is left of a run, in steps: five for each round to come, and those of this one.
StepsLeft ==
  LET rest == 5 * (max_rounds - round)
  IN  CASE pc = "idle" -> 0
        [] pc = "over" -> 1
        [] pc = "call" -> rest + 2
        [] pc = "output" -> rest + 3
        [] pc \in {"generate", "unaided"} -> rest + 4
        [] OTHER -> rest + 5

\* Each step of a run uses up at least one of those that are left, on every path through
\* a round, and nothing the operator or another call does gives any back.
RunShortens ==
  [][pc # "idle" => /\ StepsLeft > 0
                    /\ StepsLeft' < StepsLeft \/ UNCHANGED <<scene, loop>>]_vars

-------------------------------------------------------------------------------
(* The operator's specification.                                           *)

Specs == ToSet(steering) \ {Note}

\* No run reads a specification that nobody approved, although the gate is read
\* twice and drafts replace one another at any time.
OnlyApproved == /\ Specs \cup seen \subseteq approvals
                /\ pending.approved => pending.id \in approvals
                /\ \A c \in Calls : at[c] = "push" => block[c] \in approvals

\* Calls that push at the same time leave one specification in steering.
OneSpec == \A i, j \in DOMAIN steering : steering[i] # Note /\ steering[j] # Note => i = j
===============================================================================
