---------------------------- MODULE ForgeLoopProofs ----------------------------
(***************************************************************************)
(* For every configuration, whatever the model writes and the operator     *)
(* does: the counters of the tool loop agree, its repetitions are          *)
(* throttled, and no run reads a specification that nobody approved.       *)
(***************************************************************************)
EXTENDS ForgeLoopProps, TLAPS

\* A run has at least eight rounds, and no more than configured beyond that.
LEMMA Rounds ==
  ASSUME scene \in Scenes
  PROVE  /\ max_rounds \in Nat /\ max_rounds >= 8
         /\ scene.max_think_rounds \in Nat
         /\ scene.max_think_rounds >= 8 => max_rounds <= scene.max_think_rounds
BY LoopAssumption DEF max_rounds, Larger, MAX_TOOL_ROUNDS, MIN_ROUNDS

\* The same configuration gives the same number of rounds.
LEMMA SameRounds == ASSUME UNCHANGED scene PROVE max_rounds' = max_rounds
BY DEF max_rounds

\* The caps are numbers, also when the configuration asks for less than they allow.
LEMMA Caps ==
  ASSUME scene \in Scenes
  PROVE  hard_repeat_cap \in Nat /\ hard_terminate_after \in Nat
BY LoopAssumption DEF hard_repeat_cap, hard_terminate_after, Larger

-------------------------------------------------------------------------------
(* The gate.                                                               *)

\* Types of what the gate and steering hold.
GateTypes ==
  /\ pending \in [id : Nat, approved : BOOLEAN] /\ drafts \in Nat /\ approvals \subseteq Nat
  /\ steering \in Seq(Nat \cup {Note}) /\ seen \subseteq Nat
  /\ at \in [Calls -> {"idle", "inject", "push", "exchange", "run"}]
  /\ block \in [Calls -> Nat]
  /\ runner \in Calls \cup {Nobody}

GateInv == GateTypes /\ OnlyApproved /\ OneSpec

\* Nothing is drafted, approved or pushed at the start.
LEMMA GateInitInv == Init => GateInv
BY LoopAssumption DEF Init, GateInit, GateInv, GateTypes, OnlyApproved, OneSpec, Specs, NoSpec, ToSet

\* Appending a note, or the specification of a call when there is none, leaves at
\* most one, approved one in steering.
LEMMA AppendInv ==
  ASSUME GateInv, NEW entry, entry = Note \/ (entry \in approvals /\ ToSet(steering) \subseteq {Note}),
         steering' = Append(steering, entry)
  PROVE  /\ steering' \in Seq(Nat \cup {Note})
         /\ Specs' \subseteq approvals
         /\ OneSpec'
<1>1. steering \in Seq(Nat \cup {Note}) /\ entry \in Nat \cup {Note}
  BY DEF GateInv, GateTypes
<1>2. /\ steering' \in Seq(Nat \cup {Note}) /\ DOMAIN steering' = 1..Len(steering) + 1
      /\ \A i \in 1..Len(steering) : steering'[i] = steering[i]
      /\ steering'[Len(steering) + 1] = entry
      /\ DOMAIN steering = 1..Len(steering) /\ Len(steering) \in Nat
  BY <1>1
<1>3. \A i \in DOMAIN steering : steering[i] # Note => steering[i] \in approvals
  BY DEF GateInv, OnlyApproved, Specs, ToSet
<1>4. ToSet(steering) \subseteq {Note} => \A i \in DOMAIN steering : steering[i] = Note
  BY DEF ToSet
<1>5. Specs' \subseteq approvals
  BY <1>2, <1>3 DEF Specs, ToSet
<1>6. OneSpec'
  BY <1>2, <1>4 DEF GateInv, OneSpec
<1> QED
  BY <1>2, <1>5, <1>6

\* What the operator does keeps what is in steering approved: an approval is never
\* taken from the list, also when the operator goes back on it.
LEMMA OperatorInv == ASSUME GateInv, Operator PROVE GateInv'
<1>1. CASE spec_draft
  BY <1>1 DEF GateInv, GateTypes, OnlyApproved, OneSpec, Specs, spec_draft, send
<1>2. ASSUME NEW yes \in BOOLEAN, spec_approve(yes) PROVE GateInv'
  BY <1>2 DEF GateInv, GateTypes, OnlyApproved, OneSpec, Specs, spec_approve, send
<1>3. CASE spec_clear
  BY <1>3 DEF GateInv, GateTypes, OnlyApproved, OneSpec, Specs, spec_clear, send, NoSpec
<1>4. CASE steer
  <2>1. /\ steering' \in Seq(Nat \cup {Note}) /\ Specs' \subseteq approvals /\ OneSpec'
    BY <1>4, AppendInv DEF steer
  <2> QED
    BY <1>4, <2>1 DEF GateInv, GateTypes, OnlyApproved, steer, gate, send
<1> QED
  BY <1>1, <1>2, <1>3, <1>4 DEF Operator

\* A call takes from the gate only what is approved, and pushes only that.
LEMMA CallInv ==
  ASSUME GateInv, NEW c \in Calls, Handler(c) \/ Begin(c)
  PROVE  GateInv'
<1>1. ASSUME NEW slash \in BOOLEAN, Gate(c, slash) PROVE GateInv'
  BY <1>1 DEF GateInv, GateTypes, OnlyApproved, OneSpec, Specs, Gate, gate
<1>2. CASE ReadSpec(c)
  BY <1>2, SMTT(30) DEF GateInv, GateTypes, OnlyApproved, OneSpec, Specs, ReadSpec, gate
<1>3. CASE Push(c)
  <2>1. block[c] \in approvals
    BY <1>3 DEF GateInv, OnlyApproved, Push
  <2>2. /\ steering' \in Seq(Nat \cup {Note}) /\ Specs' \subseteq approvals /\ OneSpec'
    <3>1. CASE ToSet(steering) \subseteq {Note}
      BY <1>3, <2>1, <3>1, AppendInv DEF Push
    <3>2. CASE ~(ToSet(steering) \subseteq {Note})
      BY <1>3, <3>2 DEF Push, GateInv, GateTypes, OnlyApproved, OneSpec, Specs
    <3> QED
      BY <3>1, <3>2
  <2> QED
    BY <1>3, <2>2 DEF GateInv, GateTypes, OnlyApproved, Push, gate
<1>4. CASE Refused(c)
  BY <1>4 DEF GateInv, GateTypes, OnlyApproved, OneSpec, Specs, Refused, gate
<1>5. CASE Begin(c)
  BY <1>5 DEF GateInv, GateTypes, OnlyApproved, OneSpec, Specs, Begin, Accepted, gate
<1> QED
  BY <1>1, <1>2, <1>3, <1>4, <1>5 DEF Handler

\* The rounds only read what is in steering.
LEMMA RoundInv == ASSUME GateInv, Round PROVE GateInv'
<1>1. ASSUME NEW worded \in BOOLEAN, BeginRound(worded) PROVE GateInv'
  <2>1. Drain /\ UNCHANGED <<gate, send, runner>>
    BY <1>1 DEF BeginRound
  <2>2. GateTypes'
    <3>1. seen' \subseteq Nat
      <4>1. Specs \subseteq approvals /\ approvals \subseteq Nat /\ seen \subseteq Nat
        BY DEF GateInv, GateTypes, OnlyApproved
      <4> QED
        BY ONLY <2>1, <4>1 DEF Drain, Specs
    <3>2. steering' = <<>>
      BY ONLY <2>1 DEF Drain
    <3>3. steering' \in Seq(Nat \cup {Note})
      BY ONLY <3>2
    <3> QED
      BY ONLY GateInv, <2>1, <3>1, <3>3 DEF GateInv, GateTypes, gate, send
  <2>3. OnlyApproved'
    BY <2>1 DEF GateInv, OnlyApproved, Specs, Drain, gate, send, ToSet
  <2>4. OneSpec'
    BY <2>1 DEF OneSpec, Drain
  <2> QED
    BY <2>2, <2>3, <2>4 DEF GateInv
<1>2. CASE Return
  BY <1>2 DEF GateInv, GateTypes, OnlyApproved, OneSpec, Specs, Return, Release, gate
<1>3. CASE UNCHANGED base
  BY <1>3 DEF GateInv, GateTypes, OnlyApproved, OneSpec, Specs, base, gate, send
<1> QED
  BY <1>1, <1>2, <1>3 DEF Round, Stalls, Interrupted, Generated, Wasted, Broken, Answers,
     Corrected, Called, JudgeBlocks, LadderBlocks, StallBlocks, Blocked, Executes, CloseEnough

\* Every step keeps it.
LEMMA GateNext == GateInv /\ [Next]_vars => GateInv'
<1>1. CASE UNCHANGED vars
  BY <1>1 DEF GateInv, GateTypes, OnlyApproved, OneSpec, Specs, vars, base, gate, send
<1> QED
  BY <1>1, OperatorInv, CallInv, RoundInv DEF Next

\* No run reads a specification that nobody approved (operator_spec.rs,
\* inject_approved_spec).
THEOREM ReadsApproved == Spec => []OnlyApproved
<1>1. GateInv => OnlyApproved
  BY DEF GateInv
<1> QED
  BY <1>1, GateInitInv, GateNext, PTL DEF Spec

\* However many calls push at the same time, steering holds one specification.
THEOREM SteeredByOne == Spec => []OneSpec
<1>1. GateInv => OneSpec
  BY DEF GateInv
<1> QED
  BY <1>1, GateInitInv, GateNext, PTL DEF Spec

-------------------------------------------------------------------------------
(* The loop.                                                               *)

\* Types of the loop's own variables.
LoopTypes ==
  /\ scene \in Scenes
  /\ pc \in {"idle", "top", "generate", "unaided", "output", "call", "over"}
  /\ round \in 1..max_rounds
  /\ {failures, since, wsoAt, streak} \subseteq Nat
  /\ tool \in Tools \cup {Grade, NoTool}
  /\ demanded \in BOOLEAN /\ ran \in BOOLEAN
  /\ outcome \in {"none", "stalled", "interrupted", "exhausted", "stuck", "answered"}

LoopInv == LoopTypes /\ RoundsFail /\ SearchLags /\ DemandBlocks /\ StuckIfShort /\ SearchAnswers

\* The loop is idle at the start.
LEMMA LoopInit == Init => LoopInv
<1> SUFFICES ASSUME Init PROVE LoopInv
  OBVIOUS
<1>1. scene \in Scenes
  BY DEF Init
<1>2. 1 \in 1..max_rounds
  BY <1>1, Rounds
<1>3. LoopTypes
  <2>1. demanded \in BOOLEAN /\ ran \in BOOLEAN
    BY DEF Init
  <2>2. /\ round \in 1..max_rounds /\ {failures, since, wsoAt, streak} \subseteq Nat
    BY <1>2 DEF Init
  <2>3. /\ tool \in Tools \cup {Grade, NoTool}
        /\ pc = "idle" /\ outcome = "none"
    BY DEF Init
  <2> QED
    BY <1>1, <2>1, <2>2, <2>3 DEF LoopTypes
<1> QED
  BY <1>3 DEF Init, LoopInv, RoundsFail, SearchLags, DemandBlocks, StuckIfShort, SearchAnswers

\* The end of a round leaves the counters as the round set them.
LEMMA NextRoundInv ==
  ASSUME LoopInv, NextRound, UNCHANGED scene, pc \in {"output", "call"},
         {failures', since', wsoAt', streak'} \subseteq Nat,
         tool' \in Tools \cup {Grade, NoTool}, demanded' \in BOOLEAN, ran' \in BOOLEAN,
         failures' <= failures + 1, wsoAt' <= failures', demanded' => ~ran'
  PROVE  LoopInv'
<1>1. max_rounds' = max_rounds /\ max_rounds \in Nat
  BY Rounds, SameRounds DEF LoopInv, LoopTypes
<1>2. failures < round /\ round \in 1..max_rounds
  BY DEF LoopInv, LoopTypes, RoundsFail
<1>3. round' \in 1..max_rounds' /\ pc' \in {"top", "over"}
  BY <1>1, <1>2 DEF NextRound, Over
<1>4. failures' <= round' /\ (pc' # "over" => failures' < round')
  BY <1>1, <1>2 DEF NextRound, Over, LoopInv, LoopTypes
<1>5. outcome' \in {outcome, "exhausted"}
  BY DEF NextRound, Over
<1> QED
  BY <1>1, <1>3, <1>4, <1>5 DEF LoopInv, LoopTypes, RoundsFail, SearchLags, DemandBlocks,
     StuckIfShort, SearchAnswers

\* A call that is blocked is one more failure, and leaves the rest to its ladder.
LEMMA BlockedInv == ASSUME LoopInv, Blocked, demanded' \in BOOLEAN PROVE LoopInv'
<1>1. /\ NextRound /\ UNCHANGED scene /\ pc = "call"
      /\ failures' = failures + 1 /\ since' = since + 1 /\ UNCHANGED <<wsoAt, tool, streak>>
  BY DEF Blocked, Failed
<1>2. ran' \in BOOLEAN /\ (demanded' => ~ran')
  BY DEF Blocked
<1>3. /\ {failures, since, wsoAt, streak} \subseteq Nat /\ tool \in Tools \cup {Grade, NoTool}
      /\ wsoAt <= failures
  BY DEF LoopInv, LoopTypes, SearchLags
<1>4. /\ {failures', since', wsoAt', streak'} \subseteq Nat
      /\ failures' <= failures + 1 /\ wsoAt' <= failures'
  BY <1>1, <1>3
<1> QED
  BY <1>1, <1>2, <1>3, <1>4, NextRoundInv

\* A call that is executed is no failure.
LEMMA ExecutedInv ==
  ASSUME LoopInv, Executes \/ CloseEnough
  PROVE  LoopInv'
<1>1. NextRound /\ UNCHANGED scene /\ pc = "call" /\ UNCHANGED tool
  BY DEF Executes, CloseEnough, Lets, Acted
<1>2. ran' \in BOOLEAN /\ demanded' \in BOOLEAN /\ (demanded' => ~ran')
  BY DEF Executes, CloseEnough
<1>3. /\ {failures, since, wsoAt, streak} \subseteq Nat /\ tool \in Tools \cup {Grade, NoTool}
      /\ wsoAt <= failures
  BY DEF LoopInv, LoopTypes, SearchLags
<1>4. {failures', since', wsoAt', streak'} \subseteq Nat /\ failures' <= failures + 1 /\ wsoAt' <= failures'
  <2>1. CASE Executes
    BY <1>3, <2>1 DEF Executes
  <2>2. CASE CloseEnough
    BY <1>3, <2>2 DEF CloseEnough, Acted, counters
  <2> QED
    BY <2>1, <2>2
<1> QED
  BY <1>1, <1>2, <1>3, <1>4, NextRoundInv

\* A run that returns leaves fresh counters.
LEMMA ReturnInv == ASSUME LoopInv, Return PROVE LoopInv'
<1>1. scene' = scene /\ outcome' = outcome /\ scene \in Scenes /\ pc' = "idle"
  BY DEF Return, LoopInv, LoopTypes
<1>2. 1 \in 1..max_rounds'
  BY <1>1, Rounds, SameRounds
<1>3. Fresh
  BY DEF Return
<1>4. LoopTypes'
  <2>1. demanded' \in BOOLEAN /\ ran' \in BOOLEAN
    BY <1>3 DEF Fresh
  <2>2. round' \in 1..max_rounds' /\ {failures', since', wsoAt', streak'} \subseteq Nat
    BY <1>2, <1>3 DEF Fresh
  <2>3. /\ tool' \in Tools \cup {Grade, NoTool}
        /\ outcome' \in {"none", "stalled", "interrupted", "exhausted", "stuck", "answered"}
    BY <1>1, <1>3 DEF Fresh, LoopInv, LoopTypes
  <2> QED
    BY <1>1, <2>1, <2>2, <2>3 DEF LoopTypes
<1>5. RoundsFail' /\ SearchLags' /\ DemandBlocks' /\ SearchAnswers'
  BY <1>1, <1>3 DEF Fresh, RoundsFail, SearchLags, DemandBlocks, SearchAnswers
<1>6. StuckIfShort'
  BY <1>1 DEF LoopInv, StuckIfShort
<1> QED
  BY <1>4, <1>5, <1>6 DEF LoopInv

\* Each step of a round keeps the counters in agreement.
LEMMA RoundLoop == ASSUME LoopInv, Round PROVE LoopInv'
<1> USE DEF LoopInv, LoopTypes, RoundsFail, SearchLags, DemandBlocks, StuckIfShort, SearchAnswers
<1>1. CASE Stalls \/ Interrupted
  BY <1>1, SameRounds DEF Stalls, Interrupted, Over, counters, repeats
<1>2. ASSUME NEW worded \in BOOLEAN, BeginRound(worded) PROVE LoopInv'
  BY <1>2, SameRounds DEF BeginRound, repeats, AUTO_WSO_AFTER_FAILURES
<1>3. ASSUME NEW graded \in BOOLEAN, Generated(graded) PROVE LoopInv'
  BY <1>3, SameRounds DEF Generated, counters
<1>4. CASE Wasted
  BY <1>4, NextRoundInv DEF Wasted, Failed, repeats, Writes
<1>5. CASE Broken
  <2>1. CASE failures >= scene.max_think_rounds
    <3>1. pc' = "over" /\ outcome' = "stuck" /\ UNCHANGED <<round, scene, counters, repeats>>
      BY <1>5, <2>1 DEF Broken, Over
    <3>2. scene.max_think_rounds < MIN_ROUNDS
      BY <1>5, <2>1, Rounds DEF Broken, Writes, MIN_ROUNDS
    <3> QED
      BY <3>1, <3>2, SameRounds DEF counters, repeats
  <2>2. CASE ~(failures >= scene.max_think_rounds)
    BY <1>5, <2>2, NextRoundInv DEF Broken, Failed, repeats, Writes
  <2> QED
    BY <2>1, <2>2
<1>6. CASE Answers
  BY <1>6, SameRounds DEF Answers, Over, counters, repeats
<1>7. ASSUME NEW t \in Tools, Corrected(t) PROVE LoopInv'
  BY <1>7, NextRoundInv DEF Corrected, Acted, Writes
<1>8. ASSUME NEW t \in Tools, Called(t) PROVE LoopInv'
  BY <1>8, SameRounds DEF Called, Acted, counters, Writes
<1>9. CASE JudgeBlocks \/ LadderBlocks \/ StallBlocks
  <2>1. Blocked /\ demanded' \in BOOLEAN
    BY <1>9 DEF JudgeBlocks, LadderBlocks, StallBlocks
  <2> QED
    BY <2>1, BlockedInv
<1>10. CASE Executes \/ CloseEnough
  BY <1>10, ExecutedInv
<1>11. CASE Return
  BY <1>11, ReturnInv
<1> QED
  BY <1>1, <1>2, <1>3, <1>4, <1>5, <1>6, <1>7, <1>8, <1>9, <1>10, <1>11
     DEF Round

\* Every step keeps the loop's invariant; what is not a round leaves it alone, or
\* starts a run with fresh counters.
LEMMA LoopNext == LoopInv /\ [Next]_vars => LoopInv'
<1> SUFFICES ASSUME LoopInv, [Next]_vars PROVE LoopInv'
  OBVIOUS
<1>1. CASE UNCHANGED <<scene, loop>>
  BY <1>1, SameRounds DEF LoopInv, LoopTypes, RoundsFail, SearchLags, DemandBlocks, StuckIfShort,
     SearchAnswers, loop, counters, repeats
<1>2. ASSUME NEW c \in Calls, Begin(c) PROVE LoopInv'
  BY <1>2, SameRounds DEF LoopInv, LoopTypes, RoundsFail, SearchLags, DemandBlocks, StuckIfShort,
     SearchAnswers, Begin, counters, repeats
<1> QED
  BY <1>1, <1>2, RoundLoop DEF Next, Operator, Handler, vars

\* In every run the counters of the loop agree, and "Model stuck" is said only when
\* fewer than eight rounds are configured (loop_engine.rs, run).
THEOREM LoopInvariant == Spec => []IInv
<1>1. GateInv /\ LoopInv => IInv
  BY DEF GateInv, GateTypes, LoopInv, LoopTypes, IInv, TypeOK
<1> QED
  BY <1>1, GateInitInv, GateNext, LoopInit, LoopNext, PTL DEF Spec

\* Every variable keeps its type, and no run has more rounds than it is given.
THEOREM LoopTypesKept == Spec => []TypeOK
<1>1. IInv => TypeOK
  BY DEF IInv
<1> QED
  BY <1>1, LoopInvariant, PTL

\* No output is asked for after three failures without a search for the last one.
THEOREM SearchInTime == Spec => []SearchAnswers
<1>1. LoopInv => SearchAnswers
  BY DEF LoopInv
<1> QED
  BY <1>1, LoopInit, LoopNext, PTL DEF Spec

\* Of the calls the model itself writes (not those a corrector repaired) the one that
\* reaches the cap is never executed, nor any from hard_terminate_after on, and none in
\* between right after an executed one (corrector_preset.rs, decide_tool_repeat_stall).
THEOREM Throttled == Spec => RepeatsThrottled
<1> DEFINE Few == \/ streak < hard_repeat_cap
                  \/ streak > hard_repeat_cap /\ ~ran /\ streak < hard_terminate_after
           Throttle == pc = "call" /\ pc' # "call" /\ ran' => Few
<1>1. ASSUME LoopInv, [Next]_vars PROVE [Throttle]_vars
  <2> SUFFICES ASSUME pc = "call", pc' # "call", ran' PROVE Few
    OBVIOUS
  <2>1. Lets
    BY <1>1 DEF Next, Round, Stalls, Interrupted, BeginRound, Generated, Wasted, Broken, Answers,
       Corrected, Called, Writes, JudgeBlocks, LadderBlocks, StallBlocks, Blocked, Executes,
       CloseEnough, Return, Operator, Handler, Begin, loop, vars
  <2>2. hard_repeat_cap \in Nat /\ hard_terminate_after \in Nat /\ streak \in Nat
    BY <1>1, Caps DEF LoopInv, LoopTypes
  <2>3. \/ streak - hard_repeat_cap < 0
        \/ streak - hard_repeat_cap # 0 /\ demanded /\ streak < hard_terminate_after
    BY <2>1, <2>2 DEF Lets, Escalation
  <2> QED
    BY <1>1, <2>2, <2>3 DEF LoopInv, DemandBlocks
<1> QED
  BY <1>1, LoopInit, LoopNext, PTL DEF Spec, RepeatsThrottled

-------------------------------------------------------------------------------
(* A run ends.                                                             *)

\* What is left is a number, and nothing is left of no run only.
LEMMA LeftCounts ==
  ASSUME LoopInv
  PROVE  /\ StepsLeft \in Nat /\ (pc # "idle" => StepsLeft > 0)
         /\ max_rounds \in Nat /\ round \in Nat /\ round <= max_rounds
<1>1. /\ max_rounds \in Nat /\ round \in 1..max_rounds
      /\ pc \in {"idle", "top", "generate", "unaided", "output", "call", "over"}
  BY Rounds DEF LoopInv, LoopTypes
<1> QED
  BY <1>1 DEF StepsLeft

\* What ends a round leaves less than the call or the output it ends on.
LEMMA NextRoundLeft ==
  ASSUME LoopInv, pc \in {"output", "call"}, NextRound \/ (\E how : Over(how)), UNCHANGED scene
  PROVE  StepsLeft' < StepsLeft
<1>1. /\ max_rounds' = max_rounds /\ StepsLeft \in Nat
      /\ max_rounds \in Nat /\ round \in Nat /\ round <= max_rounds
  BY LeftCounts, SameRounds
<1>2. StepsLeft >= 5 * (max_rounds - round) + 2
  BY <1>1 DEF StepsLeft
<1>3. CASE pc' = "over"
  BY <1>1, <1>2, <1>3 DEF StepsLeft
<1>4. CASE pc' # "over"
  <2>1. round # max_rounds /\ pc' = "top" /\ round' = round + 1
    BY <1>4 DEF NextRound, Over
  <2>2. StepsLeft' = 5 * (max_rounds - (round + 1)) + 5
    BY <1>1, <2>1 DEF StepsLeft
  <2> QED
    BY <1>1, <1>2, <2>1, <2>2
<1> QED
  BY <1>3, <1>4

\* Every step of a round leaves less.
LEMMA RoundLeft == ASSUME LoopInv, Round PROVE StepsLeft' < StepsLeft
<1>0. max_rounds \in Nat /\ round \in Nat /\ round <= max_rounds
  BY LeftCounts
<1>1. CASE Stalls \/ Interrupted
  <2>1. pc = "top" /\ pc' = "over"
    BY <1>1 DEF Stalls, Interrupted, Over
  <2> QED
    BY <1>0, <2>1 DEF StepsLeft
<1>2. ASSUME NEW worded \in BOOLEAN, BeginRound(worded) PROVE StepsLeft' < StepsLeft
  <2>1. pc = "top" /\ pc' \in {"generate", "unaided"} /\ round' = round /\ max_rounds' = max_rounds
    BY <1>2, SameRounds DEF BeginRound
  <2> QED
    BY <1>0, <2>1 DEF StepsLeft
<1>3. ASSUME NEW graded \in BOOLEAN, Generated(graded) PROVE StepsLeft' < StepsLeft
  <2>1. pc \in {"generate", "unaided"} /\ pc' = "output" /\ round' = round /\ max_rounds' = max_rounds
    BY <1>3, SameRounds DEF Generated
  <2> QED
    BY <1>0, <2>1 DEF StepsLeft
<1>4. ASSUME NEW t \in Tools, Called(t) PROVE StepsLeft' < StepsLeft
  <2>1. pc = "output" /\ pc' = "call" /\ round' = round /\ max_rounds' = max_rounds
    BY <1>4, SameRounds DEF Called, Writes
  <2> QED
    BY <1>0, <2>1 DEF StepsLeft
<1>5. CASE Wasted \/ Broken \/ Answers \/ \E t \in Tools : Corrected(t)
  <2>1. pc = "output" /\ UNCHANGED scene /\ (NextRound \/ \E how : Over(how))
    BY <1>5 DEF Wasted, Broken, Answers, Corrected, Writes
  <2> QED
    BY <2>1, NextRoundLeft
<1>6. CASE JudgeBlocks \/ LadderBlocks \/ StallBlocks \/ Executes \/ CloseEnough
  <2>1. pc = "call" /\ UNCHANGED scene /\ NextRound
    BY <1>6 DEF JudgeBlocks, LadderBlocks, StallBlocks, Blocked, Executes, CloseEnough, Lets
  <2> QED
    BY <2>1, NextRoundLeft
<1>7. CASE Return
  <2>1. pc = "over" /\ pc' = "idle"
    BY <1>7 DEF Return
  <2> QED
    BY <2>1 DEF StepsLeft
<1> QED
  BY <1>1, <1>2, <1>3, <1>4, <1>5, <1>6, <1>7 DEF Round

\* A run takes at most five steps for each of its rounds, its return among them, whatever
\* the model writes and the operator does (loop_engine.rs, run).
THEOREM RunsShorten == Spec => RunShortens
<1>1. ASSUME LoopInv, [Next]_vars
      PROVE  [pc # "idle" => /\ StepsLeft > 0
                             /\ StepsLeft' < StepsLeft \/ UNCHANGED <<scene, loop>>]_vars
  <2>1. pc # "idle" => StepsLeft > 0
    BY <1>1, LeftCounts
  <2>2. CASE Round
    BY <1>1, <2>1, <2>2, RoundLeft
  <2>3. CASE Operator \/ \E c \in Calls : Handler(c)
    BY <2>1, <2>3 DEF Operator, Handler
  <2>4. CASE \E c \in Calls : Begin(c)
    BY <2>4 DEF Begin
  <2> QED
    BY <1>1, <2>2, <2>3, <2>4 DEF Next
<1> QED
  BY <1>1, LoopInit, LoopNext, PTL DEF Spec, RunShortens
===============================================================================
