------------------------------ MODULE ForgeLoop ------------------------------
(***************************************************************************)
(* The tool loop of Forge (src/cesarops-forge-v2/src/loop_engine.rs, run)  *)
(* with the ladders that break its repetitions (corrector_preset.rs,       *)
(* loop_tuning.rs), run by the calls of module SpecGate.                   *)
(*                                                                         *)
(* What the model writes is a choice among the kinds the translator tells  *)
(* apart.  Of the conversation nothing is kept: messages, hints, resets,   *)
(* summaries and the temperature steer the model, not the loop.  So do the *)
(* demands of the loop judge (repeat_block_demands) and the ladder for     *)
(* thinking without tools, which only choose a message.                    *)
(***************************************************************************)
EXTENDS SpecGate, TLC

CONSTANTS
  Tools, WriteFile,  \* tools, and the one whose files may be finished for it
  Grade,             \* the grader's entry in tool_actions
  NoTool,            \* tool_actions is empty
  Scenes             \* configurations, with what the model writes and the operator does

MAX_TOOL_ROUNDS == 32
MIN_ROUNDS == 8
AUTO_WSO_AFTER_FAILURES == 3
STALL == 12

Outputs == {"loop", "malformed", "broken", "tool", "mumble", "text"}

ASSUME LoopAssumption ==
  /\ WriteFile \in Tools /\ Grade \notin Tools /\ NoTool \notin Tools \cup {Grade}
  /\ Nobody \notin Calls /\ Note \notin Nat
  /\ Scenes \subseteq [max_think_rounds : Nat, hard_repeat_cap : Nat, hard_terminate_after : Nat,
                       loop_threshold : Nat, skip_corrector : BOOLEAN, tool_fix : BOOLEAN,
                       loop_judge : BOOLEAN, dual_rounds : SUBSET Nat,
                       outputs : SUBSET Outputs, drafts : Nat]

VARIABLES
  scene,            \* the configuration
  pc,               \* where the loop is
  round, failures, since, wsoAt,   \* failure_count, rounds_since_last_tool, last_auto_wso_at
  tool, streak,     \* the end of tool_actions: a tool and how often in a row
  demanded,         \* last_tool_repeat_escalation is a Demand
  ran,              \* the last tool call was executed
  outcome           \* how the last run ended

counters == <<failures, since, wsoAt>>
repeats == <<tool, streak, demanded, ran>>
loop == <<pc, round, counters, repeats, outcome>>
base == <<gate, steering, seen, send, runner>>
vars == <<base, scene, loop>>

Fresh == /\ round' = 1 /\ failures' = 0 /\ since' = 0 /\ wsoAt' = 0
         /\ tool' = NoTool /\ streak' = 0 /\ demanded' = FALSE /\ ran' = FALSE

Init == /\ GateInit
        /\ scene \in Scenes
        /\ pc = "idle" /\ outcome = "none"
        /\ round = 1 /\ failures = 0 /\ since = 0 /\ wsoAt = 0
        /\ tool = NoTool /\ streak = 0 /\ demanded = FALSE /\ ran = FALSE

Larger(a, b) == IF a < b THEN b ELSE a

\* Wrong on purpose: the configured number only bounds the failures.
max_rounds_Most == MAX_TOOL_ROUNDS

\* load_for_loop and what run makes of it.
max_rounds == IF scene.max_think_rounds > MAX_TOOL_ROUNDS THEN MAX_TOOL_ROUNDS
              ELSE Larger(scene.max_think_rounds, MIN_ROUNDS)

hard_repeat_cap == Larger(scene.hard_repeat_cap, 2)
hard_terminate_after == Larger(scene.hard_terminate_after, hard_repeat_cap + 1)

Over(how) == pc' = "over" /\ outcome' = how /\ UNCHANGED round

\* Wrong on purpose: one round more.
NextRound_Late == IF round > max_rounds THEN Over("exhausted")
                  ELSE pc' = "top" /\ round' = round + 1 /\ UNCHANGED outcome

\* The end of a round; after the last one the run is exhausted.
NextRound == IF round = max_rounds THEN Over("exhausted")
             ELSE pc' = "top" /\ round' = round + 1 /\ UNCHANGED outcome

Failed == failures' = failures + 1 /\ since' = since + 1 /\ UNCHANGED wsoAt

\* An entry at the end of tool_actions.
Acted(entry) == tool' = entry /\ streak' = IF entry = tool THEN streak + 1 ELSE 1

-------------------------------------------------------------------------------
(* The rounds.                                                             *)

Begin(c) == Accepted(c) /\ pc = "idle" /\ pc' = "top" /\ outcome' = "none"
            /\ UNCHANGED <<scene, round, counters, repeats>>

Stalled == since >= STALL /\ round > 2 /\ tool # NoTool

Stalls == pc = "top" /\ Stalled /\ Over("stalled") /\ UNCHANGED <<base, scene, counters, repeats>>

\* The flag of Stop is up (its story is in module ForgeSend).
Interrupted == /\ pc = "top" /\ ~Stalled /\ Over("interrupted")
               /\ UNCHANGED <<base, scene, counters, repeats>>

\* think_harder is called by itself after failures, unless the last message of a user
\* has no words to search for (a task of "/fast" alone, or a conversation that /clear
\* emptied); then the notes are read.
BeginRound(worded) ==
  LET due == failures >= AUTO_WSO_AFTER_FAILURES /\ failures > wsoAt
  IN  /\ pc = "top" /\ ~Stalled
      /\ wsoAt' = IF due /\ worded THEN failures ELSE wsoAt
      /\ Drain
      /\ pc' = IF due /\ ~worded THEN "unaided" ELSE "generate"
      /\ UNCHANGED <<gate, send, runner, scene, round, failures, since, repeats, outcome>>

\* The model writes; on some rounds two do, and a third grades them.
Generated(graded) ==
  /\ pc \in {"generate", "unaided"}
  /\ graded => round \in scene.dual_rounds
  /\ pc' = "output"
  /\ IF graded THEN tool' = Grade /\ streak' = 0 ELSE UNCHANGED <<tool, streak>>
  /\ UNCHANGED <<base, scene, round, counters, demanded, ran, outcome>>

Writes(kind) == pc = "output" /\ kind \in scene.outputs

\* The output repeats an earlier one, is malformed and nobody repairs it, or says
\* nothing after tools were used.
Wasted ==
  /\ \/ Writes("loop") /\ round > 1
     \/ Writes("malformed")
     \/ Writes("mumble") /\ tool # NoTool
  /\ Failed /\ NextRound
  /\ UNCHANGED <<base, scene, repeats>>

\* Wrong on purpose: a round in which a call was repaired is not counted.
Corrected_Free(t) ==
  /\ Writes("malformed") /\ ~scene.skip_corrector /\ scene.tool_fix
  /\ Acted(t) /\ since' = 0 /\ pc' = "top"
  /\ UNCHANGED <<base, scene, round, failures, wsoAt, demanded, ran, outcome>>

\* A corrector repairs the call and executes it, whatever its repetitions.
Corrected(t) ==
  /\ Writes("malformed") /\ ~scene.skip_corrector /\ scene.tool_fix
  /\ Acted(t) /\ since' = 0 /\ NextRound
  /\ UNCHANGED <<base, scene, failures, wsoAt, demanded, ran>>

\* Any other failure: diagnosed, or the run gives up.
Broken ==
  /\ Writes("broken")
  /\ IF failures >= scene.max_think_rounds THEN Over("stuck") /\ UNCHANGED counters
                                           ELSE Failed /\ NextRound
  /\ UNCHANGED <<base, scene, repeats>>

Called(t) ==
  /\ Writes("tool") /\ Acted(t) /\ pc' = "call"
  /\ UNCHANGED <<base, scene, round, counters, demanded, ran, outcome>>

Answers ==
  /\ Writes("text") \/ (Writes("mumble") /\ tool = NoTool)
  /\ Over("answered")
  /\ UNCHANGED <<base, scene, counters, repeats>>

-------------------------------------------------------------------------------
(* A tool call.                                                            *)

\* decide_tool_repeat_stall.
Escalation ==
  LET over == streak - hard_repeat_cap
  IN  IF over < 0 THEN "Continue"
      ELSE IF streak >= hard_terminate_after \/ over = 0 THEN "Demand"
      ELSE IF over > 8 THEN "Reboot"
      ELSE IF demanded /\ over % 2 = 1 THEN "Continue" ELSE "Demand"

\* The preset's ladder, up to the cap: every rung blocks the call, the third is a
\* Demand (decide_escalation).
OnLadder == ~scene.skip_corrector /\ scene.loop_threshold > 0
            /\ streak >= scene.loop_threshold /\ streak < hard_repeat_cap

Blocked == /\ pc = "call" /\ ran' = FALSE /\ Failed /\ NextRound
           /\ UNCHANGED <<base, scene, tool, streak>>

\* The corrector may find that the repetition is not justified.
JudgeBlocks ==
  /\ scene.loop_judge /\ ~scene.skip_corrector
  /\ streak >= Larger(scene.loop_threshold, 3)
  /\ Blocked /\ UNCHANGED demanded

LadderBlocks == OnLadder /\ Blocked /\ demanded' = (streak = scene.loop_threshold + 2)

StallBlocks == ~OnLadder /\ Escalation # "Continue" /\ Blocked /\ demanded' = (Escalation = "Demand")

Lets == pc = "call" /\ ~OnLadder /\ Escalation = "Continue"

\* Wrong on purpose: the search is not armed again.
Executes_Unarmed ==
  /\ Lets /\ ran' = TRUE /\ demanded' = FALSE
  /\ failures' = 0 /\ since' = 0 /\ UNCHANGED wsoAt
  /\ NextRound
  /\ UNCHANGED <<base, scene, tool, streak>>

\* A call that is executed ends a burst of failures.
Executes ==
  /\ Lets /\ ran' = TRUE /\ demanded' = FALSE
  /\ failures' = 0 /\ since' = 0 /\ wsoAt' = IF failures > 0 THEN 0 ELSE wsoAt
  /\ NextRound
  /\ UNCHANGED <<base, scene, tool, streak>>

\* Wrong on purpose: the last escalation is remembered.
CloseEnough_Demanded ==
  /\ Lets /\ tool = WriteFile /\ ran' = TRUE
  /\ Acted(tool)
  /\ NextRound
  /\ UNCHANGED <<base, scene, counters, demanded>>

\* A file that misses a few braces is written, finished and written again; no
\* counter is reset.
CloseEnough ==
  /\ Lets /\ tool = WriteFile /\ ran' = TRUE /\ demanded' = FALSE
  /\ Acted(tool)
  /\ NextRound
  /\ UNCHANGED <<base, scene, counters>>

\* finalize_response, and the guard is dropped.
Return == /\ pc = "over" /\ pc' = "idle" /\ Release /\ Fresh
          /\ UNCHANGED <<scene, outcome>>

-------------------------------------------------------------------------------
Round == \/ Stalls \/ Interrupted
         \/ \E worded \in BOOLEAN : BeginRound(worded)
         \/ \E graded \in BOOLEAN : Generated(graded)
         \/ Wasted \/ Broken \/ Answers
         \/ \E t \in Tools : Corrected(t) \/ Called(t)
         \/ JudgeBlocks \/ LadderBlocks \/ StallBlocks \/ Executes \/ CloseEnough
         \/ Return

Operator ==
  /\ \/ drafts < scene.drafts /\ spec_draft
     \/ \E yes \in BOOLEAN : spec_approve(yes)
     \/ spec_clear
     \/ scene.drafts > 0 /\ steer
  /\ UNCHANGED <<scene, loop>>

Handler(c) ==
  /\ \/ \E slash \in BOOLEAN : Gate(c, slash)
     \/ ReadSpec(c) \/ Push(c) \/ Refused(c)
  /\ UNCHANGED <<scene, loop>>

Next == \/ Round
        \/ Operator
        \/ \E c \in Calls : Handler(c) \/ Begin(c)

Spec == Init /\ [][Next]_vars
===============================================================================
