----------------------------- MODULE MCForgeLoop -----------------------------
(***************************************************************************)
(* Instances of ForgeLoop for TLC.                                         *)
(***************************************************************************)
EXTENDS ForgeLoopProps

\* Every ladder at work, and a tight cap.
Strict == [max_think_rounds |-> 9, hard_repeat_cap |-> 3, hard_terminate_after |-> 7,
           loop_threshold |-> 2, skip_corrector |-> FALSE, tool_fix |-> TRUE,
           loop_judge |-> TRUE, dual_rounds |-> {1, 3}, outputs |-> Outputs, drafts |-> 0]

\* No ladder but the cap, and few rounds configured.
Lax == [Strict EXCEPT !.max_think_rounds = 4, !.hard_repeat_cap = 1, !.hard_terminate_after = 6,
                      !.loop_threshold = 0, !.skip_corrector = TRUE, !.dual_rounds = {}]

\* Long enough to stall.
Long == [Lax EXCEPT !.max_think_rounds = 15, !.outputs = {"tool", "malformed"}]

\* An operator who drafts specifications, over runs that answer.
Steered == [Lax EXCEPT !.outputs = {"text", "loop"}, !.drafts = 2]

\* cluster_config.toml with its preset balanced_tooling.
Shipped == [max_think_rounds |-> 24, hard_repeat_cap |-> 6, hard_terminate_after |-> 12,
            loop_threshold |-> 3, skip_corrector |-> FALSE, tool_fix |-> FALSE,
            loop_judge |-> TRUE, dual_rounds |-> {1, 3}, outputs |-> Outputs, drafts |-> 0]

MCScenes == {Strict, Lax, Long, Steered, Shipped}
===============================================================================
