---------------------------- MODULE MCInferServer ----------------------------
(***************************************************************************)
(* Instances of InferServer for TLC.                                       *)
(***************************************************************************)
EXTENDS InferServerProps, TLC

\* A chain of three nodes and one beside it; the longest is over the budget alone.
MCPrompts == {<<"a">>, <<"a", "b">>, <<"a", "b", "b">>, <<"b">>}
MCIds == {<<"a">>}
===============================================================================
