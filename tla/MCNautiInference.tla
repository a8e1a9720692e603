--------------------------- MODULE MCNautiInference ---------------------------
(***************************************************************************)
(* Instances of NautiInference for TLC.  Requests are interchangeable, so  *)
(* runs that check safety only reduce by symmetry.                         *)
(***************************************************************************)
EXTENDS NautiInferenceProps, TLC

Symmetry == Permutations(Requests)
===============================================================================
