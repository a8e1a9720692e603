---------------------------- MODULE MCNautiRegistry ----------------------------
(***************************************************************************)
(* Instances of NautiRegistry for TLC: worker w is also in Forge's list,   *)
(* worker v is not.                                                        *)
(***************************************************************************)
EXTENDS NautiRegistryProps, TLC
===============================================================================
