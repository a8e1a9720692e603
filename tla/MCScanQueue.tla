------------------------------ MODULE MCScanQueue ------------------------------
(***************************************************************************)
(* Instances of ScanQueue for TLC.  Daemons are interchangeable, and so    *)
(* are remote workers of equal capability and readings of the clock, so    *)
(* runs that check safety only reduce by symmetry.                         *)
(***************************************************************************)
EXTENDS ScanQueueProps, TLC

Symmetry == Permutations(Workers) \cup Permutations(Seconds)
===============================================================================
