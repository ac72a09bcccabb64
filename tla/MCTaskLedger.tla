---------------------------- MODULE MCTaskLedger ----------------------------
(***************************************************************************)
(* Instances of TaskLedger for TLC.                                        *)
(***************************************************************************)
EXTENDS TaskLedger, TLC

Symmetry == Permutations(Tasks) \cup Permutations(Reapers)
=============================================================================
