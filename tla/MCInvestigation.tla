--------------------------- MODULE MCInvestigation ---------------------------
(***************************************************************************)
(* Instances of Investigation for TLC.                                     *)
(***************************************************************************)
EXTENDS Investigation, TLC

Symmetry == Permutations(Servers) \cup Permutations(Replayers)
=============================================================================
