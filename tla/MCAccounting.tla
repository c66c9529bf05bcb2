---------------------------- MODULE MCAccounting ----------------------------
(* Instances of Accounting for TLC. *)
EXTENDS Accounting, TLC

Symmetry == Permutations(Sessions) \cup Permutations(Keys)
=============================================================================
