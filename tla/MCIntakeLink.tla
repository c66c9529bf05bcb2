---------------------------- MODULE MCIntakeLink ----------------------------
(* Instances of IntakeLink for TLC. *)
EXTENDS IntakeLink, TLC

CONSTANTS l1, l2, r1, r2

MCLinks    == {l1, l2}
MCRequests == {r1, r2}
Symmetry   == Permutations(MCLinks) \cup Permutations(MCRequests)
=============================================================================
