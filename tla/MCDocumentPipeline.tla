------------------------- MODULE MCDocumentPipeline -------------------------
(* Instances of DocumentPipeline for TLC. *)
EXTENDS DocumentPipeline, TLC

CONSTANTS d1, w1, w2, c1, r1, r2, h1

MCWorkers   == {w1, w2}
MCReviewers == {r1, r2, h1}
Symmetry    == Permutations(MCWorkers) \cup Permutations(MCReviewers)
=============================================================================
