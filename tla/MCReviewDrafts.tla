--------------------------- MODULE MCReviewDrafts ---------------------------
(* Instances of ReviewDrafts for TLC. *)
EXTENDS ReviewDrafts

\* Bound: requests that linger in the network.
FewLate == Cardinality(late) <= 1
=============================================================================
