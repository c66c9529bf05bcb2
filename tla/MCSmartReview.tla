--------------------------- MODULE MCSmartReview ---------------------------
(* Instances of SmartReview for TLC. *)
EXTENDS SmartReview, TLC

CONSTANTS m1, m2, c1, c2, d1, d2, p, q

\* Bound: the cases of a sheet are there to compete for one client.  Until they
\* are approved they have no reviewer, their draft as it was, no document.
SheetCasesAreSimple ==
  \A c \in Cases \ Mobile : status[c] # "APPROVED_FILE" =>
    /\ reviewer[c] = Nobody /\ draft[c] = notes[c] /\ draft[c] # Blank
    /\ documents[c] = {} /\ ~archived[c]

Symmetry == Permutations({m1, m2}) \cup Permutations({d1, d2}) \cup Permutations({p, q})
=============================================================================
