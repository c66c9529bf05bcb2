------------------------ MODULE MCRecordingLifecycle ------------------------
(* Instances of RecordingLifecycle for TLC. *)
EXTENDS RecordingLifecycle, TLC

CONSTANTS w1, w2, j1, j2, d1, d2

MCWorkers == {w1, w2}
MCJobs    == {j1, j2}
Symmetry  == Permutations(MCWorkers) \cup Permutations(MCJobs)
=============================================================================
