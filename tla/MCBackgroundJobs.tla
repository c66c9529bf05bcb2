-------------------------- MODULE MCBackgroundJobs --------------------------
(* Instances of BackgroundJobs for TLC. *)
EXTENDS BackgroundJobs, TLC

CONSTANTS d1, s1, w1, w2, c1, c2
=============================================================================
