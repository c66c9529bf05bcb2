------------------------------ MODULE JobLedger ------------------------------
(***************************************************************************)
(* What a leased job queue promises its callers, without tokens, clocks or *)
(* messages: a requested job waits, is held by at most one worker at a     *)
(* time, and is decided by the worker that holds it; each request and each *)
(* retry buys a fixed number of attempts.                                  *)
(***************************************************************************)
EXTENDS Naturals

CONSTANTS
  Jobs,       \* what may be requested
  Revocable,  \* the jobs a retry may take from the worker that holds them
  Workers,    \* who executes jobs
  MaxAttempts \* attempts a request or a retry buys

VARIABLES
  phase,  \* where a job stands
  owners, \* the workers whose report on the job would be accepted
  left    \* attempts that remain

ledger == <<phase, owners, left>>

Phase == {"absent", "waiting", "held", "succeeded", "failed"}

Init ==
  /\ phase  = [j \in Jobs |-> "absent"]
  /\ owners = [j \in Jobs |-> {}]
  /\ left   = [j \in Jobs |-> MaxAttempts]

Request(j) ==
  /\ phase[j] = "absent"
  /\ phase' = [phase EXCEPT ![j] = "waiting"]
  /\ UNCHANGED <<owners, left>>

\* Some waiting jobs are handed to one worker, which may never hear of it
\* (O is empty).
Take(S, O) ==
  /\ \A j \in S : phase[j] = "waiting" /\ left[j] > 0
  /\ phase'  = [j \in Jobs |-> IF j \in S THEN "held" ELSE phase[j]]
  /\ owners' = [j \in Jobs |-> IF j \in S THEN O ELSE owners[j]]
  /\ left'   = [j \in Jobs |-> IF j \in S THEN left[j] - 1 ELSE left[j]]

\* A worker forgets jobs it holds; they stay held until their lease lapses.
Abandon(w, S) ==
  /\ owners' = [j \in Jobs |-> IF j \in S THEN owners[j] \ {w} ELSE owners[j]]
  /\ UNCHANGED <<phase, left>>

Lapse(j) ==
  /\ phase[j] = "held"
  /\ phase'  = [phase EXCEPT ![j] = "waiting"]
  /\ owners' = [owners EXCEPT ![j] = {}]
  /\ UNCHANGED left

\* Only a job that is held by somebody is decided, or waits again while
\* attempts are left.
Finish(j) ==
  /\ phase[j] = "held"
  /\ owners[j] # {}
  /\ \/ phase' = [phase EXCEPT ![j] = "succeeded"]
     \/ phase' = [phase EXCEPT ![j] = "failed"]
     \/ left[j] > 0 /\ phase' = [phase EXCEPT ![j] = "waiting"]
  /\ owners' = [owners EXCEPT ![j] = {}]
  /\ UNCHANGED left

\* A retry that read "failed" acts on whatever it finds, except on a job
\* somebody holds and may not lose.
Retry(j) ==
  /\ phase[j] # "absent"
  /\ phase[j] = "held" => j \in Revocable
  /\ phase'  = [phase EXCEPT ![j] = "waiting"]
  /\ owners' = [owners EXCEPT ![j] = {}]
  /\ left'   = [left EXCEPT ![j] = MaxAttempts]

Next ==
  \/ \E j \in Jobs : Request(j) \/ Lapse(j) \/ Finish(j) \/ Retry(j)
  \/ \E S \in SUBSET Jobs :
       \/ Take(S, {})
       \/ \E w \in Workers : Take(S, {w}) \/ Abandon(w, S)

Spec == Init /\ [][Next]_ledger
==============================================================================
