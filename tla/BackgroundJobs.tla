--------------------------- MODULE BackgroundJobs ---------------------------
(***************************************************************************)
(* The durable background queue of caseflow: the table background_jobs,    *)
(* its four service_role functions (claim, heartbeat, complete, fail), the *)
(* worker cycle every server process runs, and the retry endpoints that    *)
(* put a failed job back in the queue.                                     *)
(*                                                                         *)
(* A lease token is gen_random_uuid(): a value no earlier claim of the job *)
(* ever had.  It is modelled by the ordinal of the claim that minted it,   *)
(* and NULL by NoLease.  Time is the lease's remaining number of missed    *)
(* heartbeats (lease_expires_at - now()) and whether available_at has      *)
(* passed; a lease of 0 has lapsed.                                        *)
(***************************************************************************)
EXTENDS Naturals, FiniteSets

CONSTANTS
  Jobs,         \* rows of background_jobs, one for each idempotency key
  DocumentJobs, \* the rows of type DOCUMENT_EXTRACT, retried by an endpoint of their own
  Workers,      \* server processes, each with one backgroundWorkerId
  Clerks,       \* requests in flight at a retry endpoint
  MaxAttempts,  \* max_attempts
  ClaimLimit,   \* p_limit of claim_background_jobs
  LeaseTerm,    \* heartbeats that must be missed for a lease to lapse
  MaxRetries    \* bound: retries of failed jobs explored

ASSUME JobsAssumption == DocumentJobs \subseteq Jobs
ASSUME BoundsAssumption ==
  /\ MaxAttempts \in Nat \ {0}
  /\ ClaimLimit \in Nat \ {0}
  /\ LeaseTerm \in Nat \ {0}
  /\ MaxRetries \in Nat

VARIABLES
  status,    \* background_jobs.status, "absent" before the row exists
  attempts,  \* attempt_count
  claims,    \* claims of the job so far: the ordinal of its latest token
  token,     \* lease_token
  lease,     \* lease_expires_at, as the heartbeats that may still be missed
  due,       \* available_at <= now()
  batch,     \* the claims a worker's cycle has not reached yet
  current,   \* the claim a worker is executing
  beatError, \* heartbeatError of the worker's current execution
  verdict,   \* the status a clerk's request read before it writes
  retries    \* retries that reached a row (bounds the model)

rows    == <<status, attempts, claims, token, lease, due>>
workers == <<batch, current, beatError>>
desk    == <<verdict, retries>>
vars    == <<rows, workers, desk>>

NoLease == 0
Status  == {"absent", "queued", "running", "retrying", "succeeded", "failed"}
Claim   == [job : Jobs, token : Nat]
NoClaim == [job |-> "none", token |-> NoLease]
NoRead  == [job |-> "none", status |-> "absent"]

-----------------------------------------------------------------------------
Init ==
  /\ status    = [j \in Jobs |-> "absent"]
  /\ attempts  = [j \in Jobs |-> 0]
  /\ claims    = [j \in Jobs |-> 0]
  /\ token     = [j \in Jobs |-> NoLease]
  /\ lease     = [j \in Jobs |-> 0]
  /\ due       = [j \in Jobs |-> FALSE]
  /\ batch     = [w \in Workers |-> {}]
  /\ current   = [w \in Workers |-> NoClaim]
  /\ beatError = [w \in Workers |-> FALSE]
  /\ verdict   = [c \in Clerks |-> NoRead]
  /\ retries   = 0

\* A job is inserted once: the idempotency key is unique, and a second
\* request is given the existing row.
Enqueue(j) ==
  /\ status[j] = "absent"
  /\ status' = [status EXCEPT ![j] = "queued"]
  /\ due'    = [due EXCEPT ![j] = TRUE]
  /\ UNCHANGED <<attempts, claims, token, lease, workers, desk>>

-----------------------------------------------------------------------------
(* The service_role functions.                                             *)

Lapsed(j) == status[j] = "running" /\ lease[j] = 0

\* (Mutants of Claimable: no attempt cap; lapsed leases never reclaimed.)
ClaimableUncapped(j) == due[j] /\ (status[j] \in {"queued", "retrying"} \/ Lapsed(j))
ClaimableNoReclaim(j) == attempts[j] < MaxAttempts /\ due[j] /\ status[j] \in {"queued", "retrying"}

Claimable(j) ==
  /\ attempts[j] < MaxAttempts
  /\ due[j]
  /\ status[j] \in {"queued", "retrying"} \/ Lapsed(j)

\* (Mutant of Grant: a reclaimed row keeps the token it had.)
GrantKeepingToken(S) ==
  /\ status'   = [j \in Jobs |-> IF j \in S THEN "running" ELSE status[j]]
  /\ attempts' = [j \in Jobs |-> IF j \in S THEN attempts[j] + 1 ELSE attempts[j]]
  /\ claims'   = [j \in Jobs |-> IF j \in S THEN claims[j] + 1 ELSE claims[j]]
  /\ token'    = [j \in Jobs |-> IF j \in S /\ token[j] = NoLease THEN claims[j] + 1 ELSE token[j]]
  /\ lease'    = [j \in Jobs |-> IF j \in S THEN LeaseTerm ELSE lease[j]]
  /\ UNCHANGED due

\* The row update of claim_background_jobs on the candidates S.
Grant(S) ==
  /\ status'   = [j \in Jobs |-> IF j \in S THEN "running" ELSE status[j]]
  /\ attempts' = [j \in Jobs |-> IF j \in S THEN attempts[j] + 1 ELSE attempts[j]]
  /\ claims'   = [j \in Jobs |-> IF j \in S THEN claims[j] + 1 ELSE claims[j]]
  /\ token'    = [j \in Jobs |-> IF j \in S THEN claims[j] + 1 ELSE token[j]]
  /\ lease'    = [j \in Jobs |-> IF j \in S THEN LeaseTerm ELSE lease[j]]
  /\ UNCHANGED due

\* (Mutant of Holds: the row is matched by its id alone.)
HoldsById(c) == c \in Claim /\ status[c.job] = "running" /\ lease[c.job] > 0

\* The WHERE clause heartbeat, complete and fail share: the row is running,
\* under this very token, and the lease has not lapsed.
Holds(c) ==
  /\ c \in Claim
  /\ status[c.job] = "running"
  /\ token[c.job] = c.token
  /\ lease[c.job] > 0

Release(j) ==
  /\ token' = [token EXCEPT ![j] = NoLease]
  /\ lease' = [lease EXCEPT ![j] = 0]

Succeed(j) ==
  /\ status' = [status EXCEPT ![j] = "succeeded"]
  /\ Release(j)
  /\ UNCHANGED <<attempts, claims, due>>

Fail(j, class) ==
  /\ LET final == class = "permanent" \/ attempts[j] >= MaxAttempts
     IN  /\ status' = [status EXCEPT ![j] = IF final THEN "failed" ELSE "retrying"]
         /\ due'    = [due EXCEPT ![j] = IF final THEN @ ELSE FALSE]
  /\ Release(j)
  /\ UNCHANGED <<attempts, claims>>

-----------------------------------------------------------------------------
(* The worker cycle: claim a batch, then execute its jobs one by one under *)
(* a heartbeat that covers only the job being executed.                    *)

Idle(w) == batch[w] = {} /\ current[w] = NoClaim

\* backgroundWorkerActive admits one cycle per process.  The reply may be
\* lost: the rows are leased and no worker knows the tokens.
ClaimJobs(w) ==
  /\ Idle(w)
  /\ \E S \in SUBSET {j \in Jobs : Claimable(j)} :
       /\ S # {} /\ Cardinality(S) <= ClaimLimit
       /\ Grant(S)
       /\ \/ batch' = [batch EXCEPT ![w] = {[job |-> j, token |-> token'[j]] : j \in S}]
          \/ UNCHANGED batch
  /\ UNCHANGED <<current, beatError, desk>>

\* The next job of the batch is executed, whether or not its lease is alive.
StartJob(w) ==
  /\ current[w] = NoClaim
  /\ \E c \in batch[w] :
       /\ current' = [current EXCEPT ![w] = c]
       /\ batch'   = [batch EXCEPT ![w] = @ \ {c}]
  /\ beatError' = [beatError EXCEPT ![w] = FALSE]
  /\ UNCHANGED <<rows, desk>>

\* A heartbeat renews the lease, or reports it lost.
Heartbeat(w) ==
  /\ current[w] # NoClaim
  /\ IF Holds(current[w])
     THEN /\ lease' = [lease EXCEPT ![current[w].job] = LeaseTerm]
          /\ UNCHANGED beatError
     ELSE /\ beatError' = [beatError EXCEPT ![w] = TRUE]
          /\ UNCHANGED lease
  /\ UNCHANGED <<status, attempts, claims, token, due, batch, current, desk>>

\* The heartbeat call itself errs: the cycle takes the lease for lost.
HeartbeatFails(w) ==
  /\ current[w] # NoClaim
  /\ beatError' = [beatError EXCEPT ![w] = TRUE]
  /\ UNCHANGED <<rows, batch, current, desk>>

EndExecution(w) ==
  /\ current'   = [current EXCEPT ![w] = NoClaim]
  /\ beatError' = [beatError EXCEPT ![w] = FALSE]
  /\ UNCHANGED <<batch, desk>>

\* The executor returned and no heartbeat erred.  When the lease was lost
\* complete changes no row, and the fail that follows raises.
Complete(w) ==
  /\ current[w] # NoClaim
  /\ ~beatError[w]
  /\ IF Holds(current[w]) THEN Succeed(current[w].job) ELSE UNCHANGED rows
  /\ EndExecution(w)

\* The executor threw, or a heartbeat erred (class "transient").
Throw(w, class) ==
  /\ current[w] # NoClaim
  /\ IF Holds(current[w]) THEN Fail(current[w].job, class) ELSE UNCHANGED rows
  /\ EndExecution(w)

\* Neither complete nor fail reached the database; the error is logged.
LoseReport(w) ==
  /\ current[w] # NoClaim
  /\ UNCHANGED rows
  /\ EndExecution(w)

Crash(w) ==
  /\ ~Idle(w)
  /\ batch'     = [batch EXCEPT ![w] = {}]
  /\ current'   = [current EXCEPT ![w] = NoClaim]
  /\ beatError' = [beatError EXCEPT ![w] = FALSE]
  /\ UNCHANGED <<rows, desk>>

-----------------------------------------------------------------------------
(* Time.                                                                   *)

MissBeat(j) ==
  /\ status[j] = "running" /\ lease[j] > 0
  /\ lease' = [lease EXCEPT ![j] = @ - 1]
  /\ UNCHANGED <<status, attempts, claims, token, due, workers, desk>>

BackoffElapses(j) ==
  /\ status[j] = "retrying" /\ ~due[j]
  /\ due' = [due EXCEPT ![j] = TRUE]
  /\ UNCHANGED <<status, attempts, claims, token, lease, workers, desk>>

-----------------------------------------------------------------------------
(* The retry endpoints read the row and later write it; nothing in the     *)
(* write asks whether the row still is what was read.                      *)

\* Only a failed row leads to a write; any other status is answered at once.
ReadForRetry(c, j) ==
  /\ verdict[c] = NoRead
  /\ status[j] = "failed"
  /\ verdict' = [verdict EXCEPT ![c] = [job |-> j, status |-> "failed"]]
  /\ UNCHANGED <<rows, workers, retries>>

\* (Mutant of Requeue: the attempts of the failed request stay counted.)
RequeueKeepingAttempts(j) ==
  /\ status'   = [status EXCEPT ![j] = "retrying"]
  /\ due'      = [due EXCEPT ![j] = TRUE]
  /\ UNCHANGED <<claims, attempts>>

Requeue(j) ==
  /\ status'   = [status EXCEPT ![j] = "retrying"]
  /\ attempts' = [attempts EXCEPT ![j] = 0]
  /\ due'      = [due EXCEPT ![j] = TRUE]
  /\ UNCHANGED claims

\* (Mutant of RetryStaffJob: the update takes the lease away as well.)
RetryStaffJobUnchecked(c) ==
  LET j == verdict[c].job IN
  /\ verdict[c] # NoRead /\ j \notin DocumentJobs
  /\ Requeue(j)
  /\ Release(j)
  /\ retries' = IF token[j] = NoLease THEN retries + 1 ELSE retries
  /\ retries' <= MaxRetries
  /\ verdict' = [verdict EXCEPT ![c] = NoRead]
  /\ UNCHANGED workers

\* The endpoints of forms, reviews and imports leave the lease columns
\* alone: on a running row the lease_shape constraint rejects the update.
RetryStaffJob(c) ==
  LET j == verdict[c].job IN
  /\ verdict[c] # NoRead /\ j \notin DocumentJobs
  /\ \/ /\ token[j] = NoLease /\ retries < MaxRetries
        /\ Requeue(j) /\ UNCHANGED <<token, lease>>
        /\ retries' = retries + 1
     \/ token[j] # NoLease /\ UNCHANGED <<rows, retries>>
  /\ verdict' = [verdict EXCEPT ![c] = NoRead]
  /\ UNCHANGED workers

\* The document endpoint clears the lease with the rest.
RetryDocumentJob(c) ==
  LET j == verdict[c].job IN
  /\ verdict[c] # NoRead /\ j \in DocumentJobs
  /\ retries < MaxRetries
  /\ Requeue(j)
  /\ Release(j)
  /\ retries' = retries + 1
  /\ verdict' = [verdict EXCEPT ![c] = NoRead]
  /\ UNCHANGED workers

\* A request dies between its read and its write.
ForgetRetry(c) ==
  /\ verdict[c] # NoRead
  /\ verdict' = [verdict EXCEPT ![c] = NoRead]
  /\ UNCHANGED <<rows, workers, retries>>

-----------------------------------------------------------------------------
Next ==
  \/ \E j \in Jobs : Enqueue(j) \/ MissBeat(j) \/ BackoffElapses(j)
  \/ \E w \in Workers :
       \/ ClaimJobs(w) \/ StartJob(w) \/ Heartbeat(w) \/ HeartbeatFails(w)
       \/ Complete(w) \/ LoseReport(w) \/ Crash(w)
       \/ \E class \in {"transient", "permanent"} : Throw(w, class)
  \/ \E c \in Clerks :
       \/ \E j \in Jobs : ReadForRetry(c, j)
       \/ RetryStaffJob(c) \/ RetryDocumentJob(c) \/ ForgetRetry(c)

Spec == Init /\ [][Next]_vars

\* A started execution ends: every executor awaits calls that return or time
\* out.  Workers poll every two seconds, and time passes; clerks, crashes and
\* failing calls owe nothing.
Report(w) == Complete(w) \/ LoseReport(w) \/ \E class \in {"transient", "permanent"} : Throw(w, class)

FairSpec ==
  /\ Spec
  /\ WF_vars(\E w \in Workers : ClaimJobs(w))
  /\ \A w \in Workers : WF_vars(StartJob(w)) /\ WF_vars(Report(w))
  /\ \A j \in Jobs : WF_vars(MissBeat(j)) /\ WF_vars(BackoffElapses(j))

-----------------------------------------------------------------------------
TypeOK ==
  /\ status    \in [Jobs -> Status]
  /\ attempts  \in [Jobs -> 0..MaxAttempts]
  /\ claims    \in [Jobs -> Nat]
  /\ token     \in [Jobs -> Nat]
  /\ lease     \in [Jobs -> 0..LeaseTerm]
  /\ due       \in [Jobs -> BOOLEAN]
  /\ batch     \in [Workers -> SUBSET Claim]
  /\ current   \in [Workers -> Claim \cup {NoClaim}]
  /\ beatError \in [Workers -> BOOLEAN]
  /\ verdict   \in [Clerks -> [job : Jobs, status : {"failed"}] \cup {NoRead}]
  /\ retries   \in 0..MaxRetries

\* Every claim a worker has in hand, reached or not.
InHand(w) == batch[w] \cup ({current[w]} \ {NoClaim})

\* Two claims of one job that the database would both accept are one claim in
\* one worker's hands: no schedule of lapses, reclaims, crashes and retries
\* lets two workers report on the same job (lease_token fencing).
OneLiveHolder ==
  \A w1, w2 \in Workers : \A c1 \in InHand(w1), c2 \in InHand(w2) :
    Holds(c1) /\ Holds(c2) /\ c1.job = c2.job => w1 = w2 /\ c1 = c2

\* A job is handed out at most max_attempts times for its first request and for
\* every retry (counted over all jobs, so the bound is exact for one job only),
\* however many of those attempts vanish with a worker.
AttemptBudget ==
  \A j \in Jobs : claims[j] <= MaxAttempts * (1 + retries)

\* A verdict is written by the worker that is executing the job under its
\* live lease, as the last thing that execution does: a worker whose lease
\* was taken over never overwrites the result of the one that took it.
VerdictByHolder ==
  [][\A j \in Jobs :
       status'[j] # status[j] /\ status'[j] \in {"succeeded", "failed"} =>
         \E w \in Workers : /\ current[w] = [job |-> j, token |-> token[j]]
                            /\ current'[w] = NoClaim
                            /\ lease[j] > 0]_vars

\* While a lease on a job of the staff endpoints is alive, only the worker
\* that executes it can end it: a retry that read "failed" before the job was
\* retried by someone else and claimed is rejected by lease_shape.
LiveLeaseRespected ==
  [][\A j \in Jobs \ DocumentJobs :
       status[j] = "running" /\ lease[j] > 0 /\ token'[j] # token[j] =>
         \E w \in Workers : /\ current[w] = [job |-> j, token |-> token[j]]
                            /\ current'[w] = NoClaim]_vars

\* A job whose last permitted attempt lapsed: nothing claims it again, no
\* retry endpoint touches a row that reads "running".
Stranded(j) == Lapsed(j) /\ attempts[j] >= MaxAttempts

\* Every requested job is eventually decided, unless its last permitted
\* attempt was lost with its worker.
DecidedOrStranded ==
  \A j \in Jobs :
    status[j] \in {"queued", "retrying"} ~> status[j] \in {"succeeded", "failed"} \/ Stranded(j)

\* "expired leases are reclaimed": a lapsed lease does not stay lapsed.
LapsedLeasesReclaimed == \A j \in Jobs : Lapsed(j) ~> ~Lapsed(j)
-----------------------------------------------------------------------------
(* The queue implements JobLedger: a running row is held while its lease   *)
(* lasts, and belongs to the workers that could still report on it.        *)

Phase(j) ==
  CASE status[j] \in {"absent", "succeeded", "failed"} -> status[j]
    [] status[j] \in {"queued", "retrying"} -> "waiting"
    [] status[j] = "running" -> IF lease[j] > 0 THEN "held" ELSE "waiting"

Owners(j) == {w \in Workers : \E c \in InHand(w) : c.job = j /\ Holds(c)}

Ledger == INSTANCE JobLedger WITH
  Revocable <- DocumentJobs,
  phase     <- [j \in Jobs |-> Phase(j)],
  owners    <- [j \in Jobs |-> Owners(j)],
  left      <- [j \in Jobs |-> MaxAttempts - attempts[j]]

\* Tokens, lapsing leases, lost replies and stale retries amount to no more
\* than the ledger allows: only a job somebody holds is decided, it waits
\* again only within the attempts its request bought, and a retry buys them anew.
ImplementsLedger == Ledger!Spec

-----------------------------------------------------------------------------
(* The inductive strengthening.                                            *)

\* The table's lease_shape constraint, and the freshness of tokens.
LeaseShape ==
  \A j \in Jobs : /\ token[j] = NoLease <=> status[j] # "running"
                  /\ token[j] \in {NoLease, claims[j]}

\* Every claim in hand carries a token that was minted for its job, and no
\* two workers have the same claim.
ClaimsAreMinted ==
  \A w \in Workers : \A c \in InHand(w) :
    c \in Claim /\ c.token # NoLease /\ c.token <= claims[c.job]

ClaimsAreExclusive ==
  \A w, v \in Workers : w # v => InHand(w) \cap InHand(v) = {}

\* Attempts are what the claims of the current request have used.
ClaimsAreCounted ==
  \A j \in Jobs : claims[j] <= MaxAttempts * retries + attempts[j]

\* What a clerk read was a row, and rows are never deleted.
ReadsAreRows == \A c \in Clerks : verdict[c] # NoRead => status[verdict[c].job] # "absent"

IInv == TypeOK /\ LeaseShape /\ ClaimsAreMinted /\ ClaimsAreExclusive /\ ClaimsAreCounted
=============================================================================
