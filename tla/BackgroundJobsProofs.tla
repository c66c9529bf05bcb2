------------------------ MODULE BackgroundJobsProofs ------------------------
(***************************************************************************)
(* What holds of the background queue for any number of jobs, workers,     *)
(* clerks, attempts and retries.                                           *)
(***************************************************************************)
EXTENDS BackgroundJobs, TLAPS

\* The initial state satisfies the inductive invariant.
LEMMA InitIInv == Init => IInv
<1> SUFFICES ASSUME Init PROVE IInv
  OBVIOUS
<1> USE BoundsAssumption DEF Init
<1>1. TypeOK
  BY DEF TypeOK, Status, Claim, NoClaim, NoRead, NoLease
<1>2. LeaseShape
  BY DEF LeaseShape, NoLease
<1>3. ClaimsAreMinted /\ ClaimsAreExclusive
  BY DEF ClaimsAreMinted, ClaimsAreExclusive, InHand
<1>4. ClaimsAreCounted
  BY DEF ClaimsAreCounted
<1> QED
  BY <1>1, <1>2, <1>3, <1>4 DEF IInv

\* Types are preserved by every step.
LEMMA TypeStep == IInv /\ [Next]_vars => TypeOK'
<1> SUFFICES ASSUME IInv, [Next]_vars PROVE TypeOK'
  OBVIOUS
<1> USE BoundsAssumption DEF IInv, TypeOK, Status, NoLease, rows, workers, desk
<1>1. ASSUME NEW j \in Jobs, Enqueue(j) PROVE TypeOK'
  BY <1>1 DEF Enqueue
<1>2. ASSUME NEW j \in Jobs, MissBeat(j) PROVE TypeOK'
  BY <1>2 DEF MissBeat
<1>3. ASSUME NEW j \in Jobs, BackoffElapses(j) PROVE TypeOK'
  BY <1>3 DEF BackoffElapses
<1>4. ASSUME NEW w \in Workers, ClaimJobs(w) PROVE TypeOK'
  <2>1. PICK S \in SUBSET {j \in Jobs : Claimable(j)} :
          /\ Grant(S)
          /\ \/ batch' = [batch EXCEPT ![w] = {[job |-> j, token |-> token'[j]] : j \in S}]
             \/ UNCHANGED batch
    BY <1>4 DEF ClaimJobs
  <2>2. /\ status' \in [Jobs -> Status]
        /\ attempts' \in [Jobs -> 0..MaxAttempts]
        /\ claims' \in [Jobs -> Nat]
        /\ token' \in [Jobs -> Nat]
        /\ lease' \in [Jobs -> 0..LeaseTerm]
    BY <2>1 DEF Grant, Claimable
  <2>3. batch' \in [Workers -> SUBSET Claim]
    BY <2>1, <2>2 DEF Claim
  <2> QED
    BY <2>1, <2>2, <2>3, <1>4 DEF ClaimJobs, Grant
<1>5. ASSUME NEW w \in Workers, StartJob(w) PROVE TypeOK'
  BY <1>5 DEF StartJob
<1>6. ASSUME NEW w \in Workers, Heartbeat(w) PROVE TypeOK'
  <2>1. CASE Holds(current[w])
    <3>1. current[w].job \in Jobs
      BY <2>1 DEF Holds, Claim
    <3> QED
      BY <1>6, <2>1, <3>1 DEF Heartbeat
  <2>2. CASE ~Holds(current[w])
    BY <1>6, <2>2 DEF Heartbeat
  <2> QED
    BY <2>1, <2>2
<1>7. ASSUME NEW w \in Workers, HeartbeatFails(w) PROVE TypeOK'
  BY <1>7 DEF HeartbeatFails
<1>8. ASSUME NEW w \in Workers, Complete(w) PROVE TypeOK'
  BY <1>8 DEF Complete, EndExecution, Succeed, Release, Holds, Claim
<1>9. ASSUME NEW w \in Workers, NEW class \in {"transient", "permanent"}, Throw(w, class) PROVE TypeOK'
  <2>1. CASE Holds(current[w])
    <3> DEFINE j == current[w].job
    <3>1. j \in Jobs
      BY <2>1 DEF Holds, Claim
    <3>2. Fail(j, class) /\ EndExecution(w)
      BY <1>9, <2>1 DEF Throw
    <3>3. PICK final \in BOOLEAN :
            /\ status' = [status EXCEPT ![j] = IF final THEN "failed" ELSE "retrying"]
            /\ due'    = [due EXCEPT ![j] = IF final THEN @ ELSE FALSE]
      <4>1. (class = "permanent" \/ attempts[j] >= MaxAttempts) \in BOOLEAN
        OBVIOUS
      <4> QED
        BY <3>2, <4>1 DEF Fail
    <3>4. status' \in [Jobs -> Status] /\ due' \in [Jobs -> BOOLEAN]
      BY <3>1, <3>3
    <3>5. Release(j) /\ UNCHANGED <<attempts, claims>>
      BY <3>2 DEF Fail
    <3> QED
      BY <3>1, <3>2, <3>4, <3>5 DEF Release, EndExecution
  <2>2. CASE ~Holds(current[w])
    BY <1>9, <2>2 DEF Throw, EndExecution
  <2> QED
    BY <2>1, <2>2
<1>10. ASSUME NEW w \in Workers, LoseReport(w) PROVE TypeOK'
  BY <1>10 DEF LoseReport, EndExecution
<1>11. ASSUME NEW w \in Workers, Crash(w) PROVE TypeOK'
  BY <1>11 DEF Crash
<1>12. ASSUME NEW c \in Clerks, NEW j \in Jobs, ReadForRetry(c, j) PROVE TypeOK'
  BY <1>12 DEF ReadForRetry
<1>13. ASSUME NEW c \in Clerks, RetryStaffJob(c) PROVE TypeOK'
  <2> DEFINE j == verdict[c].job
  <2>1. j \in Jobs
    BY <1>13 DEF RetryStaffJob
  <2>2. CASE token[j] = NoLease
    <3>1. Requeue(j) /\ UNCHANGED <<token, lease>> /\ UNCHANGED workers
          /\ retries < MaxRetries /\ retries' = retries + 1
          /\ verdict' = [verdict EXCEPT ![c] = NoRead]
      BY <1>13, <2>2 DEF RetryStaffJob
    <3> QED
      BY <2>1, <3>1 DEF Requeue
  <2>3. CASE token[j] # NoLease
    BY <1>13, <2>3 DEF RetryStaffJob
  <2> QED
    BY <2>2, <2>3
<1>14. ASSUME NEW c \in Clerks, RetryDocumentJob(c) PROVE TypeOK'
  <2>1. verdict[c].job \in Jobs
    BY <1>14 DEF RetryDocumentJob
  <2> QED
    BY <1>14, <2>1 DEF RetryDocumentJob, Requeue, Release
<1>15. ASSUME NEW c \in Clerks, ForgetRetry(c) PROVE TypeOK'
  BY <1>15 DEF ForgetRetry
<1>16. CASE UNCHANGED vars
  BY <1>16 DEF vars
<1> QED
  BY <1>1, <1>2, <1>3, <1>4, <1>5, <1>6, <1>7, <1>8, <1>9, <1>10, <1>11, <1>12,
     <1>13, <1>14, <1>15, <1>16 DEF Next

-----------------------------------------------------------------------------
\* Leases keep the shape the table's constraint demands, and attempts account
\* for claims, whatever step is taken.
LEMMA RowStep == IInv /\ [Next]_vars => LeaseShape' /\ ClaimsAreCounted'
<1> SUFFICES ASSUME IInv, [Next]_vars PROVE LeaseShape' /\ ClaimsAreCounted'
  OBVIOUS
<1> DEFINE Goal == LeaseShape' /\ ClaimsAreCounted'
<1> USE BoundsAssumption DEF IInv, TypeOK, LeaseShape, ClaimsAreCounted, NoLease
<1>0. MaxAttempts * (retries + 1) = MaxAttempts * retries + MaxAttempts
      /\ MaxAttempts * retries \in Nat /\ MaxAttempts * (retries + 1) \in Nat
  OBVIOUS
<1>1. ASSUME NEW j \in Jobs, Enqueue(j) PROVE Goal
  BY <1>1 DEF Enqueue, workers, desk
<1>2. ASSUME NEW j \in Jobs, MissBeat(j) PROVE Goal
  BY <1>2 DEF MissBeat, workers, desk
<1>3. ASSUME NEW j \in Jobs, BackoffElapses(j) PROVE Goal
  BY <1>3 DEF BackoffElapses, workers, desk
<1>4. ASSUME NEW w \in Workers, ClaimJobs(w) PROVE Goal
  <2>1. PICK S \in SUBSET {j \in Jobs : Claimable(j)} : Grant(S)
    BY <1>4 DEF ClaimJobs
  <2> QED
    BY <2>1, <1>4 DEF Grant, ClaimJobs, desk
<1>5. ASSUME NEW w \in Workers, StartJob(w) \/ HeartbeatFails(w) \/ LoseReport(w) \/ Crash(w) PROVE Goal
  BY <1>5 DEF StartJob, HeartbeatFails, LoseReport, Crash, EndExecution, rows, desk
<1>6. ASSUME NEW w \in Workers, Heartbeat(w) PROVE Goal
  BY <1>6 DEF Heartbeat, desk
<1>7. ASSUME NEW w \in Workers, Complete(w) PROVE Goal
  <2>1. CASE Holds(current[w])
    <3>1. current[w].job \in Jobs
      BY <2>1 DEF Holds, Claim
    <3> QED
      BY <1>7, <2>1, <3>1 DEF Complete, EndExecution, Succeed, Release, desk
  <2>2. CASE ~Holds(current[w])
    BY <1>7, <2>2 DEF Complete, EndExecution, rows, desk
  <2> QED
    BY <2>1, <2>2
<1>8. ASSUME NEW w \in Workers, NEW class \in {"transient", "permanent"}, Throw(w, class) PROVE Goal
  <2>1. CASE Holds(current[w])
    <3> DEFINE j == current[w].job
    <3>1. j \in Jobs
      BY <2>1 DEF Holds, Claim
    <3>2. Fail(j, class) /\ UNCHANGED retries
      BY <1>8, <2>1 DEF Throw, EndExecution, desk
    <3>3. /\ status' = [status EXCEPT ![j] = status'[j]]
          /\ status'[j] \in {"failed", "retrying"}
      BY <3>1, <3>2 DEF Fail
    <3>4. Release(j) /\ UNCHANGED <<attempts, claims>>
      BY <3>2 DEF Fail
    <3> QED
      BY <3>1, <3>2, <3>3, <3>4 DEF Release
  <2>2. CASE ~Holds(current[w])
    BY <1>8, <2>2 DEF Throw, EndExecution, rows, desk
  <2> QED
    BY <2>1, <2>2
<1>9. ASSUME NEW c \in Clerks, NEW j \in Jobs, ReadForRetry(c, j) PROVE Goal
  BY <1>9 DEF ReadForRetry, rows
<1>10. ASSUME NEW c \in Clerks, RetryStaffJob(c) PROVE Goal
  <2> DEFINE j == verdict[c].job
  <2>1. j \in Jobs
    BY <1>10 DEF RetryStaffJob
  <2>2. CASE token[j] = NoLease
    <3>1. Requeue(j) /\ UNCHANGED <<token, lease>> /\ retries' = retries + 1
      BY <1>10, <2>2 DEF RetryStaffJob
    <3> QED
      BY <1>0, <2>1, <2>2, <3>1 DEF Requeue
  <2>3. CASE token[j] # NoLease
    BY <1>10, <2>3 DEF RetryStaffJob, rows
  <2> QED
    BY <2>2, <2>3
<1>11. ASSUME NEW c \in Clerks, RetryDocumentJob(c) PROVE Goal
  <2>1. verdict[c].job \in Jobs /\ retries' = retries + 1
    BY <1>11 DEF RetryDocumentJob
  <2> QED
    BY <1>0, <1>11, <2>1 DEF RetryDocumentJob, Requeue, Release
<1>12. ASSUME NEW c \in Clerks, ForgetRetry(c) PROVE Goal
  BY <1>12 DEF ForgetRetry, rows
<1>13. CASE UNCHANGED vars
  BY <1>13 DEF vars, rows, desk
<1> QED
  BY <1>1, <1>2, <1>3, <1>4, <1>5, <1>6, <1>7, <1>8, <1>9, <1>10, <1>11, <1>12, <1>13 DEF Next

-----------------------------------------------------------------------------
\* A worker that only loses claims keeps the claims in hand minted and its own.
LEMMA ShrinkingHands ==
  ASSUME ClaimsAreMinted, ClaimsAreExclusive, TypeOK, TypeOK',
         \A w \in Workers : InHand(w)' \subseteq InHand(w),
         \A j \in Jobs : claims[j] <= claims'[j]
  PROVE  ClaimsAreMinted' /\ ClaimsAreExclusive'
<1>1. ClaimsAreMinted'
  BY DEF ClaimsAreMinted, TypeOK, Claim, NoLease
<1>2. ClaimsAreExclusive'
  BY DEF ClaimsAreExclusive
<1> QED
  BY <1>1, <1>2

\* Claims in hand stay minted and exclusive: the only step that adds one
\* mints a token no claim carries yet.
LEMMA HandStep == IInv /\ [Next]_vars => ClaimsAreMinted' /\ ClaimsAreExclusive'
<1> SUFFICES ASSUME IInv, [Next]_vars PROVE ClaimsAreMinted' /\ ClaimsAreExclusive'
  OBVIOUS
<1>0. TypeOK'
  BY TypeStep
<1> DEFINE Shrink == /\ \A w \in Workers : InHand(w)' \subseteq InHand(w)
                     /\ \A j \in Jobs : claims[j] <= claims'[j]
<1>1. Shrink => ClaimsAreMinted' /\ ClaimsAreExclusive'
  BY <1>0, ShrinkingHands DEF IInv
<1>2. ASSUME NEW w \in Workers, ClaimJobs(w) PROVE ClaimsAreMinted' /\ ClaimsAreExclusive'
  <2>1. PICK S \in SUBSET {j \in Jobs : Claimable(j)} :
          /\ Grant(S)
          /\ \/ batch' = [batch EXCEPT ![w] = {[job |-> j, token |-> token'[j]] : j \in S}]
             \/ UNCHANGED batch
    BY <1>2 DEF ClaimJobs
  <2> DEFINE New == {[job |-> j, token |-> token'[j]] : j \in S}
  <2>2. /\ \A j \in S : claims'[j] = claims[j] + 1 /\ token'[j] = claims[j] + 1
        /\ \A j \in Jobs : claims[j] <= claims'[j]
    BY <2>1 DEF Grant, IInv, TypeOK
  <2>3. \A c \in New : c \in Claim /\ c.token # NoLease /\ c.token <= claims'[c.job]
                       /\ c.token = claims[c.job] + 1
    BY <2>2 DEF Claim, NoLease, IInv, TypeOK
  <2>4. InHand(w)' \subseteq InHand(w) \cup New
        /\ \A v \in Workers \ {w} : InHand(v)' = InHand(v)
    BY <1>2, <2>1 DEF ClaimJobs, InHand, IInv, TypeOK
  <2>5. \A v \in Workers : \A c \in InHand(v) :
          c \in Claim /\ c.token # NoLease /\ c.token <= claims[c.job]
    BY DEF IInv, ClaimsAreMinted
  <2>6. ClaimsAreMinted'
    <3> SUFFICES ASSUME NEW v \in Workers, NEW c \in InHand(v)'
                 PROVE  c \in Claim /\ c.token # NoLease /\ c.token <= claims'[c.job]
      BY DEF ClaimsAreMinted
    <3>1. CASE c \in New
      BY <3>1, <2>3
    <3>2. CASE c \in InHand(v)
      <4>1. c \in Claim /\ c.token # NoLease /\ c.token <= claims[c.job]
        BY <3>2, <2>5
      <4>2. c.job \in Jobs /\ c.token \in Nat
        BY <4>1 DEF Claim
      <4>3. claims[c.job] \in Nat /\ claims'[c.job] \in Nat /\ claims[c.job] <= claims'[c.job]
        BY <4>2, <2>2, <1>0 DEF IInv, TypeOK
      <4> QED
        BY <4>1, <4>2, <4>3
    <3> QED
      BY <3>1, <3>2, <2>4
  <2>7. \A v \in Workers : InHand(v) \cap New = {}
    BY <2>3, <2>5 DEF Claim, IInv, TypeOK
  <2>8. ClaimsAreExclusive'
    BY <2>4, <2>7 DEF ClaimsAreExclusive, IInv
  <2> QED
    BY <2>6, <2>8
<1>3. ASSUME NEW w \in Workers, StartJob(w) PROVE Shrink
  BY <1>3 DEF StartJob, InHand, rows, IInv, TypeOK
<1>4. ASSUME NEW w \in Workers, Heartbeat(w) \/ HeartbeatFails(w) PROVE Shrink
  BY <1>4 DEF Heartbeat, HeartbeatFails, InHand, rows, IInv, TypeOK
<1>5. ASSUME NEW w \in Workers, Crash(w) PROVE Shrink
  BY <1>5 DEF Crash, InHand, rows, IInv, TypeOK
<1>6. ASSUME NEW w \in Workers, EndExecution(w), UNCHANGED claims PROVE Shrink
  BY <1>6 DEF EndExecution, InHand, IInv, TypeOK
<1>7. ASSUME NEW w \in Workers, Complete(w) \/ LoseReport(w) PROVE EndExecution(w) /\ UNCHANGED claims
  BY <1>7 DEF Complete, LoseReport, Succeed, rows
<1>8. ASSUME NEW w \in Workers, NEW class \in {"transient", "permanent"}, Throw(w, class)
      PROVE  EndExecution(w) /\ UNCHANGED claims
  BY <1>8 DEF Throw, Fail, rows
<1>9. ASSUME UNCHANGED workers, UNCHANGED claims PROVE Shrink
  BY <1>9 DEF workers, InHand, IInv, TypeOK
<1>10. ASSUME NEW j \in Jobs, Enqueue(j) \/ MissBeat(j) \/ BackoffElapses(j)
       PROVE  UNCHANGED workers /\ UNCHANGED claims
  BY <1>10 DEF Enqueue, MissBeat, BackoffElapses
<1>11. ASSUME NEW c \in Clerks,
              \/ \E j \in Jobs : ReadForRetry(c, j)
              \/ RetryStaffJob(c) \/ RetryDocumentJob(c) \/ ForgetRetry(c)
       PROVE  UNCHANGED workers /\ UNCHANGED claims
  BY <1>11 DEF ReadForRetry, RetryStaffJob, RetryDocumentJob, ForgetRetry, Requeue, rows
<1>12. CASE UNCHANGED vars
  BY <1>1, <1>9, <1>12 DEF vars, rows
<1> QED
  BY <1>1, <1>2, <1>3, <1>4, <1>5, <1>6, <1>7, <1>8, <1>9, <1>10, <1>11, <1>12 DEF Next

-----------------------------------------------------------------------------
\* The inductive invariant holds in every reachable state.
THEOREM Invariance == Spec => []IInv
<1>1. IInv /\ [Next]_vars => IInv'
  BY TypeStep, RowStep, HandStep DEF IInv
<1> QED
  BY InitIInv, <1>1, PTL DEF Spec

\* The variables keep their types; in particular attempt_count never passes
\* max_attempts, which the table's attempt_bounds constraint demands.
THEOREM TypeCorrect == Spec => []TypeOK
<1>1. IInv => TypeOK
  BY DEF IInv
<1> QED
  BY <1>1, Invariance, PTL

\* Fencing: of all the claims of a job in all workers' hands, the database
\* would accept a report on at most one.
THEOREM Fencing == Spec => []OneLiveHolder
<1>1. IInv => OneLiveHolder
  <2> SUFFICES ASSUME IInv, NEW w1 \in Workers, NEW w2 \in Workers,
                      NEW c1 \in InHand(w1), NEW c2 \in InHand(w2),
                      Holds(c1), Holds(c2), c1.job = c2.job
               PROVE  w1 = w2 /\ c1 = c2
    BY DEF OneLiveHolder
  <2>1. c1 = c2
    BY DEF Holds, Claim
  <2>2. w1 = w2
    BY <2>1 DEF IInv, ClaimsAreExclusive
  <2> QED
    BY <2>1, <2>2
<1> QED
  BY <1>1, Invariance, PTL

\* However often workers crash and leases lapse, a job is handed out at most
\* max_attempts times for each request of it.
THEOREM Budget == Spec => []AttemptBudget
<1>1. IInv => AttemptBudget
  <2> SUFFICES ASSUME IInv, NEW j \in Jobs PROVE claims[j] <= MaxAttempts * (1 + retries)
    BY DEF AttemptBudget
  <2>1. /\ claims[j] \in Nat /\ attempts[j] \in 0..MaxAttempts
        /\ retries \in Nat /\ MaxAttempts \in Nat
        /\ claims[j] <= MaxAttempts * retries + attempts[j]
    BY BoundsAssumption DEF IInv, TypeOK, ClaimsAreCounted
  <2>2. MaxAttempts * (1 + retries) = MaxAttempts * retries + MaxAttempts
        /\ MaxAttempts * retries \in Nat
    BY <2>1
  <2> QED
    BY <2>1, <2>2
<1> QED
  BY <1>1, Invariance, PTL

\* A job is decided only by the worker that executes it under its live lease.
THEOREM Verdicts == Spec => VerdictByHolder
<1>1. ASSUME IInv, [Next]_vars, NEW j \in Jobs,
             status'[j] # status[j], status'[j] \in {"succeeded", "failed"}
      PROVE  \E w \in Workers : /\ current[w] = [job |-> j, token |-> token[j]]
                                /\ current'[w] = NoClaim
                                /\ lease[j] > 0
  <2> USE <1>1 DEF IInv, TypeOK
  <2>1. status' # status
    OBVIOUS
  <2>2. ASSUME NEW k \in Jobs, Enqueue(k) \/ MissBeat(k) \/ BackoffElapses(k) PROVE FALSE
    BY <2>2 DEF Enqueue, MissBeat, BackoffElapses
  <2>3. ASSUME NEW w \in Workers, ClaimJobs(w) PROVE FALSE
    <3>1. PICK S \in SUBSET {k \in Jobs : Claimable(k)} : Grant(S)
      BY <2>3 DEF ClaimJobs
    <3> QED
      BY <3>1 DEF Grant
  <2>4. ASSUME NEW w \in Workers,
               StartJob(w) \/ Heartbeat(w) \/ HeartbeatFails(w) \/ LoseReport(w) \/ Crash(w)
        PROVE  FALSE
    BY <2>1, <2>4 DEF StartJob, Heartbeat, HeartbeatFails, LoseReport, Crash, rows
  <2>5. ASSUME NEW w \in Workers, Complete(w)
        PROVE  current[w] = [job |-> j, token |-> token[j]] /\ current'[w] = NoClaim /\ lease[j] > 0
    <3>1. Holds(current[w]) /\ EndExecution(w)
      BY <2>1, <2>5 DEF Complete, rows
    <3>2. current[w].job = j
      BY <2>5, <3>1 DEF Complete, Succeed
    <3> QED
      BY <3>1, <3>2 DEF EndExecution, Holds, Claim
  <2>6. ASSUME NEW w \in Workers, NEW class \in {"transient", "permanent"}, Throw(w, class)
        PROVE  current[w] = [job |-> j, token |-> token[j]] /\ current'[w] = NoClaim /\ lease[j] > 0
    <3>1. Holds(current[w]) /\ EndExecution(w)
      BY <2>1, <2>6 DEF Throw, rows
    <3>2. current[w].job = j
      BY <2>6, <3>1 DEF Throw, Fail
    <3> QED
      BY <3>1, <3>2 DEF EndExecution, Holds, Claim
  <2>7. ASSUME NEW c \in Clerks,
               \/ \E k \in Jobs : ReadForRetry(c, k)
               \/ RetryStaffJob(c) \/ RetryDocumentJob(c) \/ ForgetRetry(c)
        PROVE  FALSE
    <3>1. CASE (\E k \in Jobs : ReadForRetry(c, k)) \/ ForgetRetry(c)
      BY <2>1, <3>1 DEF ReadForRetry, ForgetRetry, rows
    <3>2. CASE Requeue(verdict[c].job)
      BY <3>2 DEF Requeue
    <3> QED
      BY <2>1, <2>7, <3>1, <3>2 DEF RetryStaffJob, RetryDocumentJob, rows
  <2>8. CASE UNCHANGED vars
    BY <2>1, <2>8 DEF vars, rows
  <2> QED
    BY <2>2, <2>3, <2>4, <2>5, <2>6, <2>7, <2>8 DEF Next
<1>2. IInv /\ [Next]_vars =>
        \A j \in Jobs :
          status'[j] # status[j] /\ status'[j] \in {"succeeded", "failed"} =>
            \E w \in Workers : /\ current[w] = [job |-> j, token |-> token[j]]
                               /\ current'[w] = NoClaim
                               /\ lease[j] > 0
  BY <1>1
<1> QED
  BY <1>2, Invariance, PTL DEF Spec, VerdictByHolder

\* A live lease on a job of the staff endpoints is ended only by the worker
\* that executes the job under it: no retry request takes it away.
THEOREM LeasesRespected == Spec => LiveLeaseRespected
<1>1. ASSUME IInv, [Next]_vars, NEW j \in Jobs \ DocumentJobs,
             status[j] = "running", lease[j] > 0, token'[j] # token[j]
      PROVE  \E w \in Workers : /\ current[w] = [job |-> j, token |-> token[j]]
                                /\ current'[w] = NoClaim
  <2> USE <1>1 DEF IInv, TypeOK
  <2>1. token' # token
    OBVIOUS
  <2>2. ASSUME NEW k \in Jobs, Enqueue(k) \/ MissBeat(k) \/ BackoffElapses(k) PROVE FALSE
    BY <2>1, <2>2 DEF Enqueue, MissBeat, BackoffElapses
  <2>3. ASSUME NEW w \in Workers, ClaimJobs(w) PROVE FALSE
    <3>1. PICK S \in SUBSET {k \in Jobs : Claimable(k)} : Grant(S)
      BY <2>3 DEF ClaimJobs
    <3>2. j \notin S
      BY DEF Claimable, Lapsed
    <3> QED
      BY <3>1, <3>2 DEF Grant
  <2>4. ASSUME NEW w \in Workers,
               StartJob(w) \/ Heartbeat(w) \/ HeartbeatFails(w) \/ LoseReport(w) \/ Crash(w)
        PROVE  FALSE
    BY <2>1, <2>4 DEF StartJob, Heartbeat, HeartbeatFails, LoseReport, Crash, rows
  <2>5. ASSUME NEW w \in Workers, Complete(w)
        PROVE  current[w] = [job |-> j, token |-> token[j]] /\ current'[w] = NoClaim
    <3>1. Holds(current[w]) /\ EndExecution(w)
      BY <2>1, <2>5 DEF Complete, rows
    <3>2. current[w].job = j
      BY <2>5, <3>1 DEF Complete, Succeed, Release
    <3> QED
      BY <3>1, <3>2 DEF EndExecution, Holds, Claim
  <2>6. ASSUME NEW w \in Workers, NEW class \in {"transient", "permanent"}, Throw(w, class)
        PROVE  current[w] = [job |-> j, token |-> token[j]] /\ current'[w] = NoClaim
    <3>1. Holds(current[w]) /\ EndExecution(w)
      BY <2>1, <2>6 DEF Throw, rows
    <3>2. current[w].job = j
      BY <2>6, <3>1 DEF Throw, Fail, Release
    <3> QED
      BY <3>1, <3>2 DEF EndExecution, Holds, Claim
  <2>7. ASSUME NEW c \in Clerks,
               \/ \E k \in Jobs : ReadForRetry(c, k)
               \/ RetryStaffJob(c) \/ RetryDocumentJob(c) \/ ForgetRetry(c)
        PROVE  FALSE
    <3>1. CASE (\E k \in Jobs : ReadForRetry(c, k)) \/ ForgetRetry(c)
      BY <2>1, <3>1 DEF ReadForRetry, ForgetRetry, rows
    <3>2. CASE RetryStaffJob(c)
      BY <2>1, <3>2 DEF RetryStaffJob, rows
    <3>3. CASE RetryDocumentJob(c)
      BY <3>3 DEF RetryDocumentJob, Release
    <3> QED
      BY <2>7, <3>1, <3>2, <3>3
  <2>8. CASE UNCHANGED vars
    BY <2>1, <2>8 DEF vars, rows
  <2> QED
    BY <2>2, <2>3, <2>4, <2>5, <2>6, <2>7, <2>8 DEF Next
<1>2. IInv /\ [Next]_vars =>
        \A j \in Jobs \ DocumentJobs :
          status[j] = "running" /\ lease[j] > 0 /\ token'[j] # token[j] =>
            \E w \in Workers : /\ current[w] = [job |-> j, token |-> token[j]]
                               /\ current'[w] = NoClaim
  BY <1>1
<1> QED
  BY <1>2, Invariance, PTL DEF Spec, LiveLeaseRespected

-----------------------------------------------------------------------------
(* The queue implements the ledger of JobLedger.                           *)

\* The ledger stands still when each job looks the same.
LEMMA Stutter ==
  ASSUME \A k \in Jobs : Phase(k)' = Phase(k) /\ Owners(k)' = Owners(k), attempts' = attempts
  PROVE  UNCHANGED Ledger!ledger
BY DEF Ledger!ledger

\* A worker may report on a job exactly when one of its claims is held.
LEMMA OwnersSame ==
  ASSUME NEW k \in Jobs,
         \A w \in Workers : InHand(w)' = InHand(w),
         status'[k] = status[k], token'[k] = token[k], lease'[k] > 0 <=> lease[k] > 0
  PROVE  Owners(k)' = Owners(k)
BY DEF Owners, Holds

\* A row that is not running belongs to nobody.
LEMMA NobodyOwns ==
  ASSUME NEW k \in Jobs, status[k] # "running" \/ ~(lease[k] > 0)
  PROVE  Owners(k) = {}
BY DEF Owners, Holds

LEMMA NobodyOwnsNext ==
  ASSUME NEW k \in Jobs, status'[k] # "running" \/ ~(lease'[k] > 0)
  PROVE  Owners(k)' = {}
BY DEF Owners, Holds

\* The initial states correspond.
LEMMA InitLedger == Init => Ledger!Init
<1> SUFFICES ASSUME Init PROVE Ledger!Init
  OBVIOUS
<1>1. \A k \in Jobs : Phase(k) = "absent" /\ Owners(k) = {} /\ MaxAttempts - attempts[k] = MaxAttempts
  BY NobodyOwns, BoundsAssumption DEF Init, Phase
<1> QED
  BY <1>1 DEF Ledger!Init

-----------------------------------------------------------------------------
\* A row a clerk has read is there when the clerk writes it.
LEMMA ReadsStep == IInv /\ ReadsAreRows /\ [Next]_vars => ReadsAreRows'
<1> SUFFICES ASSUME IInv, ReadsAreRows, [Next]_vars PROVE ReadsAreRows'
  OBVIOUS
<1>1. ASSUME NEW k \in Jobs, status[k] # "absent" PROVE status'[k] # "absent"
  <2> USE <1>1 DEF IInv, TypeOK, Status
  <2>1. ASSUME NEW j \in Jobs, Enqueue(j) \/ MissBeat(j) \/ BackoffElapses(j) PROVE status'[k] # "absent"
    BY <2>1 DEF Enqueue, MissBeat, BackoffElapses
  <2>2. ASSUME NEW w \in Workers, ClaimJobs(w) PROVE status'[k] # "absent"
    BY <2>2 DEF ClaimJobs, Grant
  <2>3. ASSUME NEW w \in Workers,
               \/ StartJob(w) \/ Heartbeat(w) \/ HeartbeatFails(w) \/ LoseReport(w) \/ Crash(w)
               \/ Complete(w) \/ \E class \in {"transient", "permanent"} : Throw(w, class)
        PROVE  status'[k] # "absent"
    BY <2>3 DEF StartJob, Heartbeat, HeartbeatFails, LoseReport, Crash, Complete, Throw, Succeed, Fail, rows
  <2>4. ASSUME NEW c \in Clerks,
               \/ \E j \in Jobs : ReadForRetry(c, j)
               \/ RetryStaffJob(c) \/ RetryDocumentJob(c) \/ ForgetRetry(c)
        PROVE  status'[k] # "absent"
    BY <2>4 DEF ReadForRetry, RetryStaffJob, RetryDocumentJob, ForgetRetry, Requeue, rows
  <2>5. CASE UNCHANGED vars
    BY <2>5 DEF vars, rows
  <2> QED
    BY <2>1, <2>2, <2>3, <2>4, <2>5 DEF Next
<1>2. ASSUME NEW c \in Clerks, verdict'[c] # NoRead, verdict'[c] # verdict[c]
      PROVE  \E j \in Jobs : status[j] # "absent" /\ verdict'[c] = [job |-> j, status |-> "failed"]
  <2> USE <1>2 DEF IInv, TypeOK, desk
  <2>1. ASSUME NEW d \in Clerks, NEW j \in Jobs, ReadForRetry(d, j)
        PROVE  status[j] # "absent" /\ verdict'[c] = [job |-> j, status |-> "failed"]
    BY <2>1 DEF ReadForRetry
  <2>2. ASSUME NEW d \in Clerks, RetryStaffJob(d) \/ RetryDocumentJob(d) \/ ForgetRetry(d) PROVE FALSE
    BY <2>2 DEF RetryStaffJob, RetryDocumentJob, ForgetRetry
  <2>3. ASSUME NEW j \in Jobs, Enqueue(j) \/ MissBeat(j) \/ BackoffElapses(j) PROVE FALSE
    BY <2>3 DEF Enqueue, MissBeat, BackoffElapses
  <2>4. ASSUME NEW w \in Workers,
               \/ ClaimJobs(w) \/ StartJob(w) \/ Heartbeat(w) \/ HeartbeatFails(w) \/ LoseReport(w)
               \/ Crash(w) \/ Complete(w) \/ \E class \in {"transient", "permanent"} : Throw(w, class)
        PROVE  FALSE
    BY <2>4 DEF ClaimJobs, StartJob, Heartbeat, HeartbeatFails, LoseReport, Crash, Complete, Throw, EndExecution
  <2>5. CASE UNCHANGED vars
    BY <2>5 DEF vars
  <2> QED
    BY <2>1, <2>2, <2>3, <2>4, <2>5 DEF Next
<1> QED
  <2> SUFFICES ASSUME NEW c \in Clerks, verdict'[c] # NoRead PROVE status'[verdict'[c].job] # "absent"
    BY DEF ReadsAreRows
  <2>1. CASE verdict'[c] = verdict[c]
    <3>1. verdict[c].job \in Jobs
      BY <2>1 DEF IInv, TypeOK
    <3> QED
      BY <2>1, <3>1, <1>1 DEF ReadsAreRows
  <2>2. CASE verdict'[c] # verdict[c]
    <3>1. PICK j \in Jobs : status[j] # "absent" /\ verdict'[c] = [job |-> j, status |-> "failed"]
      BY <2>2, <1>2
    <3> QED
      BY <3>1, <1>1
  <2> QED
    BY <2>1, <2>2

-----------------------------------------------------------------------------
(* Each step of the queue is a step of the ledger, or none.                *)

\* A job is requested, a lease runs out, a backoff elapses.
LEMMA TimeStep ==
  ASSUME IInv, NEW j \in Jobs, Enqueue(j) \/ MissBeat(j) \/ BackoffElapses(j)
  PROVE  [Ledger!Next]_(Ledger!ledger)
<1> USE DEF IInv, TypeOK, Status
<1>1. \A w \in Workers : InHand(w)' = InHand(w)
  BY DEF Enqueue, MissBeat, BackoffElapses, workers, InHand
<1>2. CASE Enqueue(j)
  <2>1. Phase(j) = "absent" /\ Phase(j)' = "waiting"
    BY <1>2 DEF Enqueue, Phase
  <2>2. \A k \in Jobs : k # j => Phase(k)' = Phase(k)
    BY <1>2 DEF Enqueue, Phase
  <2>3. \A k \in Jobs : Owners(k)' = Owners(k)
    <3> SUFFICES ASSUME NEW k \in Jobs PROVE Owners(k)' = Owners(k)
      OBVIOUS
    <3>1. CASE k = j
      BY <1>2, <3>1, NobodyOwns, NobodyOwnsNext DEF Enqueue
    <3>2. CASE k # j
      BY <1>1, <1>2, <3>2, OwnersSame DEF Enqueue
    <3> QED
      BY <3>1, <3>2
  <2>4. Ledger!Request(j)
    BY <1>2, <2>1, <2>2, <2>3 DEF Ledger!Request, Enqueue
  <2> QED
    BY <2>4 DEF Ledger!Next
<1>3. CASE MissBeat(j) /\ lease[j] = 1
  <2>1. Phase(j) = "held" /\ Phase(j)' = "waiting"
    BY <1>3 DEF MissBeat, Phase
  <2>2. \A k \in Jobs : k # j => Phase(k)' = Phase(k)
    BY <1>3 DEF MissBeat, Phase
  <2>3. Owners(j)' = {}
    BY <1>3, NobodyOwnsNext DEF MissBeat
  <2>4. \A k \in Jobs : k # j => Owners(k)' = Owners(k)
    BY <1>1, <1>3, OwnersSame DEF MissBeat
  <2>5. Ledger!Lapse(j)
    BY <1>3, <2>1, <2>2, <2>3, <2>4 DEF Ledger!Lapse, MissBeat
  <2> QED
    BY <2>5 DEF Ledger!Next
<1>4. CASE MissBeat(j) /\ lease[j] # 1
  <2>1. lease[j] \in Nat /\ lease[j] > 1
    BY <1>4, BoundsAssumption DEF MissBeat
  <2>2. \A k \in Jobs : Phase(k)' = Phase(k)
    BY <1>4, <2>1 DEF MissBeat, Phase
  <2>3. \A k \in Jobs : Owners(k)' = Owners(k)
    BY <1>1, <1>4, <2>1, OwnersSame DEF MissBeat
  <2> QED
    BY <1>4, <2>2, <2>3, Stutter DEF MissBeat
<1>5. CASE BackoffElapses(j)
  <2>1. \A k \in Jobs : Phase(k)' = Phase(k)
    BY <1>5 DEF BackoffElapses, Phase
  <2>2. \A k \in Jobs : Owners(k)' = Owners(k)
    BY <1>1, <1>5, OwnersSame DEF BackoffElapses
  <2> QED
    BY <1>5, <2>1, <2>2, Stutter DEF BackoffElapses
<1> QED
  BY <1>2, <1>3, <1>4, <1>5

\* A worker is given a batch, or the reply that names it is lost.
LEMMA ClaimStep ==
  ASSUME IInv, NEW w \in Workers, ClaimJobs(w)
  PROVE  [Ledger!Next]_(Ledger!ledger)
<1> USE DEF IInv, TypeOK, Status
<1>1. PICK S \in SUBSET {j \in Jobs : Claimable(j)} :
        /\ Grant(S)
        /\ \/ batch' = [batch EXCEPT ![w] = {[job |-> j, token |-> token'[j]] : j \in S}]
           \/ UNCHANGED batch
  BY DEF ClaimJobs
<1>2. InHand(w) = {}
  BY DEF ClaimJobs, Idle, InHand
<1>3. \A v \in Workers \ {w} : InHand(v)' = InHand(v)
  BY <1>1 DEF ClaimJobs, InHand
<1>4. \A k \in Jobs : Phase(k)' = IF k \in S THEN "held" ELSE Phase(k)
  BY <1>1, BoundsAssumption DEF Grant, Phase
<1>5. \A k \in S : Phase(k) = "waiting" /\ MaxAttempts - attempts[k] > 0
  BY BoundsAssumption DEF Claimable, Lapsed, Phase
<1>6. \A k \in Jobs : attempts'[k] = IF k \in S THEN attempts[k] + 1 ELSE attempts[k]
  BY <1>1 DEF Grant
<1>7. ASSUME NEW k \in S, NEW v \in Workers \ {w} PROVE v \notin Owners(k)'
  <2> SUFFICES ASSUME NEW c \in InHand(v), c.job = k, token'[k] = c.token PROVE FALSE
    BY <1>3 DEF Owners, Holds
  <2>1. c.token <= claims[k] /\ claims[k] \in Nat /\ c.token \in Nat
    BY DEF ClaimsAreMinted, Claim
  <2>2. token'[k] = claims[k] + 1
    BY <1>1 DEF Grant
  <2> QED
    BY <2>1, <2>2
<1>8. ASSUME NEW k \in Jobs, k \notin S PROVE Owners(k)' = Owners(k)
  <2>1. \A v \in Workers : w # v => (v \in Owners(k)' <=> v \in Owners(k))
    BY <1>1, <1>3, <1>8 DEF Owners, Holds, Grant
  <2>2. w \notin Owners(k)
    BY <1>2 DEF Owners
  <2>3. \A c \in InHand(w)' : c.job # k
    <3>1. InHand(w)' = batch'[w]
      BY DEF ClaimJobs, Idle, InHand
    <3> QED
      BY <1>1, <1>8, <3>1 DEF ClaimJobs, Idle
  <2>4. w \notin Owners(k)'
    BY <2>3 DEF Owners
  <2>5. Owners(k) \subseteq Workers /\ Owners(k)' \subseteq Workers
    BY DEF Owners
  <2>6. ASSUME NEW v PROVE v \in Owners(k)' <=> v \in Owners(k)
    BY <2>1, <2>2, <2>4, <2>5
  <2> QED
    BY <2>6
<1>9. CASE batch' = [batch EXCEPT ![w] = {[job |-> j, token |-> token'[j]] : j \in S}]
  <2>1. ASSUME NEW k \in S PROVE Owners(k)' = {w}
    <3>0. PICK c : c = [job |-> k, token |-> token'[k]]
      OBVIOUS
    <3>1. c \in InHand(w)'
      BY <1>9, <3>0 DEF ClaimJobs, Idle, InHand, NoClaim
    <3>2. c \in Claim /\ status'[k] = "running" /\ lease'[k] > 0
      BY <1>1, <3>0, BoundsAssumption DEF Grant, Claim
    <3>3. Holds(c)'
      BY <3>0, <3>2 DEF Holds
    <3>4. w \in Owners(k)'
      BY <3>0, <3>1, <3>3 DEF Owners
    <3>5. Owners(k)' \subseteq Workers
      BY DEF Owners
    <3> QED
      BY <1>7, <3>4, <3>5
  <2>2. Ledger!Take(S, {w})
    BY <1>4, <1>5, <1>6, <1>8, <2>1, BoundsAssumption DEF Ledger!Take
  <2> QED
    BY <2>2 DEF Ledger!Next
<1>10. CASE UNCHANGED batch
  <2>1. InHand(w)' = {}
    BY <1>10 DEF ClaimJobs, Idle, InHand
  <2>2. ASSUME NEW k \in S PROVE Owners(k)' = {}
    <3>1. w \notin Owners(k)' /\ Owners(k)' \subseteq Workers
      BY <2>1 DEF Owners
    <3> QED
      BY <1>7, <3>1
  <2>3. Ledger!Take(S, {})
    BY <1>4, <1>5, <1>6, <1>8, <2>2, BoundsAssumption DEF Ledger!Take
  <2> QED
    BY <2>3 DEF Ledger!Next
<1> QED
  BY <1>1, <1>9, <1>10

\* A worker that forgets some of what it has in hand, and writes nothing.
LEMMA Forgets ==
  ASSUME IInv, NEW w \in Workers, UNCHANGED rows,
         \A v \in Workers \ {w} : InHand(v)' = InHand(v),
         InHand(w)' \subseteq InHand(w)
  PROVE  [Ledger!Next]_(Ledger!ledger)
<1> DEFINE S == {k \in Jobs : w \in Owners(k) /\ \A c \in InHand(w)' : ~(c.job = k /\ Holds(c))}
<1>1. \A k \in Jobs : Phase(k)' = Phase(k)
  BY DEF rows, Phase
<1>2. \A c : Holds(c)' <=> Holds(c)
  BY DEF rows, Holds
<1>3. ASSUME NEW k \in Jobs
      PROVE  Owners(k)' = IF k \in S THEN Owners(k) \ {w} ELSE Owners(k)
  <2>1. \A v \in Workers \ {w} : v \in Owners(k)' <=> v \in Owners(k)
    BY <1>2 DEF Owners
  <2>2. w \in Owners(k)' <=> w \in Owners(k) /\ k \notin S
    BY <1>2 DEF Owners
  <2>3. Owners(k) \subseteq Workers /\ Owners(k)' \subseteq Workers
    BY DEF Owners
  <2> HIDE DEF S
  <2>4. ASSUME NEW v PROVE v \in Owners(k)' <=> v \in (IF k \in S THEN Owners(k) \ {w} ELSE Owners(k))
    BY <2>1, <2>2, <2>3
  <2> QED
    BY <2>4
<1>4. S \subseteq Jobs
  OBVIOUS
<1> HIDE DEF S
<1>5. Ledger!Abandon(w, S)
  BY <1>1, <1>3 DEF Ledger!Abandon, rows
<1> QED
  BY <1>4, <1>5 DEF Ledger!Next

\* What an execution that ends leaves in its worker's hands.
LEMMA EndsInHand ==
  ASSUME IInv, NEW w \in Workers, EndExecution(w)
  PROVE  /\ \A v \in Workers \ {w} : InHand(v)' = InHand(v)
         /\ InHand(w)' \subseteq InHand(w)
BY DEF IInv, TypeOK, EndExecution, InHand

\* The worker that holds the job under its lease reports on it.
LEMMA ReportStep ==
  ASSUME IInv, NEW w \in Workers, Holds(current[w]), EndExecution(w),
         \/ Succeed(current[w].job)
         \/ \E class \in {"transient", "permanent"} : Fail(current[w].job, class)
  PROVE  [Ledger!Next]_(Ledger!ledger)
<1> USE DEF IInv, TypeOK, Status
<1>0. PICK j \in Jobs : j = current[w].job
  BY DEF Holds, Claim
<1>1. status[j] = "running" /\ lease[j] > 0 /\ current[w] # NoClaim
  BY <1>0 DEF Holds, Claim, NoClaim, NoLease, ClaimsAreMinted, LeaseShape
<1>2. Phase(j) = "held"
  BY <1>1 DEF Phase
<1>3. w \in Owners(j)
  BY <1>0, <1>1 DEF Owners, InHand
<1>4. status'[j] # "running" /\ UNCHANGED attempts
  BY <1>0 DEF Succeed, Fail
<1>5. Owners(j)' = {}
  BY <1>1, <1>4, NobodyOwnsNext
<1>6. \A k \in Jobs : k # j => status'[k] = status[k] /\ token'[k] = token[k] /\ lease'[k] = lease[k]
  BY <1>0 DEF Succeed, Fail, Release
<1>7. \A k \in Jobs : k # j => Phase(k)' = Phase(k)
  BY <1>6 DEF Phase
<1>8. ASSUME NEW k \in Jobs, k # j PROVE Owners(k)' = Owners(k)
  <2>1. \A v \in Workers \ {w} : InHand(v)' = InHand(v)
    BY EndsInHand
  <2>2. \A c : c.job = k => (c \in InHand(w)' <=> c \in InHand(w))
    BY <1>0, <1>8 DEF EndExecution, InHand
  <2>3. \A c : c.job = k => (Holds(c)' <=> Holds(c))
    BY <1>6, <1>8 DEF Holds
  <2>4. ASSUME NEW v PROVE v \in Owners(k)' <=> v \in Owners(k)
    BY <2>1, <2>2, <2>3 DEF Owners
  <2> QED
    BY <2>4
<1>9. \/ Phase(j)' \in {"succeeded", "failed"}
      \/ Phase(j)' = "waiting" /\ MaxAttempts - attempts[j] > 0
  <2>1. CASE Succeed(j)
    BY <2>1 DEF Succeed, Phase
  <2>2. ASSUME NEW class \in {"transient", "permanent"}, Fail(j, class)
        PROVE  \/ Phase(j)' \in {"succeeded", "failed"}
               \/ Phase(j)' = "waiting" /\ MaxAttempts - attempts[j] > 0
    <3>1. CASE class = "permanent" \/ attempts[j] >= MaxAttempts
      BY <2>2, <3>1 DEF Fail, Phase
    <3>2. CASE ~(class = "permanent" \/ attempts[j] >= MaxAttempts)
      <4>1. status'[j] = "retrying"
        BY <2>2, <3>2 DEF Fail
      <4>2. attempts[j] \in Nat /\ MaxAttempts \in Nat /\ attempts[j] < MaxAttempts
        BY <3>2, BoundsAssumption
      <4> QED
        BY <4>1, <4>2 DEF Phase
    <3> QED
      BY <3>1, <3>2
  <2> QED
    BY <1>0, <2>1, <2>2
<1>10. Ledger!Finish(j)
  <2>1. /\ [k \in Jobs |-> Phase(k)]' = [[k \in Jobs |-> Phase(k)] EXCEPT ![j] = Phase(j)']
        /\ [k \in Jobs |-> Owners(k)]' = [[k \in Jobs |-> Owners(k)] EXCEPT ![j] = {}]
    BY <1>1, <1>5, <1>7, <1>8
  <2> QED
    BY <1>1, <1>2, <1>3, <1>4, <1>9, <2>1 DEF Ledger!Finish
<1> QED
  BY <1>10 DEF Ledger!Next

\* Starting a job, beating, ending an execution, crashing.
LEMMA WorkerStep ==
  ASSUME IInv, NEW w \in Workers,
         \/ StartJob(w) \/ Heartbeat(w) \/ HeartbeatFails(w) \/ Complete(w) \/ LoseReport(w)
         \/ Crash(w) \/ \E class \in {"transient", "permanent"} : Throw(w, class)
  PROVE  [Ledger!Next]_(Ledger!ledger)
<1> USE DEF IInv, TypeOK
<1>1. CASE StartJob(w)
  <2>1. PICK c \in batch[w] : /\ current' = [current EXCEPT ![w] = c]
                              /\ batch' = [batch EXCEPT ![w] = @ \ {c}]
    BY <1>1 DEF StartJob
  <2>2. c # NoClaim
    BY <2>1 DEF ClaimsAreMinted, InHand, NoClaim, NoLease
  <2>3. \A v \in Workers : InHand(v)' \subseteq InHand(v)
    BY <1>1, <2>1, <2>2 DEF StartJob, InHand
  <2>4. \A v \in Workers \ {w} : InHand(v)' = InHand(v)
    BY <2>1 DEF InHand
  <2> QED
    BY <1>1, <2>3, <2>4, Forgets DEF StartJob
<1>2. CASE Heartbeat(w) /\ Holds(current[w])
  <2>1. PICK j \in Jobs : j = current[w].job
    BY <1>2 DEF Holds, Claim
  <2>2. /\ lease' = [lease EXCEPT ![j] = LeaseTerm]
        /\ lease[j] > 0
        /\ LeaseTerm > 0
        /\ UNCHANGED <<status, attempts, token, batch, current>>
    BY <1>2, <2>1, BoundsAssumption DEF Heartbeat, Holds
  <2>3. \A k \in Jobs : lease'[k] > 0 <=> lease[k] > 0
    BY <2>2
  <2>4. \A k \in Jobs : Phase(k)' = Phase(k)
    BY <2>2, <2>3 DEF Phase
  <2>5. \A v \in Workers : InHand(v)' = InHand(v)
    BY <2>2 DEF InHand
  <2>6. \A k \in Jobs : Owners(k)' = Owners(k)
    BY <2>2, <2>3, <2>5, OwnersSame
  <2> QED
    BY <2>2, <2>4, <2>6, Stutter
<1>3. CASE HeartbeatFails(w) \/ (Heartbeat(w) /\ ~Holds(current[w]))
  <2>1. UNCHANGED rows /\ UNCHANGED <<batch, current>>
    BY <1>3 DEF HeartbeatFails, Heartbeat, rows
  <2>2. \A v \in Workers : InHand(v)' = InHand(v)
    BY <2>1 DEF InHand
  <2> QED
    BY <2>1, <2>2, Forgets
<1>4. CASE Crash(w)
  <2>1. InHand(w)' = {}
    BY <1>4 DEF Crash, InHand
  <2>2. \A v \in Workers \ {w} : InHand(v)' = InHand(v)
    BY <1>4 DEF Crash, InHand
  <2> QED
    BY <1>4, <2>1, <2>2, Forgets DEF Crash
<1>5. CASE LoseReport(w)
  BY <1>5, EndsInHand, Forgets DEF LoseReport
<1>6. CASE Complete(w)
  <2>1. CASE Holds(current[w])
    BY <1>6, <2>1, ReportStep DEF Complete
  <2>2. CASE ~Holds(current[w])
    BY <1>6, <2>2, EndsInHand, Forgets DEF Complete
  <2> QED
    BY <2>1, <2>2
<1>7. ASSUME NEW class \in {"transient", "permanent"}, Throw(w, class)
      PROVE  [Ledger!Next]_(Ledger!ledger)
  <2>1. CASE Holds(current[w])
    BY <1>7, <2>1, ReportStep DEF Throw
  <2>2. CASE ~Holds(current[w])
    BY <1>7, <2>2, EndsInHand, Forgets DEF Throw
  <2> QED
    BY <2>1, <2>2
<1> QED
  BY <1>1, <1>2, <1>3, <1>4, <1>5, <1>6, <1>7

\* A clerk puts a job back: the ledger's retry.
LEMMA RequeueStep ==
  ASSUME IInv, NEW j \in Jobs, status[j] # "absent", Phase(j) = "held" => j \in DocumentJobs,
         Requeue(j), UNCHANGED workers,
         \A k \in Jobs : k # j => token'[k] = token[k] /\ lease'[k] = lease[k]
  PROVE  [Ledger!Next]_(Ledger!ledger)
<1> USE DEF IInv, TypeOK, Status
<1>1. Phase(j) # "absent" /\ Phase(j)' = "waiting"
  BY DEF Requeue, Phase
<1>2. \A k \in Jobs : k # j => status'[k] = status[k] /\ attempts'[k] = attempts[k]
  BY DEF Requeue
<1>3. \A k \in Jobs : k # j => Phase(k)' = Phase(k)
  BY <1>2 DEF Phase
<1>4. \A v \in Workers : InHand(v)' = InHand(v)
  BY DEF workers, InHand
<1>5. \A k \in Jobs : k # j => Owners(k)' = Owners(k)
  BY <1>2, <1>4, OwnersSame
<1>6. Owners(j)' = {}
  BY NobodyOwnsNext DEF Requeue
<1>7. attempts'[j] = 0
  BY DEF Requeue
<1>8. Ledger!Retry(j)
  <2>1. MaxAttempts - attempts'[j] = MaxAttempts
    BY <1>7, BoundsAssumption
  <2>2. [k \in Jobs |-> MaxAttempts - attempts[k]]'
          = [[k \in Jobs |-> MaxAttempts - attempts[k]] EXCEPT ![j] = MaxAttempts]
    BY <1>2, <2>1
  <2>3. /\ [k \in Jobs |-> Phase(k)]' = [[k \in Jobs |-> Phase(k)] EXCEPT ![j] = "waiting"]
        /\ [k \in Jobs |-> Owners(k)]' = [[k \in Jobs |-> Owners(k)] EXCEPT ![j] = {}]
    BY <1>1, <1>3, <1>5, <1>6
  <2> QED
    BY <1>1, <2>2, <2>3 DEF Ledger!Retry
<1> QED
  BY <1>8 DEF Ledger!Next

LEMMA ClerkStep ==
  ASSUME IInv, ReadsAreRows, NEW c \in Clerks,
         \/ \E j \in Jobs : ReadForRetry(c, j)
         \/ RetryStaffJob(c) \/ RetryDocumentJob(c) \/ ForgetRetry(c)
  PROVE  [Ledger!Next]_(Ledger!ledger)
<1> USE DEF IInv, TypeOK, Status
<1>1. CASE UNCHANGED <<rows, workers>>
  <2>1. \A v \in Workers : InHand(v)' = InHand(v)
    BY <1>1 DEF workers, InHand
  <2>2. \A k \in Jobs : Phase(k)' = Phase(k)
    BY <1>1 DEF rows, Phase
  <2>3. \A k \in Jobs : Owners(k)' = Owners(k)
    BY <1>1, <2>1, OwnersSame DEF rows
  <2> QED
    BY <1>1, <2>2, <2>3, Stutter DEF rows
<1>2. ASSUME NEW j \in Jobs, ReadForRetry(c, j) PROVE UNCHANGED <<rows, workers>>
  BY <1>2 DEF ReadForRetry
<1>3. ASSUME verdict[c] # NoRead
      PROVE  verdict[c].job \in Jobs /\ status[verdict[c].job] # "absent"
  BY <1>3 DEF ReadsAreRows
<1>4. CASE RetryStaffJob(c) /\ token[verdict[c].job] = NoLease
  <2>1. PICK j \in Jobs : j = verdict[c].job
    BY <1>3, <1>4 DEF RetryStaffJob
  <2>2. status[j] # "absent" /\ status[j] # "running"
    BY <1>3, <1>4, <2>1 DEF RetryStaffJob, LeaseShape
  <2>3. Phase(j) # "held"
    BY <2>2 DEF Phase
  <2>4. Requeue(j) /\ UNCHANGED <<token, lease>> /\ UNCHANGED workers
    BY <1>4, <2>1 DEF RetryStaffJob
  <2> QED
    BY <2>2, <2>3, <2>4, RequeueStep
<1>5. CASE RetryStaffJob(c) /\ token[verdict[c].job] # NoLease
  BY <1>1, <1>5 DEF RetryStaffJob
<1>6. CASE RetryDocumentJob(c)
  <2>1. PICK j \in Jobs : j = verdict[c].job
    BY <1>3, <1>6 DEF RetryDocumentJob
  <2>2. /\ status[j] # "absent" /\ j \in DocumentJobs
        /\ Requeue(j) /\ Release(j) /\ UNCHANGED workers
    BY <1>3, <1>6, <2>1 DEF RetryDocumentJob
  <2> QED
    BY <2>2, RequeueStep DEF Release
<1>7. CASE ForgetRetry(c)
  BY <1>1, <1>7 DEF ForgetRetry
<1> QED
  BY <1>1, <1>2, <1>4, <1>5, <1>6, <1>7

-----------------------------------------------------------------------------
\* The queue, with its tokens, lapsing leases, lost replies, crashed workers
\* and stale retries, implements the ledger.
THEOREM Implementation == Spec => ImplementsLedger
<1>1. Init => ReadsAreRows
  BY DEF Init, ReadsAreRows
<1>2. IInv /\ ReadsAreRows /\ [Next]_vars => [Ledger!Next]_(Ledger!ledger)
  <2> SUFFICES ASSUME IInv, ReadsAreRows, [Next]_vars PROVE [Ledger!Next]_(Ledger!ledger)
    OBVIOUS
  <2>1. CASE \E j \in Jobs : Enqueue(j) \/ MissBeat(j) \/ BackoffElapses(j)
    BY <2>1, TimeStep
  <2>2. CASE \E w \in Workers : ClaimJobs(w)
    BY <2>2, ClaimStep
  <2>3. ASSUME NEW w \in Workers,
               \/ StartJob(w) \/ Heartbeat(w) \/ HeartbeatFails(w) \/ Complete(w) \/ LoseReport(w)
               \/ Crash(w) \/ \E class \in {"transient", "permanent"} : Throw(w, class)
        PROVE  [Ledger!Next]_(Ledger!ledger)
    BY <2>3, WorkerStep
  <2>4. ASSUME NEW c \in Clerks,
               \/ \E j \in Jobs : ReadForRetry(c, j)
               \/ RetryStaffJob(c) \/ RetryDocumentJob(c) \/ ForgetRetry(c)
        PROVE  [Ledger!Next]_(Ledger!ledger)
    BY <2>4, ClerkStep
  <2>5. CASE UNCHANGED vars
    <3>1. \A k \in Jobs : Phase(k)' = Phase(k) /\ Owners(k)' = Owners(k)
      BY <2>5 DEF vars, rows, workers, Phase, Owners, InHand, Holds
    <3> QED
      BY <2>5, <3>1, Stutter DEF vars, rows
  <2> QED
    BY <2>1, <2>2, <2>3, <2>4, <2>5 DEF Next
<1>3. Spec => []ReadsAreRows
  BY <1>1, ReadsStep, Invariance, PTL DEF Spec
<1> QED
  BY <1>2, <1>3, InitLedger, Invariance, PTL DEF Spec, ImplementsLedger, Ledger!Spec
=============================================================================
