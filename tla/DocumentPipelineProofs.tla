----------------------- MODULE DocumentPipelineProofs -----------------------
(***************************************************************************)
(* What holds of a document for any number of workers, reviewers, retry    *)
(* requests, recovery cycles and extraction runs.                          *)
(***************************************************************************)
EXTENDS DocumentPipeline, BackgroundJobsProofs

\* What the invariant reads.
read == <<automation, review, decision, runs, confirms, exec, reviewer>>

LEMMA InitDocIInv == DocInit => DocIInv
BY DocBoundsAssumption DEF DocInit, DocIInv, PlacesOK, FindingsOK, CommitsConfirm, ApprovedByHuman, Stopped, Away, RunStatus,
   ExecPlaces, Outcome, DeskPlaces

\* A step that changes nothing the invariant reads preserves it.
LEMMA Untouched == DocIInv /\ UNCHANGED read => DocIInv'
BY DEF DocIInv, PlacesOK, FindingsOK, CommitsConfirm, ApprovedByHuman, Confirmed, read

\* So does one that moves an execution to a place where it has nothing to
\* write to the document, whatever it does to automation short of verifying.
LEMMA ExecutorMoves ==
  ASSUME NEW w \in Workers, NEW p \in ExecPlaces, NEW o \in Outcome, DocIInv,
         Step(w, p, o),
         p = "task"  => o \in {"review", "conflict", "recapture"},
         p = "patch" => o \in {"review", "conflict", "recapture"} \/ (o = "verified" /\ Confirmed),
         automation' # "VERIFIED" \/ automation' = automation,
         UNCHANGED <<review, decision, runs, confirms, reviewer>>
  PROVE  DocIInv'
<1> USE DEF DocIInv
<1>1. exec' = [exec EXCEPT ![w] = [at |-> p, outcome |-> o]]
  BY DEF Step, At
<1>2. PlacesOK'
  BY <1>1 DEF PlacesOK
<1>3. Confirmed' <=> Confirmed
  BY DEF Confirmed
<1>4. FindingsOK'
  BY <1>1, <1>3 DEF FindingsOK, PlacesOK
<1>5. CommitsConfirm' /\ ApprovedByHuman'
  BY DEF CommitsConfirm, ApprovedByHuman
<1> QED
  BY <1>2, <1>4, <1>5

\* An appended run is not a confirmed one, and confirms nothing.
LEMMA RunAppended ==
  ASSUME DocIInv, AppendRun
  PROVE  /\ runs' \in [Runs -> RunStatus] /\ CommitsConfirm'
         /\ \A x \in Runs : runs'[x] = "confirmed" <=> runs[x] = "confirmed"
<1>1. PICK x \in Runs : runs[x] = "absent" /\ runs' = [runs EXCEPT ![x] = "pending_review"]
  BY DEF AppendRun
<1> QED
  BY <1>1 DEF AppendRun, DocIInv, PlacesOK, CommitsConfirm, RunStatus

\* A step of the executor preserves the invariant.
LEMMA ExecutorStep ==
  ASSUME NEW w \in Workers, DocIInv, Executor(w)
  PROVE  DocIInv'
<1> USE DEF document, evidence, requests, QueueUntouched, ExecPlaces, Outcome
<1>1. CASE Starts(w)
  BY <1>1, ExecutorMoves DEF Starts
<1>2. CASE ReadsDocument(w)
  BY <1>2, ExecutorMoves DEF ReadsDocument, WriteAutomation
<1>3. CASE ReadsPrior(w)
  <2>1. CASE Inspects(w)
    BY <1>3, <2>1, ExecutorMoves DEF ReadsPrior, Inspects
  <2>2. ASSUME NEW x \in Runs, runs[x] = "confirmed", Step(w, "patch", "verified")
        PROVE  DocIInv'
    <3>1. Confirmed
      BY <2>2 DEF Confirmed
    <3> QED
      BY <1>3, <2>2, <3>1, ExecutorMoves DEF ReadsPrior
  <2>3. CASE Step(w, "task", "review")
    BY <1>3, <2>3, ExecutorMoves DEF ReadsPrior
  <2> QED
    BY <1>3, <2>1, <2>2, <2>3 DEF ReadsPrior
<1>4. CASE Persists(w)
  <2>1. PICK o \in {"review", "conflict"} : Step(w, "task", o)
    BY <1>4 DEF Persists
  <2>2. exec' = [exec EXCEPT ![w] = [at |-> "task", outcome |-> o]]
    BY <2>1 DEF Step, At
  <2>3. /\ runs' \in [Runs -> RunStatus] /\ CommitsConfirm'
        /\ \A x \in Runs : runs'[x] = "confirmed" <=> runs[x] = "confirmed"
    BY <1>4, RunAppended DEF Persists
  <2>4. PlacesOK'
    BY <1>4, <2>2, <2>3 DEF Persists, AppendRun, DocIInv, PlacesOK
  <2>5. FindingsOK'
    BY <1>4, <2>2, <2>3 DEF DocIInv, FindingsOK, Confirmed, PlacesOK
  <2>6. ApprovedByHuman'
    BY <1>4, <2>3 DEF Persists, DocIInv, ApprovedByHuman
  <2> QED
    BY <2>3, <2>4, <2>5, <2>6 DEF DocIInv
<1>5. CASE OpensTask(w)
  <2>1. exec[w].outcome \in {"review", "conflict", "recapture"}
    BY <1>5 DEF OpensTask, DocIInv, FindingsOK
  <2> QED
    BY <1>5, <2>1, ExecutorMoves DEF OpensTask
<1>6. CASE Patches(w)
  <2> DEFINE o == exec[w].outcome
  <2>1. /\ automation' = AutomationFor[o]
        /\ review' = ReviewFor[o]
        /\ exec' = [exec EXCEPT ![w] = [at |-> IF o = "recapture" THEN "request" ELSE "done", outcome |-> o]]
        /\ UNCHANGED <<decision, runs, confirms, reviewer>>
    BY <1>6 DEF Patches, WriteReview, Step, At
  <2>2. o \in {"review", "conflict", "recapture"} \/ (o = "verified" /\ Confirmed)
    BY <1>6 DEF Patches, DocIInv, FindingsOK
  <2>3. PlacesOK'
    BY <2>1, <2>2 DEF DocIInv, PlacesOK
  <2>4. FindingsOK'
    BY <2>1 DEF DocIInv, FindingsOK, PlacesOK, Confirmed
  <2>5. CommitsConfirm'
    BY <2>1 DEF DocIInv, CommitsConfirm
  <2>6. ApprovedByHuman'
    BY <2>1, <2>2 DEF ApprovedByHuman, Confirmed, AutomationFor, ReviewFor
  <2> QED
    BY <2>3, <2>4, <2>5, <2>6 DEF DocIInv
<1>7. CASE RejectsRequest(w)
  BY <1>7, ExecutorMoves DEF RejectsRequest
<1>8. CASE Errs(w)
  BY <1>8, ExecutorMoves DEF Errs
<1>9. CASE RecordsFailure(w) \/ RecordsFailureTask(w)
  <2>1. exec[w].outcome \in Outcome
    BY DEF DocIInv, PlacesOK
  <2> QED
    BY <1>9, <2>1, ExecutorMoves DEF RecordsFailure, RecordsFailureTask, WriteAutomation
<1>10. CASE Returns(w) \/ WorkerCrash(w)
  <2>1. Step(w, "none", "none")
    BY <1>10 DEF Returns, WorkerCrash, Step, Stopped, At
  <2> QED
    BY <1>10, <2>1, ExecutorMoves DEF Returns, WorkerCrash
<1> QED
  BY <1>1, <1>2, <1>3, <1>4, <1>5, <1>6, <1>7, <1>8, <1>9, <1>10 DEF Executor

\* A step of a person at the review endpoints preserves the invariant.
LEMMA ReviewStep ==
  ASSUME NEW r \in Reviewers, DocIInv, Reviewing(r)
  PROVE  DocIInv'
<1> USE DocBoundsAssumption DEF document, evidence, OthersUntouched, DocIInv, DeskPlaces, Decided
<1>1. ASSUME NEW v \in Decided, Decide(r, v) PROVE DocIInv'
  <2>1. /\ reviewer' = [reviewer EXCEPT ![r] = [at |-> "request", run |-> 0, verdict |-> v]]
        /\ decision = "none" /\ decision' = v /\ review' = v
        /\ automation' = (IF v = "approved" THEN "VERIFIED" ELSE "RECAPTURE_REQUIRED")
        /\ UNCHANGED <<runs, confirms, exec>>
    BY <1>1 DEF Decide, Sits, WriteReview
  <2>2. PlacesOK'
    BY <2>1 DEF PlacesOK, Decided
  <2>3. FindingsOK' /\ CommitsConfirm'
    BY <2>1 DEF FindingsOK, CommitsConfirm, Confirmed
  <2>4. ApprovedByHuman'
    BY <2>1 DEF ApprovedByHuman, Decided
  <2> QED
    BY <2>2, <2>3, <2>4
<1>2. ASSUME NEW p \in {"task", "idle"}, NEW v \in {"none"} \cup Decided, Sits(r, p, 0, v),
             UNCHANGED <<automation, review, decision, runs, confirms, exec>>
      PROVE  DocIInv'
  BY <1>2 DEF Sits, PlacesOK, FindingsOK, CommitsConfirm, ApprovedByHuman, Confirmed
<1>3. CASE DecideRequest(r) \/ DecideTask(r) \/ ReviewerDies(r)
  <2>1. reviewer[r].verdict \in {"none"} \cup Decided
    BY DEF PlacesOK
  <2>2. CASE Sits(r, "task", 0, reviewer[r].verdict)
    BY <1>2, <1>3, <2>1, <2>2 DEF DecideRequest, DecideTask, ReviewerDies
  <2>3. CASE Sits(r, "idle", 0, "none")
    BY <1>2, <1>3, <2>3 DEF DecideRequest, DecideTask, ReviewerDies
  <2> QED
    BY <1>3, <2>2, <2>3 DEF DecideRequest, DecideTask, ReviewerDies
<1>4. ASSUME NEW x \in Runs, ClaimRun(r, x) PROVE DocIInv'
  <2>1. PICK p \in {"relabel", "commit"} :
          reviewer' = [reviewer EXCEPT ![r] = [at |-> p, run |-> x, verdict |-> "none"]]
    BY <1>4 DEF ClaimRun, Sits
  <2>2. /\ runs[x] \in {"pending_review", "stale"}
        /\ runs' = [runs EXCEPT ![x] = "reviewing"]
        /\ UNCHANGED <<automation, review, decision, confirms, exec>>
    BY <1>4 DEF ClaimRun
  <2>3. PlacesOK'
    <3>1. x \in 0..MaxRuns
      BY DocBoundsAssumption DEF Runs
    <3>2. reviewer' \in [Reviewers -> [at : DeskPlaces, run : 0..MaxRuns, verdict : {"none"} \cup Decided]]
      BY <2>1, <3>1 DEF PlacesOK
    <3>3. \A q \in Reviewers : reviewer'[q].at \in {"relabel", "commit"} => reviewer'[q].run \in Runs
      BY <2>1 DEF PlacesOK
    <3> QED
      BY <2>2, <3>2, <3>3 DEF PlacesOK, RunStatus
  <2>4. \A y \in Runs : runs'[y] = "confirmed" <=> runs[y] = "confirmed"
    BY <2>2 DEF PlacesOK
  <2> QED
    BY <2>2, <2>3, <2>4 DEF FindingsOK, CommitsConfirm, ApprovedByHuman, Confirmed
<1>5. CASE Relabel(r)
  <2>1. /\ reviewer[r].at = "relabel"
        /\ reviewer' = [reviewer EXCEPT ![r] = [at |-> "commit", run |-> reviewer[r].run, verdict |-> "none"]]
        /\ review' = "under_review"
        /\ UNCHANGED <<automation, decision, runs, confirms, exec>>
    BY <1>5 DEF Relabel, Sits, WriteReview
  <2>2. PlacesOK'
    <3>1. reviewer[r].run \in 0..MaxRuns /\ reviewer[r].run \in Runs
      BY <2>1 DEF PlacesOK
    <3>2. reviewer' \in [Reviewers -> [at : DeskPlaces, run : 0..MaxRuns, verdict : {"none"} \cup Decided]]
      BY <2>1, <3>1 DEF PlacesOK
    <3>3. \A q \in Reviewers : reviewer'[q].at \in {"relabel", "commit"} => reviewer'[q].run \in Runs
      BY <2>1, <3>1 DEF PlacesOK
    <3> QED
      BY <2>1, <3>2, <3>3 DEF PlacesOK
  <2> QED
    BY <2>1, <2>2 DEF FindingsOK, CommitsConfirm, ApprovedByHuman, Confirmed
<1>6. CASE Commit(r)
  <2> DEFINE x == reviewer[r].run
  <2>1. /\ reviewer[r].at = "commit" /\ runs[x] \in {"reviewing", "stale"}
        /\ runs' = [runs EXCEPT ![x] = "confirmed"]
        /\ confirms' = [confirms EXCEPT ![x] = @ + 1]
        /\ decision' = "approved" /\ UNCHANGED exec
        /\ reviewer' = [reviewer EXCEPT ![r] = [at |-> "idle", run |-> 0, verdict |-> "none"]]
    BY <1>6 DEF Commit, Available, Sits
  <2>2. x \in Runs
    BY <2>1 DEF PlacesOK
  <2>3. PlacesOK'
    <3>1. reviewer' \in [Reviewers -> [at : DeskPlaces, run : 0..MaxRuns, verdict : {"none"} \cup Decided]]
      BY <2>1 DEF PlacesOK
    <3>2. \A q \in Reviewers : reviewer'[q].at \in {"relabel", "commit"} => reviewer'[q].run \in Runs
      BY <2>1 DEF PlacesOK
    <3> QED
      BY <2>1, <2>2, <3>1, <3>2 DEF PlacesOK, RunStatus
  <2>4. CommitsConfirm'
    BY <2>1, <2>2 DEF PlacesOK, CommitsConfirm
  <2>5. FindingsOK' /\ ApprovedByHuman'
    BY <2>1, <2>2 DEF PlacesOK, FindingsOK, ApprovedByHuman, Confirmed
  <2> QED
    BY <2>3, <2>4, <2>5
<1>7. CASE ReleaseRun(r)
  <2> DEFINE x == reviewer[r].run
  <2>1. x \in Runs /\ Sits(r, "idle", 0, "none")
    BY <1>7 DEF ReleaseRun, PlacesOK
  <2>2. CASE UNCHANGED runs
    <3>1. UNCHANGED <<automation, review, decision, runs, confirms, exec>>
      BY <1>7, <2>2 DEF ReleaseRun
    <3> QED
      BY <1>2, <2>1, <3>1
  <2>3. CASE runs[x] \in {"reviewing", "stale"} /\ runs' = [runs EXCEPT ![x] = "pending_review"]
    <3>1. UNCHANGED <<automation, review, decision, confirms, exec>>
      BY <1>7 DEF ReleaseRun
    <3>2. PlacesOK'
      <4>1. reviewer' \in [Reviewers -> [at : DeskPlaces, run : 0..MaxRuns, verdict : {"none"} \cup Decided]]
        BY <2>1 DEF PlacesOK, Sits
      <4>2. \A q \in Reviewers : reviewer'[q].at \in {"relabel", "commit"} => reviewer'[q].run \in Runs
        BY <2>1 DEF PlacesOK, Sits
      <4> QED
        BY <2>1, <2>3, <3>1, <4>1, <4>2 DEF PlacesOK, RunStatus
    <3>3. \A y \in Runs : runs'[y] = "confirmed" <=> runs[y] = "confirmed"
      BY <2>1, <2>3 DEF PlacesOK
    <3> QED
      BY <3>1, <3>2, <3>3 DEF FindingsOK, CommitsConfirm, ApprovedByHuman, Confirmed
  <2> QED
    BY <1>7, <2>2, <2>3 DEF ReleaseRun
<1> QED
  BY <1>1, <1>3, <1>4, <1>5, <1>6, <1>7 DEF Reviewing

\* Every step preserves the invariant.
LEMMA DocStep == DocIInv /\ [DocNext]_docVars => DocIInv'
<1> SUFFICES ASSUME DocIInv, [DocNext]_docVars PROVE DocIInv'
  OBVIOUS
<1> USE DEF document, evidence, requests
<1>1. ASSUME automation' = "VERIFIED" => automation = "VERIFIED",
             UNCHANGED <<review, decision, runs, confirms, exec, reviewer>>
      PROVE  DocIInv'
  BY <1>1 DEF DocIInv, PlacesOK, FindingsOK, CommitsConfirm, ApprovedByHuman, Confirmed
<1>2. CASE Upload
  BY <1>1, <1>2 DEF Upload, InsertDocument, UploadEnqueues, UploadMarks, UploadDefers, UploadReceives,
                    UploadDies, WriteAutomation
<1>3. CASE QueueSteps
  BY <1>1, <1>3 DEF QueueSteps
<1>4. ASSUME NEW h \in Hosts, Recovery(h) PROVE DocIInv'
  BY <1>1, <1>4 DEF Recovery, RecoveryReads, RecoveryEnqueues, RecoveryMarks, RecoveryFails, WriteAutomation
<1>5. ASSUME NEW c \in Clerks, Retry(c) PROVE DocIInv'
  BY <1>1, <1>5 DEF Retry, RetryReadsDocument, RetryReadsJob, RetryResetsJob, RetryMarks, RetryOpensTask,
                    RetryDies, WriteAutomation
<1>6. CASE ManualOcr
  <2>1. /\ runs' \in [Runs -> RunStatus] /\ CommitsConfirm'
        /\ \A x \in Runs : runs'[x] = "confirmed" <=> runs[x] = "confirmed"
    BY <1>6, RunAppended DEF ManualOcr
  <2> QED
    BY <1>6, <2>1 DEF ManualOcr, AppendRun, OthersUntouched, DocIInv, PlacesOK, FindingsOK, ApprovedByHuman, Confirmed
<1>7. ASSUME NEW x \in Runs, RunAges(x) PROVE DocIInv'
  <2>1. PICK s \in {"stale", "expired"} : runs[x] # "confirmed" /\ runs' = [runs EXCEPT ![x] = s]
    BY <1>7 DEF RunAges
  <2>2. UNCHANGED <<automation, review, decision, confirms, exec, reviewer>>
    BY <1>7 DEF RunAges, OthersUntouched
  <2>3. \A y \in Runs : runs'[y] = "confirmed" <=> runs[y] = "confirmed"
    BY <2>1 DEF DocIInv, PlacesOK
  <2>4. PlacesOK'
    BY <2>1, <2>2 DEF DocIInv, PlacesOK, RunStatus
  <2> QED
    BY <2>2, <2>3, <2>4 DEF DocIInv, FindingsOK, CommitsConfirm, ApprovedByHuman, Confirmed
<1>8. CASE Archive
  BY <1>1, <1>8 DEF Archive, OthersUntouched
<1>9. CASE UNCHANGED docVars
  BY <1>1, <1>9 DEF docVars
<1> QED
  BY <1>2, <1>3, <1>4, <1>5, <1>6, <1>7, <1>8, <1>9, ExecutorStep, ReviewStep DEF DocNext

\* The invariant holds of every behaviour.
THEOREM DocInvariance == DocSpec => []DocIInv
BY InitDocIInv, DocStep, PTL DEF DocSpec

\* No execution, restart or recovery ever approves a document by itself.
THEOREM HumanApproval == DocSpec => []ApprovedByHuman
<1>1. DocIInv => ApprovedByHuman
  BY DEF DocIInv
<1> QED
  BY <1>1, DocInvariance, PTL

\* However reviews are abandoned, taken over and finished, a run is committed
\* to the canonical record once.
THEOREM SingleCommit == DocSpec => []CommittedOnce
<1>1. DocIInv => CommittedOnce
  BY DEF DocIInv, CommitsConfirm, CommittedOnce
<1> QED
  BY <1>1, DocInvariance, PTL

-----------------------------------------------------------------------------
\* A review request that writes the dependents follows a decision of the row.
DecidedFirst ==
  \A r \in Reviewers : reviewer[r].at \in {"request", "task"} => decision # "none"

\* A run is confirmed by a person, who has decided the document thereby.
ConfirmedDecides == Confirmed => decision # "none"

Deciders == DecidedFirst /\ OneDecider /\ ConfirmedDecides

\* Nobody decides, and nobody begins to write the dependents.
NoneDecides ==
  /\ decision' = decision
  /\ Confirmed' => Confirmed
  /\ \A r \in Reviewers : reviewer'[r].at \in {"request", "task"} => reviewer[r].at \in {"request", "task"}

LEMMA NobodyDecides == ASSUME Deciders, NoneDecides PROVE Deciders'
BY DEF Deciders, DecidedFirst, OneDecider, ConfirmedDecides, NoneDecides

\* A step in which nobody sits down to decide, or commits, decides nothing.
LEMMA OthersDecideNothing ==
  ASSUME DocIInv, [DocNext]_docVars, \A r \in Reviewers : ~Reviewing(r)
  PROVE  NoneDecides
<1> USE DEF NoneDecides, Confirmed, document, evidence, requests
<1>0. ASSUME DocIInv, AppendRun PROVE Confirmed' => Confirmed
  BY <1>0, RunAppended DEF Confirmed
<1>1. ASSUME NEW w \in Workers, Executor(w) PROVE NoneDecides
  <2>1. CASE Persists(w)
    BY <1>0, <2>1 DEF Persists, QueueUntouched
  <2>2. CASE ~Persists(w)
    BY <1>1, <2>2 DEF Executor, Starts, ReadsDocument, ReadsPrior, OpensTask, Patches, RejectsRequest, Errs,
           RecordsFailure, RecordsFailureTask, Returns, WorkerCrash, WriteAutomation, QueueUntouched
  <2> QED
    BY <2>1, <2>2
<1>2. CASE Upload \/ QueueSteps \/ Archive \/ UNCHANGED docVars
  BY <1>2 DEF Upload, InsertDocument, UploadEnqueues, UploadMarks, UploadDefers, UploadReceives, UploadDies,
         WriteAutomation, QueueSteps, Archive, OthersUntouched, docVars
<1>3. CASE ManualOcr
  BY <1>0, <1>3 DEF ManualOcr
<1>4. ASSUME NEW h \in Hosts, Recovery(h) PROVE NoneDecides
  BY <1>4 DEF Recovery, RecoveryReads, RecoveryEnqueues, RecoveryMarks, RecoveryFails, WriteAutomation
<1>5. ASSUME NEW c \in Clerks, Retry(c) PROVE NoneDecides
  BY <1>5 DEF Retry, RetryReadsDocument, RetryReadsJob, RetryResetsJob, RetryMarks, RetryOpensTask, RetryDies,
         WriteAutomation
<1>6. ASSUME NEW x \in Runs, RunAges(x) PROVE NoneDecides
  BY <1>6 DEF RunAges, DocIInv, PlacesOK
<1> QED
  BY <1>1, <1>2, <1>3, <1>4, <1>5, <1>6 DEF DocNext

\* Of the reviewers' steps a decision finds the row undecided, a commit decides
\* it, and the rest decide nothing.
LEMMA ReviewersDecide ==
  ASSUME DocIInv, Deciders, NEW r \in Reviewers, Reviewing(r)
  PROVE  Deciders' /\ (decision # "none" => decision' # "none")
<1> USE DEF document, evidence, OthersUntouched, DocIInv
<1>1. ASSUME NEW v \in Decided, Decide(r, v) PROVE Deciders' /\ decision' # "none"
  <2>1. decision' # "none"
    BY <1>1 DEF Decide, Decided
  <2>2. \A q \in Reviewers : reviewer[q].at \notin {"request", "task"}
    BY <1>1 DEF Decide, Deciders, DecidedFirst
  <2>3. \A q \in Reviewers : q # r => reviewer'[q] = reviewer[q]
    BY <1>1 DEF Decide, Sits, PlacesOK
  <2> QED
    BY <2>1, <2>2, <2>3 DEF Deciders, DecidedFirst, OneDecider, ConfirmedDecides
<1>2. CASE Commit(r)
  <2>1. decision' # "none"
    BY <1>2 DEF Commit
  <2>2. \A q \in Reviewers : reviewer'[q].at \in {"request", "task"} => reviewer[q].at \in {"request", "task"}
    BY <1>2 DEF Commit, Sits, PlacesOK
  <2> QED
    BY <2>1, <2>2 DEF Deciders, DecidedFirst, OneDecider, ConfirmedDecides
<1>3. CASE DecideRequest(r) \/ DecideTask(r) \/ ReviewerDies(r) \/ Relabel(r)
  <2>1. NoneDecides
    BY <1>3 DEF DecideRequest, DecideTask, ReviewerDies, Relabel, Sits, PlacesOK, NoneDecides, Confirmed
  <2> QED
    BY <2>1, NobodyDecides DEF NoneDecides
<1>4. CASE ReleaseRun(r) \/ \E x \in Runs : ClaimRun(r, x)
  <2>1. decision' = decision
    BY <1>4 DEF ReleaseRun, ClaimRun
  <2>2. Confirmed' => Confirmed
    BY <1>4 DEF ReleaseRun, ClaimRun, PlacesOK, Confirmed
  <2>3. \A q \in Reviewers : reviewer'[q].at \in {"request", "task"} => reviewer[q].at \in {"request", "task"}
    BY <1>4 DEF ReleaseRun, ClaimRun, Sits, PlacesOK
  <2> QED
    BY <2>1, <2>2, <2>3, NobodyDecides DEF NoneDecides
<1> QED
  BY <1>1, <1>2, <1>3, <1>4 DEF Reviewing

LEMMA DecidersStep ==
  DocIInv /\ Deciders /\ [DocNext]_docVars => Deciders' /\ (decision # "none" => decision' # "none")
<1> SUFFICES ASSUME DocIInv, Deciders, [DocNext]_docVars
             PROVE  Deciders' /\ (decision # "none" => decision' # "none")
  OBVIOUS
<1>1. CASE \E r \in Reviewers : Reviewing(r)
  BY <1>1, ReviewersDecide
<1>2. CASE \A r \in Reviewers : ~Reviewing(r)
  BY <1>2, OthersDecideNothing, NobodyDecides DEF NoneDecides
<1> QED
  BY <1>1, <1>2

LEMMA InitDeciders == DocInit => Deciders
BY DEF DocInit, Deciders, DecidedFirst, OneDecider, ConfirmedDecides, Confirmed, Away

\* Of several people who decide a document at once only one goes on to write
\* its verdict to the request and the task.
THEOREM OneVerdict == DocSpec => []OneDecider
<1>1. Deciders => OneDecider
  BY DEF Deciders
<1> QED
  BY <1>1, InitDeciders, DecidersStep, DocInvariance, PTL DEF DocSpec

-----------------------------------------------------------------------------
\* An execution reaches the update of a document nobody has decided past the
\* open task, unless it found the document verified.
TaskFirst ==
  \A w \in Workers : exec[w].at = "patch" /\ exec[w].outcome # "verified" => task = "open" \/ decision # "none"

\* An open task is closed only for a document that a person has decided.
LEMMA TaskStays ==
  ASSUME DocIInv, Deciders, [DocNext]_docVars, task = "open" \/ decision # "none"
  PROVE  task' = "open" \/ decision' # "none"
<1>0. decision # "none" => decision' # "none"
  BY DecidersStep
<1> SUFFICES ASSUME decision = "none", task = "open" PROVE task' = "open" \/ decision' # "none"
  BY <1>0
<1> USE DEF dependents, evidence, document, Decided
<1>1. CASE UNCHANGED dependents
  BY <1>1
<1>2. ASSUME NEW s, WriteReview(s), s # "approved" PROVE task' = "open"
  BY <1>2 DEF WriteReview, TaskAfter
<1>3. ASSUME NEW w \in Workers, Executor(w) PROVE task' = "open"
  <2>1. CASE Patches(w)
    <3>1. exec[w].outcome \in {"review", "conflict", "recapture"}
      BY <2>1 DEF Patches, DocIInv, FindingsOK, Deciders, ConfirmedDecides
    <3>2. ReviewFor[exec[w].outcome] # "approved" /\ WriteReview(ReviewFor[exec[w].outcome])
      BY <2>1, <3>1 DEF Patches, ReviewFor
    <3> QED
      BY <1>2, <3>2
  <2>2. CASE ~Patches(w)
    BY <1>3, <2>2 DEF Executor, Starts, ReadsDocument, ReadsPrior, Persists, OpensTask, RejectsRequest, Errs,
                      RecordsFailure, RecordsFailureTask, Returns, WorkerCrash
  <2> QED
    BY <2>1, <2>2
<1>4. ASSUME NEW r \in Reviewers, Reviewing(r) PROVE task' = "open" \/ decision' # "none"
  <2>1. ~DecideTask(r)
    BY DEF DecideTask, Deciders, DecidedFirst
  <2> QED
    BY <1>2, <1>4, <2>1 DEF Reviewing, Decide, DecideRequest, ReviewerDies, ClaimRun, Relabel, Commit, ReleaseRun
<1>5. ASSUME NEW c \in Clerks, Retry(c) PROVE task' = "open"
  BY <1>5 DEF Retry, RetryReadsDocument, RetryReadsJob, RetryResetsJob, RetryMarks, RetryOpensTask, RetryDies
<1>6. CASE Upload \/ QueueSteps \/ ManualOcr \/ Archive
  BY <1>6 DEF Upload, InsertDocument, UploadEnqueues, UploadMarks, UploadDefers, UploadReceives, UploadDies,
              QueueSteps, ManualOcr, Archive
<1>7. ASSUME NEW h \in Hosts, Recovery(h) PROVE task' = "open"
  BY <1>7 DEF Recovery, RecoveryReads, RecoveryEnqueues, RecoveryMarks, RecoveryFails
<1>8. ASSUME NEW x \in Runs, RunAges(x) PROVE task' = "open"
  BY <1>8 DEF RunAges
<1>9. CASE UNCHANGED docVars
  BY <1>9 DEF docVars
<1> QED
  BY <1>3, <1>4, <1>5, <1>6, <1>7, <1>8, <1>9 DEF DocNext

\* An execution arrives at the update from the task, or with "verified".
LEMMA TaskFirstStep == DocIInv /\ Deciders /\ TaskFirst /\ [DocNext]_docVars => TaskFirst'
<1> SUFFICES ASSUME DocIInv, Deciders, TaskFirst, [DocNext]_docVars,
                    NEW v \in Workers, exec'[v].at = "patch", exec'[v].outcome # "verified"
             PROVE  task' = "open" \/ decision' # "none"
  BY DEF TaskFirst
<1>0. exec \in [Workers -> [at : ExecPlaces, outcome : Outcome]]
  BY DEF DocIInv, PlacesOK
<1>1. CASE UNCHANGED exec
  BY <1>1, TaskStays DEF TaskFirst
<1>2. ASSUME NEW w \in Workers, NEW p, NEW o, Step(w, p, o), p = "patch" => o = "verified"
      PROVE  task' = "open" \/ decision' # "none"
  <2>1. v # w
    BY <1>0, <1>2 DEF Step, At
  <2>2. exec'[v] = exec[v]
    BY <1>0, <1>2, <2>1 DEF Step
  <2> QED
    BY <2>2, TaskStays DEF TaskFirst
<1>3. ASSUME NEW w \in Workers, Executor(w) PROVE task' = "open" \/ decision' # "none"
  <2>1. CASE OpensTask(w)
    BY <2>1 DEF OpensTask
  <2>2. CASE ReadsPrior(w)
    BY <1>2, <2>2 DEF ReadsPrior, Inspects
  <2>3. CASE Starts(w) \/ ReadsDocument(w) \/ Persists(w) \/ RejectsRequest(w) \/ Errs(w)
    BY <1>2, <2>3 DEF Starts, ReadsDocument, Persists, RejectsRequest, Errs
  <2>4. CASE Patches(w)
    BY <1>2, <2>4 DEF Patches
  <2>5. CASE RecordsFailure(w) \/ RecordsFailureTask(w)
    BY <1>2, <2>5 DEF RecordsFailure, RecordsFailureTask
  <2>6. CASE Returns(w) \/ WorkerCrash(w)
    <3>1. Step(w, "none", "none")
      BY <2>6 DEF Returns, WorkerCrash, Step, Stopped, At
    <3> QED
      BY <1>2, <3>1
  <2> QED
    BY <1>3, <2>1, <2>2, <2>3, <2>4, <2>5, <2>6 DEF Executor
<1>4. ASSUME ~ \E w \in Workers : Executor(w) PROVE UNCHANGED exec
  <2>1. CASE Upload \/ QueueSteps \/ ManualOcr \/ Archive \/ UNCHANGED docVars
    BY <2>1 DEF Upload, InsertDocument, UploadEnqueues, UploadMarks, UploadDefers, UploadReceives, UploadDies,
                QueueSteps, ManualOcr, Archive, OthersUntouched, docVars
  <2>2. ASSUME NEW h \in Hosts, Recovery(h) PROVE UNCHANGED exec
    BY <2>2 DEF Recovery, RecoveryReads, RecoveryEnqueues, RecoveryMarks, RecoveryFails
  <2>3. ASSUME NEW c \in Clerks, Retry(c) PROVE UNCHANGED exec
    BY <2>3 DEF Retry, RetryReadsDocument, RetryReadsJob, RetryResetsJob, RetryMarks, RetryOpensTask, RetryDies
  <2>4. ASSUME NEW r \in Reviewers, Reviewing(r) PROVE UNCHANGED exec
    BY <2>4 DEF Reviewing, Decide, DecideRequest, DecideTask, ReviewerDies, ClaimRun, Relabel, Commit, ReleaseRun,
                OthersUntouched
  <2>5. ASSUME NEW x \in Runs, RunAges(x) PROVE UNCHANGED exec
    BY <2>5 DEF RunAges, OthersUntouched
  <2> QED
    BY <1>4, <2>1, <2>2, <2>3, <2>4, <2>5 DEF DocNext
<1> QED
  BY <1>1, <1>3, <1>4

\* A document that waits for a person has an open task, whichever execution or
\* reviewer wrote last and wherever it was interrupted.
THEOREM WaitingHasTask == DocSpec => []ReviewHasTask
<1>1. DocInit => TaskFirst /\ ReviewHasTask
  BY DEF DocInit, TaskFirst, ReviewHasTask, Stopped
<1>2. DocIInv /\ Deciders /\ TaskFirst /\ ReviewHasTask /\ [DocNext]_docVars => ReviewHasTask'
  <2> SUFFICES ASSUME DocIInv, Deciders, TaskFirst, ReviewHasTask, [DocNext]_docVars,
                      automation' \in {"REVIEW_REQUIRED", "CONFLICT"}
               PROVE  task' = "open" \/ decision' # "none"
    BY DEF ReviewHasTask
  <2> USE DEF document
  <2>1. CASE automation' = automation
    BY <2>1, TaskStays DEF ReviewHasTask
  <2>2. ASSUME NEW w \in Workers, Patches(w) PROVE task' = "open" \/ decision' # "none"
    <3>1. exec[w].at = "patch" /\ exec[w].outcome # "verified"
      BY <2>2 DEF Patches, AutomationFor
    <3> QED
      BY <3>1, TaskStays DEF TaskFirst
  <2>3. ASSUME NEW w \in Workers, Executor(w), ~Patches(w) PROVE automation' = automation
    BY <2>3 DEF Executor, Starts, ReadsDocument, ReadsPrior, Persists, OpensTask, RejectsRequest, Errs,
                RecordsFailure, RecordsFailureTask, Returns, WorkerCrash, WriteAutomation
  <2>4. CASE Upload \/ QueueSteps \/ ManualOcr \/ Archive \/ UNCHANGED docVars
    BY <2>1, <2>4 DEF Upload, InsertDocument, UploadEnqueues, UploadMarks, UploadDefers, UploadReceives, UploadDies,
                      WriteAutomation, QueueSteps, ManualOcr, Archive, docVars
  <2>5. ASSUME NEW h \in Hosts, Recovery(h) PROVE automation' = automation
    BY <2>5 DEF Recovery, RecoveryReads, RecoveryEnqueues, RecoveryMarks, RecoveryFails, WriteAutomation
  <2>6. ASSUME NEW c \in Clerks, Retry(c) PROVE automation' = automation
    BY <2>6 DEF Retry, RetryReadsDocument, RetryReadsJob, RetryResetsJob, RetryMarks, RetryOpensTask, RetryDies,
                WriteAutomation
  <2>7. ASSUME NEW r \in Reviewers, Reviewing(r) PROVE automation' = automation
    BY <2>7 DEF Reviewing, Decide, DecideRequest, DecideTask, ReviewerDies, ClaimRun, Relabel, Commit, ReleaseRun
  <2>8. ASSUME NEW x \in Runs, RunAges(x) PROVE automation' = automation
    BY <2>8 DEF RunAges
  <2> QED
    BY <2>1, <2>2, <2>3, <2>4, <2>5, <2>6, <2>7, <2>8 DEF DocNext
<1> QED
  BY <1>1, <1>2, InitDeciders, DecidersStep, TaskFirstStep, DocInvariance, PTL DEF DocSpec

-----------------------------------------------------------------------------
(* The pipeline uses the queue only through the queue's own operations:    *)
(* what is proved of the queue holds of the pipeline.                      *)

\* An execution that fails reports one of the two classes the queue knows.
FailuresOK ==
  /\ exec \in [Workers -> [at : ExecPlaces, outcome : Outcome]]
  /\ \A w \in Workers :
       exec[w].at \in {"failing", "failtask", "threw"} => exec[w].outcome \in {"transient", "permanent"}

LEMMA InitFailures == DocInit => FailuresOK
BY DEF DocInit, FailuresOK, Stopped, ExecPlaces, Outcome

\* The outcome of a failure is settled when it happens and kept.
LEMMA FailuresStep == FailuresOK /\ [DocNext]_docVars => FailuresOK'
<1> SUFFICES ASSUME FailuresOK, [DocNext]_docVars PROVE FailuresOK'
  OBVIOUS
<1> USE DEF FailuresOK, ExecPlaces, Outcome
<1>1. CASE UNCHANGED exec
  BY <1>1
<1>2. ASSUME NEW w \in Workers, NEW p \in ExecPlaces, NEW o \in Outcome, Step(w, p, o),
             p \in {"failing", "failtask", "threw"} => o \in {"transient", "permanent"}
      PROVE  FailuresOK'
  BY <1>2 DEF Step, At
<1>3. ASSUME NEW w \in Workers, Executor(w) PROVE FailuresOK'
  <2>1. CASE Starts(w) \/ ReadsDocument(w)
    BY <1>2, <2>1 DEF Starts, ReadsDocument
  <2>2. CASE ReadsPrior(w)
    BY <1>2, <2>2 DEF ReadsPrior, Inspects
  <2>3. CASE Persists(w)
    BY <1>2, <2>3 DEF Persists
  <2>4. CASE OpensTask(w) \/ Patches(w) \/ RejectsRequest(w)
    BY <1>2, <2>4 DEF OpensTask, Patches, RejectsRequest
  <2>5. CASE Errs(w)
    BY <1>2, <2>5 DEF Errs
  <2>6. CASE RecordsFailure(w) \/ RecordsFailureTask(w)
    BY <1>2, <2>6 DEF RecordsFailure, RecordsFailureTask
  <2>7. CASE Returns(w) \/ WorkerCrash(w)
    BY <1>2, <2>7 DEF Returns, WorkerCrash, Step, Stopped, At
  <2> QED
    BY <1>3, <2>1, <2>2, <2>3, <2>4, <2>5, <2>6, <2>7 DEF Executor
<1>4. CASE Upload \/ QueueSteps \/ ManualOcr \/ Archive
  BY <1>1, <1>4 DEF Upload, InsertDocument, UploadEnqueues, UploadMarks, UploadDefers, UploadReceives,
                    UploadDies, QueueSteps, ManualOcr, Archive, OthersUntouched
<1>5. ASSUME NEW h \in Hosts, Recovery(h) PROVE FailuresOK'
  BY <1>1, <1>5 DEF Recovery, RecoveryReads, RecoveryEnqueues, RecoveryMarks, RecoveryFails
<1>6. ASSUME NEW c \in Clerks, Retry(c) PROVE FailuresOK'
  BY <1>1, <1>6 DEF Retry, RetryReadsDocument, RetryReadsJob, RetryResetsJob, RetryMarks, RetryOpensTask, RetryDies
<1>7. ASSUME NEW r \in Reviewers, Reviewing(r) PROVE FailuresOK'
  BY <1>1, <1>7 DEF Reviewing, Decide, DecideRequest, DecideTask, ReviewerDies, ClaimRun, Relabel, Commit,
                    ReleaseRun, OthersUntouched
<1>8. ASSUME NEW x \in Runs, RunAges(x) PROVE FailuresOK'
  BY <1>1, <1>8 DEF RunAges, OthersUntouched
<1>9. CASE UNCHANGED docVars
  BY <1>1, <1>9 DEF docVars
<1> QED
  BY <1>3, <1>4, <1>5, <1>6, <1>7, <1>8, <1>9 DEF DocNext

\* Every step of the pipeline is a step of the queue, or leaves it alone.
LEMMA PipelineStep == FailuresOK /\ [DocNext]_docVars => [Next]_vars
<1> SUFFICES ASSUME FailuresOK, [DocNext]_docVars PROVE [Next]_vars
  OBVIOUS
<1>0. DocJob \in Jobs
  BY DocJobAssumption, JobsAssumption
<1>1. ASSUME NEW w \in Workers, Executor(w) PROVE [Next]_vars
  <2>1. CASE Starts(w) \/ WorkerCrash(w)
    BY <2>1 DEF Starts, WorkerCrash, Next
  <2>2. CASE Returns(w)
    <3>1. CASE Complete(w) \/ Throw(w, "transient") \/ LoseReport(w)
      BY <3>1 DEF Next
    <3>2. CASE exec[w].at = "threw" /\ Throw(w, exec[w].outcome)
      <4>1. exec[w].outcome \in {"transient", "permanent"}
        BY <3>2 DEF FailuresOK
      <4> QED
        BY <3>2, <4>1 DEF Next
    <3> QED
      BY <2>2, <3>1, <3>2 DEF Returns
  <2>3. CASE ReadsDocument(w) \/ ReadsPrior(w) \/ Persists(w) \/ OpensTask(w) \/ Patches(w)
             \/ RejectsRequest(w) \/ Errs(w) \/ RecordsFailure(w) \/ RecordsFailureTask(w)
    BY <2>3 DEF ReadsDocument, ReadsPrior, Persists, OpensTask, Patches, RejectsRequest, Errs,
                RecordsFailure, RecordsFailureTask, QueueUntouched
  <2> QED
    BY <1>1, <2>1, <2>2, <2>3 DEF Executor
<1>2. CASE Upload
  BY <1>0, <1>2 DEF Upload, InsertDocument, UploadEnqueues, UploadMarks, UploadDefers, UploadReceives,
                    UploadDies, EnqueueJob, Next
<1>3. CASE QueueSteps
  BY <1>3 DEF QueueSteps, Next
<1>4. ASSUME NEW h \in Hosts, Recovery(h) PROVE [Next]_vars
  BY <1>0, <1>4 DEF Recovery, RecoveryReads, RecoveryEnqueues, RecoveryMarks, RecoveryFails, EnqueueJob, Next
<1>5. ASSUME NEW c \in Clerks, Retry(c) PROVE [Next]_vars
  <2>1. CASE RetryReadsJob(c)
    BY <1>0, <2>1 DEF RetryReadsJob, Next
  <2>2. CASE RetryResetsJob(c) \/ RetryDies(c)
    BY <2>2 DEF RetryResetsJob, RetryDies, Next
  <2>3. CASE RetryReadsDocument(c) \/ RetryMarks(c) \/ RetryOpensTask(c)
    BY <2>3 DEF RetryReadsDocument, RetryMarks, RetryOpensTask
  <2> QED
    BY <1>5, <2>1, <2>2, <2>3 DEF Retry
<1>6. ASSUME ManualOcr \/ Archive \/ (\E r \in Reviewers : Reviewing(r)) \/ (\E x \in Runs : RunAges(x))
      PROVE  UNCHANGED vars
  BY <1>6 DEF ManualOcr, Archive, Reviewing, Decide, DecideRequest, DecideTask, ReviewerDies, ClaimRun,
              Relabel, Commit, ReleaseRun, RunAges, OthersUntouched
<1>7. CASE UNCHANGED docVars
  BY <1>7 DEF docVars
<1> QED
  BY <1>1, <1>2, <1>3, <1>4, <1>5, <1>6, <1>7 DEF DocNext

\* However uploads, recoveries, executions and restarts interleave, the
\* pipeline drives the queue as the queue's specification allows.
THEOREM UsesQueue == DocSpec => Spec
<1>1. DocInit => Init
  BY DEF DocInit
<1> QED
  BY <1>1, InitFailures, FailuresStep, PipelineStep, PTL DEF DocSpec, Spec

\* So two executions of a document's job never both hold its lease, although
\* they may both be writing to the document; and the job follows the ledger.
THEOREM DocumentJobFenced == DocSpec => []OneLiveHolder /\ VerdictByHolder /\ ImplementsLedger
BY UsesQueue, Fencing, Verdicts, Implementation, PTL

-----------------------------------------------------------------------------
\* The document's columns and the requests keep to the values the code writes.
ColumnsOK ==
  /\ automation \in Automation
  /\ review \in {"received", "under_review"} \cup Decided
  /\ decision \in {"none"} \cup Decided
  /\ archived \in BOOLEAN
  /\ request \in {"missing", "received"} \cup Decided
  /\ task \in {"none", "open", "completed"}
  /\ upload \in {"insert", "enqueue", "mark", "defer", "request", "done"}
  /\ recovery \in [Hosts -> {"idle", "enqueue", "mark"}]

\* A review request that still has dependents to write knows its decision.
DecisionsKnown ==
  \A r \in Reviewers : reviewer[r].at \in {"request", "task"} => reviewer[r].verdict \in Decided

\* A worker is in the executor exactly while it has a job, and a retry request
\* holds what it read of the job until it writes the row or dies.
Attended ==
  /\ clerk \in [Clerks -> {"idle", "job", "reset", "mark", "task"}]
  /\ \A w \in Workers : exec[w] = Stopped <=> current[w] = NoClaim
  /\ \A c \in Clerks : verdict[c] # NoRead <=> clerk[c] = "reset"

\* Whatever decision the trigger propagates, the rows it writes are typed.
LEMMA ReviewTyped ==
  ASSUME ColumnsOK, NEW s \in {"under_review"} \cup Decided, WriteReview(s)
  PROVE  /\ review' \in {"received", "under_review"} \cup Decided
         /\ request' \in {"missing", "received"} \cup Decided
         /\ task' \in {"none", "open", "completed"}
<1>1. request' \in {"missing", "received"} \cup Decided /\ task' \in {"none", "open", "completed"}
  <2>1. CASE s # review /\ s \in Decided
    BY <2>1 DEF ColumnsOK, WriteReview, TaskAfter
  <2>2. CASE ~(s # review /\ s \in Decided)
    BY <2>2 DEF ColumnsOK, WriteReview, dependents
  <2> QED
    BY <2>1, <2>2
<1> QED
  BY <1>1 DEF WriteReview

LEMMA ExecutorColumns ==
  ASSUME DocIInv, ColumnsOK, NEW w \in Workers, Executor(w)
  PROVE  ColumnsOK'
<1> USE DEF ColumnsOK, Automation, Decided, document, evidence, dependents, requests, QueueUntouched
<1>1. CASE Starts(w) \/ Returns(w) \/ WorkerCrash(w)
  BY <1>1 DEF Starts, Returns, WorkerCrash
<1>2. CASE ReadsDocument(w) \/ RecordsFailure(w)
  BY <1>2 DEF ReadsDocument, RecordsFailure, WriteAutomation
<1>3. CASE ReadsPrior(w) \/ Persists(w) \/ Errs(w)
  BY <1>3 DEF ReadsPrior, Persists, Errs
<1>4. CASE OpensTask(w) \/ RecordsFailureTask(w) \/ RejectsRequest(w)
  BY <1>4 DEF OpensTask, RecordsFailureTask, RejectsRequest
<1>5. CASE Patches(w)
  <2> DEFINE o == exec[w].outcome
  <2>1. o \in {"verified", "review", "conflict", "recapture"}
    BY <1>5 DEF Patches, DocIInv, FindingsOK
  <2>2. automation' = AutomationFor[o] /\ WriteReview(ReviewFor[o])
    BY <1>5 DEF Patches
  <2>3. ReviewFor[o] \in {"under_review"} \cup Decided
    BY <2>1 DEF ReviewFor
  <2>4. automation' \in Automation
    BY <2>1, <2>2 DEF AutomationFor
  <2>5. UNCHANGED <<decision, archived, upload, recovery>>
    BY <1>5 DEF Patches
  <2> HIDE DEF o, Decided
  <2> QED
    BY <2>2, <2>3, <2>4, <2>5, ReviewTyped
<1> QED
  BY <1>1, <1>2, <1>3, <1>4, <1>5 DEF Executor

\* A review request that moves to a place where it keeps its decision, or that
\* has nothing left to decide, leaves the others as they were.
LEMMA ReviewerMoves ==
  ASSUME DocIInv, DecisionsKnown, NEW r \in Reviewers, NEW p \in DeskPlaces, NEW x \in 0..MaxRuns,
         NEW v \in {"none"} \cup Decided, Sits(r, p, x, v),
         p \in {"request", "task"} => v \in Decided
  PROVE  DecisionsKnown'
BY DEF DocIInv, PlacesOK, DecisionsKnown, Sits

LEMMA ReviewColumns ==
  ASSUME DocIInv, ColumnsOK, DecisionsKnown, NEW r \in Reviewers, Reviewing(r)
  PROVE  ColumnsOK' /\ DecisionsKnown'
<1> USE DEF ColumnsOK, Automation, document, evidence, dependents, OthersUntouched, DeskPlaces
<1>0. 0 \in 0..MaxRuns /\ (reviewer[r].at = "relabel" => reviewer[r].run \in 0..MaxRuns)
      /\ (\A x \in Runs : x \in 0..MaxRuns)
  BY DocBoundsAssumption DEF DocIInv, PlacesOK, Runs
<1>1. ASSUME NEW v \in Decided, Decide(r, v) PROVE ColumnsOK' /\ DecisionsKnown'
  <2>1. Sits(r, "request", 0, v)
    BY <1>1 DEF Decide
  <2>2. DecisionsKnown'
    BY <1>0, <2>1, ReviewerMoves
  <2> QED
    BY <1>1, <2>2, ReviewTyped DEF Decide
<1>2. CASE Relabel(r)
  <2>1. Sits(r, "commit", reviewer[r].run, "none") /\ reviewer[r].at = "relabel"
    BY <1>2 DEF Relabel
  <2>2. DecisionsKnown'
    BY <1>0, <2>1, ReviewerMoves
  <2> QED
    BY <1>2, <2>2, ReviewTyped DEF Relabel
<1>3. CASE Commit(r)
  <2>1. "approved" \in Decided
    BY DEF Decided
  <2>2. DecisionsKnown'
    BY <1>0, <1>3, ReviewerMoves DEF Commit
  <2> QED
    BY <1>3, <2>1, <2>2, ReviewTyped DEF Commit
<1>4. CASE DecideRequest(r)
  <2>1. reviewer[r].verdict \in Decided /\ Sits(r, "task", 0, reviewer[r].verdict)
    BY <1>4 DEF DecideRequest, DecisionsKnown
  <2>2. DecisionsKnown'
    BY <1>0, <2>1, ReviewerMoves
  <2> QED
    BY <1>4, <2>1, <2>2 DEF DecideRequest
<1>5. CASE DecideTask(r)
  <2>1. DecisionsKnown'
    BY <1>0, <1>5, ReviewerMoves DEF DecideTask
  <2> QED
    BY <1>5, <2>1 DEF DecideTask, TaskAfter
<1>6. ASSUME NEW x \in Runs, NEW p \in {"relabel", "commit"}, ClaimRun(r, x), Sits(r, p, x, "none")
      PROVE  ColumnsOK' /\ DecisionsKnown'
  <2>1. DecisionsKnown'
    BY <1>0, <1>6, ReviewerMoves
  <2> QED
    BY <1>6, <2>1 DEF ClaimRun
<1>7. CASE \E x \in Runs : ClaimRun(r, x)
  BY <1>6, <1>7 DEF ClaimRun
<1>8. CASE ReviewerDies(r) \/ ReleaseRun(r)
  <2>1. Sits(r, "idle", 0, "none")
    BY <1>8 DEF ReviewerDies, ReleaseRun
  <2>2. DecisionsKnown'
    BY <1>0, <2>1, ReviewerMoves
  <2> QED
    BY <1>8, <2>2 DEF ReviewerDies, ReleaseRun
<1> QED
  BY <1>1, <1>2, <1>3, <1>4, <1>5, <1>7, <1>8 DEF Reviewing

LEMMA ColumnsStep ==
  DocIInv /\ ColumnsOK /\ DecisionsKnown /\ [DocNext]_docVars => ColumnsOK' /\ DecisionsKnown'
<1> SUFFICES ASSUME DocIInv, ColumnsOK, DecisionsKnown, [DocNext]_docVars PROVE ColumnsOK' /\ DecisionsKnown'
  OBVIOUS
<1> USE DEF document, dependents, evidence, OthersUntouched
<1>0. ASSUME UNCHANGED reviewer, ColumnsOK' PROVE ColumnsOK' /\ DecisionsKnown'
  BY <1>0 DEF DecisionsKnown
<1>1. ASSUME NEW w \in Workers, Executor(w) PROVE ColumnsOK' /\ DecisionsKnown'
  <2>1. UNCHANGED reviewer
    BY <1>1 DEF Executor, Starts, ReadsDocument, ReadsPrior, Persists, OpensTask, Patches, RejectsRequest,
                Errs, RecordsFailure, RecordsFailureTask, Returns, WorkerCrash, QueueUntouched, requests
  <2> QED
    BY <1>0, <1>1, <2>1, ExecutorColumns
<1>2. ASSUME NEW r \in Reviewers, Reviewing(r) PROVE ColumnsOK' /\ DecisionsKnown'
  BY <1>2, ReviewColumns
<1>3. CASE Upload
  <2>1. UNCHANGED reviewer /\ ColumnsOK'
    BY <1>3 DEF Upload, InsertDocument, UploadEnqueues, UploadMarks, UploadDefers, UploadReceives,
                UploadDies, WriteAutomation, ColumnsOK, Automation, Decided
  <2> QED
    BY <1>0, <2>1
<1>4. ASSUME NEW h \in Hosts, Recovery(h) PROVE ColumnsOK' /\ DecisionsKnown'
  <2>1. UNCHANGED reviewer /\ ColumnsOK'
    BY <1>4 DEF Recovery, RecoveryReads, RecoveryEnqueues, RecoveryMarks, RecoveryFails,
                WriteAutomation, ColumnsOK, Automation
  <2> QED
    BY <1>0, <2>1
<1>5. ASSUME NEW c \in Clerks, Retry(c) PROVE ColumnsOK' /\ DecisionsKnown'
  <2>1. UNCHANGED reviewer /\ ColumnsOK'
    BY <1>5 DEF Retry, RetryReadsDocument, RetryReadsJob, RetryResetsJob, RetryMarks, RetryOpensTask,
                RetryDies, WriteAutomation, ColumnsOK, Automation
  <2> QED
    BY <1>0, <2>1
<1>6. CASE QueueSteps \/ ManualOcr \/ Archive \/ (\E x \in Runs : RunAges(x)) \/ UNCHANGED docVars
  <2>1. UNCHANGED reviewer /\ ColumnsOK'
    BY <1>6 DEF QueueSteps, ManualOcr, Archive, RunAges, docVars, ColumnsOK, requests
  <2> QED
    BY <1>0, <2>1
<1> QED
  BY <1>1, <1>2, <1>3, <1>4, <1>5, <1>6 DEF DocNext

\* An execution that is under way moves on without giving up its job.
LEMMA MovesOn ==
  ASSUME DocIInv, Attended, NEW w \in Workers, NEW p \in ExecPlaces \ {"none"}, NEW o, Step(w, p, o),
         exec[w].at # "none", UNCHANGED <<current, verdict, clerk>>
  PROVE  Attended'
<1>1. exec' = [exec EXCEPT ![w] = At(p, o)] /\ exec[w] # Stopped /\ At(p, o) # Stopped
  BY DEF Step, At, Stopped
<1> QED
  BY <1>1 DEF Attended, DocIInv, PlacesOK

\* One that ends gives it up.
LEMMA GivesUp ==
  ASSUME TypeOK, DocIInv, Attended, NEW w \in Workers, exec' = [exec EXCEPT ![w] = Stopped],
         current' = [current EXCEPT ![w] = NoClaim], UNCHANGED <<verdict, clerk>>
  PROVE  Attended'
BY DEF Attended, DocIInv, PlacesOK, TypeOK

LEMMA ExecutorAttended ==
  ASSUME IInv, DocIInv, Attended, NEW w \in Workers, Executor(w)
  PROVE  Attended'
<1> USE DEF QueueUntouched, vars, workers, desk, requests, ExecPlaces
<1>1. CASE Starts(w)
  <2>1. PICK c \in batch[w] : current' = [current EXCEPT ![w] = c]
    BY <1>1 DEF Starts, StartJob
  <2>2. c # NoClaim
    BY <2>1 DEF IInv, ClaimsAreMinted, InHand, NoClaim
  <2>3. exec' = [exec EXCEPT ![w] = At("read", "none")] /\ At("read", "none") # Stopped
    BY <1>1 DEF Starts, Step, At, Stopped
  <2>4. UNCHANGED <<verdict, clerk>>
    BY <1>1 DEF Starts, StartJob
  <2> QED
    BY <2>1, <2>2, <2>3, <2>4 DEF Attended, DocIInv, PlacesOK, IInv, TypeOK
<1>2. CASE ReadsDocument(w)
  BY <1>2, MovesOn DEF ReadsDocument
<1>3. CASE ReadsPrior(w)
  BY <1>3, MovesOn DEF ReadsPrior, Inspects
<1>4. CASE Persists(w)
  BY <1>4, MovesOn DEF Persists
<1>5. CASE OpensTask(w) \/ RejectsRequest(w)
  BY <1>5, MovesOn DEF OpensTask, RejectsRequest
<1>6. CASE Patches(w)
  BY <1>6, MovesOn DEF Patches
<1>7. CASE Errs(w)
  BY <1>7, MovesOn DEF Errs
<1>8. CASE RecordsFailure(w) \/ RecordsFailureTask(w)
  BY <1>8, MovesOn DEF RecordsFailure, RecordsFailureTask
<1>9. CASE Returns(w) \/ WorkerCrash(w)
  <2>1. current' = [current EXCEPT ![w] = NoClaim] /\ UNCHANGED <<verdict, clerk>>
    BY <1>9 DEF Returns, WorkerCrash, Complete, Throw, LoseReport, EndExecution, Crash
  <2>2. exec' = [exec EXCEPT ![w] = Stopped]
    BY <1>9 DEF Returns, WorkerCrash
  <2> QED
    BY <2>1, <2>2, GivesUp DEF IInv
<1> QED
  BY <1>1, <1>2, <1>3, <1>4, <1>5, <1>6, <1>7, <1>8, <1>9 DEF Executor

\* A retry request's place and what it has read of the job change together.
LEMMA RetryAttended ==
  ASSUME TypeOK, Attended, NEW c \in Clerks, Retry(c)
  PROVE  Attended'
<1> USE DEF vars, workers, desk, Place
<1>0. ASSUME NEW p \in {"idle", "job", "mark", "task"}, Place(c, p), clerk[c] # "reset",
             UNCHANGED <<exec, current, verdict>>
      PROVE  Attended'
  BY <1>0 DEF Attended
<1>1. ASSUME Place(c, "reset"), UNCHANGED <<exec, current>>, NEW r, r # NoRead,
             verdict' = [verdict EXCEPT ![c] = r]
      PROVE  Attended'
  BY <1>1 DEF Attended, TypeOK
<1>2. ASSUME NEW p \in {"idle", "mark"}, Place(c, p), UNCHANGED <<exec, current>>,
             verdict' = [verdict EXCEPT ![c] = NoRead]
      PROVE  Attended'
  BY <1>2 DEF Attended, TypeOK
<1>3. CASE RetryReadsDocument(c) \/ RetryMarks(c) \/ RetryOpensTask(c)
  BY <1>0, <1>3 DEF RetryReadsDocument, RetryMarks, RetryOpensTask
<1>4. CASE RetryReadsJob(c)
  <2>1. CASE ReadForRetry(c, DocJob) /\ Place(c, "reset")
    <3>1. [job |-> DocJob, status |-> "failed"] # NoRead
      BY DEF NoRead
    <3> QED
      BY <1>1, <1>4, <2>1, <3>1 DEF RetryReadsJob, ReadForRetry
  <2>2. CASE ~(ReadForRetry(c, DocJob) /\ Place(c, "reset"))
    BY <1>0, <1>4, <2>2 DEF RetryReadsJob, Enqueue
  <2> QED
    BY <2>1, <2>2
<1>5. CASE RetryResetsJob(c)
  BY <1>2, <1>5 DEF RetryResetsJob, RetryDocumentJob
<1>6. CASE RetryDies(c)
  <2>1. CASE ForgetRetry(c)
    BY <1>2, <1>6, <2>1 DEF RetryDies, ForgetRetry
  <2>2. CASE clerk[c] \notin {"idle", "reset"} /\ UNCHANGED vars
    BY <1>0, <1>6, <2>2 DEF RetryDies
  <2> QED
    BY <1>6, <2>1, <2>2 DEF RetryDies
<1> QED
  BY <1>3, <1>4, <1>5, <1>6 DEF Retry

LEMMA AttendedStep ==
  IInv /\ DocIInv /\ Attended /\ [DocNext]_docVars => Attended'
<1> SUFFICES ASSUME IInv, DocIInv, Attended, [DocNext]_docVars PROVE Attended'
  OBVIOUS
<1>0. ASSUME UNCHANGED <<exec, current, verdict, clerk>> PROVE Attended'
  BY <1>0 DEF Attended
<1>1. CASE Upload
  BY <1>0, <1>1 DEF Upload, InsertDocument, UploadEnqueues, UploadMarks, UploadDefers, UploadReceives,
                    UploadDies, EnqueueJob, Enqueue, vars, workers, desk
<1>2. CASE QueueSteps
  BY <1>0, <1>2 DEF QueueSteps, MissBeat, BackoffElapses, ClaimJobs, Heartbeat, HeartbeatFails,
                    rows, workers, desk, requests
<1>3. ASSUME NEW h \in Hosts, Recovery(h) PROVE Attended'
  BY <1>0, <1>3 DEF Recovery, RecoveryReads, RecoveryEnqueues, RecoveryMarks, RecoveryFails,
                    EnqueueJob, Enqueue, vars, workers, desk
<1>4. CASE ManualOcr \/ Archive \/ (\E r \in Reviewers : Reviewing(r)) \/ \E x \in Runs : RunAges(x)
  BY <1>0, <1>4 DEF ManualOcr, Archive, Reviewing, Decide, DecideRequest, DecideTask, ReviewerDies, ClaimRun,
                    Relabel, Commit, ReleaseRun, RunAges, OthersUntouched, vars, workers, desk
<1>5. CASE UNCHANGED docVars
  BY <1>0, <1>5 DEF docVars, vars, workers, desk, requests
<1>6. ASSUME NEW w \in Workers, Executor(w) PROVE Attended'
  BY <1>6, ExecutorAttended
<1>7. ASSUME NEW c \in Clerks, Retry(c) PROVE Attended'
  BY <1>7, RetryAttended DEF IInv
<1> QED
  BY <1>1, <1>2, <1>3, <1>4, <1>5, <1>6, <1>7 DEF DocNext

\* The columns keep their values; a worker is in the executor exactly while it
\* has a job of the queue; a retry request remembers a failed row exactly
\* between its read and its write.
THEOREM DocumentTypes == DocSpec => []DocTypeOK
<1>1. DocInit => ColumnsOK /\ DecisionsKnown /\ Attended
  <2>1. DocInit => ColumnsOK
    BY DEF DocInit, ColumnsOK, Automation
  <2>2. DocInit => DecisionsKnown
    BY DEF DocInit, DecisionsKnown, Away
  <2>3. DocInit => Attended
    BY DEF DocInit, Init, Attended
  <2> QED
    BY <2>1, <2>2, <2>3
<1>2. IInv /\ DocIInv /\ ColumnsOK /\ Attended => DocTypeOK
  BY DEF IInv, DocIInv, PlacesOK, ColumnsOK, Attended, DocTypeOK
<1> QED
  BY <1>1, <1>2, ColumnsStep, AttendedStep, DocInvariance, UsesQueue, Invariance, PTL DEF DocSpec
=============================================================================
