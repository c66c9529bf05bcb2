-------------------------- MODULE DocumentPipeline --------------------------
(***************************************************************************)
(* The life of an uploaded document of caseflow: the upload request that   *)
(* inserts it and queues its processing, the DOCUMENT_EXTRACT job, the     *)
(* recovery cycle that queues orphaned uploads, the endpoint that restarts *)
(* a failed document, and the people who review it.                        *)
(*                                                                         *)
(* The job is a row of BackgroundJobs, whose actions are composed here     *)
(* with the writes the executor makes.  None of those writes is fenced by  *)
(* the lease: an execution that has lost its job goes on to the end.       *)
(* Each action is what happens between two awaits of the code.             *)
(***************************************************************************)
EXTENDS BackgroundJobs

CONSTANTS
  DocJob,    \* the DOCUMENT_EXTRACT job of the document (its idempotency key)
  Reviewers, \* requests in flight at the review and confirmation endpoints
  Hosts,     \* server processes whose recovery cycles are explored
  Kinds,     \* what the document may turn out to be
  MaxRuns,   \* bound: extraction runs of the document explored
  MaxMoves   \* bound: times the document is archived or restored

ASSUME DocJobAssumption == DocJob \in DocumentJobs
ASSUME KindsAssumption == Kinds \subseteq {"other", "poor", "identity"}
ASSUME DocBoundsAssumption == MaxRuns \in Nat /\ MaxMoves \in Nat

VARIABLES
  kind,       \* what inspecting the bytes finds: "other" than an identity image, a "poor" image, "identity"
  automation, \* documents.automation_status, "absent" before the row exists
  review,     \* documents.review_status
  decision,   \* "none" while reviewed_at is null; then what was decided (observed: the row
              \* keeps the verdict in review_status alone, and nothing below reads it)
  archived,   \* archived_at is set
  request,    \* status of the document_requests row the document answers
  task,       \* status of the tasks row with the document's automation_key
  runs,       \* document_extractions of the document, in the order created
  exec,       \* each worker's place in the executor
  upload,     \* the upload request's place
  recovery,   \* the place of each process's recovery cycle
  clerk,      \* each retry request's place
  reviewer,   \* each review request's place
  confirms,   \* commits of each run into the canonical record (observed, never read)
  moves       \* archivings and restorations so far (bounds the model)

document   == <<kind, automation, review, decision, archived, moves>>
dependents == <<request, task>>
evidence   == <<runs, confirms>>
requests   == <<upload, recovery, clerk, reviewer>>
docVars    == <<vars, document, dependents, evidence, exec, requests>>

Automation == {"absent", "NOT_QUEUED", "QUEUED", "PROCESSING", "REVIEW_REQUIRED",
               "RECAPTURE_REQUIRED", "CONFLICT", "VERIFIED", "FAILED"}
Decided    == {"approved", "rejected"}
Runs       == 1..MaxRuns
\* "stale" is reviewing for more than five minutes; "expired" is past expires_at.
RunStatus  == {"absent", "pending_review", "reviewing", "stale", "confirmed", "expired"}
Outcome    == {"none", "verified", "review", "conflict", "recapture", "transient", "permanent"}
ExecPlaces == {"none", "read", "prior", "persist", "task", "patch", "request",
               "done", "failing", "failtask", "threw"}
DeskPlaces == {"idle", "request", "task", "relabel", "commit"}
Stopped    == [at |-> "none", outcome |-> "none"]
At(p, o)   == [at |-> p, outcome |-> o]
Away       == [at |-> "idle", run |-> 0, verdict |-> "none"]

DocInit ==
  /\ Init
  /\ kind \in Kinds
  /\ automation = "absent" /\ review = "received" /\ decision = "none" /\ archived = FALSE /\ moves = 0
  /\ request = "missing" /\ task = "none"
  /\ runs     = [x \in Runs |-> "absent"]
  /\ confirms = [x \in Runs |-> 0]
  /\ exec     = [w \in Workers |-> Stopped]
  /\ upload = "insert" /\ recovery = [h \in Hosts |-> "idle"]
  /\ clerk    = [c \in Clerks |-> "idle"]
  /\ reviewer = [r \in Reviewers |-> Away]

-----------------------------------------------------------------------------
(* Writes several operations share.                                        *)

TaskAfter(d) == IF task = "none" THEN "none" ELSE IF d = "approved" THEN "completed" ELSE "open"

\* The trigger sync_document_review_dependents: a review_status that changes
\* to a decision takes the request and the task along.
WriteReview(s) ==
  /\ review' = s
  /\ IF s # review /\ s \in Decided
     THEN request' = s /\ task' = TaskAfter(s)
     ELSE UNCHANGED dependents

WriteAutomation(a) ==
  /\ automation' = a
  /\ UNCHANGED <<kind, review, decision, archived, moves>>

Newest(x) == runs[x] # "absent" /\ \A y \in Runs : y > x => runs[y] = "absent"
NoRuns    == \A x \in Runs : runs[x] = "absent"

\* persistDocumentExtraction appends a run.
AppendRun ==
  /\ \E x \in Runs : /\ runs[x] = "absent"
                     /\ \A y \in Runs : y < x => runs[y] # "absent"
                     /\ runs' = [runs EXCEPT ![x] = "pending_review"]
  /\ UNCHANGED confirms

-----------------------------------------------------------------------------
(* The upload request.  It may die between any two of its calls.           *)

InsertDocument ==
  /\ upload = "insert"
  /\ WriteAutomation("NOT_QUEUED")
  /\ upload' = "enqueue"
  /\ UNCHANGED <<vars, dependents, evidence, exec, recovery, clerk, reviewer>>

EnqueueJob == IF status[DocJob] = "absent" THEN Enqueue(DocJob) ELSE UNCHANGED vars

\* The insert fails, or succeeds with or without its answer arriving.
UploadEnqueues ==
  /\ upload = "enqueue"
  /\ \/ EnqueueJob /\ upload' \in {"mark", "defer"}
     \/ UNCHANGED vars /\ upload' = "defer"
  /\ UNCHANGED <<document, dependents, evidence, exec, recovery, clerk, reviewer>>

UploadMarks ==
  /\ upload = "mark"
  /\ \/ WriteAutomation("QUEUED") /\ upload' = "request"
     \/ UNCHANGED document /\ upload' = "defer"
  /\ UNCHANGED <<vars, dependents, evidence, exec, recovery, clerk, reviewer>>

\* DOCUMENT_QUEUE_UNAVAILABLE; this write's own failure is ignored.
UploadDefers ==
  /\ upload = "defer"
  /\ WriteAutomation("FAILED") \/ UNCHANGED document
  /\ upload' = "request"
  /\ UNCHANGED <<vars, dependents, evidence, exec, recovery, clerk, reviewer>>

UploadReceives ==
  /\ upload = "request"
  /\ request' = "received"
  /\ upload' = "done"
  /\ UNCHANGED <<vars, document, task, evidence, exec, recovery, clerk, reviewer>>

UploadDies ==
  /\ upload \notin {"insert", "done"}
  /\ upload' = "done"
  /\ UNCHANGED <<vars, document, dependents, evidence, exec, recovery, clerk, reviewer>>

-----------------------------------------------------------------------------
(* recoverPendingDocumentJobs, every minute and at startup.                *)

\* (Mutant of Orphaned: a deferred upload is not looked for.)
OrphanedNotFailed ==
  /\ automation \in {"NOT_QUEUED", "QUEUED", "PROCESSING"}
  /\ ~archived /\ status[DocJob] = "absent"

Orphaned ==
  /\ automation \in {"NOT_QUEUED", "QUEUED", "PROCESSING", "FAILED"}
  /\ ~archived /\ status[DocJob] = "absent"

RecoveryReads(h) ==
  /\ recovery[h] = "idle" /\ Orphaned
  /\ recovery' = [recovery EXCEPT ![h] = "enqueue"]
  /\ UNCHANGED <<vars, document, dependents, evidence, exec, upload, clerk, reviewer>>

RecoveryEnqueues(h) ==
  /\ recovery[h] = "enqueue"
  /\ EnqueueJob
  /\ recovery' = [recovery EXCEPT ![h] = "mark"]
  /\ UNCHANGED <<document, dependents, evidence, exec, upload, clerk, reviewer>>

RecoveryMarks(h) ==
  /\ recovery[h] = "mark"
  /\ WriteAutomation("QUEUED")
  /\ recovery' = [recovery EXCEPT ![h] = "idle"]
  /\ UNCHANGED <<vars, dependents, evidence, exec, upload, clerk, reviewer>>

RecoveryFails(h) ==
  /\ recovery[h] # "idle"
  /\ recovery' = [recovery EXCEPT ![h] = "idle"]
  /\ UNCHANGED <<vars, document, dependents, evidence, exec, upload, clerk, reviewer>>

-----------------------------------------------------------------------------
(* processDocumentExtractionJob, and the wrapper that records its failure. *)

Step(w, p, o) == exec' = [exec EXCEPT ![w] = At(p, o)]
QueueUntouched == UNCHANGED <<vars, requests>>

Starts(w) ==
  /\ StartJob(w)
  /\ Step(w, "read", "none")
  /\ UNCHANGED <<document, dependents, evidence, requests>>

\* An archived document is DOCUMENT_NOT_FOUND.
ReadsDocument(w) ==
  /\ exec[w].at = "read"
  /\ IF archived
     THEN Step(w, "failing", "permanent") /\ UNCHANGED document
     ELSE Step(w, "prior", "none") /\ WriteAutomation("PROCESSING")
  /\ UNCHANGED <<dependents, evidence>> /\ QueueUntouched

\* Without a run the bytes are read; inspecting them involves nothing that
\* another process can change.
Inspects(w) ==
  /\ NoRuns
  /\ IF kind = "identity"
     THEN Step(w, "persist", "none")
     ELSE Step(w, "task", IF kind = "poor" THEN "recapture" ELSE "review")

\* (Mutant of ReadsPrior: any earlier run verifies the document.)
ReadsPriorUnconfirmed(w) ==
  /\ exec[w].at = "prior"
  /\ \/ \E x \in Runs : Newest(x) /\ Step(w, "patch", "verified")
     \/ Inspects(w)
  /\ UNCHANGED <<document, dependents, evidence>> /\ QueueUntouched

\* The newest run of these bytes decides.
ReadsPrior(w) ==
  /\ exec[w].at = "prior"
  /\ \/ \E x \in Runs : /\ Newest(x)
                        /\ IF runs[x] = "confirmed" THEN Step(w, "patch", "verified")
                                                    ELSE Step(w, "task", "review")
     \/ Inspects(w)
  /\ UNCHANGED <<document, dependents, evidence>> /\ QueueUntouched

Persists(w) ==
  /\ exec[w].at = "persist"
  /\ AppendRun
  /\ \E o \in {"review", "conflict"} : Step(w, "task", o)
  /\ UNCHANGED <<document, dependents>> /\ QueueUntouched

\* (Mutant of OpensTask: the task is left for after the document's update.)
OpensTaskLater(w) ==
  /\ exec[w].at = "task"
  /\ UNCHANGED task
  /\ Step(w, "patch", exec[w].outcome)
  /\ UNCHANGED <<document, request, evidence>> /\ QueueUntouched

\* ensureAutomationTask creates the task or reopens it.
OpensTask(w) ==
  /\ exec[w].at = "task"
  /\ task' = "open"
  /\ Step(w, "patch", exec[w].outcome)
  /\ UNCHANGED <<document, request, evidence>> /\ QueueUntouched

AutomationFor == [verified |-> "VERIFIED", review |-> "REVIEW_REQUIRED",
                  conflict |-> "CONFLICT", recapture |-> "RECAPTURE_REQUIRED"]
ReviewFor     == [verified |-> "approved", review |-> "under_review",
                  conflict |-> "under_review", recapture |-> "rejected"]

\* The row is matched by its id: neither the lease nor reviewed_at is asked.
Patches(w) ==
  /\ exec[w].at = "patch"
  /\ LET o == exec[w].outcome IN
       /\ automation' = AutomationFor[o]
       /\ WriteReview(ReviewFor[o])
       /\ Step(w, IF o = "recapture" THEN "request" ELSE "done", o)
  /\ UNCHANGED <<kind, decision, archived, moves, evidence>> /\ QueueUntouched

RejectsRequest(w) ==
  /\ exec[w].at = "request"
  /\ request' = "rejected"
  /\ Step(w, "done", "none")
  /\ UNCHANGED <<document, task, evidence>> /\ QueueUntouched

\* Any call may err; a byte version mismatch is the one permanent error left.
Errs(w) ==
  /\ exec[w].at \in {"read", "prior", "persist", "task", "patch", "request"}
  /\ \/ Step(w, "failing", "transient")
     \/ exec[w].at = "prior" /\ NoRuns /\ Step(w, "failing", "permanent")
  /\ UNCHANGED <<document, dependents, evidence>> /\ QueueUntouched

\* The failure is recorded on the document; both writes may fail unnoticed.
RecordsFailure(w) ==
  /\ exec[w].at = "failing"
  /\ WriteAutomation("FAILED") \/ UNCHANGED document
  /\ Step(w, "failtask", exec[w].outcome)
  /\ UNCHANGED <<dependents, evidence>> /\ QueueUntouched

RecordsFailureTask(w) ==
  /\ exec[w].at = "failtask"
  /\ task' \in {task, "open"}
  /\ Step(w, "threw", exec[w].outcome)
  /\ UNCHANGED <<document, request, evidence>> /\ QueueUntouched

Returns(w) ==
  /\ exec[w].at \in {"done", "threw"}
  /\ \/ exec[w].at = "done" /\ Complete(w)
     \/ exec[w].at = "done" /\ beatError[w] /\ Throw(w, "transient")
     \/ exec[w].at = "threw" /\ Throw(w, exec[w].outcome)
     \/ LoseReport(w)
  /\ exec' = [exec EXCEPT ![w] = Stopped]
  /\ UNCHANGED <<document, dependents, evidence, requests>>

\* (Mutant of WorkerCrash: the executor survives its cycle.)
WorkerCrashKeepsExecutor(w) ==
  /\ Crash(w)
  /\ UNCHANGED <<exec, document, dependents, evidence, requests>>

WorkerCrash(w) ==
  /\ Crash(w)
  /\ exec' = [exec EXCEPT ![w] = Stopped]
  /\ UNCHANGED <<document, dependents, evidence, requests>>

\* What the queue does by itself.
QueueSteps ==
  /\ \/ \E j \in Jobs : MissBeat(j) \/ BackoffElapses(j)
     \/ \E w \in Workers : ClaimJobs(w) \/ Heartbeat(w) \/ HeartbeatFails(w)
  /\ UNCHANGED <<document, dependents, evidence, exec, requests>>

-----------------------------------------------------------------------------
(* The retry-processing endpoint.                                          *)

Place(c, p) == clerk' = [clerk EXCEPT ![c] = p]

RetryReadsDocument(c) ==
  /\ clerk[c] = "idle" /\ ~archived /\ automation = "FAILED"
  /\ Place(c, "job")
  /\ UNCHANGED <<vars, document, dependents, evidence, exec, upload, recovery, reviewer>>

\* A succeeded job is 409, a pending one is answered as it is.
RetryReadsJob(c) ==
  /\ clerk[c] = "job"
  /\ \/ status[DocJob] = "absent" /\ Enqueue(DocJob) /\ Place(c, "mark")
     \/ status[DocJob] \in {"queued", "retrying", "running"} /\ UNCHANGED vars /\ Place(c, "mark")
     \/ ReadForRetry(c, DocJob) /\ Place(c, "reset")
     \/ status[DocJob] = "succeeded" /\ UNCHANGED vars /\ Place(c, "idle")
  /\ UNCHANGED <<document, dependents, evidence, exec, upload, recovery, reviewer>>

RetryResetsJob(c) ==
  /\ clerk[c] = "reset"
  /\ RetryDocumentJob(c)
  /\ Place(c, "mark")
  /\ UNCHANGED <<document, dependents, evidence, exec, upload, recovery, reviewer>>

RetryMarks(c) ==
  /\ clerk[c] = "mark"
  /\ WriteAutomation("QUEUED")
  /\ Place(c, "task")
  /\ UNCHANGED <<vars, dependents, evidence, exec, upload, recovery, reviewer>>

RetryOpensTask(c) ==
  /\ clerk[c] = "task"
  /\ task' = "open"
  /\ Place(c, "idle")
  /\ UNCHANGED <<vars, document, request, evidence, exec, upload, recovery, reviewer>>

RetryDies(c) ==
  /\ \/ clerk[c] = "reset" /\ ForgetRetry(c)
     \/ clerk[c] \notin {"idle", "reset"} /\ UNCHANGED vars
  /\ Place(c, "idle")
  /\ UNCHANGED <<document, dependents, evidence, exec, upload, recovery, reviewer>>

-----------------------------------------------------------------------------
(* People.                                                                 *)

Sits(r, p, x, v) == reviewer' = [reviewer EXCEPT ![r] = [at |-> p, run |-> x, verdict |-> v]]
OthersUntouched  == UNCHANGED <<vars, exec, upload, recovery, clerk>>

\* (Mutant of Decide: reviewed_at is not asked for.)
DecideAgain(r, v) ==
  /\ reviewer[r] = Away /\ automation # "absent"
  /\ automation' = (IF v = "approved" THEN "VERIFIED" ELSE "RECAPTURE_REQUIRED")
  /\ decision' = v
  /\ WriteReview(v)
  /\ Sits(r, "request", 0, v)
  /\ UNCHANGED <<kind, archived, moves, evidence>> /\ OthersUntouched

\* finalizeDocumentReviewState: DOCUMENT_REVIEW_CONFLICT unless reviewed_at is null.
Decide(r, v) ==
  /\ reviewer[r] = Away /\ automation # "absent"
  /\ decision = "none"
  /\ automation' = (IF v = "approved" THEN "VERIFIED" ELSE "RECAPTURE_REQUIRED")
  /\ decision' = v
  /\ WriteReview(v)
  /\ Sits(r, "request", 0, v)
  /\ UNCHANGED <<kind, archived, moves, evidence>> /\ OthersUntouched

DecideRequest(r) ==
  /\ reviewer[r].at = "request"
  /\ request' = reviewer[r].verdict
  /\ Sits(r, "task", 0, reviewer[r].verdict)
  /\ UNCHANGED <<document, task, evidence>> /\ OthersUntouched

DecideTask(r) ==
  /\ reviewer[r].at = "task"
  /\ task' = TaskAfter(reviewer[r].verdict)
  /\ Sits(r, "idle", 0, "none")
  /\ UNCHANGED <<document, request, evidence>> /\ OthersUntouched

\* POST .../ocr by staff, at any time.
ManualOcr ==
  /\ automation # "absent" /\ ~archived
  /\ AppendRun
  /\ UNCHANGED <<document, dependents, reviewer>> /\ OthersUntouched

\* The conditional update on status and updated_at makes reading and claiming
\* one step.  Through a review token the document is relabelled before the commit.
ClaimRun(r, x) ==
  /\ reviewer[r] = Away /\ ~archived
  /\ runs[x] \in {"pending_review", "stale"}
  /\ runs' = [runs EXCEPT ![x] = "reviewing"]
  /\ \E p \in {"relabel", "commit"} : Sits(r, p, x, "none")
  /\ UNCHANGED <<document, dependents, confirms>> /\ OthersUntouched

Relabel(r) ==
  /\ reviewer[r].at = "relabel"
  /\ WriteReview("under_review")
  /\ Sits(r, "commit", reviewer[r].run, "none")
  /\ UNCHANGED <<kind, automation, decision, archived, moves, evidence>> /\ OthersUntouched

\* (Mutant of Available: the commit does not ask for the run's status.)
AvailableAnyway(x) == runs[x] # "expired"

Available(x) == runs[x] \in {"reviewing", "stale"}

\* commit_verified_identity_extraction with its triggers: one transaction.
Commit(r) ==
  LET x == reviewer[r].run IN
  /\ reviewer[r].at = "commit"
  /\ Available(x) /\ ~archived
  /\ runs'     = [runs EXCEPT ![x] = "confirmed"]
  /\ confirms' = [confirms EXCEPT ![x] = @ + 1]
  /\ automation' = "VERIFIED" /\ decision' = "approved"
  /\ WriteReview("approved")
  /\ Sits(r, "idle", 0, "none")
  /\ UNCHANGED <<kind, archived, moves>> /\ OthersUntouched

\* The commit is refused, or fails; the release asks whose run it is as
\* little as the commit did, and may fail unnoticed.
ReleaseRun(r) ==
  LET x == reviewer[r].run IN
  /\ reviewer[r].at \in {"relabel", "commit"}
  /\ \/ /\ runs[x] \in {"reviewing", "stale"}
        /\ runs' = [runs EXCEPT ![x] = "pending_review"]
     \/ UNCHANGED runs
  /\ Sits(r, "idle", 0, "none")
  /\ UNCHANGED <<document, dependents, confirms>> /\ OthersUntouched

ReviewerDies(r) ==
  /\ reviewer[r].at \in {"request", "task"}
  /\ Sits(r, "idle", 0, "none")
  /\ UNCHANGED <<document, dependents, evidence>> /\ OthersUntouched

\* A reviewing run is taken for abandoned after five minutes; runs expire.
RunAges(x) ==
  /\ \/ runs[x] = "reviewing" /\ runs' = [runs EXCEPT ![x] = "stale"]
     \/ runs[x] \in {"pending_review", "reviewing", "stale"} /\ runs' = [runs EXCEPT ![x] = "expired"]
  /\ UNCHANGED <<document, dependents, confirms, reviewer>> /\ OthersUntouched

\* DELETE, PATCH archived, or a replacement archives; PATCH restores.
Archive ==
  /\ automation # "absent"
  /\ moves < MaxMoves
  /\ archived' = ~archived
  /\ moves' = moves + 1
  /\ UNCHANGED <<kind, automation, review, decision, dependents, evidence, reviewer>> /\ OthersUntouched

-----------------------------------------------------------------------------
Upload   == InsertDocument \/ UploadEnqueues \/ UploadMarks \/ UploadDefers \/ UploadReceives \/ UploadDies
Recovery(h) == RecoveryReads(h) \/ RecoveryEnqueues(h) \/ RecoveryMarks(h) \/ RecoveryFails(h)
Executor(w) ==
  \/ Starts(w) \/ ReadsDocument(w) \/ ReadsPrior(w) \/ Persists(w) \/ OpensTask(w)
  \/ Patches(w) \/ RejectsRequest(w) \/ Errs(w) \/ RecordsFailure(w) \/ RecordsFailureTask(w)
  \/ Returns(w) \/ WorkerCrash(w)
Retry(c) ==
  \/ RetryReadsDocument(c) \/ RetryReadsJob(c) \/ RetryResetsJob(c)
  \/ RetryMarks(c) \/ RetryOpensTask(c) \/ RetryDies(c)
Reviewing(r) ==
  \/ \E v \in Decided : Decide(r, v)
  \/ DecideRequest(r) \/ DecideTask(r) \/ ReviewerDies(r)
  \/ \E x \in Runs : ClaimRun(r, x)
  \/ Relabel(r) \/ Commit(r) \/ ReleaseRun(r)

DocNext ==
  \/ Upload \/ QueueSteps \/ ManualOcr \/ Archive
  \/ \E h \in Hosts : Recovery(h)
  \/ \E w \in Workers : Executor(w)
  \/ \E c \in Clerks : Retry(c)
  \/ \E r \in Reviewers : Reviewing(r)
  \/ \E x \in Runs : RunAges(x)

DocSpec == DocInit /\ [][DocNext]_docVars

\* The recovery cycle runs every minute, and an outage of the database ends:
\* an insert tried again and again succeeds at last.
RecoverySpec ==
  /\ DocSpec
  /\ \A h \in Hosts : WF_docVars(RecoveryReads(h)) /\ SF_docVars(RecoveryEnqueues(h))

-----------------------------------------------------------------------------
DocTypeOK ==
  /\ TypeOK
  /\ automation \in Automation
  /\ review \in {"received", "under_review"} \cup Decided
  /\ decision \in {"none"} \cup Decided
  /\ archived \in BOOLEAN
  /\ request \in {"missing", "received"} \cup Decided
  /\ task \in {"none", "open", "completed"}
  /\ runs \in [Runs -> RunStatus]
  /\ exec \in [Workers -> [at : ExecPlaces, outcome : Outcome]]
  /\ \A w \in Workers : exec[w] = Stopped <=> current[w] = NoClaim
  /\ upload \in {"insert", "enqueue", "mark", "defer", "request", "done"}
  /\ recovery \in [Hosts -> {"idle", "enqueue", "mark"}]
  /\ \A c \in Clerks : verdict[c] # NoRead <=> clerk[c] = "reset"

\* A document is shown as approved or verified only if a person approved it
\* or confirmed one of its runs, however many executions, restarts and
\* recoveries wrote to it.
ApprovedByHuman ==
  review = "approved" \/ automation = "VERIFIED" =>
    decision = "approved" \/ \E x \in Runs : runs[x] = "confirmed"

\* The reviewed values of a run enter the canonical record once, even when a
\* stale review is taken over and both reviewers go on to commit.
CommittedOnce == \A x \in Runs : confirms[x] <= 1

\* Of several people who decide a document at once one is believed: the others'
\* verdicts never reach the request or the task behind the first one's back.
OneDecider ==
  \A r, q \in Reviewers :
    reviewer[r].at \in {"request", "task"} /\ reviewer[q].at \in {"request", "task"} => r = q

\* A document that waits for a person, none of whom has decided it yet, has an
\* open task that says so: wherever the execution that put it there was
\* interrupted, and whichever execution or reviewer wrote last.
ReviewHasTask ==
  automation \in {"REVIEW_REQUIRED", "CONFLICT"} /\ decision = "none" => task = "open"

\* An accepted upload whose job was never inserted gets it, unless a person
\* decides or archives the document first.
UploadReachesQueue ==
  automation # "absent" /\ status[DocJob] = "absent" ~>
    status[DocJob] # "absent" \/ archived \/ decision # "none"

-----------------------------------------------------------------------------
(* What one would expect of the code and does not find.                    *)

\* What a person decided is what the document reads.
DecisionShown == decision # "none" => review = decision

Quiet ==
  /\ \A w \in Workers : current[w] = NoClaim
  /\ upload = "done"
  /\ \A h \in Hosts : recovery[h] = "idle"
  /\ \A c \in Clerks : clerk[c] = "idle"
  /\ \A r \in Reviewers : reviewer[r] = Away

\* "authorized staff can idempotently restart an exhausted document job":
\* once nothing is in flight, a failed job's document does not read as if it
\* were still on its way.
ExhaustedIsRestartable ==
  Quiet /\ status[DocJob] = "failed" /\ ~archived => automation \notin {"QUEUED", "PROCESSING"}

\* "confirmed extraction finalizes document, request, and review task in one
\* database transaction".
ConfirmFinalizes ==
  [][\A x \in Runs : confirms'[x] > confirms[x] => request' = "approved" /\ task' # "open"]_docVars

-----------------------------------------------------------------------------
(* The inductive strengthening of ApprovedByHuman and CommittedOnce.       *)

Confirmed == \E x \in Runs : runs[x] = "confirmed"

PlacesOK ==
  /\ runs     \in [Runs -> RunStatus]
  /\ confirms \in [Runs -> Nat]
  /\ exec     \in [Workers -> [at : ExecPlaces, outcome : Outcome]]
  /\ reviewer \in [Reviewers -> [at : DeskPlaces, run : 0..MaxRuns, verdict : {"none"} \cup Decided]]
  /\ \A r \in Reviewers : reviewer[r].at \in {"relabel", "commit"} => reviewer[r].run \in Runs

\* An execution about to update the document knows what it found, and holds
\* "verified" only after it has seen a confirmed run.
FindingsOK ==
  \A w \in Workers :
    /\ exec[w].at = "task"  => exec[w].outcome \in {"review", "conflict", "recapture"}
    /\ exec[w].at = "patch" =>
         \/ exec[w].outcome \in {"review", "conflict", "recapture"}
         \/ exec[w].outcome = "verified" /\ Confirmed

\* A run is confirmed by its one commit, and stays confirmed.
CommitsConfirm == \A x \in Runs : confirms[x] = IF runs[x] = "confirmed" THEN 1 ELSE 0

DocIInv == PlacesOK /\ FindingsOK /\ CommitsConfirm /\ ApprovedByHuman
=============================================================================
