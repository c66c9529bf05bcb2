-------------------------- MODULE RecordingLifecycle --------------------------
(***************************************************************************)
(* One recording of murailex: the leased job that turns it into a draft    *)
(* transcript (backend/app/jobs.py, pipeline/process.py), the people who   *)
(* review the draft and lock it (api/recordings.py), and the integrity     *)
(* verification of its evidence (api/integrity.py).                        *)
(*                                                                         *)
(* A transcript's text is abstracted to what the reviewers can tell apart: *)
(* the disputed regions still marked in it and the human work it carries   *)
(* (the disputes a person resolved, a segment a person typed, a speaker a  *)
(* person assigned).  Time is abstracted: a lease lapses or it does not,   *)
(* and a queued job's run_after has always passed.                         *)
(*                                                                         *)
(* Every audited write takes one advisory lock until its commit            *)
(* (audit.py:41), so an API handler is one step and a worker's step ends   *)
(* at a commit or at the read a later commit depends on.                   *)
(***************************************************************************)
EXTENDS Naturals, Sequences

CONSTANTS
  Workers,       \* worker processes
  Jobs,          \* process_recording jobs the recording may ever get
  Disputes,      \* identities for disputed regions
  Parts,         \* stored evidence that may be damaged: "original", "working"
  Manual,        \* what a person may do besides resolving: "text", "speaker"
  None,          \* no worker, no job
  MaxAttempts,   \* jobs.max_attempts
  MaxLapses,     \* bound: leases that lapse
  MaxRevisions   \* bound: revisions of the transcript

ASSUME RecAssumption ==
  /\ None \notin Workers \cup Jobs
  /\ MaxAttempts \in Nat \ {0}
  /\ MaxLapses \in Nat
  /\ MaxRevisions \in Nat \ {0}

VARIABLES
  status,     \* recordings.status
  jobs,       \* the jobs rows
  worker,     \* what each worker process holds in memory
  revs,       \* transcript_revisions, by number
  disputes,   \* disputes.status
  damaged,    \* the stored parts whose hash no longer matches
  unsound,    \* the last integrity verification failed
  lapses      \* leases lapsed so far

evidence == <<damaged, unsound>>
transcript == <<revs, disputes>>
vars == <<status, jobs, worker, revs, disputes, damaged, unsound, lapses>>

Touches == Manual \cup Disputes

\* "processing" stands for analyzing, transcribing, verifying, aligning and
\* building, which no handler tells apart.
RecordingStatus == {"queued", "processing", "needs_review", "ready", "locked",
                    "failed", "provider_not_configured", "integrity_failure"}
JobState    == {"none", "queued", "running", "succeeded", "failed"}
DisputeState == {"none", "open", "resolved", "superseded"}
Stage   == {"idle", "preflight", "check", "running", "building", "reporting"}
Outcome == {"none", "done", "wait", "error", "fatal"}

Revision  == [state : {"draft", "locked"}, marks : SUBSET Disputes, edits : SUBSET Touches]
Job       == [state : JobState, by : Workers \cup {None}, lapsed : BOOLEAN, attempts : Nat]
Execution == [at : Stage, job : Jobs \cup {None}, out : Outcome,
              draft : Nat, stale : SUBSET Disputes]

AtRest == [at |-> "idle", job |-> None, out |-> "none", draft |-> 0, stale |-> {}]

\* RecTypeOK: every variable keeps its type, and a worker is at rest exactly
\* when it holds no job (run_one, jobs.py:152).
RecTypeOK ==
  /\ status \in RecordingStatus
  /\ jobs \in [Jobs -> Job]
  /\ worker \in [Workers -> Execution]
  /\ revs \in Seq(Revision)
  /\ disputes \in [Disputes -> DisputeState]
  /\ damaged \subseteq Parts
  /\ unsound \in BOOLEAN
  /\ lapses \in Nat
  /\ \A w \in Workers : (worker[w].at = "idle") <=> (worker[w].job = None)

-------------------------------------------------------------------------------
(* What the handlers ask of the rows.                                      *)

Open == {d \in Disputes : disputes[d] = "open"}

Active == {j \in Jobs : jobs[j].state \in {"queued", "running"}}

\* The draft a draft_for_update would find, or 0: only the latest revision
\* can be a draft (unique index transcript_revisions_one_draft).
Draft == IF revs # <<>> /\ revs[Len(revs)].state = "draft" THEN Len(revs) ELSE 0

\* regenerable_draft: the only revision, an unreviewed draft, with no resolved
\* dispute and no human item.  A speaker a person set is no human item.
Regenerable ==
  /\ Len(revs) = 1
  /\ revs[1].state = "draft"
  /\ \A d \in Disputes : disputes[d] # "resolved"
  /\ "text" \notin revs[1].edits

-------------------------------------------------------------------------------
(* Finishing the upload leaves a recording with one queued job.            *)

Init ==
  /\ status = "queued"
  /\ \E j \in Jobs :
       jobs = [i \in Jobs |-> [state |-> IF i = j THEN "queued" ELSE "none", by |-> None,
                               lapsed |-> FALSE, attempts |-> 0]]
  /\ worker = [w \in Workers |-> AtRest]
  /\ revs = <<>>
  /\ disputes = [d \in Disputes |-> "none"]
  /\ damaged = {}
  /\ unsound = FALSE
  /\ lapses = 0

-------------------------------------------------------------------------------
(* The queue.                                                              *)

\* claim: a queued job, or a running one whose lease lapsed.
Claim(w) ==
  /\ worker[w].at = "idle"
  /\ \E j \in Jobs :
       /\ \/ jobs[j].state = "queued"
          \/ jobs[j].state = "running" /\ jobs[j].lapsed
       /\ jobs' = [jobs EXCEPT ![j] = [state |-> "running", by |-> w, lapsed |-> FALSE,
                                       attempts |-> jobs[j].attempts + 1]]
       /\ worker' = [worker EXCEPT ![w].at = "preflight", ![w].job = j]
  /\ UNCHANGED <<status, transcript, evidence, lapses>>

\* A lease lapses: its worker died, or its heartbeats did not get through.
Lapse(j) ==
  /\ lapses < MaxLapses
  /\ jobs[j].state = "running"
  /\ ~jobs[j].lapsed
  /\ jobs' = [jobs EXCEPT ![j].lapsed = TRUE]
  /\ lapses' = lapses + 1
  /\ UNCHANGED <<status, worker, transcript, evidence>>

\* _heartbeat: renews the lease of a job still locked by this worker.
Heartbeat(w) ==
  /\ worker[w].at # "idle"
  /\ LET j == worker[w].job IN
       /\ jobs[j].state = "running"
       /\ jobs[j].by = w
       /\ jobs' = [jobs EXCEPT ![j].lapsed = FALSE]
  /\ UNCHANGED <<status, worker, transcript, evidence, lapses>>

CrashKeepingJob(w) ==
  /\ worker[w].at # "idle"
  /\ worker' = [worker EXCEPT ![w].at = "idle"]
  /\ UNCHANGED <<status, jobs, transcript, evidence, lapses>>

Crash(w) ==
  /\ worker[w].at # "idle"
  /\ worker' = [worker EXCEPT ![w] = AtRest]
  /\ UNCHANGED <<status, jobs, transcript, evidence, lapses>>

\* The end of _handle and run_one: the job's verdict, written by id whoever
\* holds the lease by now.  What went well may still fail when the latest
\* revision's evidence does not account for the primary tokens (always so for
\* a copied revision, its tokens being those of its parent again).
Verdict(w) ==
  /\ worker[w].at = "reporting"
  /\ LET j == worker[w].job
         row == jobs[j]
         end(s, n) == [state |-> s, by |-> None, lapsed |-> FALSE, attempts |-> n] IN
       \/ /\ worker[w].out = "done"
          /\ jobs' = [jobs EXCEPT ![j] = end("succeeded", row.attempts)]
          /\ UNCHANGED status
       \/ /\ worker[w].out = "wait"
          /\ jobs' = [jobs EXCEPT ![j] = end("queued", IF row.attempts = 0 THEN 0 ELSE row.attempts - 1)]
          /\ UNCHANGED status
       \/ /\ worker[w].out = "error" /\ row.attempts < MaxAttempts
          /\ jobs' = [jobs EXCEPT ![j] = end("queued", row.attempts)]
          /\ UNCHANGED status
       \/ /\ \/ worker[w].out = "fatal"
             \/ worker[w].out = "error" /\ row.attempts >= MaxAttempts
             \/ worker[w].out = "done" /\ revs # <<>>
          /\ jobs' = [jobs EXCEPT ![j] = end("failed", row.attempts)]
          /\ status' = "failed"
  /\ worker' = [worker EXCEPT ![w] = AtRest]
  /\ UNCHANGED <<transcript, evidence, lapses>>

-------------------------------------------------------------------------------
(* process_recording.                                                      *)

Goes(w, stage) == worker' = [worker EXCEPT ![w].at = stage]
Ends(w, o) ==
  worker' = [worker EXCEPT ![w] = [AtRest EXCEPT !.at = "reporting", !.job = worker[w].job, !.out = o]]

\* enforce_processing_preflight: passes only for the recording's sole active
\* job and an original whose hash matches; it may also block or wait for
\* reasons outside this model (locale, routing, engines).
PreflightPasses(w) ==
  /\ worker[w].at = "preflight"
  /\ Active \subseteq {worker[w].job}
  /\ "original" \notin damaged
  /\ Goes(w, "check")
  /\ UNCHANGED <<status, jobs, transcript, evidence, lapses>>

PreflightBlocks(w) ==
  /\ worker[w].at = "preflight"
  /\ status' \in {"failed", "provider_not_configured"}
  /\ Ends(w, "fatal")
  /\ UNCHANGED <<jobs, transcript, evidence, lapses>>

PreflightWaits(w) ==
  /\ worker[w].at = "preflight"
  /\ status' = "queued"
  /\ Ends(w, "wait")
  /\ UNCHANGED <<jobs, transcript, evidence, lapses>>

\* "never finalize twice": a transcript that is not regenerable is left alone.
LeaveAlone(w) ==
  /\ worker[w].at = "check"
  /\ revs # <<>>
  /\ ~Regenerable
  /\ Ends(w, "done")
  /\ UNCHANGED <<status, jobs, transcript, evidence, lapses>>

StartRun(w) ==
  /\ worker[w].at = "check"
  /\ revs = <<>> \/ Regenerable
  /\ status' = "processing"
  /\ Goes(w, "running")
  /\ UNCHANGED <<jobs, transcript, evidence, lapses>>

\* A mandatory engine is missing or failed, or an invariant of the alignment
\* did not hold: the recording says so and the job itself succeeds.
EngineFails(w) ==
  /\ worker[w].at = "running"
  /\ status' \in {"failed", "provider_not_configured"}
  /\ Ends(w, "done")
  /\ UNCHANGED <<jobs, transcript, evidence, lapses>>

\* An engine is not ready (Wait) or the step raised.
RunStops(w) ==
  /\ worker[w].at = "running"
  /\ \E o \in {"wait", "error", "fatal"} : Ends(w, o)
  /\ UNCHANGED <<status, jobs, transcript, evidence, lapses>>

\* "building": which draft there is to rebuild and which disputes are open is
\* read once, after all engines have run.
ReadDraft(w) ==
  /\ worker[w].at = "running"
  /\ status' = "processing"
  /\ worker' = [worker EXCEPT ![w].at = "building", ![w].draft = Draft,
                              ![w].stale = IF Draft = 0 THEN {} ELSE Open]
  /\ UNCHANGED <<jobs, transcript, evidence, lapses>>

\* The transcript the consensus produced, with the regions in ds disputed.
Machine(ds) == [state |-> "draft", marks |-> ds, edits |-> {}]

WritableWithoutTrigger(n) == n = 0 => revs = <<>>

\* The row can be written: a new revision 1 needs a recording without
\* revisions (unique constraint), an existing one must not be locked (trigger
\* transcript_revisions_guard).
Writable(n) == IF n = 0 THEN revs = <<>> ELSE revs[n].state = "draft"

\* The single commit: the content, its disputes, the superseded ones and the
\* recording's status.
Build(w, ds) ==
  /\ worker[w].at = "building"
  /\ ds \subseteq {d \in Disputes : disputes[d] = "none"}
  /\ Writable(worker[w].draft)
  /\ revs' = IF worker[w].draft = 0 THEN <<Machine(ds)>>
             ELSE [revs EXCEPT ![worker[w].draft] = Machine(ds)]
  /\ disputes' = [d \in Disputes |-> IF d \in ds THEN "open"
                                     ELSE IF d \in worker[w].stale THEN "superseded"
                                     ELSE disputes[d]]
  /\ status' = IF ds = {} THEN "ready" ELSE "needs_review"
  /\ Ends(w, "done")
  /\ UNCHANGED <<jobs, evidence, lapses>>

\* The database refuses the row, or the evidence does not account for every
\* primary token: everything since ReadDraft is rolled back.  (The third failure,
\* a token no region classifies, would commit a failed status and superseded
\* disputes without the content; every column is either in a region, and then
\* classified with it, or accepted, so it does not occur.)
BuildFails(w) ==
  /\ worker[w].at = "building"
  /\ IF Writable(worker[w].draft) THEN Ends(w, "fatal") ELSE Ends(w, "error")
  /\ UNCHANGED <<status, jobs, transcript, evidence, lapses>>

-------------------------------------------------------------------------------
(* The people.                                                             *)

\* reprocess
Reprocess ==
  /\ IF revs # <<>> THEN Regenerable ELSE status \in {"failed", "provider_not_configured"}
  /\ Active = {}
  /\ status' = "queued"
  /\ \E j \in Jobs : /\ jobs[j].state = "none"
                     /\ jobs' = [jobs EXCEPT ![j].state = "queued"]
  /\ UNCHANGED <<worker, transcript, evidence, lapses>>

ResolveRowOnly(d) ==
  /\ disputes[d] = "open"
  /\ Draft # 0
  /\ disputes' = [disputes EXCEPT ![d] = "resolved"]
  /\ status' = IF Open = {d} /\ status = "needs_review" THEN "ready" ELSE status
  /\ UNCHANGED <<jobs, worker, revs, evidence, lapses>>

\* resolve: the region's marker gives way to what the reviewer decided.
Resolve(d) ==
  /\ disputes[d] = "open"
  /\ Draft # 0
  /\ d \in revs[Draft].marks
  /\ revs' = [revs EXCEPT ![Draft].marks = @ \ {d}, ![Draft].edits = @ \cup {d}]
  /\ disputes' = [disputes EXCEPT ![d] = "resolved"]
  /\ status' = IF Open = {d} /\ status = "needs_review" THEN "ready" ELSE status
  /\ UNCHANGED <<jobs, worker, evidence, lapses>>

\* correct_segment, and change_speaker, add_speaker and verify_speaker.
Edit(touch) ==
  /\ Draft # 0
  /\ revs' = [revs EXCEPT ![Draft].edits = @ \cup {touch}]
  /\ UNCHANGED <<status, jobs, worker, disputes, evidence, lapses>>

LockByContent ==
  /\ status # "integrity_failure"
  /\ Draft # 0
  /\ revs[Draft].marks = {}
  /\ "original" \notin damaged
  /\ revs' = [revs EXCEPT ![Draft].state = "locked"]
  /\ status' = "locked"
  /\ UNCHANGED <<jobs, worker, disputes, evidence, lapses>>

\* lock: nothing may be disputed, in the text or in the rows, and the original
\* must still have its hash.  (That every critical item was verified is below
\* this abstraction.)
Lock ==
  /\ status # "integrity_failure"
  /\ Draft # 0
  /\ revs[Draft].marks = {}
  /\ Open = {}
  /\ "original" \notin damaged
  /\ revs' = [revs EXCEPT ![Draft].state = "locked"]
  /\ status' = "locked"
  /\ UNCHANGED <<jobs, worker, disputes, evidence, lapses>>

NewRevisionOfDraft ==
  /\ revs # <<>>
  /\ Len(revs) < MaxRevisions
  /\ revs' = Append(revs, [revs[Len(revs)] EXCEPT !.state = "draft"])
  /\ status' = "ready"
  /\ UNCHANGED <<jobs, worker, disputes, evidence, lapses>>

\* new_revision: a draft that starts as a copy of the latest locked revision.
NewRevision ==
  /\ revs # <<>>
  /\ Draft = 0
  /\ Len(revs) < MaxRevisions
  /\ revs' = Append(revs, [revs[Len(revs)] EXCEPT !.state = "draft"])
  /\ status' = "ready"
  /\ UNCHANGED <<jobs, worker, disputes, evidence, lapses>>

\* verify_integrity: the hashes of the original, the working copy and every
\* locked revision.
VerifyIntegrity ==
  /\ unsound' = (damaged # {})
  /\ status' = IF damaged # {} THEN "integrity_failure"
               ELSE IF status # "integrity_failure" THEN status
               ELSE IF \E i \in DOMAIN revs : revs[i].state = "locked" THEN "locked"
               ELSE "needs_review"
  /\ UNCHANGED <<jobs, worker, transcript, damaged, lapses>>

\* The store's contents change under the program, and are restored.
Damage(p) ==
  /\ p \notin damaged
  /\ damaged' = damaged \cup {p}
  /\ UNCHANGED <<status, jobs, worker, transcript, unsound, lapses>>

Restore(p) ==
  /\ p \in damaged
  /\ damaged' = damaged \ {p}
  /\ UNCHANGED <<status, jobs, worker, transcript, unsound, lapses>>

-------------------------------------------------------------------------------

Next ==
  \/ \E w \in Workers :
       \/ Claim(w) \/ Heartbeat(w) \/ Crash(w) \/ Verdict(w)
       \/ PreflightPasses(w) \/ PreflightBlocks(w) \/ PreflightWaits(w)
       \/ LeaveAlone(w) \/ StartRun(w) \/ EngineFails(w) \/ RunStops(w)
       \/ ReadDraft(w) \/ BuildFails(w)
       \/ \E ds \in SUBSET Disputes : Build(w, ds)
  \/ \E j \in Jobs : Lapse(j)
  \/ \E d \in Disputes : Resolve(d)
  \/ \E touch \in Manual : Edit(touch)
  \/ Reprocess \/ Lock \/ NewRevision \/ VerifyIntegrity
  \/ \E p \in Parts : Damage(p) \/ Restore(p)

Spec == Init /\ [][Next]_vars

-------------------------------------------------------------------------------
(* Properties.                                                             *)

\* LockedFrozen: once locked, a revision keeps its text and stays locked, also
\* when a worker that read it as a draft commits afterwards (README of
\* murailex: "locked revisions immutable").
LockedFrozen ==
  [][\A i \in DOMAIN revs : revs[i].state = "locked" => i \in DOMAIN revs' /\ revs'[i] = revs[i]]_vars

\* LockedSettled: while the latest revision is locked no region of the
\* recording is disputed, neither in its text nor in an open row, although
\* workers may still be building (lock, recordings.py:366).
LockedSettled ==
  revs # <<>> /\ Draft = 0 => Open = {} /\ \A i \in DOMAIN revs : revs[i].marks = {}

\* MarksResolvable: a region marked in the draft has an open row, so that a
\* reviewer can resolve it and the draft can be locked some day (resolve,
\* recordings.py:236; process.py:864 supersedes rows and replaces the text).
MarksResolvable == Draft # 0 => revs[Draft].marks \subseteq Open

\* ImplementsRecord: a transcript is an evidence record.  Its locked revisions
\* are the record, which only lock extends and only by undisputed texts; beside
\* it there is one draft at most, which people and the machine change in the
\* ways EvidenceRecord names, whatever workers overlap (recordings.py:360-428,
\* process.py:854-1178).
Text(r)  == [marks |-> r.marks, edits |-> r.edits]
Record   == [i \in 1 .. (IF Draft = 0 THEN Len(revs) ELSE Len(revs) - 1) |-> Text(revs[i])]
Drafts   == IF Draft = 0 THEN {} ELSE {Text(revs[Draft])}
Evidence == INSTANCE EvidenceRecord
              WITH Regions <- Disputes, Work <- Touches, record <- Record, draft <- Drafts
ImplementsRecord == Evidence!Spec

\* The inductive invariant of the first three.  A worker that will write the
\* transcript read a draft, or nothing, that is no later than the latest
\* revision; only the latest revision is a draft; a locked text has no mark;
\* without a draft no row is open.
RevisionsChain == \A i \in DOMAIN revs : i < Len(revs) => revs[i].state = "locked"
ReadsExist     == \A w \in Workers : worker[w].draft <= Len(revs)
LockedUnmarked == \A i \in DOMAIN revs : revs[i].state = "locked" => revs[i].marks = {}
OpenHasDraft   == Draft = 0 => Open = {}

RecIInv == /\ RecTypeOK
           /\ RevisionsChain
           /\ ReadsExist
           /\ LockedUnmarked
           /\ OpenHasDraft
           /\ MarksResolvable

\* RebuildKeepsReview: rebuilding never drops what a person put into a
\* transcript: "Such a draft may be rebuilt in place (audited); anything a
\* reviewer touched may not" (regenerable_draft, process.py:472).
RebuildKeepsReview ==
  [][\A i \in DOMAIN revs : i \in DOMAIN revs' => revs[i].edits \subseteq revs'[i].edits]_vars

\* FailureBlocksLocking: after a failed integrity verification no revision is
\* locked before one passes: it "blocks locking, summaries and exports until a
\* later verification passes again" (integrity.py:5).
Locked(i) == i \in DOMAIN revs /\ revs[i].state = "locked"
FailureBlocksLocking ==
  [][unsound => \A i \in DOMAIN revs : revs'[i].state = "locked" => Locked(i)]_vars
===============================================================================
