# Verification of the Alhijrah caseflow repository

The repository holds three products that share no process and no database:

- **caseflow**: an immigration case-management server in Node.js over Supabase
  and an object store (`src/src`, `src/supabase`);
- **career-gate**: a recruiting office in Next.js over its own Supabase
  (`src/career-gate`);
- **murailex**: a transcription service that treats its output as legal evidence:
  FastAPI, a worker, PostgreSQL and an object store (`src/murailex`).

What makes all three hard is the same: long work is done by processes that may
die, lose their lease or answer twice, while people decide over the same rows
through requests that read a row, wait for something, and write it. The modules
here describe those protocols; TLC checks them on small instances, and the
invariants that carry them are proved with TLAPS for every size.

Paths below are relative to the repository; line numbers are in PROJECT.json,
where every definition is mapped to the code it stands for.

## 1. Inventory

### caseflow

| Part | State | Operations | What is hard |
| --- | --- | --- | --- |
| background queue (`20260830150000_durable_background_processing.sql`, `server.js` 547, 632-646) | `background_jobs` rows: status, attempts, lease token and expiry | enqueue, claim, heartbeat, complete, fail, retry | a worker without its lease goes on and reports late; a retry request acts on a status it read earlier; the last attempt dies |
| document pipeline (`server.js` 160-187, 568-670, 2257-2385; `*_functional_convergence.sql`, `*_atomic_document_review_convergence.sql`) | documents, extraction runs, requests, tasks | upload, extraction, recovery, retry, decide, claim and commit a run, archive | none of the executor's writes is fenced by its lease; the trigger that keeps request and task in step fires only on a change |
| import batches (`server.js` 536-544, 636-648, 1355-1363) | batches, rows, created clients | upload, process a row, recover, retry | a crash between the client's creation and the row's update |
| official forms, AI reviews (`server.js` 309-319, 549-567) | form versions, review runs | queue, execute, retry | output written before the job is reported |
| authorization (`access.js`) | policies, a cache per process | resolve, grant, restrict | a decision from a ten-second-old cache |
| sessions, cases, tasks, billing, appointments | rows | one request, one update | little |

The queue is called by every executor; the document pipeline is the one whose
rows people write at the same time.

### career-gate

| Part | State | Operations | What is hard |
| --- | --- | --- | --- |
| client intake links (`lib/client-intake-link.ts`, `app/api/public/client-intake/[token]/route.ts`, `lib/smart-client-mobile.ts`) | links, staged cases, stored documents | issue, revoke, claim, stage, finalize, release | two browsers, stale recovery, a crash at every await, approval and revocation racing a submission |
| smart client review (`lib/smart-client-import.ts`, `lib/smart-client-mobile.ts`, `lib/smart-auto-approval.ts`) | cases, their documents, clients | start, save, verify, approve, archive, reattach, extract, auto-approve | a review saved over a newer one; an extraction of many seconds that ends after people have gone on; two approvals of one person |
| review drafts (`components/staff/SmartCareerCollectClient.tsx`, `useVersionedReviewDraft.ts`, `lib/review-offline-drafts.ts`) | a draft per case in the tab's session storage | edit, keep, queue, synchronize, restore, discard | edits typed while an answer is on its way; requests that arrive after they were given up; drafts of an old version |
| jobs (`lib/jobs.ts`, migration 002) | a second leased queue | enqueue, claim, run, expire | the visibility timeout against a handler that is slow, not dead |
| accounting, commissions (`lib/accounting-*.ts`, `app/api/staff/accounting/route.ts`) | ledger entries, the account, commissions | record, refund, waive, discount, complete, decide | settlements that cross each other and take their locks in different orders |
| appointments | appointments, notifications | book, move, notify | overlap, a notification sent twice |
| manual workflow (`lib/actions.ts`, `manual-workflow.ts`, `manager-inbox.ts`, `post-payment-lifecycle.ts`) | a file's status and stage, the manager's hold | decide an interview, review, route, reconcile | triggers move a file by payment while people move it by hand |
| gate job accounts, document reading | encrypted fields, none | one request, one update | little |

### murailex

| Part | State | Operations | What is hard |
| --- | --- | --- | --- |
| recording lifecycle (`jobs.py`, `pipeline/process.py`, `api/recordings.py`, `api/integrity.py`) | recording, jobs, revisions, disputes | process, reprocess, resolve, correct, lock, revise, verify | a worker reads the draft, computes for minutes and overwrites it; verdicts by id without a fence; one status column that several writers share |
| uploads (`api/uploads.py`, `storage.py`) | sessions, parts, objects | create, put, complete, abort | a repeated part, a completion that runs twice |
| provider runs (`pipeline/process.py` 314-466) | one row per engine and recording | submit, poll, wait, resume | a restart between the submission and its record |
| consensus and alignment (`pipeline/consensus.py`, `align.py`) | none | align, vote | a pure algorithm with many edge cases |
| audit chain (`audit.py`) | hash-chained events | append, verify | writers serialized by an advisory lock |
| translations, summaries, exports | derived documents | run, review, export | a stale source revision |
| accounts and MFA, web client | sessions, attempts; none | log in, throttle | throttle counters under concurrency |

What makes each part correct is the list of properties of section 3 for the
parts that are modelled, and section 6 for the others.

## 2. Modules

```
JobLedger <--- implements --- BackgroundJobs <--- EXTENDS --- DocumentPipeline      (caseflow)
                                    |                               |
                      BackgroundJobsProofs <---------- DocumentPipelineProofs

IntakeLink --- IntakeLinkProofs                          (career-gate)
SmartReview --- SmartReviewProofs
ReviewDrafts --- ReviewDraftsProofs
Accounting --- AccountingProofs --- SetSums

EvidenceRecord <--- implements --- RecordingLifecycle --- RecordingLifecycleProofs   (murailex)
```

Each `MC...` module only declares model values and symmetries for TLC.

**BackgroundJobs.** One row per idempotency key. The four SQL functions are the
operators `Grant`, `Holds`, `Succeed` and `Fail`; the worker cycle is
`ClaimJobs`, `StartJob`, `Heartbeat`, `Complete`, `Throw`, `LoseReport` and
`Crash`; the retry endpoints are split at their await into `ReadForRetry` and
`RetryStaffJob` or `RetryDocumentJob`, and `ForgetRetry` when the request dies in
between. A lease token is a fresh UUID: the model
numbers the claims of a job and uses the number. Time is the number of
heartbeats that may still be missed.

**JobLedger** is what the queue promises, without tokens, clocks or messages: a
requested job waits, is handed to one worker or to nobody (`Take`), is decided
by whoever holds it (`Finish`), and gets its attempts anew with each retry
(`Retry`). BackgroundJobs maps to it with `Phase` (a running row is held while
its lease lasts and waits afterwards), `Owners` (the workers whose report the row
would accept) and the attempts that are left. `Retry` in the ledger acts on any
phase but a live lease it may not take: a request that read `failed` may queue a
job again that another retry has meanwhile driven to success. That is what the
code does, and the abstraction says so openly.

**DocumentPipeline** extends it with one document. Its job is a row of the queue,
and each action is what happens between two awaits. The queue's actions run
unchanged (`QueueSteps`), so an execution that lost its job goes on writing here.
What inspecting the bytes finds (`kind`) is chosen at the start; what an
execution concludes from it is `Inspects` and `ReadsPrior`.

**IntakeLink.** Links, the cases they stage and the requests that submit. A
request's place `pc` is the await it stands at, and `Crash` may stop it at each.
The duplicate lookup before staging (`Probe`) and the staging transaction
are separate steps, and so are, within the transaction, the second lookup under
the e-mail's lock (`Lookup`) and the insert (`Insert`): other writers of a case do
not take that lock. Whom a case names changes with a submission to it (`Append`)
and with what the office or the extraction writes (`Rewrite`, `Approve`). That a
case was archived has no variable here, since nothing in this protocol reads it.

**SmartReview.** The cases that IntakeLink and sheets stage, from there to the
client. Of a draft the model keeps whose client it makes: a name, or blank.
A handler is one transaction under the lock of its case row and one action. The
extraction (`enrichMobileImportCase`) is not: `ReadCase`, `MarkProcessing` and
`ReadDocuments` act on what was read without a lock, `CommitExtraction` reads
the row again and decides the automatic approval, and `AutoApprove` is another
transaction after it. `updated_at` is only ever compared for equality, so a
screen keeps whether it is still current.

**ReviewDrafts.** The other end of `Save`: one reviewer's tab, its session
storage, and the requests between it and the server, which may be lost, answered
in vain, or arrive after they were given up (`late`). A draft is the set of edits
in it, which is what tells a lost edit from a kept one. An edit is a state update
and is rendered later (`Render`), as in React, but before a round trip ends.

**Accounting.** One client's account, ledger, commission and file. A request is
one transaction: `Begin` takes its first row lock, `Acquire` the second, and its
writes happen together at the commit, since nobody sees them before. Inputs are
chosen at the commit because nothing reads them before the locks are held. Money
requests take account and client, completions client and account, decisions on a
commission the commission and the client: `DeadlockAbort` is the database failing
one of a cycle, and a request that fails or dies is rolled back (`Release`).
What row-level security hides from `for update` is `Visible`. The steps on the
client's row alone (`Desk`) are the part of the workflow that payment moves. A
file is set aside (`SetAside`) while a manager holds it or after it was cancelled;
payment and paperwork pass it by, but people may cancel a file and move it back.

**RecordingLifecycle.** One recording. A text is what reviewers can tell apart:
the disputed regions marked in it and the human work it carries. A worker's
`Execution` has the stage it is at, the draft it read and the disputes it will
supersede. Handlers of the API are single steps: each takes the row lock of the
draft or the audit lock (`audit.py:41`) before its first write and holds it to
the commit. The worker's steps end at each commit, and at the read of the draft
(`process.py:858`), because nothing locks the draft between that read and the
first audited write. One path of the build has no action: `process.py:1042-1062`
would commit superseded disputes and a failed status without the content, for a
column that no region classifies and that is in none, of which there is no such.

**EvidenceRecord** is what a transcript promises those who rely on it: a record
of locked texts that only grows, each undisputed when it was added, and at most
one draft beside it. RecordingLifecycle maps to it by the texts of its locked
revisions (`Record`) and of its draft (`Drafts`); workers, jobs, rows, the
recording's status and stored hashes are gone. That `Machine` may overwrite any
draft, people's work included, is what the code does (`RebuildKeepsReview`
fails), and the abstraction says so openly.

**SetSums** holds what the proofs about money need of sums over finite sets. Its
`Total` is the fold Accounting uses.

## 3. Runs

| Run | Question | Result |
| --- | --- | --- |
| `jobs` | leases, tokens, attempts, retries, progress, refinement of `JobLedger` | holds |
| `documents_review` | human approval, single commit, one verdict, open tasks | holds |
| `documents_recovery` | open tasks and queueing after crashes, outages and overlapping executions | holds |
| `intake_safety` | exclusivity, no applicant staged twice, approval and revocation against a submission | holds |
| `smart_review` | duplicates, saves over each other, late extractions, automatic approval | holds |
| `smart_review_unread` | was every document of an automatically approved client read? | not one attached during the extraction |
| `review_drafts` | are edits kept, and is nobody's write replaced unseen? | holds |
| `review_drafts_stale` | does a stale draft stay stale? | not when it is restored after a reload |
| `accounting` | commissions, refunds, files in step with payment, files set aside | holds |
| `accounting_completion` | can staff record their own completion? | not those who are not management, once there is an account |
| `recording_safety` | locked revisions, settled disputes, resolvable marks | holds |
| `recording_rebuild` | does a rebuild keep what a person touched? | not what they touched while it ran |

A `violation` run checks one sentence of the repository against the code; the
sentence and the line that breaks it are in PROJECT.json under `findings`.

Seven more configurations each show a weakness of the code by a counterexample
(`tlc -config X.cfg MC...`). They are not among the runs and stand for entries
of the hazard list: `BackgroundJobs_stranded` (a lease that lapses on the last
attempt is never reclaimed), `DocumentPipeline_exhausted` (`QUEUED` written over
a failure leaves a job nobody restarts), `DocumentPipeline_finalize` (a
confirmation does not finalize a document already approved),
`DocumentPipeline_decision` (a review in progress is written over a decision),
`IntakeLink_retry` (a retry is refused as the duplicate of its own case),
`IntakeLink_documents` (a crash leaves a used link's case without documents), and
`RecordingLifecycle_integrity` (a failed verification does not keep blocking the
lock).

### Properties

*Queue.* `OneLiveHolder`: of all claims of a job in workers' hands the database
would accept a report on one at most. `VerdictByHolder`: a job is decided only by
the worker executing it under its live lease. (`AttemptBudget`, at most
`max_attempts` claims for the first request and for every retry, vanished attempts
included, is proved and has no run. It counts the retries over all jobs, so the
bound is exact for one.)
`LiveLeaseRespected`: no retry ends a live lease of a job of the staff endpoints
(the document endpoint does clear it, which is why it is excepted).
`DecidedOrStranded`: every requested job is decided, or lost its last attempt.
`ImplementsLedger`: every step is one of JobLedger or none.

*Documents.* `ApprovedByHuman`: nothing reads approved or verified that no person
approved or confirmed. `CommittedOnce`: a run enters the canonical record once,
also when its review was taken over after five minutes. `OneDecider`: of people
who decide at once one goes on to write the request and the task. `ReviewHasTask`:
a document waiting for a person who has not decided has an open task, whichever
execution or reviewer wrote last. `UploadReachesQueue`: an accepted upload gets its
job although the request that should have queued it died. None of them says that
the document goes on reading what was decided, and it does not: an execution, or a
run opened in another tab, writes `review_status` over the decision
(`DocumentPipeline_decision`).

*Links.* `OneHolder`, `ReceivedOnce`, `SpentForGood`: one submission at a time,
one success, and no way back from USED or REVOKED. `StagedOnce`: links never stage
two cases for one applicant, however many are submitted at once. It speaks of
cases nobody has written to since: a submission to a target skips the lookup and
writes the applicant into that case, and a reviewer's save or the extraction may
name anybody, so one applicant can still be named by two cases.
`ApprovedUntouched`, `RevokedReachesNoTarget`: approval and revocation of a link's
target that come between the claim and the transaction win.

*Review.* `OneClientPerPerson`: of all cases that name one applicant one becomes a
client. `ApprovedIsTheClient`: an approved case has exactly one client, named as its
draft, also after a late extraction or submission. `SeenBeforeReplaced`: a save or
an approval replaces only what the reviewer's screen showed. `ReviewedValueKept`,
`AutoApprovalLeavesPeople`: what people entered or opened is not taken by the
extraction or the applicant. (`ReviewerKept`, that a case stays with its first
reviewer, is proved and has no run.)
Against the code: `AutoApprovedWasRead`.

*Drafts.* `NothingLost`: an edit is on the screen, in the storage or at the server
until the reviewer gives it up; a reload may take what the timer has not reached.
`OverwrittenInSight`: what another person saved leaves the case only after this
review has shown it, however late a draft arrives. More is not true: the offer to
restore a draft survives a reload, so a reviewer who has seen the new version may
put the old draft over it. Against the code: `StaleStaysStale`, which forbids that.

*Money.* `CommissionFollowsPayment`: a live commission belongs to the recorded
completer of an account that is paid now. `PaidHasEarned`: a paid account of a
completer with a rule has had its commission, whichever of payment, discount and
completion came last. `RefundsBounded`: refunds never exceed their payment.
`InStepUnlessSetAside`: whatever changes ledger, account or paperwork leaves the
file in step with them, also one moved out of step by hand, and leaves a held or
cancelled file where it is. `HeldFileStays`: nothing moves a held file. What the
code does and no property forbids: a file released with its position kept, or
moved back after a cancellation, stays out of step until the next event, and an
account that is paid again keeps its reversed commission. Against the code: `OwnCompletionRecorded`.

*Recordings.* `LockedFrozen`: a locked revision never changes, although workers
that read it as a draft commit later. `LockedSettled`: while the latest revision
is locked nothing is disputed, in the text or in a row. `MarksResolvable`: every
marked region has the open row it is resolved by, although overlapping workers
supersede each other's disputes. `ImplementsRecord`: every step is one of
EvidenceRecord or none. Against the code: `RebuildKeepsReview`.

### Bounds, and why they are enough

- `MaxAttempts` 2 and `MaxRetries` 1 in the queue: a lease can be lost and
  reclaimed, the last attempt fail, the job be retried, and the same happen
  again. `ClaimLimit` 2 makes a worker hold a lease it has not reached yet.
  `LeaseTerm` 1: one missed heartbeat more or less only delays a lapse.
- Two clerks: one reads `failed`, the other's retry is claimed, the first writes.
  Only retries that reach a row count towards `MaxRetries`, so the stale one still
  happens. A second accepted retry is left to the proofs, which bound nothing.
- Documents: the queue is kept small (`MaxAttempts` 1) because its own run covers
  it; `documents_review` has two reviewers, `documents_recovery` two workers that
  overlap. `MaxRuns` bounds extraction runs, `MaxMoves` archivings. `Kinds` is
  every outcome in the review run and only the identity image, the one with
  a review, in the recovery run.
- Links: two links, two requests (the least that race), one applicant and an
  unrecognisable one, one target that names either of them at the start.
- Recordings: two workers, the upload's job and one reprocess, `MaxLapses` 1 (more
  overlap comes from unfenced verdicts, which need no lapse), two revisions.
  `Parts` is the original only, since a damaged working copy differs only in not
  stopping `Lock`; `RecordingLifecycle_integrity.cfg` has both. One
  dispute per recording keeps the run short; the same instance with two disputes
  (3.2 million states) passes as well.

- Review: one mobile case with one document, two managers, one extraction at a
  time; a second case from a sheet (`SheetCasesAreSimple`) is there to be approved
  for the same person and is otherwise left alone. Two extractions of one case
  only repeat each other's commits; the proofs allow any number.
- Drafts: `MaxEdits` 2 (a draft and a newer one), `MaxOthers` 1, and `FewLate`
  bounds the requests that were given up and have not arrived. The proofs allow
  any number of each.
- Accounting: two sessions (a lock cycle has two members), three keys (a payment
  and two refunds of it, or two payments and a refund), `Fee` 2 of amounts 1 (unpaid,
  partly and fully paid, and a discount between), a manager and a worker with a
  commission rule. Any sessions, keys, fee and amounts are the proofs' business.

`CHECK_DEADLOCK FALSE` is set where the work of an instance may simply be done:
all jobs decided, all requests answered. A recording can always be verified
again, so its runs check deadlock.

### Fairness

`FairSpec` of the queue: some process polls every two seconds and claims what is
claimable, a process that claimed a batch works through it, an executor ends
(every call it awaits returns or times out), and time passes. Nothing is assumed
of clerks, crashes or failing calls. `RecoverySpec` of the documents: the recovery
cycle runs every minute, and the insert it repeats does not fail for ever (strong
fairness on the enabled insert). The other runs check safety and assume nothing.

## 4. Proofs

All theorems hold for every value of the constants under the named assumptions
of the modules (bounds are naturals, sets of names are disjoint).

**BackgroundJobsProofs.** `OneLiveHolder` is not inductive: it says nothing of
where tokens come from. `IInv` adds that the row has a token exactly while
running and that it is the latest one minted (`LeaseShape`), that claims in hand
carry minted tokens (`ClaimsAreMinted`), that no two workers hold the same claim
(`ClaimsAreExclusive`) and that the claims so far are covered by the retries and
the attempts of the current request (`ClaimsAreCounted`). From it follow
`TypeCorrect`, `Fencing`, `Budget`, and, with a case on the step, `Verdicts` and
`LeasesRespected`.

`Implementation`: the queue implements JobLedger.
Besides `IInv` it needs that what a clerk read was a row and that rows are never
deleted (`ReadsAreRows`), since the ledger retries no absent job. A worker that
drops claims, by crashing, losing a report or starting a claim, maps to `Abandon`
or to nothing; the missed heartbeat that ends a lease maps to `Lapse`; a lost
reply to a claim maps to `Take` with no owner. That `Take` names one owner at
most is where fencing is used: no older claim carries the token just minted.

**DocumentPipelineProofs.** `DocIInv` needs what an execution has in memory: it
holds the outcome "verified" only after it has seen a confirmed run
(`FindingsOK`), and confirmed runs stay confirmed because each commit confirms its
run (`CommitsConfirm`). It proves `HumanApproval` and
`SingleCommit`, and with who may decide (`Deciders`: a reviewer writes the dependents only
after the decision, and only one does) `OneVerdict`. With the order in which an
execution writes (`TaskFirst`: it reaches the update of an undecided document past
the open task) and with what closes a task (`TaskStays`: only a person's decision)
`WaitingHasTask` follows. `DocIInv` says nothing of the queue's variables: approval
by a person does not depend on leases.

`UsesQueue`: every step of the pipeline is a step of
BackgroundJobs or leaves the queue alone, for which a failing execution must carry
one of the two failure classes (`FailuresOK`). `DocumentJobFenced` carries fencing,
verdicts and the ledger over. It does not say that two executions never write to
the document at once: they may, and `ReviewHasTask` and `ApprovedByHuman` are what
holds although they do. `DocumentTypes` joins the three invariants of queue and
document: a worker is in the executor exactly while it has a job (`Attended`, for
which a claim must be told from none: tokens are never null), and what an
execution found or a reviewer decided is known before it is written (`FindingsOK`,
`DecisionsKnown`).

**IntakeLinkProofs.** `OneHolder` needs to know why nobody else can claim the
link: it is spent, revoked, or being processed and not stale (`LiveLinksHeld`;
that no request outlives its link's staleness is the guard of `GoStale`, from the
60 seconds a request may live). A received submission is over, its link USED and
nobody inside (`ReceivedIsClosed`). From them `Exclusive`, `Received` and `Final`.
`LinksStageOnce` needs that a link goes by its own case only once it is used, so that no submission appends to a case only its own link
wrote to (`OwnCases`), and that a request between its lookup and its insert has the
e-mail's lock to itself while no case of links alone names its applicant
(`LookupsHold`). `ApprovalWins` and `RevocationWins` share the lemma that a foreign
case is reached only while it is open and the link is being processed.

**RecordingLifecycleProofs.** `RecIInv`: revisions before the last are locked
(`RevisionsChain`), a worker read nothing later than the last one (`ReadsExist`),
locked texts carry no mark (`LockedUnmarked`), and without a draft no row is open
(`OpenHasDraft`), which a worker that would insert disputes respects because it
can commit only to a draft or as the first revision. It proves `Settled`,
`Resolvable`, `Frozen` and, being among its conjuncts, the types (`RecTypes`).
`EvidenceKept` is the refinement of EvidenceRecord. What it needs is that the
draft is the last revision, so that locking it appends its text to the record
(`TextsGrow`, `DraftRewritten`), and that a build commits either the first text
or over the draft: the revision its worker read exists (`ReadsExist`) and, the
database refusing locked rows, is still the draft.

**SmartReviewProofs.** `RevInv` has three independent parts. Types, with the case
of every extraction under way (`JobsHaveCases`). Clients: a client's case stays
approved under the client's name (`ClientsAreApproved`), without which an
approval could not know that its case has no client yet; from it `OneClient` and
`ApprovalSticks`. Screens: a current screen shows the draft as it is
(`ScreensAreCurrent`), and what a person edited is under review
(`EditedIsStarted`); with them `DraftStep` says who may change a draft, and
`SeenFirst`, `ReviewerWins` and `PeopleFirst` follow. `KeptReviewer` needs types
only. All checked properties of the module are proved.

**ReviewDraftsProofs.** Whether an edit is lost depends on every copy of the
draft at once: screen, storage, two kinds of request under way, and those that
were given up. `DraftInv` says of them that no version is ahead of the server's
(`Versioned`), that they hold only edits somebody made (`Made`), that what the
server would accept has the saved edits that are owed (`OwedBased`), that a saved
queued draft has overtaken every other request (`Overtaken`), and where the owed
edits are (`Accounted`). From it `DraftTypes` and `EditsNeverLost`.

What other people wrote needs that every draft holds only what the review has
shown or its author typed (`DraftsShown`), and that whatever the server would
accept carries the current version, whose content the review has shown
(`VersionsShown`). From both `NothingOverwrittenUnseen`.

**AccountingProofs.** For commissions and files no sum is unfolded: projection
and balance view read the same one. `AccInv` adds to the two commission properties
that a running request holds its first row (`FirstRowHeld`), so two settlements
never run at once; that a completion holding both rows has passed the guard
(`CompletionCleared`: no one who could change its answer gets the client's row in
between); and that who decides a commission has one (`CommissionNamed`). From it
`AccTypes`, `CommissionSound` and `CommissionEarned`; `FilesInStep` and
`HoldRespected` rest on lemmas about reconciling and synchronizing a file, by which
either puts a file in step or, set aside, leaves it as it is.

Refunds do need the sums. The guard of a refund compares it with what earlier
refunds of the same payment add up to, so `RefundInv` has besides `RefundsBounded`
that the ledger is finite and that a refund names a recorded payment; a new entry
then changes the sum of one payment's refunds by its amount and no other sum
(`LedgerStep`, `RefundedGrows`). `RefundsWithinPayment` follows, and with the
invariant that the net credits are the adjustments and what refunds left of the
payments (`BalanceExplained`), that payments cover the refunds of the whole account
(`RefundsCovered`): only adjustments can take a balance below zero.

**SetSums.** The library's induction takes an operator as parameter, which the
provers cannot instantiate. Here the induction hypothesis is a value, the set of
subsets for which the claim holds: of a set of naturals without a smallest member
there is none (`SmallestNat`), so a set of subsets that contains each one whose
proper subsets it contains is all of them (`SubsetInduction`). By it the
recursive function behind the fold exists and is unique (`SumsExist`,
`SumsUnique`), and a sum is any one member and the rest (`TotalTakeOut`), on which
`TotalAdd`, `TotalChange` and `TotalBounds` rest.

Model-checked only: the two liveness properties, `DecidedOrStranded` and
`UploadReachesQueue`, which the prover does not reach. Every other property of the
passing runs is proved.

## 5. What is not modelled

- The content of a text, an image or a form: only what handlers decide by.
- Transactions of the databases are atomic and serializable where the code locks
  the row it tests; where it does not, the model splits the handler.
- Deadlock detection of PostgreSQL, which fails one transaction, except in
  Accounting, where the order of locks differs between requests.
- Review: the parsing and staging of sheets, document types and missing items (an
  approval may override them), several people on one document.
- Drafts: several tabs or cases, a full storage, the eight-hour expiry, approval
  from the screen, sign-out.
- Accounting: the versions and amounts of commission rules, reports, several
  accounts of one person, deleted clients, writers of the client's row other than
  those named (of `setStatus` only a cancellation). A waiver is an adjustment that
  credits. The statuses before the interview are one value, and their stages
  another, with the archive's.
- In murailex the read of `recordings.status` before slow hashing, in `lock` and
  `verify_integrity`: both are one step here.
- Translation and self-test jobs, which use the same queue as recordings without
  sharing rows with them.
- The requests and tasks endpoints of caseflow, where staff set by hand the rows
  the document pipeline derives.

## 6. Plan

In this order; the abstract specification of each comes first.

1. **ImportBatch** (caseflow): a row creates at most one client however often it
   is retried; every row is decided. Composed with BackgroundJobs.
2. **ProviderRuns** (murailex): one submission per engine across restarts; the
   three outcomes RecordingLifecycle takes as given.
3. **Uploads** (murailex): an abstract "one recording per session", implemented
   by parts, completion and abort.
4. **CareerJobs** (career-gate): the second queue, against the same JobLedger.
5. **Consensus**: operators against reference definitions over bounded inputs,
   in modules without theorems.
6. **AccessCache** (caseflow), login throttling (murailex).

Theorems worth proving next: an abstract one-time ticket that IntakeLink
implements, as JobLedger and EvidenceRecord are for the queue and the transcript;
then for each module above its type invariant and the safety invariant it is
there for. Runs whose question a theorem and a neighbouring run
both answer are merged as the modules above need theirs.
