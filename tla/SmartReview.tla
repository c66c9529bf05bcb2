---------------------------- MODULE SmartReview ----------------------------
(***************************************************************************)
(* The review of staged import cases in career-gate: managers open a case, *)
(* save a corrected draft, verify and approve it, while document           *)
(* extraction rewrites the draft, may approve the case by itself, and the  *)
(* applicant may still send more through a link.                           *)
(*                                                                         *)
(* Of a draft the model keeps the identity, the field that decides who the *)
(* client is: a Name, or Blank.  A Name is an applicant the identity rule  *)
(* recognises (sameApplicant, on an e-mail or phone), so two drafts of one *)
(* Name are duplicates.  Source conflicts are warnings and identity        *)
(* conflicts are found again at approval, so neither is kept.  updated_at  *)
(* is compared for equality only: a screen keeps whether it still equals   *)
(* the version the screen loaded.                                          *)
(* Every handler below is one transaction under the lock of the case row,  *)
(* except extraction, which reads, works for seconds, and then commits.    *)
(***************************************************************************)
EXTENDS Naturals, FiniteSets

CONSTANTS
  Cases,     \* rows of client_import_cases, staged with their documents
  Mobile,    \* those of source_type mobile: the others are rows of a sheet
  Managers,  \* sessions that may review, and staff a review may name
  Workers,   \* requests to the retry endpoint
  Docs,      \* documents, each attached once at most
  Names,     \* applicants
  Blank,     \* no usable full_name
  Nobody,    \* a null reviewer_id
  NoCase

ASSUME ReviewAssumption ==
  /\ Mobile \subseteq Cases
  /\ Blank \notin Names
  /\ Nobody \notin Managers
  /\ NoCase \notin Cases

Values == Names \cup {Blank}

VARIABLES
  status,     \* client_import_cases.status
  reviewer,   \* reviewer_id
  started,    \* review_started_at is set
  archived,   \* archived_at is set
  draft,      \* mapped_draft: the identity it names
  notes,      \* raw_input.notes: the identity they name
  editor,     \* field_evidence: the actor of its last MANUAL entry
  documents,  \* client_import_documents of the case
  extracted,  \* those whose extraction_metadata reads EXTRACTED
  auto,       \* verification_result.auto_approval says approved
  clients,    \* rows of clients made from cases: [case, name, docs]
  screen,     \* per manager: the case open in the browser
  job         \* per worker: the extraction under way

case == <<status, reviewer, started, archived, draft, notes, editor, auto>>
vars == <<case, documents, extracted, clients, screen, job>>

Statuses == {"PENDING", "UNDER_REVIEW", "MISSING_DOCUMENT", "APPROVED_FILE"}
NoScreen == [case |-> NoCase, draft |-> Blank, current |-> FALSE]
\* draft: the one to approve automatically, Blank when none is.
Idle     == [place |-> "idle", case |-> NoCase, notes |-> Blank, docs |-> {},
             sources |-> {}, sure |-> FALSE, draft |-> Blank]

\* (Mutant of Open: a case that has left the queue is still worked on.)
OpenAnyTime(c) == TRUE

\* The checks of a review action under the lock of the case row.
Open(c)    == status[c] # "APPROVED_FILE" /\ ~archived[c]
Manual(c)  == editor[c] # Nobody
Unused     == Docs \ UNION {documents[c] : c \in Cases}
\* findClientIdentityMatches: a client is that applicant already.
Known(n)   == \E k \in clients : k.name = n
\* Any update moves updated_at: no screen that shows c is current any more.
Touch(c)   == screen' = [m \in Managers |->
                IF screen[m].case = c THEN [screen[m] EXCEPT !.current = FALSE] ELSE screen[m]]
\* The answer carries the new version: the screen that asked stays current.
TouchBy(m, c, d) == screen' = [k \in Managers |->
                      IF k = m THEN [case |-> c, draft |-> d, current |-> TRUE]
                      ELSE IF screen[k].case = c THEN [screen[k] EXCEPT !.current = FALSE] ELSE screen[k]]

-----------------------------------------------------------------------------
\* A staged case: its draft is what the notes said.
Init ==
  /\ status    = [c \in Cases |-> "PENDING"]
  /\ reviewer  = [c \in Cases |-> Nobody]
  /\ started   = [c \in Cases |-> FALSE]
  /\ archived  = [c \in Cases |-> FALSE]
  /\ notes     \in [Cases -> Values]
  /\ draft     = notes
  /\ editor    = [c \in Cases |-> Nobody]
  /\ documents \in [Cases -> {{}} \cup {{d} : d \in Docs}]
  /\ \A c, k \in Cases : c # k => documents[c] \cap documents[k] = {}
  /\ extracted = {}
  /\ auto      = [c \in Cases |-> FALSE]
  /\ clients   = {}
  /\ screen    = [m \in Managers |-> NoScreen]
  /\ job       = [w \in Workers |-> Idle]

-----------------------------------------------------------------------------
(* The review screen.                                                      *)

\* GET: the detail of a case, refused once archived unless it was approved.
OpenCase(m, c) ==
  /\ ~archived[c] \/ status[c] = "APPROVED_FILE"
  /\ screen' = [screen EXCEPT ![m] = [case |-> c, draft |-> draft[c], current |-> TRUE]]
  /\ UNCHANGED <<case, documents, extracted, clients, job>>

\* assertReviewOwnership
Owned(c, r) == reviewer[c] \in {Nobody, r}

\* startImportReview
StartReview(m, c, r) ==
  /\ Open(c) /\ Owned(c, r)
  /\ reviewer' = [reviewer EXCEPT ![c] = r]
  /\ started'  = [started EXCEPT ![c] = TRUE]
  /\ status'   = [status EXCEPT ![c] = "UNDER_REVIEW"]
  /\ Touch(c)
  /\ UNCHANGED <<archived, draft, notes, editor, documents, extracted, auto, clients, job>>

\* (Mutant of Expected: the version is not compared.)
ExpectedAny(m, c) == screen[m].case = c

\* assertReviewVersion, for the version the screen sends.
Expected(m, c) == screen[m].case = c /\ screen[m].current

\* mergeManualEvidence: a changed or explicitly resolved field becomes MANUAL.
EditorAfter(m, c, value, resolved) == IF value # draft[c] \/ resolved THEN m ELSE editor[c]

\* saveImportReview, the response included.
Save(m, c, r, value, resolved) ==
  /\ Open(c) /\ Expected(m, c) /\ Owned(c, r)
  /\ reviewer'  = [reviewer EXCEPT ![c] = r]
  /\ started'   = [started EXCEPT ![c] = TRUE]
  /\ status'    = [status EXCEPT ![c] = IF @ = "PENDING" THEN "UNDER_REVIEW" ELSE @]
  /\ draft'     = [draft EXCEPT ![c] = value]
  /\ editor'    = [editor EXCEPT ![c] = EditorAfter(m, c, value, resolved)]
  /\ TouchBy(m, c, value)
  /\ UNCHANGED <<archived, notes, documents, extracted, auto, clients, job>>

\* verifyImportCase
Verify(m, c) ==
  /\ Open(c) /\ Expected(m, c)
  /\ LET duplicate == draft[c] # Blank /\ Known(draft[c])
         ready     == draft[c] # Blank /\ ~duplicate /\ reviewer[c] # Nobody
     IN status' = [status EXCEPT ![c] =
          IF @ # "PENDING" /\ ready /\ documents[c] = {} THEN "MISSING_DOCUMENT" ELSE "UNDER_REVIEW"]
  /\ TouchBy(m, c, draft[c])
  /\ UNCHANGED <<reviewer, started, archived, draft, notes, editor, documents, extracted, auto, clients, job>>

\* (Mutant of Approvable: the duplicate check is left to verification.)
ApprovableUnchecked(c, value) == value # Blank

\* (Mutant of Approvable: a case without a name is approved.)
ApprovableNameless(c, value) == ~Known(value)

\* verifyLockedCase and insertClient: an identity, and nobody's yet.  Both take
\* the advisory locks of the e-mail and phone until the transaction ends.
Approvable(c, value) == value # Blank /\ ~Known(value)

\* What every approval writes.
Approved(m, c, r, value, automatic) ==
  /\ Approvable(c, value)
  /\ status'    = [status EXCEPT ![c] = "APPROVED_FILE"]
  /\ reviewer'  = [reviewer EXCEPT ![c] = r]
  /\ started'   = [started EXCEPT ![c] = TRUE]
  /\ archived'  = [archived EXCEPT ![c] = TRUE]
  /\ draft'     = [draft EXCEPT ![c] = value]
  /\ editor'    = [editor EXCEPT ![c] = EditorAfter(m, c, value, FALSE)]
  /\ auto'      = [auto EXCEPT ![c] = automatic]
  /\ clients'   = clients \cup {[case |-> c, name |-> value, docs |-> documents[c]]}

\* approveImportCase from the screen.  Missing items need an override with a
\* reason, which the reviewer can always give: they are not modelled, and
\* neither is a field resolved and left as it was, which nothing reads again.
Approve(m, c, r, value) ==
  /\ Open(c) /\ Expected(m, c) /\ Owned(c, r)
  /\ Approved(m, c, r, value, FALSE)
  /\ TouchBy(m, c, value)
  /\ UNCHANGED <<notes, documents, extracted, job>>

\* archiveImportCase
Archive(c) ==
  /\ ~archived[c]
  /\ archived' = [archived EXCEPT ![c] = TRUE]
  /\ Touch(c)
  /\ UNCHANGED <<status, reviewer, started, draft, notes, editor, documents, extracted, auto, clients, job>>

-----------------------------------------------------------------------------
(* Documents that arrive late.                                             *)

\* reattachSmartImportDocuments; the archive is not asked.
Reattach(c, d) ==
  /\ status[c] # "APPROVED_FILE" /\ d \in Unused
  /\ documents' = [documents EXCEPT ![c] = @ \cup {d}]
  /\ Touch(c)
  /\ UNCHANGED <<case, extracted, clients, job>>

\* appendLinkedClientIntake: the applicant's own submission.  An identity that
\* differs from the draft's is refused; a field a reviewer entered stays.
ClientSubmits(c, given, value) ==
  /\ c \in Mobile /\ status[c] # "APPROVED_FILE"
  /\ given \subseteq Unused /\ (given # {} \/ value # Blank)
  /\ draft[c] = Blank \/ value \in {Blank, draft[c]}
  /\ documents' = [documents EXCEPT ![c] = @ \cup given]
  /\ notes'     = [notes EXCEPT ![c] = IF value = Blank THEN @ ELSE value]
  /\ draft'     = [draft EXCEPT ![c] = IF value = Blank \/ Manual(c) THEN @ ELSE value]
  /\ Touch(c)
  /\ UNCHANGED <<status, reviewer, started, archived, editor, extracted, auto, clients, job>>

-----------------------------------------------------------------------------
(* Extraction: enrichMobileImportCase.                                     *)

\* The case row, read without a lock.
ReadCase(w, c) ==
  /\ job[w].place = "idle"
  /\ c \in Mobile /\ status[c] # "APPROVED_FILE"
  /\ job' = [job EXCEPT ![w] = [Idle EXCEPT !.place = "read", !.case = c, !.notes = notes[c]]]
  /\ UNCHANGED <<case, documents, extracted, clients, screen>>

\* The documents, and the mark that extraction runs: neither asks the status.
MarkProcessing(w) ==
  LET c == job[w].case IN
  /\ job[w].place = "read"
  /\ job' = [job EXCEPT ![w].place = "reading", ![w].docs = documents[c]]
  /\ Touch(c)
  /\ UNCHANGED <<case, documents, extracted, clients>>

\* Every document of the snapshot is sent to the reader, which fails on some
\* and names at most one person each.  Whether the readings are confident
\* enough is the reader's to say.
ReadDocuments(w) ==
  /\ job[w].place = "reading"
  /\ \E read \in SUBSET job[w].docs, confident \in BOOLEAN :
       \E values \in {v \in SUBSET Names : Cardinality(v) <= Cardinality(read)} :
         /\ job' = [job EXCEPT ![w] = [Idle EXCEPT !.place = "commit", !.case = job[w].case,
                !.sources = values \cup ({job[w].notes} \ {Blank}),
                !.sure = confident /\ read = job[w].docs /\ values # {}]]
         /\ extracted' = (extracted \ job[w].docs) \cup read
  /\ UNCHANGED <<case, documents, clients, screen>>

\* mergeEvidence: the sources' identity if they agree; if not, a conflict.
Merged(sources) == IF Cardinality(sources) = 1 THEN CHOOSE n \in sources : TRUE ELSE Blank

\* (Mutant of Preserved: what a reviewer entered is replaced.)
PreservedNever(c, incoming) == incoming

\* preserveReviewedDraft
Preserved(c, incoming) ==
  IF started[c] /\ (Manual(c) \/ draft[c] # Blank) THEN draft[c] ELSE incoming

\* autoApprovalDecision: everything read, no reviewer, no conflict, a name.
Eligible(w, value) ==
  LET c == job[w].case IN
  /\ job[w].sure /\ value # Blank /\ ~started[c]
  /\ Cardinality(job[w].sources) > 1 => Manual(c)

\* The row is read again under its lock, the result is written and the
\* automatic approval decided.
CommitExtraction(w) ==
  LET c     == job[w].case
      value == Preserved(c, Merged(job[w].sources))
  IN
  /\ job[w].place = "commit"
  /\ status[c] # "APPROVED_FILE"
  /\ draft' = [draft EXCEPT ![c] = value]
  /\ job' = [job EXCEPT ![w] = [Idle EXCEPT !.place = "decided", !.case = c,
              !.draft = IF Eligible(w, value) THEN value ELSE Blank]]
  /\ Touch(c)
  /\ UNCHANGED <<status, reviewer, started, archived, notes, editor, documents, extracted, auto, clients>>

\* The commit found the case approved, or the process ended: nothing more.
Abandon(w) ==
  /\ job[w].place # "idle"
  /\ job' = [job EXCEPT ![w] = Idle]
  /\ UNCHANGED <<case, documents, extracted, clients, screen>>

\* (Mutant of Unreviewed: the decision made before the approval is trusted.)
UnreviewedStale(c) == TRUE

\* "Once a person opens the file, it is theirs to decide."
Unreviewed(c) == ~started[c] /\ reviewer[c] = Nobody

\* applyAutoApproval: the ordinary approval, of the draft that was committed,
\* in the session's name (m) and for the uploader as the reviewer (r).
AutoApprove(w, m, r) ==
  LET c == job[w].case IN
  /\ job[w].place = "decided" /\ job[w].draft # Blank
  /\ Open(c) /\ Unreviewed(c) /\ Owned(c, r)
  /\ Approved(m, c, r, job[w].draft, TRUE)
  /\ job' = [job EXCEPT ![w] = Idle]
  /\ Touch(c)
  /\ UNCHANGED <<notes, documents, extracted>>

\* Not eligible, or refused: the outcome is noted on a case not yet approved.
NoteOutcome(w) ==
  LET c == job[w].case IN
  /\ job[w].place = "decided"
  /\ job[w].draft = Blank \/ ~Open(c) \/ ~Unreviewed(c) \/ ~Approvable(c, job[w].draft)
  /\ job' = [job EXCEPT ![w] = Idle]
  /\ IF status[c] # "APPROVED_FILE" THEN Touch(c) ELSE UNCHANGED screen
  /\ UNCHANGED <<case, documents, extracted, clients>>

-----------------------------------------------------------------------------
Review(m, c) ==
  \/ OpenCase(m, c)
  \/ Verify(m, c)
  \/ \E r \in Managers : StartReview(m, c, r)
  \/ \E r \in Managers, value \in Values :
       Approve(m, c, r, value) \/ \E resolved \in BOOLEAN : Save(m, c, r, value, resolved)

Extract(w) ==
  \/ \E c \in Cases : ReadCase(w, c)
  \/ MarkProcessing(w) \/ ReadDocuments(w) \/ CommitExtraction(w) \/ Abandon(w) \/ NoteOutcome(w)
  \/ \E m, r \in Managers : AutoApprove(w, m, r)

Next ==
  \/ \E m \in Managers, c \in Cases : Review(m, c)
  \/ \E c \in Cases : Archive(c)
  \/ \E c \in Cases, d \in Docs : Reattach(c, d)
  \/ \E c \in Cases, given \in SUBSET Docs, value \in Values : ClientSubmits(c, given, value)
  \/ \E w \in Workers : Extract(w)

Spec == Init /\ [][Next]_vars

-----------------------------------------------------------------------------
ReviewTypeOK ==
  /\ status    \in [Cases -> Statuses]
  /\ reviewer  \in [Cases -> Managers \cup {Nobody}]
  /\ started   \in [Cases -> BOOLEAN]
  /\ archived  \in [Cases -> BOOLEAN]
  /\ draft     \in [Cases -> Values]
  /\ notes     \in [Cases -> Values]
  /\ editor    \in [Cases -> Managers \cup {Nobody}]
  /\ documents \in [Cases -> SUBSET Docs]
  /\ extracted \subseteq Docs
  /\ auto      \in [Cases -> BOOLEAN]
  /\ clients   \subseteq [case : Cases, name : Names, docs : SUBSET Docs]
  /\ screen    \in [Managers -> [case : Cases \cup {NoCase}, draft : Values, current : BOOLEAN]]
  /\ job       \in [Workers -> [place : {"idle", "read", "reading", "commit", "decided"},
                                case : Cases \cup {NoCase}, notes : Values, docs : SUBSET Docs,
                                sources : SUBSET Names, sure : BOOLEAN, draft : Values]]

\* An applicant is made a client once, whichever of their cases are approved,
\* by whom, and however late the automatic approval of another arrives.
OneClientPerPerson ==
  \A j, k \in clients : j.name = k.name => j = k

\* An approved case has exactly the client it was approved into, named as its
\* draft is named, whatever extraction or applicant come later.
ApprovedIsTheClient ==
  \A c \in Cases : /\ status[c] = "APPROVED_FILE" =>
                        \E k \in clients : k.case = c /\ k.name = draft[c]
                   /\ \A j, k \in clients : j.case = c /\ k.case = c => j = k

\* No reviewer's change silently replaces a draft they have not seen: what a
\* save or an approval replaces is what the reviewer's screen had loaded.
SeenBeforeReplaced ==
  [][\A c \in Cases, m \in Managers :
       draft'[c] # draft[c] /\ editor'[c] = m /\ ~auto'[c]
         => screen[m].case = c /\ screen[m].draft = draft[c]]_vars

\* A value a reviewer entered is changed by reviewers only: neither a late
\* extraction nor the applicant's submission replaces it.
ReviewedValueKept ==
  [][\A c \in Cases : Manual(c) /\ draft'[c] # draft[c] =>
       \E m \in Managers : screen[m].case = c /\ screen'[m].draft = draft'[c] /\ screen[m].current]_vars

\* A case a person has opened for review is never approved automatically.
AutoApprovalLeavesPeople ==
  [][\A c \in Cases : auto'[c] /\ ~auto[c] => reviewer[c] = Nobody /\ ~Manual(c)]_vars

\* A case stays with the reviewer it was first given to, approval included.
ReviewerKept ==
  [][\A c \in Cases : reviewer[c] # Nobody => reviewer'[c] = reviewer[c]]_vars

-----------------------------------------------------------------------------
(* What the documentation says and the code does not do.                   *)

\* "Every uploaded document was read": an automatically approved client has no
\* document that extraction did not read.
AutoApprovedWasRead ==
  \A k \in clients : auto[k.case] => k.docs \subseteq extracted
=============================================================================
