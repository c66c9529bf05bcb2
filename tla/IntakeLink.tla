----------------------------- MODULE IntakeLink -----------------------------
(***************************************************************************)
(* One-time client intake links of career-gate, and the staging of the     *)
(* submission that spends one: the table client_import_links, the public   *)
(* POST handler, stageMobileImportV2 and the staff operations a submission *)
(* can race with.                                                          *)
(*                                                                         *)
(* A link without a target stages a case of its own.  The batch's          *)
(* idempotency key is derived from the link alone, so at most one such     *)
(* case exists at a time: it goes by the link's name.  A request carries   *)
(* information and at least one document; the model keeps which requests'  *)
(* information and documents a case holds, and whom its draft names.       *)
(*                                                                         *)
(* A request lives at most maxDuration = 60 seconds; a link is stale after *)
(* 15 minutes.  So no request on a link outlives its staleness.            *)
(***************************************************************************)
EXTENDS Naturals, FiniteSets

CONSTANTS
  Links,      \* rows of client_import_links
  Targets,    \* import cases that exist before any link is issued
  Requests,   \* POST requests, each made once
  Office,     \* staff and the reading of documents, as authors of a case's draft
  Applicants, \* persons sameApplicant can recognise
  Unknown,    \* one it cannot: no e-mail, or fewer than two identity signals
  NoCase      \* a null import_case_id

Cases == Links \cup Targets

ASSUME NamesAssumption ==
  /\ Links \cap Targets = {}
  /\ NoCase \notin Cases
  /\ Office \notin Requests
  /\ Unknown \notin Applicants

VARIABLES
  status,     \* client_import_links.status, "absent" before the link is issued
  expired,    \* expires_at <= now()
  since,      \* processing_started_at: "null", within 15 minutes, or "old"
  importCase, \* import_case_id
  case,       \* client_import_cases.status: "absent", "open" or APPROVED_FILE
  who,        \* the applicant the case's draft names
  content,    \* the authors of the case's draft: requests, the office
  documents,  \* requests whose documents the case holds, stored and recorded
  pc,         \* where a request is
  sent,       \* the link a request was sent to and the applicant it names
  answer,     \* the request's answer, decided or given
  match       \* the case a request was refused as a duplicate of

links == <<status, expired, since, importCase>>
store == <<case, who, content, documents>>
reqs  == <<pc, sent, answer, match>>
vars  == <<links, store, reqs>>

LinkStatus == {"absent", "ACTIVE", "PROCESSING", "USED", "REVOKED"}
Places     == {"new", "claimed", "opened", "probed", "locked", "uploading", "staged", "releasing", "done"}
Answers    == {"none", "received", "refused", "duplicate", "failed", "not_closed"}
Named      == Applicants \cup {Unknown}
NotSent    == [link |-> NoCase, who |-> Unknown]

Link(r)     == sent[r].link
Targeted(l) == importCase[l] # NoCase /\ status[l] # "USED"
\* The case a request's submission goes to.
CaseOf(l)   == IF importCase[l] # NoCase THEN importCase[l] ELSE l
\* Inside a submission: the request holds its link and has not been answered.
Live(r)     == pc[r] \notin {"new", "done"}

Goto(r, place)        == pc' = [pc EXCEPT ![r] = place]
Decide(r, place, ans) == Goto(r, place) /\ answer' = [answer EXCEPT ![r] = ans]

-----------------------------------------------------------------------------
Init ==
  /\ status     = [l \in Links |-> "absent"]
  /\ expired    = [l \in Links |-> FALSE]
  /\ since      = [l \in Links |-> "null"]
  /\ importCase = [l \in Links |-> NoCase]
  /\ case       = [c \in Cases |-> IF c \in Targets THEN "open" ELSE "absent"]
  /\ \E f \in [Targets -> Named] :
       who = [c \in Cases |-> IF c \in Targets THEN f[c] ELSE Unknown]
  /\ content    = [c \in Cases |-> IF c \in Targets THEN {Office} ELSE {}]
  /\ documents  = [c \in Cases |-> {}]
  /\ pc         = [r \in Requests |-> "new"]
  /\ sent       = [r \in Requests |-> NotSent]
  /\ answer     = [r \in Requests |-> "none"]
  /\ match      = [r \in Requests |-> NoCase]

-----------------------------------------------------------------------------
(* Staff.                                                                  *)

\* issueIntakeLink refuses a target whose status is closed.  'ARCHIVED', the
\* other status it asks for, is none a case can have: archiving sets
\* archived_at, which nothing here reads, and keeps the office from approving
\* the case.  It has no variable: SmartReview has it.
Issue(l, target) ==
  /\ status[l] = "absent"
  /\ target # NoCase => case[target] = "open"
  /\ status'     = [status EXCEPT ![l] = "ACTIVE"]
  /\ importCase' = [importCase EXCEPT ![l] = target]
  /\ UNCHANGED <<expired, since, store, reqs>>

Revoke(l) ==
  /\ status[l] \in {"ACTIVE", "PROCESSING"}
  /\ status' = [status EXCEPT ![l] = "REVOKED"]
  /\ since'  = [since EXCEPT ![l] = "null"]
  /\ UNCHANGED <<expired, importCase, store, reqs>>

\* The office's hand in a case: its draft may name anybody afterwards.
OfficeWrites(c) ==
  /\ \E p \in Named : who' = [who EXCEPT ![c] = p]
  /\ content' = [content EXCEPT ![c] = @ \cup {Office}]

\* saveImportReview stores the reviewer's draft, and the extraction what it read
\* in the documents; the latter asks for the status alone.  Neither takes the
\* e-mail's lock.
Rewrite(c) ==
  /\ case[c] = "open"
  /\ OfficeWrites(c)
  /\ UNCHANGED <<links, case, documents, reqs>>

\* approveImportCase makes the client of the approver's draft.
Approve(c) ==
  /\ case[c] = "open"
  /\ OfficeWrites(c)
  /\ case' = [case EXCEPT ![c] = "APPROVED_FILE"]
  /\ UNCHANGED <<links, documents, reqs>>

-----------------------------------------------------------------------------
(* Time.                                                                   *)

Expire(l) ==
  /\ status[l] # "absent" /\ ~expired[l]
  /\ expired' = [expired EXCEPT ![l] = TRUE]
  /\ UNCHANGED <<status, since, importCase, store, reqs>>

GoStale(l) ==
  /\ since[l] = "recent"
  /\ \A r \in Requests : Live(r) => Link(r) # l
  /\ since' = [since EXCEPT ![l] = "old"]
  /\ UNCHANGED <<status, expired, importCase, store, reqs>>

-----------------------------------------------------------------------------
(* The submission.                                                         *)

\* (Mutant of Claimable: the update matches the link by its digest alone.)
ClaimableAnyway(l) == status[l] \in {"ACTIVE", "PROCESSING"} /\ ~expired[l]

Claimable(l) ==
  /\ ~expired[l]
  /\ status[l] = "ACTIVE" \/ (status[l] = "PROCESSING" /\ since[l] = "old")

\* (Mutant of Claim: processing_started_at is not set.)
ClaimUnstamped(r, l, a) ==
  /\ pc[r] = "new"
  /\ Claimable(l)
  /\ status' = [status EXCEPT ![l] = "PROCESSING"]
  /\ sent'   = [sent EXCEPT ![r] = [link |-> l, who |-> a]]
  /\ Goto(r, "claimed")
  /\ UNCHANGED <<expired, since, importCase, store, answer, match>>

\* One UPDATE takes the link; a request it refuses changes nothing.
Claim(r, l, a) ==
  /\ pc[r] = "new"
  /\ Claimable(l)
  /\ status' = [status EXCEPT ![l] = "PROCESSING"]
  /\ since'  = [since EXCEPT ![l] = "recent"]
  /\ sent'   = [sent EXCEPT ![r] = [link |-> l, who |-> a]]
  /\ Goto(r, "claimed")
  /\ UNCHANGED <<expired, importCase, store, answer, match>>

\* The issuer must still be an active manager and the target open; otherwise
\* the link is given back.
CheckIssuer(r) ==
  /\ pc[r] = "claimed"
  /\ \/ Decide(r, "releasing", "refused")
     \/ /\ Targeted(Link(r)) => case[CaseOf(Link(r))] = "open"
        /\ Goto(r, "opened") /\ UNCHANGED answer
  /\ UNCHANGED <<links, store, sent, match>>

\* The cases findPublicDuplicate finds: staged or canonical, whatever link
\* they came from.
Matches(a) == {c \in Cases : a # Unknown /\ case[c] # "absent" /\ who[c] = a}

RefuseDuplicate(r) ==
  \E c \in Matches(sent[r].who) :
    /\ Decide(r, "releasing", "duplicate")
    /\ match' = [match EXCEPT ![r] = c]

\* The form is read; a malformed one is refused.  Without a target the
\* applicant is looked up before anything is staged, by the form's own fields
\* alone: one whom only the free text names is not found here.
Probe(r) ==
  /\ pc[r] = "opened"
  /\ \/ Decide(r, "releasing", "refused") /\ UNCHANGED match
     \/ ~Targeted(Link(r)) /\ RefuseDuplicate(r)
     \/ Goto(r, "probed") /\ UNCHANGED <<answer, match>>
  /\ UNCHANGED <<links, store, sent>>

\* The transaction that stages a case.  The batch the key names is returned as
\* it is.
Resume(r) ==
  /\ pc[r] = "probed" /\ ~Targeted(Link(r))
  /\ case[Link(r)] # "absent"
  /\ Goto(r, "staged")
  /\ UNCHANGED <<links, store, sent, answer, match>>

\* Nobody else is in that transaction for an applicant with this e-mail.
EmailLockFree(r) ==
  \A q \in Requests \ {r} :
    pc[q] = "locked" => sent[q].who # sent[r].who \/ sent[r].who = Unknown

\* (Mutant of Lookup: the applicant is looked up without the e-mail's lock.)
LookupUnlocked(r) ==
  /\ pc[r] = "probed" /\ ~Targeted(Link(r))
  /\ case[Link(r)] = "absent"
  /\ \/ RefuseDuplicate(r)
     \/ Matches(sent[r].who) = {} /\ Goto(r, "locked") /\ UNCHANGED <<answer, match>>
  /\ UNCHANGED <<links, store, sent>>

\* Otherwise the applicant is looked up again under the e-mail's lock, which the
\* transaction holds to its end.
Lookup(r) ==
  /\ pc[r] = "probed" /\ ~Targeted(Link(r))
  /\ case[Link(r)] = "absent"
  /\ EmailLockFree(r)
  /\ \/ RefuseDuplicate(r)
     \/ Matches(sent[r].who) = {} /\ Goto(r, "locked") /\ UNCHANGED <<answer, match>>
  /\ UNCHANGED <<links, store, sent>>

\* The case is inserted and the transaction commits; its acknowledgement may be
\* lost.
Insert(r) ==
  /\ pc[r] = "locked"
  /\ case'    = [case EXCEPT ![Link(r)] = "open"]
  /\ who'     = [who EXCEPT ![Link(r)] = sent[r].who]
  /\ content' = [content EXCEPT ![Link(r)] = {r}]
  /\ \/ Goto(r, "uploading") /\ UNCHANGED answer
     \/ Decide(r, "releasing", "failed")
  /\ UNCHANGED <<links, documents, sent, match>>

Upload(r) ==
  /\ pc[r] = "uploading"
  /\ documents' = [documents EXCEPT ![Link(r)] = @ \cup {r}]
  /\ Goto(r, "staged")
  /\ UNCHANGED <<links, case, who, content, sent, answer, match>>

\* An upload failed: the objects are removed and the case is deleted, unless
\* that fails too (a link issued for the case meanwhile refers to it).
UploadFails(r) ==
  LET c == Link(r) IN
  /\ pc[r] = "uploading"
  /\ \/ /\ \A l \in Links : importCase[l] # c
        /\ case'     = [case EXCEPT ![c] = "absent"]
        /\ who'      = [who EXCEPT ![c] = Unknown]
        /\ content'  = [content EXCEPT ![c] = {}]
     \/ UNCHANGED <<case, who, content>>
  /\ Decide(r, "releasing", "failed")
  /\ UNCHANGED <<links, documents, sent, match>>

\* The applicants a draft that named p may name after a submission naming q: the
\* fields q's form gives replace the draft's where staff have not set them.
Corrected(p, q) == IF p = q /\ p # Unknown THEN {p} ELSE Named

\* The write of appendLinkedClientIntake: the case, its documents and the link
\* commit together.  Nobody looks for other cases of the applicant, here or in
\* Probe; a name or birth date that contradicts the draft's is refused, which is
\* among StageTarget's failures.
Append(r) ==
  LET c == CaseOf(Link(r)) IN
  /\ \E p \in Corrected(who[c], sent[r].who) : who' = [who EXCEPT ![c] = p]
  /\ content' = [content EXCEPT ![c] = @ \cup {r}]
  /\ status'  = [status EXCEPT ![Link(r)] = "USED"]
  /\ since'   = [since EXCEPT ![Link(r)] = "null"]
  /\ UNCHANGED <<expired, importCase, case>>

\* (Mutants of StageTarget: the link's, or the case's, state is not asked for
\* again under the row locks.)
StageTargetAnyLink(r) ==
  LET c == CaseOf(Link(r)) IN
  /\ pc[r] = "probed" /\ Targeted(Link(r))
  /\ case[c] = "open"
  /\ Append(r)
  /\ documents' = [documents EXCEPT ![c] = @ \cup {r}]
  /\ Goto(r, "staged")
  /\ UNCHANGED <<answer, sent, match>>

StageTargetAnyCase(r) ==
  LET c == CaseOf(Link(r)) IN
  /\ pc[r] = "probed" /\ Targeted(Link(r))
  /\ status[Link(r)] = "PROCESSING"
  /\ Append(r)
  /\ documents' = [documents EXCEPT ![c] = @ \cup {r}]
  /\ Goto(r, "staged")
  /\ UNCHANGED <<answer, sent, match>>

\* The files are uploaded first and removed again when the transaction does
\* not succeed, or seems not to.
StageTarget(r) ==
  LET c == CaseOf(Link(r)) IN
  /\ pc[r] = "probed" /\ Targeted(Link(r))
  /\ \/ /\ case[c] = "open" /\ status[Link(r)] = "PROCESSING"
        /\ Append(r)
        /\ \/ /\ documents' = [documents EXCEPT ![c] = @ \cup {r}]
              /\ Goto(r, "staged") /\ UNCHANGED answer
           \/ Decide(r, "releasing", "failed") /\ UNCHANGED documents
     \/ Decide(r, "releasing", "failed") /\ UNCHANGED <<links, store>>
  /\ UNCHANGED <<sent, match>>

\* Anything else the staging throws: limits, provider, database.
StageFails(r) ==
  /\ pc[r] \in {"opened", "probed", "locked"}
  /\ Decide(r, "releasing", "failed")
  /\ UNCHANGED <<links, store, sent, match>>

\* finalizeIntakeLink.  The case is the link's target or its own.
Finalize(r) ==
  LET l == Link(r)
      closed == status[l] = "USED" /\ importCase[l] = CaseOf(l)
  IN
  /\ pc[r] = "staged"
  /\ IF status[l] = "PROCESSING"
     THEN /\ status'     = [status EXCEPT ![l] = "USED"]
          /\ importCase' = [importCase EXCEPT ![l] = CaseOf(l)]
          /\ since'      = [since EXCEPT ![l] = "null"]
     ELSE UNCHANGED <<status, importCase, since>>
  /\ Decide(r, "done", IF status[l] = "PROCESSING" \/ closed THEN "received" ELSE "not_closed")
  /\ UNCHANGED <<expired, store, sent, match>>

\* The call threw before or after its update.
FinalizeFails(r) ==
  LET l == Link(r) IN
  /\ pc[r] = "staged"
  /\ \/ UNCHANGED links
     \/ /\ status[l] = "PROCESSING"
        /\ status'     = [status EXCEPT ![l] = "USED"]
        /\ importCase' = [importCase EXCEPT ![l] = CaseOf(l)]
        /\ since'      = [since EXCEPT ![l] = "null"]
        /\ UNCHANGED expired
  /\ Decide(r, "releasing", "failed")
  /\ UNCHANGED <<store, sent, match>>

\* (Mutant of Release: whatever the link's status.)
ReleaseAny(r) ==
  /\ pc[r] = "releasing"
  /\ status' = [status EXCEPT ![Link(r)] = "ACTIVE"]
  /\ since'  = [since EXCEPT ![Link(r)] = "null"]
  /\ Goto(r, "done")
  /\ UNCHANGED <<expired, importCase, store, sent, answer, match>>

\* releaseIntakeLink, and the answer.
Release(r) ==
  LET l == Link(r) IN
  /\ pc[r] = "releasing"
  /\ IF status[l] = "PROCESSING" /\ ~expired[l]
     THEN /\ status' = [status EXCEPT ![l] = "ACTIVE"]
          /\ since'  = [since EXCEPT ![l] = "null"]
     ELSE UNCHANGED <<status, since>>
  /\ Goto(r, "done")
  /\ UNCHANGED <<expired, importCase, store, sent, answer, match>>

\* The process died or the platform ended the request: nobody is answered.
Crash(r) ==
  /\ Live(r)
  /\ Decide(r, "done", "none")
  /\ UNCHANGED <<links, store, sent, match>>

-----------------------------------------------------------------------------
Submit(r) ==
  \/ CheckIssuer(r) \/ Probe(r) \/ Resume(r) \/ Lookup(r) \/ Insert(r) \/ Upload(r) \/ UploadFails(r)
  \/ StageTarget(r) \/ StageFails(r) \/ Finalize(r) \/ FinalizeFails(r) \/ Release(r)

Next ==
  \/ \E l \in Links :
       \/ \E target \in Cases \cup {NoCase} : Issue(l, target)
       \/ Revoke(l) \/ Expire(l) \/ GoStale(l)
       \/ \E r \in Requests, a \in Named : Claim(r, l, a)
  \/ \E c \in Cases : Rewrite(c) \/ Approve(c)
  \/ \E r \in Requests : Submit(r) \/ Crash(r)

Spec == Init /\ [][Next]_vars

-----------------------------------------------------------------------------
TypeOK ==
  /\ status     \in [Links -> LinkStatus]
  /\ expired    \in [Links -> BOOLEAN]
  /\ since      \in [Links -> {"null", "recent", "old"}]
  /\ importCase \in [Links -> Cases \cup {NoCase}]
  /\ case       \in [Cases -> {"absent", "open", "APPROVED_FILE"}]
  /\ who        \in [Cases -> Named]
  /\ content    \in [Cases -> SUBSET (Requests \cup {Office})]
  /\ documents  \in [Cases -> SUBSET Requests]
  /\ pc         \in [Requests -> Places]
  /\ sent       \in [Requests -> [link : Links \cup {NoCase}, who : Named]]
  /\ answer     \in [Requests -> Answers]
  /\ match      \in [Requests -> Cases \cup {NoCase}]
  /\ \A l \in Links : /\ status[l] = "PROCESSING" <=> since[l] # "null"
                      /\ status[l] = "USED" => importCase[l] # NoCase

\* "Exactly one concurrent request can win": no two requests are inside a
\* submission through the same link, stale recovery included.
OneHolder ==
  \A r, q \in Requests : Live(r) /\ Live(q) /\ Link(r) = Link(q) => r = q

\* A case a link staged and nobody has written to since.
OwnOnly(c) == case[c] # "absent" /\ content[c] \subseteq {r \in Requests : Link(r) = c}

\* Links never stage two cases for one applicant the identity rule recognises,
\* however many are submitted at once.  (A submission to a target, a reviewer or
\* the extraction may still make one case name the applicant of another.)
StagedOnce ==
  \A c, d \in Cases : OwnOnly(c) /\ OwnOnly(d) /\ who[c] = who[d] /\ who[c] # Unknown => c = d

\* "Submits exactly once": at most one request through a link is told that
\* its information was received.
ReceivedOnce ==
  \A r, q \in Requests :
    answer[r] = "received" /\ answer[q] = "received" /\ Link(r) = Link(q) => r = q

\* USED and REVOKED are final, whatever late release or finalization arrives.
SpentForGood ==
  [][\A l \in Links : status[l] \in {"USED", "REVOKED"} => status'[l] = status[l]]_vars

\* An approved case is what staff approved: a submission that claimed its link
\* before the approval does not change the case after it.
ApprovedUntouched ==
  [][\A c \in Targets : case[c] = "APPROVED_FILE" => UNCHANGED <<who[c], content[c], documents[c]>>]_vars

\* Once staff have revoked a link, its submission no longer reaches the case
\* the link was issued for.
RevokedReachesNoTarget ==
  [][\A r \in Requests, c \in Targets :
       r \in content'[c] \ content[c] => status[Link(r)] # "REVOKED"]_vars

-----------------------------------------------------------------------------
(* What the documentation says and the code does not do.                   *)

\* "A retry after a crash ... reaches the same staged case": a request is
\* never turned away as a duplicate of the case its own link staged.
NotItsOwnDuplicate ==
  \A r \in Requests : answer[r] = "duplicate" => match[r] # Link(r)

\* "Only a submission whose staging succeeded moves the link to USED": the
\* case a used link created holds the information and the documents of one.
UsedMeansStaged ==
  \A l \in Links : status[l] = "USED" /\ importCase[l] = l => content[l] \cap documents[l] # {}
=============================================================================
