--------------------------- MODULE IntakeLinkProofs ---------------------------
(***************************************************************************)
(* What holds of intake links for any number of links, targets, requests   *)
(* and applicants.                                                         *)
(***************************************************************************)
EXTENDS IntakeLink, TLAPS

\* A request inside a submission has a link that nobody else can claim: it is
\* spent, revoked, or being processed and not yet stale.
LiveLinksHeld ==
  \A r \in Requests : Live(r) =>
    /\ Link(r) \in Links
    /\ status[Link(r)] \in {"PROCESSING", "USED", "REVOKED"}
    /\ since[Link(r)] # "old"

\* A submission that was received is over, and so is its link.
ReceivedIsClosed ==
  \A r \in Requests : answer[r] = "received" =>
    /\ pc[r] = "done"
    /\ Link(r) \in Links
    /\ status[Link(r)] = "USED"
    /\ \A q \in Requests : Live(q) => Link(q) # Link(r)

LinkIInv == TypeOK /\ LiveLinksHeld /\ OneHolder /\ ReceivedIsClosed

LEMMA InitLinkIInv == Init => LinkIInv
BY NamesAssumption DEF Init, LinkIInv, TypeOK, LiveLinksHeld, OneHolder, ReceivedIsClosed, Named, Cases,
   Live, LinkStatus, Places, Answers, NotSent

\* The case a submission goes to is one of the cases.
LEMMA CaseOfIsCase ==
  ASSUME TypeOK, NEW l \in Links
  PROVE  CaseOf(l) \in Cases
BY DEF TypeOK, CaseOf, Cases

\* The types, by whose variables they are.
LinksOK ==
  /\ status     \in [Links -> LinkStatus]
  /\ expired    \in [Links -> BOOLEAN]
  /\ since      \in [Links -> {"null", "recent", "old"}]
  /\ importCase \in [Links -> Cases \cup {NoCase}]
  /\ \A l \in Links : /\ status[l] = "PROCESSING" <=> since[l] # "null"
                      /\ status[l] = "USED" => importCase[l] # NoCase
StoreOK ==
  /\ case      \in [Cases -> {"absent", "open", "APPROVED_FILE"}]
  /\ who       \in [Cases -> Named]
  /\ content   \in [Cases -> SUBSET (Requests \cup {Office})]
  /\ documents \in [Cases -> SUBSET Requests]
ReqsOK ==
  /\ pc     \in [Requests -> Places]
  /\ sent   \in [Requests -> [link : Links \cup {NoCase}, who : Named]]
  /\ answer \in [Requests -> Answers]
  /\ match  \in [Requests -> Cases \cup {NoCase}]

LEMMA TypeParts == TypeOK <=> LinksOK /\ StoreOK /\ ReqsOK
BY DEF TypeOK, LinksOK, StoreOK, ReqsOK

\* A step of a submission is one of a request that has a link.
LEMMA SubmitsThrough ==
  ASSUME LinkIInv, NEW r \in Requests, Submit(r)
  PROVE  Live(r) /\ Link(r) \in Links /\ Link(r) \in Cases /\ CaseOf(Link(r)) \in Cases
<1>1. Live(r)
  BY DEF Submit, CheckIssuer, Probe, Resume, Lookup, Insert, Upload, UploadFails, StageTarget, StageFails,
         Finalize, FinalizeFails, Release, Live
<1> QED
  BY <1>1, CaseOfIsCase DEF LinkIInv, LiveLinksHeld, Cases

\* The links keep their types in a submission's steps.
LEMMA LinksStep ==
  ASSUME LinkIInv, NEW r \in Requests, Submit(r)
  PROVE  LinksOK'
<1>0. LinksOK /\ Link(r) \in Links /\ CaseOf(Link(r)) \in Cases /\ CaseOf(Link(r)) # NoCase
  BY TypeParts, SubmitsThrough, NamesAssumption DEF LinkIInv
<1> USE <1>0 DEF LinksOK, LinkStatus, links
<1>1. ASSUME UNCHANGED links PROVE LinksOK'
  BY <1>1
<1>2. ASSUME NEW c \in Cases, c # NoCase, UNCHANGED expired,
             status' = [status EXCEPT ![Link(r)] = "USED"],
             since'  = [since EXCEPT ![Link(r)] = "null"],
             importCase' = [importCase EXCEPT ![Link(r)] = c]
      PROVE  LinksOK'
  BY <1>2
<1>3. CASE CheckIssuer(r) \/ Probe(r) \/ Resume(r) \/ Lookup(r) \/ Insert(r) \/ Upload(r) \/ UploadFails(r) \/ StageFails(r)
  BY <1>1, <1>3 DEF CheckIssuer, Probe, Resume, Lookup, Insert, Upload, UploadFails, StageFails
<1>4. CASE StageTarget(r)
  <2>1. CASE Append(r)
    <3>1. importCase' = [importCase EXCEPT ![Link(r)] = CaseOf(Link(r))]
      BY <1>4, <2>1 DEF Append, StageTarget, Targeted, CaseOf
    <3> QED
      BY <1>2, <2>1, <3>1 DEF Append
  <2> QED
    BY <1>1, <1>4, <2>1 DEF StageTarget
<1>5. CASE Finalize(r) \/ FinalizeFails(r)
  BY <1>1, <1>2, <1>5 DEF Finalize, FinalizeFails
<1>6. CASE Release(r)
  <2>1. CASE UNCHANGED links
    BY <1>1, <2>1
  <2>2. CASE /\ status' = [status EXCEPT ![Link(r)] = "ACTIVE"]
             /\ since'  = [since EXCEPT ![Link(r)] = "null"]
             /\ UNCHANGED <<expired, importCase>>
    BY <2>2
  <2> QED
    BY <1>6, <2>1, <2>2 DEF Release
<1> QED
  BY <1>3, <1>4, <1>5, <1>6 DEF Submit

\* So do the cases.
LEMMA StoreStep ==
  ASSUME LinkIInv, NEW r \in Requests, Submit(r)
  PROVE  StoreOK'
<1>0. StoreOK /\ Link(r) \in Cases /\ CaseOf(Link(r)) \in Cases /\ sent[r].who \in Named
  BY TypeParts, SubmitsThrough DEF LinkIInv, ReqsOK
<1> USE <1>0 DEF StoreOK, store
<1>1. ASSUME UNCHANGED store PROVE StoreOK'
  BY <1>1
<1>2. CASE Insert(r)
  BY <1>2 DEF Insert
<1>3. CASE CheckIssuer(r) \/ Probe(r) \/ Resume(r) \/ Lookup(r) \/ StageFails(r)
  BY <1>1, <1>3 DEF CheckIssuer, Probe, Resume, Lookup, StageFails
<1>4. CASE Upload(r)
  BY <1>4 DEF Upload
<1>5. CASE UploadFails(r)
  BY <1>5 DEF UploadFails, Named
<1>6. CASE StageTarget(r)
  BY <1>1, <1>6 DEF StageTarget, Append, Corrected
<1>7. CASE Finalize(r) \/ FinalizeFails(r) \/ Release(r)
  BY <1>1, <1>7 DEF Finalize, FinalizeFails, Release
<1> QED
  BY <1>2, <1>3, <1>4, <1>5, <1>6, <1>7 DEF Submit

\* And the requests: a step moves one of them, and settles its answer.
LEMMA ReqsStep ==
  ASSUME LinkIInv, NEW r \in Requests, Submit(r)
  PROVE  ReqsOK'
<1>0. ReqsOK
  BY TypeParts DEF LinkIInv
<1> USE <1>0 DEF ReqsOK
<1>1. ASSUME NEW p \in Places, NEW a \in Answers, NEW c \in Cases \cup {NoCase}, UNCHANGED sent,
             pc' = [pc EXCEPT ![r] = p], answer' = [answer EXCEPT ![r] = a], match' = [match EXCEPT ![r] = c]
      PROVE  ReqsOK'
  BY <1>1
<1>2. answer = [answer EXCEPT ![r] = answer[r]] /\ match = [match EXCEPT ![r] = match[r]]
      /\ answer[r] \in Answers /\ match[r] \in Cases \cup {NoCase}
  OBVIOUS
<1> USE DEF Decide, Goto, Places, Answers
<1> HIDE DEF ReqsOK
<1>3. CASE CheckIssuer(r) \/ StageFails(r) \/ Upload(r)
  BY <1>1, <1>2, <1>3 DEF CheckIssuer, StageFails, Upload
<1>8. CASE UploadFails(r)
  BY <1>1, <1>2, <1>8 DEF UploadFails
<1>4. CASE Probe(r)
  BY <1>1, <1>2, <1>4 DEF Probe, RefuseDuplicate, Matches
<1>5. CASE Resume(r) \/ Lookup(r) \/ Insert(r)
  BY <1>1, <1>2, <1>5 DEF Resume, Lookup, Insert, RefuseDuplicate, Matches
<1>6. CASE StageTarget(r)
  BY <1>1, <1>2, <1>6 DEF StageTarget
<1>7. CASE Finalize(r) \/ FinalizeFails(r) \/ Release(r)
  BY <1>1, <1>2, <1>7 DEF Finalize, FinalizeFails, Release
<1> QED
  BY <1>3, <1>4, <1>5, <1>6, <1>7, <1>8 DEF Submit

\* Types are preserved by every step.
LEMMA LinkTypeStep == LinkIInv /\ [Next]_vars => TypeOK'
<1> SUFFICES ASSUME LinkIInv, [Next]_vars PROVE LinksOK' /\ StoreOK' /\ ReqsOK'
  BY DEF TypeOK, LinksOK, StoreOK, ReqsOK
<1> DEFINE Goal == LinksOK' /\ StoreOK' /\ ReqsOK'
<1>0. LinksOK /\ StoreOK /\ ReqsOK
  BY TypeParts DEF LinkIInv
<1> USE <1>0 DEF links, store, reqs, Goto, Decide
<1>1. UNCHANGED links => LinksOK'
  BY DEF LinksOK
<1>2. UNCHANGED store => StoreOK'
  BY DEF StoreOK
<1>3. UNCHANGED reqs => ReqsOK'
  BY DEF ReqsOK
<1>4. ASSUME NEW l \in Links, \/ \E target \in Cases \cup {NoCase} : Issue(l, target)
                              \/ Revoke(l) \/ Expire(l) \/ GoStale(l)
      PROVE  Goal
  <2>1. ASSUME NEW target \in Cases \cup {NoCase}, Issue(l, target) PROVE LinksOK'
    BY <2>1 DEF Issue, LinksOK, LinkStatus
  <2>2. CASE Revoke(l)
    BY <1>2, <1>3, <2>2 DEF Revoke, LinksOK, LinkStatus
  <2>3. CASE Expire(l) \/ GoStale(l)
    BY <1>2, <1>3, <2>3 DEF Expire, GoStale, LinksOK
  <2> QED
    BY <1>2, <1>3, <1>4, <2>1, <2>2, <2>3 DEF Issue
<1>5. ASSUME NEW l \in Links, NEW r \in Requests, NEW a \in Named, Claim(r, l, a)
      PROVE  Goal
  <2>1. LinksOK'
    BY <1>5 DEF Claim, Claimable, LinksOK, LinkStatus
  <2>2. ReqsOK'
    BY <1>5 DEF Claim, ReqsOK, Places
  <2> QED
    BY <1>2, <1>5, <2>1, <2>2 DEF Claim
<1>6. ASSUME NEW c \in Cases, Rewrite(c) \/ Approve(c) PROVE Goal
  <2>1. StoreOK'
    BY <1>6 DEF Rewrite, Approve, OfficeWrites, StoreOK
  <2> QED
    BY <1>1, <1>3, <1>6, <2>1 DEF Rewrite, Approve, OfficeWrites
<1>7. ASSUME NEW r \in Requests, Submit(r) PROVE Goal
  BY <1>7, LinksStep, StoreStep, ReqsStep
<1>8. ASSUME NEW r \in Requests, Crash(r) PROVE Goal
  <2>1. ReqsOK'
    BY <1>8 DEF Crash, ReqsOK, Places, Answers
  <2> QED
    BY <1>1, <1>2, <1>8, <2>1 DEF Crash
<1>9. CASE UNCHANGED vars
  BY <1>1, <1>2, <1>3, <1>9 DEF vars
<1> QED
  BY <1>4, <1>5, <1>6, <1>7, <1>8, <1>9 DEF Next

-----------------------------------------------------------------------------
\* A step of a submission that neither is received nor gives the link back
\* moves its request on, and writes at most "USED" to the link.
LEMMA SubmitAdvances ==
  ASSUME LinkIInv, NEW r \in Requests, Submit(r), ~Finalize(r), ~Release(r)
  PROVE  /\ UNCHANGED sent
         /\ \E p \in Places \ {"new"} : pc' = [pc EXCEPT ![r] = p]
         /\ \E a \in Answers \ {"received"} : answer' = [answer EXCEPT ![r] = a]
         /\ \/ UNCHANGED <<status, since>>
            \/ /\ status' = [status EXCEPT ![Link(r)] = "USED"]
               /\ since'  = [since EXCEPT ![Link(r)] = "null"]
<1>1. answer[r] \in Answers \ {"received"} /\ answer = [answer EXCEPT ![r] = answer[r]]
  BY SubmitsThrough, TypeParts DEF LinkIInv, ReceivedIsClosed, ReqsOK, Live
<1> USE DEF Decide, Goto, Places, Answers, links
<1>2. CASE CheckIssuer(r) \/ StageFails(r)
  BY <1>1, <1>2 DEF CheckIssuer, StageFails
<1>3. CASE Probe(r)
  BY <1>1, <1>3 DEF Probe, RefuseDuplicate
<1>4. CASE Resume(r) \/ Lookup(r) \/ Insert(r)
  BY <1>1, <1>4 DEF Resume, Lookup, Insert, RefuseDuplicate
<1>5. CASE Upload(r) \/ UploadFails(r)
  BY <1>1, <1>5 DEF Upload, UploadFails
<1>6. CASE StageTarget(r)
  BY <1>1, <1>6 DEF StageTarget, Append
<1>7. CASE FinalizeFails(r)
  BY <1>7 DEF FinalizeFails
<1> QED
  BY <1>2, <1>3, <1>4, <1>5, <1>6, <1>7 DEF Submit

\* A link somebody submits through is claimed by nobody else, and a received
\* submission leaves nobody inside.
LEMMA HolderStep == LinkIInv /\ [Next]_vars => (LiveLinksHeld /\ OneHolder /\ ReceivedIsClosed)'
<1> SUFFICES ASSUME LinkIInv, [Next]_vars PROVE (LiveLinksHeld /\ OneHolder /\ ReceivedIsClosed)'
  OBVIOUS
<1> DEFINE Goal == (LiveLinksHeld /\ OneHolder /\ ReceivedIsClosed)'
<1> USE DEF LinkIInv, LiveLinksHeld, OneHolder, ReceivedIsClosed, Live, Link, links, store, reqs, Goto, Decide
<1>0. /\ pc \in [Requests -> Places] /\ answer \in [Requests -> Answers]
      /\ status \in [Links -> LinkStatus] /\ since \in [Links -> {"null", "recent", "old"}]
      /\ sent \in [Requests -> [link : Links \cup {NoCase}, who : Named]]
  BY DEF TypeOK
<1>1. ASSUME NEW l \in Links, NEW target \in Cases \cup {NoCase}, Issue(l, target) PROVE Goal
  BY <1>0, <1>1 DEF Issue
<1>2. ASSUME NEW l \in Links, Revoke(l) PROVE Goal
  BY <1>0, <1>2 DEF Revoke
<1>3. ASSUME NEW l \in Links, Expire(l) \/ GoStale(l) PROVE Goal
  BY <1>0, <1>3 DEF Expire, GoStale
<1>4. ASSUME NEW l \in Links, NEW r \in Requests, NEW a \in Named, Claim(r, l, a)
      PROVE  Goal
  <2>1. \A q \in Requests : Live(q) => Link(q) # l
    BY <1>4 DEF Claim, Claimable
  <2>2. \A q \in Requests : answer[q] = "received" => q # r /\ Link(q) # l
    BY <1>4 DEF Claim, Claimable
  <2>3. /\ \A q \in Requests : q # r => pc'[q] = pc[q] /\ sent'[q] = sent[q] 
        /\ pc'[r] = "claimed" /\ sent'[r].link = l /\ answer' = answer
        /\ status'[l] = "PROCESSING" /\ since'[l] = "recent"
        /\ \A k \in Links : k # l => status'[k] = status[k] /\ since'[k] = since[k]
    BY <1>0, <1>4 DEF Claim
  <2>4. LiveLinksHeld'
    BY <2>1, <2>3
  <2>5. OneHolder'
    BY <2>1, <2>3
  <2>6. ReceivedIsClosed'
    BY <2>2, <2>3
  <2> QED
    BY <2>4, <2>5, <2>6
<1>5. ASSUME NEW c \in Cases, Rewrite(c) \/ Approve(c) PROVE Goal
  BY <1>5 DEF Rewrite, Approve, OfficeWrites
\* A request that moves on, and writes at most "USED" to its link, keeps it.
<1>6. ASSUME NEW r \in Requests, Live(r), UNCHANGED sent,
             NEW p \in Places \ {"new"}, pc' = [pc EXCEPT ![r] = p],
             NEW a \in Answers \ {"received"}, answer' = [answer EXCEPT ![r] = a],
             \/ UNCHANGED <<status, since>>
             \/ /\ status' = [status EXCEPT ![Link(r)] = "USED"]
                /\ since'  = [since EXCEPT ![Link(r)] = "null"]
      PROVE  Goal
  <2>1. Link(r) \in Links
    BY <1>6
  <2>2. \A q \in Requests : Live(q)' => Live(q)
    BY <1>0, <1>6
  <2>3. \A q \in Requests : answer'[q] = "received" => answer[q] = "received" /\ q # r
    BY <1>0, <1>6
  <2> QED
    BY <1>0, <1>6, <2>1, <2>2, <2>3
<1>7. ASSUME NEW r \in Requests, Crash(r) PROVE Goal
  BY <1>6, <1>7 DEF Crash, Places, Answers
<1>8. ASSUME NEW r \in Requests, Submit(r) PROVE Goal
  <2>0. Live(r) /\ Link(r) \in Links
    BY <1>8, SubmitsThrough
  <2>1. CASE ~Finalize(r) /\ ~Release(r)
    <3>1. PICK p \in Places \ {"new"} : pc' = [pc EXCEPT ![r] = p]
      BY <1>8, <2>1, SubmitAdvances
    <3>2. PICK a \in Answers \ {"received"} : answer' = [answer EXCEPT ![r] = a]
      BY <1>8, <2>1, SubmitAdvances
    <3> QED
      BY <1>6, <1>8, <2>0, <2>1, <3>1, <3>2, SubmitAdvances
  <2>2. CASE Finalize(r)
    <3>1. Live(r) /\ Link(r) \in Links
      BY <2>2 DEF Finalize
    <3>2. CASE answer' = [answer EXCEPT ![r] = "not_closed"]
      <4>1. \/ UNCHANGED <<status, since>>
            \/ /\ status' = [status EXCEPT ![Link(r)] = "USED"]
               /\ since'  = [since EXCEPT ![Link(r)] = "null"]
        BY <2>2 DEF Finalize
      <4>2. UNCHANGED sent /\ pc' = [pc EXCEPT ![r] = "done"]
            /\ "done" \in Places \ {"new"} /\ "not_closed" \in Answers \ {"received"}
        BY <2>2 DEF Finalize, Places, Answers
      <4> QED
        BY <1>6, <3>1, <3>2, <4>1, <4>2
    <3>3. CASE answer' = [answer EXCEPT ![r] = "received"]
      <4>1. /\ status'[Link(r)] = "USED" /\ since'[Link(r)] # "old"
            /\ \A k \in Links : k # Link(r) => status'[k] = status[k] /\ since'[k] = since[k]
        BY <1>0, <2>2, <3>1, <3>3 DEF Finalize, Answers
      <4>2. /\ pc'[r] = "done" /\ UNCHANGED sent /\ answer'[r] = "received"
            /\ \A q \in Requests : q # r => pc'[q] = pc[q] /\ answer'[q] = answer[q]
        BY <1>0, <2>2, <3>3 DEF Finalize
      <4>3. \A q \in Requests : q # r /\ Live(q) => Link(q) # Link(r)
        BY <3>1
      <4>4. LiveLinksHeld' /\ OneHolder'
        BY <4>1, <4>2
      <4>5. ReceivedIsClosed'
        BY <3>1, <4>1, <4>2, <4>3
      <4> QED
        BY <4>4, <4>5
    <3> QED
      BY <2>2, <3>2, <3>3 DEF Finalize
  <2>3. CASE Release(r)
    <3>1. Live(r) /\ Link(r) \in Links /\ pc' = [pc EXCEPT ![r] = "done"] /\ UNCHANGED <<sent, answer>>
      BY <2>3 DEF Release
    <3>2. \A q \in Requests : Live(q)' => Live(q) /\ q # r /\ Link(q) # Link(r)
      BY <1>0, <3>1
    <3>3. \A k \in Links : k # Link(r) => status'[k] = status[k] /\ since'[k] = since[k]
      BY <1>0, <2>3 DEF Release
    <3>4. LiveLinksHeld' /\ OneHolder'
      BY <3>1, <3>2, <3>3
    <3>5. \A q \in Requests : answer[q] = "received" => q # r /\ Link(q) # Link(r)
      BY <3>1
    <3>6. ReceivedIsClosed'
      BY <1>0, <3>1, <3>2, <3>3, <3>5
    <3> QED
      BY <3>4, <3>6
  <2> QED
    BY <2>1, <2>2, <2>3
<1>9. CASE UNCHANGED vars
  BY <1>9 DEF vars
<1> QED
  BY <1>1, <1>2, <1>3, <1>4, <1>5, <1>7, <1>8, <1>9 DEF Next

\* The inductive invariant holds of every behaviour.
THEOREM LinkInvariance == Spec => []LinkIInv
<1>1. LinkIInv /\ [Next]_vars => LinkIInv'
  BY LinkTypeStep, HolderStep DEF LinkIInv
<1> QED
  BY InitLinkIInv, <1>1, PTL DEF Spec

\* The variables keep their types, and a link is stamped exactly while it is
\* being processed.
THEOREM LinkTypes == Spec => []TypeOK
<1>1. LinkIInv => TypeOK
  BY DEF LinkIInv
<1> QED
  BY <1>1, LinkInvariance, PTL

\* However many browsers submit one link, and whatever stale claims are
\* recovered, one submission at a time is inside.
THEOREM Exclusive == Spec => []OneHolder
<1>1. LinkIInv => OneHolder
  BY DEF LinkIInv
<1> QED
  BY <1>1, LinkInvariance, PTL

\* At most one request through a link is told that it was received.
THEOREM Received == Spec => []ReceivedOnce
<1>1. LinkIInv /\ ReceivedOnce /\ [Next]_vars => ReceivedOnce'
  <2> SUFFICES ASSUME LinkIInv, ReceivedOnce, [Next]_vars, NEW r \in Requests, NEW q \in Requests,
                      answer'[r] = "received", answer'[q] = "received", Link(r)' = Link(q)', r # q
               PROVE  FALSE
    BY DEF ReceivedOnce
  <2> USE DEF LinkIInv, ReceivedIsClosed
  <2>1. ASSUME NEW x \in Requests, answer'[x] = "received"
        PROVE  /\ answer[x] = "received" \/ Finalize(x)
               /\ Link(x)' = Link(x)
    <3> USE <2>1 DEF Link, TypeOK, links, store, reqs, Goto, Decide
    <3>1. ASSUME NEW l \in Links, NEW y \in Requests, NEW a \in Named, Claim(y, l, a)
          PROVE  answer[x] = "received" /\ sent'[x] = sent[x]
      <4>1. answer[x] = "received" /\ pc[x] = "done" /\ pc[y] = "new"
        BY <3>1 DEF Claim
      <4> QED
        BY <3>1, <4>1 DEF Claim
    <3>2. ASSUME NEW y \in Requests, Submit(y) \/ Crash(y)
          PROVE  UNCHANGED sent /\ (answer[x] = "received" \/ Finalize(x))
      BY <3>2 DEF Submit, Crash, CheckIssuer, Probe, Resume, Lookup, Insert, Upload, UploadFails, StageTarget, StageFails,
                  Finalize, FinalizeFails, Release, RefuseDuplicate
    <3>3. ASSUME \/ \E l \in Links : \/ \E target \in Cases \cup {NoCase} : Issue(l, target)
                                     \/ Revoke(l) \/ Expire(l) \/ GoStale(l)
                 \/ \E c \in Cases : Rewrite(c) \/ Approve(c)
                 \/ UNCHANGED vars
          PROVE  UNCHANGED reqs
      BY <3>3 DEF Issue, Revoke, Expire, GoStale, Rewrite, Approve, OfficeWrites, vars
    <3> QED
      BY <3>1, <3>2, <3>3 DEF Next
  <2>2. ASSUME NEW x \in Requests, NEW y \in Requests, Finalize(x), answer[y] = "received", Link(x) = Link(y)
        PROVE  FALSE
    BY <2>2 DEF Finalize, Live
  <2>3. ASSUME Finalize(r), Finalize(q) PROVE FALSE
    BY <2>3 DEF Finalize, Decide, Goto, TypeOK, Places
  <2>4. answer[r] = "received" /\ answer[q] = "received" => FALSE
    BY <2>1 DEF ReceivedOnce
  <2> QED
    BY <2>1, <2>2, <2>3, <2>4
<1>2. Init => ReceivedOnce
  BY DEF Init, ReceivedOnce
<1> QED
  BY <1>1, <1>2, LinkInvariance, PTL DEF Spec

-----------------------------------------------------------------------------
\* USED and REVOKED are final.
THEOREM Final == Spec => SpentForGood
<1>1. LinkIInv /\ [Next]_vars =>
        \A l \in Links : status[l] \in {"USED", "REVOKED"} => status'[l] = status[l]
  <2> SUFFICES ASSUME LinkIInv, [Next]_vars, NEW k \in Links, status[k] \in {"USED", "REVOKED"}
               PROVE  status'[k] = status[k]
    OBVIOUS
  <2> USE DEF LinkIInv, TypeOK, links, store, reqs
  <2>1. ASSUME NEW l \in Links, \/ \E target \in Cases \cup {NoCase} : Issue(l, target)
                                \/ Revoke(l) \/ Expire(l) \/ GoStale(l)
        PROVE  status'[k] = status[k]
    BY <2>1 DEF Issue, Revoke, Expire, GoStale
  <2>2. ASSUME NEW l \in Links, NEW r \in Requests, NEW a \in Named, Claim(r, l, a)
        PROVE  status'[k] = status[k]
    BY <2>2 DEF Claim, Claimable
  <2>3. ASSUME NEW c \in Cases, Rewrite(c) \/ Approve(c) PROVE status'[k] = status[k]
    BY <2>3 DEF Rewrite, Approve, OfficeWrites
  <2>4. ASSUME NEW r \in Requests, Submit(r) \/ Crash(r) PROVE status'[k] = status[k]
    BY <2>4 DEF Submit, Crash, CheckIssuer, Probe, Resume, Lookup, Insert, Upload, UploadFails, StageTarget, Append,
                StageFails, Finalize, FinalizeFails, Release, RefuseDuplicate
  <2>5. CASE UNCHANGED vars
    BY <2>5 DEF vars
  <2> QED
    BY <2>1, <2>2, <2>3, <2>4, <2>5 DEF Next
<1> QED
  BY <1>1, LinkInvariance, PTL DEF Spec, SpentForGood

-----------------------------------------------------------------------------
\* A link goes by its own case only once it is used, and has one only once it
\* was issued; nobody's information is in a case before they sent it.
OwnCases ==
  /\ \A l \in Links : importCase[l] = l => status[l] = "USED"
  /\ \A l \in Links : case[l] # "absent" => status[l] # "absent"
  /\ \A c \in Cases, r \in Requests : r \in content[c] => pc[r] # "new"

\* A request between its lookup and its insert has the e-mail's lock to itself,
\* and what it did not find, no link has staged since.
LookupsHold ==
  \A r \in Requests : pc[r] = "locked" =>
    /\ case[Link(r)] = "absent"
    /\ sent[r].who # Unknown =>
         /\ \A q \in Requests : pc[q] = "locked" /\ sent[q].who = sent[r].who => q = r
         /\ \A c \in Cases : OwnOnly(c) => who[c] # sent[r].who

StagingIInv == OwnCases /\ LookupsHold /\ StagedOnce

LEMMA OwnCasesStep == LinkIInv /\ OwnCases /\ [Next]_vars => OwnCases'
<1> SUFFICES ASSUME LinkIInv, OwnCases, [Next]_vars PROVE OwnCases'
  OBVIOUS
<1>0. LinksOK /\ StoreOK /\ ReqsOK
  BY TypeParts DEF LinkIInv
<1> USE <1>0, NamesAssumption DEF OwnCases, LinksOK, StoreOK, ReqsOK, links, store, reqs, Goto, Decide, Cases
<1>1. ASSUME NEW l \in Links, \/ \E target \in Cases \cup {NoCase} : Issue(l, target)
                              \/ Revoke(l) \/ Expire(l) \/ GoStale(l)
      PROVE  OwnCases'
  BY <1>1 DEF Issue, Revoke, Expire, GoStale
<1>2. ASSUME NEW l \in Links, NEW r \in Requests, NEW a \in Named, Claim(r, l, a) PROVE OwnCases'
  BY <1>2 DEF Claim, Claimable
<1>3. ASSUME NEW c \in Cases, Rewrite(c) \/ Approve(c) PROVE OwnCases'
  BY <1>3 DEF Rewrite, Approve, OfficeWrites
<1>4. ASSUME NEW r \in Requests, Crash(r) PROVE OwnCases'
  BY <1>4 DEF Crash, Live
<1>5. ASSUME NEW r \in Requests, Submit(r) PROVE OwnCases'
  <2>0. Live(r) /\ Link(r) \in Links /\ status[Link(r)] # "absent"
    BY <1>5, SubmitsThrough DEF LinkIInv, LiveLinksHeld
  <2>1. CASE CheckIssuer(r) \/ Probe(r) \/ Resume(r) \/ Lookup(r) \/ StageFails(r) \/ Upload(r)
    BY <2>0, <2>1 DEF CheckIssuer, Probe, Resume, Lookup, StageFails, Upload, RefuseDuplicate, Live
  <2>2. CASE Insert(r)
    BY <2>0, <2>2 DEF Insert, Live
  <2>6. CASE UploadFails(r)
    BY <2>0, <2>6 DEF UploadFails, Live
  <2>3. CASE StageTarget(r)
    BY <2>0, <2>3 DEF StageTarget, Append, Live
  <2>4. CASE Finalize(r)
    BY <2>0, <2>4 DEF Finalize, Live
  <2>7. CASE FinalizeFails(r)
    BY <2>0, <2>7 DEF FinalizeFails, Live
  <2>5. CASE Release(r)
    BY <2>0, <2>5 DEF Release, Live
  <2> QED
    BY <1>5, <2>1, <2>2, <2>3, <2>4, <2>5, <2>6, <2>7 DEF Submit
<1>6. CASE UNCHANGED vars
  BY <1>6 DEF vars
<1> QED
  BY <1>1, <1>2, <1>3, <1>4, <1>5, <1>6 DEF Next

\* Only an insert makes a case that holds nothing but its link's submission; a
\* submission to a target ends that for the target.
LEMMA OwnOnlyKept ==
  ASSUME LinkIInv, OwnCases, [Next]_vars, \A r \in Requests : ~Insert(r), NEW c \in Cases, OwnOnly(c)'
  PROVE  OwnOnly(c) /\ who'[c] = who[c]
<1>0. LinksOK /\ StoreOK /\ ReqsOK
  BY TypeParts DEF LinkIInv
<1> USE <1>0, NamesAssumption DEF OwnCases, LinksOK, StoreOK, ReqsOK, links, store, reqs, Goto, Decide, Link, OwnOnly
<1>1. ASSUME NEW l \in Links, \/ \E target \in Cases \cup {NoCase} : Issue(l, target)
                              \/ Revoke(l) \/ Expire(l) \/ GoStale(l)
      PROVE  OwnOnly(c) /\ who'[c] = who[c]
  BY <1>1 DEF Issue, Revoke, Expire, GoStale
<1>2. ASSUME NEW l \in Links, NEW r \in Requests, NEW a \in Named, Claim(r, l, a)
      PROVE  OwnOnly(c) /\ who'[c] = who[c]
  BY <1>2 DEF Claim
<1>3. ASSUME NEW d \in Cases, Rewrite(d) \/ Approve(d) PROVE OwnOnly(c) /\ who'[c] = who[c]
  BY <1>3 DEF Rewrite, Approve, OfficeWrites
<1>4. ASSUME NEW r \in Requests, Crash(r) PROVE OwnOnly(c) /\ who'[c] = who[c]
  BY <1>4 DEF Crash
<1>5. ASSUME NEW r \in Requests, Submit(r) PROVE OwnOnly(c) /\ who'[c] = who[c]
  <2>0. Link(r) \in Links /\ CaseOf(Link(r)) \in Cases
    BY <1>5, SubmitsThrough
  <2>1. CASE StageTarget(r)
    <3>1. CaseOf(Link(r)) # Link(r)
      BY <2>0, <2>1 DEF StageTarget, Targeted, CaseOf
    <3>2. Append(r) => r \in content'[CaseOf(Link(r))]
      BY <2>0 DEF Append
    <3> QED
      BY <2>0, <2>1, <3>1, <3>2 DEF StageTarget, Append
  <2>2. CASE UploadFails(r)
    BY <2>0, <2>2 DEF UploadFails
  <2>3. CASE ~StageTarget(r) /\ ~UploadFails(r)
    BY <1>5, <2>3 DEF Submit, CheckIssuer, Probe, Resume, Lookup, StageFails, Upload, RefuseDuplicate,
                      Finalize, FinalizeFails, Release
  <2> QED
    BY <2>1, <2>2, <2>3
<1>6. CASE UNCHANGED vars
  BY <1>6 DEF vars
<1> QED
  BY <1>1, <1>2, <1>3, <1>4, <1>5, <1>6 DEF Next

\* Only a lookup takes the lock; meanwhile nobody makes the case it is for.
LEMMA LockedKept ==
  ASSUME LinkIInv, [Next]_vars, NEW q \in Requests, \A r \in Requests : ~Insert(r), ~Lookup(q),
         pc'[q] = "locked"
  PROVE  pc[q] = "locked" /\ sent'[q] = sent[q] /\ (case[Link(q)] = "absent" => case'[Link(q)] = "absent")
<1>0. StoreOK /\ ReqsOK
  BY TypeParts DEF LinkIInv
<1>a. pc[q] = "locked" => Link(q) \in Cases
  BY DEF LinkIInv, LiveLinksHeld, Live, Cases
<1> USE <1>0, <1>a DEF StoreOK, ReqsOK, links, store, reqs, Goto, Decide
<1> DEFINE Goal == pc[q] = "locked" /\ sent'[q] = sent[q] /\ (case[Link(q)] = "absent" => case'[Link(q)] = "absent")
<1>1. ASSUME NEW l \in Links, \/ \E target \in Cases \cup {NoCase} : Issue(l, target)
                              \/ Revoke(l) \/ Expire(l) \/ GoStale(l)
      PROVE  Goal
  BY <1>1 DEF Issue, Revoke, Expire, GoStale
<1>2. ASSUME NEW l \in Links, NEW r \in Requests, NEW a \in Named, Claim(r, l, a) PROVE Goal
  BY <1>2 DEF Claim
<1>3. ASSUME NEW d \in Cases, Rewrite(d) \/ Approve(d) PROVE Goal
  BY <1>3 DEF Rewrite, Approve, OfficeWrites
<1>4. ASSUME NEW r \in Requests, Crash(r) PROVE Goal
  BY <1>4 DEF Crash
<1>5. ASSUME NEW r \in Requests, Submit(r) PROVE Goal
  <2>1. Link(r) \in Cases
    BY <1>5, SubmitsThrough
  <2>2. CASE Lookup(r) \/ Resume(r) \/ Probe(r) \/ CheckIssuer(r)
    BY <2>2 DEF Lookup, Resume, Probe, CheckIssuer, RefuseDuplicate
  <2>3. CASE StageFails(r) \/ Finalize(r) \/ FinalizeFails(r) \/ Release(r) \/ StageTarget(r) \/ Upload(r)
    BY <2>3 DEF StageFails, Finalize, FinalizeFails, Release, StageTarget, Append, Upload
  <2>4. CASE UploadFails(r)
    BY <2>1, <2>4 DEF UploadFails
  <2> QED
    BY <1>5, <2>2, <2>3, <2>4 DEF Submit
<1>6. CASE UNCHANGED vars
  BY <1>6 DEF vars
<1> QED
  BY <1>1, <1>2, <1>3, <1>4, <1>5, <1>6 DEF Next

LEMMA StagingStep == LinkIInv /\ StagingIInv /\ [Next]_vars => StagingIInv'
<1> SUFFICES ASSUME LinkIInv, StagingIInv, [Next]_vars PROVE LookupsHold' /\ StagedOnce'
  BY OwnCasesStep DEF StagingIInv
<1>0. StoreOK /\ ReqsOK /\ OwnCases
  BY TypeParts DEF LinkIInv, StagingIInv
<1>1. CASE \A r \in Requests : ~Insert(r)
  <2>1. \A c \in Cases : OwnOnly(c)' => OwnOnly(c) /\ who'[c] = who[c]
    BY <1>0, <1>1, OwnOnlyKept
  <2>2. StagedOnce'
    BY <2>1 DEF StagingIInv, StagedOnce
  <2>3. CASE \A q \in Requests : ~Lookup(q)
    <3>1. \A q \in Requests : pc'[q] = "locked" =>
            pc[q] = "locked" /\ sent'[q] = sent[q] /\ (case[Link(q)] = "absent" => case'[Link(q)] = "absent")
      BY <1>1, <2>3, LockedKept
    <3> QED
      BY <2>1, <2>2, <3>1 DEF StagingIInv, LookupsHold, Link
  <2>4. ASSUME NEW r \in Requests, Lookup(r) PROVE LookupsHold'
    <3>1. CASE pc' = [pc EXCEPT ![r] = "locked"] /\ Matches(sent[r].who) = {}
      <4>1. /\ UNCHANGED <<sent, case, who, content>> /\ case[Link(r)] = "absent"
            /\ \A q \in Requests : pc'[q] = "locked" <=> q = r \/ pc[q] = "locked"
            /\ EmailLockFree(r)
        BY <1>0, <2>4, <3>1 DEF Lookup, store, ReqsOK
      <4>2. \A c \in Cases : OwnOnly(c) /\ sent[r].who # Unknown => who[c] # sent[r].who
        BY <3>1 DEF Matches, OwnOnly
      <4> QED
        BY <4>1, <4>2 DEF EmailLockFree, StagingIInv, LookupsHold, OwnOnly, Link
    <3>2. CASE pc' = [pc EXCEPT ![r] = "releasing"]
      BY <1>0, <2>4, <3>2 DEF Lookup, store, ReqsOK, StagingIInv, LookupsHold, OwnOnly, Link
    <3> QED
      BY <2>4, <3>1, <3>2 DEF Lookup, RefuseDuplicate, Decide, Goto
  <2> QED
    BY <2>2, <2>3, <2>4
<1>2. ASSUME NEW r \in Requests, Insert(r) PROVE LookupsHold' /\ StagedOnce'
  <2>1. /\ pc[r] = "locked" /\ UNCHANGED sent /\ Link(r) \in Cases /\ Link(r) \in Links
        /\ \A q \in Requests : pc'[q] = "locked" <=> q # r /\ pc[q] = "locked"
        /\ \A c \in Cases \ {Link(r)} : case'[c] = case[c] /\ who'[c] = who[c] /\ content'[c] = content[c]
        /\ who'[Link(r)] = sent[r].who
    BY <1>0, <1>2, SubmitsThrough DEF Insert, Submit, Decide, Goto, StoreOK, ReqsOK
  <2>2. \A c \in Cases : OwnOnly(c)' => c = Link(r) \/ (OwnOnly(c) /\ who'[c] = who[c])
    BY <2>1 DEF OwnOnly, Link
  <2>3. sent[r].who # Unknown => \A c \in Cases : OwnOnly(c) => who[c] # sent[r].who
    BY <2>1 DEF StagingIInv, LookupsHold
  <2>4. StagedOnce'
    BY <2>1, <2>2, <2>3 DEF StagingIInv, StagedOnce
  <2>5. ASSUME NEW q \in Requests, pc'[q] = "locked"
        PROVE  /\ q # r /\ pc[q] = "locked" /\ Link(q) # Link(r) /\ Link(q) \in Links
               /\ sent[q].who # Unknown => sent[q].who # sent[r].who
    <3>1. q # r /\ pc[q] = "locked"
      BY <2>1, <2>5
    <3>2. Link(q) # Link(r) /\ Link(q) \in Links
      BY <2>1, <3>1 DEF LinkIInv, OneHolder, LiveLinksHeld, Live
    <3>3. sent[q].who # Unknown => sent[q].who # sent[r].who
      BY <2>1, <3>1 DEF StagingIInv, LookupsHold
    <3> QED
      BY <3>1, <3>2, <3>3
  <2>6. LookupsHold'
    <3> SUFFICES ASSUME NEW q \in Requests, pc'[q] = "locked"
                 PROVE  /\ case'[Link(q)] = "absent"
                        /\ sent[q].who # Unknown =>
                             /\ \A p \in Requests : pc'[p] = "locked" /\ sent[p].who = sent[q].who => p = q
                             /\ \A c \in Cases : OwnOnly(c)' => who'[c] # sent[q].who
      BY <2>1 DEF LookupsHold, Link
    <3>1. case[Link(q)] = "absent" /\ case'[Link(q)] = "absent"
      BY <2>1, <2>5 DEF StagingIInv, LookupsHold, Cases
    <3> QED
      BY <2>1, <2>2, <2>5, <3>1 DEF StagingIInv, LookupsHold
  <2> QED
    BY <2>4, <2>6
<1> QED
  BY <1>1, <1>2

\* Links never stage two cases for one applicant: between a lookup and its
\* insert nobody else in the transaction can name the applicant looked for.
THEOREM LinksStageOnce == Spec => []StagedOnce
<1>1. Init => StagingIInv
  <2> SUFFICES ASSUME Init PROVE StagingIInv
    OBVIOUS
  <2> USE NamesAssumption DEF Init, Cases
  <2>1. \A c \in Cases : ~OwnOnly(c)
    BY DEF OwnOnly
  <2>2. OwnCases
    BY DEF OwnCases
  <2>3. LookupsHold
    BY DEF LookupsHold
  <2> QED
    BY <2>1, <2>2, <2>3 DEF StagingIInv, StagedOnce
<1>2. LinkIInv /\ StagingIInv /\ [Next]_vars => StagingIInv'
  BY StagingStep
<1>3. StagingIInv => StagedOnce
  BY DEF StagingIInv
<1> QED
  BY <1>1, <1>2, <1>3, LinkInvariance, PTL DEF Spec

\* Information and documents reach a case that is not the request's own link's
\* only while that case is open and the link is being processed.
LEMMA TargetsReached ==
  ASSUME LinkIInv, [Next]_vars, NEW c \in Targets,
         who'[c] # who[c] \/ content'[c] # content[c] \/ documents'[c] # documents[c]
  PROVE  /\ case[c] = "open"
         /\ \A r \in Requests : r \in content'[c] \ content[c] => status[Link(r)] = "PROCESSING"
<1>0. StoreOK
  BY TypeParts DEF LinkIInv
<1> USE DEF links, store
<1>1. ASSUME NEW l \in Links, \/ \E target \in Cases \cup {NoCase} : Issue(l, target)
                              \/ Revoke(l) \/ Expire(l) \/ GoStale(l)
                              \/ \E r \in Requests, a \in Named : Claim(r, l, a)
      PROVE  FALSE
  BY <1>1 DEF Issue, Revoke, Expire, GoStale, Claim
<1>2. ASSUME NEW d \in Cases, Rewrite(d) \/ Approve(d)
      PROVE  case[c] = "open" /\ content'[c] \subseteq content[c] \cup {Office}
  BY <1>0, <1>2 DEF Rewrite, Approve, OfficeWrites, StoreOK, Cases
<1>3. CASE UNCHANGED vars
  BY <1>3 DEF vars
<1>4. ASSUME NEW r \in Requests, Crash(r) PROVE FALSE
  BY <1>4 DEF Crash
<1>5. ASSUME NEW r \in Requests, Submit(r)
      PROVE  /\ case[c] = "open" /\ status[Link(r)] = "PROCESSING"
             /\ content'[c] \subseteq content[c] \cup {r}
  <2>1. Link(r) # c /\ c \in Cases
    BY <1>5, SubmitsThrough, NamesAssumption DEF Cases
  <2>2. CASE StageTarget(r)
    <3>1. /\ case[CaseOf(Link(r))] = "open" /\ status[Link(r)] = "PROCESSING"
          /\ content' = [content EXCEPT ![CaseOf(Link(r))] = @ \cup {r}]
          /\ \E p \in Named : who' = [who EXCEPT ![CaseOf(Link(r))] = p]
          /\ UNCHANGED documents \/ documents' = [documents EXCEPT ![CaseOf(Link(r))] = @ \cup {r}]
      BY <1>0, <2>2, SubmitsThrough, <1>5 DEF StageTarget, Append, Corrected, StoreOK
    <3>2. CaseOf(Link(r)) = c
      BY <1>0, <2>1, <3>1 DEF StoreOK
    <3> QED
      BY <1>0, <2>1, <3>1, <3>2 DEF StoreOK
  <2>3. CASE ~StageTarget(r)
    BY <1>0, <1>5, <2>1, <2>3 DEF StoreOK, Submit, CheckIssuer, Probe, Resume, Lookup, Insert, Upload, UploadFails,
                                  StageFails, Finalize, FinalizeFails, Release
  <2> QED
    BY <2>2, <2>3
<1> QED
  BY <1>1, <1>2, <1>3, <1>4, <1>5, NamesAssumption DEF Next

\* A submission that claimed its link before its case was approved leaves the
\* approved case as it is.
THEOREM ApprovalWins == Spec => ApprovedUntouched
<1>1. LinkIInv /\ [Next]_vars =>
        \A c \in Targets : case[c] = "APPROVED_FILE" => UNCHANGED <<who[c], content[c], documents[c]>>
  BY TargetsReached
<1> QED
  BY <1>1, LinkInvariance, PTL DEF Spec, ApprovedUntouched

\* A submission whose link was revoked after the claim does not reach the case
\* the link was issued for.
THEOREM RevocationWins == Spec => RevokedReachesNoTarget
<1>1. LinkIInv /\ [Next]_vars =>
        \A r \in Requests, c \in Targets : r \in content'[c] \ content[c] => status[Link(r)] # "REVOKED"
  <2> SUFFICES ASSUME LinkIInv, [Next]_vars, NEW r \in Requests, NEW c \in Targets, r \in content'[c] \ content[c]
               PROVE  status[Link(r)] # "REVOKED"
    OBVIOUS
  <2> QED
    BY TargetsReached
<1> QED
  BY <1>1, LinkInvariance, PTL DEF Spec, RevokedReachesNoTarget
===============================================================================
