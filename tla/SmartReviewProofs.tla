------------------------- MODULE SmartReviewProofs -------------------------
(***************************************************************************)
(* Theorems about SmartReview for any number of cases, managers, requests, *)
(* documents and applicants.                                               *)
(***************************************************************************)
EXTENDS SmartReview, FiniteSetTheorems, TLAPS

\* An extraction under way has a case.
JobsHaveCases == \A w \in Workers : job[w].place # "idle" => job[w].case \in Cases

TypeInv == ReviewTypeOK /\ JobsHaveCases

\* A client's case was approved under the client's name, and neither changes.
ClientsAreApproved ==
  \A k \in clients : status[k.case] = "APPROVED_FILE" /\ k.name = draft[k.case]

ClientInv == ClientsAreApproved /\ OneClientPerPerson /\ ApprovedIsTheClient

\* A screen whose version is current shows the draft as it is.
ScreensAreCurrent ==
  \A m \in Managers : screen[m].current =>
    screen[m].case \in Cases /\ screen[m].draft = draft[screen[m].case]

\* Whoever enters a value has opened the case for review.
EditedIsStarted == \A c \in Cases : Manual(c) => started[c]

ScreenInv == ScreensAreCurrent /\ EditedIsStarted

RevInv == TypeInv /\ ClientInv /\ ScreenInv

-----------------------------------------------------------------------------
(* Types.                                                                  *)

\* An identity the merged sources agree on is a name.
LEMMA MergedValue ==
  ASSUME NEW sources \in SUBSET Names
  PROVE  Merged(sources) \in Values
<1>1. CASE Cardinality(sources) # 1
  BY <1>1 DEF Merged, Values
<1>2. CASE Cardinality(sources) = 1
  <2>1. sources # {}
    BY <1>2, FS_EmptySet
  <2>2. (CHOOSE n \in sources : TRUE) \in sources
    BY <2>1
  <2>. QED
    BY <1>2, <2>2 DEF Merged, Values
<1>. QED
  BY <1>1, <1>2

Jobs    == [place : {"idle", "read", "reading", "commit", "decided"}, case : Cases \cup {NoCase},
            notes : Values, docs : SUBSET Docs, sources : SUBSET Names, sure : BOOLEAN, draft : Values]
Screens == [case : Cases \cup {NoCase}, draft : Values, current : BOOLEAN]

\* What a version that moves does to the screens keeps them screens.
LEMMA TouchedScreens ==
  ASSUME ReviewTypeOK, NEW c \in Cases, Touch(c)
  PROVE  screen' \in [Managers -> Screens]
<1>1. ASSUME NEW k \in Managers
      PROVE  (IF screen[k].case = c THEN [screen[k] EXCEPT !.current = FALSE] ELSE screen[k]) \in Screens
  <2>1. screen[k] \in Screens
    BY DEF ReviewTypeOK, Screens
  <2>. QED
    BY <2>1 DEF Screens
<1>. QED
  BY <1>1 DEF Touch

LEMMA TouchedByScreens ==
  ASSUME ReviewTypeOK, NEW c \in Cases, NEW m \in Managers, NEW d \in Values, TouchBy(m, c, d)
  PROVE  screen' \in [Managers -> Screens]
<1>1. ASSUME NEW k \in Managers
      PROVE  (IF k = m THEN [case |-> c, draft |-> d, current |-> TRUE]
              ELSE IF screen[k].case = c THEN [screen[k] EXCEPT !.current = FALSE] ELSE screen[k]) \in Screens
  <2>1. screen[k] \in Screens
    BY DEF ReviewTypeOK, Screens
  <2>. QED
    BY <2>1 DEF Screens
<1>. QED
  BY <1>1 DEF TouchBy

\* Staged cases are typed.
LEMMA InitTypes == Init => TypeInv
<1>. SUFFICES ASSUME Init PROVE TypeInv
  OBVIOUS
<1>. USE ReviewAssumption DEF Init
<1>1. draft \in [Cases -> Values] /\ notes \in [Cases -> Values]
  OBVIOUS
<1>2. documents \in [Cases -> SUBSET Docs]
  OBVIOUS
<1>3. Blank \in Values
  BY DEF Values
<1>4. screen \in [Managers -> Screens]
  BY <1>3 DEF NoScreen, Screens
<1>5. job \in [Workers -> Jobs]
  BY <1>3 DEF Idle, Jobs
<1>6. JobsHaveCases
  BY DEF JobsHaveCases, Idle
<1>. QED
  BY <1>1, <1>2, <1>4, <1>5, <1>6 DEF TypeInv, ReviewTypeOK, Statuses, Screens, Jobs

\* What an approval writes has the type it should.
LEMMA ApprovedTypes ==
  ASSUME ReviewTypeOK, NEW m \in Managers, NEW c \in Cases, NEW r \in Managers,
         NEW value \in Values, NEW automatic \in BOOLEAN, Approved(m, c, r, value, automatic)
  PROVE  /\ status'   \in [Cases -> Statuses]
         /\ reviewer' \in [Cases -> Managers \cup {Nobody}]
         /\ started'  \in [Cases -> BOOLEAN]
         /\ archived' \in [Cases -> BOOLEAN]
         /\ draft'    \in [Cases -> Values]
         /\ editor'   \in [Cases -> Managers \cup {Nobody}]
         /\ auto'     \in [Cases -> BOOLEAN]
         /\ clients'  \subseteq [case : Cases, name : Names, docs : SUBSET Docs]
<1>1. value \in Names
  BY DEF Approved, Approvable, Values
<1>2. documents[c] \subseteq Docs
  BY DEF ReviewTypeOK
<1>3. clients' \subseteq [case : Cases, name : Names, docs : SUBSET Docs]
  BY <1>1, <1>2 DEF Approved, ReviewTypeOK
<1>4. editor' \in [Cases -> Managers \cup {Nobody}]
  BY DEF Approved, EditorAfter, ReviewTypeOK
<1>. QED
  BY <1>3, <1>4 DEF Approved, ReviewTypeOK, Statuses

\* Every step keeps the types.
LEMMA NextTypes == TypeInv /\ [Next]_vars => TypeInv'
<1>. SUFFICES ASSUME TypeInv, [Next]_vars PROVE TypeInv'
  OBVIOUS
<1>. USE DEF TypeInv, Screens, Jobs
<1>0. Blank \in Values
  BY DEF Values
<1>1. ASSUME NEW m \in Managers, NEW c \in Cases, OpenCase(m, c) PROVE TypeInv'
  <2>1. screen' \in [Managers -> Screens]
    BY <1>1 DEF OpenCase, ReviewTypeOK, Screens
  <2>. QED
    BY <1>1, <2>1 DEF OpenCase, case, ReviewTypeOK, JobsHaveCases
<1>2. ASSUME NEW m \in Managers, NEW c \in Cases, Verify(m, c) PROVE TypeInv'
  <2>1. draft[c] \in Values
    BY DEF ReviewTypeOK
  <2>2. screen' \in [Managers -> Screens]
    BY <1>2, <2>1, TouchedByScreens DEF Verify
  <2>3. status' \in [Cases -> Statuses]
    BY <1>2 DEF Verify, ReviewTypeOK, Statuses
  <2>. QED
    BY <1>2, <2>2, <2>3 DEF Verify, ReviewTypeOK, JobsHaveCases
<1>3. ASSUME NEW m \in Managers, NEW c \in Cases, NEW r \in Managers, StartReview(m, c, r)
      PROVE  TypeInv'
  <2>1. screen' \in [Managers -> Screens]
    BY <1>3, TouchedScreens DEF StartReview
  <2>2. status' \in [Cases -> Statuses]
    BY <1>3 DEF StartReview, ReviewTypeOK, Statuses
  <2>. QED
    BY <1>3, <2>1, <2>2 DEF StartReview, ReviewTypeOK, JobsHaveCases
<1>4. ASSUME NEW m \in Managers, NEW c \in Cases, NEW r \in Managers, NEW value \in Values,
             Approve(m, c, r, value)
      PROVE  TypeInv'
  <2>1. screen' \in [Managers -> Screens]
    BY <1>4, TouchedByScreens DEF Approve
  <2>2. Approved(m, c, r, value, FALSE)
    BY <1>4 DEF Approve
  <2>3. UNCHANGED <<notes, documents, extracted, job>>
    BY <1>4 DEF Approve
  <2>. QED
    BY <2>1, <2>2, <2>3, ApprovedTypes DEF ReviewTypeOK, JobsHaveCases
<1>5. ASSUME NEW m \in Managers, NEW c \in Cases, NEW r \in Managers, NEW value \in Values,
             NEW resolved \in BOOLEAN, Save(m, c, r, value, resolved)
      PROVE  TypeInv'
  <2>1. screen' \in [Managers -> Screens]
    BY <1>5, TouchedByScreens DEF Save
  <2>2. status' \in [Cases -> Statuses]
    BY <1>5 DEF Save, ReviewTypeOK, Statuses
  <2>3. editor' \in [Cases -> Managers \cup {Nobody}]
    BY <1>5 DEF Save, EditorAfter, ReviewTypeOK
  <2>. QED
    BY <1>5, <2>1, <2>2, <2>3 DEF Save, ReviewTypeOK, JobsHaveCases
<1>6. ASSUME NEW c \in Cases, Archive(c) PROVE TypeInv'
  <2>1. screen' \in [Managers -> Screens]
    BY <1>6, TouchedScreens DEF Archive
  <2>. QED
    BY <1>6, <2>1 DEF Archive, ReviewTypeOK, JobsHaveCases
<1>7. ASSUME NEW c \in Cases, NEW d \in Docs, Reattach(c, d) PROVE TypeInv'
  <2>1. screen' \in [Managers -> Screens]
    BY <1>7, TouchedScreens DEF Reattach
  <2>2. documents' \in [Cases -> SUBSET Docs]
    BY <1>7 DEF Reattach, ReviewTypeOK
  <2>. QED
    BY <1>7, <2>1, <2>2 DEF Reattach, case, ReviewTypeOK, JobsHaveCases
<1>8. ASSUME NEW c \in Cases, NEW given \in SUBSET Docs, NEW value \in Values,
             ClientSubmits(c, given, value)
      PROVE  TypeInv'
  <2>1. screen' \in [Managers -> Screens]
    BY <1>8, TouchedScreens DEF ClientSubmits
  <2>2. documents' \in [Cases -> SUBSET Docs]
    BY <1>8 DEF ClientSubmits, ReviewTypeOK
  <2>3. draft' \in [Cases -> Values] /\ notes' \in [Cases -> Values]
    BY <1>8 DEF ClientSubmits, ReviewTypeOK
  <2>. QED
    BY <1>8, <2>1, <2>2, <2>3 DEF ClientSubmits, ReviewTypeOK, JobsHaveCases
<1>9. ASSUME NEW w \in Workers, NEW c \in Cases, ReadCase(w, c) PROVE TypeInv'
  <2>1. notes[c] \in Values
    BY DEF ReviewTypeOK
  <2>. QED
    BY <1>0, <1>9, <2>1 DEF ReadCase, case, Idle, ReviewTypeOK, JobsHaveCases
<1>10. ASSUME NEW w \in Workers, MarkProcessing(w) PROVE TypeInv'
  <2>1. job[w].case \in Cases
    BY <1>10 DEF MarkProcessing, JobsHaveCases
  <2>2. documents[job[w].case] \subseteq Docs
    BY <2>1 DEF ReviewTypeOK
  <2>3. screen' \in [Managers -> Screens]
    BY <1>10, <2>1, TouchedScreens DEF MarkProcessing
  <2>4. job' \in [Workers -> Jobs]
    <3>1. job[w] \in Jobs /\ job \in [Workers -> Jobs]
      BY DEF ReviewTypeOK
    <3>2. [job[w] EXCEPT !.place = "reading", !.docs = documents[job[w].case]] \in Jobs
      BY <2>2, <3>1
    <3>3. job' = [job EXCEPT ![w] = [job[w] EXCEPT !.place = "reading", !.docs = documents[job[w].case]]]
      BY <1>10, <3>1 DEF MarkProcessing
    <3>. QED
      BY <3>1, <3>2, <3>3
  <2>5. JobsHaveCases'
    BY <1>10, <2>1 DEF MarkProcessing, JobsHaveCases, ReviewTypeOK
  <2>. QED
    BY <1>10, <2>3, <2>4, <2>5 DEF MarkProcessing, case, ReviewTypeOK
<1>11. ASSUME NEW w \in Workers, ReadDocuments(w) PROVE TypeInv'
  <2>1. PICK read \in SUBSET job[w].docs, confident \in BOOLEAN : \E values \in SUBSET Names :
          /\ job' = [job EXCEPT ![w] = [Idle EXCEPT !.place = "commit", !.case = job[w].case,
                !.sources = values \cup ({job[w].notes} \ {Blank}),
                !.sure = confident /\ read = job[w].docs /\ values # {}]]
          /\ extracted' = (extracted \ job[w].docs) \cup read
    BY <1>11 DEF ReadDocuments
  <2>2. PICK values \in SUBSET Names :
          /\ job' = [job EXCEPT ![w] = [Idle EXCEPT !.place = "commit", !.case = job[w].case,
                !.sources = values \cup ({job[w].notes} \ {Blank}),
                !.sure = confident /\ read = job[w].docs /\ values # {}]]
          /\ extracted' = (extracted \ job[w].docs) \cup read
    BY <2>1
  <2>3. values \cup ({job[w].notes} \ {Blank}) \subseteq Names
    BY DEF ReviewTypeOK, Values
  <2>4. job[w].case \in Cases /\ job[w].docs \subseteq Docs
    BY <1>11 DEF ReadDocuments, JobsHaveCases, ReviewTypeOK
  <2>5. (confident /\ read = job[w].docs /\ values # {}) \in BOOLEAN
    OBVIOUS
  <2>6. job' \in [Workers -> Jobs]
    BY <1>0, <2>2, <2>3, <2>4, <2>5 DEF Idle, ReviewTypeOK
  <2>7. JobsHaveCases'
    BY <2>2, <2>4 DEF Idle, JobsHaveCases, ReviewTypeOK
  <2>8. extracted' \subseteq Docs
    BY <2>2, <2>4 DEF ReviewTypeOK
  <2>. QED
    BY <1>11, <2>6, <2>7, <2>8 DEF ReadDocuments, case, ReviewTypeOK
<1>12. ASSUME NEW w \in Workers, CommitExtraction(w) PROVE TypeInv'
  <2>. DEFINE c     == job[w].case
              value == Preserved(c, Merged(job[w].sources))
  <2>1. c \in Cases
    BY <1>12 DEF CommitExtraction, JobsHaveCases
  <2>2. job[w].sources \subseteq Names
    BY DEF ReviewTypeOK
  <2>3. Merged(job[w].sources) \in Values
    BY <2>2, MergedValue
  <2>4. value \in Values
    BY <2>1, <2>3 DEF Preserved, ReviewTypeOK
  <2>5. PICK chosen \in Values : job' = [job EXCEPT ![w] = [Idle EXCEPT !.place = "decided", !.case = c,
                                                             !.draft = chosen]]
    BY <1>0, <1>12, <2>4 DEF CommitExtraction
  <2>6. job' \in [Workers -> Jobs]
    BY <1>0, <2>1, <2>5 DEF Idle, ReviewTypeOK
  <2>7. JobsHaveCases'
    BY <2>1, <2>5 DEF Idle, JobsHaveCases, ReviewTypeOK
  <2>8. draft' \in [Cases -> Values]
    BY <1>12, <2>4 DEF CommitExtraction, ReviewTypeOK
  <2>9. screen' \in [Managers -> Screens]
    BY <1>12, <2>1, TouchedScreens DEF CommitExtraction
  <2>. QED
    BY <1>12, <2>6, <2>7, <2>8, <2>9 DEF CommitExtraction, ReviewTypeOK
<1>13. ASSUME NEW w \in Workers, Abandon(w) PROVE TypeInv'
  BY <1>0, <1>13 DEF Abandon, case, Idle, ReviewTypeOK, JobsHaveCases
<1>14. ASSUME NEW w \in Workers, NoteOutcome(w) PROVE TypeInv'
  <2>1. screen' \in [Managers -> Screens]
    <3>1. job[w].case \in Cases
      BY <1>14 DEF NoteOutcome, JobsHaveCases
    <3>. QED
      BY <1>14, <3>1, TouchedScreens DEF NoteOutcome, ReviewTypeOK, Screens
  <2>. QED
    BY <1>0, <1>14, <2>1 DEF NoteOutcome, case, Idle, ReviewTypeOK, JobsHaveCases
<1>15. ASSUME NEW w \in Workers, NEW m \in Managers, NEW r \in Managers, AutoApprove(w, m, r)
       PROVE  TypeInv'
  <2>1. job[w].case \in Cases /\ job[w].draft \in Values
    BY <1>15 DEF AutoApprove, JobsHaveCases, ReviewTypeOK
  <2>2. Approved(m, job[w].case, r, job[w].draft, TRUE)
    BY <1>15 DEF AutoApprove
  <2>3. screen' \in [Managers -> Screens]
    BY <1>15, <2>1, TouchedScreens DEF AutoApprove
  <2>4. JobsHaveCases' /\ job' \in [Workers -> Jobs]
    BY <1>0, <1>15 DEF AutoApprove, Idle, JobsHaveCases, ReviewTypeOK
  <2>. QED
    BY <1>15, <2>1, <2>2, <2>3, <2>4, ApprovedTypes DEF AutoApprove, ReviewTypeOK
<1>16. CASE UNCHANGED vars
  BY <1>16 DEF vars, case, ReviewTypeOK, JobsHaveCases
<1>. QED
  BY <1>1, <1>2, <1>3, <1>4, <1>5, <1>6, <1>7, <1>8, <1>9, <1>10, <1>11, <1>12, <1>13, <1>14, <1>15, <1>16
     DEF Next, Review, Extract
\* Types hold of every reachable state.
LEMMA Types == Spec => []TypeInv
  BY InitTypes, NextTypes, PTL DEF Spec

-----------------------------------------------------------------------------
(* Clients.                                                                *)

\* An approval of an open case that names nobody's client makes the one client
\* of that case and of that name.
LEMMA ApprovedClients ==
  ASSUME TypeInv, ClientInv, NEW m \in Managers, NEW c \in Cases, NEW r \in Managers,
         NEW value \in Values, NEW automatic \in BOOLEAN,
         Open(c), Approved(m, c, r, value, automatic)
  PROVE  ClientInv'
<1>. DEFINE new == [case |-> c, name |-> value, docs |-> documents[c]]
<1>1. clients' = clients \cup {new} /\ status' = [status EXCEPT ![c] = "APPROVED_FILE"]
      /\ draft' = [draft EXCEPT ![c] = value]
  BY DEF Approved
<1>2. status \in [Cases -> Statuses] /\ draft \in [Cases -> Values]
      /\ clients \subseteq [case : Cases, name : Names, docs : SUBSET Docs]
  BY DEF TypeInv, ReviewTypeOK
<1>3. \A k \in clients : k.case # c
  BY DEF ClientInv, ClientsAreApproved, Open
<1>4. \A k \in clients : k.name # value
  BY DEF Approved, Approvable, Known
<1>5. new.case = c /\ new.name = value
  OBVIOUS
<1>6. ClientsAreApproved'
  BY <1>1, <1>2, <1>3, <1>5 DEF ClientInv, ClientsAreApproved
<1>7. OneClientPerPerson'
  BY <1>1, <1>4, <1>5 DEF ClientInv, OneClientPerPerson
<1>8. ApprovedIsTheClient'
  <2>. SUFFICES ASSUME NEW d \in Cases
                PROVE  /\ status'[d] = "APPROVED_FILE" => \E k \in clients' : k.case = d /\ k.name = draft'[d]
                       /\ \A j, k \in clients' : j.case = d /\ k.case = d => j = k
    BY DEF ApprovedIsTheClient
  <2>1. CASE d = c
    BY <1>1, <1>2, <1>3, <1>5, <2>1
  <2>2. CASE d # c
    <3>1. /\ status[d] = "APPROVED_FILE" => \E k \in clients : k.case = d /\ k.name = draft[d]
          /\ \A j, k \in clients : j.case = d /\ k.case = d => j = k
      BY DEF ClientInv, ApprovedIsTheClient
    <3>2. status'[d] = status[d] /\ draft'[d] = draft[d]
      BY <1>1, <1>2, <2>2
    <3>. QED
      BY <1>1, <1>5, <2>2, <3>1, <3>2
  <2>. QED
    BY <2>1, <2>2
<1>. QED
  BY <1>6, <1>7, <1>8 DEF ClientInv

\* While no client is made, it is enough that approved cases stay approved
\* under their draft and that no case becomes one.
LEMMA SameClients ==
  ASSUME ClientInv, TypeInv, clients' = clients,
         \A c \in Cases : status[c] = "APPROVED_FILE" => status'[c] = status[c] /\ draft'[c] = draft[c],
         \A c \in Cases : status[c] # "APPROVED_FILE" => status'[c] # "APPROVED_FILE"
  PROVE  ClientInv'
<1>1. \A k \in clients : k.case \in Cases
  BY DEF TypeInv, ReviewTypeOK
<1>2. ClientsAreApproved' /\ OneClientPerPerson'
  BY <1>1 DEF ClientInv, ClientsAreApproved, OneClientPerPerson
<1>3. ApprovedIsTheClient'
  <2>. SUFFICES ASSUME NEW d \in Cases
                PROVE  /\ status'[d] = "APPROVED_FILE" => \E k \in clients' : k.case = d /\ k.name = draft'[d]
                       /\ \A j, k \in clients' : j.case = d /\ k.case = d => j = k
    BY DEF ApprovedIsTheClient
  <2>1. /\ status[d] = "APPROVED_FILE" => \E k \in clients : k.case = d /\ k.name = draft[d]
        /\ \A j, k \in clients : j.case = d /\ k.case = d => j = k
    BY DEF ClientInv, ApprovedIsTheClient
  <2>. QED
    BY <2>1
<1>. QED
  BY <1>2, <1>3 DEF ClientInv

\* Every step keeps clients and approved cases together.
LEMMA NextClients == TypeInv /\ ClientInv /\ [Next]_vars => ClientInv'
<1>. SUFFICES ASSUME TypeInv, ClientInv, [Next]_vars PROVE ClientInv'
  OBVIOUS
<1>0. status \in [Cases -> Statuses] /\ draft \in [Cases -> Values]
  BY DEF TypeInv, ReviewTypeOK
<1>1. CASE UNCHANGED <<status, draft, clients>>
  BY <1>1, SameClients
<1>2. ASSUME NEW m \in Managers, NEW c \in Cases, Verify(m, c) PROVE ClientInv'
  BY <1>0, <1>2, SameClients DEF Verify, Open
<1>3. ASSUME NEW m \in Managers, NEW c \in Cases, NEW r \in Managers, StartReview(m, c, r)
      PROVE  ClientInv'
  BY <1>0, <1>3, SameClients DEF StartReview, Open
<1>4. ASSUME NEW m \in Managers, NEW c \in Cases, NEW r \in Managers, NEW value \in Values,
             Approve(m, c, r, value)
      PROVE  ClientInv'
  BY <1>4, ApprovedClients DEF Approve
<1>5. ASSUME NEW m \in Managers, NEW c \in Cases, NEW r \in Managers, NEW value \in Values,
             NEW resolved \in BOOLEAN, Save(m, c, r, value, resolved)
      PROVE  ClientInv'
  BY <1>0, <1>5, SameClients DEF Save, Open
<1>6. ASSUME NEW c \in Cases, NEW given \in SUBSET Docs, NEW value \in Values,
             ClientSubmits(c, given, value)
      PROVE  ClientInv'
  BY <1>0, <1>6, SameClients DEF ClientSubmits
<1>7. ASSUME NEW w \in Workers, CommitExtraction(w) PROVE ClientInv'
  BY <1>0, <1>7, SameClients DEF CommitExtraction
<1>8. ASSUME NEW w \in Workers, NEW m \in Managers, NEW r \in Managers, AutoApprove(w, m, r)
      PROVE  ClientInv'
  <2>1. job[w].case \in Cases /\ job[w].draft \in Values
    BY <1>8 DEF AutoApprove, TypeInv, JobsHaveCases, ReviewTypeOK
  <2>. QED
    BY <1>8, <2>1, ApprovedClients DEF AutoApprove
<1>9. ASSUME NEW m \in Managers, NEW c \in Cases, OpenCase(m, c) PROVE ClientInv'
  BY <1>1, <1>9 DEF OpenCase, case
<1>10. ASSUME NEW c \in Cases, Archive(c) PROVE ClientInv'
  BY <1>1, <1>10 DEF Archive
<1>11. ASSUME NEW c \in Cases, NEW d \in Docs, Reattach(c, d) PROVE ClientInv'
  BY <1>1, <1>11 DEF Reattach, case
<1>12. ASSUME NEW w \in Workers,
              (\E c \in Cases : ReadCase(w, c)) \/ MarkProcessing(w) \/ ReadDocuments(w) \/ Abandon(w) \/ NoteOutcome(w)
       PROVE  ClientInv'
  BY <1>1, <1>12 DEF ReadCase, MarkProcessing, ReadDocuments, Abandon, NoteOutcome, case
<1>13. CASE UNCHANGED vars
  BY <1>1, <1>13 DEF vars, case
<1>. QED
  BY <1>2, <1>3, <1>4, <1>5, <1>6, <1>7, <1>8, <1>9, <1>10, <1>11, <1>12, <1>13 DEF Next, Review, Extract

-----------------------------------------------------------------------------
(* Screens and editors.                                                    *)

\* Screens follow the drafts: a write of c moves the version of c.
LEMMA NextScreens == TypeInv /\ ScreenInv /\ [Next]_vars => ScreenInv'
<1>. SUFFICES ASSUME TypeInv, ScreenInv, [Next]_vars PROVE ScreenInv'
  OBVIOUS
<1>0. /\ draft \in [Cases -> Values] /\ screen \in [Managers -> Screens]
      /\ started \in [Cases -> BOOLEAN] /\ editor \in [Cases -> Managers \cup {Nobody}]
  BY DEF TypeInv, ReviewTypeOK, Screens
<1>1. CASE UNCHANGED <<draft, screen, started, editor>>
  BY <1>1 DEF ScreenInv, ScreensAreCurrent, EditedIsStarted, Manual
<1>2. ASSUME NEW c \in Cases, Touch(c), \A d \in Cases \ {c} : draft'[d] = draft[d]
      PROVE  ScreensAreCurrent'
  <2>. SUFFICES ASSUME NEW k \in Managers, screen'[k].current
                PROVE  screen'[k].case \in Cases /\ screen'[k].draft = draft'[screen'[k].case]
    BY DEF ScreensAreCurrent
  <2>1. screen'[k] = screen[k] /\ screen[k].case # c
    BY <1>0, <1>2 DEF Touch, Screens
  <2>. QED
    BY <1>2, <2>1 DEF ScreenInv, ScreensAreCurrent
<1>3. ASSUME NEW m \in Managers, NEW c \in Cases, NEW value \in Values, TouchBy(m, c, value),
             draft' = [draft EXCEPT ![c] = value]
      PROVE  ScreensAreCurrent'
  <2>. SUFFICES ASSUME NEW k \in Managers, screen'[k].current
                PROVE  screen'[k].case \in Cases /\ screen'[k].draft = draft'[screen'[k].case]
    BY DEF ScreensAreCurrent
  <2>1. CASE k = m
    BY <1>0, <1>3, <2>1 DEF TouchBy
  <2>2. CASE k # m
    <3>1. screen'[k] = screen[k] /\ screen[k].case # c
      BY <1>0, <1>3, <2>2 DEF TouchBy, Screens
    <3>. QED
      BY <1>0, <1>3, <3>1 DEF ScreenInv, ScreensAreCurrent
  <2>. QED
    BY <2>1, <2>2
<1>4. ASSUME NEW m \in Managers, NEW c \in Cases, OpenCase(m, c) PROVE ScreenInv'
  BY <1>0, <1>4 DEF OpenCase, case, ScreenInv, ScreensAreCurrent, EditedIsStarted, Manual
<1>5. ASSUME NEW m \in Managers, NEW c \in Cases, Verify(m, c) PROVE ScreenInv'
  <2>1. draft' = [draft EXCEPT ![c] = draft[c]] /\ draft[c] \in Values
    BY <1>0, <1>5 DEF Verify
  <2>2. ScreensAreCurrent'
    BY <1>3, <1>5, <2>1 DEF Verify
  <2>. QED
    BY <1>5, <2>2 DEF Verify, ScreenInv, EditedIsStarted, Manual
<1>6. ASSUME NEW m \in Managers, NEW c \in Cases, NEW r \in Managers, StartReview(m, c, r)
      PROVE  ScreenInv'
  <2>1. ScreensAreCurrent'
    BY <1>2, <1>6 DEF StartReview
  <2>. QED
    BY <1>0, <1>6, <2>1 DEF StartReview, ScreenInv, EditedIsStarted, Manual
<1>7. ASSUME NEW m \in Managers, NEW c \in Cases, NEW r \in Managers, NEW value \in Values,
             Approve(m, c, r, value)
      PROVE  ScreenInv'
  <2>1. ScreensAreCurrent'
    BY <1>3, <1>7 DEF Approve, Approved
  <2>. QED
    BY <1>0, <1>7, <2>1 DEF Approve, Approved, ScreenInv, EditedIsStarted, Manual
<1>8. ASSUME NEW m \in Managers, NEW c \in Cases, NEW r \in Managers, NEW value \in Values,
             NEW resolved \in BOOLEAN, Save(m, c, r, value, resolved)
      PROVE  ScreenInv'
  <2>1. ScreensAreCurrent'
    BY <1>3, <1>8 DEF Save
  <2>. QED
    BY <1>0, <1>8, <2>1 DEF Save, ScreenInv, EditedIsStarted, Manual
<1>9. ASSUME NEW c \in Cases, Archive(c) \/ \E d \in Docs : Reattach(c, d) PROVE ScreenInv'
  <2>1. Touch(c) /\ UNCHANGED <<draft, started, editor>>
    BY <1>9 DEF Archive, Reattach, case
  <2>2. ScreensAreCurrent'
    BY <1>2, <2>1
  <2>. QED
    BY <2>1, <2>2 DEF ScreenInv, EditedIsStarted, Manual
<1>10. ASSUME NEW c \in Cases, NEW given \in SUBSET Docs, NEW value \in Values,
              ClientSubmits(c, given, value)
       PROVE  ScreenInv'
  <2>1. ScreensAreCurrent'
    BY <1>0, <1>2, <1>10 DEF ClientSubmits
  <2>. QED
    BY <1>10, <2>1 DEF ClientSubmits, ScreenInv, EditedIsStarted, Manual
<1>11. ASSUME NEW w \in Workers, MarkProcessing(w) \/ NoteOutcome(w) PROVE ScreenInv'
  <2>1. job[w].case \in Cases
    BY <1>11 DEF MarkProcessing, NoteOutcome, TypeInv, JobsHaveCases
  <2>2. UNCHANGED <<draft, started, editor>> /\ (Touch(job[w].case) \/ UNCHANGED screen)
    BY <1>11 DEF MarkProcessing, NoteOutcome, case
  <2>3. ASSUME Touch(job[w].case) PROVE ScreensAreCurrent'
    BY <1>2, <2>1, <2>2, <2>3
  <2>4. ASSUME UNCHANGED screen PROVE ScreensAreCurrent'
    BY <2>2, <2>4 DEF ScreenInv, ScreensAreCurrent
  <2>. QED
    BY <2>2, <2>3, <2>4 DEF ScreenInv, EditedIsStarted, Manual
<1>12. ASSUME NEW w \in Workers, CommitExtraction(w) PROVE ScreenInv'
  <2>1. job[w].case \in Cases
    BY <1>12 DEF CommitExtraction, TypeInv, JobsHaveCases
  <2>2. ScreensAreCurrent'
    BY <1>0, <1>2, <1>12, <2>1 DEF CommitExtraction
  <2>. QED
    BY <1>12, <2>2 DEF CommitExtraction, ScreenInv, EditedIsStarted, Manual
<1>13. ASSUME NEW w \in Workers, NEW m \in Managers, NEW r \in Managers, AutoApprove(w, m, r)
       PROVE  ScreenInv'
  <2>1. job[w].case \in Cases
    BY <1>13 DEF AutoApprove, TypeInv, JobsHaveCases
  <2>2. ScreensAreCurrent'
    BY <1>0, <1>2, <1>13, <2>1 DEF AutoApprove, Approved
  <2>. QED
    BY <1>0, <1>13, <2>1, <2>2 DEF AutoApprove, Approved, ScreenInv, EditedIsStarted, Manual
<1>14. ASSUME NEW w \in Workers, (\E c \in Cases : ReadCase(w, c)) \/ ReadDocuments(w) \/ Abandon(w)
       PROVE  ScreenInv'
  BY <1>1, <1>14 DEF ReadCase, ReadDocuments, Abandon, case
<1>15. CASE UNCHANGED vars
  BY <1>1, <1>15 DEF vars, case
<1>. QED
  BY <1>4, <1>5, <1>6, <1>7, <1>8, <1>9, <1>10, <1>11, <1>12, <1>13, <1>14, <1>15 DEF Next, Review, Extract

-----------------------------------------------------------------------------
(* The invariant and what follows from it.                                 *)

\* The strengthened invariant holds of staged cases.
LEMMA InitInv == Init => RevInv
<1>. SUFFICES ASSUME Init PROVE RevInv
  OBVIOUS
<1>1. ClientInv
  BY DEF Init, ClientInv, ClientsAreApproved, OneClientPerPerson, ApprovedIsTheClient
<1>2. ScreenInv
  BY DEF Init, ScreenInv, ScreensAreCurrent, EditedIsStarted, Manual, NoScreen
<1>. QED
  BY <1>1, <1>2, InitTypes DEF RevInv

\* The inductive invariant holds of every reachable state.
THEOREM RevInvariance == Spec => []RevInv
<1>1. RevInv /\ [Next]_vars => RevInv'
  BY NextTypes, NextClients, NextScreens DEF RevInv
<1>. QED
  BY <1>1, InitInv, PTL DEF Spec

\* Every variable keeps its type, an approved client its name.
THEOREM RevTypes == Spec => []ReviewTypeOK
<1>1. RevInv => ReviewTypeOK
  BY DEF RevInv, TypeInv
<1>. QED
  BY <1>1, RevInvariance, PTL

\* However approvals by people and by the extraction overlap, an applicant is
\* made a client once.
THEOREM OneClient == Spec => []OneClientPerPerson
<1>1. RevInv => OneClientPerPerson
  BY DEF RevInv, ClientInv
<1>. QED
  BY <1>1, RevInvariance, PTL

\* An approved case has its one client, named as its draft.
THEOREM ApprovalSticks == Spec => []ApprovedIsTheClient
<1>1. RevInv => ApprovedIsTheClient
  BY DEF RevInv, ClientInv
<1>. QED
  BY <1>1, RevInvariance, PTL
-----------------------------------------------------------------------------
(* What a step may never do.                                               *)

\* A case that has a reviewer keeps it: all four writers ask Owned.
LEMMA ReviewerStep ==
  ASSUME RevInv, [Next]_vars, NEW k \in Cases, reviewer[k] # Nobody
  PROVE  reviewer'[k] = reviewer[k]
<1>0. reviewer \in [Cases -> Managers \cup {Nobody}]
  BY DEF RevInv, TypeInv, ReviewTypeOK
<1>1. CASE UNCHANGED reviewer
  BY <1>1
<1>2. ASSUME NEW m \in Managers, NEW c \in Cases, NEW r \in Managers,
             StartReview(m, c, r)
             \/ \E value \in Values : Approve(m, c, r, value) \/ \E resolved \in BOOLEAN : Save(m, c, r, value, resolved)
      PROVE  reviewer'[k] = reviewer[k]
  <2>1. Owned(c, r) /\ reviewer' = [reviewer EXCEPT ![c] = r]
    BY <1>2 DEF StartReview, Approve, Approved, Save
  <2>. QED
    BY <1>0, <2>1 DEF Owned
<1>3. ASSUME NEW w \in Workers, NEW m \in Managers, NEW r \in Managers, AutoApprove(w, m, r)
      PROVE  reviewer'[k] = reviewer[k]
  BY <1>0, <1>3 DEF AutoApprove, Approved, Owned
<1>4. ASSUME NEW m \in Managers, NEW c \in Cases, OpenCase(m, c) \/ Verify(m, c) PROVE UNCHANGED reviewer
  BY <1>4 DEF OpenCase, Verify, case
<1>5. ASSUME NEW c \in Cases,
             \/ Archive(c)
             \/ \E d \in Docs : Reattach(c, d)
             \/ \E given \in SUBSET Docs, value \in Values : ClientSubmits(c, given, value)
      PROVE  UNCHANGED reviewer
  BY <1>5 DEF Archive, Reattach, ClientSubmits, case
<1>6. ASSUME NEW w \in Workers,
             \/ \E c \in Cases : ReadCase(w, c)
             \/ MarkProcessing(w) \/ ReadDocuments(w) \/ CommitExtraction(w) \/ Abandon(w) \/ NoteOutcome(w)
      PROVE  UNCHANGED reviewer
  BY <1>6 DEF ReadCase, MarkProcessing, ReadDocuments, CommitExtraction, Abandon, NoteOutcome, case
<1>7. CASE UNCHANGED vars
  BY <1>1, <1>7 DEF vars, case
<1>. QED
  BY <1>1, <1>2, <1>3, <1>4, <1>5, <1>6, <1>7 DEF Next, Review, Extract

\* Only the automatic approval marks a case so, and it finds nobody there.
LEMMA AutoStep ==
  ASSUME RevInv, [Next]_vars, NEW k \in Cases, auto'[k], ~auto[k]
  PROVE  reviewer[k] = Nobody /\ ~Manual(k)
<1>0. auto \in [Cases -> BOOLEAN] /\ (Manual(k) => started[k])
  BY DEF RevInv, TypeInv, ReviewTypeOK, ScreenInv, EditedIsStarted
<1>1. UNCHANGED auto => FALSE
  OBVIOUS
<1>2. ASSUME NEW m \in Managers, NEW c \in Cases, NEW r \in Managers, NEW value \in Values, Approve(m, c, r, value)
      PROVE  FALSE
  BY <1>0, <1>2 DEF Approve, Approved
<1>3. ASSUME NEW w \in Workers, NEW m \in Managers, NEW r \in Managers, AutoApprove(w, m, r)
      PROVE  reviewer[k] = Nobody /\ ~Manual(k)
  <2>1. auto' = [auto EXCEPT ![job[w].case] = TRUE] /\ Unreviewed(job[w].case)
    BY <1>3 DEF AutoApprove, Approved
  <2>2. job[w].case = k
    BY <1>0, <2>1
  <2>. QED
    BY <1>0, <2>1, <2>2 DEF Unreviewed
<1>4. ASSUME NEW m \in Managers, NEW c \in Cases,
             \/ OpenCase(m, c) \/ Verify(m, c)
             \/ \E r \in Managers : StartReview(m, c, r)
             \/ \E r \in Managers, value \in Values, resolved \in BOOLEAN : Save(m, c, r, value, resolved)
      PROVE  UNCHANGED auto
  BY <1>4 DEF OpenCase, Verify, StartReview, Save, case
<1>5. ASSUME NEW c \in Cases,
             \/ Archive(c)
             \/ \E d \in Docs : Reattach(c, d)
             \/ \E given \in SUBSET Docs, value \in Values : ClientSubmits(c, given, value)
      PROVE  UNCHANGED auto
  BY <1>5 DEF Archive, Reattach, ClientSubmits, case
<1>6. ASSUME NEW w \in Workers,
             \/ \E c \in Cases : ReadCase(w, c)
             \/ MarkProcessing(w) \/ ReadDocuments(w) \/ CommitExtraction(w) \/ Abandon(w) \/ NoteOutcome(w)
      PROVE  UNCHANGED auto
  BY <1>6 DEF ReadCase, MarkProcessing, ReadDocuments, CommitExtraction, Abandon, NoteOutcome, case
<1>7. CASE UNCHANGED vars
  BY <1>1, <1>7 DEF vars, case
<1>. QED
  BY <1>1, <1>2, <1>3, <1>4, <1>5, <1>6, <1>7 DEF Next, Review, Extract

\* A draft is changed by a reviewer whose screen shows it as it is, or else by
\* the applicant or the extraction, while no reviewer has entered anything.
ByReviewer(m, k) == /\ screen[m].case = k /\ screen[m].current
                    /\ screen'[m].draft = draft'[k] /\ editor'[k] = m
ByOthers(k) == ~Manual(k) /\ (editor'[k] = editor[k] \/ auto'[k])

LEMMA DraftStep ==
  ASSUME RevInv, [Next]_vars, NEW k \in Cases, draft'[k] # draft[k]
  PROVE  (\E m \in Managers : ByReviewer(m, k)) \/ ByOthers(k)
<1> DEFINE Goal == (\E m \in Managers : ByReviewer(m, k)) \/ ByOthers(k)
<1>0. /\ draft \in [Cases -> Values] /\ editor \in [Cases -> Managers \cup {Nobody}]
      /\ auto \in [Cases -> BOOLEAN] /\ (Manual(k) => started[k])
  BY DEF RevInv, TypeInv, ReviewTypeOK, ScreenInv, EditedIsStarted
<1>1. UNCHANGED draft => FALSE
  OBVIOUS
<1>2. ASSUME NEW m \in Managers, NEW c \in Cases, NEW value \in Values, Expected(m, c), TouchBy(m, c, value),
             draft' = [draft EXCEPT ![c] = value],
             NEW resolved \in BOOLEAN, editor' = [editor EXCEPT ![c] = EditorAfter(m, c, value, resolved)]
      PROVE  Goal
  <2>1. c = k /\ value # draft[c]
    BY <1>0, <1>2
  <2>2. editor'[k] = m /\ draft'[k] = value
    BY <1>0, <1>2, <2>1 DEF EditorAfter
  <2>3. screen'[m].draft = value
    BY <1>2 DEF TouchBy
  <2>. QED
    BY <1>2, <2>1, <2>2, <2>3 DEF Expected, ByReviewer
<1>3. ASSUME NEW m \in Managers, NEW c \in Cases, NEW r \in Managers, NEW value \in Values, Approve(m, c, r, value)
      PROVE  Goal
  BY <1>2, <1>3 DEF Approve, Approved
<1>4. ASSUME NEW m \in Managers, NEW c \in Cases, NEW r \in Managers, NEW value \in Values,
             NEW resolved \in BOOLEAN, Save(m, c, r, value, resolved)
      PROVE  Goal
  BY <1>2, <1>4 DEF Save
<1>5. ASSUME NEW c \in Cases, NEW given \in SUBSET Docs, NEW value \in Values, ClientSubmits(c, given, value)
      PROVE  Goal
  BY <1>0, <1>5 DEF ClientSubmits, ByOthers
<1>6. ASSUME NEW w \in Workers, CommitExtraction(w) PROVE Goal
  <2>1. job[w].case = k /\ draft'[k] = Preserved(k, Merged(job[w].sources)) /\ editor' = editor
    BY <1>0, <1>6 DEF CommitExtraction
  <2>2. ~Manual(k)
    BY <1>0, <2>1 DEF Preserved
  <2>. QED
    BY <2>1, <2>2 DEF ByOthers
<1>7. ASSUME NEW w \in Workers, NEW m \in Managers, NEW r \in Managers, AutoApprove(w, m, r)
      PROVE  Goal
  <2>1. job[w].case = k /\ auto'[k] /\ Unreviewed(k)
    BY <1>0, <1>7 DEF AutoApprove, Approved
  <2>. QED
    BY <1>0, <2>1 DEF Unreviewed, ByOthers
<1>8. ASSUME NEW m \in Managers, NEW c \in Cases,
             OpenCase(m, c) \/ Verify(m, c) \/ \E r \in Managers : StartReview(m, c, r)
      PROVE  UNCHANGED draft
  BY <1>8 DEF OpenCase, Verify, StartReview, case
<1>9. ASSUME NEW c \in Cases, Archive(c) \/ \E d \in Docs : Reattach(c, d) PROVE UNCHANGED draft
  BY <1>9 DEF Archive, Reattach, case
<1>10. ASSUME NEW w \in Workers,
              \/ \E c \in Cases : ReadCase(w, c)
              \/ MarkProcessing(w) \/ ReadDocuments(w) \/ Abandon(w) \/ NoteOutcome(w)
       PROVE  UNCHANGED draft
  BY <1>10 DEF ReadCase, MarkProcessing, ReadDocuments, Abandon, NoteOutcome, case
<1>11. CASE UNCHANGED vars
  BY <1>1, <1>11 DEF vars, case
<1>. QED
  BY <1>1, <1>3, <1>4, <1>5, <1>6, <1>7, <1>8, <1>9, <1>10, <1>11 DEF Next, Review, Extract

\* A case stays with the reviewer it was first given to.
THEOREM KeptReviewer == Spec => ReviewerKept
<1>1. RevInv /\ [Next]_vars => [\A c \in Cases : reviewer[c] # Nobody => reviewer'[c] = reviewer[c]]_vars
  BY ReviewerStep
<1>. QED
  BY <1>1, RevInvariance, PTL DEF Spec, ReviewerKept

\* A case a person has opened for review is never approved automatically,
\* however long before that the approval was decided.
THEOREM PeopleFirst == Spec => AutoApprovalLeavesPeople
<1>1. RevInv /\ [Next]_vars =>
        [\A c \in Cases : auto'[c] /\ ~auto[c] => reviewer[c] = Nobody /\ ~Manual(c)]_vars
  BY AutoStep
<1>. QED
  BY <1>1, RevInvariance, PTL DEF Spec, AutoApprovalLeavesPeople

\* What a reviewer's change replaces is what the reviewer's screen showed.
THEOREM SeenFirst == Spec => SeenBeforeReplaced
<1>1. ASSUME RevInv, [Next]_vars, NEW c \in Cases, NEW m \in Managers,
             draft'[c] # draft[c], editor'[c] = m, ~auto'[c]
      PROVE  screen[m].case = c /\ screen[m].draft = draft[c]
  <2>1. editor \in [Cases -> Managers \cup {Nobody}] /\ ScreensAreCurrent
    BY <1>1 DEF RevInv, TypeInv, ReviewTypeOK, ScreenInv
  <2>2. ~ByOthers(c)
    BY <1>1, <2>1, ReviewAssumption DEF ByOthers, Manual
  <2>3. ByReviewer(m, c)
    BY <1>1, <2>2, DraftStep DEF ByReviewer
  <2>. QED
    BY <2>1, <2>3 DEF ByReviewer, ScreensAreCurrent
<1>2. RevInv /\ [Next]_vars =>
        [\A c \in Cases, m \in Managers :
           draft'[c] # draft[c] /\ editor'[c] = m /\ ~auto'[c]
             => screen[m].case = c /\ screen[m].draft = draft[c]]_vars
  BY <1>1
<1>. QED
  BY <1>2, RevInvariance, PTL DEF Spec, SeenBeforeReplaced

\* What a reviewer entered is changed by reviewers only.
THEOREM ReviewerWins == Spec => ReviewedValueKept
<1>1. RevInv /\ [Next]_vars =>
        [\A c \in Cases : Manual(c) /\ draft'[c] # draft[c] =>
           \E m \in Managers : screen[m].case = c /\ screen'[m].draft = draft'[c] /\ screen[m].current]_vars
  BY DraftStep DEF ByReviewer, ByOthers
<1>. QED
  BY <1>1, RevInvariance, PTL DEF Spec, ReviewedValueKept
=============================================================================
