---------------------------- MODULE ReviewDrafts ----------------------------
(***************************************************************************)
(* Temporary review drafts in the browser.  A reviewer edits an import     *)
(* case while other staff change it on the server.  The edits are kept in  *)
(* the tab's session storage, a save made offline is queued there and sent *)
(* later with the version it was based on, and the page may be reloaded at *)
(* any moment.                                                             *)
(*                                                                         *)
(* One reviewer, one tab, one case.  What matters of a draft is whose      *)
(* changes are in it: a content is the set of edits made to reach it, and  *)
(* a save replaces the server's content by the draft's.  updated_at is a   *)
(* number.  sameReviewDraft compares version and content; drafts with one  *)
(* nonce are the same draft, so nonces are left out.                       *)
(***************************************************************************)
EXTENDS Naturals, FiniteSets

CONSTANTS
  MaxEdits,     \* bound: edits the reviewer makes
  MaxOthers     \* bound: writes of other staff

ASSUME DraftAssumption == MaxEdits \in Nat /\ MaxOthers \in Nat

Edits      == 1..MaxEdits
Others     == (MaxEdits + 1)..(MaxEdits + MaxOthers)
Contents   == SUBSET (Edits \cup Others)
MaxVersion == MaxEdits + MaxOthers + 1   \* no more writes are followed
Versions   == 1..MaxVersion

VARIABLES
  edits,    \* edits the reviewer has made
  others,   \* writes of other staff
  server,   \* the case: updated_at and mapped_draft
  screen,   \* the review as opened in the tab
  stored,   \* the entry of sessionStorage
  sync,     \* syncReviewDrafts, its request
  save,     \* mutate("save"), its request
  late,     \* requests nobody waits for and the server has not seen yet
  load,     \* openCase: the answer on its way
  online,   \* navigator.onLine
  owed,     \* edits the reviewer has neither seen saved nor given up (observed, never read)
  seen      \* writes of other staff the review has shown (observed, never read)

vars == <<edits, others, server, screen, stored, sync, save, late, load, online, owed, seen>>

Closed   == [open |-> FALSE, version |-> 1, draft |-> {}, shown |-> {}, dirty |-> FALSE,
             changed |-> FALSE, panel |-> FALSE, moved |-> FALSE]
NoEntry  == [some |-> FALSE, version |-> 1, draft |-> {}, queued |-> FALSE, conflict |-> FALSE]
NoCall   == [place |-> "idle", version |-> 1, draft |-> {}]
NoLoad   == [asked |-> FALSE, version |-> 1, content |-> {}]

\* On the screen, shown is the draft as last rendered, changed the state
\* reviewChanged, panel the hook's state "conflict", and moved says that
\* localReviewRevision differs from syncingReviewRevision.
\* (Mutant of Payload: a draft is sent without the version it is based on.)
PayloadUnversioned == [version |-> 0, draft |-> screen.shown]

Payload  == [version |-> screen.version, draft |-> screen.shown]
Entry(queued, conflict) == [some |-> TRUE, version |-> Payload.version, draft |-> Payload.draft,
                            queued |-> queued, conflict |-> conflict]
Same(a, b) == a.version = b.version /\ a.draft = b.draft
Busy     == save.place # "idle" \/ load.asked
Rendered == screen.shown = screen.draft

Init ==
  /\ edits = 0 /\ others = 0
  /\ server = [version |-> 1, content |-> {}]
  /\ screen = Closed /\ stored = NoEntry
  /\ sync = NoCall /\ save = NoCall /\ late = {} /\ load = NoLoad
  /\ online = TRUE
  /\ owed = {} /\ seen = {}

-----------------------------------------------------------------------------
(* The server and the network.                                             *)

\* Another session saves on top of the version it has read.
OtherSaves ==
  /\ others < MaxOthers /\ server.version < MaxVersion
  /\ others' = others + 1
  /\ server' = [version |-> server.version + 1, content |-> server.content \cup {MaxEdits + others + 1}]
  /\ UNCHANGED <<edits, screen, stored, sync, save, late, load, online, owed, seen>>

\* (Mutant of Accepted: updated_at is not compared.)
AcceptedAlways(call) == TRUE

\* assertReviewVersion
Accepted(call) == call.version = server.version

\* saveImportReview
Write(call) ==
  IF Accepted(call) THEN server' = [version |-> server.version + 1, content |-> call.draft]
                    ELSE UNCHANGED server
Answer(call) == IF Accepted(call) THEN "saved" ELSE "review_changed"

ServeSync ==
  /\ sync.place = "sent" /\ server.version < MaxVersion
  /\ Write(sync)
  /\ sync' = [sync EXCEPT !.place = Answer(sync)]
  /\ UNCHANGED <<edits, others, screen, stored, save, late, load, online, owed, seen>>

ServeSave ==
  /\ save.place = "sent" /\ server.version < MaxVersion
  /\ Write(save)
  /\ save' = [save EXCEPT !.place = Answer(save)]
  /\ UNCHANGED <<edits, others, screen, stored, sync, late, load, online, owed, seen>>

\* A request whose sender has given up arrives all the same.
ServeLate ==
  /\ server.version < MaxVersion
  /\ \E call \in late : Write(call) /\ late' = late \ {call}
  /\ UNCHANGED <<edits, others, screen, stored, sync, save, load, online, owed, seen>>

Connection ==
  /\ online' = ~online
  /\ UNCHANGED <<edits, others, server, screen, stored, sync, save, late, load, owed, seen>>

Unserved(call) == IF call.place = "sent" THEN {[version |-> call.version, draft |-> call.draft]} ELSE {}

-----------------------------------------------------------------------------
(* The screen.                                                             *)

\* openCase: the answer is read now and rendered later; a newer request
\* replaces one on its way.
AskCase == load' = [asked |-> TRUE, version |-> server.version, content |-> server.content]

OpenCase ==
  /\ ~screen.open /\ ~load.asked
  /\ AskCase
  /\ UNCHANGED <<edits, others, server, screen, stored, sync, save, late, online, owed, seen>>

\* The answer is rendered.  When the review was closed before, the entry of
\* the storage is looked at: restored if its version is the one loaded, and
\* otherwise only reported.
ShowCase ==
  LET fresh == [open |-> TRUE, version |-> load.version, draft |-> load.content, shown |-> load.content,
                dirty |-> FALSE, changed |-> FALSE, panel |-> screen.open /\ screen.panel,
                moved |-> screen.moved]
  IN
  /\ load.asked
  /\ load' = NoLoad
  /\ screen' =
       IF screen.open \/ ~stored.some THEN fresh
       ELSE IF stored.conflict \/ stored.version # load.version THEN [fresh EXCEPT !.changed = TRUE, !.panel = TRUE]
       ELSE [fresh EXCEPT !.draft = stored.draft, !.shown = stored.draft, !.dirty = TRUE, !.moved = TRUE]
  /\ seen' = seen \cup (screen'.shown \cap Others)
  /\ UNCHANGED <<edits, others, server, stored, sync, save, late, online, owed>>

\* An edit.  Inputs are disabled while an action runs or after a conflict, but
\* not, or not at once, while a queued draft is being sent.
Edit ==
  /\ screen.open /\ ~Busy /\ ~screen.changed /\ edits < MaxEdits
  /\ edits'  = edits + 1
  /\ screen' = [screen EXCEPT !.draft = @ \cup {edits + 1}, !.dirty = TRUE, !.moved = TRUE]
  /\ owed'   = owed \cup {edits + 1}
  /\ UNCHANGED <<others, server, stored, sync, save, late, load, online, seen>>

Render ==
  /\ screen.open /\ ~Rendered
  /\ screen' = [screen EXCEPT !.shown = screen.draft]
  /\ UNCHANGED <<edits, others, server, stored, sync, save, late, load, online, owed, seen>>

\* store: a stale payload never gains a new version implicitly.
Storable == ~(stored.some /\ stored.conflict)

\* retainConflictDraft
Retain == stored' = Entry(FALSE, TRUE)

Keep(queued) == stored' = Entry(queued \/ stored.queued, FALSE)

\* The 300 ms timer of an unsaved draft.
Persist ==
  /\ screen.open /\ screen.dirty /\ Rendered /\ ~Busy /\ sync.place = "idle"
  /\ IF screen.changed THEN Retain /\ UNCHANGED screen
     ELSE IF Storable THEN Keep(FALSE) /\ screen' = [screen EXCEPT !.panel = FALSE]
     ELSE UNCHANGED stored /\ screen' = [screen EXCEPT !.changed = TRUE, !.panel = TRUE]
  /\ UNCHANGED <<edits, others, server, sync, save, late, load, online, owed, seen>>

Savable == screen.open /\ Rendered /\ ~Busy /\ ~screen.changed /\ sync.place = "idle"

\* mutate("save") without a connection.
QueueSave ==
  /\ Savable /\ ~online
  /\ IF Storable THEN Keep(TRUE) /\ screen' = [screen EXCEPT !.panel = FALSE]
     ELSE UNCHANGED stored /\ screen' = [screen EXCEPT !.changed = TRUE, !.panel = TRUE]
  /\ UNCHANGED <<edits, others, server, sync, save, late, load, online, owed, seen>>

\* mutate("save") with one.
SendSave ==
  /\ Savable /\ online
  /\ save' = [place |-> "sent", version |-> screen.version, draft |-> screen.draft]
  /\ UNCHANGED <<edits, others, server, screen, stored, sync, late, load, online, owed, seen>>

\* The answer: the temporary draft is cleared and the case loaded again, or
\* the review is marked changed and everything stays.
SaveAnswered ==
  /\ save.place \in {"saved", "review_changed"}
  /\ save' = NoCall
  /\ IF save.place = "saved"
       THEN /\ stored' = NoEntry
            /\ screen' = [screen EXCEPT !.version = save.version + 1, !.dirty = FALSE, !.panel = FALSE]
            /\ owed'   = owed \ save.draft
            /\ AskCase
       ELSE /\ screen' = [screen EXCEPT !.changed = TRUE]
            /\ UNCHANGED <<stored, load, owed>>
  /\ UNCHANGED <<edits, others, server, sync, late, online, seen>>

\* No answer: the request failed, or only its answer did.
SaveFails ==
  /\ save.place # "idle"
  /\ save' = NoCall
  /\ late' = late \cup Unserved(save)
  /\ UNCHANGED <<edits, others, server, screen, stored, sync, load, online, owed, seen>>

\* "Restore for comparison", offered after a conflict and not withdrawn by a
\* reload: the retained draft replaces the one on the screen.
Restore ==
  /\ screen.open /\ screen.panel /\ stored.some /\ Rendered /\ ~Busy
  /\ screen' = [screen EXCEPT !.draft = stored.draft, !.shown = stored.draft, !.dirty = TRUE, !.moved = TRUE]
  /\ owed'   = owed \cap (stored.draft \cup server.content)
  /\ UNCHANGED <<edits, others, server, stored, sync, save, late, load, online, seen>>

\* "Reload latest review" (confirmed): the edits are given up.  The entry stays.
Reload ==
  /\ screen.open /\ screen.changed /\ ~Busy
  /\ owed' = {}
  /\ AskCase
  /\ UNCHANGED <<edits, others, server, screen, stored, sync, save, late, online, seen>>

\* "Discard local draft & load latest"
Discard ==
  /\ screen.open /\ screen.panel /\ ~Busy
  /\ stored' = NoEntry
  /\ screen' = [screen EXCEPT !.panel = FALSE]
  /\ owed' = {}
  /\ AskCase
  /\ UNCHANGED <<edits, others, server, sync, save, late, online, seen>>

\* closeReview: a dirty review is given up after a confirmation.
Close ==
  /\ screen.open /\ ~Busy
  /\ screen' = [Closed EXCEPT !.moved = screen.moved]
  /\ owed' = IF screen.dirty THEN {} ELSE owed
  /\ UNCHANGED <<edits, others, server, stored, sync, save, late, load, online, seen>>

\* The page is reloaded or the tab crashes: the storage survives, a draft the
\* timer has not reached is gone, and nobody waits for the requests.
ReloadPage ==
  /\ screen' = Closed /\ load' = NoLoad /\ sync' = NoCall /\ save' = NoCall
  /\ late'   = late \cup Unserved(sync) \cup Unserved(save)
  /\ owed'   = owed \cap (stored.draft \cup server.content)
  /\ UNCHANGED <<edits, others, server, stored, online, seen>>

-----------------------------------------------------------------------------
(* syncReviewDrafts: one run at a time, on reconnection, focus or a queued  *)
(* save.                                                                   *)

\* An edit made before it is rendered long before the answer.
StartSync ==
  /\ online /\ sync.place = "idle" /\ Rendered
  /\ stored.queued /\ ~stored.conflict
  /\ sync'   = [place |-> "sent", version |-> stored.version, draft |-> stored.draft]
  /\ screen' = [screen EXCEPT !.moved = FALSE, !.panel = FALSE]
  /\ UNCHANGED <<edits, others, server, stored, save, late, load, online, owed, seen>>

\* (Mutant of Newer: the revision counters are not compared.)
NewerShown(editing) == ~Same(Payload, sync) \/ editing

\* onSynced: what the screen holds is newer than what was saved.
Newer(editing) == ~Same(Payload, sync) \/ screen.moved \/ editing

\* The server has saved the draft.  The entry goes if it is still that draft,
\* and a newer one is kept as a conflict; likewise for the screen, whose draft
\* is compared as rendered, with the counters for what is not rendered yet.
SyncSaved ==
  /\ sync.place = "saved"
  /\ sync' = NoCall
  /\ LET newer == stored.some /\ (stored.conflict \/ ~Same(stored, sync)) IN
     \/ /\ newer
        /\ stored' = [stored EXCEPT !.queued = FALSE, !.conflict = TRUE]
        /\ screen' = IF screen.open THEN [screen EXCEPT !.changed = TRUE, !.panel = TRUE] ELSE screen
        /\ UNCHANGED load
     \/ /\ ~newer /\ ~screen.open
        /\ stored' = NoEntry
        /\ UNCHANGED <<screen, load>>
     \/ /\ ~newer /\ screen.open
        /\ \E editing \in BOOLEAN :
             IF Newer(editing)
               THEN /\ Retain
                    /\ screen' = [screen EXCEPT !.dirty = TRUE, !.changed = TRUE, !.panel = TRUE]
                    /\ UNCHANGED load
               ELSE /\ stored' = NoEntry
                    /\ screen' = [screen EXCEPT !.dirty = FALSE]
                    /\ AskCase
  /\ owed' = owed \ sync.draft
  /\ UNCHANGED <<edits, others, server, save, late, online, seen>>

\* The version had moved: the draft stays, as a conflict.
SyncRefused ==
  /\ sync.place = "review_changed"
  /\ sync' = NoCall
  /\ stored' = IF stored.some THEN [stored EXCEPT !.queued = FALSE, !.conflict = TRUE] ELSE stored
  /\ screen' = IF screen.open THEN [screen EXCEPT !.changed = TRUE, !.panel = TRUE] ELSE screen
  /\ UNCHANGED <<edits, others, server, save, late, load, online, owed, seen>>

\* The draft is refused for another reason: it stays, to be looked at.
SyncRejected ==
  /\ sync.place = "sent"
  /\ sync' = NoCall
  /\ stored' = IF stored.some THEN [stored EXCEPT !.queued = FALSE, !.conflict = FALSE] ELSE stored
  /\ UNCHANGED <<edits, others, server, screen, save, late, load, online, owed, seen>>

\* A timeout, a lost connection or a failing server: the queue stays.
SyncFails ==
  /\ sync.place # "idle"
  /\ sync' = NoCall
  /\ late' = late \cup Unserved(sync)
  /\ UNCHANGED <<edits, others, server, screen, stored, save, load, online, owed, seen>>

\* The session is over: every temporary draft is cleared.
SyncUnauthorized ==
  /\ sync.place = "sent"
  /\ sync' = NoCall
  /\ stored' = NoEntry
  /\ owed' = owed \cap (screen.draft \cup server.content)
  /\ UNCHANGED <<edits, others, server, screen, save, late, load, online, seen>>

-----------------------------------------------------------------------------
Next ==
  \/ OtherSaves \/ ServeSync \/ ServeSave \/ ServeLate \/ Connection
  \/ OpenCase \/ ShowCase \/ Edit \/ Render \/ Persist \/ Restore \/ Reload \/ Discard \/ Close
  \/ QueueSave \/ SendSave \/ SaveAnswered \/ SaveFails \/ ReloadPage
  \/ StartSync \/ SyncSaved \/ SyncRefused \/ SyncRejected \/ SyncFails \/ SyncUnauthorized

Spec == Init /\ [][Next]_vars

-----------------------------------------------------------------------------
Call(places) == [place : places, version : Versions, draft : Contents]

DraftTypeOK ==
  /\ edits \in 0..MaxEdits /\ others \in 0..MaxOthers
  /\ server \in [version : Versions, content : Contents]
  /\ screen \in [open : BOOLEAN, version : Versions, draft : Contents, shown : Contents, dirty : BOOLEAN,
                 changed : BOOLEAN, panel : BOOLEAN, moved : BOOLEAN]
  /\ stored \in [some : BOOLEAN, version : Versions, draft : Contents, queued : BOOLEAN, conflict : BOOLEAN]
  /\ sync \in Call({"idle", "sent", "saved", "review_changed"})
  /\ save \in Call({"idle", "sent", "saved", "review_changed"})
  /\ late \subseteq [version : Versions, draft : Contents]
  /\ load \in [asked : BOOLEAN, version : Versions, content : Contents]
  /\ online \in BOOLEAN
  /\ owed \subseteq Edits /\ seen \subseteq Others

\* No edit disappears: until the reviewer has seen it saved or given it up, it
\* is on the screen, in the session storage or at the server, whatever answers
\* are lost, whatever is typed while a draft is being sent, and after a reload
\* of the page.
NothingLost ==
  owed \subseteq screen.draft \cup stored.draft \cup server.content

\* What other staff have saved leaves the case only after the review has shown
\* it: a draft written before it, queued, retained or sent late, replaces it
\* if the reviewer restores that draft with the other's change in view, and
\* in no other way.
OverwrittenInSight == (MaxEdits + 1)..(MaxEdits + others) \subseteq server.content \cup seen

-----------------------------------------------------------------------------
(* What the source says and the code does not do.                          *)

\* "A stale local payload ... must never gain a new server version": a draft
\* that could be saved over the current version contains it.
StaleStaysStale ==
  stored.some /\ ~stored.conflict /\ stored.version = server.version => server.content \subseteq stored.draft
=============================================================================
