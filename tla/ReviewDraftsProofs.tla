------------------------- MODULE ReviewDraftsProofs -------------------------
(***************************************************************************)
(* Theorems about ReviewDrafts for any number of edits and of others'      *)
(* writes, and for any number of requests that linger in the network.      *)
(***************************************************************************)
EXTENDS ReviewDrafts, TLAPS

\* Versions come from the server, and what was saved is below its version.
Versioned ==
  /\ screen.version <= server.version /\ stored.version <= server.version
  /\ sync.version <= server.version /\ save.version <= server.version
  /\ load.version <= server.version
  /\ \A c \in late : c.version <= server.version
  /\ save.place = "saved" => save.version < server.version

\* No content holds an edit that has not been made.
Done == (1..edits) \cup ((MaxEdits + 1)..(MaxEdits + others))
Made ==
  /\ server.content \subseteq Done /\ screen.draft \subseteq Done /\ screen.shown \subseteq Done
  /\ stored.draft \subseteq Done /\ sync.draft \subseteq Done /\ save.draft \subseteq Done
  /\ load.content \subseteq Done
  /\ \A c \in late : c.draft \subseteq Done

\* A draft that is being sent is no conflict, and has been rendered unless the
\* counters say that it was edited.  Nothing is in a closed review, or in the
\* storage without an entry.
Shaped ==
  /\ sync.place # "idle" => ~stored.conflict /\ (screen.moved \/ Rendered)
  /\ ~stored.some => stored = NoEntry
  /\ ~screen.open => screen.draft = {} /\ Rendered

\* A draft that the server would accept has the saved edits that are owed.
Holds(v, d) == v = server.version => owed \cap server.content \subseteq d
OwedBased ==
  /\ sync.place = "sent" => Holds(sync.version, sync.draft)
  /\ save.place = "sent" => Holds(save.version, save.draft)
  /\ \A c \in late : Holds(c.version, c.draft)
  /\ stored.some /\ ~stored.conflict => Holds(stored.version, stored.draft)
  /\ screen.open /\ ~screen.changed /\ ~load.asked =>
       /\ Holds(screen.version, screen.shown) /\ Holds(screen.version, screen.draft)
       /\ screen.panel /\ stored.some => Holds(screen.version, stored.draft)
  /\ load.asked => owed \cap load.content \subseteq server.content /\ Holds(load.version, load.content)

\* Once a queued draft is saved, every other request comes too late.
Overtaken ==
  sync.place = "saved" =>
    /\ owed \cap server.content \subseteq sync.draft
    /\ save.place = "sent" => save.version < server.version
    /\ \A c \in late : c.version < server.version

\* Where the edits are that are owed.
Accounted ==
  /\ load.asked /\ screen.open => owed = {}
  /\ save.place # "idle" => owed \subseteq save.draft \cup server.content
  /\ save.place = "saved" => owed \subseteq save.draft
  /\ screen.open /\ (screen.dirty \/ ~screen.changed) => owed \subseteq screen.draft \cup server.content
  /\ screen.open /\ ~screen.dirty => owed \cap screen.draft \subseteq server.content

DraftInv == /\ DraftTypeOK /\ Versioned /\ Made /\ Shaped /\ OwedBased /\ Overtaken /\ Accounted
            /\ NothingLost

\* The writes of others that a draft holds have been shown.
DraftsShown ==
  /\ screen.draft \cap Others \subseteq seen /\ screen.shown \cap Others \subseteq seen
  /\ stored.draft \cap Others \subseteq seen
  /\ sync.draft \cap Others \subseteq seen /\ save.draft \cap Others \subseteq seen
  /\ \A c \in late : c.draft \cap Others \subseteq seen

\* Whoever holds the server's version has been shown what others wrote into it:
\* a request that would be accepted overwrites nothing unseen.
Known(v) == v = server.version => server.content \cap Others \subseteq seen
VersionsShown ==
  /\ sync.place = "sent" => Known(sync.version)
  /\ save.place = "sent" => Known(save.version)
  /\ save.place = "saved" => Known(save.version + 1)
  /\ \A c \in late : Known(c.version)
  /\ stored.some => Known(stored.version)
  /\ screen.open => Known(screen.version)
  /\ load.asked /\ load.version = server.version => server.content \subseteq load.content

Sight == DraftsShown /\ VersionsShown /\ OverwrittenInSight

-----------------------------------------------------------------------------
(* The actions of many outcomes, in the terms of the invariant.            *)

Screens == [open : BOOLEAN, version : Versions, draft : Contents, shown : Contents, dirty : BOOLEAN,
            changed : BOOLEAN, panel : BOOLEAN, moved : BOOLEAN]
Drafts  == [some : BOOLEAN, version : Versions, draft : Contents, queued : BOOLEAN, conflict : BOOLEAN]
Loads   == [asked : BOOLEAN, version : Versions, content : Contents]

LEMMA Constants == MaxVersion \in Nat /\ 1 \in Versions /\ {} \in Contents /\ (\A v \in Versions : v \in Nat)
BY DraftAssumption DEF MaxVersion, Versions, Contents

LEMMA Empty == NoEntry \in Drafts /\ Closed \in Screens /\ NoLoad \in Loads
BY Constants DEF NoEntry, Drafts, Closed, Screens, NoLoad, Loads

\* What is on the screen is put into the storage, or a conflict is found there.
LEMMA Storing ==
  ASSUME DraftTypeOK, Persist \/ QueueSave
  PROVE  /\ screen.open /\ Rendered /\ ~Busy /\ sync.place = "idle"
         /\ UNCHANGED <<edits, others, server, sync, save, late, load, online, owed, seen>>
         /\ screen' \in Screens /\ stored' \in Drafts
         /\ screen'.open /\ screen'.version = screen.version /\ screen'.draft = screen.draft
         /\ screen'.shown = screen.shown /\ screen'.dirty = screen.dirty /\ screen'.moved = screen.moved
         /\ screen.changed => screen'.changed
         /\ \/ stored' = stored /\ screen'.changed
            \/ /\ screen.dirty \/ ~screen.changed
               /\ stored'.some /\ stored'.version = screen.version /\ stored'.draft = screen.shown
               /\ screen.changed => stored'.conflict
               /\ screen'.panel => screen'.changed
<1>1. screen \in Screens /\ stored \in Drafts
  BY DEF DraftTypeOK, Screens, Drafts
<1>2. \A q, c \in BOOLEAN :
        /\ Entry(q, c) \in Drafts /\ Entry(q, c).some /\ Entry(q, c).conflict = c
        /\ Entry(q, c).version = screen.version /\ Entry(q, c).draft = screen.shown
  BY <1>1 DEF Entry, Payload, Drafts, Screens
<1>3. stored.queued \in BOOLEAN
  BY <1>1 DEF Drafts
<1>4. CASE Persist
  <2>1. /\ screen.open /\ screen.dirty /\ Rendered /\ ~Busy /\ sync.place = "idle"
        /\ UNCHANGED <<edits, others, server, sync, save, late, load, online, owed, seen>>
    BY <1>4 DEF Persist
  <2>2. CASE screen.changed
    <3>1. stored' = Entry(FALSE, TRUE) /\ screen' = screen
      BY <1>4, <2>2 DEF Persist, Retain
    <3> QED
      BY <1>1, <1>2, <2>1, <2>2, <3>1
  <2>3. CASE ~screen.changed /\ Storable
    <3>1. stored' = Entry(stored.queued, FALSE) /\ screen' = [screen EXCEPT !.panel = FALSE]
      BY <1>4, <2>3, <1>3 DEF Persist, Keep
    <3>2. screen' \in Screens
      BY <1>1, <3>1 DEF Screens
    <3> QED
      BY <1>1, <1>2, <1>3, <2>1, <2>3, <3>1, <3>2 DEF Screens
  <2>4. CASE ~screen.changed /\ ~Storable
    <3>1. stored' = stored /\ screen' = [screen EXCEPT !.changed = TRUE, !.panel = TRUE]
      BY <1>4, <2>4 DEF Persist
    <3>2. screen' \in Screens
      BY <1>1, <3>1 DEF Screens
    <3> QED
      BY <1>1, <2>1, <2>4, <3>1, <3>2 DEF Screens
  <2> QED
    BY <2>2, <2>3, <2>4
<1>5. CASE QueueSave
  <2>1. /\ screen.open /\ Rendered /\ ~Busy /\ ~screen.changed /\ sync.place = "idle"
        /\ UNCHANGED <<edits, others, server, sync, save, late, load, online, owed, seen>>
    BY <1>5 DEF QueueSave, Savable
  <2>2. CASE Storable
    <3>1. stored' = Entry(TRUE, FALSE) /\ screen' = [screen EXCEPT !.panel = FALSE]
      BY <1>5, <2>2, <1>3 DEF QueueSave, Keep
    <3>2. screen' \in Screens
      BY <1>1, <3>1 DEF Screens
    <3> QED
      BY <1>1, <1>2, <2>1, <2>2, <3>1, <3>2 DEF Screens
  <2>3. CASE ~Storable
    <3>1. stored' = stored /\ screen' = [screen EXCEPT !.changed = TRUE, !.panel = TRUE]
      BY <1>5, <2>3 DEF QueueSave
    <3>2. screen' \in Screens
      BY <1>1, <3>1 DEF Screens
    <3> QED
      BY <1>1, <2>1, <2>3, <3>1, <3>2 DEF Screens
  <2> QED
    BY <2>2, <2>3
<1> QED
  BY <1>4, <1>5

\* A queued draft has been saved: it is done with, or kept as a conflict
\* because the storage or the screen holds another one.
LEMMA Synced ==
  ASSUME DraftTypeOK, Shaped, SyncSaved
  PROVE  /\ sync.place = "saved" /\ sync' = NoCall /\ owed' = owed \ sync.draft
         /\ UNCHANGED <<edits, others, server, save, late, online, seen>>
         /\ screen' \in Screens /\ stored' \in Drafts
         /\ screen'.open = screen.open /\ screen'.version = screen.version /\ screen'.draft = screen.draft
         /\ screen'.shown = screen.shown /\ screen'.moved = screen.moved
         /\ screen.changed => screen'.changed
         /\ \/ /\ stored.some /\ stored'.some /\ stored'.conflict /\ screen'.dirty = screen.dirty /\ load' = load
               /\ stored'.draft = stored.draft /\ stored'.version = stored.version
               /\ screen.open => screen'.changed
            \/ /\ stored' = NoEntry /\ screen' = screen /\ load' = load
               /\ ~screen.open /\ stored.draft \subseteq sync.draft
            \/ /\ stored'.some /\ stored'.conflict /\ screen'.dirty /\ screen'.changed /\ load' = load
               /\ stored'.draft = screen.shown /\ stored'.version = screen.version
               /\ screen.open /\ stored.draft \subseteq sync.draft
            \/ /\ stored' = NoEntry /\ ~screen'.dirty /\ AskCase
               /\ screen.open /\ stored.draft \subseteq sync.draft /\ screen.draft = sync.draft
<1> DEFINE newer == stored.some /\ (stored.conflict \/ ~Same(stored, sync))
<1>1. screen \in Screens /\ stored \in Drafts
  BY DEF DraftTypeOK, Screens, Drafts
<1>2. /\ sync.place = "saved" /\ sync' = NoCall /\ owed' = owed \ sync.draft
      /\ UNCHANGED <<edits, others, server, save, late, online, seen>>
  BY DEF SyncSaved
<1>3. CASE newer
  <2>1. /\ stored' = [stored EXCEPT !.queued = FALSE, !.conflict = TRUE] /\ load' = load
        /\ screen' = IF screen.open THEN [screen EXCEPT !.changed = TRUE, !.panel = TRUE] ELSE screen
    BY <1>3 DEF SyncSaved
  <2>2. /\ stored' \in Drafts /\ stored'.some /\ stored'.conflict
        /\ stored'.draft = stored.draft /\ stored'.version = stored.version
    BY <1>1, <1>3, <2>1 DEF Drafts
  <2>3. /\ screen' \in Screens
        /\ screen'.open = screen.open /\ screen'.version = screen.version /\ screen'.draft = screen.draft
        /\ screen'.shown = screen.shown /\ screen'.moved = screen.moved /\ screen'.dirty = screen.dirty
        /\ screen.open => screen'.changed
        /\ screen.changed => screen'.changed
    BY <1>1, <2>1 DEF Screens
  <2> QED
    BY <1>2, <2>1, <2>2, <2>3
<1>4. ~newer => stored.draft \subseteq sync.draft
  BY DEF Shaped, Same, NoEntry
<1>5. CASE ~newer /\ ~screen.open
  <2>1. stored' = NoEntry /\ screen' = screen /\ load' = load
    BY <1>5 DEF SyncSaved
  <2> QED
    BY <1>1, <1>2, <1>4, <1>5, <2>1, Empty
<1>6. CASE ~newer /\ screen.open
  <2>1. PICK editing \in BOOLEAN :
          IF Newer(editing)
            THEN /\ Retain
                 /\ screen' = [screen EXCEPT !.dirty = TRUE, !.changed = TRUE, !.panel = TRUE]
                 /\ UNCHANGED load
            ELSE /\ stored' = NoEntry
                 /\ screen' = [screen EXCEPT !.dirty = FALSE]
                 /\ AskCase
    BY <1>6 DEF SyncSaved
  <2>2. CASE Newer(editing)
    <3>1. /\ screen' = [screen EXCEPT !.dirty = TRUE, !.changed = TRUE, !.panel = TRUE] /\ load' = load
          /\ stored' = [some |-> TRUE, version |-> screen.version, draft |-> screen.shown,
                        queued |-> FALSE, conflict |-> TRUE]
      BY <2>1, <2>2 DEF Retain, Entry, Payload
    <3>2. /\ stored' \in Drafts /\ stored'.some /\ stored'.conflict
          /\ stored'.draft = screen.shown /\ stored'.version = screen.version
      BY <1>1, <3>1 DEF Drafts, Screens
    <3>3. /\ screen' \in Screens
          /\ screen'.open = screen.open /\ screen'.version = screen.version /\ screen'.draft = screen.draft
          /\ screen'.shown = screen.shown /\ screen'.moved = screen.moved /\ screen'.dirty /\ screen'.changed
      BY <1>1, <3>1 DEF Screens
    <3> QED
      BY <1>2, <1>4, <1>6, <3>1, <3>2, <3>3
  <2>3. CASE ~Newer(editing)
    <3>1. stored' = NoEntry /\ screen' = [screen EXCEPT !.dirty = FALSE] /\ AskCase
      BY <2>1, <2>3
    <3>2. screen.draft = sync.draft
      BY <1>2, <2>3 DEF Newer, Same, Payload, Shaped, Rendered
    <3>3. /\ screen' \in Screens
          /\ screen'.open = screen.open /\ screen'.version = screen.version /\ screen'.draft = screen.draft
          /\ screen'.shown = screen.shown /\ screen'.moved = screen.moved /\ ~screen'.dirty
          /\ screen'.changed = screen.changed
      BY <1>1, <3>1 DEF Screens
    <3> QED
      BY <1>2, <1>4, <1>6, <3>1, <3>2, <3>3, Empty
  <2> QED
    BY <2>2, <2>3
<1> QED
  BY <1>3, <1>5, <1>6

\* A queued draft was not saved: it stays, and is a conflict if refused.
LEMMA Unsaved ==
  ASSUME DraftTypeOK, SyncRefused \/ SyncRejected
  PROVE  /\ sync.place # "idle" /\ sync' = NoCall
         /\ UNCHANGED <<edits, others, server, save, late, load, online, owed, seen>>
         /\ screen' \in Screens /\ stored' \in Drafts
         /\ screen'.open = screen.open /\ screen'.version = screen.version /\ screen'.draft = screen.draft
         /\ screen'.shown = screen.shown /\ screen'.moved = screen.moved /\ screen'.dirty = screen.dirty
         /\ screen.changed => screen'.changed
         /\ stored'.some = stored.some /\ stored'.draft = stored.draft /\ stored'.version = stored.version
         /\ ~stored.some => stored' = stored
         /\ screen' = screen \/ (screen.open => screen'.changed)
<1>1. screen \in Screens /\ stored \in Drafts
  BY DEF DraftTypeOK, Screens, Drafts
<1>2. CASE SyncRefused
  <2>1. /\ stored' = IF stored.some THEN [stored EXCEPT !.queued = FALSE, !.conflict = TRUE] ELSE stored
        /\ screen' = IF screen.open THEN [screen EXCEPT !.changed = TRUE, !.panel = TRUE] ELSE screen
        /\ sync.place # "idle" /\ sync' = NoCall
        /\ UNCHANGED <<edits, others, server, save, late, load, online, owed, seen>>
    BY <1>2 DEF SyncRefused
  <2>2. /\ stored' \in Drafts
        /\ stored'.some = stored.some /\ stored'.draft = stored.draft /\ stored'.version = stored.version
        /\ ~stored.some => stored' = stored
    BY <1>1, <2>1 DEF Drafts
  <2>3. /\ screen' \in Screens
        /\ screen'.open = screen.open /\ screen'.version = screen.version /\ screen'.draft = screen.draft
        /\ screen'.shown = screen.shown /\ screen'.moved = screen.moved /\ screen'.dirty = screen.dirty
        /\ screen.open => screen'.changed
        /\ screen.changed => screen'.changed
    BY <1>1, <2>1 DEF Screens
  <2> QED
    BY <2>1, <2>2, <2>3
<1>3. CASE SyncRejected
  <2>1. /\ stored' = IF stored.some THEN [stored EXCEPT !.queued = FALSE, !.conflict = FALSE] ELSE stored
        /\ sync.place # "idle" /\ sync' = NoCall /\ screen' = screen
        /\ UNCHANGED <<edits, others, server, save, late, load, online, owed, seen>>
    BY <1>3 DEF SyncRejected
  <2>2. /\ stored' \in Drafts
        /\ stored'.some = stored.some /\ stored'.draft = stored.draft /\ stored'.version = stored.version
        /\ ~stored.some => stored' = stored
    BY <1>1, <2>1 DEF Drafts
  <2> QED
    BY <1>1, <2>1, <2>2
<1> QED
  BY <1>2, <1>3

-----------------------------------------------------------------------------
(* Types.                                                                  *)

Places == {"idle", "sent", "saved", "review_changed"}

LEMMA Calling ==
  /\ NoCall \in Call(Places)
  /\ \A call \in Call(Places) : Unserved(call) \subseteq [version : Versions, draft : Contents]
BY Constants DEF NoCall, Call, Places, Unserved

LEMMA EditsAndOthers ==
  /\ edits \in 0..MaxEdits /\ edits < MaxEdits => edits + 1 \in Edits /\ edits + 1 \in 0..MaxEdits
  /\ others \in 0..MaxOthers /\ others < MaxOthers
       => MaxEdits + others + 1 \in Others /\ others + 1 \in 0..MaxOthers
BY DraftAssumption DEF Edits, Others

LEMMA ContentClosed ==
  /\ \A c \in Contents : \A e \in Edits \cup Others : c \cup {e} \in Contents
  /\ \A o : o \subseteq Edits => \A e \in Edits : o \cup {e} \subseteq Edits
BY DEF Contents

\* A write is made to the next version, which is one.
LEMMA Writing ==
  ASSUME DraftTypeOK, server.version < MaxVersion,
         NEW call, call.version \in Versions, call.draft \in Contents, Write(call)
  PROVE  /\ server' \in [version : Versions, content : Contents]
         /\ server.version <= server'.version
         /\ call.version = server.version => server'.version = server.version + 1 /\ server'.content = call.draft
         /\ call.version # server.version => server' = server
<1>1. server \in [version : Versions, content : Contents]
  BY DEF DraftTypeOK
<1>2. server.version + 1 \in Versions
  BY <1>1, Constants DEF Versions
<1>3. CASE Accepted(call)
  <2>1. server' = [version |-> server.version + 1, content |-> call.draft]
    BY <1>3 DEF Write
  <2> QED
    BY <1>1, <1>2, <1>3, <2>1, Constants DEF Accepted
<1>4. CASE ~Accepted(call)
  BY <1>1, <1>4, Constants DEF Write, Accepted
<1> QED
  BY <1>3, <1>4

\* The types need the versions: what the screen takes for the version after
\* its own save is one that the server has reached.
TypeInv == DraftTypeOK /\ Versioned

LEMMA TypeStep ==
  ASSUME TypeInv, Shaped, Next
  PROVE  DraftTypeOK'
<1> USE DEF TypeInv, DraftTypeOK
<1>1. CASE OtherSaves
  <2>1. server.version + 1 \in Versions
    BY <1>1, Constants DEF OtherSaves, Versions
  <2> QED
    BY <1>1, <2>1, EditsAndOthers, ContentClosed DEF OtherSaves
<1>2. CASE ServeSync \/ ServeSave
  BY <1>2, Writing DEF ServeSync, ServeSave, Call, Answer
<1>3. CASE ServeLate
  BY <1>3, Writing DEF ServeLate
<1>4. CASE Connection
  BY <1>4 DEF Connection
<1>20. CASE OpenCase
  BY <1>20 DEF OpenCase, AskCase
<1>21. CASE Reload
  BY <1>21 DEF Reload, AskCase
<1>5. CASE ShowCase
  <2>1. screen' \in Screens
    BY <1>5 DEF ShowCase, Screens
  <2> QED
    BY <1>5, <2>1, Empty DEF ShowCase, Screens, Loads
<1>6. CASE Edit
  <2>1. screen' \in Screens
    BY <1>6, EditsAndOthers, ContentClosed DEF Edit, Screens
  <2> QED
    BY <1>6, <2>1, EditsAndOthers, ContentClosed DEF Edit, Screens
<1>7. CASE Render
  BY <1>7 DEF Render
<1>8. CASE Restore
  <2>1. screen' \in Screens
    BY <1>8 DEF Restore, Screens
  <2> QED
    BY <1>8, <2>1 DEF Restore, Screens
<1>9. CASE Discard
  <2>1. screen' \in Screens
    BY <1>9 DEF Discard, Screens
  <2> QED
    BY <1>9, <2>1, Empty DEF Discard, Screens, Drafts, AskCase
<1>10. CASE Close
  <2>1. screen' \in Screens
    BY <1>10, Constants DEF Close, Closed, Screens
  <2> QED
    BY <1>10, <2>1 DEF Close, Screens
<1>11. CASE Persist \/ QueueSave
  BY <1>11, Storing DEF Screens, Drafts
<1>12. CASE SendSave
  BY <1>12 DEF SendSave, Call
<1>13. CASE SaveAnswered
  <2>1. save' = NoCall /\ UNCHANGED <<edits, others, server, sync, late, online, seen>>
    BY <1>13 DEF SaveAnswered
  <2>2. CASE save.place = "saved"
    <3>1. save.version + 1 \in Versions
      BY <2>2, Constants DEF Versioned, Versions, Call
    <3>2. screen' = [screen EXCEPT !.version = save.version + 1, !.dirty = FALSE, !.panel = FALSE]
      BY <1>13, <2>2 DEF SaveAnswered
    <3>3. screen' \in Screens
      BY <3>1, <3>2 DEF Screens
    <3>4. stored' = NoEntry /\ owed' = owed \ save.draft /\ AskCase
      BY <1>13, <2>2 DEF SaveAnswered
    <3> QED
      BY <2>1, <3>3, <3>4, Empty, Constants DEF Screens, Drafts, AskCase, Call, NoCall
  <2>3. CASE save.place # "saved"
    <3>1. screen' = [screen EXCEPT !.changed = TRUE] /\ UNCHANGED <<stored, load, owed>>
      BY <1>13, <2>3 DEF SaveAnswered
    <3>2. screen' \in Screens
      BY <3>1 DEF Screens
    <3> QED
      BY <2>1, <3>1, <3>2, Calling DEF Screens, Places
  <2> QED
    BY <2>2, <2>3
<1>14. CASE SaveFails
  BY <1>14, Calling DEF SaveFails, Places
<1>22. CASE SyncFails
  BY <1>22, Calling DEF SyncFails, Places
<1>15. CASE ReloadPage
  <2>1. screen' \in Screens /\ load' \in Loads
    BY <1>15, Empty DEF ReloadPage
  <2> QED
    BY <1>15, <2>1, Constants DEF ReloadPage, Screens, Loads, Call, NoCall, Unserved
<1>16. CASE StartSync
  <2>1. screen' \in Screens
    BY <1>16 DEF StartSync, Screens
  <2> QED
    BY <1>16, <2>1 DEF StartSync, Screens, Call
<1>17. CASE SyncSaved
  <2>1. /\ sync' = NoCall /\ owed' = owed \ sync.draft /\ (load' = load \/ AskCase)
        /\ UNCHANGED <<edits, others, server, save, late, online, seen>>
        /\ screen' \in Screens /\ stored' \in Drafts
    BY <1>17, Synced DEF TypeInv
  <2>2. load' \in Loads
    <3>1. CASE load' = load
      BY <3>1 DEF Loads
    <3>2. CASE AskCase
      BY <3>2 DEF AskCase, Loads
    <3> QED
      BY <2>1, <3>1, <3>2
  <2> QED
    BY <2>1, <2>2, Calling DEF Screens, Drafts, Loads, Places
<1>18. CASE SyncRefused \/ SyncRejected
  <2>1. /\ sync' = NoCall /\ UNCHANGED <<edits, others, server, save, late, load, online, owed, seen>>
        /\ screen' \in Screens /\ stored' \in Drafts
    BY <1>18, Unsaved
  <2> QED
    BY <2>1, Calling DEF Screens, Drafts, Places
<1>19. CASE SyncUnauthorized
  BY <1>19, Empty, Constants DEF SyncUnauthorized, Drafts, Call, NoCall
<1> QED
  BY <1>1, <1>2, <1>3, <1>4, <1>5, <1>6, <1>7, <1>8, <1>9, <1>10, <1>11, <1>12, <1>13, <1>14, <1>15,
     <1>16, <1>17, <1>18, <1>19, <1>20, <1>21, <1>22 DEF Next

LEMMA VersionStep ==
  ASSUME TypeInv, Shaped, Next
  PROVE  Versioned'
<1> USE DraftAssumption DEF TypeInv, DraftTypeOK, Versioned, Call, Versions, MaxVersion
<1>1. CASE OtherSaves \/ Connection
  BY <1>1 DEF OtherSaves, Connection
<1>12. CASE OpenCase \/ Reload
  BY <1>12 DEF OpenCase, Reload, AskCase
<1>13. CASE ShowCase
  BY <1>13 DEF ShowCase, NoLoad
<1>14. CASE Edit \/ Render \/ Restore
  BY <1>14 DEF Edit, Render, Restore
<1>2. CASE ServeSync
  BY <1>2 DEF ServeSync, Write, Accepted, Answer
<1>3. CASE ServeSave
  BY <1>3 DEF ServeSave, Write, Accepted, Answer
<1>4. CASE ServeLate
  BY <1>4 DEF ServeLate, Write, Accepted
<1>5. CASE Discard \/ Close \/ ReloadPage
  BY <1>5 DEF Discard, Close, ReloadPage, AskCase, NoLoad, NoCall, NoEntry, Closed, Unserved
<1>6. CASE Persist \/ QueueSave
  BY <1>6, Storing
<1>7. CASE SendSave
  BY <1>7 DEF SendSave
<1>17. CASE StartSync
  BY <1>17 DEF StartSync
<1>16. CASE SyncUnauthorized
  BY <1>16 DEF SyncUnauthorized, NoCall, NoEntry
<1>15. CASE SaveFails \/ SyncFails
  BY <1>15 DEF SaveFails, SyncFails, NoCall, Unserved
<1>8. CASE SaveAnswered /\ save.place = "saved"
  <2>1. screen'.version = save.version + 1
    BY <1>8 DEF SaveAnswered
  <2>2. save' = NoCall /\ stored' = NoEntry /\ AskCase /\ UNCHANGED <<server, sync, late>>
    BY <1>8 DEF SaveAnswered
  <2> QED
    BY <1>8, <2>1, <2>2 DEF AskCase, NoCall, NoEntry
<1>9. CASE SaveAnswered /\ save.place # "saved"
  BY <1>9 DEF SaveAnswered, NoCall
<1>10. CASE SyncSaved
  BY <1>10, Synced DEF AskCase, NoCall, NoEntry
<1>11. CASE SyncRefused \/ SyncRejected
  BY <1>11, Unsaved DEF NoCall
<1> QED
  BY <1>1, <1>2, <1>3, <1>4, <1>5, <1>6, <1>7, <1>8, <1>9, <1>10, <1>11, <1>12, <1>13, <1>14,
     <1>15, <1>16, <1>17 DEF Next

LEMMA ShapeStep ==
  ASSUME DraftTypeOK, Shaped, Next
  PROVE  Shaped'
<1> USE DEF DraftTypeOK, Shaped, Rendered
<1>1. CASE OtherSaves \/ ServeSync \/ ServeSave \/ ServeLate \/ Connection
  BY <1>1 DEF OtherSaves, ServeSync, ServeSave, ServeLate, Connection
<1>2. CASE OpenCase \/ Reload
  BY <1>2 DEF OpenCase, Reload
<1>15. CASE ShowCase
  BY <1>15 DEF ShowCase
<1>10. CASE Edit \/ Render \/ Restore
  BY <1>10 DEF Edit, Render, Restore
<1>3. CASE Discard
  BY <1>3 DEF Discard, NoEntry
<1>11. CASE Close
  BY <1>11 DEF Close, Closed
<1>12. CASE ReloadPage
  BY <1>12 DEF ReloadPage, Closed, NoCall
<1>4. CASE Persist \/ QueueSave
  BY <1>4, Storing
<1>5. CASE SendSave \/ SaveFails \/ SyncFails
  BY <1>5 DEF SendSave, SaveFails, SyncFails, NoCall
<1>13. CASE StartSync
  BY <1>13 DEF StartSync
<1>14. CASE SyncUnauthorized
  BY <1>14 DEF SyncUnauthorized, NoCall, NoEntry
<1>6. CASE SaveAnswered /\ save.place = "saved"
  <2>1. /\ stored' = NoEntry /\ sync' = sync
        /\ screen'.open = screen.open /\ screen'.draft = screen.draft /\ screen'.shown = screen.shown
        /\ screen'.moved = screen.moved
    BY <1>6 DEF SaveAnswered
  <2> QED
    BY <2>1 DEF NoEntry
<1>7. CASE SaveAnswered /\ save.place # "saved"
  BY <1>7 DEF SaveAnswered
<1>8. CASE SyncSaved
  BY <1>8, Synced DEF NoCall
<1>9. CASE SyncRefused \/ SyncRejected
  BY <1>9, Unsaved DEF NoCall
<1> QED
  BY <1>1, <1>2, <1>3, <1>4, <1>5, <1>6, <1>7, <1>8, <1>9, <1>10, <1>11, <1>12, <1>13, <1>14,
     <1>15 DEF Next

-----------------------------------------------------------------------------
(* The edits that are owed.                                                *)

LEMMA DoneGrows ==
  ASSUME DraftTypeOK
  PROVE  /\ UNCHANGED <<edits, others>> => Done' = Done
         /\ OtherSaves => Done \subseteq Done' /\ MaxEdits + others + 1 \in Done'
         /\ Edit => Done \subseteq Done' /\ edits + 1 \in Done' /\ edits + 1 \notin Done
<1>1. UNCHANGED <<edits, others>> => Done' = Done
  BY DEF Done
<1>2. OtherSaves => Done \subseteq Done' /\ MaxEdits + others + 1 \in Done'
  BY DraftAssumption DEF DraftTypeOK, OtherSaves, Done
<1>3. Edit => Done \subseteq Done' /\ edits + 1 \in Done' /\ edits + 1 \notin Done
  BY DraftAssumption DEF DraftTypeOK, Edit, Done
<1> QED
  BY <1>1, <1>2, <1>3

LEMMA MadeStep ==
  ASSUME DraftTypeOK, Shaped, Made, Next
  PROVE  Made'
<1> USE DEF DraftTypeOK, Made, Call
<1>1. CASE OtherSaves
  BY <1>1, DoneGrows DEF OtherSaves
<1>2. CASE Edit
  BY <1>2, DoneGrows DEF Edit
<1>3. CASE ServeSync \/ ServeSave
  BY <1>3, DoneGrows DEF ServeSync, ServeSave, Write
<1>4. CASE ServeLate
  BY <1>4, DoneGrows DEF ServeLate, Write
<1>5. CASE Connection
  BY <1>5, DoneGrows DEF Connection
<1>6. CASE OpenCase \/ Reload
  BY <1>6, DoneGrows DEF OpenCase, Reload, AskCase
<1>7. CASE ShowCase
  BY <1>7, DoneGrows DEF ShowCase, NoLoad
<1>8. CASE Render \/ Restore
  BY <1>8, DoneGrows DEF Render, Restore
<1>9. CASE Discard
  BY <1>9, DoneGrows DEF Discard, AskCase, NoEntry
<1>10. CASE Close
  BY <1>10, DoneGrows DEF Close, Closed
<1>11. CASE ReloadPage
  BY <1>11, DoneGrows DEF ReloadPage, Closed, NoLoad, NoCall, Unserved
<1>12. CASE Persist \/ QueueSave
  BY <1>12, Storing, DoneGrows
<1>13. CASE SendSave
  BY <1>13, DoneGrows DEF SendSave
<1>20. CASE StartSync
  BY <1>20, DoneGrows DEF StartSync
<1>14. CASE SaveFails \/ SyncFails
  BY <1>14, DoneGrows DEF SaveFails, SyncFails, NoCall, Unserved
<1>15. CASE SaveAnswered /\ save.place = "saved"
  <2>1. /\ stored' = NoEntry /\ save' = NoCall /\ AskCase /\ UNCHANGED <<edits, others, server, sync, late>>
        /\ screen'.draft = screen.draft /\ screen'.shown = screen.shown
    BY <1>15 DEF SaveAnswered
  <2> QED
    BY <2>1, DoneGrows DEF NoEntry, NoCall, AskCase
<1>16. CASE SaveAnswered /\ save.place # "saved"
  BY <1>16, DoneGrows DEF SaveAnswered, NoCall
<1>17. CASE SyncSaved
  BY <1>17, Synced, DoneGrows DEF AskCase, NoEntry, NoCall
<1>18. CASE SyncRefused \/ SyncRejected
  BY <1>18, Unsaved, DoneGrows DEF NoCall
<1>19. CASE SyncUnauthorized
  BY <1>19, DoneGrows DEF SyncUnauthorized, NoCall, NoEntry
<1> QED
  BY <1>1, <1>2, <1>3, <1>4, <1>5, <1>6, <1>7, <1>8, <1>9, <1>10, <1>11, <1>12, <1>13, <1>14, <1>15,
     <1>16, <1>17, <1>18, <1>19, <1>20 DEF Next

\* What the server has of the owed edits is never overwritten, and only an
\* edit is newly owed: one that nobody has had before.
LEMMA OwedAtServer ==
  ASSUME DraftInv, Next
  PROVE  /\ owed' \cap server.content \subseteq owed
         /\ owed' \cap server.content \subseteq server'.content
         /\ server.version <= server'.version
         /\ server'.version = server.version => server' = server
<1> USE DraftAssumption DEF DraftInv, DraftTypeOK, Call
<1>1. server.version \in Nat
  BY Constants
<1>2. CASE OtherSaves
  BY <1>1, <1>2 DEF OtherSaves
<1>3. CASE ServeSync
  BY <1>1, <1>3 DEF ServeSync, Write, Accepted, OwedBased, Holds
<1>4. CASE ServeSave
  BY <1>1, <1>4 DEF ServeSave, Write, Accepted, OwedBased, Holds
<1>5. CASE ServeLate
  BY <1>1, <1>5 DEF ServeLate, Write, Accepted, OwedBased, Holds
<1>6. CASE Edit
  <2>1. edits + 1 \notin server.content
    BY <1>6, DoneGrows DEF Made
  <2> QED
    BY <1>1, <1>6, <2>1 DEF Edit
<1>7. CASE OpenCase \/ ShowCase \/ Render \/ Restore \/ Reload \/ Discard \/ Close \/ ReloadPage \/ Connection
  BY <1>1, <1>7 DEF OpenCase, ShowCase, Render, Restore, Reload, Discard, Close, ReloadPage, Connection
<1>8. CASE Persist \/ QueueSave
  BY <1>1, <1>8, Storing
<1>10. CASE SendSave \/ SaveAnswered \/ SaveFails
  BY <1>1, <1>10 DEF SendSave, SaveAnswered, SaveFails
<1>9. CASE StartSync \/ SyncSaved \/ SyncRefused \/ SyncRejected \/ SyncFails \/ SyncUnauthorized
  BY <1>1, <1>9 DEF StartSync, SyncSaved, SyncRefused, SyncRejected, SyncFails, SyncUnauthorized
<1> QED
  BY <1>2, <1>3, <1>4, <1>5, <1>6, <1>7, <1>8, <1>9, <1>10 DEF Next

\* A draft that would be accepted and has what is owed keeps having it.
LEMMA HoldsStep ==
  ASSUME DraftInv, Next
  PROVE  \A v \in Versions : \A d : (v <= server.version /\ Holds(v, d) => Holds(v, d)')
                                    /\ (v < server.version => Holds(v, d)')
<1> TAKE v \in Versions
<1> TAKE d
<1>1. v \in Nat /\ server.version \in Nat /\ server'.version \in Nat
  <2>1. DraftTypeOK'
    BY TypeStep DEF DraftInv, TypeInv
  <2> QED
    BY <2>1, Constants DEF DraftInv, DraftTypeOK
<1> QED
  BY <1>1, OwedAtServer DEF Holds

LEMMA OwedBasedStep ==
  ASSUME DraftInv, Next
  PROVE  OwedBased'
<1> USE DEF DraftInv, DraftTypeOK, Call, Versioned, OwedBased
<1>1. server.version \in Nat /\ \A v \in Versions : v \in Nat
  BY Constants
<1>2. \A v \in Versions : \A d : (v <= server.version /\ Holds(v, d) => Holds(v, d)')
                                 /\ (v < server.version => Holds(v, d)')
  BY HoldsStep
<1>3. CASE OtherSaves \/ Connection
  BY <1>2, <1>3 DEF OtherSaves, Connection
<1>4. CASE ServeSync
  BY <1>2, <1>4, OwedAtServer DEF ServeSync, Answer
<1>5. CASE ServeSave
  BY <1>2, <1>5, OwedAtServer DEF ServeSave, Answer
<1>6. CASE ServeLate
  BY <1>2, <1>6, OwedAtServer DEF ServeLate
<1>7. CASE OpenCase \/ Reload \/ Discard
  BY <1>2, <1>7 DEF OpenCase, Reload, Discard, AskCase, Holds, NoEntry
<1>8. CASE ShowCase
  BY <1>8 DEF ShowCase, Holds, NoLoad, Accounted, Shaped
<1>9. CASE Edit
  BY <1>2, <1>9 DEF Edit, Busy, Holds
<1>10. CASE Render
  BY <1>2, <1>10 DEF Render, Busy
<1>20. CASE Restore
  BY <1>2, <1>20 DEF Restore, Busy, Holds
<1>11. CASE Close \/ ReloadPage
  BY <1>2, <1>11 DEF Close, ReloadPage, Closed, NoLoad, NoCall, Unserved
<1>12. CASE Persist \/ QueueSave
  BY <1>2, <1>12, Storing DEF Busy, Rendered
<1>13. CASE SendSave
  BY <1>2, <1>13 DEF SendSave, Savable, Busy
<1>14. CASE SaveAnswered
  BY <1>2, <1>14 DEF SaveAnswered, AskCase, Holds, NoCall, NoEntry
<1>15. CASE SaveFails \/ SyncFails
  BY <1>2, <1>15 DEF SaveFails, SyncFails, NoCall, Unserved
<1>16. CASE StartSync
  BY <1>2, <1>16 DEF StartSync, Shaped, NoEntry
<1>17. CASE SyncSaved
  BY <1>2, <1>17, Synced DEF AskCase, Holds, NoCall, NoEntry
<1>18. CASE SyncRefused \/ SyncRejected
  BY <1>2, <1>18, Unsaved DEF NoCall, Shaped
<1>19. CASE SyncUnauthorized
  BY <1>2, <1>19 DEF SyncUnauthorized, NoCall, NoEntry
<1> QED
  BY <1>3, <1>4, <1>5, <1>6, <1>7, <1>8, <1>9, <1>10, <1>11, <1>12, <1>13, <1>14, <1>15,
     <1>16, <1>17, <1>18, <1>19, <1>20 DEF Next

LEMMA OvertakenStep ==
  ASSUME DraftInv, Next
  PROVE  Overtaken'
<1> USE DEF DraftInv, DraftTypeOK, Call, Versioned, Overtaken
<1>1. server.version \in Nat /\ \A v \in Versions : v \in Nat
  BY Constants
<1>2. CASE OtherSaves
  <2>1. MaxEdits + others + 1 \notin owed
    BY <1>2, DraftAssumption DEF OtherSaves, Edits
  <2> QED
    BY <1>1, <1>2, <2>1 DEF OtherSaves
<1>3. CASE ServeSync
  BY <1>1, <1>3 DEF ServeSync, Write, Accepted, Answer
<1>4. CASE ServeSave
  BY <1>1, <1>4 DEF ServeSave, Write, Accepted, Answer
<1>5. CASE ServeLate
  BY <1>1, <1>5 DEF ServeLate, Write, Accepted
<1>6. CASE Edit
  BY <1>6, OwedAtServer DEF Edit
<1>7. CASE OpenCase \/ ShowCase \/ Render \/ Restore \/ Reload \/ Discard \/ Close \/ Connection
  BY <1>7 DEF OpenCase, ShowCase, Render, Restore, Reload, Discard, Close, Connection
<1>8. CASE Persist \/ QueueSave
  BY <1>8, Storing
<1>9. CASE SendSave \/ SaveAnswered \/ SaveFails
  BY <1>9 DEF SendSave, Savable, SaveAnswered, SaveFails, Unserved, NoCall
<1>10. CASE StartSync \/ SyncSaved \/ SyncRefused \/ SyncRejected \/ SyncFails \/ SyncUnauthorized \/ ReloadPage
  BY <1>10 DEF StartSync, SyncSaved, SyncRefused, SyncRejected, SyncFails, SyncUnauthorized, ReloadPage, NoCall
<1> QED
  BY <1>2, <1>3, <1>4, <1>5, <1>6, <1>7, <1>8, <1>9, <1>10 DEF Next

LEMMA AccountedStep ==
  ASSUME DraftInv, Next
  PROVE  Accounted'
<1> USE DEF DraftInv, DraftTypeOK, Call, Accounted
<1>1. CASE OtherSaves \/ Connection
  BY <1>1 DEF OtherSaves, Connection
<1>2. CASE ServeSync
  BY <1>2, OwedAtServer DEF ServeSync
<1>3. CASE ServeSave
  BY <1>3, OwedAtServer DEF ServeSave, Answer, Accepted, OwedBased, Holds
<1>4. CASE ServeLate
  BY <1>4, OwedAtServer DEF ServeLate
<1>5. CASE OpenCase \/ Reload \/ Discard
  BY <1>5 DEF OpenCase, Reload, Discard, AskCase
<1>6. CASE ShowCase
  BY <1>6 DEF ShowCase, NoLoad, NothingLost, OwedBased, Shaped, NoEntry
<1>7. CASE Edit
  BY <1>7 DEF Edit, Busy
<1>8. CASE Render \/ Restore
  BY <1>8 DEF Render, Restore, Busy
<1>9. CASE Close \/ ReloadPage
  BY <1>9 DEF Close, ReloadPage, Closed, NoCall, NoLoad
<1>10. CASE Persist \/ QueueSave
  BY <1>10, Storing
<1>11. CASE SendSave \/ SaveFails
  BY <1>11 DEF SendSave, Savable, Busy, SaveFails, NoCall
<1>12. CASE SaveAnswered
  BY <1>12 DEF SaveAnswered, NoCall
<1>13. CASE StartSync \/ SyncFails
  BY <1>13 DEF StartSync, SyncFails
<1>14. CASE SyncSaved
  <2>1. owed \subseteq screen.draft \cup stored.draft \cup server.content
    BY DEF NothingLost
  <2>2. owed \cap server.content \subseteq sync.draft
    BY <1>14 DEF Overtaken, SyncSaved
  <2> QED
    BY <1>14, <2>1, <2>2, Synced
<1>15. CASE SyncRefused \/ SyncRejected
  BY <1>15, Unsaved
<1>16. CASE SyncUnauthorized
  BY <1>16 DEF SyncUnauthorized
<1> QED
  BY <1>1, <1>2, <1>3, <1>4, <1>5, <1>6, <1>7, <1>8, <1>9, <1>10, <1>11, <1>12, <1>13, <1>14, <1>15, <1>16 DEF Next

LEMMA NothingLostStep ==
  ASSUME DraftInv, Next
  PROVE  NothingLost'
<1> USE DEF DraftInv, DraftTypeOK, Call, NothingLost
<1>1. CASE OtherSaves \/ Connection
  BY <1>1 DEF OtherSaves, Connection
<1>2. CASE ServeSync \/ ServeSave \/ ServeLate
  BY <1>2, OwedAtServer DEF ServeSync, ServeSave, ServeLate
<1>3. CASE OpenCase \/ Reload \/ Discard
  BY <1>3 DEF OpenCase, Reload, Discard
<1>4. CASE ShowCase
  BY <1>4 DEF ShowCase, Accounted, Shaped, NoEntry
<1>5. CASE Edit
  BY <1>5 DEF Edit
<1>13. CASE Render \/ Restore
  BY <1>13 DEF Render, Restore
<1>6. CASE Close \/ ReloadPage
  BY <1>6 DEF Close, ReloadPage, Closed, Accounted
<1>7. CASE Persist \/ QueueSave
  BY <1>7, Storing DEF Accounted, Rendered
<1>8. CASE SendSave \/ SaveFails \/ StartSync \/ SyncFails
  BY <1>8 DEF SendSave, SaveFails, StartSync, SyncFails
<1>9. CASE SaveAnswered
  BY <1>9 DEF SaveAnswered, Accounted
<1>10. CASE SyncSaved
  BY <1>10, Synced DEF NoEntry
<1>11. CASE SyncRefused \/ SyncRejected
  BY <1>11, Unsaved
<1>12. CASE SyncUnauthorized
  BY <1>12 DEF SyncUnauthorized
<1> QED
  BY <1>1, <1>2, <1>3, <1>4, <1>5, <1>6, <1>7, <1>8, <1>9, <1>10, <1>11, <1>12, <1>13 DEF Next

-----------------------------------------------------------------------------
(* The theorems.                                                           *)

LEMMA InitDraftInv == Init => DraftInv
<1> SUFFICES ASSUME Init PROVE DraftInv
  OBVIOUS
<1> USE DEF Init
<1>1. DraftTypeOK
  <2>1. server \in [version : Versions, content : Contents]
    BY Constants
  <2>2. screen \in Screens /\ stored \in Drafts /\ load \in Loads
    BY Empty
  <2>3. sync \in Call(Places) /\ save \in Call(Places)
    BY Calling
  <2> QED
    BY <2>1, <2>2, <2>3, DraftAssumption DEF DraftTypeOK, Screens, Drafts, Loads, Places
<1>2. Versioned /\ Made /\ Shaped /\ Overtaken
  BY DEF Versioned, Made, Shaped, Rendered, Overtaken, Closed, NoEntry, NoCall, NoLoad
<1>3. OwedBased /\ Accounted /\ NothingLost
  BY DEF OwedBased, Accounted, NothingLost, Closed, NoEntry, NoCall, NoLoad
<1> QED
  BY <1>1, <1>2, <1>3 DEF DraftInv

LEMMA DraftStep == DraftInv /\ [Next]_vars => DraftInv'
<1>1. DraftInv /\ Next => DraftInv'
  BY TypeStep, VersionStep, ShapeStep, MadeStep, OwedBasedStep, OvertakenStep, AccountedStep, NothingLostStep
     DEF DraftInv, TypeInv
<1>2. DraftInv /\ UNCHANGED vars => DraftInv'
  BY DEF vars, DraftInv, DraftTypeOK, Versioned, Made, Done, Shaped, Rendered, OwedBased, Holds, Overtaken,
     Accounted, NothingLost
<1> QED
  BY <1>1, <1>2

THEOREM DraftInvariant == Spec => []DraftInv
BY InitDraftInv, DraftStep, PTL DEF Spec

\* Every variable has its type; in particular no version is ahead of the
\* server's.
THEOREM DraftTypes == Spec => []DraftTypeOK
<1>1. DraftInv => DraftTypeOK
  BY DEF DraftInv
<1> QED
  BY <1>1, DraftInvariant, PTL

\* Whatever answers are lost, whatever is typed while a draft is being sent,
\* and however often the page is reloaded, no edit that is owed disappears.
THEOREM EditsNeverLost == Spec => []NothingLost
<1>1. DraftInv => NothingLost
  BY DEF DraftInv
<1> QED
  BY <1>1, DraftInvariant, PTL

-----------------------------------------------------------------------------
(* What others have saved.                                                 *)

LEMMA InitSight == Init => Sight
<1> SUFFICES ASSUME Init PROVE Sight
  OBVIOUS
<1>1. DraftsShown /\ VersionsShown
  BY DEF Init, DraftsShown, VersionsShown, Closed, NoEntry, NoCall, NoLoad
<1>2. OverwrittenInSight
  BY DraftAssumption DEF Init, OverwrittenInSight
<1> QED
  BY <1>1, <1>2 DEF Sight

\* What has been shown stays shown.
LEMMA SeenGrows == Next => seen \subseteq seen'
<1> SUFFICES ASSUME Next PROVE seen \subseteq seen'
  OBVIOUS
<1>1. CASE ShowCase
  BY <1>1 DEF ShowCase
<1>2. CASE Persist \/ QueueSave
  BY <1>2 DEF Persist, QueueSave
<1>3. CASE ~(ShowCase \/ Persist \/ QueueSave)
  BY <1>3 DEF Next, OtherSaves, ServeSync, ServeSave, ServeLate, Connection, OpenCase, Edit, Render, Restore,
     Reload, Discard, Close, SendSave, SaveAnswered, SaveFails, ReloadPage, StartSync, SyncSaved,
     SyncRefused, SyncRejected, SyncFails, SyncUnauthorized
<1> QED
  BY <1>1, <1>2, <1>3

\* A draft is made of what is on the screen, and that of what has been shown.
LEMMA DraftsShownStep ==
  ASSUME DraftInv, DraftsShown, Next
  PROVE  DraftsShown'
<1> USE DEF DraftInv, DraftTypeOK, DraftsShown, Call
<1>1. CASE OtherSaves \/ Connection \/ OpenCase \/ Reload
  BY <1>1 DEF OtherSaves, Connection, OpenCase, Reload
<1>2. CASE ServeSync \/ ServeSave \/ ServeLate
  BY <1>2 DEF ServeSync, ServeSave, ServeLate
<1>3. CASE ShowCase
  <2>1. seen \subseteq seen' /\ screen'.shown \cap Others \subseteq seen' /\ screen'.draft = screen'.shown
    BY <1>3 DEF ShowCase
  <2> QED
    BY <1>3, <2>1 DEF ShowCase
<1>4. CASE Edit
  <2>1. edits + 1 \notin Others
    BY <1>4, DraftAssumption DEF Edit, Others
  <2> QED
    BY <1>4, <2>1 DEF Edit
<1>5. CASE Render \/ Restore
  BY <1>5 DEF Render, Restore
<1>6. CASE Discard \/ Close \/ ReloadPage
  BY <1>6 DEF Discard, Close, ReloadPage, Closed, NoEntry, NoCall, Unserved
<1>7. CASE Persist \/ QueueSave
  BY <1>7, Storing
<1>8. CASE SendSave
  BY <1>8 DEF SendSave
<1>14. CASE StartSync
  <2>1. /\ sync'.draft = stored.draft /\ screen'.draft = screen.draft /\ screen'.shown = screen.shown
        /\ UNCHANGED <<stored, save, late, seen>>
    BY <1>14 DEF StartSync
  <2> QED
    BY <2>1
<1>9. CASE SaveAnswered
  <2>1. /\ save' = NoCall /\ screen'.draft = screen.draft /\ screen'.shown = screen.shown
        /\ UNCHANGED <<sync, late, seen>>
    BY <1>9 DEF SaveAnswered
  <2>2. stored' = NoEntry \/ stored' = stored
    BY <1>9 DEF SaveAnswered
  <2> QED
    BY <2>1, <2>2 DEF NoEntry, NoCall
<1>10. CASE SaveFails \/ SyncFails
  BY <1>10 DEF SaveFails, SyncFails, NoCall, Unserved
<1>11. CASE SyncSaved
  BY <1>11, Synced DEF NoEntry, NoCall
<1>12. CASE SyncRefused \/ SyncRejected
  BY <1>12, Unsaved DEF NoCall
<1>13. CASE SyncUnauthorized
  BY <1>13 DEF SyncUnauthorized, NoEntry, NoCall
<1> QED
  BY <1>1, <1>2, <1>3, <1>4, <1>5, <1>6, <1>7, <1>8, <1>9, <1>10, <1>11, <1>12, <1>13, <1>14 DEF Next

\* A version whose foreign writes have been shown stays one, or is left behind.
LEMMA KnownStep ==
  ASSUME DraftInv, Next
  PROVE  \A v \in Nat : (v <= server.version /\ Known(v) => Known(v)') /\ (v < server.version => Known(v)')
<1> TAKE v \in Nat
<1>1. server.version \in Nat /\ server'.version \in Nat
  <2>1. DraftTypeOK'
    BY TypeStep DEF DraftInv, TypeInv
  <2> QED
    BY <2>1, Constants DEF DraftInv, DraftTypeOK
<1> QED
  BY <1>1, OwedAtServer, SeenGrows DEF Known

\* A draft that is accepted leaves the case with what has been shown.
LEMMA AcceptedKnown ==
  ASSUME DraftTypeOK, DraftsShown, NEW call, call.version \in Versions, call.draft \cap Others \subseteq seen,
         Write(call), UNCHANGED seen
  PROVE  Accepted(call) => Known(call.version + 1)'
BY DEF Write, Accepted, Known

LEMMA VersionsShownStep ==
  ASSUME DraftInv, Sight, Next
  PROVE  VersionsShown'
<1> USE DEF DraftInv, DraftTypeOK, Call, Versioned, Sight, VersionsShown
<1>1. server.version \in Nat /\ (\A v \in Versions : v \in Nat)
  BY Constants
<1>2. \A v \in Nat : (v <= server.version /\ Known(v) => Known(v)') /\ (v < server.version => Known(v)')
  BY KnownStep
<1>3. CASE OtherSaves \/ Connection
  BY <1>1, <1>2, <1>3 DEF OtherSaves, Connection, Known
<1>4. CASE ServeSync
  BY <1>1, <1>2, <1>4, OwedAtServer DEF ServeSync, Answer
<1>5. CASE ServeSave
  <2>1. save'.place = "saved" => Known(save.version + 1)'
    BY <1>5, AcceptedKnown DEF ServeSave, Answer, DraftsShown
  <2> QED
    BY <1>1, <1>2, <1>5, <2>1, OwedAtServer DEF ServeSave, Answer
<1>6. CASE ServeLate
  BY <1>1, <1>2, <1>6, OwedAtServer DEF ServeLate
<1>7. CASE OpenCase \/ Reload \/ Discard
  BY <1>1, <1>2, <1>7 DEF OpenCase, Reload, Discard, AskCase, NoEntry
<1>8. CASE ShowCase
  <2>1. /\ screen'.shown \cap Others \subseteq seen' /\ seen \subseteq seen' /\ load' = NoLoad
        /\ load.asked /\ UNCHANGED <<server, stored, sync, save, late>>
    BY <1>8 DEF ShowCase
  <2>2. \/ screen'.version = load.version /\ screen'.shown = load.content
        \/ screen'.version = stored.version /\ stored.some
    BY <1>8 DEF ShowCase
  <2>3. CASE screen'.version = load.version /\ screen'.shown = load.content
    <3>1. load.version = server.version => server.content \subseteq load.content
      BY <2>1
    <3>2. Known(screen.version)'
      BY <2>1, <2>3, <3>1 DEF Known
    <3> QED
      BY <1>1, <1>2, <2>1, <3>2 DEF NoLoad
  <2>4. CASE screen'.version = stored.version /\ stored.some
    <3>1. Known(screen.version)'
      BY <2>1, <2>4 DEF Known
    <3> QED
      BY <1>1, <1>2, <2>1, <3>1 DEF NoLoad
  <2> QED
    BY <2>2, <2>3, <2>4
<1>9. CASE Edit \/ Render \/ Restore
  <2>1. /\ screen'.version = screen.version /\ screen'.open = screen.open
        /\ UNCHANGED <<server, stored, sync, save, late, load>>
    BY <1>9 DEF Edit, Render, Restore
  <2> QED
    BY <1>1, <1>2, <2>1
<1>10. CASE Close \/ ReloadPage
  BY <1>1, <1>2, <1>10 DEF Close, ReloadPage, Closed, NoLoad, NoCall, Unserved
<1>11. CASE Persist \/ QueueSave
  BY <1>1, <1>2, <1>11, Storing
<1>12. CASE SendSave
  BY <1>1, <1>2, <1>12 DEF SendSave, Savable
<1>13. CASE SaveAnswered
  <2>1. CASE save.place = "saved"
    <3>1. /\ screen' = [screen EXCEPT !.version = save.version + 1, !.dirty = FALSE, !.panel = FALSE]
          /\ stored' = NoEntry /\ save' = NoCall /\ AskCase /\ UNCHANGED <<server, sync, late, seen>>
      BY <1>13, <2>1 DEF SaveAnswered
    <3>2. screen'.version = save.version + 1
      BY <3>1
    <3>3. save.version + 1 \in Nat /\ save.version + 1 <= server.version
      BY <1>1, <2>1
    <3> QED
      BY <1>1, <1>2, <2>1, <3>1, <3>2, <3>3 DEF NoCall, NoEntry, AskCase
  <2>2. CASE save.place # "saved"
    BY <1>1, <1>2, <1>13, <2>2 DEF SaveAnswered, NoCall
  <2> QED
    BY <2>1, <2>2
<1>14. CASE SaveFails \/ SyncFails
  BY <1>1, <1>2, <1>14 DEF SaveFails, SyncFails, NoCall, Unserved
<1>15. CASE StartSync
  BY <1>1, <1>2, <1>15 DEF StartSync, Shaped, NoEntry
<1>16. CASE SyncSaved
  BY <1>1, <1>2, <1>16, Synced DEF AskCase, NoCall, NoEntry
<1>17. CASE SyncRefused \/ SyncRejected
  BY <1>1, <1>2, <1>17, Unsaved DEF NoCall
<1>18. CASE SyncUnauthorized
  BY <1>1, <1>2, <1>18 DEF SyncUnauthorized, NoCall, NoEntry
<1> QED
  BY <1>3, <1>4, <1>5, <1>6, <1>7, <1>8, <1>9, <1>10, <1>11, <1>12, <1>13, <1>14, <1>15,
     <1>16, <1>17, <1>18 DEF Next

\* A write of others' that leaves the case had been shown before.
LEMMA LeavesInSight ==
  ASSUME DraftInv, Sight, Next
  PROVE  server.content \cap Others \subseteq server'.content \cup seen
<1> USE DEF DraftInv, DraftTypeOK, Call, Sight, VersionsShown, Known
<1>1. CASE OtherSaves
  BY <1>1 DEF OtherSaves
<1>2. CASE ServeSync \/ ServeSave \/ ServeLate
  BY <1>2 DEF ServeSync, ServeSave, ServeLate, Write, Accepted
<1>3. CASE Persist \/ QueueSave
  BY <1>3, Storing
<1>4. CASE Connection \/ OpenCase \/ ShowCase \/ Edit \/ Render \/ Restore \/ Reload \/ Discard \/ Close
  BY <1>4 DEF Connection, OpenCase, ShowCase, Edit, Render, Restore, Reload, Discard, Close
<1>5. CASE SendSave \/ SaveAnswered \/ SaveFails \/ ReloadPage \/ StartSync
  BY <1>5 DEF SendSave, SaveAnswered, SaveFails, ReloadPage, StartSync
<1>6. CASE SyncSaved \/ SyncRefused \/ SyncRejected \/ SyncFails \/ SyncUnauthorized
  BY <1>6 DEF SyncSaved, SyncRefused, SyncRejected, SyncFails, SyncUnauthorized
<1> QED
  BY <1>1, <1>2, <1>3, <1>4, <1>5, <1>6 DEF Next

LEMMA OverwrittenStep ==
  ASSUME DraftInv, Sight, Next
  PROVE  OverwrittenInSight'
<1>1. others \in Nat /\ ((MaxEdits + 1)..(MaxEdits + others)) \subseteq Others
  BY DraftAssumption DEF DraftInv, DraftTypeOK, Others
<1>2. CASE OtherSaves
  BY <1>1, <1>2, DraftAssumption DEF OtherSaves, Sight, OverwrittenInSight
<1>3. CASE ~OtherSaves
  <2>1. others' = others
    BY <1>3 DEF Next, ServeSync, ServeSave, ServeLate, Connection, OpenCase, ShowCase, Edit, Render, Persist,
       Restore, Reload, Discard, Close, QueueSave, SendSave, SaveAnswered, SaveFails, ReloadPage,
       StartSync, SyncSaved, SyncRefused, SyncRejected, SyncFails, SyncUnauthorized
  <2> QED
    BY <1>1, <2>1, LeavesInSight, SeenGrows DEF Sight, OverwrittenInSight
<1> QED
  BY <1>2, <1>3

LEMMA SightStep == DraftInv /\ Sight /\ [Next]_vars => Sight'
<1>1. DraftInv /\ Sight /\ Next => Sight'
  BY DraftsShownStep, VersionsShownStep, OverwrittenStep DEF Sight
<1>2. Sight /\ UNCHANGED vars => Sight'
  BY DEF vars, Sight, DraftsShown, VersionsShown, Known, OverwrittenInSight
<1> QED
  BY <1>1, <1>2

\* Whatever is queued, restored or sent late, and however often the page is
\* reloaded, what other staff have saved is in the case or has been shown to
\* the reviewer: nothing is overwritten unseen.
THEOREM NothingOverwrittenUnseen == Spec => []OverwrittenInSight
<1>1. Sight => OverwrittenInSight
  BY DEF Sight
<1> QED
  BY <1>1, InitSight, SightStep, DraftInvariant, PTL DEF Spec
=============================================================================
