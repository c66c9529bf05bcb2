---------------------- MODULE RecordingLifecycleProofs ----------------------
(***************************************************************************)
(* What holds of a recording for any number of workers, jobs, lapsed       *)
(* leases, disputes and revisions.                                         *)
(***************************************************************************)
EXTENDS RecordingLifecycle, SequenceTheorems, TLAPS

USE DEF RecordingStatus, JobState, DisputeState, Stage, Outcome, Job, Execution

\* The fields that tell what one worker's execution may look like.
Shaped(x) == x \in Execution /\ ((x.at = "idle") <=> (x.job = None))

LEMMA RestShaped == Shaped(AtRest)
BY DEF Shaped, AtRest

\* A worker may be given any execution of the right shape.
LEMMA WorkerMoves ==
  ASSUME NEW w \in Workers, NEW x, RecTypeOK, Shaped(x),
         worker' = [worker EXCEPT ![w] = x]
  PROVE  /\ worker' \in [Workers -> Execution]
         /\ \A v \in Workers : (worker'[v].at = "idle") <=> (worker'[v].job = None)
BY DEF RecTypeOK, Shaped

\* What moves a worker on, ends its execution, or starts one, changes that
\* worker alone, and leaves the draft it read or forgets it.
LEMMA GoesMoves ==
  ASSUME NEW w \in Workers, NEW s \in Stage \ {"idle"}, RecTypeOK, worker[w].at # "idle", Goes(w, s)
  PROVE  /\ worker' \in [Workers -> Execution]
         /\ \A v \in Workers : (worker'[v].at = "idle") <=> (worker'[v].job = None)
         /\ \A v \in Workers : worker'[v].draft = worker[v].draft
<1> DEFINE x == [worker[w] EXCEPT !.at = s]
<1>1. Shaped(x)
  BY DEF Shaped, RecTypeOK
<1>2. worker' = [worker EXCEPT ![w] = x]
  BY DEF Goes, RecTypeOK
<1>3. x.draft = worker[w].draft
  BY DEF RecTypeOK
<1> HIDE DEF x
<1>4. \A v \in Workers : worker'[v].draft = worker[v].draft
  BY <1>2, <1>3 DEF RecTypeOK
<1> QED
  BY <1>1, <1>2, <1>4, WorkerMoves

LEMMA EndsMoves ==
  ASSUME NEW w \in Workers, NEW o \in Outcome, RecTypeOK, worker[w].at # "idle", Ends(w, o)
  PROVE  /\ worker' \in [Workers -> Execution]
         /\ \A v \in Workers : (worker'[v].at = "idle") <=> (worker'[v].job = None)
         /\ \A v \in Workers : worker'[v].draft \in {0, worker[v].draft}
<1> DEFINE x == [AtRest EXCEPT !.at = "reporting", !.job = worker[w].job, !.out = o]
<1>1. worker[w] \in Execution /\ worker[w].job # None
  BY DEF RecTypeOK
<1>2. Shaped(x) /\ x.draft = 0
  BY <1>1 DEF Shaped, AtRest
<1>3. worker' = [worker EXCEPT ![w] = x]
  BY DEF Ends
<1> HIDE DEF x
<1>4. \A v \in Workers : worker'[v].draft \in {0, worker[v].draft}
  BY <1>2, <1>3 DEF RecTypeOK
<1> QED
  BY <1>2, <1>3, <1>4, WorkerMoves

LEMMA RestMoves ==
  ASSUME NEW w \in Workers, RecTypeOK, worker' = [worker EXCEPT ![w] = AtRest]
  PROVE  /\ worker' \in [Workers -> Execution]
         /\ \A v \in Workers : (worker'[v].at = "idle") <=> (worker'[v].job = None)
         /\ \A v \in Workers : worker'[v].draft \in {0, worker[v].draft}
<1>1. AtRest.draft = 0
  BY DEF AtRest
<1>2. \A v \in Workers : worker'[v].draft \in {0, worker[v].draft}
  BY <1>1 DEF RecTypeOK
<1> QED
  BY <1>2, RestShaped, WorkerMoves

-----------------------------------------------------------------------------
\* Draft is 0 or the number of the latest revision, which is then a draft.
LEMMA DraftIs ==
  ASSUME RecTypeOK
  PROVE  /\ Draft \in Nat /\ Draft <= Len(revs)
         /\ Draft # 0 => Draft = Len(revs) /\ Draft \in DOMAIN revs /\ revs[Draft].state = "draft"
                         /\ revs[Draft] \in Revision
         /\ revs # <<>> /\ Draft = 0 => Len(revs) \in DOMAIN revs /\ revs[Len(revs)].state # "draft"
<1>1. revs \in Seq(Revision) /\ Len(revs) \in Nat
  BY DEF RecTypeOK
<1>2. revs # <<>> => Len(revs) \in DOMAIN revs /\ revs[Len(revs)] \in Revision
  BY <1>1
<1>4. CASE revs # <<>> /\ revs[Len(revs)].state = "draft"
  BY <1>1, <1>2, <1>4 DEF Draft
<1>5. CASE ~(revs # <<>> /\ revs[Len(revs)].state = "draft")
  BY <1>1, <1>2, <1>5 DEF Draft
<1> QED
  BY <1>4, <1>5

\* A step that leaves the transcript alone preserves the invariant if it keeps
\* the types and no worker comes to hold a later draft.
LEMMA Aside ==
  ASSUME RecIInv, UNCHANGED transcript,
         status' \in RecordingStatus, jobs' \in [Jobs -> Job],
         worker' \in [Workers -> Execution],
         \A v \in Workers : (worker'[v].at = "idle") <=> (worker'[v].job = None),
         \A v \in Workers : worker'[v].draft \in {0, worker[v].draft, Draft},
         damaged' \subseteq Parts, unsound' \in BOOLEAN, lapses' \in Nat
  PROVE  RecIInv'
<1> USE DEF RecIInv
<1>1. revs' = revs /\ disputes' = disputes /\ Draft' = Draft /\ Open' = Open
  BY DEF transcript, Draft, Open
<1>2. RecTypeOK'
  BY <1>1 DEF RecTypeOK
<1>3. ReadsExist'
  <2>1. Draft <= Len(revs) /\ 0 <= Len(revs)
    BY DraftIs DEF RecTypeOK
  <2>2. ASSUME NEW v \in Workers  PROVE worker'[v].draft <= Len(revs)
    BY <2>1 DEF ReadsExist
  <2> QED
    BY <1>1, <2>2 DEF ReadsExist
<1>4. RevisionsChain' /\ LockedUnmarked' /\ OpenHasDraft' /\ MarksResolvable'
  BY <1>1 DEF RevisionsChain, LockedUnmarked, OpenHasDraft, MarksResolvable
<1> QED
  BY <1>2, <1>3, <1>4

-----------------------------------------------------------------------------
\* The queue's steps and those of a worker that has not come to build.
LEMMA QueueStep ==
  ASSUME RecIInv, NEW w \in Workers,
         Claim(w) \/ Heartbeat(w) \/ Crash(w) \/ Verdict(w)
  PROVE  RecIInv'
<1> USE DEF RecIInv, evidence
<1>1. CASE Claim(w)
  <2>1. PICK j \in Jobs :
          /\ jobs' = [jobs EXCEPT ![j] = [state |-> "running", by |-> w, lapsed |-> FALSE,
                                          attempts |-> jobs[j].attempts + 1]]
          /\ worker' = [worker EXCEPT ![w].at = "preflight", ![w].job = j]
    BY <1>1 DEF Claim
  <2> DEFINE x == [worker[w] EXCEPT !.at = "preflight", !.job = j]
  <2>2. Shaped(x) /\ x.draft = worker[w].draft
    BY RecAssumption DEF Shaped, RecTypeOK
  <2>3. worker' = [worker EXCEPT ![w] = x]
    BY <2>1 DEF RecTypeOK
  <2> HIDE DEF x
  <2>4. \A v \in Workers : worker'[v].draft \in {0, worker[v].draft, Draft}
    BY <2>2, <2>3 DEF RecTypeOK
  <2>5. jobs' \in [Jobs -> Job]
    BY <2>1 DEF RecTypeOK
  <2> QED
    BY <1>1, <2>2, <2>3, <2>4, <2>5, WorkerMoves, Aside DEF Claim, RecTypeOK
<1>2. CASE Heartbeat(w)
  <2>1. jobs' \in [Jobs -> Job]
    <3> DEFINE j == worker[w].job
               row == [jobs[j] EXCEPT !.lapsed = FALSE]
    <3>1. j \in Jobs /\ jobs[j] \in Job /\ jobs \in [Jobs -> Job]
      BY <1>2 DEF Heartbeat, RecTypeOK
    <3>2. row \in Job
      BY <3>1
    <3>3. jobs' = [jobs EXCEPT ![j] = row]
      BY <1>2, <3>1 DEF Heartbeat
    <3> QED
      BY <3>1, <3>2, <3>3
  <2>2. worker' = worker /\ UNCHANGED <<status, transcript, damaged, unsound, lapses>>
    BY <1>2 DEF Heartbeat
  <2>3. /\ worker' \in [Workers -> Execution]
        /\ \A v \in Workers : (worker'[v].at = "idle") <=> (worker'[v].job = None)
        /\ status' \in RecordingStatus /\ damaged' \subseteq Parts
        /\ unsound' \in BOOLEAN /\ lapses' \in Nat
    BY <2>2 DEF RecTypeOK
  <2>4. \A v \in Workers : worker'[v].draft \in {0, worker[v].draft, Draft}
    BY <2>2
  <2> QED
    BY <2>1, <2>2, <2>3, <2>4, Aside
<1>3. CASE Crash(w)
  BY <1>3, RestMoves, Aside DEF Crash, RecTypeOK
<1>4. CASE Verdict(w)
  <2> DEFINE j == worker[w].job
             end(s, n) == [state |-> s, by |-> None, lapsed |-> FALSE, attempts |-> n]
  <2>1. j \in Jobs /\ jobs[j] \in Job
    BY <1>4 DEF Verdict, RecTypeOK
  <2>2. PICK s \in JobState, n \in Nat : jobs' = [jobs EXCEPT ![j] = end(s, n)]
    <3> USE <1>4, <2>1 DEF Verdict
    <3>1. CASE worker[w].out = "done"
      BY <3>1
    <3>2. CASE worker[w].out = "wait"
      <4>1. (IF jobs[j].attempts = 0 THEN 0 ELSE jobs[j].attempts - 1) \in Nat
        OBVIOUS
      <4> QED
        BY <3>2, <4>1
    <3>3. CASE worker[w].out \in {"error", "fatal"}
      BY <3>3
    <3> QED
      BY <3>1, <3>2, <3>3
  <2>3. jobs' \in [Jobs -> Job]
    BY <2>2 DEF RecTypeOK
  <2>4. status' \in RecordingStatus
    BY <1>4 DEF Verdict, RecTypeOK
  <2> QED
    BY <1>4, <2>3, <2>4, RestMoves, Aside DEF Verdict, RecTypeOK
<1> QED
  BY <1>1, <1>2, <1>3, <1>4

LEMMA RunStep ==
  ASSUME RecIInv, NEW w \in Workers,
         \/ PreflightPasses(w) \/ PreflightBlocks(w) \/ PreflightWaits(w)
         \/ LeaveAlone(w) \/ StartRun(w) \/ EngineFails(w) \/ RunStops(w)
         \/ ReadDraft(w) \/ BuildFails(w)
  PROVE  RecIInv'
<1> USE DEF RecIInv, evidence
<1>1. CASE PreflightPasses(w)
  BY <1>1, GoesMoves, Aside DEF PreflightPasses, RecTypeOK
<1>2. CASE PreflightBlocks(w)
  BY <1>2, EndsMoves, Aside DEF PreflightBlocks, RecTypeOK
<1>3. CASE PreflightWaits(w)
  BY <1>3, EndsMoves, Aside DEF PreflightWaits, RecTypeOK
<1>4. CASE LeaveAlone(w)
  BY <1>4, EndsMoves, Aside DEF LeaveAlone, RecTypeOK
<1>5. CASE StartRun(w)
  BY <1>5, GoesMoves, Aside DEF StartRun, RecTypeOK
<1>6. CASE EngineFails(w)
  BY <1>6, EndsMoves, Aside DEF EngineFails, RecTypeOK
<1>7. CASE RunStops(w)
  BY <1>7, EndsMoves, Aside DEF RunStops, RecTypeOK
<1>8. CASE ReadDraft(w)
  <2> DEFINE st == IF Draft = 0 THEN {} ELSE Open
             x  == [worker[w] EXCEPT !.at = "building", !.draft = Draft, !.stale = st]
  <2>1. st \subseteq Disputes /\ Draft \in Nat
    BY DraftIs DEF Open
  <2> HIDE DEF st
  <2>2. Shaped(x) /\ x.draft = Draft
    BY <1>8, <2>1 DEF Shaped, RecTypeOK, ReadDraft
  <2>3. worker' = [worker EXCEPT ![w] = x]
    BY <1>8 DEF ReadDraft, RecTypeOK, st
  <2> HIDE DEF x
  <2>4. \A v \in Workers : worker'[v].draft \in {0, worker[v].draft, Draft}
    BY <2>2, <2>3 DEF RecTypeOK
  <2> QED
    BY <1>8, <2>2, <2>3, <2>4, WorkerMoves, Aside DEF ReadDraft, RecTypeOK
<1>9. CASE BuildFails(w)
  BY <1>9, EndsMoves, Aside DEF BuildFails, RecTypeOK
<1> QED
  BY <1>1, <1>2, <1>3, <1>4, <1>5, <1>6, <1>7, <1>8, <1>9

-----------------------------------------------------------------------------
\* A step that writes the transcript: revision n is a new text with state and
\* marks of its own, the others keep theirs, and so do the workers.
LEMMA Rewrites ==
  ASSUME RecIInv, NEW n \in DOMAIN revs, NEW r \in Revision, revs[n].state = "draft",
         revs' = [revs EXCEPT ![n] = r]
  PROVE  /\ revs' \in Seq(Revision) /\ Len(revs') = Len(revs) /\ n = Len(revs) /\ DOMAIN revs' = DOMAIN revs
         /\ \A i \in DOMAIN revs : revs'[i] = IF i = n THEN r ELSE revs[i]
         /\ RevisionsChain'
         /\ (r.state = "locked" => r.marks = {}) => LockedUnmarked'
         /\ r.state = "draft" => Draft' = n
         /\ r.state # "draft" => Draft' = 0
<1>1. revs \in Seq(Revision) /\ n \in 1 .. Len(revs) /\ Len(revs) \in Nat
  BY DEF RecIInv, RecTypeOK
<1>2. /\ revs' \in Seq(Revision) /\ Len(revs') = Len(revs)
      /\ \A i \in 1 .. Len(revs) : revs'[i] = IF i = n THEN r ELSE revs[i]
  BY <1>1, ExceptSeq
<1>3. DOMAIN revs = 1 .. Len(revs) /\ DOMAIN revs' = 1 .. Len(revs)
  BY <1>1, <1>2
<1>4. n = Len(revs)
  BY <1>1, <1>3 DEF RecIInv, RevisionsChain
<1>5. RevisionsChain'
  <2>1. ASSUME NEW i \in 1 .. Len(revs), i < Len(revs)  PROVE revs'[i].state = "locked"
    BY <1>2, <1>3, <1>4, <2>1 DEF RecIInv, RevisionsChain
  <2> QED
    BY <1>2, <1>3, <2>1 DEF RevisionsChain
<1>6. ASSUME r.state = "locked" => r.marks = {}  PROVE LockedUnmarked'
  BY <1>2, <1>3, <1>6 DEF RecIInv, LockedUnmarked
<1>7. revs' # <<>> /\ revs'[Len(revs')] = r
  BY <1>1, <1>2, <1>4
<1>8. (r.state = "draft" => Draft' = n) /\ (r.state # "draft" => Draft' = 0)
  BY <1>2, <1>4, <1>7 DEF Draft
<1> QED
  BY <1>2, <1>3, <1>4, <1>5, <1>6, <1>8

\* The steps of the people that leave the workers alone.
LEMMA ReviewStep ==
  ASSUME RecIInv,
         \/ \E d \in Disputes : Resolve(d)
         \/ \E touch \in Manual : Edit(touch)
         \/ Lock
  PROVE  RecIInv'
<1> DEFINE old == revs[Draft]
<1>1. Draft # 0
  BY DEF Resolve, Edit, Lock
<1>2. Draft \in DOMAIN revs /\ old.state = "draft" /\ old \in Revision
  BY <1>1, DraftIs DEF RecIInv
<1>3. UNCHANGED <<jobs, worker, damaged, unsound, lapses>>
  BY DEF Resolve, Edit, Lock, evidence
<1>4. PICK r \in Revision :
        /\ revs' = [revs EXCEPT ![Draft] = r]
        /\ r.state = "locked" => r.marks = {} /\ Open' = {}
        /\ r.state = "draft" => r.marks \subseteq Open'
        /\ disputes' \in [Disputes -> DisputeState] /\ status' \in RecordingStatus
  <2>1. ASSUME NEW d \in Disputes, Resolve(d)
        PROVE  \E r \in Revision :
                 /\ revs' = [revs EXCEPT ![Draft] = r]
                 /\ r.state = "draft" /\ r.marks \subseteq Open'
                 /\ disputes' \in [Disputes -> DisputeState] /\ status' \in RecordingStatus
    <3> DEFINE r == [old EXCEPT !.marks = @ \ {d}, !.edits = @ \cup {d}]
    <3>1. r \in Revision /\ r.state = "draft" /\ r.marks = old.marks \ {d}
      BY <1>2 DEF Revision, Touches
    <3>2. revs' = [revs EXCEPT ![Draft] = r]
      BY <2>1, <1>2 DEF Resolve, Revision
    <3>3. disputes' = [disputes EXCEPT ![d] = "resolved"] /\ disputes \in [Disputes -> DisputeState]
      BY <2>1 DEF Resolve, RecIInv, RecTypeOK
    <3>4. Open' = Open \ {d}
      BY <3>3 DEF Open
    <3>5. old.marks \subseteq Open
      BY <1>1 DEF RecIInv, MarksResolvable
    <3>6. status' \in RecordingStatus
      BY <2>1 DEF Resolve, RecIInv, RecTypeOK
    <3> HIDE DEF r
    <3> QED
      BY <3>1, <3>2, <3>3, <3>4, <3>5, <3>6
  <2>2. ASSUME NEW touch \in Manual, Edit(touch)
        PROVE  \E r \in Revision :
                 /\ revs' = [revs EXCEPT ![Draft] = r]
                 /\ r.state = "draft" /\ r.marks \subseteq Open'
                 /\ disputes' \in [Disputes -> DisputeState] /\ status' \in RecordingStatus
    <3> DEFINE r == [old EXCEPT !.edits = @ \cup {touch}]
    <3>1. r \in Revision /\ r.state = "draft" /\ r.marks = old.marks
      BY <1>2 DEF Revision, Touches
    <3>2. revs' = [revs EXCEPT ![Draft] = r]
      BY <2>2, <1>2 DEF Edit, Revision
    <3>3. disputes' = disputes /\ Open' = Open /\ status' = status
      BY <2>2 DEF Edit, Open
    <3>4. old.marks \subseteq Open
      BY <1>1 DEF RecIInv, MarksResolvable
    <3>5. disputes \in [Disputes -> DisputeState] /\ status \in RecordingStatus
      BY DEF RecIInv, RecTypeOK
    <3> HIDE DEF r
    <3> QED
      BY <3>1, <3>2, <3>3, <3>4, <3>5
  <2>3. ASSUME Lock
        PROVE  \E r \in Revision :
                 /\ revs' = [revs EXCEPT ![Draft] = r]
                 /\ r.state = "locked" /\ r.marks = {} /\ Open' = {}
                 /\ disputes' \in [Disputes -> DisputeState] /\ status' \in RecordingStatus
    <3> DEFINE r == [old EXCEPT !.state = "locked"]
    <3>1. r \in Revision /\ r.state = "locked" /\ r.marks = old.marks
      BY <1>2 DEF Revision
    <3>2. revs' = [revs EXCEPT ![Draft] = r] /\ old.marks = {} /\ status' = "locked"
      BY <2>3, <1>2 DEF Lock, Revision
    <3>3. disputes' = disputes /\ Open' = {}
      BY <2>3 DEF Lock, Open
    <3>4. disputes \in [Disputes -> DisputeState]
      BY DEF RecIInv, RecTypeOK
    <3> HIDE DEF r
    <3> QED
      BY <3>1, <3>2, <3>3, <3>4
  <2> QED
    BY <2>1, <2>2, <2>3
<1>5. r.state \in {"draft", "locked"}
  BY DEF Revision
<1>6. /\ revs' \in Seq(Revision) /\ Len(revs') = Len(revs) /\ DOMAIN revs' = DOMAIN revs
      /\ revs'[Draft] = r /\ RevisionsChain' /\ LockedUnmarked'
      /\ r.state = "draft" => Draft' = Draft
      /\ r.state # "draft" => Draft' = 0
  BY <1>2, <1>4, Rewrites
<1>7. RecTypeOK'
  BY <1>3, <1>4, <1>6 DEF RecIInv, RecTypeOK
<1>8. ReadsExist'
  BY <1>3, <1>6 DEF RecIInv, ReadsExist
<1>9. OpenHasDraft' /\ MarksResolvable'
  BY <1>1, <1>4, <1>5, <1>6 DEF OpenHasDraft, MarksResolvable
<1> QED
  BY <1>6, <1>7, <1>8, <1>9 DEF RecIInv

\* The build writes a draft whose marks are the disputes it opens.
LEMMA BuildStep ==
  ASSUME RecIInv, NEW w \in Workers, NEW ds \in SUBSET Disputes, Build(w, ds)
  PROVE  RecIInv'
<1> DEFINE n == worker[w].draft
           m == Machine(ds)
<1>1. m \in Revision /\ m.state = "draft" /\ m.marks = ds
  BY DEF Machine, Revision
<1>2. revs \in Seq(Revision) /\ n \in Nat /\ n <= Len(revs) /\ worker[w].at # "idle"
  BY DEF Build, RecIInv, RecTypeOK, ReadsExist
<1>3. disputes' \in [Disputes -> DisputeState] /\ ds \subseteq Open'
  BY DEF Build, RecIInv, RecTypeOK, Open
<1>4. /\ worker' \in [Workers -> Execution]
      /\ \A v \in Workers : (worker'[v].at = "idle") <=> (worker'[v].job = None)
      /\ \A v \in Workers : worker'[v].draft \in {0, worker[v].draft}
  BY <1>2, EndsMoves DEF Build, RecIInv
<1>5. /\ revs' \in Seq(Revision) /\ Draft' # 0 /\ revs'[Draft'] = m
      /\ Len(revs) <= Len(revs') /\ RevisionsChain' /\ LockedUnmarked'
  <2>1. CASE n = 0
    <3>1. revs = <<>> /\ revs' = <<m>>
      BY <2>1 DEF Build, Writable
    <3> HIDE DEF m
    <3>2. revs' \in Seq(Revision) /\ Len(revs') = 1 /\ DOMAIN revs' = {1} /\ revs'[1] = m /\ revs' # <<>>
      BY <3>1, <1>1
    <3>3. Draft' = 1
      BY <3>2, <1>1 DEF Draft
    <3>4. Len(revs) = 0
      BY <3>1
    <3>5. RevisionsChain' /\ LockedUnmarked'
      BY <3>2, <1>1 DEF RevisionsChain, LockedUnmarked
    <3> QED
      BY <3>2, <3>3, <3>4, <3>5
  <2>2. CASE n # 0
    <3>1. revs[n].state = "draft" /\ revs' = [revs EXCEPT ![n] = m]
      BY <2>2 DEF Build, Writable
    <3>2. n \in DOMAIN revs
      BY <1>2, <2>2
    <3> HIDE DEF m, n
    <3>3. /\ revs' \in Seq(Revision) /\ Len(revs') = Len(revs)
          /\ revs'[n] = m /\ RevisionsChain' /\ LockedUnmarked' /\ Draft' = n
      BY <1>1, <3>1, <3>2, Rewrites
    <3> QED
      BY <1>2, <2>2, <3>3
  <2> QED
    BY <2>1, <2>2
<1>6. status' \in RecordingStatus /\ UNCHANGED <<jobs, damaged, unsound, lapses>>
  BY DEF Build, evidence
<1> HIDE DEF m, n
<1>7. RecTypeOK'
  BY <1>3, <1>4, <1>5, <1>6 DEF RecIInv, RecTypeOK
<1>8. ReadsExist'
  <2>1. ASSUME NEW v \in Workers  PROVE worker'[v].draft <= Len(revs')
    <3>1. worker[v].draft <= Len(revs) /\ worker[v].draft \in Nat /\ Len(revs) \in Nat /\ Len(revs') \in Nat
      BY <1>2, <1>5 DEF RecIInv, ReadsExist, RecTypeOK
    <3> QED
      BY <1>4, <1>5, <3>1
  <2> QED
    BY <2>1 DEF ReadsExist
<1>9. OpenHasDraft' /\ MarksResolvable'
  BY <1>1, <1>3, <1>5 DEF OpenHasDraft, MarksResolvable
<1> QED
  BY <1>5, <1>7, <1>8, <1>9 DEF RecIInv

\* A new revision starts without marks, and every other one is locked.
LEMMA NewRevisionStep ==
  ASSUME RecIInv, NewRevision
  PROVE  RecIInv'
<1> DEFINE last == revs[Len(revs)]
           r == [last EXCEPT !.state = "draft"]
<1>1. revs \in Seq(Revision) /\ Len(revs) \in Nat /\ Len(revs) \in DOMAIN revs
      /\ last \in Revision /\ DOMAIN revs = 1 .. Len(revs)
  <2>1. revs \in Seq(Revision) /\ revs # <<>>
    BY DEF NewRevision, RecIInv, RecTypeOK
  <2> QED
    BY <2>1
<1>2. last.state = "locked" /\ last.marks = {}
  <2>1. last.state # "draft"
    BY DraftIs DEF NewRevision, RecIInv
  <2> QED
    BY <1>1, <2>1 DEF Revision, RecIInv, LockedUnmarked
<1>3. r \in Revision /\ r.state = "draft" /\ r.marks = {}
  BY <1>1, <1>2 DEF Revision
<1>4. revs' = Append(revs, r)
  BY DEF NewRevision
<1> HIDE DEF r
<1>5. /\ revs' \in Seq(Revision) /\ revs' # <<>> /\ Len(revs') = Len(revs) + 1
      /\ \A i \in 1 .. Len(revs) : revs'[i] = revs[i]
      /\ revs'[Len(revs) + 1] = r
  BY <1>1, <1>3, <1>4, AppendProperties
<1>6. DOMAIN revs' = 1 .. Len(revs) + 1
  BY <1>1, <1>5
<1>7. \A i \in 1 .. Len(revs) : revs[i].state = "locked"
  BY <1>1, <1>2 DEF RecIInv, RevisionsChain
<1>8. RevisionsChain'
  <2>1. ASSUME NEW i \in 1 .. Len(revs) + 1, i < Len(revs) + 1  PROVE revs'[i].state = "locked"
    BY <1>1, <1>5, <1>7, <2>1
  <2> QED
    BY <1>5, <1>6, <2>1 DEF RevisionsChain
<1>9. LockedUnmarked'
  <2>1. ASSUME NEW i \in 1 .. Len(revs) + 1  PROVE revs'[i].state = "locked" => revs'[i].marks = {}
    <3>1. CASE i \in 1 .. Len(revs)
      BY <1>1, <1>5, <3>1 DEF RecIInv, LockedUnmarked
    <3>2. CASE i = Len(revs) + 1
      BY <1>3, <1>5, <3>2
    <3> QED
      BY <1>1, <3>1, <3>2
  <2> QED
    BY <1>6, <2>1 DEF LockedUnmarked
<1>10. Draft' = Len(revs) + 1
  BY <1>3, <1>5 DEF Draft
<1>11. UNCHANGED <<jobs, worker, disputes, damaged, unsound, lapses>> /\ status' = "ready"
  BY DEF NewRevision, evidence
<1>12. RecTypeOK'
  BY <1>5, <1>11 DEF RecIInv, RecTypeOK
<1>13. ReadsExist'
  <2>1. ASSUME NEW v \in Workers  PROVE worker'[v].draft <= Len(revs')
    <3>1. worker[v].draft <= Len(revs) /\ worker[v].draft \in Nat
      BY DEF RecIInv, ReadsExist, RecTypeOK
    <3> QED
      BY <1>1, <1>5, <1>11, <3>1
  <2> QED
    BY <2>1 DEF ReadsExist
<1>14. OpenHasDraft' /\ MarksResolvable'
  BY <1>1, <1>3, <1>5, <1>10 DEF OpenHasDraft, MarksResolvable
<1> QED
  BY <1>8, <1>9, <1>12, <1>13, <1>14 DEF RecIInv

\* What happens around the transcript: requests, lapsing leases, the store.
LEMMA AroundStep ==
  ASSUME RecIInv,
         \/ Reprocess \/ VerifyIntegrity
         \/ \E j \in Jobs : Lapse(j)
         \/ \E p \in Parts : Damage(p) \/ Restore(p)
  PROVE  RecIInv'
<1> USE DEF evidence
<1>1. worker' = worker /\ UNCHANGED transcript
  BY DEF Reprocess, VerifyIntegrity, Lapse, Damage, Restore
<1>2. /\ worker' \in [Workers -> Execution]
      /\ \A v \in Workers : (worker'[v].at = "idle") <=> (worker'[v].job = None)
      /\ \A v \in Workers : worker'[v].draft \in {0, worker[v].draft, Draft}
  BY <1>1 DEF RecIInv, RecTypeOK
<1>3. jobs \in [Jobs -> Job] /\ lapses \in Nat
  BY DEF RecIInv, RecTypeOK
<1>4. jobs' \in [Jobs -> Job] /\ lapses' \in Nat
  <2>1. ASSUME NEW j \in Jobs, jobs' = [jobs EXCEPT ![j].state = "queued"]  PROVE jobs' \in [Jobs -> Job]
    <3>1. [jobs[j] EXCEPT !.state = "queued"] \in Job
      BY <1>3
    <3> QED
      BY <1>3, <2>1, <3>1
  <2>2. ASSUME NEW j \in Jobs, jobs' = [jobs EXCEPT ![j].lapsed = TRUE]  PROVE jobs' \in [Jobs -> Job]
    <3>1. [jobs[j] EXCEPT !.lapsed = TRUE] \in Job
      BY <1>3
    <3> QED
      BY <1>3, <2>2, <3>1
  <2>3. CASE Reprocess
    BY <1>3, <2>1, <2>3 DEF Reprocess
  <2>4. CASE \E j \in Jobs : Lapse(j)
    <3>1. PICK j \in Jobs : jobs' = [jobs EXCEPT ![j].lapsed = TRUE] /\ lapses' = lapses + 1
      BY <2>4 DEF Lapse
    <3>2. jobs' \in [Jobs -> Job]
      BY <2>2, <3>1, Zenon
    <3>3. lapses' \in Nat
      BY <1>3, <3>1
    <3> QED
      BY <3>2, <3>3
  <2>5. CASE VerifyIntegrity \/ \E p \in Parts : Damage(p) \/ Restore(p)
    BY <1>3, <2>5 DEF VerifyIntegrity, Damage, Restore
  <2> QED
    BY <2>3, <2>4, <2>5
<1>5. damaged' \subseteq Parts /\ unsound' \in BOOLEAN /\ status' \in RecordingStatus
  BY DEF Reprocess, VerifyIntegrity, Lapse, Damage, Restore, RecIInv, RecTypeOK
<1> QED
  BY <1>1, <1>2, <1>4, <1>5, Aside

-----------------------------------------------------------------------------
LEMMA InitRecIInv == Init => RecIInv
<1> SUFFICES ASSUME Init PROVE RecIInv
  OBVIOUS
<1>1. revs = <<>> /\ Len(revs) = 0 /\ DOMAIN revs = {} /\ revs \in Seq(Revision)
  BY DEF Init
<1>2. jobs \in [Jobs -> Job]
  BY DEF Init
<1>3. /\ worker \in [Workers -> Execution]
      /\ \A w \in Workers : (worker[w].at = "idle") <=> (worker[w].job = None)
      /\ \A w \in Workers : worker[w].draft <= 0
  BY DEF Init, AtRest
<1>4. RecTypeOK
  BY <1>1, <1>2, <1>3 DEF Init, RecTypeOK
<1>5. Draft = 0 /\ Open = {}
  BY <1>1 DEF Draft, Open, Init
<1>6. ReadsExist
  BY <1>1, <1>3 DEF ReadsExist
<1> QED
  BY <1>1, <1>4, <1>5, <1>6 DEF RecIInv, RevisionsChain, LockedUnmarked, OpenHasDraft, MarksResolvable

LEMMA NextRecIInv == RecIInv /\ [Next]_vars => RecIInv'
<1> SUFFICES ASSUME RecIInv, [Next]_vars PROVE RecIInv'
  OBVIOUS
<1>1. CASE \E w \in Workers : Claim(w) \/ Heartbeat(w) \/ Crash(w) \/ Verdict(w)
  BY <1>1, QueueStep
<1>2. CASE \E w \in Workers :
             \/ PreflightPasses(w) \/ PreflightBlocks(w) \/ PreflightWaits(w)
             \/ LeaveAlone(w) \/ StartRun(w) \/ EngineFails(w) \/ RunStops(w)
             \/ ReadDraft(w) \/ BuildFails(w)
  BY <1>2, RunStep
<1>3. CASE \E w \in Workers, ds \in SUBSET Disputes : Build(w, ds)
  BY <1>3, BuildStep
<1>4. CASE (\E d \in Disputes : Resolve(d)) \/ (\E touch \in Manual : Edit(touch)) \/ Lock
  BY <1>4, ReviewStep
<1>5. CASE NewRevision
  BY <1>5, NewRevisionStep
<1>6. CASE \/ Reprocess \/ VerifyIntegrity
           \/ \E j \in Jobs : Lapse(j)
           \/ \E p \in Parts : Damage(p) \/ Restore(p)
  BY <1>6, AroundStep
<1>7. CASE UNCHANGED vars
  BY <1>7 DEF vars, RecIInv, RecTypeOK, RevisionsChain, ReadsExist, LockedUnmarked,
              OpenHasDraft, MarksResolvable, Draft, Open
<1> QED
  BY <1>1, <1>2, <1>3, <1>4, <1>5, <1>6, <1>7 DEF Next

\* The inductive invariant holds of every reachable state of the lifecycle of a
\* recording (jobs.py, process.py, recordings.py, integrity.py).
THEOREM RecInvariance == Spec => []RecIInv
<1> QED
  BY InitRecIInv, NextRecIInv, PTL DEF Spec

\* While the latest revision is locked nothing is disputed, whatever workers
\* are still building: the lock's two checks and the database's refusal of a
\* late build suffice (recordings.py:366, migration 0002).
THEOREM Settled == Spec => []LockedSettled
<1>1. RecIInv => LockedSettled
  <2> SUFFICES ASSUME RecIInv, revs # <<>>, Draft = 0, NEW i \in DOMAIN revs
               PROVE  Open = {} /\ revs[i].marks = {}
    BY DEF LockedSettled, RecIInv, OpenHasDraft
  <2>1. revs \in Seq(Revision) /\ i \in 1 .. Len(revs) /\ Len(revs) \in Nat /\ revs[i] \in Revision
    BY DEF RecIInv, RecTypeOK
  <2>2. revs[Len(revs)].state # "draft"
    BY DraftIs DEF RecIInv
  <2>3. revs[i].state = "locked"
    <3>1. CASE i < Len(revs)
      BY <3>1 DEF RecIInv, RevisionsChain
    <3>2. CASE i = Len(revs)
      BY <2>1, <2>2, <3>2 DEF Revision
    <3> QED
      BY <2>1, <3>1, <3>2
  <2> QED
    BY <2>3 DEF RecIInv, LockedUnmarked, OpenHasDraft
<1> QED
  BY <1>1, RecInvariance, PTL

\* A region marked in a draft can always be resolved, also after rebuilds that
\* overlap and supersede each other's disputes (process.py:864, resolve).
THEOREM Resolvable == Spec => []MarksResolvable
<1>1. RecIInv => MarksResolvable
  BY DEF RecIInv
<1> QED
  BY <1>1, RecInvariance, PTL

\* No step writes a locked revision, late builds included.
THEOREM Frozen == Spec => LockedFrozen
<1>1. ASSUME RecIInv, [Next]_vars
      PROVE  [\A i \in DOMAIN revs : revs[i].state = "locked" => i \in DOMAIN revs' /\ revs'[i] = revs[i]]_vars
  <2> SUFFICES ASSUME Next, NEW i \in DOMAIN revs, revs[i].state = "locked"
               PROVE  i \in DOMAIN revs' /\ revs'[i] = revs[i]
    BY <1>1
  <2>1. revs \in Seq(Revision) /\ Len(revs) \in Nat /\ i \in 1 .. Len(revs)
    BY <1>1 DEF RecIInv, RecTypeOK
  <2>2. CASE UNCHANGED revs
    BY <2>2
  <2>3. ASSUME NEW n \in DOMAIN revs, NEW r, revs[n].state = "draft", revs' = [revs EXCEPT ![n] = r]
        PROVE  i \in DOMAIN revs' /\ revs'[i] = revs[i]
    BY <2>3
  <2>4. CASE NewRevision
    BY <2>1, <2>4 DEF NewRevision
  <2>5. ASSUME NEW w \in Workers, NEW ds \in SUBSET Disputes, Build(w, ds)
        PROVE  i \in DOMAIN revs' /\ revs'[i] = revs[i]
    <3>1. worker[w].draft \in Nat /\ worker[w].draft <= Len(revs)
      BY <1>1 DEF RecIInv, RecTypeOK, ReadsExist
    <3>2. worker[w].draft # 0
      BY <2>1, <2>5 DEF Build, Writable
    <3>3. worker[w].draft \in DOMAIN revs
      BY <2>1, <3>1, <3>2
    <3> QED
      BY <2>3, <2>5, <3>2, <3>3 DEF Build, Writable
  <2>6. CASE (\E d \in Disputes : Resolve(d)) \/ (\E touch \in Manual : Edit(touch)) \/ Lock
    <3>1. Draft # 0
      BY <2>6 DEF Resolve, Edit, Lock
    <3>2. Draft \in DOMAIN revs /\ revs[Draft].state = "draft"
      BY <1>1, <3>1, DraftIs DEF RecIInv
    <3>3. \E r : revs' = [revs EXCEPT ![Draft] = r]
      BY <2>6, <3>2 DEF Resolve, Edit, Lock
    <3> QED
      BY <2>3, <3>2, <3>3
  <2>7. CASE \/ \E w \in Workers :
                 \/ Claim(w) \/ Heartbeat(w) \/ Crash(w) \/ Verdict(w)
                 \/ PreflightPasses(w) \/ PreflightBlocks(w) \/ PreflightWaits(w)
                 \/ LeaveAlone(w) \/ StartRun(w) \/ EngineFails(w) \/ RunStops(w)
                 \/ ReadDraft(w) \/ BuildFails(w)
             \/ Reprocess \/ VerifyIntegrity
             \/ \E j \in Jobs : Lapse(j)
             \/ \E p \in Parts : Damage(p) \/ Restore(p)
    <3>1. UNCHANGED revs
      BY <2>7 DEF transcript, Claim, Heartbeat, Crash, Verdict, PreflightPasses, PreflightBlocks,
                  PreflightWaits, LeaveAlone, StartRun, EngineFails, RunStops, ReadDraft, BuildFails,
                  Reprocess, VerifyIntegrity, Lapse, Damage, Restore
    <3> QED
      BY <2>2, <3>1
  <2> QED
    BY <2>4, <2>5, <2>6, <2>7 DEF Next
<1> QED
  BY <1>1, RecInvariance, PTL DEF Spec, LockedFrozen

\* The records of jobs, revisions, marks and executions keep their shapes, and
\* a worker of jobs.py is at rest exactly when it holds no job.
THEOREM RecTypes == Spec => []RecTypeOK
<1>1. RecIInv => RecTypeOK
  BY DEF RecIInv
<1> QED
  BY <1>1, RecInvariance, PTL

-----------------------------------------------------------------------------
(* The transcript implements the evidence record.                          *)

\* The texts of the first n revisions of s.
Texts(s, n) == [i \in 1 .. n |-> Text(s[i])]
TextType == [marks : SUBSET Disputes, edits : SUBSET Touches]

LEMMA TextOf ==
  ASSUME NEW r \in Revision
  PROVE  Text(r) \in TextType /\ Text(r).marks = r.marks /\ Text(r).edits = r.edits
BY DEF Text, TextType, Revision

\* One more text is appended, and texts that agree are one sequence.
LEMMA TextsGrow ==
  ASSUME NEW s \in Seq(Revision), NEW n \in Nat, n < Len(s)
  PROVE  /\ Texts(s, n) \in Seq(TextType) /\ Len(Texts(s, n)) = n
         /\ Texts(s, n + 1) = Append(Texts(s, n), Text(s[n + 1]))
<1>1. Len(s) \in Nat /\ \A i \in 1 .. n + 1 : s[i] \in Revision
  OBVIOUS
<1>2. \A i \in 1 .. n + 1 : Text(s[i]) \in TextType
  BY <1>1, TextOf
<1>3. /\ Texts(s, n) \in Seq(TextType) /\ Len(Texts(s, n)) = n
      /\ \A i \in 1 .. n : Texts(s, n)[i] = Text(s[i])
  BY <1>2 DEF Texts
<1>4. /\ Texts(s, n + 1) \in Seq(TextType) /\ Len(Texts(s, n + 1)) = n + 1
      /\ \A i \in 1 .. n + 1 : Texts(s, n + 1)[i] = Text(s[i])
  BY <1>2 DEF Texts
<1> DEFINE a == Append(Texts(s, n), Text(s[n + 1]))
<1>5. Text(s[n + 1]) \in TextType
  BY <1>2
<1>6. /\ a \in Seq(TextType) /\ Len(a) = n + 1
      /\ \A i \in 1 .. n : a[i] = Text(s[i])
      /\ a[n + 1] = Text(s[n + 1])
  BY <1>3, <1>5, AppendProperties
<1> HIDE DEF a
<1>7. Texts(s, n + 1) = a
  <2>1. \A i \in 1 .. n + 1 : i \in 1 .. n \/ i = n + 1
    OBVIOUS
  <2>2. \A i \in 1 .. n + 1 : Texts(s, n + 1)[i] = a[i]
    BY <1>4, <1>6, <2>1
  <2> QED
    BY <1>4, <1>6, <2>2, SeqEqual
<1> QED
  BY <1>3, <1>7 DEF a

LEMMA SameTexts ==
  ASSUME NEW n \in Nat, NEW s, NEW t, \A i \in 1 .. n : s[i] = t[i]
  PROVE  Texts(s, n) = Texts(t, n)
BY DEF Texts

\* What the mapping is, with a draft and without.
LEMMA Mapped ==
  ASSUME RecTypeOK
  PROVE  /\ Draft # 0 => /\ Record = Texts(revs, Draft - 1) /\ Drafts = {Text(revs[Draft])}
                         /\ Draft = Len(revs) /\ Draft \in Nat \ {0}
         /\ Draft = 0 => Record = Texts(revs, Len(revs)) /\ Drafts = {}
BY DraftIs DEF Record, Drafts, Texts

\* A rewritten draft is the new text beside the same record; a locked one is
\* the record's next entry.
LEMMA DraftRewritten ==
  ASSUME RecIInv, NEW n \in DOMAIN revs, NEW r \in Revision, revs[n].state = "draft",
         revs' = [revs EXCEPT ![n] = r], RecTypeOK'
  PROVE  /\ n = Draft /\ Drafts = {Text(revs[n])}
         /\ r.state = "draft" => Record' = Record /\ Drafts' = {Text(r)}
         /\ r.state = "locked" /\ Text(r) = Text(revs[n]) =>
              Record' = Append(Record, Text(r)) /\ Drafts' = {}
<1>1. /\ revs \in Seq(Revision) /\ revs' \in Seq(Revision) /\ Len(revs') = Len(revs) /\ n = Len(revs)
      /\ \A i \in DOMAIN revs : revs'[i] = IF i = n THEN r ELSE revs[i]
      /\ r.state = "draft" => Draft' = n
      /\ r.state # "draft" => Draft' = 0
  BY Rewrites DEF RecIInv, RecTypeOK
<1>2. n \in Nat \ {0} /\ DOMAIN revs = 1 .. n /\ revs # <<>>
  BY <1>1
<1>3. n = Draft
  BY <1>1, <1>2 DEF Draft
<1>4. Record = Texts(revs, n - 1) /\ Drafts = {Text(revs[n])}
  BY <1>2, <1>3, Mapped DEF RecIInv
<1>5. n - 1 \in Nat /\ \A i \in 1 .. n - 1 : revs'[i] = revs[i]
  BY <1>1, <1>2
<1>6. Texts(revs', n - 1) = Texts(revs, n - 1)
  BY <1>5, SameTexts
<1>7. revs'[n] = r
  BY <1>1, <1>2
<1>8. /\ r.state = "draft" => Record' = Texts(revs', n - 1) /\ Drafts' = {Text(revs'[n])}
      /\ r.state # "draft" => Record' = Texts(revs', n) /\ Drafts' = {}
  BY <1>1, <1>2 DEF Record, Drafts, Texts
<1>9. ASSUME r.state = "draft"  PROVE Record' = Record /\ Drafts' = {Text(r)}
  BY <1>1, <1>2, <1>4, <1>6, <1>7, <1>8, <1>9
<1>10. ASSUME r.state = "locked"  PROVE Record' = Append(Record, Text(r)) /\ Drafts' = {}
  <2> DEFINE k == n - 1
  <2>1. k \in Nat /\ k < Len(revs') /\ k + 1 = n
    BY <1>1, <1>2
  <2> HIDE DEF k
  <2>2. Texts(revs', k + 1) = Append(Texts(revs', k), Text(revs'[k + 1]))
    BY <1>1, <2>1, TextsGrow
  <2> USE DEF k
  <2> QED
    BY <1>1, <1>4, <1>6, <1>7, <1>8, <1>10, <2>1, <2>2
<1> QED
  BY <1>3, <1>4, <1>9, <1>10

\* People's steps: an edit or a resolution is a review, a lock a lock.
LEMMA PeopleImplement ==
  ASSUME RecIInv, RecTypeOK',
         (\E d \in Disputes : Resolve(d)) \/ (\E touch \in Manual : Edit(touch)) \/ Lock
  PROVE  Evidence!Next
<1> DEFINE old == revs[Draft]
           t == Text(old)
<1>1. Draft \in DOMAIN revs /\ old.state = "draft" /\ old \in Revision
  BY DraftIs DEF RecIInv, Resolve, Edit, Lock
<1>2. t.marks = old.marks /\ t.edits = old.edits
  BY <1>1, TextOf
<1>3. ASSUME NEW settled \in SUBSET Disputes, NEW work \in SUBSET Touches,
             revs' = [revs EXCEPT ![Draft].marks = @ \ settled, ![Draft].edits = @ \cup work]
      PROVE  Evidence!Next
  <2> DEFINE r == [old EXCEPT !.marks = @ \ settled, !.edits = @ \cup work]
  <2>1. /\ r \in Revision /\ r.state = "draft"
        /\ r.marks = old.marks \ settled /\ r.edits = old.edits \cup work
    BY <1>1 DEF Revision
  <2>2. revs' = [revs EXCEPT ![Draft] = r]
    BY <1>1, <1>3 DEF Revision
  <2> HIDE DEF r
  <2>3. Record' = Record /\ Drafts' = {Text(r)} /\ Drafts = {t}
    BY <1>1, <2>1, <2>2, DraftRewritten
  <2>4. Text(r) = [marks |-> t.marks \ settled, edits |-> t.edits \cup work]
    BY <1>2, <2>1 DEF Text
  <2> HIDE DEF t
  <2>5. Evidence!Review(t, settled, work)
    BY <2>3, <2>4 DEF Evidence!Review
  <2> QED
    BY <2>3, <2>5 DEF Evidence!Next
<1>4. CASE \E d \in Disputes : Resolve(d)
  <2>1. PICK d \in Disputes : Resolve(d)
    BY <1>4
  <2>2. revs' = [revs EXCEPT ![Draft].marks = @ \ {d}, ![Draft].edits = @ \cup {d}]
    BY <2>1 DEF Resolve
  <2>3. {d} \in SUBSET Disputes /\ {d} \in SUBSET Touches
    BY DEF Touches
  <2> QED
    BY <1>3, <2>2, <2>3
<1>5. CASE \E touch \in Manual : Edit(touch)
  <2>1. PICK touch \in Manual : Edit(touch)
    BY <1>5
  <2>2. revs' = [revs EXCEPT ![Draft].marks = @ \ {}, ![Draft].edits = @ \cup {touch}]
    BY <2>1, <1>1 DEF Edit, Revision
  <2>3. {} \in SUBSET Disputes /\ {touch} \in SUBSET Touches
    BY DEF Touches
  <2> QED
    BY <1>3, <2>2, <2>3
<1>6. CASE Lock
  <2> DEFINE r == [old EXCEPT !.state = "locked"]
  <2>1. r \in Revision /\ r.state = "locked" /\ r.marks = old.marks /\ r.edits = old.edits
    BY <1>1 DEF Revision
  <2>2. revs' = [revs EXCEPT ![Draft] = r] /\ old.marks = {}
    BY <1>1, <1>6 DEF Lock, Revision
  <2> HIDE DEF r
  <2>3. Text(r) = t
    BY <2>1 DEF Text
  <2>4. Record' = Append(Record, t) /\ Drafts' = {} /\ Drafts = {t}
    BY <1>1, <2>1, <2>2, <2>3, DraftRewritten
  <2> HIDE DEF t
  <2>5. Evidence!Lock(t)
    BY <1>2, <2>2, <2>4 DEF Evidence!Lock
  <2> QED
    BY <2>4, <2>5 DEF Evidence!Next
<1> QED
  BY <1>4, <1>5, <1>6

\* A build writes a machine's text: the first one, or over a draft.
LEMMA BuildImplements ==
  ASSUME RecIInv, RecTypeOK', NEW w \in Workers, NEW ds \in SUBSET Disputes, Build(w, ds)
  PROVE  Evidence!Next
<1> DEFINE n == worker[w].draft
           m == Machine(ds)
<1>1. m \in Revision /\ m.state = "draft" /\ Text(m) = [marks |-> ds, edits |-> {}]
  BY DEF Machine, Revision, Text
<1>2. revs \in Seq(Revision) /\ n \in Nat /\ n <= Len(revs)
  BY DEF RecIInv, RecTypeOK, ReadsExist
<1>3. /\ Record = <<>> \/ Drafts # {}
      /\ Drafts' = {Text(m)}
      /\ Record' = Record
  <2>1. CASE n = 0
    <3>1. revs = <<>> /\ revs' = <<m>>
      BY <2>1 DEF Build, Writable
    <3> HIDE DEF m
    <3>2. Draft' = 1 /\ revs'[1] = m
      BY <3>1, <1>1 DEF Draft
    <3>3. Drafts' = {Text(m)}
      BY <3>2 DEF Drafts
    <3>4. Record' = <<>> /\ Record = <<>>
      BY <3>1, <3>2 DEF Record, Draft
    <3> QED
      BY <3>3, <3>4
  <2>2. CASE n # 0
    <3>1. revs[n].state = "draft" /\ revs' = [revs EXCEPT ![n] = m]
      BY <2>2 DEF Build, Writable
    <3>2. n \in DOMAIN revs
      BY <1>2, <2>2
    <3> HIDE DEF m, n
    <3> QED
      BY <1>1, <3>1, <3>2, DraftRewritten
  <2> QED
    BY <2>1, <2>2
<1>4. Evidence!Machine(ds)
  BY <1>1, <1>3 DEF Evidence!Machine
<1> QED
  BY <1>4 DEF Evidence!Next

\* A new revision goes on from the latest entry.
LEMMA NewRevisionImplements ==
  ASSUME RecIInv, RecTypeOK', NewRevision
  PROVE  Evidence!Next
<1> DEFINE n == Len(revs)
           r == [revs[n] EXCEPT !.state = "draft"]
<1>1. revs \in Seq(Revision) /\ revs # <<>> /\ Draft = 0 /\ revs' = Append(revs, r)
  BY DEF NewRevision, RecIInv, RecTypeOK
<1>2. n \in Nat \ {0} /\ revs[n] \in Revision
  BY <1>1
<1>3. r \in Revision /\ r.state = "draft" /\ Text(r) = Text(revs[n])
  BY <1>2 DEF Revision, Text
<1> HIDE DEF r
<1>4. /\ revs' \in Seq(Revision) /\ revs' # <<>> /\ Len(revs') = n + 1
      /\ \A i \in 1 .. n : revs'[i] = revs[i]
      /\ revs'[n + 1] = r
  BY <1>1, <1>3, AppendProperties
<1>5. Draft' = n + 1
  BY <1>2, <1>3, <1>4 DEF Draft
<1>6. Record = Texts(revs, n) /\ Drafts = {}
  BY <1>1, Mapped DEF RecIInv
<1>7. Record' = Texts(revs', n) /\ Drafts' = {Text(r)}
  BY <1>2, <1>4, <1>5 DEF Record, Drafts, Texts
<1>8. Record' = Record
  BY <1>2, <1>4, <1>6, <1>7, SameTexts
<1>9. Len(Record) = n /\ Record[n] = Text(revs[n]) /\ Record # <<>>
  BY <1>2, <1>6 DEF Texts
<1>10. Evidence!Revise
  BY <1>3, <1>6, <1>7, <1>8, <1>9 DEF Evidence!Revise
<1> QED
  BY <1>10 DEF Evidence!Next

\* The transcript that jobs, overlapping workers and reviewers work on is an
\* evidence record: only lock adds to it, an entry never changes, and beside it
\* there is one draft at most (recordings.py:360-428, process.py:854-1178).
THEOREM EvidenceKept == Spec => ImplementsRecord
<1>1. Init => Evidence!Init
  <2> SUFFICES ASSUME Init PROVE Evidence!Init
    OBVIOUS
  <2>1. revs = <<>> /\ Draft = 0
    BY DEF Init, Draft
  <2> QED
    BY <2>1 DEF Evidence!Init, Record, Drafts
<1>2. RecIInv /\ RecIInv' /\ [Next]_vars => [Evidence!Next]_(Evidence!transcript)
  <2> SUFFICES ASSUME RecIInv, RecIInv', [Next]_vars
               PROVE  Evidence!Next \/ UNCHANGED <<Record, Drafts>>
    BY DEF Evidence!transcript
  <2>1. RecTypeOK'
    BY DEF RecIInv
  <2>2. CASE (\E d \in Disputes : Resolve(d)) \/ (\E touch \in Manual : Edit(touch)) \/ Lock
    BY <2>1, <2>2, PeopleImplement
  <2>3. CASE \E w \in Workers, ds \in SUBSET Disputes : Build(w, ds)
    BY <2>1, <2>3, BuildImplements
  <2>4. CASE NewRevision
    BY <2>1, <2>4, NewRevisionImplements
  <2>5. CASE \/ \E w \in Workers :
                 \/ Claim(w) \/ Heartbeat(w) \/ Crash(w) \/ Verdict(w)
                 \/ PreflightPasses(w) \/ PreflightBlocks(w) \/ PreflightWaits(w)
                 \/ LeaveAlone(w) \/ StartRun(w) \/ EngineFails(w) \/ RunStops(w)
                 \/ ReadDraft(w) \/ BuildFails(w)
             \/ Reprocess \/ VerifyIntegrity
             \/ \E j \in Jobs : Lapse(j)
             \/ \E p \in Parts : Damage(p) \/ Restore(p)
             \/ UNCHANGED vars
    <3>1. UNCHANGED revs
      BY <2>5 DEF vars, transcript, Claim, Heartbeat, Crash, Verdict, PreflightPasses, PreflightBlocks,
                  PreflightWaits, LeaveAlone, StartRun, EngineFails, RunStops, ReadDraft, BuildFails,
                  Reprocess, VerifyIntegrity, Lapse, Damage, Restore
    <3> QED
      BY <3>1 DEF Record, Drafts, Draft
  <2> QED
    BY <2>2, <2>3, <2>4, <2>5 DEF Next
<1> QED
  BY <1>1, <1>2, RecInvariance, PTL DEF Spec, ImplementsRecord, Evidence!Spec
=============================================================================
