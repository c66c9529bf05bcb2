---------------------------- MODULE EvidenceRecord ----------------------------
(***************************************************************************)
(* What a transcript promises those who rely on it, without jobs, workers, *)
(* leases or rows: an evidence record that only grows, every entry of it   *)
(* undisputed when it was added, and at most one draft beside it.  A       *)
(* machine may write the first draft and overwrite any draft; people add   *)
(* their work to it and settle what is disputed; nobody touches an entry.  *)
(***************************************************************************)
EXTENDS Sequences

CONSTANTS
  Regions,  \* what may be disputed in a text
  Work      \* what people may put into a text

VARIABLES
  record,  \* the locked texts, in order
  draft    \* the text being worked on, if any

transcript == <<record, draft>>

Init == record = <<>> /\ draft = {}

\* The machine writes a text nobody has worked on, over the draft there is or
\* as the first one.
Machine(ds) ==
  /\ record = <<>> \/ draft # {}
  /\ draft' = {[marks |-> ds, edits |-> {}]}
  /\ UNCHANGED record

\* A person's work is added, and what it settles is no longer disputed.
Review(t, settled, work) ==
  /\ draft' = {[marks |-> t.marks \ settled, edits |-> t.edits \cup work]}
  /\ UNCHANGED record

Lock(t) ==
  /\ t.marks = {}
  /\ record' = Append(record, t)
  /\ draft' = {}

\* Work goes on from the latest entry.
Revise ==
  /\ draft = {}
  /\ record # <<>>
  /\ draft' = {record[Len(record)]}
  /\ UNCHANGED record

Next ==
  \/ \E ds \in SUBSET Regions : Machine(ds)
  \/ \E t \in draft :
       \/ Lock(t)
       \/ \E settled \in SUBSET Regions, work \in SUBSET Work : Review(t, settled, work)
  \/ Revise

Spec == Init /\ [][Next]_transcript
===============================================================================
