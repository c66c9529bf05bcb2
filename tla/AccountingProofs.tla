-------------------------- MODULE AccountingProofs --------------------------
(***************************************************************************)
(* Theorems about Accounting for any number of sessions, staff and keys,   *)
(* any fee and any amounts.  For commissions and files the ledger's sums   *)
(* are never unfolded: they need only that the projection and the balance  *)
(* view read one sum.  For refunds SetSums says what one more entry does   *)
(* to a sum.                                                               *)
(***************************************************************************)
EXTENDS Accounting, SetSums

\* Each running request holds its first row, so two money requests, or two
\* completions, never run at once.
FirstRowHeld == \A s \in Sessions : req[s] # None => holder[LockOrder[req[s].op][1]] = s

\* A completion that has both rows passed the guard, and no one who could
\* undo that (a commission or a completer needs the client's row) has run.
CompletionCleared == \A s \in Sessions : Running(s, "complete") /\ AllHeld(s) => ~Overruled(s)

\* A request that decides a commission has one to decide.
CommissionNamed == \A s \in Sessions : Running(s, "commission") => commission # None

AccInv == AccTypeOK /\ FirstRowHeld /\ CompletionCleared /\ CommissionNamed
          /\ CommissionFollowsPayment /\ PaidHasEarned

Settling(s) == RecordTransaction(s) \/ ApplyDiscount(s) \/ RecordCompletion(s)
Refusing(s) == CompletionRefused(s) \/ MoneyRefused(s) \/ DeadlockAbort(s)

----------------------------------------------------------------------------
(* Reconciling and synchronizing a file.                                   *)

Files == [completer : Staff \cup {None}, status : Statuses, stage : Stages,
          passed : BOOLEAN, held : BOOLEAN]

\* Both keep a file a file and touch neither its completer nor a file set aside.
\* Reconciling puts any other file in step, and synchronizing leaves it so.
LEMMA ReconciledFile ==
  ASSUME NEW c \in Files, NEW complete \in BOOLEAN, NEW paid \in BOOLEAN
  PROVE  LET r == Reconciled(c, complete, paid) IN
         /\ r \in Files
         /\ r.completer = c.completer
         /\ r.held = c.held
         /\ SetAside(c) => r = c
         /\ ~SetAside(c) => ((r.status = "completed") <=> (paid /\ complete))
<1> DEFINE Done == [c EXCEPT !.status = "completed", !.stage = "completed_files"]
           Back == [c EXCEPT !.status = "post_hire_tasks",
                             !.stage = IF paid THEN "post_interview_completion" ELSE "payment_required"]
<1>1. /\ Done \in Files /\ Done.completer = c.completer /\ Done.held = c.held /\ Done.status = "completed"
  BY DEF Files, Statuses, PostHire, Stages
<1>2. /\ Back \in Files /\ Back.completer = c.completer /\ Back.held = c.held /\ Back.status = "post_hire_tasks"
  BY DEF Files, Statuses, PostHire, Stages
<1>3. c.held \in BOOLEAN
  BY DEF Files
<1>4. CASE SetAside(c)
  BY <1>4 DEF Reconciled
<1>5. CASE ~SetAside(c) /\ complete /\ paid
  BY <1>1, <1>5 DEF Reconciled
<1>6. CASE ~SetAside(c) /\ ~(complete /\ paid) /\ (complete \/ c.status = "completed")
  BY <1>2, <1>6 DEF Reconciled
<1>7. CASE ~SetAside(c) /\ ~complete /\ c.status # "completed"
  BY <1>7 DEF Reconciled
<1>. QED
  BY <1>3, <1>4, <1>5, <1>6, <1>7

LEMMA SyncedFile ==
  ASSUME NEW c \in Files, NEW paid \in BOOLEAN
  PROVE  LET f == Synced(c, paid) IN
         /\ f \in Files
         /\ f.completer = c.completer
         /\ f.held = c.held
         /\ SetAside(c) => f = c
         /\ (f.status = "completed") <=> (c.status = "completed")
  BY DEF Files, Synced, Statuses, PostHire, Stages, SetAside

\* The file as a settlement leaves it.
Settled(c, complete, paid) == Synced(Reconciled(c, complete, paid), paid)

LEMMA SettledFile ==
  \A c \in Files : \A complete, paid \in BOOLEAN :
    /\ Settled(c, complete, paid) \in Files
    /\ Settled(c, complete, paid).completer = c.completer
    /\ Settled(c, complete, paid).held = c.held
    /\ SetAside(c) => Settled(c, complete, paid) = c
    /\ ~SetAside(c) => ((Settled(c, complete, paid).status = "completed") <=> (paid /\ complete))
<1> SUFFICES ASSUME NEW c \in Files, NEW complete \in BOOLEAN, NEW paid \in BOOLEAN
             PROVE  LET f == Synced(Reconciled(c, complete, paid), paid) IN
                    /\ f \in Files /\ f.completer = c.completer /\ f.held = c.held /\ (SetAside(c) => f = c)
                    /\ ~SetAside(c) => ((f.status = "completed") <=> (paid /\ complete))
  BY DEF Settled
<1> DEFINE r == Reconciled(c, complete, paid)
<1>1. /\ r \in Files /\ r.completer = c.completer /\ r.held = c.held /\ (SetAside(c) => r = c)
      /\ ~SetAside(c) => ((r.status = "completed") <=> (paid /\ complete))
  BY ReconciledFile
<1>. HIDE DEF r
<1>2. LET f == Synced(r, paid) IN
      /\ f \in Files /\ f.completer = r.completer /\ f.held = r.held /\ (SetAside(r) => f = r)
      /\ (f.status = "completed") <=> (r.status = "completed")
  BY <1>1, SyncedFile
<1>. QED
  BY <1>1, <1>2 DEF r

----------------------------------------------------------------------------
(* One settlement.                                                         *)

LEMMA SettleFacts ==
  ASSUME AccTypeOK, NEW l \in [Keys -> Entries \cup {None}], NEW d \in 0..Fee,
         NEW who \in Staff \cup {None}, NEW refund \in BOOLEAN, Settle(l, d, who, refund)
  PROVE  /\ client' \in Files /\ client'.completer = who
         /\ client'.held = client.held
         /\ SetAside(client) => client' = [client EXCEPT !.completer = who]
         /\ ~SetAside(client) => ((client'.status = "completed") <=> (Paid' /\ paperwork))
         /\ commission' = IF Paid' THEN Earned(who) ELSE Reversed
         /\ ledger' \in [Keys -> Entries \cup {None}]
         /\ account' \in [discount : 0..Fee, status : {"pending", "paid", "refunded"}]
         /\ paperwork' = paperwork
<1> DEFINE status == Projected(l, d, refund)
           paid   == BalanceStatus(l, [discount |-> d, status |-> status]) = "paid"
           c      == [client EXCEPT !.completer = who]
<1>1. status \in {"pending", "paid", "refunded"}
  BY DEF Projected
<1>2. c \in Files /\ c.held = client.held /\ c.completer = who /\ (SetAside(c) <=> SetAside(client))
  BY DEF AccTypeOK, Files, SetAside
<1>3. /\ ledger' = l
      /\ account' = [discount |-> d, status |-> status]
      /\ client' = Settled(c, paperwork, paid)
      /\ commission' = IF paid THEN Earned(who) ELSE Reversed
      /\ paperwork' = paperwork
  BY DEF Settle, Settled
<1>4. Paid' = paid
  BY <1>3 DEF Paid
<1>5. paid \in BOOLEAN /\ paperwork \in BOOLEAN
  BY DEF AccTypeOK
<1>. HIDE DEF paid, status, c
<1>6. /\ client' \in Files /\ client'.completer = c.completer /\ client'.held = c.held
      /\ SetAside(c) => client' = c
      /\ ~SetAside(c) => ((client'.status = "completed") <=> (paid /\ paperwork))
  <2>1. PICK b \in BOOLEAN : b = paid
    BY <1>5
  <2>2. PICK w \in BOOLEAN : w = paperwork
    BY <1>5
  <2>3. client' = Settled(c, w, b)
    BY <1>3, <2>1, <2>2
  <2>4. PICK f \in Files : f = c
    BY <1>2
  <2>5. /\ Settled(f, w, b) \in Files
        /\ Settled(f, w, b).completer = f.completer
        /\ Settled(f, w, b).held = f.held
        /\ SetAside(f) => Settled(f, w, b) = f
        /\ ~SetAside(f) => ((Settled(f, w, b).status = "completed") <=> (b /\ w))
    BY SettledFile
  <2>6. client' = Settled(f, w, b)
    BY <2>3, <2>4
  <2>7. /\ client' \in Files /\ client'.completer = f.completer /\ client'.held = f.held
        /\ SetAside(f) => client' = f
        /\ ~SetAside(f) => ((client'.status = "completed") <=> (b /\ w))
    BY <2>5, <2>6
  <2>. QED
    BY <2>1, <2>2, <2>4, <2>7
<1>7. client' \in Files /\ client'.completer = who /\ client'.held = client.held
  BY <1>2, <1>3, <1>6
<1>8. SetAside(client) => client' = c
  BY <1>2, <1>3, <1>6
<1>9. ~SetAside(client) => ((client'.status = "completed") <=> (Paid' /\ paperwork))
  BY <1>2, <1>3, <1>4, <1>6
<1>10. account' \in [discount : 0..Fee, status : {"pending", "paid", "refunded"}]
  BY <1>1, <1>3
<1>. QED
  BY <1>3, <1>4, <1>7, <1>8, <1>9, <1>10 DEF c

\* The commission after it: live only on a paid account, and then it is the
\* one that was live before or a new one of the completer.
LEMMA CommissionAfter ==
  ASSUME AccTypeOK, NEW who \in Staff \cup {None}, NEW paid \in BOOLEAN, who \in Ruled \/ who \notin Ruled,
         commission' = IF paid THEN Earned(who) ELSE Reversed
  PROVE  /\ commission' \in Commissions \cup {None}
         /\ HasLive' => paid /\ (commission' = commission \/ commission'.owner = who)
         /\ paid /\ who \in Ruled => commission' # None
         /\ commission # None => commission' # None
<1>1. CASE paid /\ commission = None /\ who \in Ruled
  <2>1. commission' = [owner |-> who, status |-> "eligible"]
    BY <1>1 DEF Earned
  <2>2. commission' \in Commissions
    BY <2>1, <1>1, AccountingAssumption DEF Commissions, Live
  <2>. QED
    BY <1>1, <2>1, <2>2, NoneAssumption
<1>2. CASE paid /\ ~(commission = None /\ who \in Ruled)
  BY <1>2 DEF Earned, AccTypeOK
<1>3. CASE ~paid /\ HasLive
  <2>1. commission' = [commission EXCEPT !.status = "reversed"]
    BY <1>3 DEF Reversed
  <2>2. commission \in Commissions
    BY <1>3 DEF AccTypeOK, HasLive
  <2>3. commission' \in Commissions /\ commission'.status = "reversed"
    BY <2>1, <2>2 DEF Commissions
  <2>. QED
    BY <1>3, <2>3, NoneAssumption DEF HasLive, Live
<1>4. CASE ~paid /\ ~HasLive
  BY <1>4 DEF Reversed, HasLive, AccTypeOK
<1>. QED
  BY <1>1, <1>2, <1>3, <1>4

----------------------------------------------------------------------------
(* The invariant.                                                          *)

LEMMA InitAccInv == Init => AccInv
<1> SUFFICES ASSUME Init PROVE AccInv
  OBVIOUS
<1>1. AccTypeOK
  <2>1. ledger \in [Keys -> Entries \cup {None}]
    BY DEF Init
  <2>2. account \in [discount : 0..Fee, status : {"pending", "paid", "refunded"}]
    BY AccountingAssumption DEF Init
  <2>3. client \in Files
    BY DEF Init, Files, Statuses, Stages
  <2>4. /\ req \in [Sessions -> Request \cup {None}]
        /\ holder \in [Rows -> Sessions \cup {None}]
        /\ \A r \in Rows : holder[r] = None
    BY DEF Init
  <2>. QED
    BY <2>1, <2>2, <2>3, <2>4 DEF Init, AccTypeOK, Files
<1>2. FirstRowHeld
  BY DEF Init, FirstRowHeld
<1>3. CompletionCleared /\ CommissionNamed
  BY DEF Init, CompletionCleared, CommissionNamed, Running
<1>4. CommissionFollowsPayment /\ PaidHasEarned
  BY AccountingAssumption DEF Init, CommissionFollowsPayment, PaidHasEarned, HasLive
<1>. QED
  BY <1>1, <1>2, <1>3, <1>4 DEF AccInv

\* Taking locks changes no row.
LEMMA BeginKeeps ==
  ASSUME AccInv, NEW s \in Sessions, Begin(s)
  PROVE  AccInv'
<1>. USE DEF AccInv
<1>1. PICK r \in Request :
        /\ req[s] = None
        /\ holder[LockOrder[r.op][1]] = None
        /\ r.op = "commission" => commission # None
        /\ req' = [req EXCEPT ![s] = r]
        /\ holder' = [holder EXCEPT ![LockOrder[r.op][1]] = s]
        /\ UNCHANGED <<ledger, account, client, paperwork, commission>>
  BY DEF Begin
<1>2. LockOrder[r.op][1] \in Rows /\ LockOrder[r.op][2] \in Rows /\ LockOrder[r.op][1] # LockOrder[r.op][2]
  BY DEF Request, LockOrder, Rows
<1>3. AccTypeOK'
  BY <1>1, <1>2, NoneAssumption, AccountingAssumption DEF AccTypeOK
<1>4. FirstRowHeld'
  BY <1>1, <1>2, AccountingAssumption DEF FirstRowHeld, AccTypeOK
<1>5. CompletionCleared'
  <2> SUFFICES ASSUME NEW t \in Sessions, Running(t, "complete")', AllHeld(t)'
               PROVE  ~Overruled(t)'
    BY DEF CompletionCleared
  <2>1. CASE t = s
    <3>1. holder'[LockOrder[r.op][2]] = s
      BY <1>1, <2>1 DEF AllHeld, Wanted, AccTypeOK
    <3>2. holder[LockOrder[r.op][2]] = s
      BY <1>1, <1>2, <3>1 DEF AccTypeOK
    <3>. QED
      BY <1>1, <1>2, <3>2, AccountingAssumption DEF AccTypeOK
  <2>2. CASE t # s
    <3>1. req'[t] = req[t] /\ Running(t, "complete") /\ req[t] \in Request
      BY <1>1, <2>2 DEF Running, AccTypeOK
    <3>2. Wanted(t) \in Rows
      BY <3>1 DEF Wanted, Request, LockOrder, Rows
    <3>3. holder[Wanted(t)] = t
      BY <1>1, <1>2, <2>2, <3>1, <3>2 DEF AllHeld, Wanted, AccTypeOK
    <3>. QED
      BY <1>1, <3>1, <3>3 DEF CompletionCleared, AllHeld, Overruled, HasLive
  <2>. QED
    BY <2>1, <2>2
<1>6. CommissionFollowsPayment' /\ PaidHasEarned'
  BY <1>1 DEF CommissionFollowsPayment, PaidHasEarned, HasLive, Paid
<1>7. CommissionNamed'
  BY <1>1 DEF CommissionNamed, Running, AccTypeOK
<1>. QED
  BY <1>3, <1>4, <1>5, <1>6, <1>7

LEMMA AcquireKeeps ==
  ASSUME AccInv, NEW s \in Sessions, Acquire(s)
  PROVE  AccInv'
<1>. USE DEF AccInv
<1>1. /\ req[s] \in Request /\ holder[Wanted(s)] = None
      /\ Running(s, "complete") => ~Overruled(s)
      /\ holder' = [holder EXCEPT ![Wanted(s)] = s]
      /\ UNCHANGED <<ledger, account, client, paperwork, commission, req>>
  BY DEF Acquire, AccTypeOK
<1>2. Wanted(s) \in Rows
  BY <1>1 DEF Wanted, Request, LockOrder, Rows
<1>3. AccTypeOK'
  BY <1>1, <1>2, NoneAssumption, AccountingAssumption DEF AccTypeOK
<1>4. FirstRowHeld'
  BY <1>1, <1>2, AccountingAssumption DEF FirstRowHeld, AccTypeOK
<1>5. CompletionCleared'
  <2> SUFFICES ASSUME NEW t \in Sessions, Running(t, "complete")', AllHeld(t)'
               PROVE  ~Overruled(t)'
    BY DEF CompletionCleared
  <2>1. Running(t, "complete") /\ req[t] \in Request
    BY <1>1 DEF Running, AccTypeOK
  <2>2. Wanted(t) \in Rows /\ Wanted(t)' = Wanted(t)
    BY <1>1, <2>1 DEF Wanted, Request, LockOrder, Rows
  <2>3. t = s \/ AllHeld(t)
    BY <1>1, <1>2, <2>2 DEF AllHeld, AccTypeOK
  <2>4. ~Overruled(t)
    BY <1>1, <2>1, <2>3 DEF CompletionCleared
  <2>. QED
    BY <1>1, <2>4 DEF Overruled, HasLive
<1>6. CommissionFollowsPayment' /\ PaidHasEarned'
  BY <1>1 DEF CommissionFollowsPayment, PaidHasEarned, HasLive, Paid
<1>7. CommissionNamed'
  BY <1>1 DEF CommissionNamed, Running
<1>. QED
  BY <1>3, <1>4, <1>5, <1>6, <1>7

\* What the release of one transaction means for the others' locks.
LEMMA ReleaseKeeps ==
  ASSUME AccTypeOK, FirstRowHeld, NEW s \in Sessions, req[s] # None, Release(s)
  PROVE  /\ req' \in [Sessions -> Request \cup {None}]
         /\ holder' \in [Rows -> Sessions \cup {None}]
         /\ \A r \in Rows : holder'[r] # None => req'[holder'[r]] # None
         /\ FirstRowHeld'
         /\ \A t \in Sessions : req'[t] # None =>
              /\ t # s /\ req[t] = req'[t] /\ req[t] \in Request
              /\ holder[LockOrder[req[t].op][1]] = t
              /\ AllHeld(t)' => AllHeld(t)
<1>1. /\ req' = [req EXCEPT ![s] = None]
      /\ holder' = [r \in Rows |-> IF holder[r] = s THEN None ELSE holder[r]]
  BY DEF Release
<1>2. /\ req' \in [Sessions -> Request \cup {None}]
      /\ holder' \in [Rows -> Sessions \cup {None}]
  BY <1>1 DEF AccTypeOK
<1>3. \A r \in Rows : holder'[r] # None => req'[holder'[r]] # None
  BY <1>1, AccountingAssumption DEF AccTypeOK
<1>4. \A t \in Sessions : req'[t] # None =>
        /\ t # s /\ req[t] = req'[t] /\ req[t] \in Request
        /\ holder[LockOrder[req[t].op][1]] = t
  BY <1>1 DEF AccTypeOK, FirstRowHeld
<1>5. \A q \in Request : LockOrder[q.op][1] \in Rows /\ LockOrder[q.op][2] \in Rows
  BY DEF Request, LockOrder, Rows
<1>6. FirstRowHeld'
  BY <1>1, <1>4, <1>5 DEF FirstRowHeld
<1>7. ASSUME NEW t \in Sessions, req'[t] # None, AllHeld(t)' PROVE AllHeld(t)
  BY <1>1, <1>4, <1>5, <1>7, AccountingAssumption DEF AllHeld, Wanted
<1>. QED
  BY <1>2, <1>3, <1>4, <1>6, <1>7

LEMMA RefusingKeeps ==
  ASSUME AccInv, NEW s \in Sessions, Refusing(s)
  PROVE  AccInv'
<1>. USE DEF AccInv
<1>1. /\ req[s] # None /\ Release(s)
      /\ UNCHANGED <<ledger, account, client, paperwork, commission>>
  BY DEF Refusing, CompletionRefused, MoneyRefused, DeadlockAbort, Running, Deadlocked, WaitsFor
<1>2. /\ req' \in [Sessions -> Request \cup {None}]
      /\ holder' \in [Rows -> Sessions \cup {None}]
      /\ \A r \in Rows : holder'[r] # None => req'[holder'[r]] # None
      /\ FirstRowHeld'
      /\ \A t \in Sessions : req'[t] # None => req[t] = req'[t] /\ (AllHeld(t)' => AllHeld(t))
  BY <1>1, ReleaseKeeps
<1>3. AccTypeOK'
  BY <1>1, <1>2 DEF AccTypeOK
<1>4. CompletionCleared'
  BY <1>1, <1>2 DEF CompletionCleared, Running, Overruled, HasLive
<1>5. CommissionNamed'
  BY <1>1, <1>2 DEF CommissionNamed, Running
<1>6. CommissionFollowsPayment' /\ PaidHasEarned'
  BY <1>1 DEF CommissionFollowsPayment, PaidHasEarned, HasLive, Paid
<1>. QED
  BY <1>2, <1>3, <1>4, <1>5, <1>6

\* A settlement holds the client's row, and its completer is not overruled.
LEMMA SettlingIs ==
  ASSUME AccInv, NEW s \in Sessions, Settling(s)
  PROVE  /\ req[s] # None /\ holder["client"] = s /\ Release(s)
         /\ \E l \in [Keys -> Entries \cup {None}], d \in 0..Fee, who \in Staff \cup {None}, refund \in BOOLEAN :
              /\ Settle(l, d, who, refund)
              /\ HasLive => commission.owner = who
<1>. USE DEF AccInv
<1>1. client.completer \in Staff \cup {None} /\ account.discount \in 0..Fee
  BY DEF AccTypeOK
<1>2. HasLive => commission.owner = client.completer /\ commission.owner \in Staff
  BY DEF CommissionFollowsPayment, HasLive, AccTypeOK, Commissions
<1>3. CASE RecordTransaction(s)
  <2>1. PICK k \in Keys, e \in Entries :
          /\ Running(s, "money") /\ AllHeld(s)
          /\ Settle(IF ledger[k] = None THEN [ledger EXCEPT ![k] = e] ELSE ledger,
                    account.discount, client.completer, e.type = "refund")
          /\ Release(s)
    BY <1>3 DEF RecordTransaction
  <2> DEFINE l == IF ledger[k] = None THEN [ledger EXCEPT ![k] = e] ELSE ledger
  <2>2. l \in [Keys -> Entries \cup {None}]
    BY DEF AccTypeOK
  <2>3. Settle(l, account.discount, client.completer, e.type = "refund") /\ (e.type = "refund") \in BOOLEAN
    BY <2>1
  <2>4. req[s] # None /\ holder["client"] = s
    BY <2>1 DEF Running, AllHeld, Wanted, LockOrder
  <2>. HIDE DEF l
  <2>. QED
    BY <1>1, <1>2, <2>1, <2>2, <2>3, <2>4
<1>4. CASE ApplyDiscount(s)
  <2>1. PICK d \in 0..Fee :
          /\ Running(s, "money") /\ AllHeld(s)
          /\ Settle(ledger, d, client.completer, FALSE)
          /\ Release(s)
    BY <1>4 DEF ApplyDiscount
  <2>2. req[s] # None /\ holder["client"] = s
    BY <2>1 DEF Running, AllHeld, Wanted, LockOrder
  <2>. QED
    BY <1>1, <1>2, <2>1, <2>2 DEF AccTypeOK
<1>5. CASE RecordCompletion(s)
  <2>1. /\ Running(s, "complete") /\ AllHeld(s)
        /\ Settle(ledger, account.discount, req[s].who, FALSE)
        /\ Release(s)
    BY <1>5 DEF RecordCompletion
  <2>2. req[s] # None /\ holder["client"] = s
    BY <2>1 DEF Running, FirstRowHeld, LockOrder
  <2>3. req[s].who \in Staff \cup {None}
    BY <2>2 DEF AccTypeOK, Request
  <2>4. HasLive => commission.owner = req[s].who
    BY <1>2, <2>1, AccountingAssumption DEF CompletionCleared, Overruled
  <2>. QED
    BY <1>1, <2>1, <2>2, <2>3, <2>4 DEF AccTypeOK
<1>. QED
  BY <1>3, <1>4, <1>5 DEF Settling

LEMMA SettlingKeeps ==
  ASSUME AccInv, NEW s \in Sessions, Settling(s)
  PROVE  AccInv'
<1>. USE DEF AccInv
<1>1. req[s] # None /\ holder["client"] = s /\ Release(s)
  BY SettlingIs
<1>2. PICK l \in [Keys -> Entries \cup {None}], d \in 0..Fee, who \in Staff \cup {None}, refund \in BOOLEAN :
        Settle(l, d, who, refund) /\ (HasLive => commission.owner = who)
  BY SettlingIs
<1>3. /\ client' \in Files /\ client'.completer = who
      /\ commission' = IF Paid' THEN Earned(who) ELSE Reversed
      /\ ledger' \in [Keys -> Entries \cup {None}]
      /\ account' \in [discount : 0..Fee, status : {"pending", "paid", "refunded"}]
      /\ paperwork' = paperwork
  BY <1>2, SettleFacts
<1>4. Paid' \in BOOLEAN
  BY DEF Paid
<1>5. /\ commission' \in Commissions \cup {None}
      /\ HasLive' => Paid' /\ (commission' = commission \/ commission'.owner = who)
      /\ Paid' /\ who \in Ruled => commission' # None
      /\ commission # None => commission' # None
  BY <1>3, <1>4, CommissionAfter
<1>6. /\ req' \in [Sessions -> Request \cup {None}]
      /\ holder' \in [Rows -> Sessions \cup {None}]
      /\ \A r \in Rows : holder'[r] # None => req'[holder'[r]] # None
      /\ FirstRowHeld'
      /\ \A t \in Sessions : req'[t] # None => t # s /\ req[t] = req'[t] /\ holder[LockOrder[req[t].op][1]] = t
  BY <1>1, ReleaseKeeps
<1>7. AccTypeOK'
  BY <1>3, <1>5, <1>6 DEF AccTypeOK, Files
<1>8. CompletionCleared'
  BY <1>1, <1>6 DEF CompletionCleared, Running, LockOrder
<1>9. CommissionFollowsPayment'
  BY <1>2, <1>3, <1>5 DEF CommissionFollowsPayment, HasLive
<1>10. PaidHasEarned'
  BY <1>3, <1>5 DEF PaidHasEarned
<1>11. CommissionNamed'
  BY <1>5, <1>6 DEF CommissionNamed, Running
<1>. QED
  BY <1>6, <1>7, <1>8, <1>9, <1>10, <1>11

\* A decision moves a commission along its life and never revives it.
LEMMA UpdateCommissionKeeps ==
  ASSUME AccInv, NEW s \in Sessions, UpdateCommission(s)
  PROVE  AccInv'
<1>. USE DEF AccInv
<1>1. /\ req[s] # None /\ Release(s)
      /\ UNCHANGED <<ledger, account, client, paperwork>>
      /\ commission' \in {[commission EXCEPT !.status = t] : t \in Transitions[commission.status]} \cup {commission}
  BY DEF UpdateCommission, Running
<1>2. /\ commission' \in Commissions \cup {None}
      /\ HasLive' => HasLive /\ commission'.owner = commission.owner
      /\ commission # None => commission' # None
  <2>1. CASE commission' = commission
    BY <2>1 DEF AccTypeOK, HasLive
  <2>2. CASE commission' # commission
    <3>1. PICK t \in Transitions[commission.status] : commission' = [commission EXCEPT !.status = t]
      BY <1>1, <2>2
    <3>2. commission \in Commissions
      BY DEF CommissionNamed, UpdateCommission, AccTypeOK
    <3>3. commission.status \in Live /\ t \in Live \cup {"cancelled", "reversed"}
      BY <3>1, <3>2 DEF Commissions, Transitions, Live
    <3>4. commission' \in Commissions /\ commission'.owner = commission.owner
      BY <3>1, <3>2, <3>3 DEF Commissions
    <3>. QED
      BY <3>2, <3>3, <3>4, NoneAssumption DEF HasLive
  <2>. QED
    BY <2>1, <2>2
<1>3. /\ req' \in [Sessions -> Request \cup {None}]
      /\ holder' \in [Rows -> Sessions \cup {None}]
      /\ \A r \in Rows : holder'[r] # None => req'[holder'[r]] # None
      /\ FirstRowHeld'
      /\ \A t \in Sessions : req'[t] # None => req[t] = req'[t] /\ (AllHeld(t)' => AllHeld(t))
  BY <1>1, ReleaseKeeps
<1>4. AccTypeOK'
  BY <1>1, <1>2, <1>3 DEF AccTypeOK
<1>5. CompletionCleared' /\ CommissionNamed'
  BY <1>1, <1>2, <1>3 DEF CompletionCleared, CommissionNamed, Running, Overruled
<1>6. CommissionFollowsPayment' /\ PaidHasEarned'
  BY <1>1, <1>2 DEF CommissionFollowsPayment, PaidHasEarned, Paid
<1>. QED
  BY <1>3, <1>4, <1>5, <1>6

\* What the desk's steps do to the file: they need its row, and leave the
\* completer alone.  Only resolving a review ends a hold.
LEMMA DeskFile ==
  ASSUME AccTypeOK, Desk
  PROVE  /\ client' \in Files /\ client'.completer = client.completer /\ paperwork' \in BOOLEAN
         /\ UNCHANGED <<ledger, account, commission, req, holder>>
         /\ client.held /\ client'.held => client'.status = client.status /\ client'.stage = client.stage
         /\ paperwork' # paperwork =>
              IF SetAside(client) THEN client'.status = client.status /\ client'.stage = client.stage ELSE InStep'
<1>0. client.held => SetAside(client)
  BY DEF SetAside
<1>1. client \in Files /\ paperwork \in BOOLEAN /\ Paid \in BOOLEAN /\ (account.status = "paid") \in BOOLEAN
  BY DEF AccTypeOK, Files, Paid
<1>2. CASE PaperworkChanges
  <2>1. PICK b \in BOOLEAN : /\ paperwork' = b /\ client' = Reconciled(client, b, Paid)
                            /\ UNCHANGED <<ledger, account, commission, req, holder>>
    BY <1>2 DEF PaperworkChanges
  <2>2. PICK p \in BOOLEAN : p = Paid
    BY <1>1
  <2>3. PICK f \in Files : f = client
    BY <1>1
  <2> DEFINE r == Reconciled(f, b, p)
  <2>4. /\ r \in Files /\ r.completer = f.completer /\ r.held = f.held /\ (SetAside(f) => r = f)
        /\ ~SetAside(f) => ((r.status = "completed") <=> (p /\ b))
    BY ReconciledFile
  <2>6. client' = r
    BY <2>1, <2>2, <2>3
  <2>. HIDE DEF r
  <2>5. Paid' = Paid
    BY <2>1 DEF Paid
  <2>. QED
    BY <1>0, <1>1, <2>1, <2>2, <2>3, <2>4, <2>5, <2>6 DEF InStep
<1>3. CASE ReconcileWorkflow
  <2>1. /\ paperwork' = paperwork /\ client' = Reconciled(client, paperwork, Paid)
        /\ UNCHANGED <<ledger, account, commission, req, holder>>
    BY <1>3 DEF ReconcileWorkflow
  <2>2. PICK p \in BOOLEAN : p = Paid
    BY <1>1
  <2>3. PICK b \in BOOLEAN : b = paperwork
    BY <1>1
  <2>4. client' = Reconciled(client, b, p)
    BY <2>1, <2>2, <2>3
  <2>5. LET r == Reconciled(client, b, p) IN
        /\ r \in Files /\ r.completer = client.completer /\ r.held = client.held /\ (SetAside(client) => r = client)
    BY <1>1, ReconciledFile
  <2>. QED
    BY <1>0, <1>1, <2>1, <2>4, <2>5
<1>4. CASE InterviewPassed
  <2> DEFINE moved == [client EXCEPT !.passed = TRUE, !.status = "pre_hire_completed", !.stage = "payment_required"]
  <2>1. /\ paperwork' = paperwork
        /\ client' = IF client.held THEN [client EXCEPT !.passed = TRUE] ELSE Synced(moved, account.status = "paid")
        /\ UNCHANGED <<ledger, account, commission, req, holder>>
    BY <1>4 DEF InterviewPassed
  <2>2. moved \in Files /\ moved.completer = client.completer /\ moved.held = client.held
    BY <1>1 DEF Files, Statuses, PostHire, Stages
  <2>3. PICK p \in BOOLEAN : p = (account.status = "paid")
    BY <1>1
  <2>. HIDE DEF moved
  <2>4. LET f == Synced(moved, p) IN f \in Files /\ f.completer = moved.completer /\ f.held = moved.held
    BY <2>2, SyncedFile
  <2>5. CASE client.held
    <3>1. client' = [client EXCEPT !.passed = TRUE]
      BY <2>1, <2>5
    <3>2. /\ client' \in Files /\ client'.completer = client.completer
          /\ client'.status = client.status /\ client'.stage = client.stage
      BY <1>1, <3>1 DEF Files
    <3>. QED
      BY <1>1, <2>1, <2>5, <3>2
  <2>6. CASE ~client.held
    BY <1>1, <2>1, <2>2, <2>3, <2>4, <2>6
  <2>. QED
    BY <2>5, <2>6
<1>5. CASE SubmitReview
  BY <1>1, <1>5 DEF SubmitReview, Files
<1>9. CASE NotInterested
  BY <1>1, <1>9 DEF NotInterested, Files, Statuses, Stages
<1>10. CASE CancelFile
  BY <1>1, <1>10 DEF CancelFile, Files, Statuses
<1>6. ASSUME NEW c \in Files, NEW route \in Routes
      PROVE  /\ Moved(c, route) \in Files /\ Moved(c, route).completer = c.completer
             /\ Moved(c, route).held = c.held
  <2>1. route[1] \in Statuses /\ route[2] \in Stages
    BY <1>6 DEF Routes, Statuses, PostHire, Stages
  <2>. QED
    BY <1>6, <2>1 DEF Moved, Files
<1>7. CASE ResolveReview
  <2> DEFINE c == [client EXCEPT !.held = FALSE]
  <2>1. c \in Files /\ c.completer = client.completer /\ c.held = FALSE
    BY <1>1 DEF Files
  <2>2. /\ paperwork' = paperwork /\ UNCHANGED <<ledger, account, commission, req, holder>>
        /\ client' = c \/ \E route \in Routes : client' = Moved(c, route)
    BY <1>7 DEF ResolveReview
  <2>. HIDE DEF c
  <2>3. client' \in Files /\ client'.completer = client.completer /\ ~client'.held
    BY <1>6, <2>1, <2>2
  <2>. QED
    BY <1>1, <2>2, <2>3
<1>8. CASE MoveClient
  <2>1. /\ paperwork' = paperwork /\ UNCHANGED <<ledger, account, commission, req, holder>>
        /\ ~client.held /\ \E route \in Routes : client' = Moved(client, route)
    BY <1>8 DEF MoveClient
  <2>. QED
    BY <1>1, <1>6, <2>1
<1>. QED
  BY <1>2, <1>3, <1>4, <1>5, <1>7, <1>8, <1>9, <1>10 DEF Desk

LEMMA DeskKeeps ==
  ASSUME AccInv, Desk
  PROVE  AccInv'
<1>. USE DEF AccInv
<1>1. /\ client' \in Files /\ client'.completer = client.completer /\ paperwork' \in BOOLEAN
      /\ UNCHANGED <<ledger, account, commission, req, holder>>
  BY DeskFile
<1>2. AccTypeOK'
  BY <1>1 DEF AccTypeOK, Files
<1>3. FirstRowHeld' /\ CompletionCleared' /\ CommissionNamed'
  BY <1>1 DEF FirstRowHeld, CompletionCleared, CommissionNamed, Running, AllHeld, Wanted, Overruled, HasLive
<1>4. CommissionFollowsPayment' /\ PaidHasEarned'
  BY <1>1 DEF CommissionFollowsPayment, PaidHasEarned, HasLive, Paid
<1>. QED
  BY <1>2, <1>3, <1>4

----------------------------------------------------------------------------
(* The theorems.                                                           *)

\* Every step keeps the invariant.
LEMMA NextKeeps == AccInv /\ [Next]_vars => AccInv'
<1> SUFFICES ASSUME AccInv, [Next]_vars PROVE AccInv'
  OBVIOUS
<1>1. ASSUME NEW s \in Sessions, Begin(s) \/ Work(s) PROVE AccInv'
  BY <1>1, BeginKeeps, AcquireKeeps, RefusingKeeps, SettlingKeeps, UpdateCommissionKeeps
     DEF Work, Refusing, Settling
<1>2. CASE Desk
  BY <1>2, DeskKeeps
<1>3. CASE UNCHANGED vars
  BY <1>3 DEF vars, AccInv, AccTypeOK, FirstRowHeld, CompletionCleared, CommissionNamed, Running, AllHeld,
     Wanted, Overruled, HasLive, CommissionFollowsPayment, PaidHasEarned, Paid
<1>. QED
  BY <1>1, <1>2, <1>3 DEF Next

THEOREM AccInvariant == Spec => []AccInv
  BY InitAccInv, NextKeeps, PTL DEF Spec

\* Rows have their types, and only running transactions hold locks.
THEOREM AccTypes == Spec => []AccTypeOK
<1>1. AccInv => AccTypeOK
  BY DEF AccInv
<1>. QED
  BY <1>1, AccInvariant, PTL

\* However payments, refunds, discounts, completions and decisions overlap, a
\* live commission stands on a paid account and belongs to its completer.
THEOREM CommissionSound == Spec => []CommissionFollowsPayment
<1>1. AccInv => CommissionFollowsPayment
  BY DEF AccInv
<1>. QED
  BY <1>1, AccInvariant, PTL

\* A paid account whose completer has a rule has had its commission.
THEOREM CommissionEarned == Spec => []PaidHasEarned
<1>1. AccInv => PaidHasEarned
  BY DEF AccInv
<1>. QED
  BY <1>1, AccInvariant, PTL

\* What any step means for the file.
LEMMA StepFile ==
  ASSUME AccInv, Next
  PROVE  /\ client.held /\ client'.held => client'.status = client.status /\ client'.stage = client.stage
         /\ EvidenceChanges =>
              IF SetAside(client) THEN client'.status = client.status /\ client'.stage = client.stage ELSE InStep'
<1>0. client.held => SetAside(client)
  BY DEF SetAside
<1>1. CASE Desk
  BY <1>1, DeskFile DEF AccInv, EvidenceChanges
<1>2. ASSUME NEW s \in Sessions, Settling(s)
      PROVE  /\ SetAside(client) => client'.status = client.status /\ client'.stage = client.stage
             /\ ~SetAside(client) => InStep'
  <2>1. PICK l \in [Keys -> Entries \cup {None}], d \in 0..Fee, who \in Staff \cup {None}, refund \in BOOLEAN :
          Settle(l, d, who, refund)
    BY <1>2, SettlingIs
  <2>2. /\ SetAside(client) => client' = [client EXCEPT !.completer = who]
        /\ ~SetAside(client) => ((client'.status = "completed") <=> (Paid' /\ paperwork))
        /\ paperwork' = paperwork
    BY <2>1, SettleFacts DEF AccInv
  <2>3. client \in Files
    BY DEF AccInv, AccTypeOK, Files
  <2>. QED
    BY <2>2, <2>3 DEF Files, InStep
<1>3. ASSUME NEW s \in Sessions, Begin(s) \/ Acquire(s) \/ Refusing(s) \/ UpdateCommission(s)
      PROVE  UNCHANGED <<ledger, account, paperwork, client>>
  BY <1>3 DEF Begin, Acquire, Refusing, CompletionRefused, MoneyRefused, DeadlockAbort, UpdateCommission
<1>. QED
  BY <1>0, <1>1, <1>2, <1>3 DEF Next, Work, Settling, Refusing, EvidenceChanges

\* Whatever is recorded or decided meanwhile, a held file keeps its place.
THEOREM HoldRespected == Spec => HeldFileStays
<1>1. AccInv /\ [Next]_vars
        => [client.held /\ client'.held => client'.status = client.status /\ client'.stage = client.stage]_vars
  BY StepFile DEF vars
<1>. QED
  BY <1>1, AccInvariant, PTL DEF Spec, HeldFileStays

\* Ledger, account and paperwork leave a file in step, however far it was out of
\* it, and one that is held or cancelled where it is.
THEOREM FilesInStep == Spec => InStepUnlessSetAside
<1>1. AccInv /\ [Next]_vars
        => [EvidenceChanges => IF SetAside(client) THEN client'.status = client.status /\ client'.stage = client.stage
                               ELSE InStep']_vars
  BY StepFile DEF vars, EvidenceChanges
<1>. QED
  BY <1>1, AccInvariant, PTL DEF Spec, InStepUnlessSetAside

----------------------------------------------------------------------------
(* Refunds.                                                                *)

Ledgers        == [Keys -> Entries \cup {None}]
Refunds(l, k)  == {r \in Recorded(l) : l[r].type = "refund" /\ l[r].of = k}
Grown(l, k, e) == [l EXCEPT ![k] = e]
AmountsOf(l)   == [k \in Keys |-> l[k].amount]
RefundedIn(l, k) == MapThenSumSet(LAMBDA r : l[r].amount, Refunds(l, k))

\* Only payments that are in the ledger have been refunded.
RefundsNamePayments ==
  \A r \in Recorded(ledger) : ledger[r].type = "refund" =>
    ledger[r].of \in Recorded(ledger) /\ ledger[ledger[r].of].type = "payment"

RefundInv == IsFiniteSet(Recorded(ledger)) /\ RefundsNamePayments /\ RefundsBounded

\* What is in a ledger is an entry, and its amount a number.
LEMMA RecordedEntry ==
  ASSUME NEW l \in Ledgers, NEW k \in Recorded(l)
  PROVE  k \in Keys /\ l[k] \in Entries /\ l[k].amount \in Nat /\ AmountsOf(l)[k] = l[k].amount
BY AccountingAssumption DEF Ledgers, Recorded, Entries, AmountsOf

\* What was refunded of a payment is a sum in the sense of SetSums.
LEMMA RefundedTotal ==
  ASSUME NEW l \in Ledgers, IsFiniteSet(Recorded(l)), NEW k
  PROVE  RefundedIn(l, k) = Total(AmountsOf(l), Refunds(l, k))
<1> DEFINE R == Refunds(l, k)
<1>1. IsFiniteSet(R) /\ R \subseteq Recorded(l)
  BY FS_Subset DEF Refunds
<1>2. \A r \in R : AmountsOf(l)[r] = l[r].amount /\ l[r].amount \in Int
  BY <1>1, RecordedEntry
<1>3. PICK g \in [SUBSET R -> Int] : Sums(g, AmountsOf(l), R)
  BY <1>1, <1>2, SumsExist
<1> DEFINE Sum(h) == h = [s \in SUBSET R |-> IF s = {} THEN 0 ELSE l[Pick(s)].amount + h[s \ {Pick(s)}]]
<1>4. \A h : Sum(h) <=> Sums(h, AmountsOf(l), R)
  <2>1. \A s \in SUBSET R : s # {} => AmountsOf(l)[Pick(s)] = l[Pick(s)].amount
    BY <1>2, Picked
  <2> HIDE DEF R
  <2> QED
    BY <2>1 DEF Sums, Body
<1>5. \E h : Sum(h) /\ RefundedIn(l, k) = h[R]
  <2>1. Sum(g)
    BY <1>3, <1>4
  <2> QED
    BY <2>1 DEF RefundedIn, MapThenSumSet, MapThenFoldSet, Pick
<1>6. PICK h : Sum(h) /\ RefundedIn(l, k) = h[R]
  BY <1>5
<1>7. Sums(h, AmountsOf(l), R)
  BY <1>4, <1>6
<1> HIDE DEF R
<1>8. Total(AmountsOf(l), R) = h[R]
  BY <1>1, <1>2, <1>7, TotalOf
<1> QED
  BY <1>6, <1>8 DEF R

\* The ledger only grows, by one accepted entry at a time.
LEMMA LedgerStep ==
  ASSUME AccTypeOK, Next
  PROVE  \/ ledger' = ledger
         \/ \E k \in Keys, e \in Entries :
              ledger[k] = None /\ e # None /\ Acceptable(e) /\ ledger' = Grown(ledger, k, e)
<1>1. ASSUME NEW s \in Sessions, RecordTransaction(s)
      PROVE  \/ ledger' = ledger
             \/ \E k \in Keys, e \in Entries :
                  ledger[k] = None /\ e # None /\ Acceptable(e) /\ ledger' = Grown(ledger, k, e)
  <2>1. PICK k \in Keys, e \in Entries :
          /\ Acceptable(e)
          /\ ledger' = IF ledger[k] = None THEN [ledger EXCEPT ![k] = e] ELSE ledger
    BY <1>1 DEF RecordTransaction, Settle
  <2>2. CASE ledger[k] = None /\ e # None
    BY <2>1, <2>2 DEF Grown
  <2>3. CASE ledger[k] = None /\ e = None
    BY <2>1, <2>3 DEF AccTypeOK
  <2>4. CASE ledger[k] # None
    BY <2>1, <2>4
  <2> QED
    BY <2>2, <2>3, <2>4
<1>2. ASSUME NEW s \in Sessions, ApplyDiscount(s) \/ RecordCompletion(s) PROVE ledger' = ledger
  BY <1>2 DEF ApplyDiscount, RecordCompletion, Settle
<1>3. ASSUME NEW s \in Sessions, Begin(s) \/ Acquire(s) \/ Refusing(s) \/ UpdateCommission(s)
      PROVE  ledger' = ledger
  BY <1>3 DEF Begin, Acquire, Refusing, CompletionRefused, MoneyRefused, DeadlockAbort, UpdateCommission
<1>4. CASE Desk
  BY <1>4 DEF Desk, PaperworkChanges, InterviewPassed, NotInterested, CancelFile, SubmitReview, ResolveReview,
            MoveClient, ReconcileWorkflow
<1> QED
  BY <1>1, <1>2, <1>3, <1>4 DEF Next, Work, Refusing

\* What one more entry means for the rest.
LEMMA LedgerGrows ==
  ASSUME NEW l \in Ledgers, IsFiniteSet(Recorded(l)), NEW k \in Keys, l[k] = None, NEW e \in Entries, e # None
  PROVE  /\ Grown(l, k, e) \in Ledgers /\ k \notin Recorded(l) /\ Recorded(Grown(l, k, e)) = Recorded(l) \cup {k}
         /\ IsFiniteSet(Recorded(Grown(l, k, e)))
         /\ Grown(l, k, e)[k] = e /\ \A r \in Recorded(l) : Grown(l, k, e)[r] = l[r]
<1>1. /\ Grown(l, k, e) \in Ledgers /\ k \notin Recorded(l) /\ Recorded(Grown(l, k, e)) = Recorded(l) \cup {k}
      /\ Grown(l, k, e)[k] = e /\ \A r \in Recorded(l) : Grown(l, k, e)[r] = l[r]
  BY DEF Ledgers, Recorded, Grown
<1> QED
  BY <1>1, FS_AddElement

\* What was refunded of a payment grows by the refunds of it only.
LEMMA RefundedGrows ==
  ASSUME NEW l \in Ledgers, IsFiniteSet(Recorded(l)), NEW k \in Keys, l[k] = None, NEW e \in Entries, e # None,
         NEW p
  PROVE  /\ RefundedIn(l, p) \in Int
         /\ e.type = "refund" /\ e.of = p => RefundedIn(Grown(l, k, e), p) = RefundedIn(l, p) + e.amount
         /\ ~(e.type = "refund" /\ e.of = p) => RefundedIn(Grown(l, k, e), p) = RefundedIn(l, p)
<1> DEFINE m == Grown(l, k, e)
           R == Refunds(l, p)
           v == AmountsOf(l)
           w == AmountsOf(m)
<1>1. /\ m \in Ledgers /\ k \notin Recorded(l) /\ Recorded(m) = Recorded(l) \cup {k}
      /\ IsFiniteSet(Recorded(m)) /\ m[k] = e /\ \A r \in Recorded(l) : m[r] = l[r]
  BY LedgerGrows
<1> HIDE DEF m
<1>2. R \subseteq Recorded(l) /\ IsFiniteSet(R)
  BY FS_Subset DEF Refunds
<1>3. \A r \in Recorded(l) : v[r] \in Int /\ v[r] = w[r]
  BY <1>1, RecordedEntry
<1>4. w[k] = e.amount /\ e.amount \in Int
  BY <1>1, RecordedEntry
<1>5. RefundedIn(l, p) = Total(v, R) /\ RefundedIn(m, p) = Total(w, Refunds(m, p))
  BY <1>1, RefundedTotal
<1>6. k \notin R /\ \A r \in R \cup {k} : w[r] \in Int
  BY <1>1, <1>2, <1>3, <1>4
<1>7. \A r \in R : v[r] \in Int /\ v[r] = w[r]
  BY <1>2, <1>3
<1>8. Refunds(m, p) = IF e.type = "refund" /\ e.of = p THEN R \cup {k} ELSE R
  BY <1>1 DEF Refunds
<1> HIDE DEF R, v, w
<1>9. Total(v, R) \in Int /\ Total(v, R) = Total(w, R)
  BY <1>2, <1>7, TotalType, TotalSame
<1>10. Total(w, R \cup {k}) = Total(w, R) + w[k]
  BY <1>2, <1>6, TotalAdd
<1> QED
  BY <1>4, <1>5, <1>8, <1>9, <1>10 DEF m

\* Nothing was refunded of what is not in the ledger.
LEMMA NothingRefunded ==
  ASSUME ledger \in Ledgers, RefundInv, NEW k, k \notin Recorded(ledger)
  PROVE  RefundedIn(ledger, k) = 0
<1>1. Refunds(ledger, k) = {}
  BY DEF RefundInv, RefundsNamePayments, Refunds
<1> QED
  BY <1>1, RefundedTotal, TotalEmpty DEF RefundInv

LEMMA RefundedHere == \A k : Refunded(k) = RefundedIn(ledger, k)
BY DEF Refunded, RefundedIn, Refunds

LEMMA RefundedThere == \A k : Refunded(k)' = RefundedIn(ledger', k)
<1>1. (\A k : Refunded(k) = RefundedIn(ledger, k))'
  BY RefundedHere, PTL
<1> QED
  BY <1>1

LEMMA RefundStep == AccInv /\ RefundInv /\ [Next]_vars => RefundInv'
<1> SUFFICES ASSUME AccInv, RefundInv, [Next]_vars PROVE RefundInv'
  OBVIOUS
<1>1. ledger \in Ledgers /\ IsFiniteSet(Recorded(ledger))
  BY DEF AccInv, AccTypeOK, Ledgers, RefundInv
<1>2. CASE ledger' = ledger
  BY <1>2, RefundedHere, RefundedThere DEF RefundInv, RefundsNamePayments, RefundsBounded, Recorded
<1>3. ASSUME NEW k \in Keys, NEW e \in Entries, ledger[k] = None, e # None, Acceptable(e),
             ledger' = Grown(ledger, k, e)
      PROVE  RefundInv'
  <2>1. /\ ledger' \in Ledgers /\ k \notin Recorded(ledger) /\ Recorded(ledger') = Recorded(ledger) \cup {k}
        /\ IsFiniteSet(Recorded(ledger')) /\ ledger'[k] = e
        /\ \A r \in Recorded(ledger) : ledger'[r] = ledger[r]
    BY <1>1, <1>3, LedgerGrows
  <2>2. e.type = "refund" => /\ e.of \in Recorded(ledger) /\ ledger[e.of].type = "payment"
                             /\ RefundedIn(ledger, e.of) + e.amount <= ledger[e.of].amount
    BY <1>3, RefundedHere DEF Acceptable, Refundable
  <2>3. RefundsNamePayments'
    BY <2>1, <2>2 DEF RefundInv, RefundsNamePayments, Recorded
  <2>4. ASSUME NEW p \in Recorded(ledger'), ledger'[p].type = "payment"
        PROVE  RefundedIn(ledger', p) <= ledger'[p].amount
    <3>1. /\ RefundedIn(ledger, p) \in Int
          /\ e.type = "refund" /\ e.of = p => RefundedIn(ledger', p) = RefundedIn(ledger, p) + e.amount
          /\ ~(e.type = "refund" /\ e.of = p) => RefundedIn(ledger', p) = RefundedIn(ledger, p)
      BY <1>1, <1>3, RefundedGrows
    <3>2. CASE p = k
      <4>1. RefundedIn(ledger, p) = 0
        BY <1>1, <2>1, <3>2, NothingRefunded
      <4>2. e.amount \in Nat
        BY AccountingAssumption DEF Entries
      <4> QED
        BY <2>1, <2>4, <3>1, <3>2, <4>1, <4>2
    <3>3. CASE p \in Recorded(ledger)
      <4>1. RefundedIn(ledger, p) <= ledger[p].amount
        BY <2>1, <2>4, <3>3, RefundedHere DEF RefundInv, RefundsBounded
      <4> QED
        BY <2>1, <2>2, <3>1, <3>3, <4>1
    <3> QED
      BY <2>1, <3>2, <3>3
  <2>5. RefundsBounded'
    BY <2>4, RefundedThere DEF RefundsBounded, Recorded
  <2>6. IsFiniteSet(Recorded(ledger))'
    BY <2>1 DEF Recorded
  <2> QED
    BY <2>3, <2>5, <2>6 DEF RefundInv
<1>4. CASE UNCHANGED vars
  BY <1>2, <1>4 DEF vars
<1> QED
  BY <1>2, <1>3, <1>4, LedgerStep DEF AccInv

LEMMA InitRefundInv == Init => RefundInv
<1> SUFFICES ASSUME Init PROVE RefundInv
  OBVIOUS
<1>1. Recorded(ledger) = {}
  BY DEF Init, Recorded
<1> QED
  BY <1>1, FS_EmptySet DEF RefundInv, RefundsNamePayments, RefundsBounded

THEOREM RefundInvariant == Spec => []RefundInv
BY InitRefundInv, RefundStep, AccInvariant, PTL DEF Spec

\* The refunds of a payment together never exceed it, however many there are,
\* whoever records them and however often one is sent.
THEOREM RefundsWithinPayment == Spec => []RefundsBounded
<1>1. RefundInv => RefundsBounded
  BY DEF RefundInv
<1> QED
  BY <1>1, RefundInvariant, PTL

----------------------------------------------------------------------------
(* What the balance is made of.                                            *)

Signed(l)    == [k \in Keys |-> IF l[k].credit THEN l[k].amount ELSE -l[k].amount]
OfType(l, t) == {k \in Recorded(l) : l[k].type = t}
Adjusted(l)  == Total(Signed(l), OfType(l, "adjustment"))
\* What is left of a payment after its refunds.
Left(l)      == [k \in Keys |-> l[k].amount - RefundedIn(l, k)]
PaidLeft(l)  == Total(Left(l), OfType(l, "payment"))

\* The balance is what adjustments make it, and what is left of the payments.
CreditsAccounted ==
  NetCredits(ledger) = Adjusted(ledger) + PaidLeft(ledger)

\* Only adjustments can make a balance negative: refunds never take more than
\* payments brought.
PaymentsCoverRefunds == Adjusted(ledger) <= NetCredits(ledger)

\* The net credit is a sum in the sense of SetSums.
LEMMA CreditsTotal ==
  ASSUME NEW l \in Ledgers, IsFiniteSet(Recorded(l))
  PROVE  NetCredits(l) = Total(Signed(l), Recorded(l)) /\ \A r \in Recorded(l) : Signed(l)[r] \in Int
<1> DEFINE R == Recorded(l)
           V(k) == IF l[k].credit THEN l[k].amount ELSE -l[k].amount
<1>1. \A r \in R : Signed(l)[r] = V(r) /\ Signed(l)[r] \in Int
  <2> TAKE r \in R
  <2>1. r \in Keys /\ l[r].amount \in Nat
    BY RecordedEntry
  <2>2. Signed(l)[r] = V(r)
    BY <2>1 DEF Signed
  <2> QED
    BY <2>1, <2>2
<1>2. PICK g \in [SUBSET R -> Int] : Sums(g, Signed(l), R)
  BY <1>1, SumsExist
<1> DEFINE Sum(h) == h = [s \in SUBSET R |-> IF s = {} THEN 0 ELSE V(Pick(s)) + h[s \ {Pick(s)}]]
<1>3. \A h : Sum(h) <=> Sums(h, Signed(l), R)
  <2>1. \A s \in SUBSET R : s # {} => Signed(l)[Pick(s)] = V(Pick(s))
    BY <1>1, Picked
  <2> HIDE DEF R, V
  <2> QED
    BY <2>1 DEF Sums, Body
<1>4. \E h : Sum(h) /\ NetCredits(l) = h[R]
  <2>1. Sum(g)
    BY <1>2, <1>3
  <2> QED
    BY <2>1 DEF NetCredits, MapThenSumSet, MapThenFoldSet, Pick
<1>5. PICK h : Sum(h) /\ NetCredits(l) = h[R]
  BY <1>4
<1>6. Sums(h, Signed(l), R)
  BY <1>3, <1>5
<1> HIDE DEF R, V
<1>7. Total(Signed(l), R) = h[R]
  BY <1>1, <1>6, TotalOf DEF R
<1> QED
  BY <1>1, <1>5, <1>7 DEF R

\* One entry moves the net credit by its amount, the other sums not at all.
LEMMA CreditsGrow ==
  ASSUME NEW l \in Ledgers, IsFiniteSet(Recorded(l)), NEW k \in Keys, l[k] = None, NEW e \in Entries, e # None
  PROVE  LET m == Grown(l, k, e)
             x == IF e.credit THEN e.amount ELSE -e.amount
         IN  /\ NetCredits(l) \in Int /\ NetCredits(m) = NetCredits(l) + x
             /\ Adjusted(l) \in Int
             /\ Adjusted(m) = IF e.type = "adjustment" THEN Adjusted(l) + x ELSE Adjusted(l)
<1> DEFINE m == Grown(l, k, e)
           x == IF e.credit THEN e.amount ELSE -e.amount
           R == Recorded(l)
           A == OfType(l, "adjustment")
           v == Signed(l)
           w == Signed(m)
<1>1. /\ m \in Ledgers /\ k \notin R /\ Recorded(m) = R \cup {k}
      /\ IsFiniteSet(Recorded(m)) /\ m[k] = e /\ \A r \in R : m[r] = l[r]
  BY LedgerGrows
<1>2. x \in Int
  <2>1. e.amount \in Nat
    BY AccountingAssumption DEF Entries
  <2> QED
    BY <2>1
<1> HIDE DEF m, x
<1>3. NetCredits(l) = Total(v, R) /\ NetCredits(m) = Total(w, R \cup {k}) /\ \A r \in R : v[r] \in Int
  BY <1>1, CreditsTotal
<1>4. w[k] = x /\ \A r \in R : w[r] = v[r]
  BY <1>1 DEF Signed, Recorded, x
<1>5. OfType(m, "adjustment") = IF e.type = "adjustment" THEN A \cup {k} ELSE A
  BY <1>1 DEF OfType
<1>6. A \subseteq R /\ IsFiniteSet(A) /\ k \notin A
  BY <1>1, FS_Subset DEF OfType
<1>7. Adjusted(l) = Total(v, A) /\ Adjusted(m) = Total(w, OfType(m, "adjustment"))
  BY DEF Adjusted
<1> HIDE DEF R, A, v, w
<1>8. ASSUME NEW T \in SUBSET R, IsFiniteSet(T), k \notin T
      PROVE  Total(v, T) \in Int /\ Total(w, T) = Total(v, T) /\ Total(w, T \cup {k}) = Total(v, T) + x
  <2>1. \A r \in T : v[r] \in Int /\ v[r] = w[r]
    BY <1>3, <1>4
  <2>2. \A r \in T \cup {k} : w[r] \in Int
    BY <1>2, <1>4, <2>1
  <2>3. Total(v, T) \in Int /\ Total(v, T) = Total(w, T)
    BY <1>8, <2>1, TotalType, TotalSame
  <2>4. Total(w, T \cup {k}) = Total(w, T) + w[k]
    BY <1>8, <2>2, TotalAdd
  <2> QED
    BY <1>4, <2>3, <2>4
<1>9. IsFiniteSet(R) /\ k \notin R
  BY <1>1 DEF R
<1>10. Total(v, R) \in Int /\ Total(w, R \cup {k}) = Total(v, R) + x
  BY <1>8, <1>9
<1>11. Total(v, A) \in Int /\ Total(w, A) = Total(v, A) /\ Total(w, A \cup {k}) = Total(v, A) + x
  BY <1>6, <1>8
<1> QED
  BY <1>3, <1>5, <1>7, <1>10, <1>11 DEF m, x

\* Nor can one entry take more from what is left of the payments.
LEMMA LeftGrows ==
  ASSUME ledger \in Ledgers, RefundInv, NEW k \in Keys, ledger[k] = None, NEW e \in Entries, e # None,
         Acceptable(e)
  PROVE  LET l == ledger
             m == Grown(l, k, e)
         IN  /\ PaidLeft(l) \in Int
             /\ PaidLeft(m) = PaidLeft(l)
                  + CASE e.type = "payment" -> e.amount [] e.type = "refund" -> -e.amount [] OTHER -> 0
<1> DEFINE l == ledger
           m == Grown(l, k, e)
           P == OfType(l, "payment")
           v == Left(l)
           w == Left(m)
<1>1. /\ m \in Ledgers /\ k \notin Recorded(l) /\ Recorded(m) = Recorded(l) \cup {k}
      /\ IsFiniteSet(Recorded(m)) /\ m[k] = e /\ \A r \in Recorded(l) : m[r] = l[r]
  BY LedgerGrows DEF RefundInv
<1>2. \A p : /\ RefundedIn(l, p) \in Int
             /\ e.type = "refund" /\ e.of = p => RefundedIn(m, p) = RefundedIn(l, p) + e.amount
             /\ ~(e.type = "refund" /\ e.of = p) => RefundedIn(m, p) = RefundedIn(l, p)
  BY RefundedGrows DEF RefundInv
<1>3. e.amount \in Nat /\ e.type \in {"payment", "refund", "adjustment"}
  BY AccountingAssumption DEF Entries
<1>4. RefundedIn(l, k) = 0
  BY <1>1, NothingRefunded
<1>5. e.type = "refund" => e.of \in P
  BY DEF Acceptable, OfType
<1>6. P \subseteq Recorded(l) /\ IsFiniteSet(P) /\ k \notin P
  BY <1>1, FS_Subset DEF OfType, RefundInv
<1>7. OfType(m, "payment") = IF e.type = "payment" THEN P \cup {k} ELSE P
  BY <1>1 DEF OfType
<1> HIDE DEF l, m
<1>8. \A r \in P : /\ v[r] = l[r].amount - RefundedIn(l, r) /\ v[r] \in Int
                   /\ w[r] = l[r].amount - RefundedIn(m, r)
  <2> TAKE r \in P
  <2>1. r \in Keys /\ l[r].amount \in Nat
    BY <1>6, RecordedEntry DEF l
  <2>2. v[r] = l[r].amount - RefundedIn(l, r) /\ w[r] = m[r].amount - RefundedIn(m, r)
    BY <2>1 DEF Left
  <2> QED
    BY <1>1, <1>2, <1>6, <2>1, <2>2
<1>9. e.type # "refund" => w[k] = e.amount
  BY <1>1, <1>2, <1>3, <1>4 DEF Left
<1> HIDE DEF P, v, w
<1>10. Total(v, P) \in Int
  BY <1>6, <1>8, TotalType
<1>11. CASE e.type # "refund"
  <2>1. \A r \in P : v[r] \in Int /\ v[r] = w[r]
    BY <1>2, <1>8, <1>11
  <2>2. Total(v, P) = Total(w, P)
    BY <1>6, <2>1, TotalSame
  <2>3. \A r \in P \cup {k} : w[r] \in Int
    BY <1>3, <1>9, <1>11, <2>1
  <2>4. Total(w, P \cup {k}) = Total(w, P) + w[k]
    BY <1>6, <2>3, TotalAdd
  <2>5. CASE e.type = "payment"
    BY <1>7, <1>9, <1>10, <2>2, <2>4, <2>5 DEF PaidLeft, P, v, w, l, m
  <2>6. CASE e.type = "adjustment"
    BY <1>7, <1>10, <2>2, <2>6 DEF PaidLeft, P, v, w, l, m
  <2> QED
    BY <1>3, <1>11, <2>5, <2>6
<1>12. CASE e.type = "refund"
  <2> DEFINE p == e.of
  <2>1. p \in P
    BY <1>5, <1>12
  <2>2. \A r \in P : v[r] \in Int /\ (r # p => v[r] = w[r])
    BY <1>2, <1>8
  <2>3. w[p] = v[p] - e.amount /\ v[p] \in Int /\ w[p] \in Int
    <3>1. RefundedIn(m, p) = RefundedIn(l, p) + e.amount /\ RefundedIn(l, p) \in Int
      BY <1>2, <1>12
    <3>2. l[p].amount \in Nat
      BY <1>6, <2>1, RecordedEntry DEF l
    <3> QED
      BY <1>3, <1>8, <2>1, <3>1, <3>2
  <2> HIDE DEF p
  <2>4. Total(w, P) = Total(v, P) + (w[p] - v[p])
    BY <1>6, <2>1, <2>2, <2>3, TotalChange
  <2>5. Total(w, P) = Total(v, P) + (-e.amount)
    <3>1. \A a, b, c \in Int : a + ((b - c) - b) = a + (-c)
      OBVIOUS
    <3>2. Total(w, P) = Total(v, P) + ((v[p] - e.amount) - v[p]) /\ e.amount \in Int
      BY <1>3, <2>3, <2>4
    <3> QED
      BY <1>10, <2>3, <3>1, <3>2
  <2> QED
    BY <1>7, <1>10, <1>12, <2>5 DEF PaidLeft, P, v, w, l, m
<1> QED
  BY <1>11, <1>12

LEMMA CreditsStep == AccInv /\ RefundInv /\ CreditsAccounted /\ [Next]_vars => CreditsAccounted'
<1> SUFFICES ASSUME AccInv, RefundInv, CreditsAccounted, [Next]_vars PROVE CreditsAccounted'
  OBVIOUS
<1>1. ledger \in Ledgers /\ IsFiniteSet(Recorded(ledger))
  BY DEF AccInv, AccTypeOK, Ledgers, RefundInv
<1>2. CASE ledger' = ledger
  BY <1>2 DEF CreditsAccounted
<1>3. ASSUME NEW k \in Keys, NEW e \in Entries, ledger[k] = None, e # None, Acceptable(e),
             ledger' = Grown(ledger, k, e)
      PROVE  CreditsAccounted'
  <2> DEFINE x == IF e.credit THEN e.amount ELSE -e.amount
             y == CASE e.type = "payment" -> e.amount [] e.type = "refund" -> -e.amount [] OTHER -> 0
  <2>1. /\ NetCredits(ledger) \in Int /\ NetCredits(ledger') = NetCredits(ledger) + x
        /\ Adjusted(ledger) \in Int
        /\ Adjusted(ledger') = IF e.type = "adjustment" THEN Adjusted(ledger) + x ELSE Adjusted(ledger)
    BY <1>1, <1>3, CreditsGrow
  <2>2. PaidLeft(ledger) \in Int /\ PaidLeft(ledger') = PaidLeft(ledger) + y
    BY <1>1, <1>3, LeftGrows
  <2>3. e.amount \in Nat /\ e.type \in {"payment", "refund", "adjustment"}
    BY AccountingAssumption DEF Entries
  <2>4. (e.type = "payment" => x = e.amount) /\ (e.type = "refund" => x = -e.amount)
    BY <1>3 DEF Acceptable
  <2>5. x \in Int
    BY <2>3
  <2>6. NetCredits(ledger) = Adjusted(ledger) + PaidLeft(ledger)
    BY DEF CreditsAccounted
  <2>7. /\ e.type = "payment" => y = e.amount
        /\ e.type = "refund" => y = -e.amount
        /\ e.type = "adjustment" => y = 0
    OBVIOUS
  <2> HIDE DEF x, y
  <2>8. NetCredits(ledger') = Adjusted(ledger') + PaidLeft(ledger')
    <3>1. CASE e.type = "adjustment"
      BY <2>1, <2>2, <2>5, <2>6, <2>7, <3>1
    <3>2. CASE e.type # "adjustment"
      BY <2>1, <2>2, <2>3, <2>4, <2>5, <2>6, <2>7, <3>2
    <3> QED
      BY <3>1, <3>2
  <2> QED
    BY <2>8 DEF CreditsAccounted
<1>4. CASE UNCHANGED vars
  BY <1>2, <1>4 DEF vars
<1> QED
  BY <1>2, <1>3, <1>4, LedgerStep DEF AccInv

LEMMA InitCredits == Init => CreditsAccounted
<1> SUFFICES ASSUME Init PROVE CreditsAccounted
  OBVIOUS
<1>1. ledger \in Ledgers /\ Recorded(ledger) = {} /\ IsFiniteSet(Recorded(ledger))
  BY FS_EmptySet DEF Init, Ledgers, Recorded
<1>2. OfType(ledger, "payment") = {} /\ OfType(ledger, "adjustment") = {}
  BY <1>1 DEF OfType
<1>3. NetCredits(ledger) = Total(Signed(ledger), {})
  BY <1>1, CreditsTotal
<1> QED
  BY <1>2, <1>3, TotalEmpty DEF CreditsAccounted, Adjusted, PaidLeft

\* What a payment has left is never negative, so their sum is not.
LEMMA LeftNatural ==
  ASSUME ledger \in Ledgers, RefundInv
  PROVE  PaidLeft(ledger) \in Nat
<1> DEFINE P == OfType(ledger, "payment")
<1>1. P \subseteq Recorded(ledger) /\ IsFiniteSet(P)
  BY FS_Subset DEF OfType, RefundInv
<1>2. \A p \in P : Left(ledger)[p] \in Nat
  <2> TAKE p \in P
  <2>1. p \in Keys /\ ledger[p].amount \in Nat
    BY <1>1, RecordedEntry
  <2>2. Left(ledger)[p] = ledger[p].amount - RefundedIn(ledger, p)
    BY <2>1 DEF Left
  <2>3. RefundedIn(ledger, p) <= ledger[p].amount
    BY <1>1, RefundedHere DEF RefundInv, RefundsBounded, OfType
  <2>4. RefundedIn(ledger, p) \in Int
    <3>1. RefundedIn(ledger, p) = Total(AmountsOf(ledger), Refunds(ledger, p))
      BY RefundedTotal DEF RefundInv
    <3>2. Refunds(ledger, p) \subseteq Recorded(ledger) /\ IsFiniteSet(Refunds(ledger, p))
      BY FS_Subset DEF Refunds, RefundInv
    <3>3. \A r \in Refunds(ledger, p) : AmountsOf(ledger)[r] \in Int
      BY <3>2, RecordedEntry
    <3> QED
      BY <3>1, <3>2, <3>3, TotalType
  <2> QED
    BY <2>1, <2>2, <2>3, <2>4
<1> HIDE DEF P
<1>3. Total(Left(ledger), P) \in Nat
  BY <1>1, <1>2, TotalBounds
<1> QED
  BY <1>3 DEF PaidLeft, P

\* The balance is what adjustments make it and what refunds left of the payments.
THEOREM BalanceExplained == Spec => []CreditsAccounted
BY InitCredits, CreditsStep, AccInvariant, RefundInvariant, PTL DEF Spec

\* Whatever is recorded in whatever order, refunds never take more than
\* payments brought: only adjustments can make a balance negative.
THEOREM RefundsCovered == Spec => []PaymentsCoverRefunds
<1>1. AccInv /\ RefundInv /\ CreditsAccounted => PaymentsCoverRefunds
  <2> SUFFICES ASSUME AccInv, RefundInv, CreditsAccounted PROVE PaymentsCoverRefunds
    OBVIOUS
  <2>1. ledger \in Ledgers /\ IsFiniteSet(Recorded(ledger))
    BY DEF AccInv, AccTypeOK, Ledgers, RefundInv
  <2>2. PaidLeft(ledger) \in Nat
    BY <2>1, LeftNatural
  <2>3. Adjusted(ledger) \in Int
    <3>1. OfType(ledger, "adjustment") \subseteq Recorded(ledger) /\ IsFiniteSet(OfType(ledger, "adjustment"))
      BY <2>1, FS_Subset DEF OfType
    <3>2. \A r \in OfType(ledger, "adjustment") : Signed(ledger)[r] \in Int
      BY <2>1, <3>1, CreditsTotal
    <3> QED
      BY <3>1, <3>2, TotalType DEF Adjusted
  <2> QED
    BY <2>2, <2>3 DEF CreditsAccounted, PaymentsCoverRefunds
<1> QED
  BY <1>1, AccInvariant, RefundInvariant, BalanceExplained, PTL
=============================================================================
