----------------------------- MODULE Accounting -----------------------------
(***************************************************************************)
(* The money of one client: the account with its append-only ledger, the   *)
(* commission earned from it, the record of who completed the application, *)
(* and where the file stands in the workflow after the interview.          *)
(*                                                                         *)
(* Each request is one database transaction.  Its statements lock rows,    *)
(* and its writes are seen by nobody before it commits; the model takes    *)
(* the locks one at a time and makes all writes at the commit.  A money    *)
(* operation locks the account and then the client, a completion the       *)
(* client and then the account, so the database may have to abort one.     *)
(* Operations that lock the client alone are single steps.                 *)
(*                                                                         *)
(* A waiver is an adjustment that credits; only refunds name a payment.    *)
(* "earlier" stands for every status before an interview is passed,        *)
(* screening_pending for the later post-hire statuses that payment does    *)
(* not move.  Deleted clients are not modelled.                            *)
(***************************************************************************)
EXTENDS Integers, Sequences, FiniteSetsExt

CONSTANTS
  None, Sessions,
  Staff,      \* who may complete an application
  Managers,   \* staff of role admin or manager; the client is assigned to the others
  Ruled,      \* staff with an active commission rule
  Keys,       \* idempotency keys; bound: transactions recorded
  Fee, Amounts

ASSUME AccountingAssumption ==
  /\ Managers \subseteq Staff /\ Ruled \subseteq Staff
  /\ Fee \in Nat /\ Amounts \subseteq Nat \ {0}
  /\ None \notin Staff \cup Keys \cup Sessions

Rows     == {"account", "client", "commission"}
PostHire == {"pre_hire_completed", "screening_pending", "post_hire_tasks"}
Statuses == PostHire \cup {"earlier", "completed", "cancelled"}
\* "elsewhere": the stages before the interview and archive_not_interested.
Stages   == {"elsewhere", "payment_required", "post_interview_completion", "completed_files"}
Routes   == {<<"earlier", "elsewhere">>, <<"pre_hire_completed", "payment_required">>,
             <<"screening_pending", "post_interview_completion">>, <<"completed", "completed_files">>}
Entries  == [type : {"payment", "refund", "adjustment"}, credit : BOOLEAN,
             amount : Amounts, of : Keys \cup {None}]

VARIABLES
  ledger,      \* payment_transactions, by idempotency key
  account,     \* client_accounts: discount_amount and the projected payment_status
  client,      \* clients: the completer, the workflow position, passed interview, manager's hold
  paperwork,   \* post_hire_complete: every post-hire item is done
  commission,  \* commissions, trigger_event account_paid
  req,         \* the transactions under way
  holder       \* who holds each row's lock

vars == <<ledger, account, client, paperwork, commission, req, holder>>

----------------------------------------------------------------------------
(* The ledger and what is projected from it.                               *)

Recorded(l) == {k \in Keys : l[k] # None}
NetFee(d)   == Fee - d
NetCredits(l) ==
  MapThenSumSet(LAMBDA k : IF l[k].credit THEN l[k].amount ELSE -l[k].amount, Recorded(l))

\* client_account_balances.payment_status
BalanceStatus(l, a) ==
  LET credits == NetCredits(l)
  IN  CASE a.status = "refunded" /\ credits <= 0 -> "refunded"
        [] credits >= NetFee(a.discount)         -> "paid"
        [] credits <= 0                          -> "unpaid"
        [] OTHER                                 -> "partially_paid"

Paid == BalanceStatus(ledger, account) = "paid"

\* The status reconcileAccount writes; a refunded account stays refunded.
Projected(l, d, refund) ==
  LET credits == NetCredits(l)
  IN  CASE NetFee(d) <= credits                         -> "paid"
        [] NetFee(d) > credits /\ credits <= 0
             /\ (refund \/ account.status = "refunded") -> "refunded"
        [] OTHER                                        -> "pending"

\* What was refunded of the payment k.
Refunded(k) == MapThenSumSet(LAMBDA r : ledger[r].amount,
                 {r \in Recorded(ledger) : ledger[r].type = "refund" /\ ledger[r].of = k})

\* (Mutant of Refundable: only the refund at hand is held against the payment.)
RefundableAlone(e) == e.amount <= ledger[e.of].amount

\* Tested before the idempotency key: a refund sent again counts itself.
Refundable(e) == Refunded(e.of) + e.amount <= ledger[e.of].amount

\* What record_transaction accepts.
Acceptable(e) ==
  /\ e.credit = CASE e.type = "payment" -> TRUE [] e.type = "refund" -> FALSE [] OTHER -> e.credit
  /\ (e.type = "refund") = (e.of # None)
  /\ e.type = "refund" => e.of \in Recorded(ledger) /\ ledger[e.of].type = "payment"
  /\ e.type = "refund" => Refundable(e)

----------------------------------------------------------------------------
(* The file's position, which follows payment and paperwork.               *)

\* What the evidence does not move: a manager holds the file, or it was cancelled.
SetAside(c) == c.held \/ c.status = "cancelled"

\* (Mutant of Reconciled: a file in the manager's hands is moved as well.)
ReconciledHeld(c, complete, paid) ==
  CASE complete /\ paid -> [c EXCEPT !.status = "completed", !.stage = "completed_files"]
    [] ~(complete /\ paid) /\ (complete \/ c.status = "completed") ->
         [c EXCEPT !.status = "post_hire_tasks",
                   !.stage = IF paid THEN "post_interview_completion" ELSE "payment_required"]
    [] OTHER -> c

\* (Mutant of Reconciled: a completed file is never taken back.)
ReconciledUpwards(c, complete, paid) ==
  IF complete /\ ~SetAside(c)
  THEN [c EXCEPT !.status = IF paid THEN "completed" ELSE @, !.stage = IF paid THEN "completed_files" ELSE @]
  ELSE c

\* reconcile_client_completion, run by the triggers on accounts and items.
Reconciled(c, complete, paid) ==
  CASE SetAside(c) -> c
    [] ~SetAside(c) /\ complete /\ paid -> [c EXCEPT !.status = "completed", !.stage = "completed_files"]
    [] ~SetAside(c) /\ ~(complete /\ paid) /\ (complete \/ c.status = "completed") ->
         [c EXCEPT !.status = "post_hire_tasks",
                   !.stage = IF paid THEN "post_interview_completion" ELSE "payment_required"]
    [] OTHER -> c

\* syncPostPaymentLifecycle
Synced(c, paid) ==
  IF c.status \in PostHire /\ c.passed /\ ~c.held
  THEN [c EXCEPT !.status = IF paid /\ @ = "pre_hire_completed" THEN "screening_pending" ELSE @,
                 !.stage  = IF paid THEN "post_interview_completion" ELSE "payment_required"]
  ELSE c

----------------------------------------------------------------------------
(* The commission.                                                         *)

Live == {"eligible", "approved", "paid"}
Transitions == [eligible |-> {"approved", "cancelled"}, approved |-> {"paid", "cancelled"},
                paid |-> {"reversed"}, cancelled |-> {}, reversed |-> {}]

Commissions == [owner : Staff, status : Live \cup {"cancelled", "reversed"}]

HasLive == commission # None /\ commission.status \in Live

\* (Mutant of Earned: only the operation that turns the account paid earns one.)
EarnedByTurn(owner) ==
  IF commission = None /\ owner \in Ruled /\ ~Paid THEN [owner |-> owner, status |-> "eligible"] ELSE commission

\* One row for each account, for ever: the insert does nothing on conflict.
Earned(owner) ==
  IF commission = None /\ owner \in Ruled THEN [owner |-> owner, status |-> "eligible"] ELSE commission

\* (Mutant of Reversed: what was already paid out is not reversed.)
ReversedUnpaid == IF HasLive /\ commission.status # "paid" THEN [commission EXCEPT !.status = "reversed"] ELSE commission

Reversed == IF HasLive THEN [commission EXCEPT !.status = "reversed"] ELSE commission

\* clients_application_completion_guard refuses this completion.
Overruled(s) == client.completer \notin {None, req[s].who} /\ HasLive

----------------------------------------------------------------------------
(* Transactions and their locks.                                           *)

\* A money request records a transaction or sets the discount.
LockOrder == [money |-> <<"account", "client">>, complete |-> <<"client", "account">>,
              commission |-> <<"commission", "client">>]
Request == [op : {"money", "complete", "commission"}, by : Staff, who : Staff \cup {None}]

ASSUME NoneAssumption == None \notin Request \cup Commissions

Running(s, op) == req[s] # None /\ req[s].op = op
Wanted(s)  == LockOrder[req[s].op][2]
AllHeld(s) == holder[Wanted(s)] = s

\* The row whose holder s waits for; a settlement that reverses waits for the
\* commission.
WaitsFor(s, t) ==
  /\ req[s] # None /\ req[t] # None /\ s # t
  /\ \/ ~AllHeld(s) /\ holder[Wanted(s)] = t
     \/ AllHeld(s) /\ req[s].op = "money" /\ HasLive /\ holder["commission"] = t

\* A lock cycle has two members: who holds the commission wants the client only.
Deadlocked(s) == \E t \in Sessions : WaitsFor(s, t) /\ WaitsFor(t, s)

\* (Mutant of Release: a refused request leaves its transaction open.)
ReleaseNothing(s) == /\ req' = [req EXCEPT ![s] = None]
                     /\ UNCHANGED holder

\* Commit or roll back.
Release(s) == /\ req' = [req EXCEPT ![s] = None]
              /\ holder' = [r \in Rows |-> IF holder[r] = s THEN None ELSE holder[r]]

\* A request and its first row: nothing was read before it is locked.
\* Management may do everything, others record their own completion.
Begin(s) == \E r \in Request :
  /\ req[s] = None
  /\ r.by \in Managers \/ (r.op = "complete" /\ r.who = r.by)
  /\ (r.op = "complete") = (r.who # None)
  /\ r.op = "commission" => commission # None
  /\ holder[LockOrder[r.op][1]] = None
  /\ req' = [req EXCEPT ![s] = r]
  /\ holder' = [holder EXCEPT ![LockOrder[r.op][1]] = s]
  /\ UNCHANGED <<ledger, account, client, paperwork, commission>>

\* Row-level security shows the account for update to management only.
Visible(s) == Wanted(s) = "account" => req[s].by \in Managers

Acquire(s) ==
  /\ req[s] # None /\ ~AllHeld(s) /\ holder[Wanted(s)] = None
  /\ Visible(s)
  /\ Running(s, "complete") => ~Overruled(s)
  /\ holder' = [holder EXCEPT ![Wanted(s)] = s]
  /\ UNCHANGED <<ledger, account, client, paperwork, commission, req>>

\* The completion is refused: by the trigger, or because lockAccount, run for
\* someone who is not management, finds no account.
CompletionRefused(s) ==
  /\ Running(s, "complete") /\ ~AllHeld(s)
  /\ Overruled(s) \/ ~Visible(s)
  /\ Release(s)
  /\ UNCHANGED <<ledger, account, client, paperwork, commission>>

\* A transaction or discount that fails its validation.
MoneyRefused(s) ==
  /\ Running(s, "money") /\ ~AllHeld(s)
  /\ Release(s)
  /\ UNCHANGED <<ledger, account, client, paperwork, commission>>

\* deadlock_detected: the database aborts one of the two.
DeadlockAbort(s) ==
  /\ Deadlocked(s)
  /\ Release(s)
  /\ UNCHANGED <<ledger, account, client, paperwork, commission>>

\* reconcileAccount, from the rows as the transaction has written them.
Settle(l, d, completer, refund) ==
  LET status == Projected(l, d, refund)
      paid   == BalanceStatus(l, [discount |-> d, status |-> status]) = "paid"
      c      == [client EXCEPT !.completer = completer]
  IN  /\ ledger' = l
      /\ account' = [discount |-> d, status |-> status]
      /\ client' = Synced(Reconciled(c, paperwork, paid), paid)
      /\ commission' = IF paid THEN Earned(completer) ELSE Reversed
      /\ (HasLive /\ ~paid) => holder["commission"] = None
      /\ UNCHANGED paperwork

\* record_transaction; a key already in the ledger records nothing.
RecordTransaction(s) == \E k \in Keys, e \in Entries :
  /\ Running(s, "money") /\ AllHeld(s) /\ Acceptable(e)
  /\ Settle(IF ledger[k] = None THEN [ledger EXCEPT ![k] = e] ELSE ledger,
            account.discount, client.completer, e.type = "refund")
  /\ Release(s)

ApplyDiscount(s) == \E d \in 0..Fee :
  /\ Running(s, "money") /\ AllHeld(s)
  /\ Settle(ledger, d, client.completer, FALSE)
  /\ Release(s)

RecordCompletion(s) ==
  /\ Running(s, "complete") /\ AllHeld(s)
  /\ Settle(ledger, account.discount, req[s].who, FALSE)
  /\ Release(s)

\* update_commission; a transition the table lacks is refused.
UpdateCommission(s) ==
  /\ Running(s, "commission") /\ AllHeld(s)
  /\ commission' \in {[commission EXCEPT !.status = t] : t \in Transitions[commission.status]} \cup {commission}
  /\ Release(s)
  /\ UNCHANGED <<ledger, account, client, paperwork>>

----------------------------------------------------------------------------
(* Operations on the client's row alone.                                   *)

\* update_post_hire, with the trigger on the items.
PaperworkChanges == \E b \in BOOLEAN :
  /\ holder["client"] = None
  /\ paperwork' = b
  /\ client' = Reconciled(client, b, Paid)
  /\ UNCHANGED <<ledger, account, commission, req, holder>>

\* appointment_decision "pass"; the position of a held file is left alone.
InterviewPassed ==
  /\ holder["client"] = None
  /\ client.status = "earlier" \/ client.held
  /\ LET moved == [client EXCEPT !.passed = TRUE, !.status = "pre_hire_completed", !.stage = "payment_required"]
     IN  client' = IF client.held THEN [client EXCEPT !.passed = TRUE]
                   ELSE Synced(moved, account.status = "paid")
  /\ UNCHANGED <<ledger, account, paperwork, commission, req, holder>>

\* appointment_decision "cancelled_not_interested"
NotInterested ==
  /\ holder["client"] = None
  /\ client.status = "earlier" /\ ~client.held
  /\ client' = [client EXCEPT !.status = "cancelled", !.stage = "elsewhere"]
  /\ UNCHANGED <<ledger, account, paperwork, commission, req, holder>>

\* setStatus to "cancelled"; a completed file is cancelled by an override.
CancelFile ==
  /\ holder["client"] = None /\ ~client.held
  /\ client' = [client EXCEPT !.status = "cancelled"]
  /\ UNCHANGED <<ledger, account, paperwork, commission, req, holder>>

\* submitClientReview
SubmitReview ==
  /\ holder["client"] = None /\ ~client.held
  /\ client' = [client EXCEPT !.held = TRUE]
  /\ UNCHANGED <<ledger, account, paperwork, commission, req, holder>>

Moved(c, route) == [c EXCEPT !.status = route[1], !.stage = route[2]]

\* resolveManagerReview: the file stays where it is or is routed directly.
ResolveReview ==
  /\ holder["client"] = None /\ client.held
  /\ LET c == [client EXCEPT !.held = FALSE]
     IN  client' \in {c} \cup {Moved(c, route) : route \in Routes}
  /\ UNCHANGED <<ledger, account, paperwork, commission, req, holder>>

\* moveWorkflowClient: a direct move skips the prerequisites.
MoveClient ==
  /\ holder["client"] = None /\ ~client.held
  /\ client' \in {Moved(client, route) : route \in Routes}
  /\ UNCHANGED <<ledger, account, paperwork, commission, req, holder>>

ReconcileWorkflow ==
  /\ holder["client"] = None
  /\ client' = Reconciled(client, paperwork, Paid)
  /\ UNCHANGED <<ledger, account, paperwork, commission, req, holder>>

----------------------------------------------------------------------------
Init ==
  /\ ledger = [k \in Keys |-> None]
  /\ account = [discount |-> 0, status |-> "pending"]
  /\ client = [completer |-> None, status |-> "earlier", stage |-> "elsewhere", passed |-> FALSE, held |-> FALSE]
  /\ paperwork = FALSE
  /\ commission = None
  /\ req = [s \in Sessions |-> None]
  /\ holder = [r \in Rows |-> None]

Work(s) == Acquire(s) \/ CompletionRefused(s) \/ MoneyRefused(s) \/ DeadlockAbort(s)
           \/ RecordTransaction(s) \/ ApplyDiscount(s) \/ RecordCompletion(s) \/ UpdateCommission(s)
Desk == PaperworkChanges \/ InterviewPassed \/ NotInterested \/ CancelFile
        \/ SubmitReview \/ ResolveReview \/ MoveClient \/ ReconcileWorkflow
Next == (\E s \in Sessions : Begin(s) \/ Work(s)) \/ Desk

Spec == Init /\ [][Next]_vars

----------------------------------------------------------------------------
(* Properties.                                                             *)

\* Types, and: locks are held by running transactions only.
AccTypeOK ==
  /\ ledger \in [Keys -> Entries \cup {None}]
  /\ account \in [discount : 0..Fee, status : {"pending", "paid", "refunded"}]
  /\ client \in [completer : Staff \cup {None}, status : Statuses, stage : Stages,
                 passed : BOOLEAN, held : BOOLEAN]
  /\ paperwork \in BOOLEAN
  /\ commission \in Commissions \cup {None}
  /\ req \in [Sessions -> Request \cup {None}]
  /\ holder \in [Rows -> Sessions \cup {None}]
  /\ \A r \in Rows : holder[r] # None => req[holder[r]] # None

\* A commission counts only while the balance view reads paid, and belongs to
\* whoever the client's record names as the completer, however refunds,
\* discounts, completions and commission decisions overlap.
CommissionFollowsPayment == HasLive => Paid /\ commission.owner = client.completer

\* "An application completed after the money arrived establishes the owner
\* retroactively and the commission is created now rather than lost"
\* (accounting-ledger.ts): a paid account of a completer with a rule has had
\* its commission, in whatever order payment, discount and completion came.
PaidHasEarned == Paid /\ client.completer \in Ruled => commission # None

\* The refunds of a payment together never exceed it, whichever requests
\* recorded them.
RefundsBounded == \A k \in Recorded(ledger) : ledger[k].type = "payment" => Refunded(k) <= ledger[k].amount

\* A file reads completed exactly when it is paid and its paperwork is done.
InStep == (client.status = "completed") <=> (Paid /\ paperwork)

\* Whatever changes the ledger, the account or the paperwork leaves the file
\* in step, also one moved out of it by hand; a file a manager holds or that was
\* cancelled it leaves where it is (reconcile_client_completion and
\* syncPostPaymentLifecycle).
EvidenceChanges == <<ledger, account, paperwork>>' # <<ledger, account, paperwork>>
InStepUnlessSetAside ==
  [][EvidenceChanges => IF SetAside(client) THEN client'.status = client.status /\ client'.stage = client.stage
                        ELSE InStep']_vars

\* "only the manager decision may release that hold or change its workflow
\* position" (post-payment-lifecycle.ts): while held, a file stays put.
HeldFileStays ==
  [][client.held /\ client'.held => client'.status = client.status /\ client'.stage = client.stage]_vars

\* "Recording one's own application completion is ordinary case work, so it is
\* open to the staff member who did it" (route.ts): such a request that no
\* other commission and no deadlock stops records the completer.
OwnCompletionRecorded ==
  [][\A s \in Sessions :
       (Running(s, "complete") /\ req'[s] = None /\ ~Overruled(s) /\ ~Deadlocked(s))
         => client'.completer = req[s].who]_vars
=============================================================================
