------------------------------ MODULE FirstToPay ------------------------------
(***************************************************************************)
(* The first event of a date whose downpayment arrives gets the date: what *)
(* Payment.complete_payment runs, from the UPDATE of the payment to the    *)
(* receipt, with the post_save signal that blocks the date, cancels the    *)
(* unpaid competitors and refunds the losers, and the deadline tasks that  *)
(* cancel unpaid events.  All events are on one date, CONFIRMED at first,  *)
(* under the ON_DOWNPAYMENT policy.                                        *)
(*                                                                         *)
(* A worker is one call of complete_payment.  It runs in autocommit mode,  *)
(* as the on_commit hook of PaymentTransaction.save runs it, and saves the *)
(* payment three times (its status, its receipt number, its notification); *)
(* each save sends the signal.  The Event object of the first and third    *)
(* signal is one Python object, read once: mem* is that copy.  The second  *)
(* signal reads the event again, inside the transaction of the receipt.    *)
(*                                                                         *)
(* READ COMMITTED: what a transaction has written shows when it commits;   *)
(* a row it has written or locked makes other writers and FOR UPDATE       *)
(* readers wait.  Amounts matter only through two thresholds: which sets   *)
(* of payments reach the downpayment, and which cover the invoice.         *)
(***************************************************************************)
EXTENDS Naturals

CONSTANTS
  Events, Payments, Workers,
  EventOf,      \* the event of a payment
  PaymentOf,    \* the payment that a worker completes
  Downpayment,  \* the sets of payments that reach the downpayment of their event
  Full,         \* the sets of payments that cover the invoice of their event
  Counted,      \* the events whose invoice is ISSUED or PAID: the others are
                \* DRAFT or PARTIALLY_PAID, which update_payment_status ignores
  Settled,      \* the events that may be paid and blocked at the start
  WithDeadline, \* the events with a downpayment_deadline, which has passed
  MayCrash,     \* processes may be killed
  None          \* SQL NULL, and a lock that nobody holds

PaymentsOf(e) == {p \in Payments : EventOf[p] = e}

ASSUME FirstToPayAssumption ==
  /\ EventOf \in [Payments -> Events]
  /\ PaymentOf \in [Workers -> Payments]
  /\ None \notin Workers
  /\ \A S \in Downpayment, T \in SUBSET Payments : S \subseteq T => T \in Downpayment
  /\ {} \notin Full
  /\ Counted \subseteq Events
  /\ Settled \subseteq Events
  /\ WithDeadline \subseteq Events
  /\ MayCrash \in BOOLEAN
  /\ \A e \in Settled : PaymentsOf(e) \in Downpayment

VARIABLES
  (* rows of the database *)
  paid,       \* per payment: COMPLETED, with paid_on
  receipt,    \* the row has a receipt number
  refundsDone, \* full refunds of it whose row is COMPLETED
  status,     \* per event: CONFIRMED, or CANCELLED with the reason given here
  blocked,    \* date_blocked
  pay,        \* payment_status
  rowLock, payLock,              \* the worker that locks the row, or None
  (* the workers *)
  pc,         \* the step a worker has reached
  pass,       \* which save of the payment it is in
  changed,    \* Payment.save has seen another status before
  memStatus, memBlocked, memPay, \* the Event object of its first signal
  newPay,     \* the payment_status that its signal has computed
  check,      \* the signal goes on to process the downpayment
  targets,    \* competing events selected and not yet locked
  due,        \* payments that it has found without a refund, and refunds
  made,       \* payments that the gateway has told it are refunded
  (* the payment gateway, which no rollback reaches *)
  gateway,    \* per payment: the full refunds it was asked for and accepted
  doubts,     \* those of them whose success a worker could not record
  (* the deadline tasks *)
  expiring    \* the events that a task has read as unpaid and will cancel

paymentRows == <<paid, receipt, refundsDone>>
eventRows == <<status, blocked, pay>>
locks == <<rowLock, payLock>>
memory == <<memStatus, memBlocked, memPay>>
signal == <<newPay, check, targets, due>>
refunds == <<made, gateway, doubts>>
vars == <<paymentRows, eventRows, locks, pc, pass, changed, memory, signal, refunds,
          expiring>>

EventStatuses == {"CONFIRMED", "DATE_TAKEN", "PAYMENT_TIMEOUT"}
PayStatuses == {"UNPAID", "PARTIALLY_PAID", "PAID"}
Labels == {"idle", "old", "update", "load", "totals", "save", "lock", "blocker",
           "select", "compete", "refund", "refunding", "asking", "recompute",
           "full", "receipt", "commit", "timeline", "done"}

TypeOK ==
  /\ paid \in [Payments -> BOOLEAN]
  /\ receipt \in [Payments -> BOOLEAN]
  /\ refundsDone \in [Payments -> Nat]
  /\ status \in [Events -> EventStatuses]
  /\ blocked \in [Events -> BOOLEAN]
  /\ pay \in [Events -> PayStatuses]
  /\ rowLock \in [Events -> Workers \cup {None}]
  /\ payLock \in [Payments -> Workers \cup {None}]
  /\ pc \in [Workers -> Labels]
  /\ pass \in [Workers -> {"save", "receipt", "notify"}]
  /\ changed \in [Workers -> BOOLEAN]
  /\ memStatus \in [Workers -> EventStatuses]
  /\ memBlocked \in [Workers -> BOOLEAN]
  /\ memPay \in [Workers -> PayStatuses]
  /\ newPay \in [Workers -> PayStatuses]
  /\ check \in [Workers -> BOOLEAN]
  /\ targets \in [Workers -> SUBSET Events]
  /\ due \in [Workers -> SUBSET Payments]
  /\ made \in [Workers -> SUBSET Payments]
  /\ gateway \in [Payments -> Nat]
  /\ doubts \in [Payments -> Nat]
  /\ expiring \in SUBSET Events

Init ==
  /\ \E S \in SUBSET Settled :
       /\ paid = [p \in Payments |-> EventOf[p] \in S]
       /\ blocked = [e \in Events |-> e \in S]
       /\ pay = [e \in Events |-> IF e \in S THEN "PAID" ELSE "UNPAID"]
  /\ receipt = [p \in Payments |-> FALSE]
  /\ refundsDone = [p \in Payments |-> 0]
  /\ status = [e \in Events |-> "CONFIRMED"]
  /\ rowLock = [e \in Events |-> None]
  /\ payLock = [p \in Payments |-> None]
  /\ pc = [w \in Workers |-> "idle"]
  /\ pass = [w \in Workers |-> "save"]
  /\ changed = [w \in Workers |-> FALSE]
  /\ memStatus = [w \in Workers |-> "CONFIRMED"]
  /\ memBlocked = [w \in Workers |-> FALSE]
  /\ memPay = [w \in Workers |-> "UNPAID"]
  /\ newPay = [w \in Workers |-> "UNPAID"]
  /\ check = [w \in Workers |-> FALSE]
  /\ targets = [w \in Workers |-> {}]
  /\ due = [w \in Workers |-> {}]
  /\ made = [w \in Workers |-> {}]
  /\ gateway = [p \in Payments |-> 0]
  /\ doubts = [p \in Payments |-> 0]
  /\ expiring = {}

-----------------------------------------------------------------------------
(* Queries and locks                                                       *)

Own(w) == EventOf[PaymentOf[w]]

Completed(e) == {p \in PaymentsOf(e) : paid[p]}

ReachedByAny(e) == Completed(e) # {}       \* MUTANT: no threshold

\* The completed payments reach the downpayment.
Reached(e) == Completed(e) \in Downpayment

\* The payment status that the amounts give.
StatusOf(S) ==
  CASE S \in Full -> "PAID"
    [] S \notin Full /\ S # {} -> "PARTIALLY_PAID"
    [] OTHER -> "UNPAID"

\* Events that the downpayment of another event may cancel.
Competing(f) == status[f] = "CONFIRMED" /\ ~blocked[f] /\ pay[f] = "UNPAID"

Blocking(f) == status[f] = "CONFIRMED" /\ blocked[f]

RowFree(w, e) == rowLock[e] \in {None, w}

PayFree(w, p) == payLock[p] \in {None, w}

Goto(w, label) == pc' = [pc EXCEPT ![w] = label]

Unlock(w) ==
  /\ rowLock' = [e \in Events |-> IF rowLock[e] = w THEN None ELSE rowLock[e]]
  /\ payLock' = [p \in Payments |-> IF payLock[p] = w THEN None ELSE payLock[p]]

AfterSignalAgain(w) ==   \* MUTANT: the save of the notification notifies again
  CASE pass[w] = "save" -> IF changed[w] THEN "recompute" ELSE "receipt"
    [] pass[w] = "receipt" -> "commit"
    [] pass[w] = "notify" -> "totals"

\* Where a worker goes on when its signal has returned.
AfterSignal(w) ==
  CASE pass[w] = "save" -> IF changed[w] THEN "recompute" ELSE "receipt"
    [] pass[w] = "receipt" -> "commit"
    [] pass[w] = "notify" -> "done"

-----------------------------------------------------------------------------
(* complete_payment                                                        *)

\* refresh_from_db, and the early return of a payment completed before.
Refresh(w) ==
  /\ pc[w] = "idle"
  /\ Goto(w, IF paid[PaymentOf[w]] THEN "done" ELSE "old")
  /\ UNCHANGED <<paymentRows, eventRows, locks, pass, changed, memory,
                 signal, refunds, expiring>>

\* Payment.save reads the old status of the row ...
ReadOld(w) ==
  /\ pc[w] = "old"
  /\ changed' = [changed EXCEPT ![w] = ~paid[PaymentOf[w]]]
  /\ Goto(w, "update")
  /\ UNCHANGED <<paymentRows, eventRows, locks, pass, memory, signal, refunds, expiring>>

\* ... and writes every column of it, the receipt number read long ago included.
UpdatePayment(w) ==
  /\ pc[w] = "update"
  /\ PayFree(w, PaymentOf[w])
  /\ paid' = [paid EXCEPT ![PaymentOf[w]] = TRUE]
  /\ receipt' = [receipt EXCEPT ![PaymentOf[w]] = FALSE]
  /\ Goto(w, "load")
  /\ UNCHANGED <<refundsDone, eventRows, locks, pass, changed,
                 memory, signal, refunds, expiring>>

\* The first access to self.event reads the event.
LoadEvent(w) ==
  /\ pc[w] = "load"
  /\ memStatus' = [memStatus EXCEPT ![w] = status[Own(w)]]
  /\ memBlocked' = [memBlocked EXCEPT ![w] = blocked[Own(w)]]
  /\ memPay' = [memPay EXCEPT ![w] = pay[Own(w)]]
  /\ Goto(w, "totals")
  /\ UNCHANGED <<paymentRows, eventRows, locks, pass, changed, signal, refunds, expiring>>

\* update_payment_status: the totals of the invoices it counts ...
Recompute(w) ==
  /\ pc[w] = "recompute"
  /\ memPay' = [memPay EXCEPT ![w] =
       IF Own(w) \in Counted THEN StatusOf(Completed(Own(w))) ELSE "UNPAID"]
  /\ Goto(w, "full")
  /\ UNCHANGED <<paymentRows, eventRows, locks, pass, changed, memStatus, memBlocked,
                 signal, refunds, expiring>>

\* ... and a save of the whole Event object as it was read by LoadEvent.
SaveEvent(w) ==
  /\ pc[w] = "full"
  /\ RowFree(w, Own(w))
  /\ status' = [status EXCEPT ![Own(w)] = memStatus[w]]
  /\ blocked' = [blocked EXCEPT ![Own(w)] = memBlocked[w]]
  /\ pay' = [pay EXCEPT ![Own(w)] = memPay[w]]
  /\ Goto(w, "receipt")
  /\ UNCHANGED <<paymentRows, locks, pass, changed, memory, signal, refunds, expiring>>

\* generate_receipt: the payment row is locked and then looked at.
LockReceipt(w) ==
  /\ pc[w] = "receipt"
  /\ PayFree(w, PaymentOf[w])
  /\ IF receipt[PaymentOf[w]]
       THEN /\ Goto(w, "timeline")
            /\ UNCHANGED <<payLock, pass>>
       ELSE /\ payLock' = [payLock EXCEPT ![PaymentOf[w]] = w]
            /\ pass' = [pass EXCEPT ![w] = "receipt"]
            /\ Goto(w, "totals")
  /\ UNCHANGED <<paymentRows, eventRows, rowLock, changed, memory,
                 signal, refunds, expiring>>

\* After the timeline entry, the save of receipt_sent with its third signal.
RecordAndNotify(w) ==
  /\ pc[w] = "timeline"
  /\ PayFree(w, PaymentOf[w])
  /\ pass' = [pass EXCEPT ![w] = "notify"]
  /\ Goto(w, "totals")
  /\ UNCHANGED <<paymentRows, eventRows, locks, changed, memory,
                 signal, refunds, expiring>>

-----------------------------------------------------------------------------
(* The signal: update_event_financial_totals                               *)

\* The totals, compared with the payment status of the object; the receipt's
\* signal reads the event anew.  The decision to go on is made of them.
ReadTotals(w) ==
  LET e == Own(w)
      fresh == pass[w] = "receipt"
      before == IF fresh THEN pay[e] ELSE memPay[w]
      live == IF fresh THEN status[e] = "CONFIRMED" /\ ~blocked[e]
                       ELSE memStatus[w] = "CONFIRMED" /\ ~memBlocked[w]
      total == StatusOf(Completed(e))
  IN /\ pc[w] = "totals"
     /\ newPay' = [newPay EXCEPT ![w] = total]
     /\ memPay' = IF fresh THEN memPay ELSE [memPay EXCEPT ![w] = total]
     /\ check' = [check EXCEPT ![w] =
          before = "UNPAID" /\ total # "UNPAID" /\ live /\ Reached(e)]
     /\ Goto(w, "save")
     /\ UNCHANGED <<paymentRows, eventRows, locks, pass, changed, memStatus, memBlocked,
                    targets, due, refunds, expiring>>

\* event.save(update_fields=...): in the receipt's transaction the write shows
\* at its commit, and the row stays locked until then.
SaveTotals(w) ==
  /\ pc[w] = "save"
  /\ RowFree(w, Own(w))
  /\ IF pass[w] = "receipt"
       THEN /\ rowLock' = [rowLock EXCEPT ![Own(w)] = w]
            /\ UNCHANGED pay
       ELSE /\ pay' = [pay EXCEPT ![Own(w)] = newPay[w]]
            /\ UNCHANGED rowLock
  /\ Goto(w, IF check[w] THEN "lock" ELSE AfterSignal(w))
  /\ UNCHANGED <<paymentRows, status, blocked, payLock, pass, changed, memory, signal,
                 refunds, expiring>>

-----------------------------------------------------------------------------
(* atomic_process_downpayment_received                                     *)

\* The event's own row; the call returns when it is blocked or cancelled.
LockOwnEvent(w) ==
  /\ pc[w] = "lock"
  /\ RowFree(w, Own(w))
  /\ IF blocked[Own(w)] \/ status[Own(w)] # "CONFIRMED"
       THEN Goto(w, AfterSignal(w)) /\ UNCHANGED rowLock
       ELSE Goto(w, "blocker") /\ rowLock' = [rowLock EXCEPT ![Own(w)] = w]
  /\ UNCHANGED <<paymentRows, eventRows, payLock, pass, changed, memory,
                 signal, refunds, expiring>>

\* Another event has blocked the date: the transaction ends with an error that
\* makes the signal refund the event.  Only a blocking row is ever locked here.
RefuseTaken(w) ==
  /\ pc[w] = "blocker"
  /\ \E f \in Events \ {Own(w)} :
       /\ Blocking(f) /\ RowFree(w, f)
       /\ rowLock' = IF pass[w] = "receipt"
                       THEN [rowLock EXCEPT ![f] = w]
                       ELSE [rowLock EXCEPT ![Own(w)] = None]
  /\ Goto(w, "refund")
  /\ UNCHANGED <<paymentRows, eventRows, payLock, pass, changed, memory,
                 signal, refunds, expiring>>

FindNoBlocker(w) ==
  /\ pc[w] = "blocker"
  /\ \A f \in Events \ {Own(w)} : ~Blocking(f)
  /\ Goto(w, "select")
  /\ UNCHANGED <<paymentRows, eventRows, locks, pass, changed, memory,
                 signal, refunds, expiring>>

\* The competing query selects its rows when it starts ...
SelectCompetitors(w) ==
  /\ pc[w] = "select"
  /\ targets' = [targets EXCEPT ![w] = {f \in Events \ {Own(w)} : Competing(f)}]
  /\ Goto(w, "compete")
  /\ UNCHANGED <<paymentRows, eventRows, locks, pass, changed, memory, newPay, check,
                 due, refunds, expiring>>

LockCandidate(w, f) ==   \* MUTANT: the row is not looked at again under its lock
  /\ pc[w] = "compete"
  /\ f \in targets[w]
  /\ RowFree(w, f)
  /\ targets' = [targets EXCEPT ![w] = @ \ {f}]
  /\ rowLock' = [rowLock EXCEPT ![f] = w]
  /\ UNCHANGED <<paymentRows, eventRows, payLock, pc, pass, changed, memory, newPay,
                 check, due, refunds, expiring>>

\* ... locks them one by one, and drops a row that no longer qualifies when the
\* lock is granted.
LockCompetitor(w, f) ==
  /\ pc[w] = "compete"
  /\ f \in targets[w]
  /\ RowFree(w, f)
  /\ targets' = [targets EXCEPT ![w] = @ \ {f}]
  /\ rowLock' = IF Competing(f) THEN [rowLock EXCEPT ![f] = w] ELSE rowLock
  /\ UNCHANGED <<paymentRows, eventRows, payLock, pc, pass, changed, memory, newPay,
                 check, due, refunds, expiring>>

\* What the commit of a transaction of the signal writes besides its events: in
\* the receipt's pass, the payment status and the receipt number.
CommitSignal(w) ==
  /\ Unlock(w)
  /\ IF pass[w] = "receipt"
       THEN /\ pay' = [pay EXCEPT ![Own(w)] = newPay[w]]
            /\ receipt' = [receipt EXCEPT ![PaymentOf[w]] = TRUE]
            /\ Goto(w, "timeline")
       ELSE /\ UNCHANGED <<pay, receipt>>
            /\ Goto(w, AfterSignal(w))
  /\ UNCHANGED <<paid, pass, changed, memory, signal, expiring>>

\* The date is blocked and every competitor locked above is cancelled.
CommitBlock(w) ==
  /\ pc[w] = "compete"
  /\ targets[w] = {}
  /\ blocked' = [blocked EXCEPT ![Own(w)] = TRUE]
  /\ status' = [f \in Events |->
       IF f # Own(w) /\ rowLock[f] = w THEN "DATE_TAKEN" ELSE status[f]]
  /\ CommitSignal(w)
  /\ UNCHANGED <<refundsDone, refunds>>

\* initiate_refund_for_race_condition: the event's row, then its payments.
LockRefund(w) ==
  /\ pc[w] = "refund"
  /\ RowFree(w, Own(w))
  /\ rowLock' = [rowLock EXCEPT ![Own(w)] = w]
  /\ Goto(w, "refunding")
  /\ UNCHANGED <<paymentRows, eventRows, payLock, pass, changed, memory,
                 signal, refunds, expiring>>

DueAlways(e) == Completed(e)   \* MUTANT: earlier refunds are not looked for

\* The completed payments that have no COMPLETED refund.
Due(e) == {p \in Completed(e) : refundsDone[p] = 0}

SelectDue(w) ==
  /\ pc[w] = "refunding"
  /\ \A p \in Completed(Own(w)) : PayFree(w, p)
  /\ payLock' = [p \in Payments |-> IF p \in Completed(Own(w)) THEN w ELSE payLock[p]]
  /\ due' = [due EXCEPT ![w] = Due(Own(w))]
  /\ Goto(w, "asking")
  /\ UNCHANGED <<paymentRows, eventRows, rowLock, pass, changed, memory, newPay, check,
                 targets, refunds, expiring>>

\* _process_single_refund, payment by payment, under a new idempotency key for
\* every Refund row: the gateway refunds and says "succeeded"; it refunds and its
\* answer is lost or says anything else, which leaves the row PENDING or FAILED;
\* or it declines, or there is no transaction to refund.
AskGateway(w, p) ==
  /\ pc[w] = "asking"
  /\ p \in due[w]
  /\ due' = [due EXCEPT ![w] = @ \ {p}]
  /\ \/ /\ gateway' = [gateway EXCEPT ![p] = @ + 1]
        /\ made' = [made EXCEPT ![w] = @ \cup {p}]
        /\ UNCHANGED doubts
     \/ /\ gateway' = [gateway EXCEPT ![p] = @ + 1]
        /\ doubts' = [doubts EXCEPT ![p] = @ + 1]
        /\ UNCHANGED made
     \/ UNCHANGED refunds
  /\ UNCHANGED <<paymentRows, eventRows, locks, pc, pass, changed, memory, newPay, check,
                 targets, expiring>>

\* The Refund rows and the cancellation of the event show at the commit.
CommitRefund(w) ==
  /\ pc[w] = "asking"
  /\ due[w] = {}
  /\ refundsDone' = [p \in Payments |->
       IF p \in made[w] THEN refundsDone[p] + 1 ELSE refundsDone[p]]
  /\ made' = [made EXCEPT ![w] = {}]
  /\ status' = [status EXCEPT ![Own(w)] = "DATE_TAKEN"]
  /\ CommitSignal(w)
  /\ UNCHANGED <<blocked, gateway, doubts>>

\* The receipt's transaction commits when its signal had no more to do.
CommitReceipt(w) ==
  /\ pc[w] = "commit"
  /\ CommitSignal(w)
  /\ UNCHANGED <<refundsDone, refunds, status, blocked>>

-----------------------------------------------------------------------------
(* Deadlocks, crashes and the deadline tasks                               *)

\* The workers that hold a row which w, holding others, waits for.
WaitsFor(w) ==
  (CASE pc[w] = "save" -> {rowLock[Own(w)]}
     [] pc[w] = "blocker" -> {rowLock[f] : f \in {g \in Events \ {Own(w)} : Blocking(g)}}
     [] pc[w] = "compete" -> {rowLock[f] : f \in targets[w]}
     [] pc[w] = "refunding" -> {payLock[p] : p \in Completed(Own(w))}
     [] OTHER -> {}) \ {None, w}

\* w is one of a set of workers that wait for one another.
Deadlocked(w) ==
  \E S \in SUBSET Workers :
    /\ w \in S
    /\ \A v \in S : (\E u \in S : u \in WaitsFor(v)) /\ (\E u \in S : v \in WaitsFor(u))

\* PostgreSQL aborts one of them.  The error is logged and the worker goes on: in
\* the receipt's transaction it loses what follows the savepoint, or all of it
\* when no savepoint was open.
AbortDeadlock(w) ==
  /\ Deadlocked(w)
  /\ IF pass[w] = "receipt" /\ pc[w] # "save"
       THEN /\ rowLock' = [e \in Events |->
                 IF rowLock[e] = w /\ e # Own(w) THEN None ELSE rowLock[e]]
            /\ UNCHANGED payLock
       ELSE Unlock(w)
  /\ Goto(w, IF pass[w] = "receipt" /\ pc[w] = "save" THEN "timeline" ELSE AfterSignal(w))
  /\ targets' = [targets EXCEPT ![w] = {}]
  /\ UNCHANGED <<paymentRows, eventRows, pass, changed, memory, newPay, check, due,
                 refunds, expiring>>

\* The process is killed: its transaction is rolled back, its worker is gone, and
\* with them all record of what the gateway has done for it.
Crash(w) ==
  /\ MayCrash
  /\ pc[w] \notin {"idle", "done"}
  /\ Unlock(w)
  /\ Goto(w, "done")
  /\ doubts' = [p \in Payments |-> IF p \in made[w] THEN doubts[p] + 1 ELSE doubts[p]]
  /\ made' = [made EXCEPT ![w] = {}]
  /\ UNCHANGED <<paymentRows, eventRows, pass, changed, memory,
                 signal, gateway, expiring>>

\* check_downpayment_deadline and daily_deadline_sweep read the event ...
ReadExpired(e) ==
  /\ e \in WithDeadline \ expiring
  /\ status[e] = "CONFIRMED" /\ ~blocked[e] /\ pay[e] = "UNPAID"
  /\ expiring' = expiring \cup {e}
  /\ UNCHANGED <<paymentRows, eventRows, locks, pc, pass, changed, memory,
                 signal, refunds>>

CancelAsTimeout(e) ==   \* MUTANT: a reason that no one knows
  /\ e \in expiring
  /\ rowLock[e] = None
  /\ status' = [status EXCEPT ![e] = "TIMEOUT"]
  /\ expiring' = expiring \ {e}
  /\ UNCHANGED <<paymentRows, blocked, pay, locks, pc, pass, changed, memory,
                 signal, refunds>>

\* ... and cancel it with an UPDATE that looks at nothing.
CancelExpired(e) ==
  /\ e \in expiring
  /\ rowLock[e] = None
  /\ status' = [status EXCEPT ![e] = "PAYMENT_TIMEOUT"]
  /\ expiring' = expiring \ {e}
  /\ UNCHANGED <<paymentRows, blocked, pay, locks, pc, pass, changed, memory,
                 signal, refunds>>

Signal(w) ==
  \/ ReadTotals(w) \/ SaveTotals(w) \/ LockOwnEvent(w)
  \/ RefuseTaken(w) \/ FindNoBlocker(w) \/ SelectCompetitors(w)
  \/ \E f \in Events : LockCompetitor(w, f)
  \/ CommitBlock(w) \/ LockRefund(w) \/ SelectDue(w)
  \/ (\E p \in Payments : AskGateway(w, p)) \/ CommitRefund(w)

Complete(w) ==
  \/ Refresh(w) \/ ReadOld(w) \/ UpdatePayment(w) \/ LoadEvent(w)
  \/ Recompute(w) \/ SaveEvent(w) \/ LockReceipt(w) \/ CommitReceipt(w)
  \/ RecordAndNotify(w)

Next ==
  \/ \E w \in Workers : Complete(w) \/ Signal(w) \/ AbortDeadlock(w) \/ Crash(w)
  \/ \E e \in Events : ReadExpired(e) \/ CancelExpired(e)

Spec == Init /\ [][Next]_vars

\* A worker is a running thread, its lock waits are queued, and PostgreSQL
\* resolves deadlocks.  Nothing is assumed of the deadline tasks.
Fairness ==
  \A w \in Workers : SF_vars(Complete(w) \/ Signal(w)) /\ WF_vars(AbortDeadlock(w))

FairSpec == Spec /\ Fairness

-----------------------------------------------------------------------------
(* Properties                                                              *)

\* Whatever the interleaving of stale saves, a date is blocked only for an event
\* whose completed payments reach its downpayment.
BlockedIsPaid ==
  \A e \in Events : blocked[e] => Completed(e) \in Downpayment

\* Although the same loss is noticed by several workers and passes, a payment has
\* one completed refund at most, and the gateway makes a second refund only when
\* no worker could record the first: it was killed before its commit, or did not
\* get the answer "succeeded".  Nothing else is ever paid back twice.
RefundedOnce ==
  \A p \in Payments : refundsDone[p] <= 1 /\ gateway[p] <= 1 + doubts[p]

\* The commit of a downpayment cancels no event that it has not found unpaid and
\* unblocked under the lock of its row.
CompetitorsUnpaid ==
  [][\A e \in Events : \A f \in Events \ {e} :
       blocked'[e] /\ ~blocked[e] /\ status'[f] = "DATE_TAKEN" =>
         status[f] = "DATE_TAKEN" \/ Competing(f)]_vars

\* A worker past the lock of its own event's row holds it: from LockOwnEvent to
\* the commit, and in the receipt's transaction from its first write on.
HoldsOwnRow ==
  \A w \in Workers :
    \/ pc[w] \in {"blocker", "select", "compete", "refunding", "asking"}
    \/ pass[w] = "receipt" /\ pc[w] \in {"lock", "refund", "commit"}
    => rowLock[Own(w)] = w

\* The other rows that a worker holds are competitors, and still are; only a
\* loser in the receipt's transaction holds the blocking row instead.
HoldsCompetitors ==
  \A w \in Workers : \A f \in Events \ {Own(w)} :
    rowLock[f] = w =>
      pc[w] \in {"refund", "refunding", "asking"} \/ (pc[w] = "compete" /\ Competing(f))

\* What SelectDue has found stays so until the refunds are committed.
DueIsFresh ==
  \A w \in Workers : pc[w] = "asking" =>
    \A p \in due[w] : EventOf[p] = Own(w) /\ refundsDone[p] = 0 /\ p \notin made[w]

\* A refund that is made and not committed belongs to an open refund of its event.
MadeIsFresh ==
  \A w \in Workers : \A p \in made[w] :
    pc[w] = "asking" /\ EventOf[p] = Own(w) /\ refundsDone[p] = 0

\* Of the refunds the gateway has made, all but one at most are in doubt, and
\* that one is known to a worker or to the database.
RefundsKnown ==
  \A p \in Payments :
    \/ gateway[p] <= doubts[p]
    \/ /\ gateway[p] <= 1 + doubts[p]
       /\ refundsDone[p] >= 1 \/ \E w \in Workers : p \in made[w]

RowInv == HoldsOwnRow /\ HoldsCompetitors

RefundInv == DueIsFresh /\ MadeIsFresh /\ RefundsKnown /\ RefundedOnce

\* A worker has a transaction open: all of the receipt's pass, or a settlement
\* or refund that a signal of autocommit mode has begun.
InTransaction(w) ==
  \/ pc[w] \in {"blocker", "select", "compete", "refunding", "asking"}
  \/ pass[w] = "receipt" /\ pc[w] \in {"totals", "save", "lock", "refund", "commit"}

\* No row lock outlives the transaction that took it, whether it committed, was
\* chosen as the victim of a deadlock or died with its process.
LocksReleased ==
  \A w \in Workers :
    /\ \A e \in Events : rowLock[e] = w => InTransaction(w)
    /\ \A p \in Payments : payLock[p] = w =>
         pc[w] = "asking" \/ (pass[w] = "receipt" /\ InTransaction(w))

\* BlockedIsPaid with what makes it inductive: every copy of date_blocked, and
\* every decision to block, was made when the downpayment had been reached.
PaidInv ==
  /\ BlockedIsPaid
  /\ \A w \in Workers :
       \/ memBlocked[w] \/ check[w]
       \/ pc[w] \in {"lock", "blocker", "select", "compete"}
       => Reached(Own(w))

\* Every call returns: no wait for a row lasts for ever.
CompletionsReturn == \A w \in Workers : pc[w] # "idle" ~> pc[w] = "done"

\* "Lock ALL events on this date (including competitors)"
\* (date_blocking_service.py:290): two events never block the date together.
OneBlockingEvent ==
  \A e, f \in Events : Blocking(e) /\ Blocking(f) => e = f
==============================================================================
