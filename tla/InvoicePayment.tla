---------------------------- MODULE InvoicePayment ----------------------------
(***************************************************************************)
(* A client pays an issued invoice in the portal, with a saved card (one   *)
(* call to pay/, which charges the card) or with a new one (an intent from *)
(* create_payment_intent/, confirmed by Stripe.js in the browser and noted *)
(* by a webhook).  The dialog, the payment service, the transactions, the  *)
(* webhooks and what Stripe answers are modelled; Stripe is external.      *)
(*                                                                         *)
(* An attempt is a call to pay/ or to create_payment_intent/.  Each one    *)
(* creates a row in Payment, numbered here in the order of the calls, and  *)
(* its own intent at Stripe: the search for a payment to use again looks   *)
(* for PENDING ones, and nothing here makes a payment PENDING.  The status *)
(* of the invoice is ISSUED throughout, because no step of either way      *)
(* calls mark_as_paid.  Amounts are in units of the smallest charge.       *)
(***************************************************************************)
EXTENDS Integers

CONSTANTS
  MaxAttempt,   \* bound: attempts
  Total,        \* total_amount of the invoice
  Deposit,      \* what the payment terms ask in advance
  Faults        \* "answer": an answer, or Stripe's to a confirmation, is lost
                \* "impatience": the client pays again before a payment is settled
                \* "loss": the server stops, or Stripe's answer to it is lost,
                \* between two steps

ASSUME InvoicePaymentAssumption ==
  /\ MaxAttempt \in Nat \ {0}
  /\ Total \in Nat \ {0} /\ Deposit \in 1..Total
  /\ Faults \subseteq {"answer", "impatience", "loss"}

VARIABLES
  (* the portal *)
  seen,         \* paid_amount of the invoice, in the list and in the dialog
  dialog,       \* closed, or open at the saved methods or at the card form
  mine, form,   \* the attempts of the dialog, and of the card form, on the screen
  due,          \* the effect that fetches an intent has been scheduled
  flow,         \* of the card form: loading, error or ready
  secret,       \* the attempt whose clientSecret the form holds; 0: none
  closing,      \* setTimeout(onClose, 2000) is pending
  awaited,      \* the attempts whose promise is pending
  lost,         \* the attempts an answer to which was lost
  (* the attempts *)
  last,         \* the number of the last one
  call,         \* where it is
  ask,          \* the amount its request names; 0: what remains
  (* the database *)
  amount, status,   \* of the Payment
  txn,          \* status of its PaymentTransaction; "none": no row
  hook,         \* the webhook's on_commit(complete_payment) is to run
  paid,         \* paid_amount of the invoice: the sum over COMPLETED payments
  (* Stripe *)
  intent,       \* the state of the PaymentIntent
  cents,        \* its amount
  taken,        \* the sum of what has been charged
  webhooks      \* those that are under way, in no order

screen == <<dialog, mine, form, due, flow, secret>>
portal == <<seen, screen, closing, awaited, lost>>
rows == <<amount, status, txn, hook, paid>>
stripe == <<intent, cents, taken, webhooks>>
vars == <<portal, last, call, ask, rows, stripe>>

Attempts == 1..MaxAttempt
\* Of a call to pay/, with what Stripe has answered to the server; of a call to
\* create_payment_intent/; of a confirmation.  An attempt is held while its
\* client secret may be in a form.
Paying == {"pay", "priced", "row", "succeeded", "requires_action", "error",
           "hook", "accepted", "refused"}
Asking == {"ask", "valued", "created", "made", "unmade"}
Confirming == {"confirm", "confirmed", "declined"}
Stages == Paying \cup Asking \cup Confirming \cup {"none", "held", "done"}

Webhooks == [type : {"succeeded", "failed"}, of : Attempts]

Webhook(t, p) == [type |-> t, of |-> p]

TypeOK ==
  /\ seen \in Nat /\ paid \in Nat /\ taken \in Nat
  /\ dialog \in {"closed", "methods", "card"}
  /\ mine \subseteq Attempts /\ form \subseteq Attempts
  /\ due \in BOOLEAN /\ closing \in BOOLEAN
  /\ flow \in {"loading", "error", "ready"}
  /\ secret \in 0..MaxAttempt /\ last \in 0..MaxAttempt
  /\ awaited \subseteq Attempts /\ lost \subseteq Attempts
  /\ call \in [Attempts -> Stages]
  /\ ask \in [Attempts -> Nat] /\ amount \in [Attempts -> Nat] /\ cents \in [Attempts -> Nat]
  /\ status \in [Attempts -> {"none", "CREATED", "FAILED", "COMPLETED"}]
  /\ txn \in [Attempts -> {"none", "PROCESSING", "PENDING", "FAILED", "COMPLETED"}]
  /\ hook \in [Attempts -> BOOLEAN]
  /\ intent \in [Attempts -> {"none", "open", "action", "charged"}]
  /\ webhooks \subseteq Webhooks

Init ==
  /\ seen = 0 /\ paid = 0 /\ taken = 0
  /\ dialog = "closed" /\ mine = {} /\ form = {}
  /\ due = FALSE /\ flow = "loading" /\ secret = 0
  /\ closing = FALSE /\ awaited = {} /\ lost = {}
  /\ last = 0
  /\ call = [p \in Attempts |-> "none"]
  /\ ask = [p \in Attempts |-> 0]
  /\ amount = [p \in Attempts |-> 0] /\ cents = [p \in Attempts |-> 0]
  /\ status = [p \in Attempts |-> "none"] /\ txn = [p \in Attempts |-> "none"]
  /\ hook = [p \in Attempts |-> FALSE]
  /\ intent = [p \in Attempts |-> "none"]
  /\ webhooks = {}

Remaining == Total - paid

Goto(p, stage) == call' = [call EXCEPT ![p] = stage]

-----------------------------------------------------------------------------
(* The database                                                            *)

MirroringSaveTransaction(p, s) ==   \* MUTANT: the payment has its transaction's status
  /\ txn' = [txn EXCEPT ![p] = s]
  /\ status' = [status EXCEPT ![p] = s]

FailingSaveTransaction(p, s) ==     \* MUTANT: FAILED whatever the payment was
  /\ txn' = [txn EXCEPT ![p] = s]
  /\ status' = IF s = "FAILED" THEN [status EXCEPT ![p] = "FAILED"] ELSE status

\* PaymentTransaction.save: a payment is failed with its transaction only when
\* it is PENDING.
SaveTransaction(p, s) ==
  /\ txn' = [txn EXCEPT ![p] = s]
  /\ status' = IF s = "FAILED" /\ status[p] = "PENDING"
               THEN [status EXCEPT ![p] = "FAILED"] ELSE status

\* Payment.complete_payment; module FirstToPay has what follows from it.
CompletePayment(p) ==
  IF status[p] = "COMPLETED" THEN UNCHANGED <<status, paid>>
  ELSE status' = [status EXCEPT ![p] = "COMPLETED"] /\ paid' = paid + amount[p]

UnpaidPayable(a) == 0 < a /\ a <= Total     \* MUTANT: earlier payments are forgotten

\* The checks of an amount against the invoice: in the view, in the service and
\* once more in the orchestrator.
Payable(a) == 0 < a /\ a <= Remaining

-----------------------------------------------------------------------------
(* Stripe                                                                  *)

Charge(p, a) ==
  /\ intent' = [intent EXCEPT ![p] = "charged"]
  /\ cents' = [cents EXCEPT ![p] = a]
  /\ taken' = taken + a
  /\ webhooks' = webhooks \cup {Webhook("succeeded", p)}

\* The intent stays open to another card.
Decline(p, a) ==
  /\ intent' = [intent EXCEPT ![p] = "open"]
  /\ cents' = [cents EXCEPT ![p] = a]
  /\ webhooks' = webhooks \cup {Webhook("failed", p)}
  /\ UNCHANGED taken

\* Stripe.js confirms the intent with the card, which may need the client.
StripeConfirms(p) ==
  /\ call[p] = "confirm"
  /\ \/ intent[p] = "open" /\ Charge(p, cents[p]) /\ Goto(p, "confirmed")
     \/ intent[p] = "open" /\ Decline(p, cents[p]) /\ Goto(p, "declined")
     \/ intent[p] # "open" /\ UNCHANGED stripe /\ Goto(p, "declined")
  /\ UNCHANGED <<portal, last, ask, rows>>

-----------------------------------------------------------------------------
(* The server: pay/                                                        *)

\* The view and process_invoice_payment up to the orchestrator.
PayReceived(p) ==
  /\ call[p] = "pay"
  /\ LET a == IF ask[p] = 0 THEN Remaining ELSE ask[p]
     IN IF Payable(a)
        THEN amount' = [amount EXCEPT ![p] = a] /\ Goto(p, "priced")
        ELSE UNCHANGED amount /\ Goto(p, "refused")
  /\ UNCHANGED <<portal, last, ask, status, txn, hook, paid, stripe>>

\* The orchestrator checks the amount again and creates the row.
PaymentCreated(p) ==
  /\ call[p] = "priced"
  /\ IF Payable(amount[p])
     THEN status' = [status EXCEPT ![p] = "CREATED"] /\ Goto(p, "row")
     ELSE UNCHANGED status /\ Goto(p, "refused")
  /\ UNCHANGED <<portal, last, ask, amount, txn, hook, paid, stripe>>

\* PaymentIntent.create with confirm.  An error of Stripe may follow a charge.
PayBilled(p) ==
  /\ call[p] = "row"
  /\ \/ Charge(p, amount[p]) /\ Goto(p, "succeeded")
     \/ Charge(p, amount[p]) /\ Goto(p, "error") /\ "loss" \in Faults
     \/ Decline(p, amount[p]) /\ Goto(p, "error")
     \/ /\ intent' = [intent EXCEPT ![p] = "action"]
        /\ cents' = [cents EXCEPT ![p] = amount[p]]
        /\ Goto(p, "requires_action")
        /\ UNCHANGED <<taken, webhooks>>
  /\ UNCHANGED <<portal, last, ask, rows>>

TrustingPayRecorded(p) ==           \* MUTANT: an answer without error is a charge
  \/ /\ call[p] \in {"succeeded", "requires_action"}
     /\ SaveTransaction(p, "COMPLETED") /\ Goto(p, "hook")
     /\ UNCHANGED <<portal, last, ask, amount, hook, paid, stripe>>
  \/ /\ call[p] = "error"
     /\ Goto(p, "refused")
     /\ UNCHANGED <<portal, last, ask, rows, stripe>>

\* The transaction commits, with the row for Stripe's answer.  An error rolls
\* everything back, the row and the status FAILED that were written for it too.
PayRecorded(p) ==
  \/ /\ call[p] = "succeeded"
     /\ \/ SaveTransaction(p, "COMPLETED") /\ Goto(p, "hook")
        \/ "loss" \in Faults /\ UNCHANGED <<txn, status>> /\ Goto(p, "refused")
     /\ UNCHANGED <<portal, last, ask, amount, hook, paid, stripe>>
  \/ /\ call[p] = "requires_action"
     /\ SaveTransaction(p, "PENDING") /\ Goto(p, "accepted")
     /\ UNCHANGED <<portal, last, ask, amount, hook, paid, stripe>>
  \/ /\ call[p] = "error"
     /\ Goto(p, "refused")
     /\ UNCHANGED <<portal, last, ask, rows, stripe>>

\* on_commit, before the view answers.
PayCompleted(p) ==
  /\ call[p] = "hook"
  /\ \/ CompletePayment(p) /\ Goto(p, "accepted")
     \/ "loss" \in Faults /\ UNCHANGED <<status, paid>> /\ Goto(p, "refused")
  /\ UNCHANGED <<portal, last, ask, amount, txn, hook, stripe>>

-----------------------------------------------------------------------------
(* The server: create_payment_intent/                                      *)

\* The portal never says how much: the whole of what remains.
IntentReceived(p) ==
  /\ call[p] = "ask"
  /\ IF Payable(Remaining)
     THEN amount' = [amount EXCEPT ![p] = Remaining] /\ Goto(p, "valued")
     ELSE UNCHANGED amount /\ Goto(p, "unmade")
  /\ UNCHANGED <<portal, last, ask, status, txn, hook, paid, stripe>>

\* The row of the orchestrator, which shows only when the transaction commits.
IntentPayment(p) ==
  /\ call[p] = "valued"
  /\ Goto(p, IF Payable(amount[p]) THEN "created" ELSE "unmade")
  /\ UNCHANGED <<portal, last, ask, rows, stripe>>

\* The intent is for what remains now, the payment for what remained before.
IntentCreated(p) ==
  /\ call[p] = "created"
  /\ \/ /\ Remaining > 0
        /\ intent' = [intent EXCEPT ![p] = "open"]
        /\ cents' = [cents EXCEPT ![p] = Remaining]
        /\ status' = [status EXCEPT ![p] = "CREATED"]
        /\ txn' = [txn EXCEPT ![p] = "PROCESSING"]
        /\ Goto(p, "made")
     \/ UNCHANGED <<intent, cents, status, txn>> /\ Goto(p, "unmade")    \* Stripe's error
  /\ UNCHANGED <<portal, last, ask, amount, hook, paid, taken, webhooks>>

-----------------------------------------------------------------------------
(* The server: webhooks                                                    *)

\* Stripe sends a webhook again when it is not answered in time.
Processed(w) == webhooks' = webhooks \/ webhooks' = webhooks \ {w}

FinalPaymentSucceeded(p) ==         \* MUTANT: a failed transaction is final
  /\ Webhook("succeeded", p) \in webhooks
  /\ IF txn[p] \in {"none", "COMPLETED", "FAILED"} THEN UNCHANGED <<txn, status, hook>>
     ELSE /\ SaveTransaction(p, "COMPLETED")
          /\ hook' = [hook EXCEPT ![p] = hook[p] \/ status[p] # "COMPLETED"]
  /\ Processed(Webhook("succeeded", p))
  /\ UNCHANGED <<portal, last, call, ask, amount, paid, intent, cents, taken>>

PaymentSucceeded(p) ==
  /\ Webhook("succeeded", p) \in webhooks
  /\ IF txn[p] \in {"none", "COMPLETED"} THEN UNCHANGED <<txn, status, hook>>
     ELSE /\ SaveTransaction(p, "COMPLETED")
          /\ hook' = [hook EXCEPT ![p] = hook[p] \/ status[p] # "COMPLETED"]
  /\ Processed(Webhook("succeeded", p))
  /\ UNCHANGED <<portal, last, call, ask, amount, paid, intent, cents, taken>>

\* The status of the transaction is not looked at, except for FAILED.
PaymentFailed(p) ==
  /\ Webhook("failed", p) \in webhooks
  /\ IF txn[p] \in {"none", "FAILED"} THEN UNCHANGED <<txn, status>>
     ELSE SaveTransaction(p, "FAILED")
  /\ Processed(Webhook("failed", p))
  /\ UNCHANGED <<portal, last, call, ask, amount, hook, paid, intent, cents, taken>>

\* on_commit.  When it is lost, the webhook's retry finds its transaction done.
HookRuns(p) ==
  /\ hook[p]
  /\ hook' = [hook EXCEPT ![p] = FALSE]
  /\ \/ CompletePayment(p)
     \/ "loss" \in Faults /\ UNCHANGED <<status, paid>>
  /\ UNCHANGED <<portal, last, call, ask, amount, txn, stripe>>

-----------------------------------------------------------------------------
(* The portal: the list of invoices and the dialog                         *)

\* Nothing is being paid, and what has been charged is on the invoice.
Settled == \A p \in Attempts :
  /\ call[p] \notin Paying \cup Confirming
  /\ intent[p] = "charged" => status[p] = "COMPLETED"

Willing == Settled \/ "impatience" \in Faults

NoForm == form' = {} /\ due' = FALSE /\ flow' = "loading" /\ secret' = 0

Closed == dialog' = "closed" /\ mine' = {} /\ NoForm

\* The dialog is rendered anew, with a new config: the form's effect runs again.
Rerendered(p) ==
  /\ due' = (due \/ (p \in mine /\ dialog = "card"))
  /\ UNCHANGED <<dialog, mine, form, flow, secret>>

Loading == \E p \in mine \cap awaited : call[p] \in Paying
Processing == \E p \in form \cap awaited : call[p] \in Confirming

\* The open dialog keeps the invoice as it was in the list.
Refetch ==
  /\ dialog = "closed" /\ seen # paid
  /\ seen' = paid
  /\ UNCHANGED <<screen, closing, awaited, lost, last, call, ask, rows, stripe>>

Open ==
  /\ dialog = "closed" /\ seen < Total
  /\ Willing
  /\ dialog' = "methods"
  /\ UNCHANGED <<mine, form, due, flow, secret>>
  /\ UNCHANGED <<seen, closing, awaited, lost, last, call, ask, rows, stripe>>

\* By its buttons, the backdrop or Escape, which nothing disables.
Close ==
  /\ dialog # "closed"
  /\ Closed
  /\ UNCHANGED <<seen, closing, awaited, lost, last, call, ask, rows, stripe>>

\* The timer that an earlier success has left, whatever is open now.
CloseLater ==
  /\ closing /\ closing' = FALSE
  /\ Closed
  /\ UNCHANGED <<seen, awaited, lost, last, call, ask, rows, stripe>>

\* Both handlers of success: the list closes the dialog at once.
Success ==
  /\ Closed
  /\ closing' = TRUE

-----------------------------------------------------------------------------
(* The portal: a saved card                                                *)

Start(p, stage, a) ==
  /\ p = last + 1 /\ p \in Attempts
  /\ last' = p
  /\ Goto(p, stage)
  /\ ask' = [ask EXCEPT ![p] = a]
  /\ awaited' = awaited \cup {p}
  /\ mine' = mine \cup {p}

\* FULL, DEPOSIT while less than that has been paid, or CUSTOM.
Choices == {0} \cup (IF seen < Deposit THEN {Deposit} ELSE {}) \cup 1..(Total - seen)

PaySaved(p) ==
  /\ dialog = "methods" /\ ~Loading
  /\ Willing
  /\ \E a \in Choices : Start(p, "pay", a)
  /\ UNCHANGED <<dialog, form, due, flow, secret>>
  /\ UNCHANGED <<seen, closing, lost, rows, stripe>>

PayAnswered(p) ==
  /\ call[p] \in {"accepted", "refused"}
  /\ Goto(p, "done")
  /\ awaited' = awaited \ {p}
  /\ IF p \notin awaited THEN UNCHANGED <<screen, closing>>
     ELSE IF call[p] = "accepted" THEN Success
     ELSE Rerendered(p) /\ UNCHANGED closing
  /\ UNCHANGED <<seen, lost, last, ask, rows, stripe>>

-----------------------------------------------------------------------------
(* The portal: a new card                                                  *)

AddCard ==
  /\ dialog = "methods" /\ ~Loading
  /\ dialog' = "card" /\ due' = TRUE
  /\ UNCHANGED <<mine, form, flow, secret>>
  /\ UNCHANGED <<seen, closing, awaited, lost, last, call, ask, rows, stripe>>

\* Back to Saved Methods, which a confirmation under way does not disable.
BackToSaved ==
  /\ dialog = "card"
  /\ dialog' = "methods" /\ NoForm
  /\ UNCHANGED mine
  /\ UNCHANGED <<seen, closing, awaited, lost, last, call, ask, rows, stripe>>

\* A choice in the dialog: the amount, or to save the card.
Choose ==
  /\ dialog = "card" /\ ~due
  /\ due' = TRUE
  /\ UNCHANGED <<dialog, mine, form, flow, secret>>
  /\ UNCHANGED <<seen, closing, awaited, lost, last, call, ask, rows, stripe>>

\* initializeIntent, 100 ms after the effect.
InitializeIntent(p) ==
  /\ due /\ due' = FALSE
  /\ Start(p, "ask", 0)
  /\ form' = form \cup {p}
  /\ flow' = "loading"
  /\ UNCHANGED <<dialog, secret, seen, closing, lost, rows, stripe>>

\* The answer that comes last has its secret in the form.
IntentAnswered(p) ==
  /\ call[p] \in {"made", "unmade"}
  /\ Goto(p, IF call[p] = "made" THEN "held" ELSE "done")
  /\ awaited' = awaited \ {p}
  /\ IF p \in form \cap awaited
     THEN IF call[p] = "made"
          THEN secret' = p /\ flow' = (IF flow = "error" THEN "error" ELSE "ready")
          ELSE flow' = "error" /\ UNCHANGED secret
     ELSE UNCHANGED <<flow, secret>>
  /\ UNCHANGED <<seen, dialog, mine, form, due, closing, lost, last, ask, rows, stripe>>

Submit(p) ==
  /\ dialog = "card" /\ flow = "ready" /\ ~Processing
  /\ secret = p /\ call[p] = "held"
  /\ Willing
  /\ Goto(p, "confirm")
  /\ awaited' = awaited \cup {p}
  /\ UNCHANGED <<seen, screen, closing, lost, last, ask, rows, stripe>>

ConfirmAnswered(p) ==
  /\ call[p] \in {"confirmed", "declined"}
  /\ Goto(p, "held")
  /\ awaited' = awaited \ {p}
  /\ IF p \notin awaited THEN UNCHANGED <<screen, closing>>
     ELSE IF call[p] = "confirmed" THEN Success
     ELSE Rerendered(p) /\ UNCHANGED closing
  /\ UNCHANGED <<seen, lost, last, ask, rows, stripe>>

\* The promise is rejected; what it is about goes on.
LoseAnswer(p) ==
  /\ "answer" \in Faults
  /\ p \in awaited
  /\ awaited' = awaited \ {p} /\ lost' = lost \cup {p}
  /\ IF call[p] \in Asking
     THEN /\ flow' = IF p \in form THEN "error" ELSE flow
          /\ UNCHANGED <<dialog, mine, form, due, secret>>
     ELSE Rerendered(p)
  /\ UNCHANGED <<seen, closing, last, call, ask, rows, stripe>>

-----------------------------------------------------------------------------
Server(p) ==
  \/ PayReceived(p) \/ PaymentCreated(p) \/ PayRecorded(p) \/ PayCompleted(p)
  \/ IntentReceived(p) \/ IntentPayment(p) \/ IntentCreated(p)
  \/ PaymentSucceeded(p) \/ PaymentFailed(p) \/ HookRuns(p)

Stripe(p) == PayBilled(p) \/ StripeConfirms(p)

Portal(p) ==
  \/ PaySaved(p) \/ PayAnswered(p) \/ InitializeIntent(p) \/ IntentAnswered(p)
  \/ Submit(p) \/ ConfirmAnswered(p) \/ LoseAnswer(p)

Next ==
  \/ \E p \in Attempts : Server(p) \/ Stripe(p) \/ Portal(p)
  \/ Refetch \/ Open \/ Close \/ CloseLater \/ AddCard \/ BackToSaved \/ Choose

Spec == Init /\ [][Next]_vars

\* The server goes on with a request, Stripe answers and sends its webhooks
\* until they are answered.  The client need not do anything.
FairSpec ==
  /\ Spec
  /\ \A p \in Attempts :
       /\ WF_vars(PayReceived(p)) /\ WF_vars(PaymentCreated(p))
       /\ WF_vars(PayBilled(p)) /\ WF_vars(PayRecorded(p)) /\ WF_vars(PayCompleted(p))
       /\ WF_vars(StripeConfirms(p))
       /\ WF_vars(PaymentSucceeded(p)) /\ WF_vars(HookRuns(p))

-----------------------------------------------------------------------------
\* A payment is COMPLETED only when Stripe has charged its intent: whatever comes
\* late, twice or in another order, and whether the server or a webhook notes it.
CompletedIsCharged == \A p \in Attempts :
  status[p] = "COMPLETED" => intent[p] = "charged"

\* A late webhook of an earlier decline (the client tried another card with the
\* same intent) or a late answer never takes a COMPLETED payment back.
CompletedStays ==
  [][\A p \in Attempts : status[p] = "COMPLETED" => status'[p] = "COMPLETED"]_vars

\* A client who gets every answer and waits until what was charged shows on the
\* invoice is never charged more than the invoice, nor has more noted as paid:
\* though the list, the dialog and the intents keep what remained earlier.
NotOvercharged == lost = {} => taken <= Total /\ paid <= Total

\* The same when answers are lost (run InvoiceOverpaid).
NeverOvercharged == taken <= Total

\* Who is still to note a charge: the server that has the answer, the hook of a
\* webhook, or a webhook that will find the transaction unfinished.
Tracked(p) ==
  \/ call[p] \in {"succeeded", "hook"}
  \/ hook[p]
  \/ Webhook("succeeded", p) \in webhooks /\ txn[p] \notin {"none", "COMPLETED"}

\* No charge is forgotten while no process stops: webhooks that come early, twice
\* or after the one of an earlier decline, and answers that are lost, leave at
\* least one of those who will note it.
ChargesTracked == \A p \in Attempts :
  intent[p] = "charged" => status[p] = "COMPLETED" \/ Tracked(p)

\* How far an attempt is, as its client and the accounts see it.
Phase(p) ==
  CASE status[p] = "COMPLETED" -> "noted"
    [] status[p] # "COMPLETED" /\ intent[p] = "charged" -> "charged"
    [] OTHER -> "none"

Bill == INSTANCE Purchase WITH phase <- [p \in Attempts |-> Phase(p)]

\* Each attempt is charged once, and noted once after that, for good: with two
\* ways to complete a payment, webhooks that repeat, and a secret that stays in
\* the form after its answer was lost.
PurchaseSpec == Bill!Spec

\* What Stripe has charged is on the invoice in the end: by the server's own
\* answer or by the webhook, which may come before there is a transaction, twice,
\* or after the webhook of an earlier decline.
ChargedCompletes == \A p \in Attempts :
  intent[p] = "charged" ~> status[p] = "COMPLETED"
=============================================================================
