------------------------ MODULE InvoicePayment_proofs ------------------------
(* Proofs about InvoicePayment, for any invoice and any number of attempts. *)
EXTENDS InvoicePayment, TLAPS

\* The values of the variables are of their types.
THEOREM TypeCorrect == Spec => []TypeOK
<1> USE InvoicePaymentAssumption
<1>1. Init => TypeOK
  <2> SUFFICES ASSUME Init PROVE TypeOK
    OBVIOUS
  <2>1. /\ due \in BOOLEAN /\ closing \in BOOLEAN /\ hook \in [Attempts -> BOOLEAN]
        /\ call \in [Attempts -> Stages] /\ webhooks \subseteq Webhooks
    BY DEF Init, Stages
  <2>2. /\ status \in [Attempts -> {"none", "CREATED", "FAILED", "COMPLETED"}]
        /\ txn \in [Attempts -> {"none", "PROCESSING", "PENDING", "FAILED", "COMPLETED"}]
        /\ intent \in [Attempts -> {"none", "open", "action", "charged"}]
    BY DEF Init
  <2> QED BY <2>1, <2>2 DEF Init, TypeOK
<1>2. TypeOK /\ [Next]_vars => TypeOK'
  <2> SUFFICES ASSUME TypeOK, [Next]_vars PROVE TypeOK'
    OBVIOUS
  <2>g. \A q \in Attempts, stage \in Stages :
           Goto(q, stage) => call' \in [Attempts -> Stages]
    BY DEF Goto, TypeOK
  <2>d. Stages = {"pay", "priced", "row", "succeeded", "requires_action", "error", "hook",
                  "accepted", "refused", "ask", "valued", "created", "made", "unmade",
                  "confirm", "confirmed", "declined", "none", "held", "done"}
    BY DEF Stages, Paying, Asking, Confirming
  <2>c. /\ NoForm => form' \subseteq Attempts /\ due' \in BOOLEAN
                     /\ flow' \in {"loading", "error", "ready"}
                     /\ secret' \in 0..MaxAttempt
        /\ Closed => NoForm /\ dialog' \in {"closed", "methods", "card"}
                     /\ mine' \subseteq Attempts
    <3>0. 0 \in 0..MaxAttempt /\ FALSE \in BOOLEAN
      OBVIOUS
    <3>1. NoForm => due' \in BOOLEAN /\ secret' \in 0..MaxAttempt
      BY <3>0, Zenon DEF NoForm
    <3>2. NoForm => form' \subseteq Attempts /\ flow' \in {"loading", "error", "ready"}
      BY DEF NoForm
    <3>3. Closed => NoForm /\ dialog' \in {"closed", "methods", "card"}
                    /\ mine' \subseteq Attempts
      BY DEF Closed
    <3> QED BY <3>1, <3>2, <3>3
  <2>r. Remaining \in Int
    BY DEF Remaining, TypeOK
  <2>1. ASSUME NEW p \in Attempts, Server(p) PROVE TypeOK'
    <3> DEFINE Rest == UNCHANGED <<portal, last, ask>>
    <3>1. CASE PayReceived(p)
      <4>1. (IF ask[p] = 0 THEN Remaining ELSE ask[p]) \in Int
        BY <2>r DEF TypeOK
      <4>2. amount' \in [Attempts -> Nat] /\ call' \in [Attempts -> Stages]
        BY <3>1, <4>1, <2>g, <2>d DEF PayReceived, Payable, TypeOK
      <4> QED BY <3>1, <4>2 DEF PayReceived, TypeOK, portal, screen, stripe
    <3>2. CASE PaymentCreated(p)
      <4>1. /\ status' \in [Attempts -> {"none", "CREATED", "FAILED", "COMPLETED"}]
            /\ call' \in [Attempts -> Stages]
        BY <3>2, <2>g, <2>d DEF PaymentCreated, TypeOK
      <4> QED BY <3>2, <4>1 DEF PaymentCreated, TypeOK, portal, screen, stripe
    <3>s. ASSUME NEW s \in {"PENDING", "FAILED", "COMPLETED"}, SaveTransaction(p, s)
          PROVE  /\ status' \in [Attempts -> {"none", "CREATED", "FAILED", "COMPLETED"}]
                 /\ txn' \in [Attempts -> {"none", "PROCESSING", "PENDING", "FAILED", "COMPLETED"}]
      BY <3>s DEF SaveTransaction, TypeOK
    <3>c. ASSUME CompletePayment(p)
          PROVE  /\ status' \in [Attempts -> {"none", "CREATED", "FAILED", "COMPLETED"}]
                 /\ paid' \in Nat
      BY <3>c DEF CompletePayment, TypeOK
    <3>3. CASE PayRecorded(p)
      <4>1. CASE call[p] = "error"
        <5>1. call' \in [Attempts -> Stages] BY <3>3, <4>1, <2>g, <2>d DEF PayRecorded
        <5> QED BY <3>3, <4>1, <5>1 DEF PayRecorded, TypeOK, portal, screen, rows, stripe
      <4>2. CASE call[p] # "error"
        <5>1. /\ call' \in [Attempts -> Stages]
              /\ status' \in [Attempts -> {"none", "CREATED", "FAILED", "COMPLETED"}]
              /\ txn' \in [Attempts -> {"none", "PROCESSING", "PENDING", "FAILED", "COMPLETED"}]
          BY <3>3, <4>2, <3>s, <2>g, <2>d DEF PayRecorded, TypeOK
        <5>2. UNCHANGED <<portal, last, ask, amount, hook, paid, stripe>>
          BY <3>3, <4>2 DEF PayRecorded
        <5> QED BY <5>1, <5>2 DEF TypeOK, portal, screen, stripe
      <4> QED BY <4>1, <4>2
    <3>4. CASE PayCompleted(p)
      <4>1. /\ call' \in [Attempts -> Stages] /\ paid' \in Nat
            /\ status' \in [Attempts -> {"none", "CREATED", "FAILED", "COMPLETED"}]
        BY <3>4, <3>c, <2>g, <2>d DEF PayCompleted, TypeOK
      <4> QED BY <3>4, <4>1 DEF PayCompleted, TypeOK, portal, screen, stripe
    <3>5. CASE IntentReceived(p)
      <4>1. amount' \in [Attempts -> Nat] /\ call' \in [Attempts -> Stages]
        BY <3>5, <2>r, <2>g, <2>d DEF IntentReceived, Payable, TypeOK
      <4> QED BY <3>5, <4>1 DEF IntentReceived, TypeOK, portal, screen, stripe
    <3>6. CASE IntentPayment(p)
      <4>1. call' \in [Attempts -> Stages]
        BY <3>6, <2>g, <2>d DEF IntentPayment
      <4> QED BY <3>6, <4>1 DEF IntentPayment, TypeOK, portal, screen, rows, stripe
    <3>7. CASE IntentCreated(p)
      <4>1. /\ call' \in [Attempts -> Stages] /\ cents' \in [Attempts -> Nat]
            /\ intent' \in [Attempts -> {"none", "open", "action", "charged"}]
            /\ status' \in [Attempts -> {"none", "CREATED", "FAILED", "COMPLETED"}]
            /\ txn' \in [Attempts -> {"none", "PROCESSING", "PENDING", "FAILED", "COMPLETED"}]
        BY <3>7, <2>r, <2>g, <2>d DEF IntentCreated, TypeOK
      <4> QED BY <3>7, <4>1 DEF IntentCreated, TypeOK, portal, screen
    <3>w. ASSUME NEW w \in Webhooks, Processed(w) PROVE webhooks' \subseteq Webhooks
      BY <3>w DEF Processed, TypeOK
    <3>h. Webhook("succeeded", p) \in Webhooks /\ Webhook("failed", p) \in Webhooks
      BY DEF Webhook, Webhooks
    <3>8. CASE PaymentSucceeded(p)
      <4>1. /\ status' \in [Attempts -> {"none", "CREATED", "FAILED", "COMPLETED"}]
            /\ txn' \in [Attempts -> {"none", "PROCESSING", "PENDING", "FAILED", "COMPLETED"}]
        BY <3>8, <3>s DEF PaymentSucceeded, TypeOK
      <4>2. hook' \in [Attempts -> BOOLEAN]
        <5>1. (hook[p] \/ status[p] # "COMPLETED") \in BOOLEAN
          BY Zenon
        <5>2. hook' = hook \/ hook' = [hook EXCEPT ![p] = hook[p] \/ status[p] # "COMPLETED"]
          BY <3>8 DEF PaymentSucceeded
        <5> QED BY <5>1, <5>2 DEF TypeOK
      <4>3. webhooks' \subseteq Webhooks
        BY <3>8, <3>w, <3>h DEF PaymentSucceeded
      <4> QED BY <3>8, <4>1, <4>2, <4>3 DEF PaymentSucceeded, TypeOK, portal, screen
    <3>9. CASE PaymentFailed(p)
      <4>1. /\ status' \in [Attempts -> {"none", "CREATED", "FAILED", "COMPLETED"}]
            /\ txn' \in [Attempts -> {"none", "PROCESSING", "PENDING", "FAILED", "COMPLETED"}]
        BY <3>9, <3>s DEF PaymentFailed, TypeOK
      <4>2. webhooks' \subseteq Webhooks
        BY <3>9, <3>w, <3>h DEF PaymentFailed
      <4> QED BY <3>9, <4>1, <4>2 DEF PaymentFailed, TypeOK, portal, screen
    <3>10. CASE HookRuns(p)
      <4>1. /\ paid' \in Nat /\ hook' \in [Attempts -> BOOLEAN]
            /\ status' \in [Attempts -> {"none", "CREATED", "FAILED", "COMPLETED"}]
        BY <3>10, <3>c DEF HookRuns, TypeOK
      <4> QED BY <3>10, <4>1 DEF HookRuns, TypeOK, portal, screen, stripe
    <3> QED BY <2>1, <3>1, <3>2, <3>3, <3>4, <3>5, <3>6, <3>7, <3>8, <3>9, <3>10 DEF Server
  <2>2. ASSUME NEW p \in Attempts, Stripe(p) PROVE TypeOK'
    <3>1. ASSUME NEW a \in Nat, Charge(p, a) \/ Decline(p, a)
          PROVE  /\ intent' \in [Attempts -> {"none", "open", "action", "charged"}]
                 /\ cents' \in [Attempts -> Nat] /\ taken' \in Nat
                 /\ webhooks' \subseteq Webhooks
      BY <3>1 DEF Charge, Decline, Webhook, Webhooks, TypeOK
    <3>2. CASE PayBilled(p)
      <4>1. /\ call' \in [Attempts -> Stages]
            /\ intent' \in [Attempts -> {"none", "open", "action", "charged"}]
            /\ cents' \in [Attempts -> Nat] /\ taken' \in Nat
            /\ webhooks' \subseteq Webhooks
        BY <3>2, <3>1, <2>g, <2>d DEF PayBilled, TypeOK
      <4> QED BY <3>2, <4>1 DEF PayBilled, TypeOK, portal, screen, rows
    <3>3. CASE StripeConfirms(p)
      <4>1. /\ call' \in [Attempts -> Stages]
            /\ intent' \in [Attempts -> {"none", "open", "action", "charged"}]
            /\ cents' \in [Attempts -> Nat] /\ taken' \in Nat
            /\ webhooks' \subseteq Webhooks
        BY <3>3, <3>1, <2>g, <2>d DEF StripeConfirms, TypeOK, stripe
      <4> QED BY <3>3, <4>1 DEF StripeConfirms, TypeOK, portal, screen, rows
    <3> QED BY <2>2, <3>2, <3>3 DEF Stripe
  <2>3. ASSUME NEW p \in Attempts, Portal(p) PROVE TypeOK'
    <3> DEFINE ScreenOK == /\ dialog' \in {"closed", "methods", "card"}
                           /\ mine' \subseteq Attempts /\ form' \subseteq Attempts
                           /\ due' \in BOOLEAN /\ flow' \in {"loading", "error", "ready"}
                           /\ secret' \in 0..MaxAttempt
    <3>a. Closed => ScreenOK
      BY <2>c DEF Closed
    <3>b. Rerendered(p) => ScreenOK
      BY DEF Rerendered, TypeOK
    <3>c. UNCHANGED screen => ScreenOK
      BY DEF screen, TypeOK
    <3>t. ASSUME NEW stage \in Stages, NEW a \in Nat, Start(p, stage, a)
          PROVE  /\ last' \in 0..MaxAttempt /\ call' \in [Attempts -> Stages]
                 /\ ask' \in [Attempts -> Nat] /\ awaited' \subseteq Attempts
                 /\ mine' \subseteq Attempts
      <4>1. last' \in 0..MaxAttempt
        BY <3>t DEF Start, Attempts, TypeOK
      <4>2. call' \in [Attempts -> Stages]
        BY <3>t, <2>g DEF Start
      <4>3. ask' \in [Attempts -> Nat] /\ awaited' \subseteq Attempts /\ mine' \subseteq Attempts
        BY <3>t DEF Start, TypeOK
      <4> QED BY <4>1, <4>2, <4>3
    <3>1. CASE PaySaved(p)
      <4>1. PICK a \in Choices : Start(p, "pay", a)
        BY <3>1 DEF PaySaved
      <4>2. a \in Nat
        BY <4>1 DEF Choices, TypeOK
      <4> QED BY <3>1, <4>1, <4>2, <3>t, <2>d DEF PaySaved, TypeOK, rows, stripe
    <3>2. CASE PayAnswered(p)
      <4>1. ScreenOK /\ closing' \in BOOLEAN
        BY <3>2, <3>a, <3>b, <3>c DEF PayAnswered, Success, TypeOK
      <4>2. call' \in [Attempts -> Stages] /\ awaited' \subseteq Attempts
        BY <3>2, <2>g, <2>d DEF PayAnswered, TypeOK
      <4> QED BY <3>2, <4>1, <4>2 DEF PayAnswered, TypeOK, rows, stripe
    <3>3. CASE InitializeIntent(p)
      BY <3>3, <3>t, <2>d DEF InitializeIntent, TypeOK, rows, stripe
    <3>4. CASE IntentAnswered(p)
      <4>1. flow' \in {"loading", "error", "ready"} /\ secret' \in 0..MaxAttempt
        BY <3>4 DEF IntentAnswered, TypeOK, Attempts
      <4>2. call' \in [Attempts -> Stages] /\ awaited' \subseteq Attempts
        BY <3>4, <2>g, <2>d DEF IntentAnswered, TypeOK
      <4> QED BY <3>4, <4>1, <4>2 DEF IntentAnswered, TypeOK, rows, stripe
    <3>5. CASE Submit(p)
      <4>1. call' \in [Attempts -> Stages] /\ awaited' \subseteq Attempts
        BY <3>5, <2>g, <2>d DEF Submit, TypeOK
      <4> QED BY <3>5, <4>1 DEF Submit, TypeOK, screen, rows, stripe
    <3>6. CASE ConfirmAnswered(p)
      <4>1. ScreenOK /\ closing' \in BOOLEAN
        BY <3>6, <3>a, <3>b, <3>c DEF ConfirmAnswered, Success, TypeOK
      <4>2. call' \in [Attempts -> Stages] /\ awaited' \subseteq Attempts
        BY <3>6, <2>g, <2>d DEF ConfirmAnswered, TypeOK
      <4> QED BY <3>6, <4>1, <4>2 DEF ConfirmAnswered, TypeOK, rows, stripe
    <3>7. CASE LoseAnswer(p)
      <4>1. ScreenOK
        BY <3>7, <3>b DEF LoseAnswer, TypeOK
      <4> QED BY <3>7, <4>1 DEF LoseAnswer, TypeOK, rows, stripe
    <3> QED BY <2>3, <3>1, <3>2, <3>3, <3>4, <3>5, <3>6, <3>7 DEF Portal
  <2>4. CASE Refetch
    BY <2>4 DEF Refetch, TypeOK, screen, rows, stripe
  <2>5. CASE Open
    BY <2>5 DEF Open, TypeOK, rows, stripe
  <2>6. CASE Close
    BY <2>6, <2>c DEF Close, TypeOK, rows, stripe
  <2>7. CASE CloseLater
    BY <2>7, <2>c DEF CloseLater, TypeOK, rows, stripe
  <2>8. CASE AddCard
    BY <2>8 DEF AddCard, TypeOK, rows, stripe
  <2>9. CASE BackToSaved
    BY <2>9, <2>c DEF BackToSaved, TypeOK, rows, stripe
  <2>10. CASE Choose
    BY <2>10 DEF Choose, TypeOK, rows, stripe
  <2>11. CASE UNCHANGED vars
    BY <2>11 DEF vars, portal, screen, rows, stripe, TypeOK
  <2> QED
    BY <2>1, <2>2, <2>3, <2>4, <2>5, <2>6, <2>7, <2>8, <2>9, <2>10, <2>11 DEF Next
<1> QED BY <1>1, <1>2, PTL DEF Spec

-----------------------------------------------------------------------------
\* Whatever leads to COMPLETED was started by a charge: the webhook, its hook and
\* the server's own commit.  Before Stripe is asked there is no intent.
HookInv == \A q \in Attempts : hook[q] => intent[q] = "charged"

CallInv == \A q \in Attempts :
  /\ status[q] = "COMPLETED" => intent[q] = "charged"
  /\ Webhook("succeeded", q) \in webhooks => intent[q] = "charged"
  /\ call[q] \in {"succeeded", "hook"} => intent[q] = "charged"
  /\ call[q] \in {"none", "pay", "priced", "row", "ask", "valued", "created"}
       => intent[q] = "none"
  /\ last < q => call[q] = "none"

ChargeInv == HookInv /\ CallInv

\* A step of the portal that starts or ends a promise changes nothing of this.
LEMMA ChargeStep ==
  ASSUME InvoicePaymentAssumption, TypeOK, ChargeInv, [Next]_vars
  PROVE  ChargeInv'
<1>s. \A p, q \in Attempts : Webhook("succeeded", q) # Webhook("failed", p)
      /\ (Webhook("succeeded", q) = Webhook("succeeded", p) => q = p)
  BY DEF Webhook
<1>g. \A p \in Attempts, stage \in Stages : Goto(p, stage) =>
         /\ call'[p] = stage
         /\ \A q \in Attempts : q # p => call'[q] = call[q]
  BY DEF Goto, TypeOK
<1>d. {"pay", "priced", "row", "succeeded", "requires_action", "error", "hook", "accepted",
       "refused", "ask", "valued", "created", "made", "unmade", "confirm", "confirmed",
       "declined", "none", "held", "done"} \subseteq Stages
  BY DEF Stages, Paying, Asking, Confirming
<1>t. ASSUME NEW p \in Attempts, NEW s \in {"PENDING", "FAILED", "COMPLETED"},
             SaveTransaction(p, s), NEW q \in Attempts
      PROVE  status'[q] = "COMPLETED" => status[q] = "COMPLETED"
  BY <1>t DEF SaveTransaction, TypeOK
<1>1. ASSUME NEW p \in Attempts, Server(p) PROVE ChargeInv'
  <2>1. CASE PayReceived(p)
    <3>1. /\ call[p] = "pay" /\ call'[p] \in {"priced", "refused"}
          /\ \A q \in Attempts : q # p => call'[q] = call[q]
      BY <2>1, <1>g, <1>d DEF PayReceived
    <3> QED BY <2>1, <3>1 DEF PayReceived, ChargeInv, HookInv, CallInv, stripe
  <2>2. CASE PaymentCreated(p)
    <3>1. /\ call[p] = "priced" /\ call'[p] \in {"row", "refused"}
          /\ \A q \in Attempts : q # p => call'[q] = call[q]
      BY <2>2, <1>g, <1>d DEF PaymentCreated
    <3>2. \A q \in Attempts : status'[q] = "COMPLETED" => status[q] = "COMPLETED"
      BY <2>2 DEF PaymentCreated, TypeOK
    <3> QED BY <2>2, <3>1, <3>2 DEF PaymentCreated, ChargeInv, HookInv, CallInv, stripe
  <2>3. CASE PayRecorded(p)
    <3>1. /\ call[p] # "none" /\ call'[p] \in {"hook", "refused", "accepted"}
          /\ call'[p] = "hook" => call[p] = "succeeded"
          /\ \A q \in Attempts : q # p => call'[q] = call[q]
      BY <2>3, <1>g, <1>d DEF PayRecorded
    <3>2. /\ \A q \in Attempts : status'[q] = "COMPLETED" => status[q] = "COMPLETED"
          /\ UNCHANGED <<last, hook, stripe>>
      BY <2>3, <1>t DEF PayRecorded, rows
    <3> QED BY <3>1, <3>2 DEF ChargeInv, HookInv, CallInv, stripe
  <2>4. CASE PayCompleted(p)
    <3>1. /\ call[p] = "hook" /\ call'[p] \in {"accepted", "refused"}
          /\ \A q \in Attempts : q # p => call'[q] = call[q]
      BY <2>4, <1>g, <1>d DEF PayCompleted
    <3>2. \A q \in Attempts : status'[q] = "COMPLETED" => status[q] = "COMPLETED" \/ q = p
      BY <2>4 DEF PayCompleted, CompletePayment, TypeOK
    <3> QED BY <2>4, <3>1, <3>2 DEF PayCompleted, ChargeInv, HookInv, CallInv, stripe
  <2>5. CASE IntentReceived(p)
    <3>1. /\ call[p] = "ask" /\ call'[p] \in {"valued", "unmade"}
          /\ \A q \in Attempts : q # p => call'[q] = call[q]
      BY <2>5, <1>g, <1>d DEF IntentReceived
    <3> QED BY <2>5, <3>1 DEF IntentReceived, ChargeInv, HookInv, CallInv, stripe
  <2>6. CASE IntentPayment(p)
    <3>1. /\ call[p] = "valued" /\ call'[p] \in {"created", "unmade"}
          /\ \A q \in Attempts : q # p => call'[q] = call[q]
      BY <2>6, <1>g, <1>d DEF IntentPayment
    <3> QED BY <2>6, <3>1 DEF IntentPayment, ChargeInv, HookInv, CallInv, rows, stripe
  <2>7. CASE IntentCreated(p)
    <3>1. /\ call[p] = "created" /\ call'[p] \in {"made", "unmade"}
          /\ \A q \in Attempts : q # p => call'[q] = call[q]
      BY <2>7, <1>g, <1>d DEF IntentCreated
    <3>2. \A q \in Attempts : /\ status'[q] = "COMPLETED" => status[q] = "COMPLETED"
                              /\ q # p => intent'[q] = intent[q]
      BY <2>7 DEF IntentCreated, TypeOK
    <3>3. intent[p] = "none"
      BY <3>1 DEF ChargeInv, HookInv, CallInv
    <3>4. /\ intent'[p] \in {"none", "open"}
          /\ last' = last /\ hook' = hook /\ webhooks' = webhooks
      BY <2>7, <3>3 DEF IntentCreated, TypeOK, portal
    <3>5. HookInv'
      BY <3>2, <3>3, <3>4, Zenon DEF ChargeInv, HookInv
    <3>6. CallInv'
      BY <3>1, <3>2, <3>3, <3>4 DEF ChargeInv, CallInv
    <3> QED BY <3>5, <3>6 DEF ChargeInv
  <2>8. CASE PaymentSucceeded(p)
    <3>1. /\ intent[p] = "charged"
          /\ webhooks' \subseteq webhooks
          /\ last' = last /\ call' = call /\ intent' = intent
      BY <2>8 DEF PaymentSucceeded, Processed, ChargeInv, HookInv, CallInv
    <3>2. \A q \in Attempts : /\ status'[q] = "COMPLETED" => status[q] = "COMPLETED"
                              /\ hook'[q] => hook[q] \/ q = p
      BY <2>8, <1>t DEF PaymentSucceeded, TypeOK
    <3>3. HookInv'
      <4> SUFFICES ASSUME NEW q \in Attempts, hook'[q] PROVE intent'[q] = "charged"
        BY Zenon DEF HookInv
      <4>1. hook[q] \/ q = p
        BY <3>2, Zenon
      <4>2. intent[q] = "charged"
        BY <4>1, <3>1, <3>2, Zenon DEF ChargeInv, HookInv
      <4> QED BY <4>2, <3>1, <3>2
    <3>4. CallInv'
      <4>1. \A q \in Attempts : Webhook("succeeded", q) \in webhooks' => intent[q] = "charged"
        BY <3>1, <3>2 DEF ChargeInv, CallInv
      <4>2. \A q \in Attempts : status'[q] = "COMPLETED" => intent[q] = "charged"
        BY <3>1, <3>2 DEF ChargeInv, CallInv
      <4> QED BY <4>1, <4>2, <3>1, <3>2 DEF ChargeInv, CallInv
    <3> QED BY <3>3, <3>4 DEF ChargeInv
  <2>9. CASE PaymentFailed(p)
    <3>1. /\ webhooks' \subseteq webhooks /\ hook' = hook
          /\ last' = last /\ call' = call /\ intent' = intent
      BY <2>9 DEF PaymentFailed, Processed
    <3>2. \A q \in Attempts : status'[q] = "COMPLETED" => status[q] = "COMPLETED"
      BY <2>9, <1>t DEF PaymentFailed
    <3>3. HookInv'
      <4> SUFFICES ASSUME NEW q \in Attempts, hook'[q] PROVE intent'[q] = "charged"
        BY Zenon DEF HookInv
      <4>1. hook[q] \/ q = p
        BY <3>1, Zenon
      <4>2. intent[q] = "charged"
        BY <4>1, <3>1, <3>2, Zenon DEF ChargeInv, HookInv
      <4> QED BY <4>2, <3>1, <3>2
    <3>4. CallInv'
      <4>1. \A q \in Attempts : Webhook("succeeded", q) \in webhooks' => intent[q] = "charged"
        BY <3>1, <3>2 DEF ChargeInv, CallInv
      <4>2. \A q \in Attempts : status'[q] = "COMPLETED" => intent[q] = "charged"
        BY <3>1, <3>2 DEF ChargeInv, CallInv
      <4> QED BY <4>1, <4>2, <3>1, <3>2 DEF ChargeInv, CallInv
    <3> QED BY <3>3, <3>4 DEF ChargeInv
  <2>10. CASE HookRuns(p)
    <3>1. \A q \in Attempts : /\ status'[q] = "COMPLETED" => status[q] = "COMPLETED" \/ q = p
                              /\ hook'[q] => hook[q]
      BY <2>10 DEF HookRuns, CompletePayment, TypeOK
    <3>2. /\ intent[p] = "charged" /\ webhooks' = webhooks
          /\ last' = last /\ call' = call /\ intent' = intent
      BY <2>10 DEF HookRuns, ChargeInv, HookInv, CallInv, stripe
    <3>3. HookInv'
      <4> SUFFICES ASSUME NEW q \in Attempts, hook'[q] PROVE intent'[q] = "charged"
        BY Zenon DEF HookInv
      <4>1. hook[q] \/ q = p
        BY <3>1, Zenon
      <4>2. intent[q] = "charged"
        BY <4>1, <3>1, <3>2, Zenon DEF ChargeInv, HookInv
      <4> QED BY <4>2, <3>1, <3>2
    <3>4. CallInv'
      <4>1. \A q \in Attempts : Webhook("succeeded", q) \in webhooks' => intent[q] = "charged"
        BY <3>1, <3>2 DEF ChargeInv, CallInv
      <4>2. \A q \in Attempts : status'[q] = "COMPLETED" => intent[q] = "charged"
        BY <3>1, <3>2 DEF ChargeInv, CallInv
      <4> QED BY <4>1, <4>2, <3>1, <3>2 DEF ChargeInv, CallInv
    <3> QED BY <3>3, <3>4 DEF ChargeInv
  <2> QED BY <1>1, <2>1, <2>2, <2>3, <2>4, <2>5, <2>6, <2>7, <2>8, <2>9, <2>10 DEF Server
<1>2. ASSUME NEW p \in Attempts, Stripe(p) PROVE ChargeInv'
  <2>1. ASSUME NEW a \in Nat, Charge(p, a)
        PROVE  /\ intent'[p] = "charged"
               /\ \A q \in Attempts : q # p =>
                    /\ intent'[q] = intent[q]
                    /\ Webhook("succeeded", q) \in webhooks' => Webhook("succeeded", q) \in webhooks
    BY <2>1, <1>s DEF Charge, TypeOK
  <2>2. ASSUME NEW a \in Nat, Decline(p, a)
        PROVE  \A q \in Attempts :
                 /\ q # p => intent'[q] = intent[q]
                 /\ Webhook("succeeded", q) \in webhooks' => Webhook("succeeded", q) \in webhooks
    BY <2>2, <1>s DEF Decline, TypeOK
  <2>3. CASE PayBilled(p)
    <3>1. /\ call[p] = "row" /\ intent[p] = "none" /\ amount[p] \in Nat
          /\ call'[p] \in {"succeeded", "error", "requires_action"}
          /\ \A q \in Attempts : q # p => call'[q] = call[q]
          /\ UNCHANGED <<last, status, hook>>
      BY <2>3, <1>g, <1>d DEF PayBilled, ChargeInv, HookInv, CallInv, TypeOK, rows
    <3>2. CASE Charge(p, amount[p])
      BY <3>1, <3>2, <2>1 DEF ChargeInv, HookInv, CallInv
    <3>3. CASE ~Charge(p, amount[p])
      <4>1. call'[p] # "succeeded"
        BY <2>3, <3>3, <1>g, <1>d DEF PayBilled
      <4>2. \A q \in Attempts :
              /\ q # p => intent'[q] = intent[q]
              /\ Webhook("succeeded", q) \in webhooks' => Webhook("succeeded", q) \in webhooks
        BY <2>3, <3>1, <3>3, <2>2 DEF PayBilled, TypeOK
      <4> QED BY <3>1, <4>1, <4>2 DEF ChargeInv, HookInv, CallInv
    <3> QED BY <3>2, <3>3
  <2>4. CASE StripeConfirms(p)
    <3>1. /\ call[p] = "confirm" /\ call'[p] \in {"confirmed", "declined"}
          /\ cents[p] \in Nat
          /\ \A q \in Attempts : q # p => call'[q] = call[q]
          /\ UNCHANGED <<last, status, hook>>
      BY <2>4, <1>g, <1>d DEF StripeConfirms, TypeOK, rows
    <3>2. CASE Charge(p, cents[p])
      BY <3>1, <3>2, <2>1 DEF ChargeInv, HookInv, CallInv
    <3>3. CASE intent[p] = "open" /\ Decline(p, cents[p])
      <4>1. \A q \in Attempts :
              /\ q # p => intent'[q] = intent[q]
              /\ Webhook("succeeded", q) \in webhooks' => Webhook("succeeded", q) \in webhooks
        BY <3>1, <3>3, <2>2
      <4> QED BY <3>1, <3>3, <4>1 DEF ChargeInv, HookInv, CallInv
    <3>4. CASE UNCHANGED stripe
      BY <3>1, <3>4 DEF ChargeInv, HookInv, CallInv, stripe
    <3> QED BY <2>4, <3>2, <3>3, <3>4 DEF StripeConfirms
  <2> QED BY <1>2, <2>3, <2>4 DEF Stripe
<1>3. ASSUME NEW p \in Attempts, Portal(p) PROVE ChargeInv'
  <2>1. UNCHANGED <<status, hook, stripe>>
    BY <1>3 DEF Portal, PaySaved, PayAnswered, InitializeIntent, IntentAnswered, Submit,
                ConfirmAnswered, LoseAnswer, rows, stripe
  <2>2. CASE PaySaved(p) \/ InitializeIntent(p)
    <3>1. /\ p = last + 1 /\ last' = p
          /\ call'[p] \in {"pay", "ask"}
          /\ \A q \in Attempts : q # p => call'[q] = call[q]
      BY <2>2, <1>g, <1>d DEF PaySaved, InitializeIntent, Start
    <3>2. /\ intent[p] = "none"
          /\ \A q \in Attempts : last' < q => last < q /\ q # p
      BY <3>1 DEF ChargeInv, HookInv, CallInv, TypeOK, Attempts
    <3> QED BY <2>1, <3>1, <3>2 DEF ChargeInv, HookInv, CallInv, stripe
  <2>3. CASE ~(PaySaved(p) \/ InitializeIntent(p))
    <3>1. /\ call'[p] = call[p] \/ call'[p] \in {"done", "held", "confirm"}
          /\ call[p] = "none" => call'[p] = "none"
          /\ \A q \in Attempts : q # p => call'[q] = call[q]
          /\ UNCHANGED last
      BY <1>3, <2>3, <1>g, <1>d DEF Portal, PayAnswered, IntentAnswered, Submit,
                                    ConfirmAnswered, LoseAnswer
    <3> QED BY <2>1, <3>1 DEF ChargeInv, HookInv, CallInv, stripe
  <2> QED BY <2>2, <2>3
<1>4. CASE Refetch \/ Open \/ Close \/ CloseLater \/ AddCard \/ BackToSaved \/ Choose
           \/ UNCHANGED vars
  <2>1. UNCHANGED <<last, call, status, hook, stripe>>
    BY <1>4 DEF Refetch, Open, Close, CloseLater, AddCard, BackToSaved, Choose, vars, rows
  <2> QED BY <2>1 DEF ChargeInv, HookInv, CallInv, stripe
<1> QED BY <1>1, <1>2, <1>3, <1>4 DEF Next

\* ChargeInv holds throughout.
LEMMA ChargesFirst == Spec => []ChargeInv
<1> USE InvoicePaymentAssumption
<1>1. Init => ChargeInv
  <2> SUFFICES ASSUME Init PROVE ChargeInv
    OBVIOUS
  <2>1. HookInv
    BY Zenon DEF Init, HookInv
  <2>2. CallInv
    BY DEF Init, CallInv
  <2> QED BY <2>1, <2>2 DEF ChargeInv
<1>2. TypeOK /\ ChargeInv /\ [Next]_vars => ChargeInv'
  BY ChargeStep
<1> QED BY <1>1, <1>2, TypeCorrect, PTL DEF Spec

\* A payment is COMPLETED only when Stripe has charged its intent, however many
\* attempts, answers and webhooks there are.
THEOREM Charged == Spec => []CompletedIsCharged
<1>1. ChargeInv => CompletedIsCharged
  BY DEF ChargeInv, CallInv, CompletedIsCharged
<1> QED BY <1>1, ChargesFirst, PTL

\* No step takes COMPLETED back: the only rows that are written anew belong to
\* attempts that Stripe has not been asked about, and a late failure spares it.
LEMMA FinalStep ==
  ASSUME InvoicePaymentAssumption, TypeOK, ChargeInv, [Next]_vars
  PROVE  \A q \in Attempts : status[q] = "COMPLETED" => status'[q] = "COMPLETED"
<1> USE InvoicePaymentAssumption
<1> SUFFICES ASSUME NEW q \in Attempts, status[q] = "COMPLETED" PROVE status'[q] = "COMPLETED"
  OBVIOUS
<1>0. intent[q] = "charged"
  BY DEF ChargeInv, CallInv
<1>1. ASSUME NEW p \in Attempts, Server(p) PROVE status'[q] = "COMPLETED"
  <2>1. ASSUME NEW s \in {"PENDING", "FAILED", "COMPLETED"}, SaveTransaction(p, s)
        PROVE  status'[q] = "COMPLETED"
    BY <2>1 DEF SaveTransaction, TypeOK
  <2>2. CompletePayment(p) => status'[q] = "COMPLETED"
    BY DEF CompletePayment, TypeOK
  <2>3. CASE PaymentCreated(p)
    <3>1. p # q
      BY <2>3, <1>0 DEF PaymentCreated, ChargeInv, CallInv
    <3> QED BY <2>3, <3>1 DEF PaymentCreated, TypeOK
  <2>4. CASE IntentCreated(p)
    <3>1. p # q
      BY <2>4, <1>0 DEF IntentCreated, ChargeInv, CallInv
    <3> QED BY <2>4, <3>1 DEF IntentCreated, TypeOK
  <2>5. CASE PayRecorded(p)
    BY <2>5, <2>1 DEF PayRecorded, rows
  <2>6. CASE PayCompleted(p) \/ HookRuns(p)
    BY <2>6, <2>2 DEF PayCompleted, HookRuns
  <2>7. CASE PaymentSucceeded(p) \/ PaymentFailed(p)
    BY <2>7, <2>1 DEF PaymentSucceeded, PaymentFailed
  <2>8. CASE PayReceived(p) \/ IntentReceived(p) \/ IntentPayment(p)
    BY <2>8 DEF PayReceived, IntentReceived, IntentPayment, rows
  <2> QED BY <1>1, <2>3, <2>4, <2>5, <2>6, <2>7, <2>8 DEF Server
<1>2. ASSUME NEW p \in Attempts, Stripe(p) \/ Portal(p) PROVE status'[q] = "COMPLETED"
  BY <1>2 DEF Stripe, PayBilled, StripeConfirms, Portal, PaySaved, PayAnswered,
              InitializeIntent, IntentAnswered, Submit, ConfirmAnswered, LoseAnswer, rows
<1>3. CASE Refetch \/ Open \/ Close \/ CloseLater \/ AddCard \/ BackToSaved \/ Choose
           \/ UNCHANGED vars
  BY <1>3 DEF Refetch, Open, Close, CloseLater, AddCard, BackToSaved, Choose, vars, rows
<1> QED BY <1>1, <1>2, <1>3 DEF Next

\* A COMPLETED payment stays so, whatever comes late.
THEOREM Final == Spec => CompletedStays
<1>1. TypeOK /\ ChargeInv /\ [Next]_vars
      => [\A p \in Attempts : status[p] = "COMPLETED" => status'[p] = "COMPLETED"]_vars
  BY FinalStep, InvoicePaymentAssumption
<1> QED BY <1>1, TypeCorrect, ChargesFirst, PTL DEF Spec, CompletedStays

-----------------------------------------------------------------------------
\* What is about to be charged, or has been, is a part of the invoice.
AmountInv == \A q \in Attempts :
  /\ call[q] \in {"priced", "row", "valued", "created"} => amount[q] \in 1..Total
  /\ intent[q] # "none" => amount[q] \in 1..Total /\ cents[q] \in 1..Total

\* An amount is written before Stripe is asked, and passes the server's check.
LEMMA AmountStep ==
  ASSUME InvoicePaymentAssumption, TypeOK, ChargeInv, AmountInv, [Next]_vars
  PROVE  AmountInv'
<1> USE InvoicePaymentAssumption
<1>g. \A p \in Attempts, stage \in Stages : Goto(p, stage) =>
         /\ call'[p] = stage
         /\ \A q \in Attempts : q # p => call'[q] = call[q]
  BY DEF Goto, TypeOK
<1>d. {"pay", "priced", "row", "succeeded", "requires_action", "error", "hook", "accepted",
       "refused", "ask", "valued", "created", "made", "unmade", "confirm", "confirmed",
       "declined", "none", "held", "done"} \subseteq Stages
  BY DEF Stages, Paying, Asking, Confirming
<1>r. Remaining \in Int /\ Remaining <= Total /\ Total \in Nat
  BY DEF Remaining, TypeOK
<1>1. ASSUME NEW p \in Attempts, Server(p) PROVE AmountInv'
  <2>1. CASE PayReceived(p) \/ IntentReceived(p)
    <3>1. /\ call[p] \in {"pay", "ask"} /\ intent[p] = "none"
          /\ call'[p] \in {"priced", "valued"} => amount'[p] \in 1..Total
          /\ call'[p] \in {"priced", "valued", "refused", "unmade"}
          /\ \A q \in Attempts : q # p => call'[q] = call[q] /\ amount'[q] = amount[q]
          /\ UNCHANGED <<intent, cents>>
      <4>1. (IF ask[p] = 0 THEN Remaining ELSE ask[p]) \in Int
        BY <1>r DEF TypeOK
      <4> QED BY <2>1, <4>1, <1>g, <1>d, <1>r DEF PayReceived, IntentReceived, Payable, TypeOK,
                                                  ChargeInv, CallInv, stripe
    <3> QED BY <3>1 DEF AmountInv
  <2>2. CASE PaymentCreated(p) \/ IntentPayment(p)
    <3>1. /\ call[p] \in {"priced", "valued"} /\ call'[p] \in {"row", "created", "refused", "unmade"}
          /\ \A q \in Attempts : q # p => call'[q] = call[q]
          /\ UNCHANGED <<amount, intent, cents>>
      BY <2>2, <1>g, <1>d DEF PaymentCreated, IntentPayment, rows, stripe
    <3> QED BY <3>1 DEF AmountInv
  <2>3. CASE IntentCreated(p)
    <3>1. /\ call[p] = "created" /\ call'[p] \in {"made", "unmade"} /\ amount' = amount
          /\ \A q \in Attempts : q # p =>
               call'[q] = call[q] /\ intent'[q] = intent[q] /\ cents'[q] = cents[q]
          /\ (intent' = intent /\ cents' = cents) \/ cents'[p] \in 1..Total
      BY <2>3, <1>g, <1>d, <1>r DEF IntentCreated, TypeOK
    <3> QED BY <3>1 DEF AmountInv
  <2>4. CASE PayRecorded(p) \/ PayCompleted(p)
    <3>1. /\ call'[p] \in {"hook", "refused", "accepted"}
          /\ \A q \in Attempts : q # p => call'[q] = call[q]
          /\ UNCHANGED <<amount, intent, cents>>
      BY <2>4, <1>g, <1>d DEF PayRecorded, PayCompleted, rows, stripe
    <3> QED BY <3>1 DEF AmountInv
  <2>5. CASE PaymentSucceeded(p) \/ PaymentFailed(p) \/ HookRuns(p)
    BY <2>5 DEF PaymentSucceeded, PaymentFailed, HookRuns, stripe, AmountInv
  <2> QED BY <1>1, <2>1, <2>2, <2>3, <2>4, <2>5 DEF Server
<1>2. ASSUME NEW p \in Attempts, Stripe(p) PROVE AmountInv'
  <2>1. ASSUME NEW a \in Nat, Charge(p, a) \/ Decline(p, a)
        PROVE  cents'[p] = a /\ \A q \in Attempts : q # p =>
                 intent'[q] = intent[q] /\ cents'[q] = cents[q]
    BY <2>1 DEF Charge, Decline, TypeOK
  <2>2. CASE PayBilled(p)
    <3>1. /\ call[p] = "row" /\ call'[p] \in {"succeeded", "error", "requires_action"}
          /\ \A q \in Attempts : q # p => call'[q] = call[q]
          /\ amount' = amount /\ amount[p] \in Nat
      BY <2>2, <1>g, <1>d DEF PayBilled, rows, TypeOK
    <3>2. cents'[p] = amount[p] /\ \A q \in Attempts : q # p =>
            intent'[q] = intent[q] /\ cents'[q] = cents[q]
      BY <2>2, <3>1, <2>1 DEF PayBilled, TypeOK
    <3> QED BY <3>1, <3>2 DEF AmountInv
  <2>3. CASE StripeConfirms(p)
    <3>1. /\ call'[p] \in {"confirmed", "declined"} /\ cents[p] \in Nat
          /\ \A q \in Attempts : q # p => call'[q] = call[q]
          /\ amount' = amount
      BY <2>3, <1>g, <1>d DEF StripeConfirms, rows, TypeOK
    <3>2. \/ UNCHANGED <<intent, cents>>
          \/ /\ intent[p] = "open" /\ cents'[p] = cents[p]
             /\ \A q \in Attempts : q # p => intent'[q] = intent[q] /\ cents'[q] = cents[q]
      BY <2>3, <3>1, <2>1 DEF StripeConfirms, stripe
    <3> QED BY <3>1, <3>2 DEF AmountInv
  <2> QED BY <1>2, <2>2, <2>3 DEF Stripe
<1>3. ASSUME NEW p \in Attempts, Portal(p) PROVE AmountInv'
  <2>1. UNCHANGED <<amount, intent, cents>>
    BY <1>3 DEF Portal, PaySaved, PayAnswered, InitializeIntent, IntentAnswered, Submit,
                ConfirmAnswered, LoseAnswer, rows, stripe
  <2>2. /\ \A q \in Attempts : q # p => call'[q] = call[q]
        /\ call'[p] = call[p] \/ call'[p] \in {"pay", "ask", "done", "held", "confirm"}
    BY <1>3, <1>g, <1>d DEF Portal, PaySaved, PayAnswered, InitializeIntent, Start,
                IntentAnswered, Submit, ConfirmAnswered, LoseAnswer
  <2> QED BY <2>1, <2>2 DEF AmountInv
<1>4. CASE Refetch \/ Open \/ Close \/ CloseLater \/ AddCard \/ BackToSaved \/ Choose
           \/ UNCHANGED vars
  <2>1. UNCHANGED <<call, amount, intent, cents>>
    BY <1>4 DEF Refetch, Open, Close, CloseLater, AddCard, BackToSaved, Choose, vars, rows, stripe
  <2> QED BY <2>1 DEF AmountInv
<1> QED BY <1>1, <1>2, <1>3, <1>4 DEF Next

\* AmountInv holds throughout.
LEMMA AmountsFit == Spec => []AmountInv
<1>1. Init => AmountInv
  BY DEF Init, AmountInv
<1>2. TypeOK /\ ChargeInv /\ AmountInv /\ [Next]_vars => AmountInv'
  BY AmountStep, InvoicePaymentAssumption
<1> QED BY <1>1, <1>2, TypeCorrect, ChargesFirst, PTL DEF Spec

\* Every step is a charge, a completion or neither.
LEMMA PurchaseStep ==
  ASSUME InvoicePaymentAssumption, TypeOK, ChargeInv, AmountInv, [Next]_vars
  PROVE  [Bill!Next]_<<[p \in Attempts |-> Phase(p)], taken, paid>>
<1> USE InvoicePaymentAssumption
<1> DEFINE Step == [Bill!Next]_<<[p \in Attempts |-> Phase(p)], taken, paid>>
<1>p. \A q \in Attempts : status[q] = "COMPLETED" => intent[q] = "charged"
  BY DEF ChargeInv, CallInv
\* What each kind of step is in the abstract specification.
<1>s. ASSUME taken' = taken, paid' = paid,
             \A q \in Attempts : /\ status'[q] = "COMPLETED" <=> status[q] = "COMPLETED"
                                 /\ intent'[q] = "charged" <=> intent[q] = "charged"
      PROVE  Step
  <2>1. \A q \in Attempts : Phase(q)' = Phase(q)
    BY <1>s DEF Phase
  <2> QED BY <1>s, <2>1
<1>c. ASSUME NEW p \in Attempts, NEW a \in 1..Total, Charge(p, a), intent[p] # "charged",
             UNCHANGED rows
      PROVE  Step
  <2>1. /\ intent'[p] = "charged" /\ taken' = taken + a /\ paid' = paid /\ status' = status
        /\ \A q \in Attempts : q # p => intent'[q] = intent[q]
    BY <1>c DEF Charge, TypeOK, rows
  <2>2. /\ Phase(p) = "none" /\ Phase(p)' = "charged"
        /\ \A q \in Attempts : q # p => Phase(q)' = Phase(q)
    BY <1>c, <1>p, <2>1 DEF Phase
  <2>3. Bill!Take(p)
    BY <2>1, <2>2 DEF Bill!Take, Bill!Moves
  <2> QED BY <2>3 DEF Bill!Next
<1>m. ASSUME NEW p \in Attempts, CompletePayment(p), intent[p] = "charged",
             UNCHANGED <<intent, taken>>
      PROVE  Step
  <2>1. CASE status[p] = "COMPLETED"
    BY <1>m, <2>1, <1>s DEF CompletePayment
  <2>2. CASE status[p] # "COMPLETED"
    <3>1. /\ status'[p] = "COMPLETED" /\ paid' = paid + amount[p]
          /\ \A q \in Attempts : q # p => status'[q] = status[q]
      BY <1>m, <2>2 DEF CompletePayment, TypeOK
    <3>2. /\ Phase(p) = "charged" /\ Phase(p)' = "noted"
          /\ \A q \in Attempts : q # p => Phase(q)' = Phase(q)
      BY <1>m, <2>2, <3>1 DEF Phase
    <3>3. amount[p] \in 1..Total
      BY <1>m DEF AmountInv
    <3>4. Bill!Note(p)
      BY <1>m, <3>1, <3>2, <3>3 DEF Bill!Note, Bill!Moves
    <3> QED BY <3>4 DEF Bill!Next
  <2> QED BY <2>1, <2>2
<1>1. ASSUME NEW p \in Attempts, Server(p) PROVE Step
  <2>1. CASE PayReceived(p) \/ IntentReceived(p) \/ IntentPayment(p)
    BY <2>1, <1>s DEF PayReceived, IntentReceived, IntentPayment, rows, stripe
  <2>2. CASE PaymentCreated(p)
    <3>1. intent[p] = "none"
      BY <2>2 DEF PaymentCreated, ChargeInv, CallInv
    <3> QED BY <2>2, <3>1, <1>p, <1>s DEF PaymentCreated, TypeOK, stripe
  <2>3. CASE IntentCreated(p)
    <3>1. intent[p] = "none"
      BY <2>3 DEF IntentCreated, ChargeInv, CallInv
    <3> QED BY <2>3, <3>1, <1>p, <1>s DEF IntentCreated, TypeOK
  <2>4. CASE PayRecorded(p)
    BY <2>4, <1>s DEF PayRecorded, SaveTransaction, TypeOK, rows, stripe
  <2>5. CASE PaymentSucceeded(p) \/ PaymentFailed(p)
    BY <2>5, <1>s DEF PaymentSucceeded, PaymentFailed, SaveTransaction, TypeOK
  <2>6. CASE PayCompleted(p)
    <3>1. intent[p] = "charged"
      BY <2>6 DEF PayCompleted, ChargeInv, CallInv
    <3> QED BY <2>6, <3>1, <1>m, <1>s DEF PayCompleted, stripe
  <2>7. CASE HookRuns(p)
    <3>1. intent[p] = "charged"
      BY <2>7, Zenon DEF HookRuns, ChargeInv, HookInv
    <3> QED BY <2>7, <3>1, <1>m, <1>s DEF HookRuns, stripe
  <2> QED BY <1>1, <2>1, <2>2, <2>3, <2>4, <2>5, <2>6, <2>7 DEF Server
<1>2. ASSUME NEW p \in Attempts, Stripe(p) PROVE Step
  <2>1. CASE PayBilled(p)
    <3>1. intent[p] = "none" /\ amount[p] \in 1..Total /\ UNCHANGED rows
      BY <2>1 DEF PayBilled, ChargeInv, CallInv, AmountInv
    <3>2. CASE ~Charge(p, amount[p])
      <4>1. /\ taken' = taken /\ intent'[p] # "charged"
            /\ \A q \in Attempts : q # p => intent'[q] = intent[q]
        BY <2>1, <3>2 DEF PayBilled, Decline, TypeOK
      <4> QED BY <3>1, <4>1, <1>s DEF rows
    <3> QED BY <3>1, <3>2, <1>c
  <2>2. CASE StripeConfirms(p)
    <3>1. UNCHANGED rows /\ (intent[p] # "none" => cents[p] \in 1..Total)
      BY <2>2 DEF StripeConfirms, AmountInv
    <3>2. CASE intent[p] = "open" /\ Charge(p, cents[p])
      BY <3>1, <3>2, <1>c
    <3>3. CASE ~(intent[p] = "open" /\ Charge(p, cents[p]))
      <4>1. taken' = taken /\ intent' = intent
        BY <2>2, <3>3 DEF StripeConfirms, Decline, stripe, TypeOK
      <4> QED BY <3>1, <4>1, <1>s DEF rows
    <3> QED BY <3>2, <3>3
  <2> QED BY <1>2, <2>1, <2>2 DEF Stripe
<1>3. ASSUME NEW p \in Attempts, Portal(p) PROVE Step
  <2>1. UNCHANGED <<status, intent, taken, paid>>
    BY <1>3 DEF Portal, PaySaved, PayAnswered, InitializeIntent, IntentAnswered, Submit,
                ConfirmAnswered, LoseAnswer, rows, stripe
  <2> QED BY <2>1, <1>s
<1>4. CASE Refetch \/ Open \/ Close \/ CloseLater \/ AddCard \/ BackToSaved \/ Choose
           \/ UNCHANGED vars
  <2>1. UNCHANGED <<status, intent, taken, paid>>
    BY <1>4 DEF Refetch, Open, Close, CloseLater, AddCard, BackToSaved, Choose, vars, rows, stripe
  <2> QED BY <2>1, <1>s
<1> QED BY <1>1, <1>2, <1>3, <1>4 DEF Next

\* The code implements the abstract purchase: whatever comes late, twice or not at
\* all, an attempt is charged once and noted once after that, for good.
THEOREM ImplementsPurchase == Spec => PurchaseSpec
<1>1. Init => Bill!Init
  <2> SUFFICES ASSUME Init PROVE Bill!Init
    OBVIOUS
  <2>1. \A p \in Attempts : Phase(p) = "none"
    BY DEF Init, Phase
  <2> QED BY <2>1 DEF Init, Bill!Init
<1>2. TypeOK /\ ChargeInv /\ AmountInv /\ [Next]_vars
      => [Bill!Next]_<<[p \in Attempts |-> Phase(p)], taken, paid>>
  BY PurchaseStep, InvoicePaymentAssumption
<1> QED BY <1>1, <1>2, TypeCorrect, ChargesFirst, AmountsFit, PTL
        DEF Spec, PurchaseSpec, Bill!Spec

-----------------------------------------------------------------------------
\* A transaction is finished by a charge only, and a secret that can be confirmed
\* has one: what its webhook will find.
TxnInv == \A q \in Attempts :
  /\ txn[q] = "COMPLETED" => intent[q] = "charged"
  /\ call[q] \in {"made", "held", "confirm", "confirmed", "declined"} => txn[q] # "none"

TrackInv == TxnInv /\ ChargesTracked

\* While no process stops, whoever is to note a charge does it or leaves it to
\* another.
LEMMA TrackStep ==
  ASSUME InvoicePaymentAssumption, "loss" \notin Faults, TypeOK, ChargeInv, TrackInv, [Next]_vars
  PROVE  TrackInv'
<1> USE InvoicePaymentAssumption
<1>g. \A p \in Attempts, stage \in Stages : Goto(p, stage) =>
         /\ call'[p] = stage
         /\ \A q \in Attempts : q # p => call'[q] = call[q]
  BY DEF Goto, TypeOK
<1>d. {"pay", "priced", "row", "succeeded", "requires_action", "error", "hook", "accepted",
       "refused", "ask", "valued", "created", "made", "unmade", "confirm", "confirmed",
       "declined", "none", "held", "done"} \subseteq Stages
  BY DEF Stages, Paying, Asking, Confirming
<1>w. \A p, q \in Attempts : Webhook("succeeded", q) # Webhook("failed", p)
      /\ (Webhook("succeeded", q) = Webhook("succeeded", p) => q = p)
  BY DEF Webhook
<1>f. \A q \in Attempts : status[q] = "COMPLETED" => status'[q] = "COMPLETED"
  BY FinalStep
\* A step about one attempt, with the attempt's own charge still tracked.
<1>s. ASSUME NEW p \in Attempts,
             \A q \in Attempts : q # p => /\ call'[q] = call[q]
                                          /\ intent'[q] = intent[q]
                                          /\ txn'[q] = txn[q]
                                          /\ hook[q] => hook'[q]
                                          /\ Webhook("succeeded", q) \in webhooks =>
                                               Webhook("succeeded", q) \in webhooks',
             txn'[p] = "COMPLETED" => intent'[p] = "charged",
             call'[p] \in {"made", "held", "confirm", "confirmed", "declined"} => txn'[p] # "none",
             intent'[p] = "charged" => status'[p] = "COMPLETED" \/ Tracked(p)'
      PROVE  TrackInv'
  <2>1. TxnInv'
    BY <1>s DEF TrackInv, TxnInv
  <2>2. ASSUME NEW q \in Attempts, q # p, Tracked(q) PROVE Tracked(q)'
    <3>1. CASE hook[q]
      BY <1>s, <2>2, <3>1, Zenon DEF Tracked
    <3>2. CASE call[q] \in {"succeeded", "hook"}
      <4>1. call'[q] \in {"succeeded", "hook"}
        BY <1>s, <2>2, <3>2
      <4> QED BY <4>1, Zenon DEF Tracked
    <3>3. CASE Webhook("succeeded", q) \in webhooks /\ txn[q] \notin {"none", "COMPLETED"}
      <4>1. Webhook("succeeded", q) \in webhooks' /\ txn'[q] \notin {"none", "COMPLETED"}
        BY <1>s, <2>2, <3>3
      <4>2. Webhook("succeeded", q)' = Webhook("succeeded", q)
        BY DEF Webhook
      <4> QED BY <4>1, <4>2, Zenon DEF Tracked
    <3> QED BY <2>2, <3>1, <3>2, <3>3, Zenon DEF Tracked
  <2>3. ASSUME NEW q \in Attempts, intent'[q] = "charged"
        PROVE  status'[q] = "COMPLETED" \/ Tracked(q)'
    <3>1. CASE q = p
      BY <1>s, <2>3, <3>1, Zenon
    <3>2. CASE q # p
      <4>1. intent[q] = "charged"
        BY <1>s, <2>3, <3>2
      <4>2. status[q] = "COMPLETED" \/ Tracked(q)
        BY <4>1, Zenon DEF TrackInv, ChargesTracked
      <4> QED BY <2>2, <3>2, <4>2, <1>f, Zenon
    <3> QED BY <3>1, <3>2
  <2> QED BY <2>1, <2>3, Zenon DEF TrackInv, ChargesTracked
\* The attempt's own charge is tracked as before.
<1>k. ASSUME NEW p \in Attempts,
             intent'[p] = "charged" => intent[p] = "charged",
             call[p] \in {"succeeded", "hook"} => call'[p] \in {"succeeded", "hook"},
             hook[p] => hook'[p],
             Webhook("succeeded", p) \in webhooks => Webhook("succeeded", p) \in webhooks',
             txn[p] \notin {"none", "COMPLETED"} => txn'[p] \notin {"none", "COMPLETED"}
      PROVE  intent'[p] = "charged" => status'[p] = "COMPLETED" \/ Tracked(p)'
  <2> SUFFICES ASSUME intent'[p] = "charged" PROVE status'[p] = "COMPLETED" \/ Tracked(p)'
    OBVIOUS
  <2>1. status[p] = "COMPLETED" \/ Tracked(p)
    BY <1>k, Zenon DEF TrackInv, ChargesTracked
  <2>2. Tracked(p) => Tracked(p)'
    <3>1. Webhook("succeeded", p)' = Webhook("succeeded", p)
      BY DEF Webhook
    <3> QED BY <1>k, <3>1, Zenon DEF Tracked
  <2> QED BY <2>1, <2>2, <1>f, Zenon
<1>1. ASSUME NEW p \in Attempts, Server(p) PROVE TrackInv'
  <2>1. CASE PayReceived(p) \/ PaymentCreated(p) \/ IntentReceived(p) \/ IntentPayment(p)
    <3>1. /\ call[p] \in {"pay", "priced", "ask", "valued"}
          /\ call'[p] \in {"priced", "row", "refused", "valued", "created", "unmade"}
          /\ \A q \in Attempts : q # p => call'[q] = call[q]
          /\ UNCHANGED <<intent, txn, hook, webhooks>>
      BY <2>1, <1>g, <1>d DEF PayReceived, PaymentCreated, IntentReceived, IntentPayment,
                              rows, stripe
    <3>2. intent'[p] # "charged"
      BY <3>1 DEF ChargeInv, CallInv
    <3> QED BY <3>1, <3>2, <1>s DEF TrackInv, TxnInv
  <2>2. CASE PayRecorded(p)
    <3>1. /\ \A q \in Attempts : q # p => call'[q] = call[q] /\ txn'[q] = txn[q]
          /\ call'[p] \in {"hook", "refused", "accepted"}
          /\ UNCHANGED <<intent, hook, webhooks>>
      BY <2>2, <1>g, <1>d DEF PayRecorded, SaveTransaction, rows, stripe, TypeOK
    <3>2. CASE call[p] = "succeeded"
      <4>1. call'[p] = "hook"
        BY <2>2, <3>2, <1>g, <1>d DEF PayRecorded
      <4>2. intent'[p] = "charged"
        BY <3>1, <3>2 DEF ChargeInv, CallInv
      <4>3. Tracked(p)'
        BY <4>1, Zenon DEF Tracked
      <4> QED BY <3>1, <4>1, <4>2, <4>3, <1>s
    <3>3. CASE call[p] # "succeeded"
      <4>1. txn' = txn \/ txn'[p] = "PENDING"
        BY <2>2, <3>3 DEF PayRecorded, SaveTransaction, rows, TypeOK
      <4>2. call[p] \in {"requires_action", "error"}
        BY <2>2, <3>3 DEF PayRecorded
      <4>3. intent'[p] = "charged" => status'[p] = "COMPLETED" \/ Tracked(p)'
        BY <3>1, <4>1, <4>2, <1>k
      <4> QED BY <3>1, <4>1, <4>3, <1>s DEF TrackInv, TxnInv
    <3> QED BY <3>2, <3>3
  <2>3. CASE PayCompleted(p)
    <3>1. /\ call'[p] \in {"accepted", "refused"}
          /\ \A q \in Attempts : q # p => call'[q] = call[q]
          /\ UNCHANGED <<intent, txn, hook, webhooks>>
      BY <2>3, <1>g, <1>d DEF PayCompleted, stripe
    <3>2. status'[p] = "COMPLETED"
      BY <2>3 DEF PayCompleted, CompletePayment, TypeOK
    <3> QED BY <3>1, <3>2, <1>s DEF TrackInv, TxnInv
  <2>4. CASE IntentCreated(p)
    <3>1. /\ call[p] = "created"
          /\ \/ call'[p] = "unmade" /\ txn' = txn
             \/ call'[p] = "made" /\ txn'[p] = "PROCESSING"
          /\ \A q \in Attempts : q # p =>
               call'[q] = call[q] /\ intent'[q] = intent[q] /\ txn'[q] = txn[q]
          /\ UNCHANGED <<hook, webhooks>>
      BY <2>4, <1>g, <1>d DEF IntentCreated, TypeOK
    <3>2. intent[p] = "none"
      BY <3>1 DEF ChargeInv, CallInv
    <3>3. intent'[p] # "charged"
      BY <2>4, <3>2 DEF IntentCreated, TypeOK
    <3>4. txn'[p] # "COMPLETED"
      BY <3>1, <3>2 DEF TrackInv, TxnInv
    <3> QED BY <3>1, <3>3, <3>4, <1>s
  <2>5. CASE PaymentSucceeded(p)
    <3>1. /\ UNCHANGED <<call, intent>> /\ intent[p] = "charged"
          /\ \A q \in Attempts : q # p => txn'[q] = txn[q]
          /\ txn[p] \notin {"none", "COMPLETED"} => txn'[p] = "COMPLETED"
          /\ txn[p] \in {"none", "COMPLETED"} => txn' = txn
          /\ webhooks \ {Webhook("succeeded", p)} \subseteq webhooks'
      BY <2>5 DEF PaymentSucceeded, Processed, SaveTransaction, TypeOK, ChargeInv, CallInv
    <3>2. \A q \in Attempts : q # p => (hook[q] => hook'[q])
      BY <2>5 DEF PaymentSucceeded, TypeOK
    <3>3. status'[p] = "COMPLETED" \/ Tracked(p)'
      <4>1. CASE txn[p] \in {"none", "COMPLETED"}
        <5>1. hook' = hook
          BY <2>5, <4>1 DEF PaymentSucceeded
        <5>2. status[p] = "COMPLETED" \/ hook[p] \/ call[p] \in {"succeeded", "hook"}
          BY <3>1, <4>1, Zenon DEF TrackInv, ChargesTracked, Tracked
        <5> QED BY <3>1, <5>1, <5>2, <1>f, Zenon DEF Tracked
      <4>2. CASE txn[p] \notin {"none", "COMPLETED"}
        <5>1. hook' = [hook EXCEPT ![p] = hook[p] \/ status[p] # "COMPLETED"]
          BY <2>5, <4>2 DEF PaymentSucceeded
        <5>2. hook \in [Attempts -> BOOLEAN]
          BY DEF TypeOK
        <5>3. hook'[p] = (hook[p] \/ status[p] # "COMPLETED")
          BY <5>1, <5>2, Zenon
        <5>4. status[p] = "COMPLETED" \/ hook'[p]
          BY <5>3, Zenon
        <5> QED BY <5>4, <1>f, Zenon DEF Tracked
      <4> QED BY <4>1, <4>2
    <3>4. call[p] \in {"made", "held", "confirm", "confirmed", "declined"} => txn'[p] # "none"
      BY <3>1 DEF TrackInv, TxnInv
    <3> QED BY <3>1, <3>2, <3>3, <3>4, <1>w, <1>s
  <2>6. CASE PaymentFailed(p)
    <3>1. /\ UNCHANGED <<call, intent, hook>>
          /\ \A q \in Attempts : q # p => txn'[q] = txn[q]
          /\ txn' = txn \/ (txn[p] # "none" /\ txn'[p] = "FAILED")
          /\ webhooks \ {Webhook("failed", p)} \subseteq webhooks'
      BY <2>6 DEF PaymentFailed, Processed, SaveTransaction, TypeOK
    <3>2. \A q \in Attempts : Webhook("succeeded", q) \in webhooks
                                => Webhook("succeeded", q) \in webhooks'
      BY <3>1, <1>w
    <3>3. intent'[p] = "charged" => status'[p] = "COMPLETED" \/ Tracked(p)'
      BY <3>1, <3>2, <1>k
    <3> QED BY <3>1, <3>2, <3>3, <1>s DEF TrackInv, TxnInv
  <2>7. CASE HookRuns(p)
    <3>1. UNCHANGED <<call, intent, txn, webhooks>>
      BY <2>7 DEF HookRuns, stripe
    <3>2. /\ status'[p] = "COMPLETED"
          /\ \A q \in Attempts : q # p => (hook[q] => hook'[q])
      BY <2>7 DEF HookRuns, CompletePayment, TypeOK
    <3> QED BY <3>1, <3>2, <1>s DEF TrackInv, TxnInv
  <2> QED BY <1>1, <2>1, <2>2, <2>3, <2>4, <2>5, <2>6, <2>7 DEF Server
<1>2. ASSUME NEW p \in Attempts, Stripe(p) PROVE TrackInv'
  <2>1. ASSUME NEW a \in Nat, Charge(p, a)
        PROVE  /\ intent'[p] = "charged" /\ webhooks \subseteq webhooks'
               /\ Webhook("succeeded", p) \in webhooks'
               /\ \A q \in Attempts : q # p => intent'[q] = intent[q]
    BY <2>1 DEF Charge, TypeOK
  <2>2. ASSUME NEW a \in Nat, Decline(p, a)
        PROVE  /\ intent'[p] = "open" /\ webhooks \subseteq webhooks'
               /\ \A q \in Attempts : q # p => intent'[q] = intent[q]
    BY <2>2 DEF Decline, TypeOK
  <2>3. CASE PayBilled(p)
    <3>1. /\ call[p] = "row" /\ intent[p] = "none" /\ amount[p] \in Nat
          /\ \A q \in Attempts : q # p => call'[q] = call[q]
          /\ call'[p] \in {"succeeded", "error", "requires_action"}
          /\ UNCHANGED <<txn, hook>>
      BY <2>3, <1>g, <1>d DEF PayBilled, TypeOK, rows, ChargeInv, CallInv
    <3>2. txn'[p] # "COMPLETED"
      BY <3>1 DEF TrackInv, TxnInv
    <3>3. CASE Charge(p, amount[p])
      <4>1. CASE Goto(p, "succeeded")
        <5>1. call'[p] = "succeeded"
          BY <4>1, <1>g, <1>d
        <5>2. Tracked(p)'
          BY <5>1, Zenon DEF Tracked
        <5> QED BY <3>1, <3>2, <3>3, <5>2, <2>1, <1>s
      <4>2. CASE ~Goto(p, "succeeded")
        \* The one way to lose track.
        <5>1. intent' # [intent EXCEPT ![p] = "open"] /\ intent' # [intent EXCEPT ![p] = "action"]
          BY <3>1, <3>3 DEF Charge, TypeOK
        <5> QED BY <2>3, <3>3, <4>2, <5>1 DEF PayBilled, Decline
      <4> QED BY <4>1, <4>2
    <3>4. CASE ~Charge(p, amount[p])
      <4>1. /\ intent'[p] # "charged" /\ webhooks \subseteq webhooks'
            /\ \A q \in Attempts : q # p => intent'[q] = intent[q]
        BY <2>3, <3>1, <3>4, <2>2 DEF PayBilled, TypeOK
      <4> QED BY <3>1, <3>2, <4>1, <1>s
    <3> QED BY <3>3, <3>4
  <2>4. CASE StripeConfirms(p)
    <3>1. /\ call[p] = "confirm" /\ call'[p] \in {"confirmed", "declined"} /\ cents[p] \in Nat
          /\ txn[p] # "none"
          /\ \A q \in Attempts : q # p => call'[q] = call[q]
          /\ UNCHANGED <<txn, hook>>
      BY <2>4, <1>g, <1>d DEF StripeConfirms, TypeOK, rows, TrackInv, TxnInv
    <3>2. CASE intent[p] = "open" /\ Charge(p, cents[p])
      <4>1. txn'[p] \notin {"none", "COMPLETED"} /\ Webhook("succeeded", p) \in webhooks'
        BY <3>1, <3>2, <2>1 DEF TrackInv, TxnInv
      <4>2. Tracked(p)'
        <5>1. Webhook("succeeded", p)' = Webhook("succeeded", p)
          BY DEF Webhook
        <5> QED BY <4>1, <5>1, Zenon DEF Tracked
      <4> QED BY <3>1, <3>2, <4>1, <4>2, <2>1, <1>s
    <3>3. CASE intent[p] = "open" /\ Decline(p, cents[p])
      <4>1. txn[p] # "COMPLETED"
        BY <3>3 DEF TrackInv, TxnInv
      <4> QED BY <3>1, <3>3, <4>1, <2>2, <1>s
    <3>4. CASE UNCHANGED stripe
      <4>1. intent'[p] = "charged" => status'[p] = "COMPLETED" \/ Tracked(p)'
        BY <3>1, <3>4, <1>k DEF stripe
      <4> QED BY <3>1, <3>4, <4>1, <1>s DEF stripe, TrackInv, TxnInv
    <3> QED BY <2>4, <3>2, <3>3, <3>4 DEF StripeConfirms
  <2> QED BY <1>2, <2>3, <2>4 DEF Stripe
<1>3. ASSUME NEW p \in Attempts, Portal(p) PROVE TrackInv'
  <2>1. UNCHANGED <<txn, hook, intent, webhooks>>
    BY <1>3 DEF Portal, PaySaved, PayAnswered, InitializeIntent, IntentAnswered, Submit,
                ConfirmAnswered, LoseAnswer, rows, stripe
  <2>2. \A q \in Attempts : q # p => call'[q] = call[q]
    BY <1>3, <1>g, <1>d DEF Portal, PaySaved, PayAnswered, InitializeIntent, Start,
                IntentAnswered, Submit, ConfirmAnswered, LoseAnswer
  <2>3. /\ call[p] \in {"succeeded", "hook"} => call'[p] \in {"succeeded", "hook"}
        /\ call'[p] \in {"made", "held", "confirm", "confirmed", "declined"}
             => call[p] \in {"made", "held", "confirm", "confirmed", "declined"}
    <3>1. CASE PaySaved(p) \/ InitializeIntent(p)
      BY <3>1, <1>g, <1>d DEF PaySaved, InitializeIntent, Start, ChargeInv, CallInv, TypeOK
    <3>2. CASE ~(PaySaved(p) \/ InitializeIntent(p))
      BY <1>3, <3>2, <1>g, <1>d DEF Portal, PayAnswered, IntentAnswered, Submit,
                                    ConfirmAnswered, LoseAnswer
    <3> QED BY <3>1, <3>2
  <2>4. intent'[p] = "charged" => status'[p] = "COMPLETED" \/ Tracked(p)'
    BY <2>1, <2>3, <1>k
  <2> QED BY <2>1, <2>2, <2>3, <2>4, <1>s DEF TrackInv, TxnInv
<1>4. CASE Refetch \/ Open \/ Close \/ CloseLater \/ AddCard \/ BackToSaved \/ Choose
           \/ UNCHANGED vars
  <2>1. UNCHANGED <<call, txn, status, hook, intent, webhooks>>
    BY <1>4 DEF Refetch, Open, Close, CloseLater, AddCard, BackToSaved, Choose, vars, rows, stripe
  <2>2. PICK p \in Attempts : TRUE
    BY DEF InvoicePaymentAssumption, Attempts
  <2>3. intent'[p] = "charged" => status'[p] = "COMPLETED" \/ Tracked(p)'
    BY <2>1, <1>k
  <2> QED BY <2>1, <2>3, <1>s DEF TrackInv, TxnInv
<1> QED BY <1>1, <1>2, <1>3, <1>4 DEF Next

\* No charge is forgotten while no process stops, however impatient the client is
\* and whatever answers and webhooks come late, twice or not at all.
THEOREM NoneForgotten ==
  ASSUME "loss" \notin Faults
  PROVE  Spec => []ChargesTracked
<1>1. Init => TrackInv
  <2> SUFFICES ASSUME Init, NEW p \in Attempts
               PROVE  intent[p] # "charged" /\ txn[p] = "none" /\ call[p] = "none"
    BY Zenon DEF TrackInv, TxnInv, ChargesTracked
  <2> QED BY DEF Init
<1>2. TypeOK /\ ChargeInv /\ TrackInv /\ [Next]_vars => TrackInv'
  BY TrackStep, InvoicePaymentAssumption, "loss" \notin Faults
<1>3. TrackInv => ChargesTracked
  BY DEF TrackInv
<1> QED BY <1>1, <1>2, <1>3, TypeCorrect, ChargesFirst, PTL DEF Spec

-----------------------------------------------------------------------------
\* The saved-card attempts that no webhook may touch: there is no transaction to
\* find, or the server itself has finished it, and nothing was declined.
Early(p) ==
  \/ call[p] \in {"none", "pay", "priced", "row", "succeeded", "hook"}
  \/ call[p] = "error" /\ intent[p] = "charged"

Unfound(p) == txn[p] \in {"none", "COMPLETED"} /\ Webhook("failed", p) \notin webhooks

Quiet(p) == ~hook[p] /\ Unfound(p)

PayInv == \A q \in Attempts : Early(q) => Quiet(q)

\* No webhook changes an attempt before the server has written its transaction.
LEMMA QuietStep ==
  ASSUME InvoicePaymentAssumption, TypeOK, ChargeInv, PayInv, [Next]_vars
  PROVE  PayInv'
<1> USE InvoicePaymentAssumption
<1>w. \A p, q \in Attempts : Webhook("succeeded", q) # Webhook("failed", p)
      /\ (Webhook("failed", q) = Webhook("failed", p) => q = p)
  BY DEF Webhook
<1>g. \A p \in Attempts, stage \in Stages : Goto(p, stage) =>
         /\ call'[p] = stage
         /\ \A q \in Attempts : q # p => call'[q] = call[q]
  BY DEF Goto, TypeOK
<1>d. {"pay", "priced", "row", "succeeded", "requires_action", "error", "hook", "accepted",
       "refused", "ask", "valued", "created", "made", "unmade", "confirm", "confirmed",
       "declined", "none", "held", "done"} \subseteq Stages
  BY DEF Stages, Paying, Asking, Confirming
\* A step about one attempt.
<1>s. ASSUME NEW p \in Attempts,
             \A q \in Attempts : q # p => /\ call'[q] = call[q]
                                          /\ intent'[q] = intent[q]
                                          /\ txn'[q] = txn[q]
                                          /\ hook'[q] => hook[q]
                                          /\ (Webhook("failed", q) \in webhooks' =>
                                                Webhook("failed", q) \in webhooks),
             Early(p)' => Early(p),
             Early(p)' /\ Early(p) => (hook'[p] => hook[p]),
             Early(p)' /\ Early(p) /\ Unfound(p) => Unfound(p)'
      PROVE  PayInv'
  <2> SUFFICES ASSUME NEW q \in Attempts, Early(q)' PROVE Quiet(q)'
    BY Zenon DEF PayInv
  <2>1. CASE q = p
    <3>1. Early(p) /\ Quiet(p)
      BY <1>s, <2>1, Zenon DEF PayInv
    <3>2. ~hook'[p] /\ Unfound(p)'
      BY <1>s, <2>1, <3>1, Zenon DEF Quiet
    <3> QED BY <2>1, <3>2, Zenon DEF Quiet
  <2>2. CASE q # p
    <3>1. Early(q) /\ (Unfound(q) => Unfound(q)')
      BY <1>s, <2>2 DEF Early, Unfound
    <3>2. Quiet(q) /\ (hook'[q] => hook[q])
      BY <1>s, <2>2, <3>1, Zenon DEF PayInv
    <3> QED BY <3>1, <3>2, Zenon DEF Quiet
  <2> QED BY <2>1, <2>2
<1>1. ASSUME NEW p \in Attempts, Server(p) PROVE PayInv'
  <2>1. CASE PayReceived(p) \/ PaymentCreated(p) \/ IntentReceived(p) \/ IntentPayment(p)
    <3>1. /\ call[p] \in {"pay", "priced", "ask", "valued"}
          /\ call'[p] \in {"priced", "row"} => call[p] \in {"pay", "priced"}
          /\ call'[p] \in {"priced", "row", "refused", "valued", "created", "unmade"}
          /\ \A q \in Attempts : q # p => call'[q] = call[q]
          /\ UNCHANGED <<intent, txn, hook, webhooks>>
      BY <2>1, <1>g, <1>d DEF PayReceived, PaymentCreated, IntentReceived, IntentPayment,
                              rows, stripe
    <3>2. Early(p)' => Early(p)
      BY <3>1 DEF Early
    <3> QED BY <3>1, <3>2, <1>s DEF Unfound
  <2>2. CASE PayRecorded(p)
    <3>1. /\ call[p] \in {"succeeded", "requires_action", "error"}
          /\ call'[p] \in {"hook", "refused", "accepted"}
          /\ call'[p] = "hook" => call[p] = "succeeded" /\ SaveTransaction(p, "COMPLETED")
          /\ \A q \in Attempts : q # p => call'[q] = call[q] /\ txn'[q] = txn[q]
          /\ UNCHANGED <<intent, hook, webhooks>>
      BY <2>2, <1>g, <1>d DEF PayRecorded, SaveTransaction, rows, stripe, TypeOK
    <3>2. Early(p)' => Early(p) /\ txn'[p] = "COMPLETED"
      BY <3>1 DEF Early, SaveTransaction, TypeOK
    <3> QED BY <3>1, <3>2, <1>s DEF Unfound
  <2>3. CASE PayCompleted(p)
    <3>1. /\ call[p] = "hook" /\ call'[p] \in {"accepted", "refused"}
          /\ \A q \in Attempts : q # p => call'[q] = call[q]
          /\ UNCHANGED <<intent, txn, hook, webhooks>>
      BY <2>3, <1>g, <1>d DEF PayCompleted, stripe
    <3> QED BY <3>1, <1>s DEF Early
  <2>4. CASE IntentCreated(p)
    <3>1. /\ call'[p] \in {"made", "unmade"}
          /\ \A q \in Attempts : q # p =>
               call'[q] = call[q] /\ intent'[q] = intent[q] /\ txn'[q] = txn[q]
          /\ UNCHANGED <<hook, webhooks>>
      BY <2>4, <1>g, <1>d DEF IntentCreated, TypeOK
    <3> QED BY <3>1, <1>s DEF Early
  <2>5. CASE PaymentSucceeded(p)
    <3>1. /\ UNCHANGED <<call, intent>> /\ webhooks' \subseteq webhooks
          /\ \A q \in Attempts : q # p => txn'[q] = txn[q] /\ hook'[q] = hook[q]
          /\ txn[p] \in {"none", "COMPLETED"} => txn' = txn /\ hook' = hook
      BY <2>5 DEF PaymentSucceeded, Processed, SaveTransaction, TypeOK
    <3>2. Early(p)' => Early(p)
      BY <3>1 DEF Early
    <3>3. Early(p) => Unfound(p)
      BY Zenon DEF PayInv, Quiet
    <3>4. Early(p) => txn' = txn /\ hook' = hook
      BY <3>1, <3>3 DEF Unfound
    <3>5. Early(p) => (hook'[p] => hook[p])
      BY <3>4
    <3> QED BY <3>1, <3>2, <3>4, <3>5, <1>s DEF Unfound
  <2>6. CASE PaymentFailed(p)
    <3>1. /\ UNCHANGED <<call, intent, hook>> /\ webhooks' \subseteq webhooks
          /\ \A q \in Attempts : q # p => txn'[q] = txn[q]
          /\ Webhook("failed", p) \in webhooks
      BY <2>6 DEF PaymentFailed, Processed, SaveTransaction, TypeOK
    <3>2. Early(p)' => Early(p)
      BY <3>1 DEF Early
    <3>3. Early(p) => Unfound(p)
      BY Zenon DEF PayInv, Quiet
    <3> QED BY <3>1, <3>2, <3>3, <1>s DEF Unfound
  <2>7. CASE HookRuns(p)
    <3>1. /\ UNCHANGED <<call, intent, txn, webhooks>>
          /\ \A q \in Attempts : hook'[q] => hook[q]
      BY <2>7 DEF HookRuns, stripe, TypeOK
    <3> QED BY <3>1, <1>s DEF Early, Unfound
  <2> QED BY <1>1, <2>1, <2>2, <2>3, <2>4, <2>5, <2>6, <2>7 DEF Server
<1>2. ASSUME NEW p \in Attempts, Stripe(p) PROVE PayInv'
  <2>1. ASSUME NEW a \in Nat, Charge(p, a)
        PROVE  \A q \in Attempts :
                 /\ q # p => intent'[q] = intent[q]
                 /\ Webhook("failed", q) \in webhooks' => Webhook("failed", q) \in webhooks
    BY <2>1, <1>w DEF Charge, TypeOK
  <2>2. ASSUME NEW a \in Nat, Decline(p, a)
        PROVE  /\ intent'[p] = "open"
               /\ \A q \in Attempts : q # p =>
                    /\ intent'[q] = intent[q]
                    /\ Webhook("failed", q) \in webhooks' => Webhook("failed", q) \in webhooks
    BY <2>2, <1>w DEF Decline, TypeOK
  <2>3. CASE PayBilled(p)
    <3>1. /\ call[p] = "row" /\ amount[p] \in Nat
          /\ \A q \in Attempts : q # p => call'[q] = call[q]
          /\ UNCHANGED <<txn, hook>>
          /\ call'[p] \in {"succeeded", "error", "requires_action"}
      BY <2>3, <1>g, <1>d DEF PayBilled, TypeOK, rows
    <3>2. CASE Charge(p, amount[p])
      BY <3>1, <3>2, <2>1, <1>s DEF Early, Unfound
    <3>3. CASE Decline(p, amount[p]) /\ Goto(p, "error")
      <4>1. call'[p] = "error"
        BY <3>3, <1>g, <1>d
      <4> QED BY <3>1, <3>3, <4>1, <2>2, <1>s DEF Early
    <3>4. CASE Goto(p, "requires_action") /\ webhooks' = webhooks
               /\ intent' = [intent EXCEPT ![p] = "action"]
      <4>1. call'[p] = "requires_action" /\ \A q \in Attempts : q # p => intent'[q] = intent[q]
        BY <3>4, <1>g, <1>d DEF TypeOK
      <4> QED BY <3>1, <3>4, <4>1, <1>s DEF Early
    <3> QED BY <2>3, <3>2, <3>3, <3>4 DEF PayBilled
  <2>4. CASE StripeConfirms(p)
    <3>1. /\ call'[p] \in {"confirmed", "declined"} /\ cents[p] \in Nat
          /\ \A q \in Attempts : q # p => call'[q] = call[q]
          /\ UNCHANGED <<txn, hook>>
      BY <2>4, <1>g, <1>d DEF StripeConfirms, TypeOK, rows
    <3>2. \A q \in Attempts : q # p =>
            /\ intent'[q] = intent[q]
            /\ Webhook("failed", q) \in webhooks' => Webhook("failed", q) \in webhooks
      BY <2>4, <3>1, <2>1, <2>2 DEF StripeConfirms, stripe
    <3> QED BY <3>1, <3>2, <1>s DEF Early
  <2> QED BY <1>2, <2>3, <2>4 DEF Stripe
<1>3. ASSUME NEW p \in Attempts, Portal(p) PROVE PayInv'
  <2>1. UNCHANGED <<txn, hook, intent, webhooks>>
    BY <1>3 DEF Portal, PaySaved, PayAnswered, InitializeIntent, IntentAnswered, Submit,
                ConfirmAnswered, LoseAnswer, rows, stripe
  <2>2. \A q \in Attempts : q # p => call'[q] = call[q]
    BY <1>3, <1>g, <1>d DEF Portal, PaySaved, PayAnswered, InitializeIntent, Start,
                IntentAnswered, Submit, ConfirmAnswered, LoseAnswer
  <2>3. Early(p)' => Early(p)
    <3>1. CASE PaySaved(p) \/ InitializeIntent(p)
      BY <3>1 DEF PaySaved, InitializeIntent, Start, ChargeInv, CallInv, TypeOK, Early
    <3>2. CASE ~(PaySaved(p) \/ InitializeIntent(p))
      <4>1. call'[p] = call[p] \/ call'[p] \in {"done", "held", "confirm"}
        BY <1>3, <3>2, <1>g, <1>d DEF Portal, PayAnswered, IntentAnswered, Submit,
                                      ConfirmAnswered, LoseAnswer
      <4> QED BY <2>1, <4>1 DEF Early
    <3> QED BY <3>1, <3>2
  <2> QED BY <2>1, <2>2, <2>3, <1>s DEF Unfound
<1>4. CASE Refetch \/ Open \/ Close \/ CloseLater \/ AddCard \/ BackToSaved \/ Choose
           \/ UNCHANGED vars
  <2>1. UNCHANGED <<call, txn, hook, intent, webhooks>>
    BY <1>4 DEF Refetch, Open, Close, CloseLater, AddCard, BackToSaved, Choose, vars, rows, stripe
  <2>2. PICK p \in Attempts : TRUE
    BY DEF InvoicePaymentAssumption, Attempts
  <2> QED BY <2>1, <2>2, <1>s DEF Early, Unfound
<1> QED BY <1>1, <1>2, <1>3, <1>4 DEF Next

\* PayInv holds throughout.
LEMMA QuietFirst == Spec => []PayInv
<1> USE InvoicePaymentAssumption
<1>1. Init => PayInv
  <2> SUFFICES ASSUME Init, NEW p \in Attempts PROVE Quiet(p)
    BY Zenon DEF PayInv
  <2>1. ~hook[p]
    BY Zenon DEF Init
  <2>2. Unfound(p)
    BY DEF Init, Unfound
  <2> QED BY <2>1, <2>2 DEF Quiet
<1>2. TypeOK /\ ChargeInv /\ PayInv /\ [Next]_vars => PayInv'
  BY QuietStep
<1> QED BY <1>1, <1>2, TypeCorrect, ChargesFirst, PTL DEF Spec

-----------------------------------------------------------------------------
\* An attempt whose charge is not noted yet; one that keeps the client from
\* starting another; one whose success is on its way to the client; one whose
\* charge nobody will note any more, because the server stopped or got no answer.
Owed(p) == intent[p] = "charged" /\ status[p] # "COMPLETED"
Busy(p) == call[p] \in Paying \cup Confirming \/ Owed(p)
Ending(p) == call[p] \in {"succeeded", "hook", "accepted", "confirmed"}
Stranded(p) == Quiet(p) /\ call[p] \in {"error", "refused", "done"}

OneBusy == \A p, q \in Attempts : Busy(p) /\ Busy(q) => p = q

\* What is charged is noted, but for the one charge that is owed.
Noted ==
  /\ (\A p \in Attempts : ~Owed(p)) => taken = paid
  /\ \A p \in Attempts : Owed(p) => taken = paid + amount[p]

\* What may be charged next fits in what remains.
Fits ==
  /\ taken <= Total
  /\ \A p \in Attempts : call[p] = "row" => amount[p] <= Remaining
  /\ \A p \in Attempts : call[p] = "confirm" /\ intent[p] = "open" =>
       cents[p] = amount[p] /\ cents[p] <= Remaining

BillInv == OneBusy /\ Noted /\ Fits

\* The dialog stays open only until a success is answered, and with it the form;
\* a saved card is being charged only at the saved methods.
ScreenInv ==
  /\ \A p \in Attempts : dialog # "closed" /\ Owed(p) => Ending(p) \/ Stranded(p)
  /\ \A p \in Attempts : call[p] \in Paying \cup Confirming => p \in awaited
  /\ \A p \in Attempts : dialog # "closed" /\ call[p] \in Paying
                           => dialog = "methods" /\ p \in mine
  /\ dialog # "card" => form = {} /\ due = FALSE /\ secret = 0
  /\ secret # 0 => secret \in form

\* While no success is on its way, the intents of the form are for what remains.
FormInv == (\A q \in Attempts : ~Ending(q)) => \A p \in form :
  /\ call[p] \in {"valued", "created"} => amount[p] = Remaining
  /\ call[p] \in {"made", "held", "confirm", "declined"} /\ intent[p] = "open" =>
       cents[p] = amount[p] /\ amount[p] = Remaining

\* Two payments are never under way together, and each fits in what remains.
LEMMA BillStep ==
  ASSUME InvoicePaymentAssumption, "impatience" \notin Faults, lost' = {},
         TypeOK, ChargeInv, PayInv, BillInv, ScreenInv, FormInv, [Next]_vars
  PROVE  BillInv'
<1> USE InvoicePaymentAssumption
<1>l. \A p \in Attempts : ~LoseAnswer(p)
  BY DEF LoseAnswer
<1>g. \A p \in Attempts, stage \in Stages : Goto(p, stage) =>
         /\ call'[p] = stage
         /\ \A q \in Attempts : q # p => call'[q] = call[q]
  BY DEF Goto, TypeOK
<1>d. {"pay", "priced", "row", "succeeded", "requires_action", "error", "hook", "accepted",
       "refused", "ask", "valued", "created", "made", "unmade", "confirm", "confirmed",
       "declined", "none", "held", "done"} \subseteq Stages
  BY DEF Stages, Paying, Asking, Confirming
<1>b. (\A q \in Attempts : Busy(q)' => Busy(q)) => OneBusy'
  BY DEF BillInv, OneBusy
<1>n. /\ paid' = paid /\ taken' = taken
      /\ \A q \in Attempts : Owed(q)' <=> Owed(q)
      /\ \A q \in Attempts : Owed(q) => amount'[q] = amount[q]
      => Noted'
  BY DEF BillInv, Noted
<1>t. /\ paid \in Nat /\ taken \in Nat /\ Total \in Nat
      /\ \A q \in Attempts : amount[q] \in Nat /\ cents[q] \in Nat
  BY DEF TypeOK
\* A step that charges and completes nothing.
<1>q. ASSUME NEW p \in Attempts,
             \A q \in Attempts : q # p => call'[q] = call[q],
             paid' = paid, taken' = taken,
             \A q \in Attempts : q # p => amount'[q] = amount[q] /\ cents'[q] = cents[q],
             \A q \in Attempts : q # p => intent'[q] = intent[q],
             \A q \in Attempts : Owed(q)' <=> Owed(q),
             Owed(p) => amount'[p] = amount[p],
             call'[p] \in Paying \cup Confirming => call[p] \in Paying \cup Confirming,
             call'[p] = "row" => amount'[p] <= Remaining,
             call'[p] = "confirm" => FALSE
      PROVE  BillInv'
  <2>1. OneBusy'
    <3>1. \A q \in Attempts : Busy(q)' => Busy(q)
      BY <1>q DEF Busy
    <3> QED BY <3>1, <1>b
  <2>2. Noted'
    <3>1. \A q \in Attempts : Owed(q) => amount'[q] = amount[q]
      BY <1>q
    <3> QED BY <1>q, <1>n, <3>1
  <2>3. Fits'
    BY <1>q DEF BillInv, Fits, Remaining
  <2> QED BY <2>1, <2>2, <2>3 DEF BillInv
\* A charge, which finds nothing owed.
<1>c. ASSUME NEW p \in Attempts, NEW a \in Nat, Charge(p, a),
             call[p] \in Paying \cup Confirming, intent[p] # "charged",
             a = amount[p], a <= Remaining,
             \A q \in Attempts : q # p => call'[q] = call[q],
             call'[p] \in {"succeeded", "error", "confirmed"},
             UNCHANGED rows
      PROVE  BillInv'
  <2>1. /\ intent'[p] = "charged" /\ taken' = taken + amount[p]
        /\ \A q \in Attempts : q # p => intent'[q] = intent[q] /\ cents'[q] = cents[q]
        /\ paid' = paid /\ amount' = amount /\ status' = status
    BY <1>c DEF Charge, TypeOK, rows
  <2>2. \A q \in Attempts : ~Owed(q) /\ (q # p => ~Busy(q))
    BY <1>c DEF BillInv, OneBusy, Busy, Owed
  <2>3. taken = paid
    BY <2>2 DEF BillInv, Noted
  <2>4. status[p] # "COMPLETED"
    BY <1>c DEF ChargeInv, CallInv
  <2>5. Owed(p)' /\ \A q \in Attempts : Owed(q)' => q = p
    BY <2>1, <2>2, <2>4 DEF Owed
  <2>6. OneBusy'
    <3>1. \A q \in Attempts : Busy(q)' => q = p
      BY <1>c, <2>2, <2>5 DEF Busy
    <3> QED BY <3>1 DEF OneBusy
  <2>7. Noted'
    BY <2>1, <2>3, <2>5 DEF Noted
  <2>8. Fits'
    <3>1. taken' <= Total
      BY <1>c, <1>t, <2>1, <2>3 DEF Remaining
    <3> QED BY <1>c, <2>1, <3>1 DEF BillInv, Fits, Remaining
  <2> QED BY <2>6, <2>7, <2>8 DEF BillInv
\* A charged payment becomes COMPLETED.
<1>m. ASSUME NEW p \in Attempts, CompletePayment(p), intent[p] = "charged",
             \A q \in Attempts : q # p => call'[q] = call[q],
             call'[p] \in Paying \cup Confirming => call[p] \in Paying \cup Confirming,
             call'[p] \notin {"row", "confirm"} \/ call'[p] = call[p],
             UNCHANGED <<amount, stripe>>
      PROVE  BillInv'
  <2>1. CASE status[p] = "COMPLETED"
    <3>1. status' = status /\ paid' = paid /\ UNCHANGED <<amount, intent, cents, taken>>
      BY <1>m, <2>1 DEF CompletePayment, stripe
    <3>2. \A q \in Attempts : (Owed(q)' <=> Owed(q)) /\ (Busy(q)' => Busy(q))
      BY <1>m, <3>1 DEF Owed, Busy
    <3>3. Fits'
      BY <1>m, <3>1 DEF BillInv, Fits, Remaining
    <3> QED BY <3>1, <3>2, <3>3, <1>b, <1>n DEF BillInv
  <2>2. CASE status[p] # "COMPLETED"
    <3>1. /\ status'[p] = "COMPLETED" /\ paid' = paid + amount[p]
          /\ \A q \in Attempts : q # p => status'[q] = status[q]
          /\ amount' = amount /\ intent' = intent /\ cents' = cents /\ taken' = taken
      BY <1>m, <2>2 DEF CompletePayment, stripe, TypeOK
    <3>2. Owed(p)
      BY <1>m, <2>2 DEF Owed
    <3>3. \A q \in Attempts : q # p => ~Busy(q)
      BY <3>2 DEF BillInv, OneBusy, Busy
    <3>4. \A q \in Attempts : ~Owed(q)' /\ (Busy(q)' => Busy(q))
      BY <1>m, <3>1, <3>2, <3>3 DEF Owed, Busy
    <3>5. taken = paid + amount[p]
      BY <3>2 DEF BillInv, Noted
    <3>6. Noted'
      BY <3>1, <3>4, <3>5 DEF Noted
    <3>7. Fits'
      <4>1. \A q \in Attempts : q # p => call'[q] \notin {"row", "confirm"}
        BY <1>m, <3>3 DEF Busy, Paying, Confirming
      <4>2. call'[p] # "row"
        BY <1>m, <3>2 DEF Owed, ChargeInv, CallInv
      <4>3. intent[p] # "open" /\ taken <= Total
        BY <1>m DEF BillInv, Fits
      <4> QED BY <3>1, <4>1, <4>2, <4>3 DEF Fits
    <3> QED BY <3>4, <3>6, <3>7, <1>b DEF BillInv
  <2> QED BY <2>1, <2>2
<1>1. ASSUME NEW p \in Attempts, Server(p) PROVE BillInv'
  <2>1. CASE PayReceived(p)
    <3>1. /\ call[p] = "pay" /\ call'[p] \in {"priced", "refused"}
          /\ \A q \in Attempts : q # p => call'[q] = call[q] /\ amount'[q] = amount[q]
          /\ UNCHANGED <<paid, status, intent, cents, taken>>
      BY <2>1, <1>g, <1>d DEF PayReceived, TypeOK, stripe
    <3>2. ~Owed(p)
      BY <3>1 DEF Owed, ChargeInv, CallInv
    <3>3. \A q \in Attempts : Owed(q)' <=> Owed(q)
      BY <3>1 DEF Owed
    <3> QED BY <3>1, <3>2, <3>3, <1>q DEF Paying, Confirming
  <2>2. CASE PaymentCreated(p)
    <3>1. /\ call[p] = "priced" /\ call'[p] \in {"row", "refused"}
          /\ call'[p] = "row" => amount[p] <= Remaining
          /\ \A q \in Attempts : q # p => call'[q] = call[q] /\ status'[q] = status[q]
          /\ UNCHANGED <<paid, amount, intent, cents, taken>>
      BY <2>2, <1>g, <1>d DEF PaymentCreated, Payable, TypeOK, stripe
    <3>2. intent[p] = "none"
      BY <3>1 DEF ChargeInv, CallInv
    <3>3. \A q \in Attempts : Owed(q)' <=> Owed(q)
      BY <3>1, <3>2 DEF Owed
    <3> QED BY <3>1, <3>3, <1>q DEF Paying, Confirming
  <2>3. CASE PayRecorded(p)
    <3>1. /\ call[p] \in {"succeeded", "requires_action", "error"}
          /\ call'[p] \in {"hook", "refused", "accepted"}
          /\ \A q \in Attempts : q # p => call'[q] = call[q]
          /\ UNCHANGED <<paid, amount, intent, cents, taken>>
      BY <2>3, <1>g, <1>d DEF PayRecorded, rows, stripe
    <3>2. status' = status
      BY <2>3 DEF PayRecorded, SaveTransaction, rows
    <3>3. \A q \in Attempts : Owed(q)' <=> Owed(q)
      BY <3>1, <3>2 DEF Owed
    <3> QED BY <3>1, <3>3, <1>q DEF Paying, Confirming
  <2>4. CASE PayCompleted(p)
    <3>1. /\ call[p] = "hook" /\ call'[p] \in {"accepted", "refused"}
          /\ \A q \in Attempts : q # p => call'[q] = call[q]
          /\ UNCHANGED <<amount, stripe>>
      BY <2>4, <1>g, <1>d DEF PayCompleted
    <3>2. intent[p] = "charged"
      BY <3>1 DEF ChargeInv, CallInv
    <3>3. CASE CompletePayment(p)
      BY <3>1, <3>2, <3>3, <1>m DEF Paying, Confirming
    <3>4. CASE UNCHANGED <<status, paid>>
      <4>1. \A q \in Attempts : Owed(q)' <=> Owed(q)
        BY <3>1, <3>4 DEF Owed, stripe
      <4> QED BY <3>1, <3>4, <4>1, <1>q DEF Paying, Confirming, stripe
    <3> QED BY <2>4, <3>3, <3>4 DEF PayCompleted
  <2>5. CASE IntentReceived(p)
    <3>1. /\ call[p] = "ask" /\ call'[p] \in {"valued", "unmade"}
          /\ \A q \in Attempts : q # p => call'[q] = call[q] /\ amount'[q] = amount[q]
          /\ UNCHANGED <<paid, status, intent, cents, taken>>
      BY <2>5, <1>g, <1>d DEF IntentReceived, TypeOK, stripe
    <3>2. ~Owed(p)
      BY <3>1 DEF Owed, ChargeInv, CallInv
    <3>3. \A q \in Attempts : Owed(q)' <=> Owed(q)
      BY <3>1 DEF Owed
    <3> QED BY <3>1, <3>2, <3>3, <1>q DEF Paying, Confirming
  <2>6. CASE IntentPayment(p)
    <3>1. /\ call[p] = "valued" /\ call'[p] \in {"created", "unmade"}
          /\ \A q \in Attempts : q # p => call'[q] = call[q]
          /\ UNCHANGED <<paid, amount, status, intent, cents, taken>>
      BY <2>6, <1>g, <1>d DEF IntentPayment, rows, stripe
    <3>2. \A q \in Attempts : Owed(q)' <=> Owed(q)
      BY <3>1 DEF Owed
    <3> QED BY <3>1, <3>2, <1>q DEF Paying, Confirming
  <2>7. CASE IntentCreated(p)
    <3>1. /\ call[p] = "created" /\ call'[p] \in {"made", "unmade"}
          /\ \A q \in Attempts : q # p => call'[q] = call[q]
          /\ UNCHANGED <<paid, amount, taken>>
      BY <2>7, <1>g, <1>d DEF IntentCreated
    <3>2. /\ intent[p] = "none" /\ intent'[p] # "charged"
          /\ \A q \in Attempts : q # p =>
               intent'[q] = intent[q] /\ status'[q] = status[q] /\ cents'[q] = cents[q]
      BY <2>7, <3>1 DEF IntentCreated, TypeOK, ChargeInv, CallInv
    <3>3. \A q \in Attempts : Owed(q)' <=> Owed(q)
      BY <3>2 DEF Owed
    <3> QED BY <3>1, <3>2, <3>3, <1>q DEF Paying, Confirming
  <2>8. CASE PaymentSucceeded(p) \/ PaymentFailed(p)
    <3>1. UNCHANGED <<call, paid, amount, status, intent, cents, taken>>
      BY <2>8 DEF PaymentSucceeded, PaymentFailed, SaveTransaction, TypeOK
    <3> QED BY <3>1 DEF BillInv, OneBusy, Noted, Fits, Busy, Owed, Remaining
  <2>9. CASE HookRuns(p)
    <3>1. /\ call' = call /\ UNCHANGED <<amount, stripe>>
          /\ intent[p] = "charged"
      BY <2>9 DEF HookRuns, ChargeInv, HookInv
    <3>2. CASE CompletePayment(p)
      BY <3>1, <3>2, <1>m
    <3>3. CASE UNCHANGED <<status, paid>>
      BY <3>1, <3>3 DEF BillInv, OneBusy, Noted, Fits, Busy, Owed, Remaining, stripe
    <3> QED BY <2>9, <3>2, <3>3 DEF HookRuns
  <2> QED BY <1>1, <2>1, <2>2, <2>3, <2>4, <2>5, <2>6, <2>7, <2>8, <2>9 DEF Server
<1>2. ASSUME NEW p \in Attempts, Stripe(p) PROVE BillInv'
  <2>1. CASE PayBilled(p)
    <3>1. /\ call[p] = "row" /\ intent[p] = "none" /\ amount[p] \in Nat
          /\ call'[p] \in {"succeeded", "error", "requires_action"}
          /\ \A q \in Attempts : q # p => call'[q] = call[q]
          /\ UNCHANGED rows
          /\ amount[p] <= Remaining
      BY <2>1, <1>g, <1>d, <1>t DEF PayBilled, ChargeInv, CallInv, BillInv, Fits
    <3>2. CASE Charge(p, amount[p]) /\ call'[p] \in {"succeeded", "error"}
      BY <3>1, <3>2, <1>c DEF Paying, Confirming
    <3>3. CASE ~(Charge(p, amount[p]) /\ call'[p] \in {"succeeded", "error"})
      <4>1. /\ taken' = taken /\ intent'[p] # "charged"
            /\ \A q \in Attempts : q # p => intent'[q] = intent[q] /\ cents'[q] = cents[q]
            /\ call'[p] \in {"error", "requires_action"}
        BY <2>1, <3>3, <1>g, <1>d DEF PayBilled, Decline, TypeOK
      <4>2. \A q \in Attempts : Owed(q)' <=> Owed(q)
        BY <3>1, <4>1 DEF Owed, rows
      <4>3. paid' = paid /\ amount' = amount
        BY <3>1 DEF rows
      <4> QED BY <3>1, <4>1, <4>2, <4>3, <1>q DEF Paying, Confirming
    <3> QED BY <3>2, <3>3
  <2>2. CASE StripeConfirms(p)
    <3>1. /\ call[p] = "confirm" /\ call'[p] \in {"confirmed", "declined"}
          /\ \A q \in Attempts : q # p => call'[q] = call[q]
          /\ UNCHANGED rows
          /\ intent[p] = "open" => cents[p] = amount[p] /\ cents[p] <= Remaining
      BY <2>2, <1>g, <1>d DEF StripeConfirms, BillInv, Fits
    <3>2. CASE intent[p] = "open" /\ Charge(p, cents[p]) /\ Goto(p, "confirmed")
      BY <3>1, <3>2, <1>c, <1>g, <1>d, <1>t DEF Paying, Confirming
    <3>3. CASE ~(intent[p] = "open" /\ Charge(p, cents[p]) /\ Goto(p, "confirmed"))
      <4>1. /\ taken' = taken /\ intent'[p] = intent[p]
            /\ \A q \in Attempts : q # p => intent'[q] = intent[q] /\ cents'[q] = cents[q]
            /\ call'[p] = "declined"
        <5>1. CASE intent[p] = "open" /\ Decline(p, cents[p]) /\ Goto(p, "declined")
          BY <5>1, <3>1, <1>g, <1>d DEF Decline, TypeOK
        <5>2. CASE UNCHANGED stripe /\ Goto(p, "declined")
          BY <5>2, <1>g, <1>d DEF stripe
        <5> QED BY <2>2, <3>3, <5>1, <5>2 DEF StripeConfirms
      <4>2. \A q \in Attempts : Owed(q)' <=> Owed(q)
        BY <3>1, <4>1 DEF Owed, rows
      <4>3. paid' = paid /\ amount' = amount
        BY <3>1 DEF rows
      <4> QED BY <3>1, <4>1, <4>2, <4>3, <1>q DEF Paying, Confirming
    <3> QED BY <3>2, <3>3
  <2> QED BY <1>2, <2>1, <2>2 DEF Stripe
<1>3. ASSUME NEW p \in Attempts, Portal(p) PROVE BillInv'
  <2>1. UNCHANGED <<paid, amount, status, intent, cents, taken>>
    BY <1>3 DEF Portal, PaySaved, PayAnswered, InitializeIntent, IntentAnswered, Submit,
                ConfirmAnswered, LoseAnswer, rows, stripe
  <2>2. \A q \in Attempts : Owed(q)' <=> Owed(q)
    BY <2>1 DEF Owed
  <2>3. CASE PaySaved(p) \/ Submit(p)
    <3>1. /\ call'[p] \in {"pay", "confirm"} /\ (call'[p] = "confirm" => Submit(p))
          /\ \A q \in Attempts : q # p => call'[q] = call[q]
          /\ Settled
      BY <2>3, <1>g, <1>d DEF PaySaved, Submit, Start, Willing
    <3>2. \A q \in Attempts : ~Busy(q)
      BY <3>1 DEF Settled, Busy, Owed
    <3>3. OneBusy'
      <4>1. \A q \in Attempts : Busy(q)' => q = p
        BY <3>1, <3>2, <2>2 DEF Busy
      <4> QED BY <4>1 DEF OneBusy
    <3>4. call'[p] = "confirm" /\ intent[p] = "open" => cents[p] = amount[p] /\ cents[p] <= Remaining
      <4> SUFFICES ASSUME Submit(p), intent[p] = "open"
                   PROVE  cents[p] = amount[p] /\ cents[p] <= Remaining
        BY <3>1
      <4>1. p \in form /\ call[p] = "held"
        BY DEF Submit, ScreenInv, Attempts
      <4>2. \A q \in Attempts : ~Ending(q)
        BY <3>1 DEF Settled, Ending, Paying, Confirming
      <4> QED BY <4>1, <4>2, <1>t DEF FormInv, Remaining
    <3>5. Noted'
      BY <2>1, <2>2, <1>n
    <3>6. Fits'
      BY <2>1, <3>1, <3>4 DEF BillInv, Fits, Remaining
    <3> QED BY <3>3, <3>5, <3>6 DEF BillInv
  <2>4. CASE ~(PaySaved(p) \/ Submit(p))
    <3>1. /\ call'[p] \in {"ask", "done", "held"}
          /\ \A q \in Attempts : q # p => call'[q] = call[q]
      BY <1>3, <2>4, <1>l, <1>g, <1>d DEF Portal, PayAnswered, InitializeIntent, Start,
                                          IntentAnswered, ConfirmAnswered
    <3> QED BY <2>1, <2>2, <3>1, <1>q DEF Paying, Confirming
  <2> QED BY <2>3, <2>4
<1>4. CASE Refetch \/ Open \/ Close \/ CloseLater \/ AddCard \/ BackToSaved \/ Choose
           \/ UNCHANGED vars
  <2>1. UNCHANGED <<call, paid, amount, status, intent, cents, taken>>
    BY <1>4 DEF Refetch, Open, Close, CloseLater, AddCard, BackToSaved, Choose, vars, rows, stripe
  <2> QED BY <2>1 DEF BillInv, OneBusy, Noted, Fits, Busy, Owed, Remaining
<1> QED BY <1>1, <1>2, <1>3, <1>4 DEF Next

\* An answered success closes the dialog, and an open dialog has no charge owed.
LEMMA ScreenStep ==
  ASSUME InvoicePaymentAssumption, "impatience" \notin Faults, lost' = {},
         TypeOK, ChargeInv, PayInv, BillInv, ScreenInv, FormInv, [Next]_vars
  PROVE  ScreenInv'
<1> USE InvoicePaymentAssumption
<1>l. \A p \in Attempts : ~LoseAnswer(p)
  BY DEF LoseAnswer
<1>g. \A p \in Attempts, stage \in Stages : Goto(p, stage) =>
         /\ call'[p] = stage
         /\ \A q \in Attempts : q # p => call'[q] = call[q]
  BY DEF Goto, TypeOK
<1>d. {"pay", "priced", "row", "succeeded", "requires_action", "error", "hook", "accepted",
       "refused", "ask", "valued", "created", "made", "unmade", "confirm", "confirmed",
       "declined", "none", "held", "done"} \subseteq Stages
  BY DEF Stages, Paying, Asking, Confirming
<1>f. \A q \in Attempts : status[q] = "COMPLETED" => status'[q] = "COMPLETED"
  BY FinalStep
<1>w. \A p, q \in Attempts : Webhook("succeeded", q) # Webhook("failed", p)
      /\ (Webhook("failed", q) = Webhook("failed", p) => q = p)
  BY DEF Webhook
\* Who is stranded stays so, when the step is not about its rows.
<1>u. ASSUME NEW q \in Attempts, call'[q] \in {"error", "refused", "done"},
             hook'[q] => hook[q],
             txn[q] \in {"none", "COMPLETED"} => txn'[q] = txn[q],
             Webhook("failed", q) \in webhooks' => Webhook("failed", q) \in webhooks,
             Quiet(q)
      PROVE  Stranded(q)'
  <2>1. Unfound(q)
    BY <1>u, Zenon DEF Quiet
  <2>2. Unfound(q)'
    <3>1. Webhook("failed", q)' = Webhook("failed", q)
      BY DEF Webhook
    <3> QED BY <1>u, <2>1, <3>1 DEF Unfound
  <2>3. ~hook'[q]
    BY <1>u, Zenon DEF Quiet
  <2>4. Quiet(q)'
    BY <2>2, <2>3, Zenon DEF Quiet
  <2> QED BY <1>u, <2>4, Zenon DEF Stranded
\* A step of the server or of Stripe.
<1>s. ASSUME NEW p \in Attempts, UNCHANGED portal,
             \A q \in Attempts : q # p => call'[q] = call[q] /\ intent'[q] = intent[q],
             \A q \in Attempts : q # p /\ Stranded(q) => Stranded(q)',
             call'[p] \in Paying => call[p] \in Paying,
             call'[p] \in Confirming => call[p] \in Confirming,
             Owed(p)' => \/ Ending(p)' \/ Stranded(p)'
                         \/ Owed(p) /\ ~Ending(p) /\ ~Stranded(p)
      PROVE  ScreenInv'
  <2>0. UNCHANGED <<dialog, mine, form, due, secret, awaited>>
    BY <1>s DEF portal, screen
  <2>1. \A q \in Attempts : dialog' # "closed" /\ Owed(q)' => Ending(q)' \/ Stranded(q)'
    <3> SUFFICES ASSUME NEW q \in Attempts, dialog' # "closed", Owed(q)'
                 PROVE  Ending(q)' \/ Stranded(q)'
      OBVIOUS
    <3>1. dialog # "closed"
      BY <2>0
    <3>2. CASE q = p
      BY <1>s, <3>1, <3>2 DEF ScreenInv
    <3>3. CASE q # p
      <4>1. Owed(q) /\ call'[q] = call[q]
        BY <1>s, <1>f, <3>3 DEF Owed
      <4>2. Ending(q) => Ending(q)'
        BY <4>1 DEF Ending
      <4> QED BY <1>s, <3>1, <3>3, <4>1, <4>2 DEF ScreenInv
    <3> QED BY <3>2, <3>3
  <2>2. \A q \in Attempts : call'[q] \in Paying \cup Confirming => q \in awaited'
    BY <1>s, <2>0 DEF ScreenInv
  <2>3. \A q \in Attempts : dialog' # "closed" /\ call'[q] \in Paying
                              => dialog' = "methods" /\ q \in mine'
    BY <1>s, <2>0 DEF ScreenInv
  <2> QED BY <2>0, <2>1, <2>2, <2>3 DEF ScreenInv
\* A step that leaves the transactions and the webhooks of the others alone.
<1>o. ASSUME NEW p \in Attempts,
             \A q \in Attempts : q # p => /\ call'[q] = call[q] /\ txn'[q] = txn[q]
                                          /\ hook'[q] => hook[q]
                                          /\ Webhook("failed", q) \in webhooks' =>
                                               Webhook("failed", q) \in webhooks
      PROVE  \A q \in Attempts : q # p /\ Stranded(q) => Stranded(q)'
  <2> SUFFICES ASSUME NEW q \in Attempts, q # p, Stranded(q) PROVE Stranded(q)'
    OBVIOUS
  <2>1. Quiet(q) /\ call[q] \in {"error", "refused", "done"}
    BY Zenon DEF Stranded
  <2> QED BY <1>o, <2>1, <1>u
<1>1. ASSUME NEW p \in Attempts, Server(p) PROVE ScreenInv'
  <2>1. CASE PayReceived(p) \/ PaymentCreated(p) \/ IntentReceived(p) \/ IntentPayment(p)
    <3>1. /\ call[p] \in {"pay", "priced", "ask", "valued"}
          /\ call'[p] \in {"priced", "row", "refused", "valued", "created", "unmade"}
          /\ call'[p] \in {"priced", "row", "refused"} => call[p] \in {"pay", "priced"}
          /\ \A q \in Attempts : q # p => call'[q] = call[q]
          /\ UNCHANGED <<portal, intent, txn, hook, webhooks>>
      BY <2>1, <1>g, <1>d DEF PayReceived, PaymentCreated, IntentReceived, IntentPayment,
                              rows, stripe
    <3>2. ~Owed(p)'
      BY <3>1 DEF Owed, ChargeInv, CallInv
    <3>3. \A q \in Attempts : q # p /\ Stranded(q) => Stranded(q)'
      BY <3>1, <1>o
    <3> QED BY <3>1, <3>2, <3>3, <1>s DEF Paying, Confirming
  <2>2. CASE PayRecorded(p)
    <3>1. /\ call[p] \in {"succeeded", "requires_action", "error"}
          /\ call'[p] \in {"hook", "refused", "accepted"}
          /\ call'[p] = "refused" => call[p] \in {"succeeded", "error"} /\ txn' = txn
          /\ \A q \in Attempts : q # p => call'[q] = call[q] /\ txn'[q] = txn[q]
          /\ UNCHANGED <<portal, intent, hook, webhooks>>
      BY <2>2, <1>g, <1>d DEF PayRecorded, SaveTransaction, rows, stripe, TypeOK
    <3>2. Owed(p)' => Owed(p)
      BY <3>1, <1>f DEF Owed
    <3>3. \A q \in Attempts : q # p /\ Stranded(q) => Stranded(q)'
      BY <3>1, <1>o
    <3>4. CASE call'[p] = "refused"
      <4>1. Quiet(p) => Stranded(p)'
        BY <3>1, <3>4, <1>u
      <4>2. call[p] = "succeeded" => Quiet(p)
        BY Zenon DEF PayInv, Early
      <4>3. call[p] = "error" => ~Ending(p) /\ (Stranded(p) => Quiet(p))
        BY DEF Ending, Stranded
      <4> QED BY <3>1, <3>2, <3>3, <3>4, <4>1, <4>2, <4>3, <1>s DEF Paying, Confirming
    <3>5. CASE call'[p] # "refused"
      BY <3>1, <3>3, <3>5, <1>s DEF Paying, Confirming, Ending
    <3> QED BY <3>4, <3>5
  <2>3. CASE PayCompleted(p)
    <3>1. /\ call[p] = "hook" /\ call'[p] \in {"accepted", "refused"}
          /\ \A q \in Attempts : q # p => call'[q] = call[q]
          /\ UNCHANGED <<portal, intent, txn, hook, webhooks>>
      BY <2>3, <1>g, <1>d DEF PayCompleted, stripe
    <3>2. call'[p] = "refused" => Stranded(p)'
      <4>1. Quiet(p)
        BY <3>1, Zenon DEF PayInv, Early
      <4> QED BY <3>1, <4>1, <1>u
    <3>3. \A q \in Attempts : q # p /\ Stranded(q) => Stranded(q)'
      BY <3>1, <1>o
    <3> QED BY <3>1, <3>2, <3>3, <1>s DEF Paying, Confirming, Ending
  <2>4. CASE IntentCreated(p)
    <3>1. /\ call[p] = "created" /\ call'[p] \in {"made", "unmade"}
          /\ \A q \in Attempts : q # p =>
               call'[q] = call[q] /\ intent'[q] = intent[q] /\ txn'[q] = txn[q]
          /\ UNCHANGED <<portal, hook, webhooks>>
      BY <2>4, <1>g, <1>d DEF IntentCreated, TypeOK
    <3>2. intent[p] = "none"
      BY <3>1 DEF ChargeInv, CallInv
    <3>3. ~Owed(p)'
      BY <2>4, <3>2 DEF IntentCreated, Owed, TypeOK
    <3>4. \A q \in Attempts : q # p /\ Stranded(q) => Stranded(q)'
      BY <3>1, <1>o
    <3> QED BY <3>1, <3>3, <3>4, <1>s DEF Paying, Confirming
  <2>5. CASE PaymentSucceeded(p) \/ PaymentFailed(p) \/ HookRuns(p)
    <3>1. /\ UNCHANGED <<portal, call, intent>> /\ webhooks' \subseteq webhooks
          /\ \A q \in Attempts : q # p => txn'[q] = txn[q] /\ hook'[q] = hook[q]
      BY <2>5 DEF PaymentSucceeded, PaymentFailed, HookRuns, Processed, SaveTransaction,
                  stripe, TypeOK
    <3>2. Owed(p)' => Owed(p)
      BY <3>1, <1>f DEF Owed
    <3>3. \A q \in Attempts : q # p /\ Stranded(q) => Stranded(q)'
      BY <3>1, <1>o
    <3>4. Stranded(p) => Stranded(p)'
      <4> SUFFICES ASSUME Stranded(p) PROVE Stranded(p)'
        OBVIOUS
      <4>1. ~hook[p] /\ Unfound(p) /\ Quiet(p) /\ call[p] \in {"error", "refused", "done"}
        BY Zenon DEF Stranded, Quiet
      <4>2. ~HookRuns(p) /\ ~PaymentFailed(p)
        BY <4>1 DEF HookRuns, PaymentFailed, Unfound
      <4>3. txn' = txn /\ hook' = hook
        BY <2>5, <4>1, <4>2 DEF PaymentSucceeded, Unfound
      <4> QED BY <3>1, <4>1, <4>3, <1>u
    <3>5. Ending(p) => Ending(p)'
      BY <3>1 DEF Ending
    <3> QED BY <3>1, <3>2, <3>3, <3>4, <3>5, <1>s
  <2> QED BY <1>1, <2>1, <2>2, <2>3, <2>4, <2>5 DEF Server
<1>2. ASSUME NEW p \in Attempts, Stripe(p) PROVE ScreenInv'
  <2>1. CASE PayBilled(p)
    <3>1. /\ call[p] = "row" /\ intent[p] = "none"
          /\ call'[p] \in {"succeeded", "error", "requires_action"}
          /\ \A q \in Attempts : q # p => call'[q] = call[q] /\ intent'[q] = intent[q]
          /\ UNCHANGED <<portal, txn, hook>>
      BY <2>1, <1>g, <1>d DEF PayBilled, Charge, Decline, TypeOK, ChargeInv, CallInv, rows
    <3>2. \A q \in Attempts : q # p =>
            (Webhook("failed", q) \in webhooks' => Webhook("failed", q) \in webhooks)
      BY <2>1, <1>w DEF PayBilled, Charge, Decline, TypeOK
    <3>3. \A q \in Attempts : q # p /\ Stranded(q) => Stranded(q)'
      BY <3>1, <3>2, <1>o
    <3>4. CASE call'[p] = "succeeded"
      BY <3>1, <3>3, <3>4, <1>s DEF Paying, Confirming, Ending
    <3>5. CASE call'[p] # "succeeded" /\ intent'[p] # "charged"
      BY <3>1, <3>3, <3>5, <1>s DEF Paying, Confirming, Owed
    <3>6. CASE call'[p] # "succeeded" /\ intent'[p] = "charged"
      <4>1. call'[p] = "error" /\ webhooks' = webhooks \cup {Webhook("succeeded", p)}
        BY <2>1, <3>6, <1>g, <1>d DEF PayBilled, Charge, Decline, TypeOK
      <4>2. Quiet(p)
        BY <3>1, Zenon DEF PayInv, Early
      <4>3. Webhook("failed", p) \in webhooks' => Webhook("failed", p) \in webhooks
        BY <4>1, <1>w
      <4>4. Stranded(p)'
        BY <3>1, <4>1, <4>2, <4>3, <1>u
      <4> QED BY <3>1, <3>3, <4>1, <4>4, <1>s DEF Paying, Confirming
    <3> QED BY <3>4, <3>5, <3>6
  <2>2. CASE StripeConfirms(p)
    <3>1. /\ call[p] = "confirm" /\ call'[p] \in {"confirmed", "declined"}
          /\ \A q \in Attempts : q # p => call'[q] = call[q] /\ intent'[q] = intent[q]
          /\ UNCHANGED <<portal, status, txn, hook>>
      BY <2>2, <1>g, <1>d DEF StripeConfirms, Charge, Decline, TypeOK, stripe, rows
    <3>2. \A q \in Attempts : q # p =>
            (Webhook("failed", q) \in webhooks' => Webhook("failed", q) \in webhooks)
      BY <2>2, <1>w DEF StripeConfirms, Charge, Decline, TypeOK, stripe
    <3>3. \A q \in Attempts : q # p /\ Stranded(q) => Stranded(q)'
      BY <3>1, <3>2, <1>o
    <3>4. call'[p] = "declined" => intent'[p] = "open" \/ intent'[p] = intent[p]
      BY <2>2, <1>g, <1>d DEF StripeConfirms, Decline, TypeOK, stripe
    <3>5. ~Ending(p) /\ ~Stranded(p)
      BY <3>1 DEF Ending, Stranded
    <3>6. Owed(p)' => Ending(p)' \/ Owed(p)
      BY <3>1, <3>4 DEF Owed, Ending
    <3> QED BY <3>1, <3>3, <3>5, <3>6, <1>s DEF Paying, Confirming
  <2> QED BY <1>2, <2>1, <2>2 DEF Stripe
<1>3. ASSUME NEW p \in Attempts, Portal(p) PROVE ScreenInv'
  <2>1. UNCHANGED <<status, intent, txn, hook, webhooks>>
    BY <1>3 DEF Portal, PaySaved, PayAnswered, InitializeIntent, IntentAnswered, Submit,
                ConfirmAnswered, LoseAnswer, rows, stripe
  <2>2. \A q \in Attempts : Owed(q)' <=> Owed(q)
    BY <2>1 DEF Owed
  <2>3. CASE PaySaved(p) \/ Submit(p)
    <3>1. /\ Settled /\ awaited' = awaited \cup {p}
          /\ \A q \in Attempts : q # p => call'[q] = call[q]
          /\ dialog # "closed" /\ UNCHANGED <<dialog, form, due, secret>>
          /\ call'[p] \in Paying => dialog = "methods" /\ p \in mine'
      BY <2>3, <1>g, <1>d DEF PaySaved, Submit, Start, Willing, screen, Paying
    <3>2. \A q \in Attempts : ~Owed(q)' /\ (q # p => call'[q] \notin Paying \cup Confirming)
      BY <2>2, <3>1 DEF Settled, Owed
    <3> QED BY <3>1, <3>2 DEF ScreenInv
  <2>4. CASE PayAnswered(p) \/ ConfirmAnswered(p)
    <3>1. /\ call[p] \in {"accepted", "refused", "confirmed", "declined"}
          /\ call'[p] = (IF call[p] \in {"accepted", "refused"} THEN "done" ELSE "held")
          /\ \A q \in Attempts : q # p => call'[q] = call[q]
          /\ awaited' = awaited \ {p}
          /\ p \in awaited =>
               IF call[p] \in {"accepted", "confirmed"} THEN Closed ELSE Rerendered(p)
      BY <2>4, <1>g, <1>d DEF PayAnswered, ConfirmAnswered, Success
    <3>2. p \in awaited
      BY <3>1 DEF ScreenInv, Paying, Confirming
    <3>3. \A q \in Attempts : call'[q] \in Paying \cup Confirming => q \in awaited'
      BY <3>1 DEF ScreenInv, Paying, Confirming
    <3>4. CASE Closed
      BY <3>3, <3>4 DEF Closed, NoForm, ScreenInv
    <3>5. CASE call[p] \in {"refused", "declined"} /\ Rerendered(p)
      <4>1. UNCHANGED <<dialog, mine, form, secret>> /\ (dialog # "card" => due' = due)
        BY <3>5 DEF Rerendered, TypeOK
      <4>2. ASSUME NEW q \in Attempts, dialog' # "closed", Owed(q)'
            PROVE  Ending(q)' \/ Stranded(q)'
        <5>1. Ending(q) \/ Stranded(q)
          BY <2>2, <4>1, <4>2 DEF ScreenInv
        <5>2. CASE Ending(q)
          BY <3>1, <3>5, <5>2 DEF Ending
        <5>3. CASE Stranded(q)
          <6>1. Quiet(q) /\ call[q] \in {"error", "refused", "done"}
            BY <5>3, Zenon DEF Stranded
          <6>2. call'[q] \in {"error", "refused", "done"}
            BY <3>1, <6>1
          <6> QED BY <2>1, <6>1, <6>2, <1>u
        <5> QED BY <5>1, <5>2, <5>3
      <4>3. \A q \in Attempts : call'[q] \in Paying => call[q] \in Paying
        BY <3>1 DEF Paying
      <4> QED BY <3>3, <4>1, <4>2, <4>3 DEF ScreenInv
    <3> QED BY <3>1, <3>2, <3>4, <3>5
  <2>n. ASSUME \A q \in Attempts : q # p => call'[q] = call[q],
               UNCHANGED dialog, ~Ending(p), ~Stranded(p)
        PROVE  \A q \in Attempts : dialog' # "closed" /\ Owed(q)' => Ending(q)' \/ Stranded(q)'
    <3> SUFFICES ASSUME NEW q \in Attempts, dialog' # "closed", Owed(q)'
                 PROVE  Ending(q)' \/ Stranded(q)'
      OBVIOUS
    <3>1. q # p /\ (Ending(q) \/ Stranded(q)) /\ call'[q] = call[q]
      BY <2>2, <2>n DEF ScreenInv
    <3>2. Stranded(q) => Quiet(q) /\ call'[q] \in {"error", "refused", "done"}
      BY <3>1 DEF Stranded
    <3> QED BY <2>1, <3>1, <3>2, <1>u DEF Ending
  <2>5. CASE InitializeIntent(p)
    <3>1. /\ due /\ due' = FALSE /\ p = last + 1 /\ call'[p] = "ask"
          /\ \A q \in Attempts : q # p => call'[q] = call[q]
          /\ awaited' = awaited \cup {p} /\ mine' = mine \cup {p} /\ form' = form \cup {p}
          /\ UNCHANGED <<dialog, secret>>
      BY <2>5, <1>g, <1>d DEF InitializeIntent, Start
    <3>2. call[p] = "none" /\ dialog = "card"
      BY <3>1 DEF ChargeInv, CallInv, ScreenInv, TypeOK
    <3>3. \A q \in Attempts : dialog' # "closed" /\ Owed(q)' => Ending(q)' \/ Stranded(q)'
      BY <3>1, <3>2, <2>n DEF Ending, Stranded
    <3>4. \A q \in Attempts : /\ call'[q] \in Paying \cup Confirming => q \in awaited'
                              /\ call'[q] \notin Paying
      BY <3>1, <3>2 DEF ScreenInv, Paying, Confirming
    <3> QED BY <3>1, <3>2, <3>3, <3>4 DEF ScreenInv
  <2>6. CASE IntentAnswered(p)
    <3>1. /\ call[p] \in {"made", "unmade"} /\ call'[p] \in {"held", "done"}
          /\ \A q \in Attempts : q # p => call'[q] = call[q]
          /\ awaited' = awaited \ {p} /\ UNCHANGED <<dialog, mine, form, due>>
          /\ secret' = secret \/ (p \in form /\ secret' = p)
      BY <2>6, <1>g, <1>d DEF IntentAnswered
    <3>2. \A q \in Attempts : dialog' # "closed" /\ Owed(q)' => Ending(q)' \/ Stranded(q)'
      BY <3>1, <2>n DEF Ending, Stranded
    <3>3. \A q \in Attempts : /\ call'[q] \in Paying \cup Confirming => q \in awaited'
                              /\ call'[q] \in Paying => call[q] \in Paying
      BY <3>1 DEF ScreenInv, Paying, Confirming
    <3> QED BY <3>1, <3>2, <3>3 DEF ScreenInv
  <2> QED BY <1>3, <2>3, <2>4, <2>5, <2>6, <1>l DEF Portal
<1>4. CASE Refetch \/ Open \/ Close \/ CloseLater \/ AddCard \/ BackToSaved \/ Choose
           \/ UNCHANGED vars
  <2>1. UNCHANGED <<call, status, intent, txn, hook, webhooks, awaited>>
    BY <1>4 DEF Refetch, Open, Close, CloseLater, AddCard, BackToSaved, Choose, vars, portal,
                rows, stripe
  <2>2. CASE Close \/ CloseLater
    BY <2>1, <2>2 DEF Close, CloseLater, Closed, NoForm, ScreenInv
  <2>3. CASE Open
    <3>1. dialog = "closed" /\ Settled /\ UNCHANGED <<form, due, secret>>
      BY <2>3 DEF Open, Willing
    <3>2. \A q \in Attempts : ~Owed(q)' /\ call'[q] \notin Paying \cup Confirming
      BY <2>1, <3>1 DEF Settled, Owed
    <3>3. dialog' = "methods" /\ form = {} /\ due = FALSE /\ secret = 0
      BY <2>3, <3>1 DEF Open, ScreenInv
    <3> QED BY <2>1, <3>1, <3>2, <3>3 DEF ScreenInv
  <2>4. CASE Refetch \/ AddCard \/ BackToSaved \/ Choose \/ UNCHANGED vars
    <3>1. /\ dialog' = dialog \/ (dialog # "closed" /\ dialog' # "closed")
          /\ UNCHANGED <<form, secret>> \/ (form' = {} /\ secret' = 0)
          /\ dialog' # "card" => due' = due \/ due' = FALSE
          /\ dialog' # "card" => dialog' = dialog \/ (form' = {} /\ due' = FALSE /\ secret' = 0)
          /\ mine' = mine
      BY <2>4 DEF Refetch, AddCard, BackToSaved, Choose, NoForm, vars, portal, screen
    <3>2. \A q \in Attempts : dialog' # "closed" /\ Owed(q)' => Ending(q)' \/ Stranded(q)'
      BY <2>1, <3>1 DEF ScreenInv, Owed, Ending, Stranded, Quiet, Unfound, Webhook
    <3>3. ASSUME NEW q \in Attempts, dialog' # "closed", call'[q] \in Paying
          PROVE  dialog' = "methods" /\ q \in mine'
      <4>1. dialog = "methods" /\ q \in mine /\ q \in awaited
        BY <2>1, <3>1, <3>3 DEF ScreenInv
      <4>2. ~AddCard
        BY <2>1, <3>3, <4>1 DEF AddCard, Loading
      <4> QED BY <2>4, <3>1, <4>1, <4>2 DEF Refetch, BackToSaved, Choose, vars, portal, screen
    <3>4. dialog' # "card" => form' = {} /\ due' = FALSE /\ secret' = 0
      BY <3>1 DEF ScreenInv
    <3> QED BY <2>1, <3>1, <3>2, <3>3, <3>4 DEF ScreenInv
  <2> QED BY <1>4, <2>2, <2>3, <2>4
<1> QED BY <1>1, <1>2, <1>3, <1>4 DEF Next

\* While nothing is on its way to being noted, what remains does not change.
LEMMA FormStep ==
  ASSUME InvoicePaymentAssumption, "impatience" \notin Faults, lost' = {},
         TypeOK, ChargeInv, PayInv, BillInv, ScreenInv, FormInv, [Next]_vars
  PROVE  FormInv'
<1> USE InvoicePaymentAssumption
<1>l. \A p \in Attempts : ~LoseAnswer(p)
  BY DEF LoseAnswer
<1>g. \A p \in Attempts, stage \in Stages : Goto(p, stage) =>
         /\ call'[p] = stage
         /\ \A q \in Attempts : q # p => call'[q] = call[q]
  BY DEF Goto, TypeOK
<1>d. {"pay", "priced", "row", "succeeded", "requires_action", "error", "hook", "accepted",
       "refused", "ask", "valued", "created", "made", "unmade", "confirm", "confirmed",
       "declined", "none", "held", "done"} \subseteq Stages
  BY DEF Stages, Paying, Asking, Confirming
<1>x. form \subseteq Attempts
  BY DEF TypeOK
<1>e. \A p \in Attempts : call[p] \in Paying => form = {}
  BY DEF ScreenInv
\* A step that leaves the amounts of the others alone and keeps nothing back.
<1>s. ASSUME NEW p \in Attempts, form' \subseteq form \cup {p},
             \A q \in Attempts : q # p => call'[q] = call[q],
             Ending(p) => Ending(p)' \/ form' = {},
             paid' = paid,
             \A q \in Attempts : q # p => /\ amount'[q] = amount[q]
                                          /\ cents'[q] = cents[q]
                                          /\ intent'[q] = intent[q],
             (\A q \in Attempts : ~Ending(q)) /\ ~Ending(p)' /\ p \in form' =>
               /\ call'[p] \in {"valued", "created"} => amount'[p] = Remaining
               /\ call'[p] \in {"made", "held", "confirm", "declined"} /\ intent'[p] = "open" =>
                    cents'[p] = amount'[p] /\ amount'[p] = Remaining
      PROVE  FormInv'
  <2> SUFFICES ASSUME \A q \in Attempts : ~Ending(q)', NEW r \in form'
               PROVE  /\ call'[r] \in {"valued", "created"} => amount'[r] = Remaining
                      /\ call'[r] \in {"made", "held", "confirm", "declined"}
                           /\ intent'[r] = "open" =>
                           cents'[r] = amount'[r] /\ amount'[r] = Remaining
    BY <1>s DEF FormInv, Remaining
  <2>1. \A q \in Attempts : ~Ending(q)
    BY <1>s DEF Ending
  <2>2. CASE r = p
    BY <1>s, <2>1, <2>2
  <2>3. CASE r # p
    BY <1>s, <1>x, <2>1, <2>3 DEF FormInv
  <2> QED BY <2>2, <2>3
<1>1. ASSUME NEW p \in Attempts, Server(p) PROVE FormInv'
  <2>0. UNCHANGED <<form, dialog>>
    BY <1>1 DEF Server, PayReceived, PaymentCreated, PayRecorded, PayCompleted,
                IntentReceived, IntentPayment, IntentCreated, PaymentSucceeded,
                PaymentFailed, HookRuns, portal, screen
  <2>1. CASE PayReceived(p) \/ PaymentCreated(p)
    <3>1. /\ call[p] \in {"pay", "priced"} /\ call'[p] \in {"priced", "row", "refused"}
          /\ \A q \in Attempts : q # p => call'[q] = call[q] /\ amount'[q] = amount[q]
          /\ UNCHANGED <<paid, intent, cents>>
      BY <2>1, <1>g, <1>d DEF PayReceived, PaymentCreated, stripe, TypeOK
    <3> QED BY <2>0, <3>1, <1>s DEF Ending
  <2>2. CASE PayRecorded(p)
    <3>1. /\ call[p] \in {"succeeded", "requires_action", "error"}
          /\ call'[p] \in {"hook", "refused", "accepted"}
          /\ \A q \in Attempts : q # p => call'[q] = call[q]
          /\ UNCHANGED <<paid, amount, intent, cents>>
      BY <2>2, <1>g, <1>d DEF PayRecorded, stripe, rows
    <3>2. form = {}
      BY <3>1, <1>e DEF Paying
    <3> QED BY <2>0, <3>1, <3>2, <1>s DEF Ending
  <2>3. CASE PayCompleted(p)
    <3>1. form = {}
      BY <2>3, <1>e DEF PayCompleted, Paying
    <3> QED BY <2>0, <3>1 DEF FormInv
  <2>4. CASE IntentReceived(p)
    <3>1. /\ call[p] = "ask"
          /\ call'[p] = "unmade" \/ (call'[p] = "valued" /\ amount'[p] = Remaining)
          /\ \A q \in Attempts : q # p => call'[q] = call[q] /\ amount'[q] = amount[q]
          /\ UNCHANGED <<paid, intent, cents>>
      BY <2>4, <1>g, <1>d DEF IntentReceived, stripe, TypeOK
    <3> QED BY <2>0, <3>1, <1>s DEF Ending
  <2>5. CASE IntentPayment(p)
    <3>1. /\ call[p] = "valued" /\ call'[p] \in {"created", "unmade"}
          /\ \A q \in Attempts : q # p => call'[q] = call[q]
          /\ UNCHANGED <<paid, amount, intent, cents>>
      BY <2>5, <1>g, <1>d DEF IntentPayment, stripe, rows
    <3> QED BY <2>0, <3>1, <1>s DEF FormInv, Ending
  <2>6. CASE IntentCreated(p)
    <3>1. /\ call[p] = "created"
          /\ call'[p] = "unmade" \/ (call'[p] = "made" /\ cents'[p] = Remaining)
          /\ UNCHANGED <<paid, amount>>
      BY <2>6, <1>g, <1>d DEF IntentCreated, TypeOK
    <3>2. \A q \in Attempts : q # p =>
            /\ call'[q] = call[q]
            /\ cents'[q] = cents[q]
            /\ intent'[q] = intent[q]
      BY <2>6, <1>g, <1>d DEF IntentCreated, TypeOK
    <3>3. (\A q \in Attempts : ~Ending(q)) /\ p \in form => amount[p] = Remaining
      BY <3>1 DEF FormInv
    <3> QED BY <2>0, <3>1, <3>2, <3>3, <1>s DEF Ending
  <2>7. CASE PaymentSucceeded(p) \/ PaymentFailed(p)
    <3>1. UNCHANGED <<call, paid, amount, intent, cents>>
      BY <2>7 DEF PaymentSucceeded, PaymentFailed
    <3> QED BY <2>0, <3>1 DEF FormInv, Ending, Remaining
  <2>8. CASE HookRuns(p)
    <3>1. /\ intent[p] = "charged"
          /\ UNCHANGED <<call, amount, intent, cents>>
      BY <2>8 DEF HookRuns, stripe, ChargeInv, HookInv
    <3>2. CASE paid' = paid
      BY <2>0, <3>1, <3>2 DEF FormInv, Ending, Remaining
    <3>3. CASE status[p] # "COMPLETED"
      <4>0. ~Stranded(p)
        BY <2>8, Zenon DEF HookRuns, Stranded, Quiet
      <4>1. Ending(p) \/ form = {}
        BY <3>1, <3>3, <4>0 DEF ScreenInv, Owed
      <4> QED BY <2>0, <3>1, <4>1 DEF FormInv, Ending
    <3> QED BY <2>8, <3>2, <3>3 DEF HookRuns, CompletePayment
  <2> QED BY <1>1, <2>1, <2>2, <2>3, <2>4, <2>5, <2>6, <2>7, <2>8 DEF Server
<1>2. ASSUME NEW p \in Attempts, Stripe(p) PROVE FormInv'
  <2>0. UNCHANGED <<form, paid, amount>>
    BY <1>2 DEF Stripe, PayBilled, StripeConfirms, portal, screen, rows
  <2>1. CASE PayBilled(p)
    <3>1. /\ call[p] = "row" /\ call'[p] \in {"succeeded", "error", "requires_action"}
          /\ \A q \in Attempts : q # p => call'[q] = call[q]
      BY <2>1, <1>g, <1>d DEF PayBilled
    <3>2. \A q \in Attempts : q # p => intent'[q] = intent[q] /\ cents'[q] = cents[q]
      BY <2>1 DEF PayBilled, Charge, Decline, TypeOK
    <3> QED BY <2>0, <3>1, <3>2, <1>s DEF Ending
  <2>2. CASE StripeConfirms(p)
    <3>1. /\ call[p] = "confirm" /\ call'[p] \in {"confirmed", "declined"}
          /\ \A q \in Attempts : q # p => call'[q] = call[q]
      BY <2>2, <1>g, <1>d DEF StripeConfirms
    <3>2. /\ \A q \in Attempts : q # p => intent'[q] = intent[q] /\ cents'[q] = cents[q]
          /\ call'[p] = "declined" => intent'[p] = intent[p] /\ cents'[p] = cents[p]
      BY <2>2, <1>g, <1>d DEF StripeConfirms, Charge, Decline, TypeOK, stripe
    <3> QED BY <2>0, <3>1, <3>2, <1>s DEF FormInv, Ending
  <2> QED BY <1>2, <2>1, <2>2 DEF Stripe
<1>3. ASSUME NEW p \in Attempts, Portal(p) PROVE FormInv'
  <2>0. UNCHANGED <<paid, amount, intent, cents>>
    BY <1>3 DEF Portal, PaySaved, PayAnswered, InitializeIntent, IntentAnswered, Submit,
                ConfirmAnswered, LoseAnswer, rows, stripe
  <2>1. CASE PaySaved(p) \/ InitializeIntent(p)
    <3>1. /\ p = last + 1 /\ call'[p] \in {"pay", "ask"}
          /\ \A q \in Attempts : q # p => call'[q] = call[q]
          /\ form' \subseteq form \cup {p}
      BY <2>1, <1>g, <1>d DEF PaySaved, InitializeIntent, Start
    <3>2. call[p] = "none"
      BY <3>1 DEF ChargeInv, CallInv, TypeOK
    <3> QED BY <2>0, <3>1, <3>2, <1>s DEF Ending
  <2>2. CASE PayAnswered(p) \/ ConfirmAnswered(p)
    <3>1. /\ call[p] \in {"accepted", "refused", "confirmed", "declined"}
          /\ call'[p] = (IF call[p] \in {"accepted", "refused"} THEN "done" ELSE "held")
          /\ \A q \in Attempts : q # p => call'[q] = call[q]
          /\ p \in awaited =>
               IF call[p] \in {"accepted", "confirmed"} THEN Closed ELSE Rerendered(p)
      BY <2>2, <1>g, <1>d DEF PayAnswered, ConfirmAnswered, Success
    <3>2. p \in awaited
      BY <3>1 DEF ScreenInv, Paying, Confirming
    <3>3. CASE Closed
      BY <3>3 DEF Closed, NoForm, FormInv
    <3>4. CASE call[p] \in {"refused", "declined"} /\ Rerendered(p)
      BY <2>0, <3>1, <3>4, <1>s DEF Rerendered, FormInv, Ending
    <3> QED BY <3>1, <3>2, <3>3, <3>4
  <2>3. CASE IntentAnswered(p) \/ Submit(p)
    <3>1. /\ call[p] \in {"made", "unmade", "held"}
          /\ call'[p] = "done" \/ (call[p] # "unmade" /\ call'[p] \in {"held", "confirm"})
          /\ \A q \in Attempts : q # p => call'[q] = call[q]
          /\ form' = form
      BY <2>3, <1>g, <1>d DEF IntentAnswered, Submit, screen
    <3> QED BY <2>0, <3>1, <1>s DEF FormInv, Ending
  <2> QED BY <1>3, <2>1, <2>2, <2>3, <1>l DEF Portal
<1>4. CASE Refetch \/ Open \/ Close \/ CloseLater \/ AddCard \/ BackToSaved \/ Choose
           \/ UNCHANGED vars
  <2>1. UNCHANGED <<call, paid, amount, intent, cents>> /\ form' \subseteq form
    BY <1>4 DEF Refetch, Open, Close, CloseLater, AddCard, BackToSaved, Choose, Closed, NoForm,
                vars, portal, screen, rows, stripe
  <2> QED BY <2>1 DEF FormInv, Ending, Remaining
<1> QED BY <1>1, <1>2, <1>3, <1>4 DEF Next

\* A client who gets every answer, and waits until what was charged shows on the
\* invoice, is charged and has noted as paid no more than the invoice asks for:
\* also when the server stops between two steps or gets no answer from Stripe.
THEOREM NoOvercharge ==
  ASSUME "impatience" \notin Faults
  PROVE  Spec => []NotOvercharged
<1> USE InvoicePaymentAssumption
<1> DEFINE Inv == lost = {} => BillInv /\ ScreenInv /\ FormInv
<1>1. Init => Inv
  <2> SUFFICES ASSUME Init PROVE Inv
    OBVIOUS
  <2>1. \A p \in Attempts : ~Busy(p) /\ ~Owed(p) /\ call[p] = "none"
    BY DEF Init, Busy, Owed, Paying, Confirming
  <2>2. BillInv
    BY <2>1 DEF BillInv, OneBusy, Noted, Fits, Init
  <2>3. ScreenInv
    BY <2>1 DEF ScreenInv, Init, Busy
  <2> QED BY <2>2, <2>3 DEF FormInv, Init
<1>2. TypeOK /\ ChargeInv /\ PayInv /\ Inv /\ [Next]_vars => Inv'
  <2> SUFFICES ASSUME TypeOK, ChargeInv, PayInv, Inv, [Next]_vars, lost' = {}
               PROVE  BillInv' /\ ScreenInv' /\ FormInv'
    OBVIOUS
  <2>1. lost = {}
    BY DEF Next, Server, PayReceived, PaymentCreated, PayRecorded, PayCompleted, IntentReceived,
           IntentPayment, IntentCreated, PaymentSucceeded, PaymentFailed, HookRuns, Stripe,
           PayBilled, StripeConfirms, Portal, PaySaved, PayAnswered, InitializeIntent,
           IntentAnswered, Submit, ConfirmAnswered, LoseAnswer, Refetch, Open, Close, CloseLater,
           AddCard, BackToSaved, Choose, vars, portal
  <2> QED BY <2>1, BillStep, ScreenStep, FormStep, "impatience" \notin Faults
<1>3. TypeOK /\ Inv => NotOvercharged
  <2> SUFFICES ASSUME TypeOK, BillInv PROVE taken <= Total /\ paid <= Total
    BY DEF NotOvercharged
  <2>1. taken <= Total /\ taken \in Nat /\ paid \in Nat /\ Total \in Nat
    BY DEF TypeOK, BillInv, Fits
  <2>2. CASE \A p \in Attempts : ~Owed(p)
    BY <2>1, <2>2 DEF BillInv, Noted
  <2>3. ASSUME NEW p \in Attempts, Owed(p) PROVE paid <= Total
    <3>1. taken = paid + amount[p] /\ amount[p] \in Nat
      BY <2>3 DEF BillInv, Noted, TypeOK
    <3> QED BY <2>1, <3>1
  <2> QED BY <2>1, <2>2, <2>3
<1> HIDE DEF Inv
<1> QED BY <1>1, <1>2, <1>3, TypeCorrect, ChargesFirst, QuietFirst, PTL DEF Spec
=============================================================================
