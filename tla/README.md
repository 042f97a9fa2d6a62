# LifePlace, checked and proved in TLA+

This directory holds TLA+ models of the parts of LifePlace (v1) where money, calendar dates and
several processes meet, the TLC configurations that check them on small instances, and TLAPS
proofs that hold for every instance. `PROJECT.json` lists, for machines, what this page says for
readers: components, runs, mutants, the source lines of every definition, findings, hazards and
theorems. Paths below are relative to `src/backend/core/domains/`, those of the client portal to
`src/frontend/client-portal/src/` (marked *portal*), unless they start with `src/`.

## 1. The system

LifePlace is a booking platform for event venues. A Django/DRF backend runs as several web
workers (Gunicorn, Daphne) and several Celery workers with a beat schedule; PostgreSQL (READ
COMMITTED, no `ATOMIC_REQUESTS`) is the shared state, Redis the cache and broker, and Stripe,
Brevo and others are outside. React front ends and an Expo application are clients of its API.

| Component | State | Operations | Talks to | Hard because |
|---|---|---|---|---|
| **Date reservations** (`events/services/atomic_availability_service.py`) | `DateReservation` rows | reserve, release, confirm, cleanup | booking front end, settlement, beat | check-then-insert over four statements, expiry by time, confirmation inside another transaction |
| **First to pay wins** (`payments/models/payment.py`, `payments/signals.py`, `events/services/date_blocking_service.py`, `payments/services/auto_refund_service.py`, `events/tasks/deadline_tasks.py`) | `Payment`, `Event`, `Refund`, `EventTimeline` rows | complete a payment, block the date, cancel competitors, refund the loser, cancel at the deadline | gateway callbacks, Celery | signals inside saves, objects older than their rows, three saves per completion, deadlocks |
| **Booking completion** (`bookingflow/services/booking_completion_service.py`, `session_lifecycle_service.py`, `views/public_booking_completion_mixin.py`) | `BookingSession` rows | complete, update, abandon | events, quotes, invoices, gateway | two transactions with a gap between them, a charge inside the second |
| **Invoice payment** (*portal* `components/payments/`; `payments/services/invoice_service.py`, `payment_orchestrator.py`, `gateway_service.py`, `unified_webhook_processor.py`) | `Payment`, `PaymentTransaction`, `Invoice` rows; the dialog; Stripe's intents | pay with a saved card, create an intent, confirm it, webhooks | Stripe, the browser | two ways to complete a payment, limits checked without a lock, webhooks late, twice and out of order, lost answers |
| **Web token refresh** (*portal* `utils/api.ts`, `contexts/AuthContext.tsx`, `utils/storage.ts`) | tokens in localStorage, a flag and a queue in each tab | call, refresh, login, logout | token endpoints | one refresh for many 401s, two independent refreshers, several tabs, rotating refresh tokens |
| **Booking client** (*portal* `contexts/BookingContext/`, `hooks/booking/`; `bookingflow/services/session_lifecycle_service.py`) | the page, a record in localStorage, the `BookingSession` row | edit, debounced update, next, back, confirm, leave, resume | booking session API | requests that read a row, and later save all of it, without a lock; reloads, lost requests, a server that keeps its own step |
| **Availability socket** (*portal* `hooks/useAvailabilityWebSocket.ts`, `components/booking/steps/IntelligentDateTimeStep.tsx`) | a WebSocket, timers, the selection | connect, reconnect, take the selection back | `events/consumers.py` | callbacks and timers of old renders, closes that come after the next connection |
| **Payment states and refunds** (`payments/services/payment_state_machine.py`, `refund_service.py`) | payments, refunds | transitions, partial refunds by staff | Stripe | checks of objects read earlier |
| **Date holds** (`events/services/date_holding_service.py`, `events/tasks/date_hold_tasks.py`) | hold fields of `Event` | hold, extend, convert, release | beat | stale lists, check-then-act |
| **Quotes and pricing** (`sales/`) | quotes, discounts | accept, signals to event | events, contracts | signals that save other rows |
| **Workflows** (`workflows/engine.py`) | stage of an event, tasks | progress, trigger | every other domain | idempotency check outside the transaction |
| **VIP programme** (`vip/`) | totals, tiers | signal of payment saves | payments | a total added once per save |
| **Circuit breaker** (`src/backend/core/infrastructure/circuit_breaker.py`) | breaker rows and their cached state | record success or failure, allow | gateway, mail | row and cache written by several processes |
| **API middleware** (`src/backend/core/utils/api_middleware.py`) | idempotency cache | lookup, store | every request | check-then-act |
| **Offline queue** (`src/mobile-app/src/utils/offlineMutationQueue.ts`) | encrypted list of mutations | enqueue, process, retry | API | read-modify-write without a lock; used by no screen |
| Contracts, communications, notifications, messaging, events' other services, users, products, venues, vendors, questionnaires, notes, settings, security, analytics | their tables | CRUD, delivery, reports | | mostly sequential; not modelled |
| Front ends, link worker | presentation | | API | not modelled |

What makes the modelled parts correct: one session holds a date at a time; an ended reservation is
never revived; a reservation is confirmed only in the step that blocks the date for its event;
only unpaid competitors are cancelled; only paid events block a date; a payment has one completed
refund, and the gateway makes a second one only when nobody could record the first; every call
returns; a settled booking is idempotent; charges of one session exclude one another; a link names
an event that exists; a payment is completed when it is charged, and only then, and stays so; a
client who gets every answer is not overcharged; calls that wait for a refresh share its fate; the
page of a booking shows the server's step and has lost nothing it has passed, until a request saves
an outdated copy behind its back, and Next completes no booking before; the hook keeps one live
connection. The hazards that could break each of them are in `PROJECT.json`, at the line where
they bite.

## 2. Modules

| Module | Models | Extends |
|---|---|---|
| `DateLease` | abstract: a date is leased to one session at a time | |
| `DateReservation` | the four transactions of `AtomicAvailabilityService`, and settlements that confirm a reservation | instance of `DateLease` as its refinement |
| `FirstToPay` | `Payment.complete_payment` with its signal, settlement, refund and deadline tasks | |
| `BookingCompletion` | `complete_booking` with its view, `update_session_data`, `abandon_session` | |
| `Purchase` | abstract: an attempt to pay is charged at most once, noted at most once and only then | |
| `InvoicePayment` | a client pays an invoice: dialog, `pay/`, `create_payment_intent/`, rows, webhooks, Stripe | instance of `Purchase` as its refinement |
| `SingleFlight` | abstract: callers of one tab refresh one at a time, the others wait for it | |
| `TokenRefresh` | the interceptors and `AuthContext` of several tabs, a server that rotates tokens | instance of `SingleFlight` as its refinement |
| `BookingDraft` | one booking in the portal, from its first step to its completion | |
| `AvailabilitySocket` | the WebSocket hook and the date step that uses it | |
| `MC…` | definitions of small instances for TLC | the module |
| `…_proofs` | theorems and proofs | the module, `TLAPS` |

The modules are not composed into one state machine: what each needs of another is an environment
action that may happen at any time its guard allows. They meet here. `DateReservation` keeps the
settlement of `FirstToPay` only as far as a reservation can see it (begin, confirm, commit or roll
back), and `FirstToPay` leaves the reservation out. `BookingCompletion` ends where the payment's
commit hook starts `FirstToPay`; `InvoicePayment` ends in the same hook, and keeps of it only the
COMPLETED status. `BookingDraft` is the client of the requests whose overlap `BookingCompletion`
looks at: it has one page, and of a completion only the read, the save and the answer.
`TokenRefresh` is below every call of the portal; the others take a call for answered or failed.
`AvailabilitySocket` receives what the settlement of `FirstToPay` broadcasts.

### DateReservation

*State.* `status`, `owner`, `date`, `left`, `confirmedBy` are the columns of a row, indexed by
token. `dateLock` is the advisory lock; `pc` and the variables after it are the local variables of
a request; `event` and `txn*` are the events of the dates and their open settlements; `copy` is the
Event object that a payment of the event has cached.

*Time.* A row's `expires_at` is kept as the time left, from `Timeout` down to -1. So time is
unbounded although the state is finite, and the boundary between "expired" (`left = 0`, the
comparison `>=` of `is_expired` and `expires_at__gt`) and "cleaned up" (`expires_at__lt`) is kept.

*Actions.* One per statement that reads or writes what another transaction can change:
`AcquireDateLock`, `ReturnOwn`/`FindNoOwn` (step 1), `RejectBlocked`/`FindNotBlocked` (step 2),
`RejectReserved`/`ComputeExpiry` (step 3), `CommitReservation` (step 4, shown at commit),
`Rollback`; `Release`; `Cleanup`; `SettleBegin`, `ConfirmReservation`, `SettleCommit`,
`SettleRollback`; `LoadEvent`, `SaveEvent`; `CancelEvent`; `Tick`. Row locks make `Release`,
`Cleanup` and `RejectReserved` wait for a settlement that is about to confirm the row. `Rollback`
stands for any exception and for a killed process. The three early successes of `confirm_reservation` and
`release_reservation` (already confirmed, already ended, not found) change nothing. A settlement
does not look at the reservations of other sessions, and neither does its model.

*A block may be undone.* `Payment.save` reads its event, runs the signal that settles it, and then
saves every column of what it has read (`payments/models/payment.py:83-89`,
`events/models/event.py:352`): `LoadEvent` and `SaveEvent`, with any number of steps between them.
So `date_blocked` goes back to False on the ordinary way of one worker, the event is settled again
by the next payment, and that settlement may confirm another reservation of its session. Hence
`ConfirmedAtBlock` says what the code keeps, that a confirmation and its block are one commit, and
nothing says that the block lasts.

### FirstToPay

*A worker* is one call of `complete_payment` in autocommit mode, which is how the `on_commit` hook
of `PaymentTransaction.save` (`payments/models/gateway.py:118-130`) runs it. It saves the payment
three times; each save sends the `post_save` signal, so the signal runs in three `pass`es: after
the status (`"save"`), inside the transaction of the receipt number (`"receipt"`), and after the
notification (`"notify"`). The first and the third use the Event object that the payment has
cached (`memStatus`, `memBlocked`, `memPay`), the second reads the row anew. `Payment.save` calls
`update_payment_status` *after* the signal, and this saves every column of the cached object:
`Recompute` and `SaveEvent`.

*Transactions.* In the first and third pass each statement commits at once, except for the
`@transaction.atomic` settlement and refund. In the receipt's pass everything is one transaction:
the write of `SaveTotals`, a settlement or a refund, and the receipt number show together at
`CommitBlock`, `CommitRefund` or `CommitReceipt` (`CommitSignal` is what they share), and the row
locks are kept until then. A `FOR UPDATE` query is split into the choice of its rows and one lock
per row, with the re-evaluation of its condition that READ COMMITTED makes (`SelectCompetitors`,
`LockCompetitor`). The query `events_on_date` is lazy: it is never run without
`date_blocked=True`, so only blocking rows are locked by it (`RefuseTaken`).

*Amounts* matter only through two thresholds: `Downpayment` is the set of sets of payments that
reach the downpayment, `Full` those that cover the invoice. Every event has an invoice; `Counted`
are the events whose invoice is ISSUED or PAID, which is all `update_payment_status` looks at.

*Failures.* `AbortDeadlock` is PostgreSQL's choice of a victim, with what the `except` clauses and
savepoints leave of it. `Crash` is a killed process.

*Refunds* have two sides. The gateway refunds when it is asked (`AskGateway`, one payment at a time,
inside the transaction) and no rollback takes that back; the `Refund` rows show at `CommitRefund`.
`gateway` counts what the gateway has refunded, `made` is what a worker knows of it and has not yet
committed, `refundsDone` counts the rows that are COMPLETED. A worker that is killed in between, an
answer that is lost, and an answer other than "succeeded" (the row is then PENDING or FAILED, and
the next pass does not look at it) leave a refund that nobody has recorded: `doubts` counts them.
The idempotency key is the id of the row, so a new row is a new refund.

*Deadline tasks.* Both read events without a lock (`ReadExpired`) and cancel them with an UPDATE
by primary key (`CancelExpired`).

### BookingCompletion

One session; a request is one HTTP call and creates at most one event, so an event bears the name
of its request. Every request copies the row (`Load` into `mem*`) and later saves all of it
(`SaveRow`). `complete_booking` is two transactions: `ReturnDuplicate` or `LockAndCheck`, then, with
no lock in between, `MarkCompleted` … `CommitCompletion`. `MarkCompleted` takes the row lock by
its UPDATE; the row's new content shows at the commit. The safeguard at line 162 looks at the
object of the first transaction: it is the guard of `MarkCompleted`, and its other branch cannot be
taken because that object was open when it was locked, and an open session has no link yet. `Charge` is outside the database: no
rollback takes it back. `hint` is the event id that `booking_data` may carry, from which
`ReturnDuplicate` repairs a missing link. The session's required steps are complete and it is on
its last step; a validation failure may occur all the same (`RejectInvalid`).

### InvoicePayment and Purchase

*An attempt* is a call to `pay/` (a saved card; `PayReceived`, `PaymentCreated`, `PayBilled` at
Stripe, `PayRecorded`, `PayCompleted`) or to `create_payment_intent/` (a new card;
`IntentReceived`, `IntentPayment`, `IntentCreated`, then `Submit` in the browser and
`StripeConfirms`). `call[p]` is where it is; between two of these steps another transaction can
read and write. Each attempt has a payment and an intent of its own, because the search for a
payment to use again (`payments/services/invoice_service.py:587`) looks for PENDING ones and a new
one is CREATED. The invoice stays ISSUED in both ways: nothing here calls `mark_as_paid`, so
`paid`, the sum over completed payments, is what tells.

*Webhooks* are a set without order; `PaymentSucceeded` and `PaymentFailed` may come before the
transaction they are about exists, late, or twice (`Processed` may leave the webhook in the set).
`SaveTransaction` is the mirror from the transaction to its payment with its guard against taking
a COMPLETED payment back; `HookRuns` is the `on_commit` hook, which runs in its own transaction.

*The dialog* keeps what it was opened with: `seen` in the list, the amount in the form, the intent
that the form was mounted for. `Refetch` is the list read anew, `CloseLater` the two-second timer.

*Faults* is a constant, so that a run says what it assumes. With `"answer"` an answer to the
client may be lost after it was served; with `"impatience"` a client pays again before what was
charged shows; with `"loss"` the server stops between two steps.

*Abstraction.* For `Purchase` an attempt is uncharged, charged or noted (`Phase`), and two totals
say what was taken and what is on the invoice. Its steps are `Take` (`Charge` at Stripe, by the
server or by the browser) and `Note` (a payment becomes COMPLETED, by the answer or by a webhook);
everything else, repeated and late webhooks among it, is a stutter.

### TokenRefresh and SingleFlight

Token pairs are numbered as the server issues them; 0 is none. A *call* runs through the request
interceptor (`Api`, which reads the token), the server (`Serve`), and the response interceptor:
`Enqueue` in the `failedQueue` of its tab while a refresh is under way, or `StartRefresh`,
`ServeRefresh`, and `FinishRefresh` or `FailRefresh`, each of which empties the queue.
`refreshToken` and `initializeAuth` are the refreshes of AuthContext, which pass through the same
client but not through the mutex. `login`, `logout`, `Reload`, `handleStorageChange` and the
expiry of access tokens are the environment. `SingleFlight` promises for one tab that at most one
caller leads, that others wait only while one leads, and that a leader leaves nobody behind;
`FlightSpec` says that every tab implements it.

### BookingDraft

`booking_data[s]` is the number of the edit the server has for step `s`. The page's `held` is sent
whole with every request, and the server keeps what it has for keys that are not sent (`Merged`;
the code files most keys under the step of its copy, the model keeps of each what was merged last).

*Requests.* No request takes a lock. Each is a read of the row into `copy` (`ReadCall`,
`ReadBackground`, `ReadCompletion`), work on this copy, and a save of every column of it
(`SaveNext`, `RejectNext`, `SaveBack`, `SaveBackground`, `SaveCompletion`), so that requests under
way together overwrite each other's data and step. A debounced update (`Fire`) is a member of
`background`, so several can be under way, in any order, beside a move (`call`: `NextStep` or
`PreviousStep`, then `Moved` or `NotMoved`) and a completion. The server advances from the step
*its copy* is on. Each request may fail, or its answer may be lost, at every point (`LoseCall`,
`LoseBackground`, `LoseCompletion`).

*The page* is open, closed, loading, or offers to resume. `SaveOnLeave`, `Close`, `Exit`, `Discover`,
`Resume` and `Discard` go through the record in localStorage (`saved`, the step in it; 0 when there
is none or one without progress). A page that is closed leaves its requests running (`live` is then
FALSE), and their saves may come when the next page is open.

*History.* No action reads `apart` or `behind`; they only say since when a property may fail.
`apart` is set when the row is moved to another step by a save whose page is not told of it (a
background update, a rejected Next, a completion), by a move that was saved and whose answer is
lost, by the answer of a Next that found its copy completed, and by the late answer to a completion
that shows the confirmation again. The answer to a move and a reload clear it. `behind` is set when
a save lowers what the row has of some step, and by the Next of a copy that was completed (its data
are dropped); the save of a Next, which carries all that the page holds, and a reload clear it.

### AvailabilitySocket

A WebSocket has a name from `Sockets`, and the name is kept for the timer that its `onclose` sets
(`"waiting"`). `closure[n]` is the selected date its handlers were made with. `Effects` is what
React runs after a render whose `connect` is another function: the cleanup of the last effects
(close, clear the *last* timer) and `connect`. `close()` sends no code, so `onclose` sees 1000 only
if the server answers so, and never for a socket that was still connecting: `Closes` leaves both
outcomes open. `TimerFires` calls the `connect` of the render that made the socket.

## 3. Runs

Each run asks one question. "States" are distinct states found by TLC.

| Run | Question | Result | States |
|---|---|---|---|
| `DateReservation` | `TypeOK`; one active reservation per date (`OneActivePerDate`); a PENDING row is confirmed in the step that blocks the date for its event, whatever stale saves do to the event (`ConfirmedAtBlock`); ended rows stay ended (`FinalStatus`); refinement of `DateLease` (`LeaseSpec`); every request returns (`RequestsReturn`); every PENDING row ends (`PendingSettles`) | holds | 99k |
| `FirstToPayRace` | `TypeOK`; a settlement cancels only unpaid, unblocked competitors (`CompetitorsUnpaid`); every completion returns, with crashes and deadlocks (`CompletionsReturn`) | holds | 47k |
| `FirstToPayInstalments` | a blocked date is paid for (`BlockedIsPaid`); a payment has one completed refund, and at the gateway another only when the one before could not be recorded (`RefundedOnce`) | holds | 1.09M |
| `FirstToPayTwoBlock` | does only one event block a date (`OneBlockingEvent`)? | violated | |
| `BookingCompletion` | `TypeOK`; charges exclude one another (`ChargesExclude`); links name committed events (`LinksExist`); a settled session is idempotent (`SettledForGood`); every request returns (`RequestsReturn`) | holds | 31k |
| `BookingCompletionTwice` | one event per session (`OneEventPerSession`)? | violated | |
| `TokenRefresh` | `TypeOK`; every tab implements `SingleFlight` (`FlightSpec`); the calls that wait fare as the one that refreshes (`FareAlike`); every call returns (`RequestsReturn`) | holds | 303k |
| `TokenRefreshRotation` | can the refresh token that is stored be used (`StoredRefreshUsable`)? | violated | |
| `BookingDraft` | `TypeOK`; a page at rest shows the server's step (`InStep`), and what was entered before it is on the server (`PassedStepsSaved`), until a save of an outdated copy; Next does not complete the booking (`NextNeverCompletes`); a booking is completed with the data that the client has confirmed (`BookedAsConfirmed`); only a booking with completed steps is offered again (`OfferMeaningful`); a blocked page is released (`PageReleased`) | holds | 1.07M |
| `InvoicePayment` | `TypeOK`; completed implies charged (`CompletedIsCharged`); somebody knows of every charge that is not noted yet (`ChargesTracked`); a client who gets every answer is not overcharged (`NotOvercharged`); completed stays completed (`CompletedStays`); refinement of `Purchase` (`PurchaseSpec`); charged leads to completed (`ChargedCompletes`) | holds | 199k |
| `InvoiceOverpaid` | is nobody overcharged when an answer is lost (`NeverOvercharged`)? | violated | |
| `AvailabilitySocket` | `TypeOK`; no connection is left behind (`OneLive`); the last socket is live or has the timer (`NeverStranded`); a lost connection comes back (`Reconnects`); the hook comes to rest once nothing disturbs it (`Calms`) | holds | 130k |

`CHECK_DEADLOCK FALSE` is set where the system may stop: when all requests have returned
(`FirstToPay`, `BookingCompletion`), when the attempts, edits or tokens of the bound are used up
and the page is left (`InvoicePayment`, `BookingDraft`), and when the date step has been left
and its sockets are closed (`AvailabilitySocket`). `DateReservation` and `TokenRefresh` never
stop (time goes on, pages are reloaded), and are checked for deadlock.

### Bounds, and why they are enough

* `DateReservation`: two sessions, one date, two tokens, two requests, one event, `Timeout = 2`.
  The date lock is per date and no query crosses dates, so one date shows every conflict; two
  requests may belong to one session (a retry) or to two (a race). `Timeout = 2` tells "fresh",
  "about to expire", "expired" and "overdue" apart. One event, because the cleanup is one UPDATE
  over all overdue rows and waits for the settlements that hold any of them: with settlements of
  two events that start and roll back for ever it could wait for one or the other row for ever,
  which no client does. The proofs remove these bounds for the safety properties.
* `FirstToPay`: two events and two workers: a race is between two, and a cycle of two waits is a
  deadlock. `FirstToPayRace` gives each worker a payment of its own event. `FirstToPayInstalments`
  gives the workers two instalments of one event, whose date is free or, because `Init` starts from
  any subset of `Settled = {e2}`, already taken: each instalment may then find the date lost, and
  each of three signal passes of two workers may start the refunds. Three workers exceed ten
  million states and are left to the proofs.
* `BookingCompletion`: two completions, one update, one abandon. A third completion adds no new
  kind of conflict, because each conflict is between one copy and one commit.
* `TokenRefresh`: two calls of one tab (a leader and a follower) and a second tab, which logs out,
  in and is reloaded; AuthContext of either makes its own refreshes as calls of the same kind.
  `MaxToken = 2` lets a refresh succeed, be followed by an expiry, and meet a server that fails.
* `BookingDraft`: `LastStep = 3` has a first step, one between, and the confirmation.
  `MaxRequests = 2`: what two requests that overlap do to each other shows every conflict of one
  copy with one save. `MaxEdit = 1`: the one edit may be made at any step and be sent by updates, a
  move and the page that is left; two edits (8.2 million states) break no safety property either.
  `Resume` waits until the move that an earlier page asked for has been served, because the module
  has one `call`; that page's updates and its completion need not have been served. The proofs keep
  this, and one completion at a time; they remove the numbers.
* `InvoicePayment`: two attempts, because to overcharge takes two; `Total = 3` and `Deposit = 2`
  let two deposits exceed the total and one leave a remainder. `Faults = {"answer"}`.
  With `Faults = {}` three attempts hold the same properties (758k states, not a run).
* `AvailabilitySocket`: four names for sockets and timers, one date. With three names, or with
  three names and two dates, nothing else is found. `Broadcast` is not bounded: a settlement that
  is rolled back broadcasts again when it is retried.
* Counters that a guard bounds: `MaxToken` (the server refuses), `MaxEdit`, `MaxAttempt`. Those of
  `FirstToPay` (`refundsDone`, `gateway`, `doubts`) grow by at most one per pass of a worker, and
  every worker ends.

### Fairness

* A request or worker thread keeps running, so its steps are fair. Fairness is strong (`SF`) where
  a statement waits for a lock, because PostgreSQL queues the waiters and grants the lock in turn;
  weak fairness would let the lock be taken by others every time it becomes free.
* `AbortDeadlock` is weakly fair: the deadlock detector runs after `deadlock_timeout`.
* `Cleanup` is fair because Celery beat runs it every 300 s
  (`src/backend/core/celery.py`, `cleanup-expired-reservations`); `Tick` is fair because time passes.
* `TokenRefresh`: every call is answered or fails, and a page runs its callbacks (`Step`).
* `BookingDraft`: the network delivers a request of a move or gives up on it, and the page runs
  what follows its answer. Nothing is assumed of background updates or of the client.
* `InvoicePayment`: the server goes on with a request it has begun, Stripe answers and repeats a
  webhook until it is answered, and the hook of a commit runs. Nothing is assumed of the client.
* `AvailabilitySocket`: a page runs its effects, callbacks and timers, and a socket that is closed
  closes. Strong fairness says that of connections that are begun again and again one is opened:
  a handshake takes less than the five seconds until the next timer, sooner or later.
* Nothing is assumed of releases, cancellations, deadline tasks, crashes, or of the start of a
  settlement: a client may leave at any time.

## 4. What the violated runs show

Each of the four states a sentence of the repository and finds a behaviour of the code against it;
the quoted lines are in `PROJECT.json`.

* **Two events can block a date** (`FirstToPayTwoBlock`). The comment says that all events of the
  date are locked; the lazy query locks only those that block it already.
* **Two events for one session** (`BookingCompletionTwice`). The lock of the first transaction ends
  before the mark.
* **A refresh token that cannot be used** (`TokenRefreshRotation`, seven states). The interceptor
  stores the refresh token it has just sent, which the server has blacklisted: the next expiry ends
  the session. AuthContext stores the new one.
* **An invoice paid twice** (`InvoiceOverpaid`). Every call makes an intent of its own for the whole
  of what remains, and nothing looks again when the second is confirmed.

What follows was found in the same way but has no run, either because the repository promises
nothing else or because it is the same question with a fault the run leaves out. Each is a
behaviour of a module; where a formula is named, checking it shows the behaviour again.

*First to pay wins.*

* A stale save undoes a block (`payments/models/payment.py:125`, `events/models/event.py:352`).
  `update_payment_status` ends with a save of an object read before the signal ran, and sets
  `date_blocked` back to False, after which the event may be settled again and a second reservation
  confirmed for it. What remains true is `BlockedIsPaid`, and `ConfirmedAtBlock` of
  `DateReservation`, which has the same save.
* The gateway refunds twice, `\E p \in Payments : gateway[p] > 1`, when a worker is killed between
  `stripe.Refund.create` and the commit, or does not get "succeeded", and a later pass finds no
  COMPLETED refund. The comment at `payments/services/refund_service.py:116` says that the
  idempotency key ensures that retries never create duplicate refunds; but the key is the id of a
  row that was rolled back or is not used again.
* The deadline task does not look again (`events/tasks/deadline_tasks.py:57`): a downpayment that
  commits between its read and its UPDATE is overridden.
* Instalments (`payments/signals.py:82`): the second instalment, which reaches the threshold, is not
  looked at because the event is no longer UNPAID.
* A settlement looks at events, never at the reservations of other sessions, so a session may lose
  the date inside its payment window. Two completions of one payment both pass the unlocked check
  of `complete_payment` and both write a timeline entry.

*Booking.*

* A completed session is reopened by a request that saves an older copy
  (`bookingflow/services/session_lifecycle_service.py:409`). `SettledForGood` is about requests that
  begin after the settlement.
* A charge survives the rollback of the booking it belongs to
  (`bookingflow/services/booking_completion_service.py:349`), and nothing refunds it.
* Next completes the booking without its safeguard seeing it
  (*portal* `contexts/BookingContext/useNavigationActions.ts:33-35` looks at the page only): when
  the answer to the move to the confirmation is lost, the page stays one step behind, and the server
  advances from its own step; or when a debounced update reads the row on the last step, the client
  goes back, the update saves its copy, which puts the step forward again, and Next is pressed.
  `NextNeverCompletes` without `apart` is violated.
* An update that was read before a move saves what the row had then
  (`bookingflow/services/session_lifecycle_service.py:149`, `:409`): the step goes back, or the data
  that the move has saved are lost. `InStep` without `apart` and `PassedStepsSaved` without `behind`
  are violated. The client does not wait for a debounced update before Next or Back.
* For the same reason the safeguard "Prevent updating completed sessions"
  (`bookingflow/services/session_lifecycle_service.py:151`) does not hold for a copy that was read
  before the completion: its save takes the completion back.
* After a completion the record is cleared so that the booking is not offered again (*portal*
  `hooks/booking/useConfirmation.tsx:137-138`). A client who goes back saves it again, and is
  offered a booking that is completed.
* The record that a debounced update saves replaces the whole record, without its progress, so the
  session is not offered again (*portal* `contexts/BookingContext/useDebouncedUpdate.ts:24`).

*Invoice payment.*

* With `"impatience"` `NotOvercharged` is violated: the dialog is closed by its backdrop while `pay/`
  is under way, opened again with the invoice as it was, and the invoice is paid again.
* With `"loss"` `ChargesTracked` and `ChargedCompletes` are violated (`PurchaseSpec` and, for a client
  who gets every answer, `NotOvercharged` are not). The server stops between the charge and the commit
  of its transaction, and the webhook finds no transaction to complete
  (`payments/services/gateway_service.py:399`); or the hook of a webhook is lost after its transaction
  was saved, and the retry finds it COMPLETED (`payments/services/unified_webhook_processor.py:253`).
* The invoice stays ISSUED when it is paid, although
  `payments/services/invoice_service.py:474-475` says that it is marked as paid.
* A deposit or a custom amount chosen with a *new* card is not sent: the intent is for the whole
  remainder.

*Availability socket.* In `AvailabilitySocket`:

* `[]<><<Disturbed>>_vars \/ <>[](mounted => closure[wsRef] = selectedDate)` is violated in eight
  states: the timer of an old render fires while the connection of the last one is opening,
  replaces it, and the hook rests on handlers that know the old selection. The block of the
  selected date then goes unnoticed until the next render.
* `~mounted ~> \A n \in Sockets : readyState[n] \notin Live` is violated in five: the cleanup of
  the page closes the socket and clears the timer, and the `onclose` that follows sets another,
  unless its code is 1000. The connection is then open for as long as the tab is.
* With two dates, a message about one date takes back the selection of the other, if the client
  selects it before the effects of the last render ran.
* `DateBlockingService` broadcasts before its transaction commits
  (`events/services/date_blocking_service.py:341`): a page may fetch the calendar too early and keep
  it, or take a selection back for a settlement that is rolled back. A page that is reconnecting
  misses the message. None of this books a date twice; the server checks again.

## 5. What is proved

TLAPS proves the following for every value of the constants that satisfies the named assumption of
the module. The assumptions only type the constants, with three exceptions in
`FirstToPayAssumption`: `Downpayment` is closed under adding payments (amounts are positive), no
payments cover no invoice, and a date blocked at the start is paid for.

| Theorem | Statement | Argument |
|---|---|---|
| `DateReservation_proofs!MutualExclusion` | `Spec => []OneActivePerDate` | `LockInv`: a request inside the transaction owns the date's lock (`InsideHoldsLock`), so what its queries found (`OwnChecked`, `RivalsChecked`) stays true. Every other step only shrinks the set of active reservations (`LockInvShrinks`); the commit adds one to a date that has none (`LockInvCommit`). |
| `…!Confirmations` | `Spec => ConfirmedAtBlock` | `SettleInv`: the event of an open settlement is open, because its row lock keeps stale saves and cancellations away (`SettlesOpen`); the row it will confirm is PENDING (`ConfirmsPending`) and locked by it alone (`RowLockExclusive`). |
| `…!Finality` | `Spec => FinalStatus` | each action changes PENDING rows or new rows; for the commit of a settlement this is `ConfirmsPending`. |
| `…!ImplementsLease` | `Spec => LeaseSpec` | under `LockInv` the holder of a date is well defined; a commit is a `Grant`, every other step a `Lapse` of the dates whose reservation ended, or a stutter. |
| `…!NoDateLeftLocked` | `Spec => []DateReleased` | no advisory lock outlives its transaction: with `Called` of `LockInv` it is inductive. |
| `FirstToPay_proofs!OneRefund` | `Spec => []RefundedOnce` | `RefundInv`: what `SelectDue` has found without a refund stays so (`DueIsFresh`), what is made and not committed belongs to an open refund (`MadeIsFresh`), and of the refunds of the gateway all but one are in doubt, and that one is known to a worker or to the database (`RefundsKnown`). It rests on `RowInv`: in between a worker holds its event's row, so no other worker refunds payments of that event (`HoldsOwnRow`). |
| `…!OnlyUnpaidCancelled` | `Spec => CompetitorsUnpaid` | the foreign rows that a worker holds at the commit are competitors still (`HoldsCompetitors`), because every write of an event waits for its lock. |
| `…!NoRowLeftLocked` | `Spec => []LocksReleased` | rows are locked only while their worker has a transaction open (`InTransaction`); a loser that leaves the settlement holds no competitors (`HoldsCompetitors`). |
| `…!BlockPaid` | `Spec => []BlockedIsPaid` | `PaidInv`: every copy of `date_blocked`, and every decision to go on, was made when the downpayment was reached, and this is stable because completed payments stay completed (`ReachedStays`). |
| `BookingCompletion_proofs!ChargeExclusion` | `Spec => []ChargesExclude` | `HoldsRow`: from the mark to the commit the request owns the row. |
| `…!NoRowLeftLocked` | `Spec => []RowReleased` | inductive with `HoldsRow`: only the holder leaves the second transaction. |
| `…!LinksSound` | `Spec => []LinksExist` | every copy of a link names a committed event, and events are never removed. |
| `…!Idempotency` | `Spec => SettledForGood` | `WorksOpen`: a request that goes on works from an open copy, of which a settled session has none. |
| `TokenRefresh_proofs!Refinement` | `Spec => FlightSpec` | `MutexInv`: in every tab the queue holds exactly the calls that wait (`QueueKept`), the flag is set exactly while one refreshes (`FlagSet`), one at a time (`OneRefreshes`), and no queue is without a refresh (`QueueServed`). Steps that touch neither are stutters (`NeutralStep`). |
| `…!CommonFate` | `Spec => FareAlike` | by `MutexInv` the queue that is emptied is the set of calls that wait. |
| `BookingDraft_proofs!PageInStep` | `Spec => []InStep` | `StepInv`: unless they are apart, the page shows the row's step, but for a move on its way, and a Next on its way was sent, and read its copy, on that step, which is not the last. |
| `…!NoCompletionByNext` | `Spec => NextNeverCompletes` | `StepInv` again: a Next whose copy is on the last step finds `apart` set. |
| `…!PassedSaved` | `Spec => []PassedStepsSaved` | `DataInv`: a Next carries what the page holds (`PageInv`); unless something was taken back, the row has what the page holds of the steps passed, and what it will have passed when the answer comes (`RowInv`). |
| `…!Confirmed` | `Spec => BookedAsConfirmed` | `DataInv` again: what the client has confirmed stays below what the row has, unless a save takes it back. |
| `…!Offers` | `Spec => []OfferMeaningful` | `OfferInv`: a record, a page or an answer that shows progress was made when steps were complete, and they stay so; no answer writes the record while the page is not open. |
| `InvoicePayment_proofs!Charged` | `Spec => []CompletedIsCharged`, any faults | `ChargeInv`: whatever leads to COMPLETED (a webhook, its hook, the server's commit) was started by a charge. |
| `…!Final` | `Spec => CompletedStays`, any faults | each writer of a status is a case of `FinalStep`; the mirror's guard is the one that matters. |
| `…!ImplementsPurchase` | `Spec => PurchaseSpec`, any faults | `ChargeInv` and `AmountInv` (what is charged is an amount of the invoice): an intent is charged once, the mirror of a transaction notes it once, and the other steps are stutters (`PurchaseStep`). |
| `…!NoneForgotten` | `Spec => []ChargesTracked`, without `"loss"` | `TrackInv`: a transaction is COMPLETED only when its intent is charged (`TxnInv`), so a webhook that finds it unfinished will note the charge, and whoever takes the webhook away leaves a hook behind. |
| `…!NoOvercharge` | `Spec => []NotOvercharged`, without `"impatience"` | `BillInv`: at most one attempt may still charge (`OneBusy`), what is charged is noted (`Noted`), what may be charged fits (`Fits`); `ScreenInv` and `FormInv` tie the dialog and the intents in the form to what remains. With stops and lost answers it has to be known, too, that an attempt with no transaction to find, or a completed one, gets no late hook or failure (`PayInv`), and that one whose answer is an error stays where it is (`Stranded`). |
| `AvailabilitySocket_proofs!NoneLeftBehind` | `Spec => []OneLive` | inductive with `TypeOK`: every new connection closes the one it replaces (`ConnectKeepsOneLive`). |
| `…!AlwaysConnecting` | `Spec => []NeverStranded` | inductive with `OneLive`: only the last socket is live, so a close takes the connection away only where it sets the timer. |
| `TypeCorrect` in each | `Spec => []TypeOK` | one step per action. |

Each invariant above (`LockInv`, `SettleInv`, `RowInv`, `RefundInv`, `PaidInv`, `CompletionInv`,
`MutexInv`, `StepInv`, `DataInv`, `OfferInv`, `ChargeInv`, `TrackInv`, `PayInv`, and `BillInv` with
`ScreenInv` and `FormInv`) is inductive, with the type invariant and where named those before it;
the property alone is not, since it says nothing of who holds which lock, or of what is on its way.
The hypotheses of `InvoicePayment` about `Faults` cannot be weakened: with any one of the faults that
a theorem excludes, TLC finds its property violated in the instance of the run.

The theorems about locks (`NoDateLeftLocked` and both `NoRowLeftLocked`) are the safety half of
`RequestsReturn` and `CompletionsReturn`: whatever a transaction comes to, nobody waits for a lock
that nobody will release. The formulas are invariants of the same instances, though no run
lists them.

## 6. Only model-checked

Liveness is beyond TLAPS and rests on TLC: `RequestsReturn` of `DateReservation`,
`BookingCompletion` and `TokenRefresh`, `PendingSettles`, `CompletionsReturn`, `PageReleased`,
`ChargedCompletes`, `Reconnects` and `Calms`. What a proof can say of them is proved as safety:
`DateReleased`, `LocksReleased` and `RowReleased` (no lock is left), `ChargesTracked` (somebody will
note the charge), `NeverStranded` (a connection or its timer is there); that the step which is
possible is taken in the end is left to TLC and the fairness of section 3. Every invariant and every
action property of a passing run is a theorem. The violated properties are statements about
counterexamples, which TLC shows.

## 7. Not modelled

* In `DateReservation`: `get_reservation_by_token` and `validate_reservation_for_completion`, which
  only read (and the second is called by nothing).
* In `FirstToPay`: the workflow engine, notifications and caches that the save also calls; the
  IMMEDIATE blocking policy; LEAD events as competitors (the competing query selects CONFIRMED
  ones only); the FAILED branch of `PaymentTransaction.save`; partial refunds.
* In `BookingCompletion`: creation of sessions and moves between earlier steps; the content of
  events, quotes, contracts and invoices; expiry while a completion runs (checked once, by the
  view's read).
* In `InvoicePayment`: Stripe's "processing" answer and the second factor of a saved card, payment
  plans, manual payments, other gateways, refunds and disputes; the mobile payment sheet.
* In `TokenRefresh`: the expiry of refresh tokens; the CRM's client, which has the same mutex
  without the exception for public calls; the mobile interceptor, which has no mutex.
* In `BookingDraft`: the quick-quote mode, prices, validation messages, the step list of a flow
  whose steps are hidden by conditions, two tabs on one session, the expiry of a session; the
  context's `completeBooking` and `validateStep`, which nothing calls. The mobile BookingContext
  has the same protocol with other details and is not modelled.
* In `AvailabilitySocket`: pings, `isConnected` (which goes false when the `onclose` of an old
  socket comes after the new one has opened), the fetch of the calendar, `date_released`, which
  nothing sends, and the `reconnect` and `enabled` options, which no page uses.
* The offline queue of the mobile application: no screen calls `useOfflineMutations`. Its
  operations read, change and write the list without a lock, so an enqueue during processing can
  be lost and a mutation sent twice; a model would be of code that does not run.
* The other components of section 1. Most are CRUD over Django's ORM, forms and screens, of which
  a model would say no more than the code: the repository has 340 thousand lines, and the modules
  cover the parts where several actors meet.

## 8. Plan

1. *Done:* `DateLease`, `DateReservation`, `FirstToPay`, `BookingCompletion`, `InvoicePayment`,
   `Purchase`, `SingleFlight`, `TokenRefresh`, `BookingDraft`, `AvailabilitySocket`, with proofs of all
   their safety.
2. Refunds by staff: two partial refunds of one payment and the limit they must keep
   (`payments/services/refund_service.py`); theorem: the limit, under the locks the code takes.
3. `DateHold`: hold, extend, convert, release by the sweep; with event creation under the IMMEDIATE
   policy.
4. `WorkflowEngine`: progress by several triggers, idempotency.
5. `CircuitBreaker`: breaker rows and cached state; abstract specification with three states.
6. `VipTotals` and `QuoteAcceptance`: signals and double counting.
7. Proofs: an abstract specification of one booking that `BookingCompletion` implements, and the
   type invariants of 2 to 6.

Every further module brings its runs; a violated run of this page gives way where a new one needs
its place, and its finding is kept here in prose.
