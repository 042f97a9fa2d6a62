--------------------------- MODULE DateReservation ---------------------------
(***************************************************************************)
(* The DateReservation table and the transactions of                       *)
(* AtomicAvailabilityService that read and write it: validate_and_reserve, *)
(* release, confirm and the periodic cleanup, interleaved statement by     *)
(* statement where a statement reads what another transaction may change.  *)
(*                                                                         *)
(* PostgreSQL runs READ COMMITTED: a statement sees what was committed     *)
(* when it starts; a row written or locked by an open transaction makes    *)
(* another writer or FOR UPDATE reader wait; an advisory transaction lock  *)
(* is released at commit or rollback.                                      *)
(*                                                                         *)
(* Time is kept as the time LEFT of each reservation (expires_at minus the *)
(* current time), so that the clock needs no bound: -1 stands for every    *)
(* instant after the expiry, 0 for the expiry itself.                      *)
(***************************************************************************)
EXTENDS Integers

CONSTANTS
  Sessions,    \* booking sessions
  Dates,       \* calendar dates
  Tokens,      \* reservation tokens (uuid4: every insert takes a new one)
  Requests,    \* calls of validate_and_reserve_date, each made once
  Events,      \* events that may be settled by a downpayment
  SessionOf,   \* the session that created an event
  DateOf,      \* the date of an event
  Timeout,     \* RESERVATION_TIMEOUT_SECONDS, in ticks
  None         \* SQL NULL

ASSUME ReservationAssumption ==
  /\ Timeout \in Nat \ {0}
  /\ SessionOf \in [Events -> Sessions]
  /\ DateOf \in [Events -> Dates]
  /\ None \notin Sessions \cup Dates \cup Tokens \cup Requests \cup Events

VARIABLES
  (* the DateReservation table *)
  status,      \* per token; NONE: no such row
  owner,       \* booking_session_id
  date,        \* target_date
  left,        \* expires_at, as the time left
  confirmedBy, \* confirmed_event_id
  (* the reservation requests *)
  dateLock,    \* per date, the request that holds the advisory lock
  pc,          \* the step each request has reached
  forSession, forDate,  \* its arguments
  newLeft,     \* the expires_at it has computed, as the time left
  answer,      \* the token it returned, None when the date is refused
  (* the events of the dates and the settlements of their downpayments *)
  event,       \* open, blocking (date_blocked) or cancelled
  copy,        \* the Event a save of one of its payments has read, or None
  txn,         \* the step each settlement has reached
  txnToken,    \* the reservation_token it was given
  txnConfirms  \* confirm_reservation accepted it

table == <<status, owner, date, left, confirmedBy>>
requests == <<dateLock, pc, forSession, forDate, newLeft, answer>>
settlements == <<txn, txnToken, txnConfirms>>
vars == <<table, requests, event, copy, settlements>>

Statuses == {"NONE", "PENDING", "CONFIRMED", "RELEASED", "EXPIRED"}
EventStates == {"open", "blocking", "cancelled"}
InTransaction == {"own", "blocked", "others", "insert"}

TypeOK ==
  /\ status \in [Tokens -> Statuses]
  /\ owner \in [Tokens -> Sessions \cup {None}]
  /\ date \in [Tokens -> Dates \cup {None}]
  /\ left \in [Tokens -> -1 .. Timeout]
  /\ confirmedBy \in [Tokens -> Events \cup {None}]
  /\ dateLock \in [Dates -> Requests \cup {None}]
  /\ pc \in [Requests -> {"idle", "lock", "done"} \cup InTransaction]
  /\ forSession \in [Requests -> Sessions \cup {None}]
  /\ forDate \in [Requests -> Dates \cup {None}]
  /\ newLeft \in [Requests -> -1 .. Timeout]
  /\ answer \in [Requests -> Tokens \cup {None}]
  /\ event \in [Events -> EventStates]
  /\ copy \in [Events -> EventStates \cup {None}]
  /\ txn \in [Events -> {"idle", "confirm", "commit"}]
  /\ txnToken \in [Events -> Tokens \cup {None}]
  /\ txnConfirms \in [Events -> BOOLEAN]

Init ==
  /\ status = [t \in Tokens |-> "NONE"]
  /\ owner = [t \in Tokens |-> None]
  /\ date = [t \in Tokens |-> None]
  /\ left = [t \in Tokens |-> -1]
  /\ confirmedBy = [t \in Tokens |-> None]
  /\ dateLock = [d \in Dates |-> None]
  /\ pc = [r \in Requests |-> "idle"]
  /\ forSession = [r \in Requests |-> None]
  /\ forDate = [r \in Requests |-> None]
  /\ newLeft = [r \in Requests |-> -1]
  /\ answer = [r \in Requests |-> None]
  /\ event = [e \in Events |-> "open"]
  /\ copy = [e \in Events |-> None]
  /\ txn = [e \in Events |-> "idle"]
  /\ txnToken = [e \in Events |-> None]
  /\ txnConfirms = [e \in Events |-> FALSE]

-----------------------------------------------------------------------------
(* Queries                                                                 *)

IsExpired(t) == left[t] <= 0

IsActive(t) == status[t] = "PENDING" /\ ~IsExpired(t)

\* Active reservations of session s, and of every other session, for date d.
OwnActive(s, d) ==
  {t \in Tokens : IsActive(t) /\ owner[t] = s /\ date[t] = d}

RivalExpired(s, d) ==   \* MUTANT: the comparison of expires_at is swapped
  {t \in Tokens : status[t] = "PENDING" /\ IsExpired(t) /\ owner[t] # s /\ date[t] = d}

RivalActive(s, d) ==
  {t \in Tokens : IsActive(t) /\ owner[t] # s /\ date[t] = d}

\* Some non-cancelled event with date_blocked is on date d.
IsBlocked(d) == \E e \in Events : event[e] = "blocking" /\ DateOf[e] = d

\* An open settlement holds the row lock of reservation t.
RowLocked(t) == \E e \in Events : txn[e] = "commit" /\ txnToken[e] = t

-----------------------------------------------------------------------------
(* validate_and_reserve_date                                               *)

Goto(r, label) == pc' = [pc EXCEPT ![r] = label]

FinishKeepingLock(r, t) ==   \* MUTANT: a session lock instead of a transaction lock
  /\ Goto(r, "done")
  /\ answer' = [answer EXCEPT ![r] = t]
  /\ UNCHANGED dateLock

\* The transaction of r ends (commit or rollback): the advisory lock is freed.
Finish(r, t) ==
  /\ Goto(r, "done")
  /\ answer' = [answer EXCEPT ![r] = t]
  /\ dateLock' = [d \in Dates |-> IF dateLock[d] = r THEN None ELSE dateLock[d]]

Call(r) ==
  /\ pc[r] = "idle"
  /\ \E s \in Sessions, d \in Dates :
       /\ forSession' = [forSession EXCEPT ![r] = s]
       /\ forDate' = [forDate EXCEPT ![r] = d]
  /\ Goto(r, "lock")
  /\ UNCHANGED <<table, dateLock, newLeft, answer, event, copy, settlements>>

AcquireWithoutWaiting(r) ==   \* MUTANT: the result of a try-lock is not looked at
  /\ pc[r] = "lock"
  /\ dateLock' = [dateLock EXCEPT ![forDate[r]] = r]
  /\ Goto(r, "own")
  /\ UNCHANGED <<table, forSession, forDate, newLeft, answer, event, copy, settlements>>

\* pg_advisory_xact_lock(date): waits while another request holds the date.
AcquireDateLock(r) ==
  /\ pc[r] = "lock"
  /\ dateLock[forDate[r]] = None
  /\ dateLock' = [dateLock EXCEPT ![forDate[r]] = r]
  /\ Goto(r, "own")
  /\ UNCHANGED <<table, forSession, forDate, newLeft, answer, event, copy, settlements>>

\* Step 1: a retry of a session gets the reservation it already holds.
ReturnOwn(r) ==
  /\ pc[r] = "own"
  /\ \E t \in OwnActive(forSession[r], forDate[r]) : Finish(r, t)
  /\ UNCHANGED <<table, forSession, forDate, newLeft, event, copy, settlements>>

FindNoOwn(r) ==
  /\ pc[r] = "own"
  /\ OwnActive(forSession[r], forDate[r]) = {}
  /\ Goto(r, "blocked")
  /\ UNCHANGED <<table, dateLock, forSession, forDate, newLeft, answer, event, copy,
                 settlements>>

\* Step 2: only events that block the date already are selected (and locked).
RejectBlocked(r) ==
  /\ pc[r] = "blocked"
  /\ IsBlocked(forDate[r])
  /\ Finish(r, None)
  /\ UNCHANGED <<table, forSession, forDate, newLeft, event, copy, settlements>>

FindNotBlocked(r) ==
  /\ pc[r] = "blocked"
  /\ ~IsBlocked(forDate[r])
  /\ Goto(r, "others")
  /\ UNCHANGED <<table, dateLock, forSession, forDate, newLeft, answer, event, copy,
                 settlements>>

\* Step 3: FOR UPDATE waits for a rival row that a settlement has locked.
RejectReserved(r) ==
  /\ pc[r] = "others"
  /\ \E t \in RivalActive(forSession[r], forDate[r]) : ~RowLocked(t)
  /\ Finish(r, None)
  /\ UNCHANGED <<table, forSession, forDate, newLeft, event, copy, settlements>>

ComputeExpiryLate(r) ==   \* MUTANT: the payment window is one tick too long
  /\ pc[r] = "others"
  /\ RivalActive(forSession[r], forDate[r]) = {}
  /\ newLeft' = [newLeft EXCEPT ![r] = Timeout + 1]
  /\ Goto(r, "insert")
  /\ UNCHANGED <<table, dateLock, forSession, forDate, answer, event, copy, settlements>>

\* Step 4: expires_at is computed here and committed later.
ComputeExpiry(r) ==
  /\ pc[r] = "others"
  /\ RivalActive(forSession[r], forDate[r]) = {}
  /\ newLeft' = [newLeft EXCEPT ![r] = Timeout]
  /\ Goto(r, "insert")
  /\ UNCHANGED <<table, dateLock, forSession, forDate, answer, event, copy, settlements>>

CommitReservation(r) ==
  /\ pc[r] = "insert"
  /\ \E t \in Tokens :
       /\ status[t] = "NONE"
       /\ status' = [status EXCEPT ![t] = "PENDING"]
       /\ owner' = [owner EXCEPT ![t] = forSession[r]]
       /\ date' = [date EXCEPT ![t] = forDate[r]]
       /\ left' = [left EXCEPT ![t] = newLeft[r]]
       /\ Finish(r, t)
  /\ UNCHANGED <<confirmedBy, forSession, forDate, newLeft, event, copy, settlements>>

\* An exception or a lost worker: the transaction is rolled back.
Rollback(r) ==
  /\ pc[r] \in InTransaction
  /\ Finish(r, None)
  /\ UNCHANGED <<table, forSession, forDate, newLeft, event, copy, settlements>>

-----------------------------------------------------------------------------
(* release_reservation and cleanup_expired_reservations                    *)

ReleaseAny(t) ==   \* MUTANT: the status filter forgets CONFIRMED
  /\ status[t] \in {"PENDING", "CONFIRMED"}
  /\ ~RowLocked(t)
  /\ status' = [status EXCEPT ![t] = "RELEASED"]
  /\ UNCHANGED <<owner, date, left, confirmedBy, requests, event, copy, settlements>>

\* Any other status is a no-op: releasing is idempotent.
Release(t) ==
  /\ status[t] = "PENDING"
  /\ ~RowLocked(t)
  /\ status' = [status EXCEPT ![t] = "RELEASED"]
  /\ UNCHANGED <<owner, date, left, confirmedBy, requests, event, copy, settlements>>

OverdueSwapped == {t \in Tokens : status[t] = "PENDING" /\ left[t] > 0}   \* MUTANT

\* One UPDATE: it waits for locked rows and evaluates its WHERE again.
Overdue == {t \in Tokens : status[t] = "PENDING" /\ left[t] < 0}

Cleanup ==
  /\ Overdue # {}
  /\ \A t \in Overdue : ~RowLocked(t)
  /\ status' = [t \in Tokens |-> IF t \in Overdue THEN "EXPIRED" ELSE status[t]]
  /\ UNCHANGED <<owner, date, left, confirmedBy, requests, event, copy, settlements>>

-----------------------------------------------------------------------------
(* The settlement of an event by its downpayment, which confirms the       *)
(* reservation of its session (atomic_process_downpayment_received).  The  *)
(* cancellation of the competing events is detailed in FirstToPay.         *)

\* The token stored in booking_data is one that the session was granted.
SettleBegin(e) ==
  /\ txn[e] = "idle"
  /\ event[e] = "open"
  /\ ~IsBlocked(DateOf[e])
  /\ txn' = [txn EXCEPT ![e] = "confirm"]
  /\ \E t \in {u \in Tokens : owner[u] = SessionOf[e]} \cup {None} :
       txnToken' = [txnToken EXCEPT ![e] = t]
  /\ UNCHANGED <<table, requests, event, copy, txnConfirms>>

ConfirmAtOnce(e) ==   \* MUTANT: confirm_reservation commits before its caller
  /\ txn[e] = "confirm"
  /\ txnToken[e] \in Tokens /\ ~RowLocked(txnToken[e]) /\ IsActive(txnToken[e])
  /\ status' = [status EXCEPT ![txnToken[e]] = "CONFIRMED"]
  /\ confirmedBy' = [confirmedBy EXCEPT ![txnToken[e]] = e]
  /\ txn' = [txn EXCEPT ![e] = "commit"]
  /\ UNCHANGED <<owner, date, left, requests, event, copy, txnToken, txnConfirms>>

\* confirm_reservation: lock the row, then decide; a refusal is swallowed.
ConfirmReservation(e) ==
  /\ txn[e] = "confirm"
  /\ txnToken[e] = None \/ ~RowLocked(txnToken[e])
  /\ txnConfirms' = [txnConfirms EXCEPT ![e] =
                       IF txnToken[e] = None THEN FALSE ELSE IsActive(txnToken[e])]
  /\ txn' = [txn EXCEPT ![e] = "commit"]
  /\ UNCHANGED <<table, requests, event, copy, txnToken>>

SettleCommit(e) ==
  /\ txn[e] = "commit"
  /\ event' = [event EXCEPT ![e] = "blocking"]
  /\ txn' = [txn EXCEPT ![e] = "idle"]
  /\ IF txnConfirms[e]
       THEN /\ status' = [status EXCEPT ![txnToken[e]] = "CONFIRMED"]
            /\ confirmedBy' = [confirmedBy EXCEPT ![txnToken[e]] = e]
       ELSE UNCHANGED <<status, confirmedBy>>
  /\ UNCHANGED <<owner, date, left, requests, copy, txnToken, txnConfirms>>

SettleRollback(e) ==
  /\ txn[e] # "idle"
  /\ txn' = [txn EXCEPT ![e] = "idle"]
  /\ UNCHANGED <<table, requests, event, copy, txnToken, txnConfirms>>

\* Payment.save reads its event once and writes EVERY column of what it read
\* when it updates the payment status, date_blocked and status included.  The
\* settlement its own signal runs lies between the two, and so may any other.
LoadEvent(e) ==
  /\ copy[e] = None
  /\ copy' = [copy EXCEPT ![e] = event[e]]
  /\ UNCHANGED <<table, requests, event, settlements>>

\* The UPDATE waits for the row lock a settlement holds on the event.
SaveEvent(e) ==
  /\ copy[e] # None
  /\ txn[e] = "idle"
  /\ event' = [event EXCEPT ![e] = copy[e]]
  /\ copy' = [copy EXCEPT ![e] = None]
  /\ UNCHANGED <<table, requests, settlements>>

\* A cancellation waits for the row lock a settlement holds on its event.
CancelEvent(e) ==
  /\ event[e] # "cancelled"
  /\ txn[e] = "idle"
  /\ event' = [event EXCEPT ![e] = "cancelled"]
  /\ UNCHANGED <<table, requests, copy, settlements>>

-----------------------------------------------------------------------------
Elapse(n) == IF n > -1 THEN n - 1 ELSE n

Tick ==
  /\ left' = [t \in Tokens |-> Elapse(left[t])]
  /\ newLeft' = [r \in Requests |-> Elapse(newLeft[r])]
  /\ UNCHANGED <<status, owner, date, confirmedBy, dateLock, pc, forSession,
                 forDate, answer, event, copy, settlements>>

Proceed(r) ==
  \/ AcquireDateLock(r)
  \/ ReturnOwn(r) \/ FindNoOwn(r)
  \/ RejectBlocked(r) \/ FindNotBlocked(r)
  \/ RejectReserved(r) \/ ComputeExpiry(r) \/ CommitReservation(r)

Settle(e) == ConfirmReservation(e) \/ SettleCommit(e)

Next ==
  \/ \E r \in Requests : Call(r) \/ Proceed(r) \/ Rollback(r)
  \/ \E t \in Tokens : Release(t)
  \/ Cleanup
  \/ \E e \in Events : SettleBegin(e) \/ Settle(e) \/ SettleRollback(e)
                       \/ LoadEvent(e) \/ SaveEvent(e) \/ CancelEvent(e)
  \/ Tick

Spec == Init /\ [][Next]_vars

\* A request thread and an open transaction run on; the beat schedule keeps
\* running the cleanup; time passes.  Fairness is strong where a statement
\* waits for a lock: PostgreSQL queues the waiters of a row or advisory lock
\* and grants it in turn, so no waiter is overtaken for ever.
Fairness ==
  /\ \A r \in Requests : SF_vars(Proceed(r))
  /\ \A e \in Events : WF_vars(Settle(e))
  /\ SF_vars(Cleanup)
  /\ WF_vars(Tick)

FairSpec == Spec /\ Fairness

-----------------------------------------------------------------------------
(* Properties                                                              *)

\* At most one session, through one reservation, holds a date: the advisory
\* lock of validate_and_reserve_date is what makes the four steps exclusive.
OneActivePerDate ==
  \A t, u \in Tokens :
    IsActive(t) /\ IsActive(u) /\ date[t] = date[u] => t = u

\* A reservation is confirmed only while it is PENDING, so never after a release
\* or the cleanup won the race for it, and only by the transaction that turns
\* its event from open to blocking: never by one that refuses the event or is
\* rolled back.  The block need not last: a stale SaveEvent may undo it later.
ConfirmedAtBlock ==
  [][\A t \in Tokens :
       status[t] # "CONFIRMED" /\ status'[t] = "CONFIRMED" =>
         /\ status[t] = "PENDING"
         /\ \E e \in Events :
              /\ confirmedBy'[t] = e
              /\ event[e] = "open" /\ event'[e] = "blocking"]_vars

\* A request that has been called has its arguments.
Called ==
  \A r \in Requests : pc[r] \in {"lock"} \cup InTransaction =>
    forDate[r] \in Dates /\ forSession[r] \in Sessions

\* A request inside the transaction owns the lock of its date.
InsideHoldsLock ==
  \A r \in Requests : pc[r] \in InTransaction => dateLock[forDate[r]] = r

\* What the queries of step 1 and step 3 found is still true later on, because
\* only the holder of the date's lock can add a reservation.
OwnChecked ==
  \A r \in Requests : pc[r] \in {"blocked", "others", "insert"} =>
    OwnActive(forSession[r], forDate[r]) = {}

RivalsChecked ==
  \A r \in Requests : pc[r] = "insert" => RivalActive(forSession[r], forDate[r]) = {}

\* No advisory lock outlives the transaction that took it: the date of a request
\* that has returned, failed or been killed is free again.
DateReleased ==
  \A d \in Dates : dateLock[d] # None =>
    pc[dateLock[d]] \in InTransaction /\ forDate[dateLock[d]] = d

\* OneActivePerDate with what makes it inductive: the protocol of the date lock.
LockInv ==
  OneActivePerDate /\ Called /\ InsideHoldsLock /\ OwnChecked /\ RivalsChecked

\* The event of an open settlement is not blocking yet: its row lock keeps
\* cancellations and stale saves away.
SettlesOpen == \A e \in Events : txn[e] # "idle" => event[e] = "open"

\* The reservation that a settlement is about to confirm stays PENDING under
\* its row lock.
ConfirmsPending ==
  \A e \in Events : txn[e] = "commit" /\ txnConfirms[e] =>
    txnToken[e] \in Tokens /\ status[txnToken[e]] = "PENDING"

\* No two settlements hold the row lock of one reservation.
RowLockExclusive ==
  \A e, f \in Events :
    /\ txn[e] = "commit" /\ txn[f] = "commit"
    /\ txnToken[e] = txnToken[f] /\ txnToken[e] # None
    => e = f

\* The protocol of the row locks, on the event and on the reservation.
SettleInv == SettlesOpen /\ ConfirmsPending /\ RowLockExclusive

\* A reservation that was confirmed, released or expired is never revived,
\* whatever order the release, the cleanup and the settlement run in.
FinalStatus ==
  [][\A t \in Tokens :
       status[t] \in {"CONFIRMED", "RELEASED", "EXPIRED"} =>
         status'[t] = status[t] /\ confirmedBy'[t] = confirmedBy[t]]_vars

\* Every reservation request returns: nobody waits for the date lock for ever.
RequestsReturn ==
  \A r \in Requests : pc[r] = "lock" ~> pc[r] = "done"

\* No reservation stays PENDING for ever: the cleanup frees abandoned ones.
PendingSettles ==
  \A t \in Tokens : status[t] = "PENDING" ~> status[t] # "PENDING"

\* The session that holds a date in the sense of DateLease.
HolderOf(d) ==
  IF \E t \in Tokens : IsActive(t) /\ date[t] = d
    THEN owner[CHOOSE t \in Tokens : IsActive(t) /\ date[t] = d]
    ELSE None

Lease == INSTANCE DateLease WITH holder <- [d \in Dates |-> HolderOf(d)]

\* The service implements the abstract lease.
LeaseSpec == Lease!Spec
==============================================================================
