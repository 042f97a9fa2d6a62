--------------------------- MODULE BookingCompletion ---------------------------
(***************************************************************************)
(* The completion of one booking session: complete_booking with the view   *)
(* that calls it, and the two operations that save the session meanwhile,  *)
(* update_session_data and abandon_session.  All of them read the session  *)
(* row into a Python object and later save every column of that object.    *)
(*                                                                         *)
(* A request is one HTTP call.  It creates at most one event, so an event  *)
(* is named by the request that creates it.  The required steps of the     *)
(* session are complete and it stands on its last step.                    *)
(*                                                                         *)
(* READ COMMITTED: the writes of a transaction show when it commits; a row *)
(* it has written makes other writers and FOR UPDATE readers wait.  The    *)
(* payment gateway is outside the database: no rollback takes a charge     *)
(* back.                                                                   *)
(***************************************************************************)
EXTENDS Naturals

CONSTANTS
  Requests,
  KindOf,     \* complete, update or abandon
  Immediate,  \* the last step has create_event_immediately
  None        \* SQL NULL, a lock nobody holds, an answer without an event

ASSUME BookingCompletionAssumption ==
  /\ KindOf \in [Requests -> {"complete", "update", "abandon"}]
  /\ Immediate \in BOOLEAN
  /\ None \notin Requests

VARIABLES
  (* the session row *)
  completed,  \* is_completed
  link,       \* created_event
  hint,       \* the event that booking_completion_result in booking_data names
  client,     \* the session has a client
  rowLock,    \* the request whose open transaction has written the row
  (* what else is committed, or done outside *)
  events,     \* events that exist
  charged,    \* requests whose charge the gateway has made
  (* the requests *)
  pc,         \* the step a request has reached
  memCompleted, memLink, memHint, memClient,  \* its copy of the row
  answer      \* the event it has returned

row == <<completed, link, hint, client>>
memory == <<memCompleted, memLink, memHint, memClient>>
vars == <<row, rowLock, events, charged, pc, memory, answer>>

Labels == {"idle", "client", "lock", "validate", "create", "charge", "finish",
           "save", "done"}

TypeOK ==
  /\ completed \in BOOLEAN
  /\ link \in Requests \cup {None}
  /\ hint \in Requests \cup {None}
  /\ client \in BOOLEAN
  /\ rowLock \in Requests \cup {None}
  /\ events \in SUBSET Requests
  /\ charged \in SUBSET Requests
  /\ pc \in [Requests -> Labels]
  /\ memCompleted \in [Requests -> BOOLEAN]
  /\ memLink \in [Requests -> Requests \cup {None}]
  /\ memHint \in [Requests -> Requests \cup {None}]
  /\ memClient \in [Requests -> BOOLEAN]
  /\ answer \in [Requests -> Requests \cup {None}]

Init ==
  /\ completed = FALSE
  /\ link = None
  /\ hint = None
  /\ client \in BOOLEAN
  /\ rowLock = None
  /\ events = {}
  /\ charged = {}
  /\ pc = [r \in Requests |-> "idle"]
  /\ memCompleted = [r \in Requests |-> FALSE]
  /\ memLink = [r \in Requests |-> None]
  /\ memHint = [r \in Requests |-> None]
  /\ memClient = [r \in Requests |-> FALSE]
  /\ answer = [r \in Requests |-> None]

-----------------------------------------------------------------------------
Goto(r, label) == pc' = [pc EXCEPT ![r] = label]

\* The request reads the row into its own object.
Load(r) ==
  /\ memCompleted' = [memCompleted EXCEPT ![r] = completed]
  /\ memLink' = [memLink EXCEPT ![r] = link]
  /\ memHint' = [memHint EXCEPT ![r] = hint]
  /\ memClient' = [memClient EXCEPT ![r] = client]

\* session.save(): every column, as the object has it but for the arguments.
SaveRow(c, l, h, u) == completed' = c /\ link' = l /\ hint' = h /\ client' = u

Return(r, e) ==
  /\ Goto(r, "done")
  /\ answer' = [answer EXCEPT ![r] = e]

-----------------------------------------------------------------------------
(* complete_booking                                                        *)

\* The view reads the session, and gives up when it has expired or has no
\* contact data.
View(r) ==
  /\ pc[r] = "idle" /\ KindOf[r] = "complete"
  /\ Load(r)
  /\ \/ Goto(r, IF client THEN "lock" ELSE "client") /\ UNCHANGED answer
     \/ Return(r, None)
  /\ UNCHANGED <<row, rowLock, events, charged>>

\* The view associates the client and saves the object it has read.
SaveClient(r) ==
  /\ pc[r] = "client"
  /\ rowLock = None
  /\ SaveRow(memCompleted[r], memLink[r], memHint[r], TRUE)
  /\ Goto(r, "lock")
  /\ UNCHANGED <<rowLock, events, charged, memory, answer>>

\* First transaction, the session is completed already: it returns the linked
\* event, after it has repaired a missing link from the booking data.
ReturnDuplicate(r) ==
  /\ pc[r] = "lock"
  /\ rowLock = None
  /\ completed
  /\ link' = IF link = None THEN hint ELSE link
  /\ Return(r, link')
  /\ UNCHANGED <<completed, hint, client, rowLock, events, charged, memory>>

LockAndTrustView(r) ==   \* MUTANT: the object that the view has read is used
  /\ pc[r] = "lock"
  /\ rowLock = None
  /\ ~memCompleted[r]
  /\ Goto(r, "validate")
  /\ UNCHANGED <<row, rowLock, events, charged, memory, answer>>

\* First transaction, not completed: the lock ends with it, the object is kept.
LockAndCheck(r) ==
  /\ pc[r] = "lock"
  /\ rowLock = None
  /\ ~completed
  /\ Load(r)
  /\ Goto(r, "validate")
  /\ UNCHANGED <<row, rowLock, events, charged, answer>>

\* A required step is missing, or the completion type is not allowed.
RejectInvalid(r) ==
  /\ pc[r] = "validate"
  /\ Return(r, None)
  /\ UNCHANGED <<row, rowLock, events, charged, memory>>

MarkWithoutLock(r) ==   \* MUTANT: no wait for the session's row
  /\ pc[r] = "validate"
  /\ ~memCompleted[r] /\ memLink[r] = None
  /\ rowLock' = r
  /\ Goto(r, "create")
  /\ UNCHANGED <<row, events, charged, memory, answer>>

MarkInAutocommit(r) ==   \* MUTANT: the session is saved outside of the transaction
  /\ pc[r] = "validate"
  /\ ~memCompleted[r] /\ memLink[r] = None
  /\ rowLock = None
  /\ SaveRow(TRUE, r, memHint[r], memClient[r])
  /\ Goto(r, "create")
  /\ UNCHANGED <<rowLock, events, charged, memory, answer>>

\* Second transaction: the final safeguard looks at the object, not at the row;
\* then the object is saved as completed, which takes the row's lock.
MarkCompleted(r) ==
  /\ pc[r] = "validate"
  /\ ~memCompleted[r] /\ memLink[r] = None
  /\ rowLock = None
  /\ rowLock' = r
  /\ Goto(r, "create")
  /\ UNCHANGED <<row, events, charged, memory, answer>>

\* The event and the quote, and for the payment type the contract, the invoice
\* and the payment; a quote request has no charge.
CreateEvent(r) ==
  /\ pc[r] = "create"
  /\ Goto(r, "charge") \/ Goto(r, "finish")
  /\ UNCHANGED <<row, rowLock, events, charged, memory, answer>>

ChargeNobody(r) ==   \* MUTANT: the charge is not tied to its booking
  /\ pc[r] = "charge"
  /\ charged' = charged \cup {None}
  /\ Goto(r, "finish")
  /\ UNCHANGED <<row, rowLock, events, memory, answer>>

\* The gateway takes the money.
Charge(r) ==
  /\ pc[r] = "charge"
  /\ charged' = charged \cup {r}
  /\ Goto(r, "finish")
  /\ UNCHANGED <<row, rowLock, events, memory, answer>>

CommitCompletion(r) ==
  /\ pc[r] = "finish"
  /\ SaveRow(TRUE, r, memHint[r], memClient[r])
  /\ events' = events \cup {r}
  /\ rowLock' = None
  /\ Return(r, r)
  /\ UNCHANGED <<charged, memory>>

RollbackKeepingLock(r) ==   \* MUTANT: the failed transaction is left open
  /\ pc[r] \in {"create", "charge", "finish"}
  /\ Return(r, None)
  /\ UNCHANGED <<row, rowLock, events, charged, memory>>

\* Any exception, a declined card among them, or a killed process.
RollbackCompletion(r) ==
  /\ pc[r] \in {"create", "charge", "finish"}
  /\ rowLock' = None
  /\ Return(r, None)
  /\ UNCHANGED <<row, events, charged, memory>>

-----------------------------------------------------------------------------
(* update_session_data and abandon_session                                 *)

\* An update returns at once when the object is completed.
ReadForUpdate(r) ==
  /\ pc[r] = "idle" /\ KindOf[r] = "update"
  /\ Load(r)
  /\ IF completed THEN Return(r, link) ELSE Goto(r, "save") /\ UNCHANGED answer
  /\ UNCHANGED <<row, rowLock, events, charged>>

ReadForAbandon(r) ==
  /\ pc[r] = "idle" /\ KindOf[r] = "abandon"
  /\ Load(r)
  /\ Goto(r, "save")
  /\ UNCHANGED <<row, rowLock, events, charged, answer>>

\* The object is saved as it was read: by an abandon, by an update of a step that
\* is not marked as completed, or with the validation errors.  The step data of
\* an update may carry the result that a completion has returned.
SaveSession(r) ==
  /\ pc[r] = "save"
  /\ rowLock = None
  /\ \E h \in {memHint[r]} \cup (IF KindOf[r] = "update" THEN events ELSE {}) :
       SaveRow(memCompleted[r], memLink[r], h, memClient[r])
  /\ Return(r, None)
  /\ UNCHANGED <<rowLock, events, charged, memory>>

\* The last step is marked as completed and no step follows: the session is
\* completed.  No event is created, unless the step creates one immediately; its
\* failure is logged and the session is completed all the same.
FinishFlow(r) ==
  /\ pc[r] = "save" /\ KindOf[r] = "update"
  /\ rowLock = None
  /\ \/ /\ SaveRow(TRUE, memLink[r], memHint[r], memClient[r])
        /\ UNCHANGED events
     \/ /\ Immediate /\ memClient[r] /\ memLink[r] = None
        /\ SaveRow(TRUE, r, memHint[r], memClient[r])
        /\ events' = events \cup {r}
  /\ Return(r, None)
  /\ UNCHANGED <<rowLock, charged, memory>>

-----------------------------------------------------------------------------
Complete(r) ==
  \/ View(r) \/ SaveClient(r) \/ ReturnDuplicate(r) \/ LockAndCheck(r)
  \/ RejectInvalid(r) \/ MarkCompleted(r) \/ CreateEvent(r) \/ Charge(r)
  \/ CommitCompletion(r) \/ RollbackCompletion(r)

Write(r) ==
  \/ ReadForUpdate(r) \/ ReadForAbandon(r) \/ SaveSession(r) \/ FinishFlow(r)

Next == \E r \in Requests : Complete(r) \/ Write(r)

Spec == Init /\ [][Next]_vars

\* A request thread runs on, and the waiters of a row lock are queued.
FairSpec == Spec /\ \A r \in Requests : SF_vars(Complete(r) \/ Write(r))

-----------------------------------------------------------------------------
(* Properties                                                              *)

\* The requests that will still write the object they have read.
Holding(r) == pc[r] \in {"client", "validate", "create", "charge", "finish", "save"}

\* The session is completed and nobody works from an older copy of it.
Settled == completed /\ \A r \in Requests : Holding(r) => memCompleted[r]

\* The idempotency of a settled session: whatever is retried, it stays completed,
\* no event is added and nobody is charged again.
SettledForGood ==
  [][Settled => Settled' /\ events' = events /\ charged' = charged]_vars

\* One charge at a time: the second transaction of one completion excludes that
\* of any other, because saving the session locks its row.
ChargesExclude ==
  \A r, q \in Requests :
    /\ pc[r] \in {"create", "charge", "finish"}
    /\ pc[q] \in {"create", "charge", "finish"}
    => r = q

\* A link, and every answer, names an event that exists: no reader is ever shown
\* the event of a transaction that may still roll back.
LinksExist ==
  /\ {link, hint} \subseteq events \cup {None}
  /\ \A r \in Requests : {memLink[r], memHint[r], answer[r]} \subseteq events \cup {None}

\* The second transaction of a completion holds the session's row.
HoldsRow ==
  \A r \in Requests : pc[r] \in {"create", "charge", "finish"} => rowLock = r

\* The row is not left locked: it is held only inside a second transaction.
RowReleased ==
  rowLock # None => pc[rowLock] \in {"create", "charge", "finish"}

\* A completion goes on, and an update writes, only with an object that was read
\* before the session was completed.
WorksOpen ==
  \A r \in Requests :
    \/ pc[r] \in {"validate", "create", "charge", "finish"}
    \/ pc[r] = "save" /\ KindOf[r] # "abandon"
    => ~memCompleted[r]

\* What the theorems need of a reachable state.
CompletionInv == HoldsRow /\ WorksOpen /\ LinksExist

\* Every request returns: no wait for the session row lasts for ever.
RequestsReturn == \A r \in Requests : pc[r] # "idle" ~> pc[r] = "done"

\* "Use atomic transaction with row-level locking to prevent race conditions"
\* (booking_completion_service.py:63): one session gives one event.
OneEventPerSession == \A r, q \in events : r = q
==============================================================================
