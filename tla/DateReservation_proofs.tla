------------------------ MODULE DateReservation_proofs ------------------------
(***************************************************************************)
(* Proofs about DateReservation, for any number of sessions, dates,        *)
(* tokens, requests and events and any timeout.                            *)
(*                                                                         *)
(* OneActivePerDate is not inductive: it has to be known that a request    *)
(* inside the transaction owns the advisory lock of its date, and that     *)
(* what its earlier queries found is still so when it inserts.  LockInv    *)
(* adds these facts.                                                       *)
(***************************************************************************)
EXTENDS DateReservation, TLAPS

\* The type invariant holds in every reachable state of the reservation service.
THEOREM TypeCorrect == Spec => []TypeOK
<1>1. Init => TypeOK
  BY ReservationAssumption DEF Init, TypeOK, Statuses, EventStates, InTransaction
<1>2. TypeOK /\ [Next]_vars => TypeOK'
  <2> SUFFICES ASSUME TypeOK, [Next]_vars PROVE TypeOK'
    OBVIOUS
  <2> USE ReservationAssumption
      DEF TypeOK, Statuses, EventStates, InTransaction, table, requests, settlements,
          Goto, Finish
  <2>1. ASSUME NEW r \in Requests, Call(r) PROVE TypeOK'
    BY <2>1 DEF Call
  <2>2. ASSUME NEW r \in Requests, Proceed(r) PROVE TypeOK'
    <3>1. CASE AcquireDateLock(r)
      BY <3>1 DEF AcquireDateLock
    <3>2. CASE ReturnOwn(r)
      BY <3>2 DEF ReturnOwn, OwnActive
    <3>3. CASE FindNoOwn(r)
      BY <3>3 DEF FindNoOwn
    <3>4. CASE RejectBlocked(r)
      BY <3>4 DEF RejectBlocked
    <3>5. CASE FindNotBlocked(r)
      BY <3>5 DEF FindNotBlocked
    <3>6. CASE RejectReserved(r)
      BY <3>6 DEF RejectReserved
    <3>7. CASE ComputeExpiry(r)
      BY <3>7 DEF ComputeExpiry
    <3>8. CASE CommitReservation(r)
      BY <3>8 DEF CommitReservation
    <3> QED
      BY <2>2, <3>1, <3>2, <3>3, <3>4, <3>5, <3>6, <3>7, <3>8 DEF Proceed
  <2>3. ASSUME NEW r \in Requests, Rollback(r) PROVE TypeOK'
    BY <2>3 DEF Rollback
  <2>4. ASSUME NEW t \in Tokens, Release(t) PROVE TypeOK'
    BY <2>4 DEF Release
  <2>5. CASE Cleanup
    BY <2>5 DEF Cleanup
  <2>6. ASSUME NEW e \in Events, SettleBegin(e) PROVE TypeOK'
    BY <2>6 DEF SettleBegin
  <2>7. ASSUME NEW e \in Events, ConfirmReservation(e) PROVE TypeOK'
    BY <2>7 DEF ConfirmReservation, IsActive, IsExpired
  <2>8. ASSUME NEW e \in Events, SettleCommit(e) PROVE TypeOK'
    BY <2>8 DEF SettleCommit
  <2>9. ASSUME NEW e \in Events, SettleRollback(e) PROVE TypeOK'
    BY <2>9 DEF SettleRollback
  <2>10. ASSUME NEW e \in Events, CancelEvent(e) PROVE TypeOK'
    BY <2>10 DEF CancelEvent
  <2>11. CASE Tick
    BY <2>11 DEF Tick, Elapse
  <2>12. ASSUME NEW e \in Events, LoadEvent(e) PROVE TypeOK'
    BY <2>12 DEF LoadEvent
  <2>13. ASSUME NEW e \in Events, SaveEvent(e) PROVE TypeOK'
    BY <2>13 DEF SaveEvent
  <2>14. CASE UNCHANGED vars
    BY <2>14 DEF vars
  <2> QED
    BY <2>1, <2>2, <2>3, <2>4, <2>5, <2>6, <2>7, <2>8, <2>9, <2>10, <2>11, <2>12,
       <2>13, <2>14
    DEF Next, Settle
<1> QED
  BY <1>1, <1>2, PTL DEF Spec

-----------------------------------------------------------------------------
\* Only the insert of a reservation request makes a reservation active.
Shrinks ==
  \A t \in Tokens :
    IsActive(t)' => IsActive(t) /\ owner'[t] = owner[t] /\ date'[t] = date[t]

\* A step that commits no new reservation leaves the set of active ones as it
\* is or makes it smaller, and never hands one to another session or date.
LEMMA ActiveShrinks ==
  ASSUME TypeOK, [Next]_vars,
         \A r \in Requests : ~CommitReservation(r)
  PROVE  Shrinks
<1> USE DEF TypeOK, Shrinks, IsActive, IsExpired, table, requests, settlements
<1>1. ASSUME NEW r \in Requests, Call(r) PROVE Shrinks
  BY <1>1 DEF Call
<1>2. ASSUME NEW r \in Requests, Proceed(r) PROVE Shrinks
  BY <1>2 DEF Proceed, AcquireDateLock, ReturnOwn, FindNoOwn, RejectBlocked,
              FindNotBlocked, RejectReserved, ComputeExpiry
<1>3. ASSUME NEW r \in Requests, Rollback(r) PROVE Shrinks
  BY <1>3 DEF Rollback
<1>4. ASSUME NEW t \in Tokens, Release(t) PROVE Shrinks
  BY <1>4 DEF Release
<1>5. CASE Cleanup
  BY <1>5 DEF Cleanup, Overdue
<1>6. ASSUME NEW e \in Events, SettleBegin(e) PROVE Shrinks
  BY <1>6 DEF SettleBegin
<1>7. ASSUME NEW e \in Events, ConfirmReservation(e) PROVE Shrinks
  BY <1>7 DEF ConfirmReservation
<1>8. ASSUME NEW e \in Events, SettleCommit(e) PROVE Shrinks
  BY <1>8 DEF SettleCommit
<1>9. ASSUME NEW e \in Events, SettleRollback(e) PROVE Shrinks
  BY <1>9 DEF SettleRollback
<1>10. ASSUME NEW e \in Events, LoadEvent(e) \/ SaveEvent(e) \/ CancelEvent(e)
       PROVE  Shrinks
  BY <1>10 DEF LoadEvent, SaveEvent, CancelEvent
<1>11. CASE Tick
  BY <1>11, ReservationAssumption DEF Tick, Elapse
<1>12. CASE UNCHANGED vars
  BY <1>12 DEF vars
<1> QED
  BY <1>1, <1>2, <1>3, <1>4, <1>5, <1>6, <1>7, <1>8, <1>9, <1>10, <1>11, <1>12
  DEF Next, Settle

-----------------------------------------------------------------------------
\* Until a reservation is inserted, what a request has checked stays true and
\* the lock protocol is kept.
LEMMA LockInvShrinks ==
  ASSUME TypeOK, LockInv, [Next]_vars,
         \A r \in Requests : ~CommitReservation(r)
  PROVE  LockInv'
<1> USE ReservationAssumption DEF TypeOK, LockInv, InTransaction
<1>1. Shrinks
  BY ActiveShrinks
<1>2. OneActivePerDate'
  BY <1>1 DEF Shrinks, OneActivePerDate
<1>3. \A r \in Requests : pc'[r] \in {"lock"} \cup InTransaction =>
        \/ pc'[r] = pc[r] /\ forDate'[r] = forDate[r] /\ forSession'[r] = forSession[r]
        \/ AcquireDateLock(r) \/ FindNoOwn(r) \/ FindNotBlocked(r) \/ ComputeExpiry(r)
        \/ Call(r)
  <2> SUFFICES ASSUME NEW r \in Requests, pc'[r] \in {"lock"} \cup InTransaction
               PROVE  \/ /\ pc'[r] = pc[r]
                         /\ forDate'[r] = forDate[r] /\ forSession'[r] = forSession[r]
                      \/ AcquireDateLock(r) \/ FindNoOwn(r) \/ FindNotBlocked(r)
                      \/ ComputeExpiry(r) \/ Call(r)
    OBVIOUS
  <2>1. ASSUME NEW q \in Requests, q # r, Call(q) \/ Proceed(q) \/ Rollback(q)
        PROVE  pc'[r] = pc[r] /\ forDate'[r] = forDate[r] /\ forSession'[r] = forSession[r]
    BY <2>1 DEF Call, Proceed, AcquireDateLock, ReturnOwn, FindNoOwn, RejectBlocked,
         FindNotBlocked, RejectReserved, ComputeExpiry, Rollback, Goto, Finish
  <2>2. ASSUME Proceed(r) \/ Rollback(r)
        PROVE  AcquireDateLock(r) \/ FindNoOwn(r) \/ FindNotBlocked(r) \/ ComputeExpiry(r)
    BY <2>2 DEF Proceed, ReturnOwn, RejectBlocked, RejectReserved, Rollback, Goto, Finish
  <2>3. \/ \E q \in Requests : Call(q) \/ Proceed(q) \/ Rollback(q)
        \/ UNCHANGED <<pc, forDate, forSession>>
    BY DEF Next, Release, Cleanup, SettleBegin, Settle, ConfirmReservation,
           SettleCommit, SettleRollback, LoadEvent, SaveEvent, CancelEvent, Tick, vars, requests
  <2> QED
    BY <2>1, <2>2, <2>3
<1>4. Called'
  BY <1>3 DEF Called, Call, AcquireDateLock, FindNoOwn, FindNotBlocked,
              ComputeExpiry, Goto
<1>5. OwnChecked'
  <2> SUFFICES ASSUME NEW r \in Requests, pc'[r] \in {"blocked", "others", "insert"},
                      NEW t \in Tokens, IsActive(t)'
               PROVE  ~(owner'[t] = forSession'[r] /\ date'[t] = forDate'[r])
    BY DEF OwnChecked, OwnActive
  <2>1. IsActive(t) /\ owner'[t] = owner[t] /\ date'[t] = date[t]
    BY <1>1 DEF Shrinks
  <2>2. CASE FindNoOwn(r)
    BY <2>1, <2>2 DEF FindNoOwn, OwnActive
  <2>3. CASE FindNotBlocked(r) \/ ComputeExpiry(r)
    BY <2>1, <2>3 DEF FindNotBlocked, ComputeExpiry, OwnChecked, OwnActive
  <2>4. CASE Call(r) \/ AcquireDateLock(r)
    BY <2>4 DEF Call, AcquireDateLock, Goto
  <2>5. CASE /\ pc'[r] = pc[r]
             /\ forDate'[r] = forDate[r] /\ forSession'[r] = forSession[r]
    BY <2>1, <2>5 DEF OwnChecked, OwnActive
  <2> QED
    BY <1>3, <2>2, <2>3, <2>4, <2>5
<1>6. RivalsChecked'
  <2> SUFFICES ASSUME NEW r \in Requests, pc'[r] = "insert",
                      NEW t \in Tokens, IsActive(t)'
               PROVE  ~(owner'[t] # forSession'[r] /\ date'[t] = forDate'[r])
    BY DEF RivalsChecked, RivalActive
  <2>1. IsActive(t) /\ owner'[t] = owner[t] /\ date'[t] = date[t]
    BY <1>1 DEF Shrinks
  <2>2. CASE ComputeExpiry(r)
    BY <2>1, <2>2 DEF ComputeExpiry, RivalActive
  <2>3. CASE FindNoOwn(r) \/ FindNotBlocked(r) \/ Call(r) \/ AcquireDateLock(r)
    BY <2>3 DEF FindNoOwn, FindNotBlocked, Call, AcquireDateLock, Goto
  <2>4. CASE /\ pc'[r] = pc[r]
             /\ forDate'[r] = forDate[r] /\ forSession'[r] = forSession[r]
    BY <2>1, <2>4 DEF RivalsChecked, RivalActive
  <2> QED
    BY <1>3, <2>2, <2>3, <2>4
<1>7. InsideHoldsLock'
  <2> SUFFICES ASSUME NEW r \in Requests, pc'[r] \in InTransaction
               PROVE  dateLock'[forDate'[r]] = r
    BY DEF InsideHoldsLock
  <2>1. CASE AcquireDateLock(r)
    BY <2>1 DEF AcquireDateLock, Called
  <2>2. CASE FindNoOwn(r) \/ FindNotBlocked(r) \/ ComputeExpiry(r)
    BY <2>2 DEF FindNoOwn, FindNotBlocked, ComputeExpiry, InsideHoldsLock
  <2>3. CASE Call(r)
    BY <2>3 DEF Call, Goto
  <2>4. CASE pc'[r] = pc[r] /\ forDate'[r] = forDate[r]
    <3>1. dateLock[forDate[r]] = r /\ forDate[r] \in Dates
      BY <2>4 DEF InsideHoldsLock, Called
    <3>2. ASSUME NEW q \in Requests, Proceed(q) \/ Rollback(q) PROVE dateLock'[forDate[r]] = r
      BY <3>1, <3>2, <2>4
      DEF Proceed, AcquireDateLock, ReturnOwn, FindNoOwn, RejectBlocked,
          FindNotBlocked, RejectReserved, ComputeExpiry, Rollback, Goto, Finish
    <3>3. CASE UNCHANGED dateLock
      BY <3>1, <3>3, <2>4
    <3>4. (\E q \in Requests : Proceed(q) \/ Rollback(q)) \/ UNCHANGED dateLock
      BY DEF Next, Call, Release, Cleanup, SettleBegin, Settle, ConfirmReservation,
             SettleCommit, SettleRollback, LoadEvent, SaveEvent, CancelEvent, Tick, vars, requests
    <3> QED
      BY <3>2, <3>3, <3>4, <2>4
  <2> QED
    BY <1>3, <2>1, <2>2, <2>3, <2>4
<1> QED
  BY <1>2, <1>4, <1>5, <1>6, <1>7

\* The insert of a reservation keeps the lock protocol: the date had no active
\* reservation, and every other request inside the transaction has another date.
LEMMA LockInvCommit ==
  ASSUME TypeOK, LockInv, NEW r \in Requests, CommitReservation(r)
  PROVE  LockInv'
<1> USE ReservationAssumption DEF TypeOK, LockInv, InTransaction
<1>1. PICK t \in Tokens :
        /\ status[t] = "NONE"
        /\ status' = [status EXCEPT ![t] = "PENDING"]
        /\ owner' = [owner EXCEPT ![t] = forSession[r]]
        /\ date' = [date EXCEPT ![t] = forDate[r]]
        /\ left' = [left EXCEPT ![t] = newLeft[r]]
        /\ Finish(r, t)
  BY DEF CommitReservation
<1>2. /\ pc[r] = "insert"
      /\ UNCHANGED <<forSession, forDate>>
      /\ \A q \in Requests \ {r} : pc'[q] = pc[q]
      /\ pc'[r] = "done"
  BY <1>1 DEF CommitReservation, Finish, Goto
<1>3. \A u \in Tokens \ {t} : /\ IsActive(u)' <=> IsActive(u)
                              /\ owner'[u] = owner[u] /\ date'[u] = date[u]
  BY <1>1 DEF IsActive, IsExpired
<1>4. date'[t] = forDate[r]
  BY <1>1
<1>5. \A u \in Tokens : IsActive(u) => date[u] # forDate[r]
  BY <1>2 DEF OwnChecked, RivalsChecked, OwnActive, RivalActive
<1>6. OneActivePerDate'
  BY <1>3, <1>4, <1>5 DEF OneActivePerDate
<1>7. Called'
  BY <1>2 DEF Called
<1>8. \A q \in Requests \ {r} : pc[q] \in InTransaction => forDate[q] # forDate[r]
  BY <1>2 DEF InsideHoldsLock
<1>9. InsideHoldsLock'
  <2>1. dateLock' = [d \in Dates |-> IF dateLock[d] = r THEN None ELSE dateLock[d]]
    BY <1>1 DEF Finish
  <2> QED
    BY <2>1, <1>2 DEF InsideHoldsLock, Called
<1>10. OwnChecked'
  BY <1>2, <1>3, <1>4, <1>8 DEF OwnChecked, OwnActive
<1>11. RivalsChecked'
  BY <1>2, <1>3, <1>4, <1>8 DEF RivalsChecked, RivalActive
<1> QED
  BY <1>6, <1>7, <1>9, <1>10, <1>11

\* The lock protocol of validate_and_reserve_date is kept in every state.
THEOREM LockProtocol == Spec => []LockInv
<1>1. Init => LockInv
  BY DEF Init, LockInv, OneActivePerDate, Called, InsideHoldsLock, OwnChecked,
         RivalsChecked, IsActive, InTransaction
<1>2. TypeOK /\ LockInv /\ [Next]_vars => LockInv'
  BY LockInvShrinks, LockInvCommit
<1> QED
  BY <1>1, <1>2, TypeCorrect, PTL DEF Spec

\* Whatever becomes of a reservation request, it leaves its date free: the lock
\* is held only by a request inside its transaction, and for its own date.
THEOREM NoDateLeftLocked == Spec => []DateReleased
<1>1. Init => DateReleased
  BY DEF Init, DateReleased
<1>2. TypeOK /\ LockInv /\ DateReleased /\ [Next]_vars => DateReleased'
  <2> SUFFICES ASSUME TypeOK, LockInv, DateReleased, [Next]_vars PROVE DateReleased'
    OBVIOUS
  <2> USE ReservationAssumption
      DEF TypeOK, requests, Goto, Finish, InTransaction, LockInv, Called, DateReleased
  <2>1. ASSUME NEW r \in Requests, Call(r) PROVE DateReleased'
    BY <2>1 DEF Call
  <2>2. ASSUME NEW r \in Requests, Proceed(r) PROVE DateReleased'
    <3>1. CASE AcquireDateLock(r)
      BY <3>1 DEF AcquireDateLock
    <3>2. CASE ReturnOwn(r)
      BY <3>2 DEF ReturnOwn
    <3>3. CASE FindNoOwn(r)
      BY <3>3 DEF FindNoOwn
    <3>4. CASE RejectBlocked(r)
      BY <3>4 DEF RejectBlocked
    <3>5. CASE FindNotBlocked(r)
      BY <3>5 DEF FindNotBlocked
    <3>6. CASE RejectReserved(r)
      BY <3>6 DEF RejectReserved
    <3>7. CASE ComputeExpiry(r)
      BY <3>7 DEF ComputeExpiry
    <3>8. CASE CommitReservation(r)
      BY <3>8 DEF CommitReservation
    <3> QED
      BY <2>2, <3>1, <3>2, <3>3, <3>4, <3>5, <3>6, <3>7, <3>8 DEF Proceed
  <2>3. ASSUME NEW r \in Requests, Rollback(r) PROVE DateReleased'
    BY <2>3 DEF Rollback
  <2>4. CASE UNCHANGED <<dateLock, pc, forDate>>
    BY <2>4
  <2>5. \/ \E r \in Requests : Call(r) \/ Proceed(r) \/ Rollback(r)
        \/ UNCHANGED <<dateLock, pc, forDate>>
    BY DEF Next, Release, Cleanup, SettleBegin, Settle, ConfirmReservation,
           SettleCommit, SettleRollback, LoadEvent, SaveEvent, CancelEvent, Tick, vars
  <2> QED
    BY <2>1, <2>2, <2>3, <2>4, <2>5
<1> QED
  BY <1>1, <1>2, TypeCorrect, LockProtocol, PTL DEF Spec

\* No two sessions, and no two reservations, ever hold the same date.
THEOREM MutualExclusion == Spec => []OneActivePerDate
<1>1. LockInv => OneActivePerDate
  BY DEF LockInv
<1> QED
  BY <1>1, LockProtocol, PTL

-----------------------------------------------------------------------------
\* Every step keeps the protocol of the row locks of the settlements.
LEMMA SettleInvStep ==
  ASSUME TypeOK, SettleInv, [Next]_vars
  PROVE  SettleInv'
<1> USE ReservationAssumption
    DEF TypeOK, Statuses, SettleInv, SettlesOpen, ConfirmsPending, RowLockExclusive,
        table, requests, settlements
<1>1. ASSUME NEW r \in Requests, CommitReservation(r) PROVE SettleInv'
  BY <1>1 DEF CommitReservation
<1>2. ASSUME NEW t \in Tokens, Release(t) PROVE SettleInv'
  BY <1>2 DEF Release, RowLocked
<1>3. CASE Cleanup
  BY <1>3 DEF Cleanup, Overdue, RowLocked
<1>4. ASSUME NEW e \in Events, SettleBegin(e) PROVE SettleInv'
  BY <1>4 DEF SettleBegin
<1>5. ASSUME NEW e \in Events, ConfirmReservation(e) PROVE SettleInv'
  <2>1. ConfirmsPending'
    BY <1>5, ZenonT(60) DEF ConfirmReservation, IsActive
  <2>2. RowLockExclusive'
    BY <1>5 DEF ConfirmReservation, RowLocked
  <2>3. SettlesOpen'
    BY <1>5 DEF ConfirmReservation
  <2> QED
    BY <2>1, <2>2, <2>3
<1>6. ASSUME NEW e \in Events, SettleCommit(e) PROVE SettleInv'
  <2>1. ConfirmsPending'
    BY <1>6 DEF SettleCommit
  <2>2. SettlesOpen' /\ RowLockExclusive'
    BY <1>6 DEF SettleCommit
  <2> QED
    BY <2>1, <2>2
<1>7. ASSUME NEW e \in Events, SettleRollback(e) PROVE SettleInv'
  BY <1>7 DEF SettleRollback
<1>8. ASSUME NEW e \in Events, SaveEvent(e) \/ CancelEvent(e) PROVE SettleInv'
  BY <1>8 DEF SaveEvent, CancelEvent
<1>9. CASE UNCHANGED <<status, confirmedBy, event, txn, txnToken, txnConfirms>>
  BY <1>9
<1>10. \/ \E r \in Requests : CommitReservation(r)
       \/ \E t \in Tokens : Release(t)
       \/ Cleanup
       \/ \E e \in Events : SettleBegin(e) \/ ConfirmReservation(e) \/ SettleCommit(e)
                            \/ SettleRollback(e) \/ SaveEvent(e) \/ CancelEvent(e)
       \/ UNCHANGED <<status, confirmedBy, event, txn, txnToken, txnConfirms>>
  BY DEF Next, Settle, Proceed, Call, AcquireDateLock, ReturnOwn, FindNoOwn,
         RejectBlocked, FindNotBlocked, RejectReserved, ComputeExpiry, Rollback,
         LoadEvent, Tick, vars
<1> QED
  BY <1>1, <1>2, <1>3, <1>4, <1>5, <1>6, <1>7, <1>8, <1>9, <1>10

\* The protocol of the settlements is kept in every state.
THEOREM SettleProtocol == Spec => []SettleInv
<1>1. Init => SettleInv
  BY DEF Init, SettleInv, SettlesOpen, ConfirmsPending, RowLockExclusive
<1>2. TypeOK /\ SettleInv /\ [Next]_vars => SettleInv'
  BY SettleInvStep
<1> QED
  BY <1>1, <1>2, TypeCorrect, PTL DEF Spec

\* A reservation is confirmed while it is still PENDING, and by the transaction
\* that turns its event from open to blocking.
THEOREM Confirmations == Spec => ConfirmedAtBlock
<1> DEFINE AtBlock ==
      \A t \in Tokens :
        status[t] # "CONFIRMED" /\ status'[t] = "CONFIRMED" =>
          /\ status[t] = "PENDING"
          /\ \E e \in Events :
               /\ confirmedBy'[t] = e
               /\ event[e] = "open" /\ event'[e] = "blocking"
<1>1. TypeOK /\ SettleInv /\ [Next]_vars => [AtBlock]_vars
  <2> SUFFICES ASSUME TypeOK, SettleInv, [Next]_vars PROVE AtBlock
    OBVIOUS
  <2> USE DEF TypeOK, Statuses
  <2>1. ASSUME NEW r \in Requests, CommitReservation(r) PROVE AtBlock
    BY <2>1 DEF CommitReservation
  <2>2. ASSUME NEW t \in Tokens, Release(t) PROVE AtBlock
    BY <2>2 DEF Release
  <2>3. CASE Cleanup
    BY <2>3 DEF Cleanup
  <2>4. ASSUME NEW e \in Events, SettleCommit(e) PROVE AtBlock
    BY <2>4 DEF SettleCommit, SettleInv, SettlesOpen, ConfirmsPending
  <2>5. CASE UNCHANGED status
    BY <2>5
  <2>6. \/ \E r \in Requests : CommitReservation(r)
        \/ \E t \in Tokens : Release(t)
        \/ Cleanup
        \/ \E e \in Events : SettleCommit(e)
        \/ UNCHANGED status
    BY DEF Next, Settle, Proceed, Call, AcquireDateLock, ReturnOwn, FindNoOwn,
           RejectBlocked, FindNotBlocked, RejectReserved, ComputeExpiry, Rollback,
           SettleBegin, ConfirmReservation, SettleRollback, LoadEvent, SaveEvent,
           CancelEvent, Tick, vars, table
  <2> QED
    BY <2>1, <2>2, <2>3, <2>4, <2>5, <2>6
<1> QED
  BY <1>1, TypeCorrect, SettleProtocol, PTL DEF Spec, ConfirmedAtBlock

\* A reservation that is confirmed, released or expired stays so for ever.
THEOREM Finality == Spec => FinalStatus
<1> DEFINE Keeps ==
      \A t \in Tokens :
        status[t] \in {"CONFIRMED", "RELEASED", "EXPIRED"} =>
          status'[t] = status[t] /\ confirmedBy'[t] = confirmedBy[t]
<1>1. TypeOK /\ SettleInv /\ [Next]_vars => [Keeps]_vars
  <2> SUFFICES ASSUME TypeOK, SettleInv, [Next]_vars PROVE Keeps
    OBVIOUS
  <2> USE DEF TypeOK, Statuses
  <2>1. ASSUME NEW r \in Requests, CommitReservation(r) PROVE Keeps
    BY <2>1 DEF CommitReservation
  <2>2. ASSUME NEW t \in Tokens, Release(t) PROVE Keeps
    BY <2>2 DEF Release
  <2>3. CASE Cleanup
    BY <2>3 DEF Cleanup, Overdue
  <2>4. ASSUME NEW e \in Events, SettleCommit(e) PROVE Keeps
    BY <2>4 DEF SettleCommit, SettleInv, ConfirmsPending
  <2>5. CASE UNCHANGED <<status, confirmedBy>>
    BY <2>5
  <2>6. \/ \E r \in Requests : CommitReservation(r)
        \/ \E t \in Tokens : Release(t)
        \/ Cleanup
        \/ \E e \in Events : SettleCommit(e)
        \/ UNCHANGED <<status, confirmedBy>>
    BY DEF Next, Settle, Proceed, Call, AcquireDateLock, ReturnOwn, FindNoOwn,
           RejectBlocked, FindNotBlocked, RejectReserved, ComputeExpiry, Rollback,
           SettleBegin, ConfirmReservation, SettleRollback, LoadEvent, SaveEvent,
           CancelEvent, Tick, vars, table
  <2> QED
    BY <2>1, <2>2, <2>3, <2>4, <2>5, <2>6
<1> QED
  BY <1>1, TypeCorrect, SettleProtocol, PTL DEF Spec, FinalStatus

-----------------------------------------------------------------------------
\* While a reservation is active, its session is the holder of its date.
Holds == \A t \in Tokens : IsActive(t) => HolderOf(date[t]) = owner[t]

\* When one reservation at most is active per date, the holder of the date in
\* the abstract lease is the owner of that reservation.
LEMMA ActiveHolds == OneActivePerDate => Holds
<1> SUFFICES ASSUME OneActivePerDate, NEW t \in Tokens, IsActive(t)
             PROVE  HolderOf(date[t]) = owner[t]
  BY DEF Holds
<1> DEFINE Here(u) == IsActive(u) /\ date[u] = date[t]
<1>1. Here(CHOOSE u \in Tokens : Here(u)) /\ (CHOOSE u \in Tokens : Here(u)) \in Tokens
  <2>1. \E u \in Tokens : Here(u)
    OBVIOUS
  <2> QED
    BY <2>1
<1>2. (CHOOSE u \in Tokens : Here(u)) = t
  BY <1>1 DEF OneActivePerDate
<1> QED
  BY <1>2 DEF HolderOf

\* A step that inserts no reservation ends the leases of some dates, or none.
LEMMA ShrinksLapses ==
  ASSUME Shrinks, Holds, Holds'
  PROVE  Lease!Next \/ UNCHANGED [d \in Dates |-> HolderOf(d)]
<1>1. \A d \in Dates : HolderOf(d)' \in {HolderOf(d), None}
  <2> SUFFICES ASSUME NEW d \in Dates, HolderOf(d)' # None
               PROVE  HolderOf(d)' = HolderOf(d)
    OBVIOUS
  <2>1. PICK t \in Tokens : IsActive(t)' /\ date'[t] = d
    BY DEF HolderOf
  <2>2. HolderOf(d)' = owner'[t]
    BY <2>1 DEF Holds, HolderOf
  <2>3. HolderOf(d) = owner[t]
    BY <2>1 DEF Shrinks, Holds
  <2> QED
    BY <2>1, <2>2, <2>3 DEF Shrinks
<1> DEFINE D == {d \in Dates : HolderOf(d)' = None}
<1>2. Lease!Lapse(D)
  BY <1>1 DEF Lease!Lapse
<1> QED
  BY <1>2 DEF Lease!Next

\* The insert of a reservation starts a lease on a date that nobody held, or
\* changes no lease when the reservation has expired before its commit.
LEMMA CommitGrants ==
  ASSUME TypeOK, LockInv, NEW r \in Requests, CommitReservation(r), Holds, Holds'
  PROVE  Lease!Next \/ UNCHANGED [d \in Dates |-> HolderOf(d)]
<1> USE DEF TypeOK, LockInv, InTransaction
<1>1. PICK t \in Tokens :
        /\ status[t] = "NONE"
        /\ status' = [status EXCEPT ![t] = "PENDING"]
        /\ owner' = [owner EXCEPT ![t] = forSession[r]]
        /\ date' = [date EXCEPT ![t] = forDate[r]]
        /\ left' = [left EXCEPT ![t] = newLeft[r]]
  BY DEF CommitReservation
<1>2. pc[r] = "insert" /\ forDate[r] \in Dates /\ forSession[r] \in Sessions
  BY DEF CommitReservation, Called
<1>3. \A u \in Tokens \ {t} : /\ IsActive(u)' <=> IsActive(u)
                              /\ owner'[u] = owner[u] /\ date'[u] = date[u]
  BY <1>1 DEF IsActive, IsExpired
<1>4. PICK d \in Dates, s \in Sessions :
        /\ d = forDate[r] /\ s = forSession[r]
        /\ ~IsActive(t) /\ date'[t] = d /\ owner'[t] = s
  BY <1>1, <1>2 DEF IsActive
<1>5. \A u \in Tokens : IsActive(u) => date[u] # d
  BY <1>2, <1>4 DEF OwnChecked, RivalsChecked, OwnActive, RivalActive
<1>6. ASSUME NEW c \in Dates \ {d} PROVE HolderOf(c)' = HolderOf(c)
  <2>1. CASE \E u \in Tokens : IsActive(u) /\ date[u] = c
    <3>1. PICK u \in Tokens : IsActive(u) /\ date[u] = c
      BY <2>1
    <3>2. u # t /\ IsActive(u)' /\ date'[u] = c /\ owner'[u] = owner[u]
      BY <3>1, <1>3, <1>4
    <3>3. HolderOf(c) = owner[u]
      BY <3>1 DEF Holds
    <3>4. HolderOf(c)' = owner'[u]
      BY <3>2 DEF Holds, HolderOf
    <3> QED
      BY <3>2, <3>3, <3>4
  <2>2. CASE ~ \E u \in Tokens : IsActive(u) /\ date[u] = c
    BY <2>2, <1>3, <1>4 DEF HolderOf
  <2> QED
    BY <2>1, <2>2
<1>7. HolderOf(d) = None
  BY <1>5 DEF HolderOf
<1>8. CASE IsActive(t)'
  <2>1. HolderOf(d)' = s
    BY <1>4, <1>8 DEF Holds, HolderOf
  <2>2. Lease!Grant(d, s)
    BY <2>1, <1>6, <1>7 DEF Lease!Grant
  <2> QED
    BY <2>2 DEF Lease!Next
<1>9. CASE ~IsActive(t)'
  <2>1. HolderOf(d)' = None
    BY <1>9, <1>3, <1>5 DEF HolderOf
  <2> QED
    BY <2>1, <1>6, <1>7
<1> QED
  BY <1>8, <1>9

\* The reservation service implements the abstract lease: what its sessions
\* see of a date is a lease that starts on a free date and ends before the
\* next one starts.
THEOREM ImplementsLease == Spec => LeaseSpec
<1>1. Init => Lease!Init
  BY DEF Init, Lease!Init, HolderOf, IsActive
<1>2. TypeOK /\ LockInv /\ Holds /\ Holds' /\ [Next]_vars
        => [Lease!Next]_[d \in Dates |-> HolderOf(d)]
  <2> SUFFICES ASSUME TypeOK, LockInv, Holds, Holds', [Next]_vars
               PROVE  Lease!Next \/ UNCHANGED [d \in Dates |-> HolderOf(d)]
    OBVIOUS
  <2>1. CASE \E r \in Requests : CommitReservation(r)
    BY <2>1, CommitGrants
  <2>2. CASE \A r \in Requests : ~CommitReservation(r)
    BY <2>2, ActiveShrinks, ShrinksLapses
  <2> QED
    BY <2>1, <2>2
<1>3. Spec => []Holds
  BY MutualExclusion, ActiveHolds, PTL
<1> QED
  BY <1>1, <1>2, <1>3, TypeCorrect, LockProtocol, PTL DEF Spec, LeaseSpec, Lease!Spec
==============================================================================
