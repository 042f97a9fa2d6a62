----------------------- MODULE BookingCompletion_proofs -----------------------
(***************************************************************************)
(* Proofs about BookingCompletion, for any number of completions, updates  *)
(* and abandons of the session.                                            *)
(*                                                                         *)
(* The exclusion of the charges rests on the row that the second           *)
(* transaction has written (HoldsRow); that a completed session stays as   *)
(* it is rests on the age of the copies requests work from (WorksOpen).    *)
(***************************************************************************)
EXTENDS BookingCompletion, TLAPS

\* The type invariant holds in every reachable state of a completion.
THEOREM TypeCorrect == Spec => []TypeOK
<1>1. Init => TypeOK
  BY BookingCompletionAssumption DEF Init, TypeOK, Labels
<1>2. TypeOK /\ [Next]_vars => TypeOK'
  <2> SUFFICES ASSUME TypeOK, [Next]_vars PROVE TypeOK'
    OBVIOUS
  <2> USE BookingCompletionAssumption
      DEF TypeOK, Labels, row, memory, Goto, Load, SaveRow, Return
  <2>1. ASSUME NEW r \in Requests, Complete(r) PROVE TypeOK'
    <3>1. CASE View(r)
      BY <3>1 DEF View
    <3>2. CASE SaveClient(r)
      BY <3>2 DEF SaveClient
    <3>3. CASE ReturnDuplicate(r)
      BY <3>3 DEF ReturnDuplicate
    <3>4. CASE LockAndCheck(r)
      BY <3>4 DEF LockAndCheck
    <3>5. CASE RejectInvalid(r)
      BY <3>5 DEF RejectInvalid
    <3>6. CASE MarkCompleted(r)
      BY <3>6 DEF MarkCompleted
    <3>7. CASE CreateEvent(r)
      BY <3>7 DEF CreateEvent
    <3>8. CASE Charge(r)
      BY <3>8 DEF Charge
    <3>9. CASE CommitCompletion(r)
      BY <3>9 DEF CommitCompletion
    <3>10. CASE RollbackCompletion(r)
      BY <3>10 DEF RollbackCompletion
    <3> QED
      BY <2>1, <3>1, <3>2, <3>3, <3>4, <3>5, <3>6, <3>7, <3>8, <3>9, <3>10
      DEF Complete
  <2>2. ASSUME NEW r \in Requests, Write(r) PROVE TypeOK'
    <3>1. CASE ReadForUpdate(r)
      BY <3>1 DEF ReadForUpdate
    <3>2. CASE ReadForAbandon(r)
      BY <3>2 DEF ReadForAbandon
    <3>3. CASE SaveSession(r)
      BY <3>3 DEF SaveSession
    <3>4. CASE FinishFlow(r)
      BY <3>4 DEF FinishFlow
    <3> QED
      BY <2>2, <3>1, <3>2, <3>3, <3>4 DEF Write
  <2>3. CASE UNCHANGED vars
    BY <2>3 DEF vars
  <2> QED
    BY <2>1, <2>2, <2>3 DEF Next
<1> QED
  BY <1>1, <1>2, PTL DEF Spec

-----------------------------------------------------------------------------
\* The row of the session is locked through the whole second transaction, the
\* copies that completions and updates work from were read before the session
\* was completed, and every link names an event that exists.
THEOREM CompletionProtocol == Spec => []CompletionInv
<1>1. Init => CompletionInv
  BY DEF Init, CompletionInv, HoldsRow, WorksOpen, LinksExist
<1>2. TypeOK /\ CompletionInv /\ [Next]_vars => CompletionInv'
  <2> SUFFICES ASSUME TypeOK, CompletionInv, [Next]_vars PROVE CompletionInv'
    OBVIOUS
  <2> USE BookingCompletionAssumption
      DEF TypeOK, Labels, row, memory, Goto, Load, SaveRow, Return,
          CompletionInv, HoldsRow, WorksOpen, LinksExist
  <2>1. ASSUME NEW r \in Requests, Complete(r) PROVE CompletionInv'
    <3>1. CASE View(r)
      BY <3>1 DEF View
    <3>2. CASE SaveClient(r)
      BY <3>2 DEF SaveClient
    <3>3. CASE ReturnDuplicate(r)
      BY <3>3 DEF ReturnDuplicate
    <3>4. CASE LockAndCheck(r)
      BY <3>4 DEF LockAndCheck
    <3>5. CASE RejectInvalid(r)
      BY <3>5 DEF RejectInvalid
    <3>6. CASE MarkCompleted(r)
      BY <3>6 DEF MarkCompleted
    <3>7. CASE CreateEvent(r)
      BY <3>7 DEF CreateEvent
    <3>8. CASE Charge(r)
      BY <3>8 DEF Charge
    <3>9. CASE CommitCompletion(r)
      BY <3>9 DEF CommitCompletion
    <3>10. CASE RollbackCompletion(r)
      BY <3>10 DEF RollbackCompletion
    <3> QED
      BY <2>1, <3>1, <3>2, <3>3, <3>4, <3>5, <3>6, <3>7, <3>8, <3>9, <3>10
      DEF Complete
  <2>2. ASSUME NEW r \in Requests, Write(r) PROVE CompletionInv'
    <3>1. CASE ReadForUpdate(r)
      BY <3>1 DEF ReadForUpdate
    <3>2. CASE ReadForAbandon(r)
      BY <3>2 DEF ReadForAbandon
    <3>3. CASE SaveSession(r)
      BY <3>3 DEF SaveSession
    <3>4. CASE FinishFlow(r)
      BY <3>4 DEF FinishFlow
    <3> QED
      BY <2>2, <3>1, <3>2, <3>3, <3>4 DEF Write
  <2>3. CASE UNCHANGED vars
    BY <2>3 DEF vars
  <2> QED
    BY <2>1, <2>2, <2>3 DEF Next
<1> QED
  BY <1>1, <1>2, TypeCorrect, PTL DEF Spec

\* Whatever becomes of a second transaction, it leaves the row of the session
\* free: the row is locked only while a completion is inside it.
THEOREM NoRowLeftLocked == Spec => []RowReleased
<1>1. Init => RowReleased
  BY DEF Init, RowReleased
<1>2. TypeOK /\ CompletionInv /\ RowReleased /\ [Next]_vars => RowReleased'
  <2> SUFFICES ASSUME TypeOK, CompletionInv, RowReleased, [Next]_vars PROVE RowReleased'
    OBVIOUS
  <2> USE BookingCompletionAssumption
      DEF TypeOK, Labels, row, Goto, Return, CompletionInv, HoldsRow, RowReleased
  <2>1. ASSUME NEW r \in Requests, Complete(r) PROVE RowReleased'
    <3>1. CASE View(r)
      BY <3>1 DEF View
    <3>2. CASE SaveClient(r)
      BY <3>2 DEF SaveClient
    <3>3. CASE ReturnDuplicate(r)
      BY <3>3 DEF ReturnDuplicate
    <3>4. CASE LockAndCheck(r)
      BY <3>4 DEF LockAndCheck
    <3>5. CASE RejectInvalid(r)
      BY <3>5 DEF RejectInvalid
    <3>6. CASE MarkCompleted(r)
      BY <3>6 DEF MarkCompleted
    <3>7. CASE CreateEvent(r)
      BY <3>7 DEF CreateEvent
    <3>8. CASE Charge(r)
      BY <3>8 DEF Charge
    <3>9. CASE CommitCompletion(r)
      BY <3>9 DEF CommitCompletion
    <3>10. CASE RollbackCompletion(r)
      BY <3>10 DEF RollbackCompletion
    <3> QED
      BY <2>1, <3>1, <3>2, <3>3, <3>4, <3>5, <3>6, <3>7, <3>8, <3>9, <3>10
      DEF Complete
  <2>2. ASSUME NEW r \in Requests, Write(r) PROVE RowReleased'
    <3>1. CASE ReadForUpdate(r)
      BY <3>1 DEF ReadForUpdate
    <3>2. CASE ReadForAbandon(r)
      BY <3>2 DEF ReadForAbandon
    <3>3. CASE SaveSession(r)
      BY <3>3 DEF SaveSession
    <3>4. CASE FinishFlow(r)
      BY <3>4 DEF FinishFlow
    <3> QED
      BY <2>2, <3>1, <3>2, <3>3, <3>4 DEF Write
  <2>3. CASE UNCHANGED vars
    BY <2>3 DEF vars
  <2> QED
    BY <2>1, <2>2, <2>3 DEF Next
<1> QED
  BY <1>1, <1>2, TypeCorrect, CompletionProtocol, PTL DEF Spec

\* Two completions of a session are never both between the mark and the commit,
\* so that their charges do not overlap.
THEOREM ChargeExclusion == Spec => []ChargesExclude
<1>1. CompletionInv => ChargesExclude
  BY DEF CompletionInv, HoldsRow, ChargesExclude
<1> QED
  BY <1>1, CompletionProtocol, PTL

\* No link, copy of a link or answer names an event that was rolled back.
THEOREM LinksSound == Spec => []LinksExist
<1>1. CompletionInv => LinksExist
  BY DEF CompletionInv
<1> QED
  BY <1>1, CompletionProtocol, PTL

\* A completed session that nobody works on from an older copy stays completed,
\* gets no further event and charges nobody again, whatever is retried.
THEOREM Idempotency == Spec => SettledForGood
<1>1. TypeOK /\ CompletionInv /\ [Next]_vars =>
        [Settled => Settled' /\ events' = events /\ charged' = charged]_vars
  <2> SUFFICES ASSUME TypeOK, CompletionInv, Next, Settled
               PROVE  Settled' /\ events' = events /\ charged' = charged
    OBVIOUS
  <2> USE BookingCompletionAssumption
      DEF TypeOK, Labels, row, memory, Goto, Load, SaveRow, Return,
          CompletionInv, WorksOpen, Settled, Holding
  <2>1. ASSUME NEW r \in Requests, Complete(r)
        PROVE  Settled' /\ events' = events /\ charged' = charged
    <3>1. CASE View(r)
      BY <3>1 DEF View
    <3>2. CASE SaveClient(r)
      BY <3>2 DEF SaveClient
    <3>3. CASE ReturnDuplicate(r)
      BY <3>3 DEF ReturnDuplicate
    <3>4. pc[r] \notin {"validate", "create", "charge", "finish"} /\ ~LockAndCheck(r)
      BY DEF LockAndCheck
    <3> QED
      BY <2>1, <3>1, <3>2, <3>3, <3>4
      DEF Complete, RejectInvalid, MarkCompleted, CreateEvent, Charge,
          CommitCompletion, RollbackCompletion
  <2>2. ASSUME NEW r \in Requests, Write(r)
        PROVE  Settled' /\ events' = events /\ charged' = charged
    <3>1. CASE ReadForUpdate(r)
      BY <3>1 DEF ReadForUpdate
    <3>2. CASE ReadForAbandon(r)
      BY <3>2 DEF ReadForAbandon
    <3>3. CASE SaveSession(r)
      BY <3>3 DEF SaveSession
    <3>4. ~FinishFlow(r)
      BY DEF FinishFlow
    <3> QED
      BY <2>2, <3>1, <3>2, <3>3, <3>4 DEF Write
  <2> QED
    BY <2>1, <2>2 DEF Next
<1> QED
  BY <1>1, CompletionProtocol, TypeCorrect, PTL DEF Spec, SettledForGood
==============================================================================
