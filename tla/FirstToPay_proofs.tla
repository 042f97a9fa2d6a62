-------------------------- MODULE FirstToPay_proofs --------------------------
(***************************************************************************)
(* Proofs about FirstToPay, for any number of events, payments and         *)
(* workers and any amounts.                                                *)
(*                                                                         *)
(* RowInv says which rows a worker holds at each step, and what it has     *)
(* found out about them that therefore cannot change; PaidInv says that    *)
(* the stale copies of an event, which overwrite its row, at least never   *)
(* claim a date for an event that has not been paid for.                   *)
(***************************************************************************)
EXTENDS FirstToPay, TLAPS

\* What ends a transaction keeps the types of what it writes.
LEMMA CommitTyped ==
  ASSUME TypeOK, NEW w \in Workers, CommitSignal(w)
  PROVE  /\ rowLock' \in [Events -> Workers \cup {None}]
         /\ payLock' \in [Payments -> Workers \cup {None}]
         /\ pay' \in [Events -> PayStatuses]
         /\ receipt' \in [Payments -> BOOLEAN]
         /\ pc' \in [Workers -> Labels]
         /\ UNCHANGED <<paid, pass, changed, memory, signal, expiring>>
<1> USE FirstToPayAssumption
    DEF TypeOK, CommitSignal, Unlock, Goto, Own, AfterSignal, Labels, PayStatuses
<1>1. rowLock' \in [Events -> Workers \cup {None}]
  OBVIOUS
<1>2. payLock' \in [Payments -> Workers \cup {None}]
  OBVIOUS
<1>3. pay' \in [Events -> PayStatuses]
  OBVIOUS
<1>4. receipt' \in [Payments -> BOOLEAN]
  OBVIOUS
<1>5. pc' \in [Workers -> Labels]
  BY SMTT(30)
<1> QED
  BY <1>1, <1>2, <1>3, <1>4, <1>5

\* The type invariant holds in every reachable state.
THEOREM TypeCorrect == Spec => []TypeOK
<1>1. Init => TypeOK
  BY FirstToPayAssumption DEF Init, TypeOK, EventStatuses, PayStatuses, Labels
<1>2. TypeOK /\ [Next]_vars => TypeOK'
  <2> SUFFICES ASSUME TypeOK, [Next]_vars PROVE TypeOK'
    OBVIOUS
  <2> USE FirstToPayAssumption
      DEF TypeOK, EventStatuses, PayStatuses, Labels, paymentRows, eventRows, locks,
          memory, signal, refunds, Own, Goto, Unlock, AfterSignal
  <2>1. ASSUME NEW w \in Workers, Complete(w) \/ Signal(w) \/ AbortDeadlock(w) \/ Crash(w)
        PROVE  TypeOK'
    <3> PaymentOf[w] \in Payments /\ EventOf[PaymentOf[w]] \in Events
      OBVIOUS
    <3>a. AfterSignal(w) \in Labels
      OBVIOUS
    <3>1. CASE Refresh(w)
      BY <3>1 DEF Refresh
    <3>2. CASE ReadOld(w)
      BY <3>2 DEF ReadOld
    <3>3. CASE UpdatePayment(w)
      BY <3>3 DEF UpdatePayment
    <3>4. CASE LoadEvent(w)
      BY <3>4 DEF LoadEvent
    <3>5. CASE Recompute(w)
      BY <3>5 DEF Recompute, StatusOf
    <3>6. CASE SaveEvent(w)
      BY <3>6 DEF SaveEvent
    <3>7. CASE LockReceipt(w)
      <4>1. CASE receipt[PaymentOf[w]]
        <5>1. /\ pc' = [pc EXCEPT ![w] = "timeline"]
              /\ UNCHANGED <<paymentRows, eventRows, locks, pass, changed, memory, signal,
                             refunds, expiring>>
          BY <3>7, <4>1 DEF LockReceipt
        <5> QED
          BY <5>1
      <4>2. CASE ~receipt[PaymentOf[w]]
        <5>1. /\ payLock' = [payLock EXCEPT ![PaymentOf[w]] = w]
              /\ pass' = [pass EXCEPT ![w] = "receipt"]
              /\ pc' = [pc EXCEPT ![w] = "totals"]
              /\ UNCHANGED <<paymentRows, eventRows, rowLock, changed, memory, signal,
                             refunds, expiring>>
          BY <3>7, <4>2 DEF LockReceipt
        <5> QED
          BY <5>1
      <4> QED
        BY <4>1, <4>2
    <3>8. CASE CommitReceipt(w)
      BY <3>8, CommitTyped DEF CommitReceipt
    <3>9. CASE RecordAndNotify(w)
      BY <3>9 DEF RecordAndNotify
    <3>10. CASE ReadTotals(w)
      BY <3>10 DEF ReadTotals, StatusOf, Reached
    <3>11. CASE SaveTotals(w)
      <4>1. pc' \in [Workers -> Labels]
        BY <3>11 DEF SaveTotals
      <4>2. rowLock' \in [Events -> Workers \cup {None}] /\ pay' \in [Events -> PayStatuses]
        <5>1. CASE pass[w] = "receipt"
          <6>1. rowLock' = [rowLock EXCEPT ![Own(w)] = w] /\ pay' = pay
            BY <3>11, <5>1 DEF SaveTotals
          <6> QED
            BY <6>1
        <5>2. CASE pass[w] # "receipt"
          <6>1. pay' = [pay EXCEPT ![Own(w)] = newPay[w]] /\ rowLock' = rowLock
            BY <3>11, <5>2 DEF SaveTotals
          <6> QED
            BY <6>1
        <5> QED
          BY <5>1, <5>2
      <4>3. UNCHANGED <<paymentRows, status, blocked, payLock, pass, changed, memory,
                        signal, refunds, expiring>>
        BY <3>11 DEF SaveTotals
      <4> QED
        BY <4>1, <4>2, <4>3
    <3>12. CASE LockOwnEvent(w)
      <4>1. pc' \in [Workers -> Labels]
        <5>1. pc' \in {[pc EXCEPT ![w] = AfterSignal(w)], [pc EXCEPT ![w] = "blocker"]}
          BY <3>12 DEF LockOwnEvent
        <5> QED
          BY <5>1, <3>a
      <4>2. rowLock' \in [Events -> Workers \cup {None}]
        BY <3>12 DEF LockOwnEvent
      <4> QED
        BY <3>12, <4>1, <4>2 DEF LockOwnEvent
    <3>13. CASE RefuseTaken(w)
      BY <3>13 DEF RefuseTaken
    <3>14. CASE FindNoBlocker(w)
      BY <3>14 DEF FindNoBlocker
    <3>15. CASE SelectCompetitors(w)
      BY <3>15 DEF SelectCompetitors
    <3>16. ASSUME NEW f \in Events, LockCompetitor(w, f) PROVE TypeOK'
      BY <3>16 DEF LockCompetitor
    <3>17. CASE CommitBlock(w)
      BY <3>17, CommitTyped DEF CommitBlock
    <3>18. CASE LockRefund(w)
      BY <3>18 DEF LockRefund
    <3>19. CASE SelectDue(w)
      BY <3>19 DEF SelectDue, Due, Completed, PaymentsOf
    <3>20. CASE CommitRefund(w)
      <4>1. refundsDone' \in [Payments -> Nat] /\ made' \in [Workers -> SUBSET Payments]
        BY <3>20 DEF CommitRefund
      <4> QED
        BY <3>20, <4>1, CommitTyped DEF CommitRefund
    <3>21. CASE AbortDeadlock(w)
      BY <3>21 DEF AbortDeadlock
    <3>22. CASE Crash(w)
      BY <3>22 DEF Crash
    <3>23. ASSUME NEW p \in Payments, AskGateway(w, p) PROVE TypeOK'
      <4>1. /\ due' \in [Workers -> SUBSET Payments]
            /\ made' \in [Workers -> SUBSET Payments]
        BY <3>23, SMTT(30) DEF AskGateway
      <4>2. gateway' \in [Payments -> Nat] /\ doubts' \in [Payments -> Nat]
        BY <3>23, SMTT(30) DEF AskGateway
      <4>3. UNCHANGED <<paymentRows, eventRows, locks, pc, pass, changed, memory, newPay,
                        check, targets, expiring>>
        BY <3>23 DEF AskGateway
      <4> QED
        BY <4>1, <4>2, <4>3
    <3> QED
      BY <2>1, <3>1, <3>2, <3>3, <3>4, <3>5, <3>6, <3>7, <3>8, <3>9, <3>10, <3>11, <3>12,
         <3>13, <3>14, <3>15, <3>16, <3>17, <3>18, <3>19, <3>20, <3>21, <3>22, <3>23
      DEF Complete, Signal
  <2>2. ASSUME NEW e \in Events, ReadExpired(e) PROVE TypeOK'
    BY <2>2 DEF ReadExpired
  <2>3. ASSUME NEW e \in Events, CancelExpired(e) PROVE TypeOK'
    BY <2>3 DEF CancelExpired
  <2>4. CASE UNCHANGED vars
    BY <2>4 DEF vars
  <2> QED
    BY <2>1, <2>2, <2>3, <2>4 DEF Next
<1> QED
  BY <1>1, <1>2, PTL DEF Spec

-----------------------------------------------------------------------------
\* The protocol of the row locks: what a worker holds, and what cannot change
\* under it.
THEOREM RowProtocol == Spec => []RowInv
<1>1. Init => RowInv
  BY FirstToPayAssumption
  DEF Init, RowInv, HoldsOwnRow, HoldsCompetitors, Own
<1>2. TypeOK /\ RowInv /\ [Next]_vars => RowInv'
  <2> SUFFICES ASSUME TypeOK, RowInv, [Next]_vars PROVE RowInv'
    OBVIOUS
  <2> USE FirstToPayAssumption
      DEF TypeOK, paymentRows, eventRows, locks, memory, signal, Own, Goto, Unlock,
          AfterSignal, RowFree, Competing, PaymentsOf,
          RowInv, HoldsOwnRow, HoldsCompetitors
  <2>1. ASSUME NEW w \in Workers, Complete(w) \/ Signal(w) \/ AbortDeadlock(w) \/ Crash(w)
        PROVE  RowInv'
    <3>1. CASE Refresh(w)
      BY <3>1 DEF Refresh
    <3>2. CASE ReadOld(w)
      BY <3>2 DEF ReadOld
    <3>3. CASE UpdatePayment(w)
      BY <3>3 DEF UpdatePayment
    <3>4. CASE LoadEvent(w)
      BY <3>4 DEF LoadEvent
    <3>5. CASE Recompute(w)
      BY <3>5 DEF Recompute
    <3>6. CASE SaveEvent(w)
      BY <3>6 DEF SaveEvent
    <3>7. CASE LockReceipt(w)
      <4>0. /\ \A v \in Workers \ {w} : pc'[v] = pc[v] /\ pass'[v] = pass[v]
            /\ pc[w] = "receipt" /\ pc'[w] \in {"timeline", "totals"}
            /\ UNCHANGED <<rowLock, eventRows>>
        BY <3>7 DEF LockReceipt
      <4>1. HoldsOwnRow'
        BY <4>0
      <4>2. HoldsCompetitors'
        BY <4>0
      <4> QED
        BY <4>1, <4>2
    <3>8. CASE CommitReceipt(w)
      <4>1. HoldsOwnRow'
        BY <3>8 DEF CommitReceipt, CommitSignal
      <4>2. HoldsCompetitors'
        BY <3>8 DEF CommitReceipt, CommitSignal
      <4> QED
        BY <4>1, <4>2
    <3>9. CASE RecordAndNotify(w)
      BY <3>9 DEF RecordAndNotify
    <3>10. CASE ReadTotals(w)
      BY <3>10 DEF ReadTotals
    <3>11. CASE SaveTotals(w)
      BY <3>11 DEF SaveTotals
    <3>12. CASE LockOwnEvent(w)
      <4>1. HoldsOwnRow'
        BY <3>12 DEF LockOwnEvent
      <4>2. HoldsCompetitors'
        <5>1. /\ \A v \in Workers : \A f \in Events \ {EventOf[PaymentOf[v]]} :
                   rowLock'[f] = v => rowLock[f] = v
              /\ UNCHANGED <<status, blocked, pay>>
          BY <3>12 DEF LockOwnEvent
        <5>2. \A v \in Workers \ {w} : pc'[v] = pc[v]
          BY <3>12 DEF LockOwnEvent
        <5>3. pc[w] = "lock"
          BY <3>12 DEF LockOwnEvent
        <5>4. ASSUME NEW v \in Workers, NEW f \in Events \ {Own(v)}, rowLock'[f] = v
              PROVE  \/ pc'[v] \in {"refund", "refunding", "asking"}
                     \/ pc'[v] = "compete" /\ Competing(f)'
          <6>1. rowLock[f] = v
            BY <5>1, <5>4
          <6>2. \/ pc[v] \in {"refund", "refunding", "asking"}
                \/ pc[v] = "compete" /\ Competing(f)
            BY <6>1
          <6>3. v # w
            BY <5>3, <6>2
          <6> QED
            BY <5>1, <5>2, <6>2, <6>3
        <5> QED
          BY <5>4
      <4> QED
        BY <4>1, <4>2
    <3>13. CASE RefuseTaken(w)
      BY <3>13 DEF RefuseTaken, Blocking
    <3>14. CASE FindNoBlocker(w)
      BY <3>14 DEF FindNoBlocker
    <3>15. CASE SelectCompetitors(w)
      BY <3>15 DEF SelectCompetitors
    <3>16. ASSUME NEW f \in Events, LockCompetitor(w, f) PROVE RowInv'
      BY <3>16 DEF LockCompetitor
    <3>17. CASE CommitBlock(w)
      <4>1. HoldsOwnRow'
        BY <3>17 DEF CommitBlock, CommitSignal
      <4>2. HoldsCompetitors'
        BY <3>17 DEF CommitBlock, CommitSignal
      <4> QED
        BY <4>1, <4>2
    <3>18. CASE LockRefund(w)
      BY <3>18 DEF LockRefund
    <3>19. CASE SelectDue(w)
      BY <3>19 DEF SelectDue, Due, Completed
    <3>20. CASE CommitRefund(w)
      <4>1. HoldsOwnRow'
        BY <3>20 DEF CommitRefund, CommitSignal
      <4>2. HoldsCompetitors'
        BY <3>20 DEF CommitRefund, CommitSignal
      <4> QED
        BY <4>1, <4>2
    <3>21. CASE AbortDeadlock(w)
      <4>1. HoldsOwnRow'
        <5>1. \A v \in Workers \ {w} : pc'[v] = pc[v] /\ pass'[v] = pass[v]
                /\ \A e \in Events : rowLock[e] = v => rowLock'[e] = v
          BY <3>21 DEF AbortDeadlock
        <5>2. CASE pass[w] = "receipt" /\ pc[w] # "save"
          <6>1. pc'[w] = "commit" /\ rowLock'[Own(w)] = rowLock[Own(w)]
            BY <3>21, <5>2 DEF AbortDeadlock
          <6>2. pc[w] \in {"blocker", "compete", "refunding"}
            BY <3>21, <5>2 DEF AbortDeadlock, Deadlocked, WaitsFor
          <6> QED
            BY <5>1, <6>1, <6>2
        <5>3. CASE ~(pass[w] = "receipt" /\ pc[w] # "save")
          <6>1. pass'[w] = pass[w]
                /\ (pc'[w] \in {"recompute", "receipt", "done"} \/ pc'[w] = "timeline")
            BY <3>21, <5>3 DEF AbortDeadlock
          <6> QED
            BY <5>1, <6>1
        <5> QED
          BY <5>2, <5>3
      <4>2. HoldsCompetitors'
        BY <3>21 DEF AbortDeadlock
      <4> QED
        BY <4>1, <4>2
    <3>22. CASE Crash(w)
      BY <3>22 DEF Crash
    <3>23. ASSUME NEW p \in Payments, AskGateway(w, p) PROVE RowInv'
      BY <3>23 DEF AskGateway
    <3> QED
      BY <2>1, <3>1, <3>2, <3>3, <3>4, <3>5, <3>6, <3>7, <3>8, <3>9, <3>10, <3>11, <3>12,
         <3>13, <3>14, <3>15, <3>16, <3>17, <3>18, <3>19, <3>20, <3>21, <3>22, <3>23
      DEF Complete, Signal
  <2>2. ASSUME NEW e \in Events, ReadExpired(e) PROVE RowInv'
    BY <2>2 DEF ReadExpired
  <2>3. ASSUME NEW e \in Events, CancelExpired(e) PROVE RowInv'
    BY <2>3 DEF CancelExpired
  <2>4. CASE UNCHANGED vars
    BY <2>4 DEF vars
  <2> QED
    BY <2>1, <2>2, <2>3, <2>4 DEF Next
<1> QED
  BY <1>1, <1>2, TypeCorrect, PTL DEF Spec

\* What an open refund has found and what the gateway has done for it are known
\* to it alone, because it holds the row of its event.
THEOREM RefundProtocol == Spec => []RefundInv
<1>1. Init => RefundInv
  BY FirstToPayAssumption
  DEF Init, RefundInv, DueIsFresh, MadeIsFresh, RefundsKnown, RefundedOnce
<1>2. TypeOK /\ RowInv /\ RefundInv /\ [Next]_vars => RefundInv'
  <2> SUFFICES ASSUME TypeOK, RowInv, RefundInv, [Next]_vars PROVE RefundInv'
    OBVIOUS
  <2> USE FirstToPayAssumption DEF TypeOK, Own
  <2>1. \A v, w \in Workers : pc[v] = "asking" /\ pc[w] = "asking" /\ Own(v) = Own(w)
                              => v = w
    BY DEF RowInv, HoldsOwnRow
  <2>2. ASSUME UNCHANGED <<refundsDone, due, made, gateway, doubts>>,
               \A v \in Workers : pc'[v] = "asking" <=> pc[v] = "asking"
        PROVE  RefundInv'
    BY <2>2 DEF RefundInv, DueIsFresh, MadeIsFresh, RefundsKnown, RefundedOnce
  <2>3. ASSUME NEW w \in Workers, SelectDue(w) PROVE RefundInv'
    <3>1. /\ pc[w] = "refunding" /\ pc' = [pc EXCEPT ![w] = "asking"]
          /\ due' = [due EXCEPT ![w] = Due(Own(w))]
          /\ UNCHANGED <<refundsDone, made, gateway, doubts>>
      BY <2>3 DEF SelectDue, Goto, paymentRows, refunds
    <3>2. DueIsFresh'
      BY <3>1 DEF RefundInv, DueIsFresh, MadeIsFresh, Due, Completed, PaymentsOf
    <3>3. MadeIsFresh' /\ RefundsKnown' /\ RefundedOnce'
      BY <3>1 DEF RefundInv, MadeIsFresh, RefundsKnown, RefundedOnce
    <3> QED
      BY <3>2, <3>3 DEF RefundInv
  <2>4. ASSUME NEW w \in Workers, NEW q \in Payments, AskGateway(w, q) PROVE RefundInv'
    <3>1. /\ pc[w] = "asking" /\ q \in due[w]
          /\ due' = [due EXCEPT ![w] = @ \ {q}]
          /\ UNCHANGED <<pc, refundsDone>>
      BY <2>4 DEF AskGateway, paymentRows
    <3>2. EventOf[q] = Own(w) /\ refundsDone[q] = 0 /\ q \notin made[w]
      BY <3>1 DEF RefundInv, DueIsFresh
    <3>3. \A v \in Workers : q \notin made[v]
      BY <2>1, <3>1, <3>2 DEF RefundInv, MadeIsFresh
    <3>4. gateway[q] <= doubts[q]
      BY <3>2, <3>3, SMTT(30) DEF RefundInv, RefundsKnown
    <3>5. CASE /\ gateway' = [gateway EXCEPT ![q] = @ + 1]
               /\ made' = [made EXCEPT ![w] = @ \cup {q}]
               /\ UNCHANGED doubts
      <4>1. DueIsFresh'
        BY <3>1, <3>5, <2>1 DEF RefundInv, DueIsFresh
      <4>2. MadeIsFresh'
        BY <3>1, <3>2, <3>5 DEF RefundInv, MadeIsFresh
      <4>3. RefundsKnown' /\ RefundedOnce'
        BY <3>1, <3>4, <3>5 DEF RefundInv, RefundsKnown, RefundedOnce
      <4> QED
        BY <4>1, <4>2, <4>3 DEF RefundInv
    <3>6. CASE /\ gateway' = [gateway EXCEPT ![q] = @ + 1]
               /\ doubts' = [doubts EXCEPT ![q] = @ + 1]
               /\ UNCHANGED made
      BY <3>1, <3>6 DEF RefundInv, DueIsFresh, MadeIsFresh, RefundsKnown, RefundedOnce
    <3>7. CASE UNCHANGED refunds
      BY <3>1, <3>7
      DEF RefundInv, DueIsFresh, MadeIsFresh, RefundsKnown, RefundedOnce, refunds
    <3> QED
      BY <2>4, <3>5, <3>6, <3>7 DEF AskGateway
  <2>5. ASSUME NEW w \in Workers, CommitRefund(w) PROVE RefundInv'
    <3>1. /\ pc[w] = "asking" /\ due[w] = {}
          /\ refundsDone' = [p \in Payments |->
               IF p \in made[w] THEN refundsDone[p] + 1 ELSE refundsDone[p]]
          /\ made' = [made EXCEPT ![w] = {}]
          /\ UNCHANGED <<due, gateway, doubts>>
          /\ pc'[w] # "asking" /\ \A v \in Workers \ {w} : pc'[v] = pc[v]
      BY <2>5 DEF CommitRefund, CommitSignal, Goto, AfterSignal, signal
    <3>2. \A p \in made[w] : EventOf[p] = Own(w) /\ refundsDone[p] = 0
      BY DEF RefundInv, MadeIsFresh
    <3>3. DueIsFresh'
      BY <2>1, <3>1, <3>2 DEF RefundInv, DueIsFresh
    <3>4. MadeIsFresh'
      BY <2>1, <3>1, <3>2 DEF RefundInv, MadeIsFresh
    <3>5. RefundsKnown' /\ RefundedOnce'
      BY <3>1, <3>2 DEF RefundInv, RefundsKnown, RefundedOnce
    <3> QED
      BY <3>3, <3>4, <3>5 DEF RefundInv
  <2>6. ASSUME NEW w \in Workers, Crash(w) PROVE RefundInv'
    <3>1. /\ pc' = [pc EXCEPT ![w] = "done"]
          /\ made' = [made EXCEPT ![w] = {}]
          /\ doubts' = [p \in Payments |-> IF p \in made[w] THEN doubts[p] + 1 ELSE doubts[p]]
          /\ UNCHANGED <<refundsDone, due, gateway>>
      BY <2>6 DEF Crash, Goto, paymentRows, signal
    <3>2. DueIsFresh' /\ MadeIsFresh'
      BY <3>1 DEF RefundInv, DueIsFresh, MadeIsFresh
    <3>3. RefundsKnown' /\ RefundedOnce'
      BY <3>1 DEF RefundInv, RefundsKnown, RefundedOnce
    <3> QED
      BY <3>2, <3>3 DEF RefundInv
  <2>7. ASSUME NEW w \in Workers, Complete(w) PROVE RefundInv'
    <3>1. UNCHANGED <<refundsDone, due, made, gateway, doubts>>
      BY <2>7 DEF Complete, Refresh, ReadOld, UpdatePayment, LoadEvent, Recompute, SaveEvent,
              LockReceipt, CommitReceipt, CommitSignal, RecordAndNotify, paymentRows,
              signal, refunds
    <3>2. /\ pc[w] # "asking" /\ pc'[w] # "asking"
          /\ \A v \in Workers \ {w} : pc'[v] = pc[v]
      BY <2>7 DEF Complete, Refresh, ReadOld, UpdatePayment, LoadEvent, Recompute, SaveEvent,
              LockReceipt, CommitReceipt, CommitSignal, RecordAndNotify, Goto, AfterSignal
    <3> QED
      BY <3>1, <3>2, <2>2
  <2>8. ASSUME NEW w \in Workers, Signal(w), ~SelectDue(w), ~CommitRefund(w),
               \A p \in Payments : ~AskGateway(w, p)
        PROVE  RefundInv'
    <3>1. UNCHANGED <<refundsDone, due, made, gateway, doubts>>
      BY <2>8 DEF Signal, ReadTotals, SaveTotals, LockOwnEvent, RefuseTaken, FindNoBlocker,
              SelectCompetitors, LockCompetitor, CommitBlock, CommitSignal, LockRefund,
              paymentRows, signal, refunds
    <3>2. /\ pc[w] # "asking" /\ pc'[w] # "asking"
          /\ \A v \in Workers \ {w} : pc'[v] = pc[v]
      BY <2>8 DEF Signal, ReadTotals, SaveTotals, LockOwnEvent, RefuseTaken, FindNoBlocker,
              SelectCompetitors, LockCompetitor, CommitBlock, CommitSignal, LockRefund,
              Goto, AfterSignal
    <3> QED
      BY <3>1, <3>2, <2>2
  <2>9. ASSUME NEW w \in Workers, AbortDeadlock(w) PROVE RefundInv'
    <3>1. UNCHANGED <<refundsDone, due, made, gateway, doubts>>
      BY <2>9 DEF AbortDeadlock, paymentRows, refunds
    <3>2. pc[w] # "asking"
      BY <2>9 DEF AbortDeadlock, Deadlocked, WaitsFor
    <3>3. pc'[w] # "asking" /\ \A v \in Workers \ {w} : pc'[v] = pc[v]
      BY <2>9 DEF AbortDeadlock, Goto, AfterSignal
    <3> QED
      BY <3>1, <3>2, <3>3, <2>2
  <2>10. ASSUME NEW e \in Events, ReadExpired(e) \/ CancelExpired(e) PROVE RefundInv'
    BY <2>10, <2>2 DEF ReadExpired, CancelExpired, paymentRows, signal, refunds
  <2>11. CASE UNCHANGED vars
    BY <2>11, <2>2 DEF vars, paymentRows, signal, refunds
  <2> QED
    BY <2>3, <2>4, <2>5, <2>6, <2>7, <2>8, <2>9, <2>10, <2>11 DEF Next
<1> QED
  BY <1>1, <1>2, TypeCorrect, RowProtocol, PTL DEF Spec

\* No payment has two completed refunds, and the gateway refunds it again only
\* for each refund whose success could not be recorded.
THEOREM OneRefund == Spec => []RefundedOnce
<1>1. RefundInv => RefundedOnce
  BY DEF RefundInv
<1> QED
  BY <1>1, RefundProtocol, PTL

\* The commit that blocks the date cancels only events that are, in that very
\* state, confirmed, unblocked and unpaid.
THEOREM OnlyUnpaidCancelled == Spec => CompetitorsUnpaid
<1>1. TypeOK /\ RowInv /\ [Next]_vars =>
        [\A e \in Events : \A f \in Events \ {e} :
           blocked'[e] /\ ~blocked[e] /\ status'[f] = "DATE_TAKEN" =>
             status[f] = "DATE_TAKEN" \/ Competing(f)]_vars
  <2> SUFFICES ASSUME TypeOK, RowInv, Next,
                      NEW a \in Events, NEW f \in Events \ {a},
                      blocked'[a], ~blocked[a],
                      status'[f] = "DATE_TAKEN", status[f] # "DATE_TAKEN"
               PROVE  Competing(f)
    BY SMTT(30)
  <2> USE FirstToPayAssumption DEF TypeOK, RowInv, HoldsOwnRow, HoldsCompetitors, Own
  <2>1. PICK w \in Workers : SaveEvent(w) \/ CommitBlock(w)
    BY SMTT(30) DEF Next, Complete, Signal, Refresh, ReadOld, UpdatePayment, LoadEvent, Recompute,
           LockReceipt, CommitReceipt, RecordAndNotify, ReadTotals, SaveTotals,
           LockOwnEvent, RefuseTaken, FindNoBlocker, SelectCompetitors, LockCompetitor,
           LockRefund, SelectDue, AskGateway, CommitRefund, AbortDeadlock, Crash, ReadExpired,
           CancelExpired, eventRows
  <2>2. CASE SaveEvent(w)
    BY <2>2 DEF SaveEvent
  <2>3. CASE CommitBlock(w)
    BY <2>3 DEF CommitBlock
  <2> QED
    BY <2>1, <2>2, <2>3
<1> QED
  BY <1>1, RowProtocol, TypeCorrect, PTL DEF Spec, CompetitorsUnpaid

\* Whatever becomes of a transaction, it leaves no row locked: rows are locked only
\* while their worker has a transaction open, killed and aborted ones included.
THEOREM NoRowLeftLocked == Spec => []LocksReleased
<1>1. Init => LocksReleased
  BY FirstToPayAssumption DEF Init, LocksReleased
<1>2. TypeOK /\ RowInv /\ LocksReleased /\ [Next]_vars => LocksReleased'
  <2> SUFFICES ASSUME TypeOK, RowInv, LocksReleased, [Next]_vars PROVE LocksReleased'
    OBVIOUS
  <2> USE FirstToPayAssumption
      DEF TypeOK, paymentRows, locks, Own, Goto, Unlock, AfterSignal, RowInv,
          HoldsCompetitors, InTransaction, LocksReleased
  <2>1. ASSUME NEW w \in Workers, Complete(w) \/ Signal(w) \/ AbortDeadlock(w) \/ Crash(w)
        PROVE  LocksReleased'
    <3>o. ASSUME \A v \in Workers \ {w} : pc'[v] = pc[v] /\ pass'[v] = pass[v],
                 \A e \in Events : rowLock'[e] \in {rowLock[e], None, w},
                 \A p \in Payments : payLock'[p] \in {payLock[p], None, w},
                 \A e \in Events : rowLock'[e] = w => InTransaction(w)',
                 \A p \in Payments : payLock'[p] = w =>
                   pc'[w] = "asking" \/ (pass'[w] = "receipt" /\ InTransaction(w)')
          PROVE  LocksReleased'
      BY <3>o, SMTT(60)
    <3>1. CASE Refresh(w)
      BY <3>1 DEF Refresh
    <3>2. CASE ReadOld(w)
      BY <3>2 DEF ReadOld
    <3>3. CASE UpdatePayment(w)
      BY <3>3 DEF UpdatePayment
    <3>4. CASE LoadEvent(w)
      BY <3>4 DEF LoadEvent
    <3>5. CASE Recompute(w)
      BY <3>5 DEF Recompute
    <3>6. CASE SaveEvent(w)
      BY <3>6 DEF SaveEvent
    <3>7. CASE LockReceipt(w)
      <4>1. CASE receipt[PaymentOf[w]]
        BY <3>7, <4>1, <3>o DEF LockReceipt
      <4>2. CASE ~receipt[PaymentOf[w]]
        <5>1. /\ pc' = [pc EXCEPT ![w] = "totals"] /\ pass' = [pass EXCEPT ![w] = "receipt"]
              /\ payLock' = [payLock EXCEPT ![PaymentOf[w]] = w] /\ rowLock' = rowLock
          BY <3>7, <4>2 DEF LockReceipt
        <5>2. InTransaction(w)' /\ pass'[w] = "receipt"
          BY <5>1
        <5> QED
          BY <5>1, <5>2, <3>o
      <4> QED
        BY <4>1, <4>2
    <3>8. CASE CommitReceipt(w)
      BY <3>8 DEF CommitReceipt, CommitSignal
    <3>9. CASE RecordAndNotify(w)
      BY <3>9 DEF RecordAndNotify
    <3>10. CASE ReadTotals(w)
      BY <3>10 DEF ReadTotals
    <3>11. CASE SaveTotals(w)
      <4>1. CASE pass[w] = "receipt"
        <5>1. /\ pc' \in {[pc EXCEPT ![w] = "lock"], [pc EXCEPT ![w] = "commit"]}
              /\ rowLock' = [rowLock EXCEPT ![Own(w)] = w]
              /\ UNCHANGED <<payLock, pass>>
          BY <3>11, <4>1 DEF SaveTotals
        <5>2. InTransaction(w)'
          BY <5>1, <4>1
        <5> QED
          BY <5>1, <5>2, <4>1, <3>o
      <4>2. CASE pass[w] # "receipt"
        <5>1. /\ \A v \in Workers \ {w} : pc'[v] = pc[v]
              /\ UNCHANGED <<rowLock, payLock, pass>>
          BY <3>11, <4>2 DEF SaveTotals
        <5>2. /\ \A e \in Events : rowLock[e] # w
              /\ \A p \in Payments : payLock[p] # w
          BY <3>11, <4>2 DEF SaveTotals
        <5> QED
          BY <5>1, <5>2, <3>o
      <4> QED
        BY <4>1, <4>2
    <3>12. CASE LockOwnEvent(w)
      <4>1. CASE blocked[Own(w)] \/ status[Own(w)] # "CONFIRMED"
        <5>1. /\ pc' = [pc EXCEPT ![w] = AfterSignal(w)]
              /\ UNCHANGED <<rowLock, payLock, pass>>
          BY <3>12, <4>1 DEF LockOwnEvent
        <5>2. CASE pass[w] = "receipt"
          <6>1. InTransaction(w)'
            BY <5>1, <5>2
          <6> QED
            BY <5>1, <5>2, <6>1, <3>o
        <5>3. CASE pass[w] # "receipt"
          <6>1. /\ \A e \in Events : rowLock[e] # w
                /\ \A p \in Payments : payLock[p] # w
            BY <3>12, <5>3 DEF LockOwnEvent
          <6>2. \A v \in Workers \ {w} : pc'[v] = pc[v]
            BY <5>1
          <6> HIDE DEF AfterSignal
          <6> QED
            BY <5>1, <6>1, <6>2, <3>o
        <5> QED
          BY <5>2, <5>3
      <4>2. CASE ~(blocked[Own(w)] \/ status[Own(w)] # "CONFIRMED")
        <5>1. /\ pc' = [pc EXCEPT ![w] = "blocker"]
              /\ rowLock' = [rowLock EXCEPT ![Own(w)] = w]
              /\ UNCHANGED <<payLock, pass>>
          BY <3>12, <4>2 DEF LockOwnEvent
        <5>2. /\ InTransaction(w)'
              /\ \A p \in Payments : payLock[p] = w => pass[w] = "receipt"
          BY <5>1, <3>12 DEF LockOwnEvent
        <5> QED
          BY <5>1, <5>2, <3>o
      <4> QED
        BY <4>1, <4>2
    <3>13. CASE RefuseTaken(w)
      <4>1. /\ pc[w] = "blocker" /\ pc' = [pc EXCEPT ![w] = "refund"]
            /\ UNCHANGED <<payLock, pass>>
        BY <3>13 DEF RefuseTaken
      <4>2. \A p \in Payments : payLock[p] = w => pass[w] = "receipt"
        BY <4>1
      <4>3. CASE pass[w] = "receipt"
        <5>1. /\ InTransaction(w)'
              /\ \A e \in Events : rowLock'[e] \in {rowLock[e], w}
          BY <3>13, <4>1, <4>3 DEF RefuseTaken
        <5> QED
          BY <4>1, <4>2, <4>3, <5>1, <3>o
      <4>4. CASE pass[w] # "receipt"
        <5>1. rowLock' = [rowLock EXCEPT ![Own(w)] = None]
          BY <3>13, <4>4 DEF RefuseTaken
        <5>2. \A e \in Events : rowLock'[e] # w /\ rowLock'[e] \in {rowLock[e], None}
          BY <4>1, <5>1, SMTT(30)
        <5> QED
          BY <4>1, <4>2, <4>4, <5>2, <3>o
      <4> QED
        BY <4>3, <4>4
    <3>14. CASE FindNoBlocker(w)
      BY <3>14 DEF FindNoBlocker
    <3>15. CASE SelectCompetitors(w)
      BY <3>15 DEF SelectCompetitors
    <3>16. ASSUME NEW f \in Events, LockCompetitor(w, f) PROVE LocksReleased'
      BY <3>16 DEF LockCompetitor
    <3>17. CASE CommitBlock(w)
      BY <3>17 DEF CommitBlock, CommitSignal
    <3>18. CASE LockRefund(w)
      BY <3>18 DEF LockRefund
    <3>19. CASE SelectDue(w)
      BY <3>19 DEF SelectDue
    <3>20. CASE CommitRefund(w)
      BY <3>20 DEF CommitRefund, CommitSignal
    <3>21. CASE AbortDeadlock(w)
      <4>1. /\ \A v \in Workers \ {w} : pc'[v] = pc[v]
            /\ pass' = pass
            /\ \A e \in Events : rowLock'[e] \in {rowLock[e], None}
            /\ \A p \in Payments : payLock'[p] \in {payLock[p], None}
        BY <3>21 DEF AbortDeadlock
      <4>2. CASE pass[w] = "receipt" /\ pc[w] # "save"
        <5>1. pc'[w] = "commit"
          BY <3>21, <4>2 DEF AbortDeadlock
        <5>2. InTransaction(w)'
          BY <4>1, <4>2, <5>1
        <5> QED
          BY <4>1, <4>2, <5>2, <3>o
      <4>3. CASE ~(pass[w] = "receipt" /\ pc[w] # "save")
        <5>1. /\ \A e \in Events : rowLock'[e] # w
              /\ \A p \in Payments : payLock'[p] # w
          BY <3>21, <4>3 DEF AbortDeadlock
        <5> QED
          BY <4>1, <5>1, <3>o
      <4> QED
        BY <4>2, <4>3
    <3>22. CASE Crash(w)
      BY <3>22 DEF Crash
    <3>23. ASSUME NEW p \in Payments, AskGateway(w, p) PROVE LocksReleased'
      BY <3>23 DEF AskGateway
    <3> QED
      BY <2>1, <3>1, <3>2, <3>3, <3>4, <3>5, <3>6, <3>7, <3>8, <3>9, <3>10, <3>11, <3>12,
         <3>13, <3>14, <3>15, <3>16, <3>17, <3>18, <3>19, <3>20, <3>21, <3>22, <3>23
      DEF Complete, Signal
  <2>2. ASSUME NEW e \in Events, ReadExpired(e) \/ CancelExpired(e) PROVE LocksReleased'
    BY <2>2 DEF ReadExpired, CancelExpired
  <2>3. CASE UNCHANGED vars
    BY <2>3 DEF vars
  <2> QED
    BY <2>1, <2>2, <2>3 DEF Next
<1> QED
  BY <1>1, <1>2, TypeCorrect, RowProtocol, PTL DEF Spec

-----------------------------------------------------------------------------
\* A completed payment stays completed, so a downpayment once reached stays so.
LEMMA ReachedStays ==
  ASSUME TypeOK, [Next]_vars, NEW e \in Events, Reached(e)
  PROVE  Reached(e)'
<1>1. ASSUME NEW p \in Payments, paid[p] PROVE paid'[p]
  <2> USE <1>1 DEF TypeOK, paymentRows
  <2>1. ASSUME NEW w \in Workers, UpdatePayment(w) PROVE paid'[p]
    BY <2>1 DEF UpdatePayment
  <2>2. ASSUME NEW w \in Workers, ~UpdatePayment(w),
               Complete(w) \/ Signal(w) \/ AbortDeadlock(w) \/ Crash(w)
        PROVE  paid'[p]
    BY <2>2
    DEF Complete, Signal, Refresh, ReadOld, LoadEvent, Recompute, SaveEvent, LockReceipt,
        CommitReceipt, RecordAndNotify, ReadTotals, SaveTotals, LockOwnEvent, RefuseTaken,
        FindNoBlocker, SelectCompetitors, LockCompetitor, CommitBlock, LockRefund,
        SelectDue, AskGateway, CommitRefund, CommitSignal, AbortDeadlock, Crash
  <2>3. ASSUME NEW f \in Events, ReadExpired(f) \/ CancelExpired(f) PROVE paid'[p]
    BY <2>3 DEF ReadExpired, CancelExpired
  <2>4. CASE UNCHANGED vars
    BY <2>4 DEF vars
  <2> QED
    BY <2>1, <2>2, <2>3, <2>4 DEF Next
<1>2. Completed(e) \subseteq Completed(e)' /\ Completed(e)' \in SUBSET Payments
  BY <1>1 DEF Completed, PaymentsOf
<1> QED
  BY <1>2, FirstToPayAssumption DEF Reached

\* Every copy of date_blocked that a worker may write back, and every decision
\* to block, follows a downpayment that has been reached.
THEOREM PaidProtocol == Spec => []PaidInv
<1>1. Init => PaidInv
  <2> SUFFICES ASSUME Init PROVE PaidInv
    OBVIOUS
  <2>1. PICK S \in SUBSET Settled :
          /\ paid = [p \in Payments |-> EventOf[p] \in S]
          /\ blocked = [e \in Events |-> e \in S]
    BY DEF Init
  <2>2. ASSUME NEW e \in S PROVE Reached(e)
    <3>1. Completed(e) = PaymentsOf(e)
      BY <2>1, <2>2 DEF Completed, PaymentsOf
    <3> QED
      BY <3>1, FirstToPayAssumption DEF Reached
  <2>3. /\ \A e \in Events : blocked[e] => e \in S
        /\ \A w \in Workers : ~memBlocked[w] /\ ~check[w] /\ pc[w] = "idle"
    BY <2>1 DEF Init
  <2> QED
    BY <2>2, <2>3 DEF PaidInv, BlockedIsPaid, Reached
<1>2. TypeOK /\ PaidInv /\ [Next]_vars => PaidInv'
  <2> SUFFICES ASSUME TypeOK, PaidInv, [Next]_vars PROVE PaidInv'
    OBVIOUS
  <2>a. \A e \in Events : Reached(e) => Reached(e)'
    BY ReachedStays
  <2>b. \A w \in Workers : Own(w) \in Events
    BY FirstToPayAssumption DEF Own
  <2>c. PaidInv <=>
          /\ \A e \in Events : blocked[e] => Reached(e)
          /\ \A w \in Workers :
               \/ memBlocked[w] \/ check[w]
               \/ pc[w] \in {"lock", "blocker", "select", "compete"}
               => Reached(Own(w))
    BY DEF PaidInv, BlockedIsPaid, Reached
  <2>d. PaidInv' <=>
          /\ \A e \in Events : blocked'[e] => Reached(e)'
          /\ \A w \in Workers :
               \/ memBlocked'[w] \/ check'[w]
               \/ pc'[w] \in {"lock", "blocker", "select", "compete"}
               => Reached(Own(w))'
    BY DEF PaidInv, BlockedIsPaid, Reached
  <2>e. \A w \in Workers : Reached(Own(w)) => Reached(Own(w))'
    BY <2>a, <2>b DEF Own
  <2> USE <2>a, <2>b, <2>c, <2>d, <2>e
      DEF TypeOK, eventRows, memory, signal, Goto, AfterSignal
  <2>1. ASSUME NEW w \in Workers, Complete(w) \/ Signal(w) \/ AbortDeadlock(w) \/ Crash(w)
        PROVE  PaidInv'
    <3>1. CASE Refresh(w)
      BY <3>1 DEF Refresh
    <3>2. CASE ReadOld(w)
      BY <3>2 DEF ReadOld
    <3>3. CASE UpdatePayment(w)
      BY <3>3 DEF UpdatePayment
    <3>4. CASE LoadEvent(w)
      BY <3>4 DEF LoadEvent
    <3>5. CASE Recompute(w)
      BY <3>5 DEF Recompute
    <3>6. CASE SaveEvent(w)
      BY <3>6 DEF SaveEvent
    <3>7. CASE LockReceipt(w)
      BY <3>7 DEF LockReceipt
    <3>8. CASE CommitReceipt(w)
      BY <3>8 DEF CommitReceipt, CommitSignal
    <3>9. CASE RecordAndNotify(w)
      BY <3>9 DEF RecordAndNotify
    <3>10. CASE ReadTotals(w)
      BY <3>10 DEF ReadTotals
    <3>11. CASE SaveTotals(w)
      BY <3>11 DEF SaveTotals
    <3>12. CASE LockOwnEvent(w)
      BY <3>12 DEF LockOwnEvent
    <3>13. CASE RefuseTaken(w)
      BY <3>13 DEF RefuseTaken
    <3>14. CASE FindNoBlocker(w)
      BY <3>14 DEF FindNoBlocker
    <3>15. CASE SelectCompetitors(w)
      BY <3>15 DEF SelectCompetitors
    <3>16. ASSUME NEW f \in Events, LockCompetitor(w, f) PROVE PaidInv'
      BY <3>16 DEF LockCompetitor
    <3>17. CASE CommitBlock(w)
      BY <3>17 DEF CommitBlock, CommitSignal
    <3>18. CASE LockRefund(w)
      BY <3>18 DEF LockRefund
    <3>19. CASE SelectDue(w)
      BY <3>19 DEF SelectDue
    <3>20. CASE CommitRefund(w)
      BY <3>20 DEF CommitRefund, CommitSignal
    <3>21. CASE AbortDeadlock(w)
      BY <3>21 DEF AbortDeadlock
    <3>22. CASE Crash(w)
      BY <3>22 DEF Crash
    <3>23. ASSUME NEW p \in Payments, AskGateway(w, p) PROVE PaidInv'
      BY <3>23 DEF AskGateway
    <3> QED
      BY <2>1, <3>1, <3>2, <3>3, <3>4, <3>5, <3>6, <3>7, <3>8, <3>9, <3>10, <3>11, <3>12,
         <3>13, <3>14, <3>15, <3>16, <3>17, <3>18, <3>19, <3>20, <3>21, <3>22, <3>23
      DEF Complete, Signal
  <2>2. ASSUME NEW e \in Events, ReadExpired(e) PROVE PaidInv'
    BY <2>2 DEF ReadExpired
  <2>3. ASSUME NEW e \in Events, CancelExpired(e) PROVE PaidInv'
    BY <2>3 DEF CancelExpired
  <2>4. CASE UNCHANGED vars
    BY <2>4 DEF vars
  <2> QED
    BY <2>1, <2>2, <2>3, <2>4 DEF Next
<1> QED
  BY <1>1, <1>2, TypeCorrect, PTL DEF Spec

\* A date is blocked only for an event whose payments reach the downpayment.
THEOREM BlockPaid == Spec => []BlockedIsPaid
<1>1. PaidInv => BlockedIsPaid
  BY DEF PaidInv
<1> QED
  BY <1>1, PaidProtocol, PTL
==============================================================================
