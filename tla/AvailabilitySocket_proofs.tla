---------------------- MODULE AvailabilitySocket_proofs ----------------------
(* Proofs about AvailabilitySocket, for any dates and any number of sockets. *)
EXTENDS AvailabilitySocket, TLAPS

\* A new connection keeps the types of what it changes.
LEMMA ConnectKeepsTypes ==
  ASSUME TypeOK, NEW rs \in [Sockets -> States], NEW c \in Dates \cup {None},
         Connect(rs, c)
  PROVE  /\ readyState' \in [Sockets -> States] /\ wsRef' \in Sockets
         /\ closure' \in [Sockets -> Dates \cup {None}]
         /\ inbox' \in [Sockets -> SUBSET Dates]
<1>1. wsRef' \in Sockets
  BY DEF Connect
<1>2. [Close(rs) EXCEPT ![wsRef'] = "connecting"] \in [Sockets -> States]
  BY <1>1 DEF Close, States, Live, TypeOK
<1> QED
  BY <1>1, <1>2 DEF Connect, Become, TypeOK

\* The values of the variables are of their types: a new connection has a name,
\* the timer of a cleanup is one that onclose has set.
THEOREM TypeCorrect == Spec => []TypeOK
<1>1. Init => TypeOK
  BY AvailabilitySocketAssumption
     DEF Init, TypeOK, Render, Renders, States, Live
<1>2. TypeOK /\ [Next]_vars => TypeOK'
  <2> SUFFICES ASSUME TypeOK, [Next]_vars PROVE TypeOK'
    OBVIOUS
  <2>w. Cleanup \in [Sockets -> States]
    BY DEF Cleanup, TypeOK, States
  <2>1. ASSUME NEW d \in Dates, Broadcast(d) PROVE TypeOK'
    BY <2>1 DEF Broadcast, hook, TypeOK
  <2>2. ASSUME NEW d \in Dates, Select(d) PROVE TypeOK'
    BY <2>2 DEF Select, hook, socket, TypeOK
  <2>3. ASSUME NEW n \in Sockets, Opens(n) PROVE TypeOK'
    BY <2>3 DEF Opens, TypeOK, States, Live
  <2>l. ASSUME NEW n \in Sockets, Lost(n) PROVE TypeOK'
    BY <2>l DEF Lost, Become, TypeOK, States
  <2>4. ASSUME NEW n \in Sockets, Closes(n) PROVE TypeOK'
    <3>1. CASE Lost(n)
      BY <3>1, <2>l
    <3>2. CASE ~Lost(n)
      BY <2>4, <3>2 DEF Closes, Become, hook, TypeOK, States
    <3> QED
      BY <3>1, <3>2
  <2>5. ASSUME NEW n \in Sockets, Drops(n) PROVE TypeOK'
    BY <2>5, <2>l DEF Drops
  <2>6. ASSUME NEW n \in Sockets, TimerFires(n) PROVE TypeOK'
    <3> DEFINE rs == [readyState EXCEPT ![n] = "gone"]
    <3>1. rs \in [Sockets -> States] /\ closure[n] \in Dates \cup {None}
      BY DEF TypeOK, States
    <3>2. /\ readyState' \in [Sockets -> States] /\ wsRef' \in Sockets
          /\ closure' \in [Sockets -> Dates \cup {None}]
          /\ inbox' \in [Sockets -> SUBSET Dates]
      <4>1. CASE readyState[wsRef] = "open"
        BY <2>6, <3>1, <4>1 DEF TimerFires, Become, TypeOK
      <4>2. CASE readyState[wsRef] # "open"
        BY <2>6, <3>1, <4>2, ConnectKeepsTypes DEF TimerFires
      <4> QED
        BY <4>1, <4>2
    <3> QED
      BY <2>6, <3>2 DEF TimerFires, TypeOK
  <2>7. ASSUME NEW n \in Sockets, NEW d \in Dates, Deliver(n, d) PROVE TypeOK'
    BY <2>7 DEF Deliver, TypeOK
  <2>8. ASSUME Effects PROVE TypeOK'
    <3>1. /\ readyState' \in [Sockets -> States] /\ wsRef' \in Sockets
          /\ closure' \in [Sockets -> Dates \cup {None}]
          /\ inbox' \in [Sockets -> SUBSET Dates]
      BY <2>8, <2>w, ConnectKeepsTypes DEF Effects, TypeOK
    <3> QED
      BY <2>8, <3>1 DEF Effects, Render, Renders, TypeOK
  <2>9. ASSUME Leave PROVE TypeOK'
    <3>1. Close(Cleanup) \in [Sockets -> States]
      BY <2>w DEF Close, States, Live, TypeOK
    <3> QED
      BY <2>9, <3>1 DEF Leave, Become, Renders, TypeOK
  <2>10. CASE UNCHANGED vars
    BY <2>10 DEF vars, hook, socket, TypeOK
  <2> QED
    BY <2>1, <2>2, <2>3, <2>4, <2>5, <2>6, <2>7, <2>8, <2>9, <2>10 DEF Next
<1> QED
  BY <1>1, <1>2, PTL DEF Spec

\* A new connection is the only one: the one it replaces has been closed.
LEMMA ConnectKeepsOneLive ==
  ASSUME TypeOK, OneLive, NEW rs \in [Sockets -> States], NEW c,
         \A n \in Sockets : rs[n] \in Live => rs[n] = readyState[n],
         Connect(rs, c)
  PROVE  OneLive'
<1>1. wsRef' \in Sockets
  BY DEF Connect
<1>2. \A n \in Sockets : Close(rs)[n] \notin Live
  BY DEF Close, Live, OneLive, TypeOK
<1>3. \A n \in Sockets : n # wsRef' => readyState'[n] = Close(rs)[n]
  BY <1>1 DEF Connect, Become, Close
<1> QED
  BY <1>1, <1>2, <1>3 DEF OneLive

\* No connection is ever left behind, however many renders, closes and timers of
\* old renders come between.
THEOREM NoneLeftBehind == Spec => []OneLive
<1>1. Init => OneLive
  BY DEF Init, OneLive, Live
<1>2. TypeOK /\ OneLive /\ [Next]_vars => OneLive'
  <2> SUFFICES ASSUME TypeOK, OneLive, [Next]_vars PROVE OneLive'
    OBVIOUS
  <2>w. /\ Cleanup \in [Sockets -> States]
        /\ \A n \in Sockets : Cleanup[n] \in Live => Cleanup[n] = readyState[n]
    BY DEF Cleanup, TypeOK, States, Live
  <2>1. ASSUME NEW d \in Dates, Broadcast(d) PROVE OneLive'
    BY <2>1 DEF Broadcast, hook, OneLive
  <2>2. ASSUME NEW d \in Dates, Select(d) PROVE OneLive'
    BY <2>2 DEF Select, hook, socket, OneLive
  <2>3. ASSUME NEW n \in Sockets, Opens(n) PROVE OneLive'
    BY <2>3 DEF Opens, TypeOK, OneLive, Live
  <2>l. ASSUME NEW n \in Sockets, Lost(n) PROVE OneLive'
    BY <2>l DEF Lost, Become, TypeOK, OneLive, Live
  <2>4. ASSUME NEW n \in Sockets, Closes(n) PROVE OneLive'
    <3>1. CASE Lost(n)
      BY <3>1, <2>l
    <3>2. CASE ~Lost(n)
      BY <2>4, <3>2 DEF Closes, Become, hook, TypeOK, OneLive, Live
    <3> QED
      BY <3>1, <3>2
  <2>5. ASSUME NEW n \in Sockets, Drops(n) PROVE OneLive'
    BY <2>5, <2>l DEF Drops
  <2>6. ASSUME NEW n \in Sockets, TimerFires(n) PROVE OneLive'
    <3> DEFINE rs == [readyState EXCEPT ![n] = "gone"]
    <3>1. /\ rs \in [Sockets -> States]
          /\ \A m \in Sockets : rs[m] \in Live => rs[m] = readyState[m]
      BY DEF TypeOK, States, Live
    <3>2. CASE readyState[wsRef] = "open"
      BY <2>6, <3>1, <3>2 DEF TimerFires, Become, OneLive
    <3>3. CASE readyState[wsRef] # "open"
      BY <2>6, <3>1, <3>3, ConnectKeepsOneLive DEF TimerFires
    <3> QED
      BY <3>2, <3>3
  <2>7. ASSUME NEW n \in Sockets, NEW d \in Dates, Deliver(n, d) PROVE OneLive'
    BY <2>7 DEF Deliver, OneLive
  <2>8. ASSUME Effects PROVE OneLive'
    BY <2>8, <2>w, ConnectKeepsOneLive DEF Effects
  <2>9. ASSUME Leave PROVE OneLive'
    BY <2>9, <2>w DEF Leave, Become, Close, TypeOK, OneLive, Live
  <2>10. CASE UNCHANGED vars
    BY <2>10 DEF vars, hook, socket, OneLive
  <2> QED
    BY <2>1, <2>2, <2>3, <2>4, <2>5, <2>6, <2>7, <2>8, <2>9, <2>10 DEF Next
<1> QED
  BY <1>1, <1>2, TypeCorrect, PTL DEF Spec

\* While the step is shown the last socket is open, is connecting or has the
\* timer: a cleanup and a timer that takes it away make a new one at once.
THEOREM AlwaysConnecting == Spec => []NeverStranded
<1>1. Init => NeverStranded
  <2> SUFFICES ASSUME Init PROVE NeverStranded
    OBVIOUS
  <2>1. wsRef \in Sockets
    BY AvailabilitySocketAssumption DEF Init
  <2>2. readyState[wsRef] = "open"
    BY <2>1 DEF Init
  <2> QED
    BY <2>2 DEF NeverStranded, Live
<1>2. TypeOK /\ OneLive /\ NeverStranded /\ [Next]_vars => NeverStranded'
  <2> SUFFICES ASSUME TypeOK, OneLive, NeverStranded, [Next]_vars, mounted'
               PROVE  (readyState[wsRef])' \in Live \cup {"waiting"}
    BY DEF NeverStranded
  <2> DEFINE Goal == (readyState[wsRef])' \in Live \cup {"waiting"}
  <2>c. ASSUME NEW rs \in [Sockets -> States], NEW c, Connect(rs, c) PROVE Goal
    <3>1. wsRef' \in Sockets /\ Close(rs) \in [Sockets -> States]
      BY <2>c DEF Connect, Close, States, Live
    <3>2. (readyState[wsRef])' = "connecting"
      BY <2>c, <3>1 DEF Connect, Become
    <3> QED
      BY <3>2 DEF Live
  <2>k. ASSUME mounted, wsRef' = wsRef, readyState'[wsRef] = readyState[wsRef] PROVE Goal
    BY <2>k DEF NeverStranded
  <2>1. ASSUME NEW d \in Dates, Broadcast(d) PROVE Goal
    BY <2>1, <2>k DEF Broadcast, hook
  <2>2. ASSUME NEW d \in Dates, Select(d) PROVE Goal
    BY <2>2, <2>k DEF Select, hook, socket
  <2>3. ASSUME NEW n \in Sockets, Opens(n) PROVE Goal
    BY <2>3 DEF Opens, TypeOK, NeverStranded, Live
  <2>l. ASSUME NEW n \in Sockets, Lost(n) PROVE Goal
    BY <2>l DEF Lost, Become, TypeOK, NeverStranded, Live
  <2>4. ASSUME NEW n \in Sockets, Closes(n) PROVE Goal
    <3>1. CASE Lost(n)
      BY <3>1, <2>l
    <3>2. CASE ~Lost(n)
      <4>1. mounted /\ wsRef' = wsRef /\ readyState' = [readyState EXCEPT ![n] = "gone"]
        BY <2>4, <3>2 DEF Closes, Become, hook
      <4>2. n # wsRef
        BY <2>4, <4>1 DEF Closes, NeverStranded, Live
      <4> QED
        BY <4>1, <4>2, <2>k DEF TypeOK
    <3> QED
      BY <3>1, <3>2
  <2>5. ASSUME NEW n \in Sockets, Drops(n) PROVE Goal
    BY <2>5, <2>l DEF Drops
  <2>6. ASSUME NEW n \in Sockets, TimerFires(n) PROVE Goal
    <3>1. [readyState EXCEPT ![n] = "gone"] \in [Sockets -> States]
      BY DEF TypeOK, States
    <3>2. CASE readyState[wsRef] = "open"
      BY <2>6, <3>2 DEF TimerFires, Become, TypeOK, Live
    <3>3. CASE readyState[wsRef] # "open"
      BY <2>6, <3>1, <3>3, <2>c DEF TimerFires
    <3> QED
      BY <3>2, <3>3
  <2>7. ASSUME NEW n \in Sockets, NEW d \in Dates, Deliver(n, d) PROVE Goal
    BY <2>7, <2>k DEF Deliver
  <2>8. ASSUME Effects PROVE Goal
    <3>1. Cleanup \in [Sockets -> States]
      BY DEF Cleanup, TypeOK, States
    <3> QED
      BY <2>8, <3>1, <2>c DEF Effects
  <2>9. ~Leave
    BY DEF Leave
  <2>10. CASE UNCHANGED vars
    BY <2>10, <2>k DEF vars, hook, socket
  <2> QED
    BY <2>1, <2>2, <2>3, <2>4, <2>5, <2>6, <2>7, <2>8, <2>9, <2>10 DEF Next
<1> QED
  BY <1>1, <1>2, TypeCorrect, NoneLeftBehind, PTL DEF Spec
==============================================================================
