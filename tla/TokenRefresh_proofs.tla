------------------------- MODULE TokenRefresh_proofs -------------------------
(* Proofs about TokenRefresh: the refresh mutex of a page, for any number of *)
(* tabs, calls and token pairs.                                              *)
EXTENDS TokenRefresh, TLAPS

\* What the variables of the calls are.
CallsOK ==
  /\ pc \in [Requests -> Labels]
  /\ call \in [Requests -> [stage : Stages, bearer : Pairs, body : Pairs]]
  /\ _retry \in [Requests -> BOOLEAN]
  /\ using \in [Requests -> Pairs]
  /\ reply \in [Requests -> [answer : {"none", "ok", "401", "error"}, pair : Pairs]]

LEMMA SendKeepsTypes ==
  ASSUME CallsOK, NEW r \in Requests, NEW stage \in Stages,
         NEW access \in Pairs, NEW body \in Pairs, Send(r, stage, access, body)
  PROVE  CallsOK'
BY TokenRefreshAssumption DEF CallsOK, Send, NoReply, Labels, Pairs

LEMMA CloseKeepsTypes ==
  ASSUME CallsOK, NEW S \in SUBSET Requests, Close(S)
  PROVE  CallsOK'
BY TokenRefreshAssumption DEF CallsOK, Close, NoCall, NoReply, Labels, Stages, Pairs

LEMMA AnswerKeepsTypes ==
  ASSUME CallsOK, NEW r \in Requests, NEW label \in Labels,
         NEW answer \in {"none", "ok", "401", "error"}, NEW pair \in Pairs,
         Answer(r, label, answer, pair)
  PROVE  CallsOK'
BY DEF CallsOK, Answer

\* The values of the variables are of their types: every step of a call, of
\* AuthContext and of the server writes what the next one can read.
THEOREM TypeCorrect == Spec => []TypeOK
<1> USE TokenRefreshAssumption
<1>1. Init => TypeOK
  BY DEF Init, TypeOK, Pairs, NoCall, NoReply, Stages, Labels
<1>2. TypeOK /\ [Next]_vars => TypeOK'
  <2> SUFFICES ASSUME TypeOK, [Next]_vars PROVE TypeOK'
    OBVIOUS
  <2>t. CallsOK /\ (CallsOK' => /\ pc' \in [Requests -> Labels]
             /\ call' \in [Requests -> [stage : Stages, bearer : Pairs, body : Pairs]]
             /\ _retry' \in [Requests -> BOOLEAN]
             /\ using' \in [Requests -> Pairs]
             /\ reply' \in [Requests -> [answer : {"none", "ok", "401", "error"},
                                         pair : Pairs]])
    BY DEF CallsOK, TypeOK
  <2>z. /\ 0 \in Pairs /\ NoTokens \in [access : Pairs, refresh : Pairs, user : BOOLEAN]
        /\ stored.access \in Pairs /\ stored.refresh \in Pairs
    BY DEF TypeOK, NoTokens, Pairs
  <2> DEFINE StoreOK == /\ stored' \in [access : Pairs, refresh : Pairs, user : BOOLEAN]
                        /\ removed' \in [Tabs -> BOOLEAN]
             ServerOK == /\ issued' \in Pairs /\ expired' \in SUBSET Pairs
                         /\ blacklisted' \in SUBSET Pairs
  <2>a. ASSUME NEW t \in Tabs, clearAuth(t) PROVE StoreOK
    BY <2>a, <2>z DEF clearAuth, TypeOK
  <2>r. ASSUME NEW t \in Tabs, NEW S \in SUBSET Requests, NEW failed \in BOOLEAN,
               Rejected(t, S, failed)
        PROVE  StoreOK /\ CallsOK' /\ user' \in [Tabs -> BOOLEAN]
    <3>1. CallsOK'
      BY <2>r, <2>t, CloseKeepsTypes DEF Rejected
    <3>2. StoreOK
      BY <2>r, <2>a DEF Rejected, TypeOK
    <3> QED BY <2>r, <3>1, <3>2 DEF Rejected, TypeOK
  <2>s. ASSUME NEW r \in Requests, NEW token \in Pairs, NEW label \in Labels,
               ServeToken(r, token, label)
        PROVE  ServerOK /\ CallsOK'
    <3>1. CASE token \in blacklisted /\ Answer(r, label, "401", 0) /\ UNCHANGED server
      BY <3>1, <2>t, <2>z, AnswerKeepsTypes DEF server, TypeOK
    <3>2. ASSUME Rotate(token) PROVE ServerOK /\ issued + 1 \in Pairs
      BY <3>2 DEF Rotate, TypeOK, Pairs
    <3>3. CASE Rotate(token) /\ Answer(r, label, "ok", issued + 1)
      BY <3>2, <3>3, <2>t, AnswerKeepsTypes
    <3>4. CASE Rotate(token) /\ Answer(r, label, "error", 0)
      BY <3>2, <3>4, <2>t, <2>z, AnswerKeepsTypes
    <3> QED BY <2>s, <3>1, <3>3, <3>4 DEF ServeToken
  <2>1. ASSUME NEW r \in Requests, Api(r) PROVE TypeOK'
    <3>1. CallsOK' BY <2>1, <2>t, <2>z, SendKeepsTypes DEF Api, Stages
    <3> QED BY <2>1, <2>t, <3>1 DEF Api, server, page, TypeOK
  <2>2. ASSUME NEW r \in Requests, refreshToken(r) PROVE TypeOK'
    <3>1. CallsOK' BY <2>2, <2>t, <2>z, SendKeepsTypes DEF refreshToken, Stages
    <3> QED BY <2>2, <2>t, <3>1 DEF refreshToken, server, page, TypeOK
  <2>3. ASSUME NEW r \in Requests, initializeAuth(r) PROVE TypeOK'
    <3>1. CASE Send(r, "mount", stored.access, 0)
      <4>1. CallsOK' BY <3>1, <2>t, <2>z, SendKeepsTypes DEF Stages
      <4> QED BY <2>3, <2>t, <4>1 DEF initializeAuth, server, TypeOK
    <3>2. CASE UNCHANGED request
      BY <2>3, <3>2 DEF initializeAuth, server, request, TypeOK
    <3> QED BY <2>3, <3>1, <3>2 DEF initializeAuth
  <2>4. ASSUME NEW r \in Requests, Serve(r) PROVE TypeOK'
    <3>1. "answered" \in Labels /\ call[r].body \in Pairs
      BY DEF Labels, TypeOK
    <3>2. ServerOK /\ CallsOK'
      <4>1. CASE ServeToken(r, call[r].body, "answered")
        BY <4>1, <3>1, <2>s
      <4>2. CASE Answer(r, "answered", IF Valid(call[r].bearer) THEN "ok" ELSE "401", 0)
                 /\ UNCHANGED server
        BY <4>2, <3>1, <2>t, <2>z, AnswerKeepsTypes DEF server, TypeOK
      <4>3. CASE Answer(r, "answered", "error", 0) /\ UNCHANGED server
        BY <4>3, <3>1, <2>t, <2>z, AnswerKeepsTypes DEF server, TypeOK
      <4> QED BY <2>4, <4>1, <4>2, <4>3 DEF Serve
    <3> QED BY <2>4, <2>t, <3>2 DEF Serve, page, TypeOK
  <2>5. ASSUME NEW r \in Requests, ServeRefresh(r) PROVE TypeOK'
    <3>1. "refreshed" \in Labels /\ using[r] \in Pairs
      BY DEF Labels, TypeOK
    <3>2. ServerOK /\ CallsOK'
      <4>1. CASE ServeToken(r, using[r], "refreshed")
        BY <4>1, <3>1, <2>s
      <4>2. CASE Answer(r, "refreshed", "error", 0) /\ UNCHANGED server
        BY <4>2, <3>1, <2>t, <2>z, AnswerKeepsTypes DEF server, TypeOK
      <4> QED BY <2>5, <4>1, <4>2 DEF ServeRefresh
    <3> QED BY <2>5, <2>t, <3>2 DEF ServeRefresh, page, TypeOK
  <2>6. ASSUME NEW r \in Requests, Succeed(r) PROVE TypeOK'
    <3>1. reply[r].pair \in Pairs
      BY DEF TypeOK
    <3>2. CASE call[r].stage = "api"
      <4>1. Close({r}) /\ UNCHANGED <<stored, user>>
        BY <2>6, <3>2 DEF Succeed
      <4>2. CallsOK' BY <4>1, <2>t, CloseKeepsTypes
      <4> QED BY <2>6, <2>t, <4>1, <4>2 DEF Succeed, server, TypeOK
    <3>3. CASE call[r].stage = "refresh"
      <4>1. /\ setTokens(reply[r].pair, reply[r].pair)
            /\ Send(r, "profile", reply[r].pair, 0)
            /\ UNCHANGED user
        BY <2>6, <3>3 DEF Succeed
      <4>2. CallsOK' BY <4>1, <3>1, <2>t, <2>z, SendKeepsTypes DEF Stages
      <4> QED BY <2>6, <2>t, <3>1, <4>1, <4>2 DEF Succeed, setTokens, server, TypeOK
    <3>4. CASE call[r].stage \notin {"api", "refresh"}
      <4>1. /\ Close({r}) /\ stored' = [stored EXCEPT !.user = TRUE]
            /\ user' = [user EXCEPT ![TabOf[r]] = TRUE]
        BY <2>6, <3>4 DEF Succeed
      <4>2. CallsOK' BY <4>1, <2>t, CloseKeepsTypes
      <4> QED BY <2>6, <2>t, <4>1, <4>2 DEF Succeed, server, TypeOK
    <3> QED BY <3>2, <3>3, <3>4
  <2>7. ASSUME NEW r \in Requests, Fail(r) PROVE TypeOK'
    BY <2>7, <2>t, <2>r DEF Fail, server, TypeOK
  <2>8. ASSUME NEW r \in Requests, Enqueue(r) PROVE TypeOK'
    BY <2>8 DEF Enqueue, server, TypeOK, Labels
  <2>9. ASSUME NEW r \in Requests, StartRefresh(r) PROVE TypeOK'
    BY <2>9, <2>z DEF StartRefresh, server, TypeOK, Labels
  <2>10. ASSUME NEW r \in Requests, NoRefreshToken(r) PROVE TypeOK'
    <3>1. {r} \cup failedQueue[TabOf[r]] \in SUBSET Requests BY DEF TypeOK
    <3>2. StoreOK /\ CallsOK' /\ user' \in [Tabs -> BOOLEAN]
      BY <2>10, <3>1, <2>r DEF NoRefreshToken
    <3> QED BY <2>10, <3>2, <2>t DEF NoRefreshToken, server, TypeOK
  <2>11. ASSUME NEW r \in Requests, FinishRefresh(r) PROVE TypeOK'
    <3>1. CallsOK'
      BY <2>11, <2>t, <2>z DEF FinishRefresh, CallsOK, Labels, NoReply
    <3> QED BY <2>11, <2>t, <3>1 DEF FinishRefresh, setTokens, server, TypeOK
  <2>12. ASSUME NEW r \in Requests, FailRefresh(r) PROVE TypeOK'
    <3>1. {r} \cup failedQueue[TabOf[r]] \in SUBSET Requests BY DEF TypeOK
    <3>2. StoreOK /\ CallsOK' /\ user' \in [Tabs -> BOOLEAN]
      BY <2>12, <3>1, <2>r DEF FailRefresh
    <3> QED BY <2>12, <3>2, <2>t DEF FailRefresh, server, TypeOK
  <2>13. ASSUME NEW t \in Tabs, login(t) PROVE TypeOK'
    BY <2>13 DEF login, request, TypeOK, Pairs
  <2>14. ASSUME NEW t \in Tabs, logout(t) PROVE TypeOK'
    BY <2>14, <2>a DEF logout, server, request, TypeOK
  <2>15. ASSUME NEW t \in Tabs, handleStorageChange(t) PROVE TypeOK'
    BY <2>15 DEF handleStorageChange, server, request, TypeOK
  <2>16. ASSUME NEW t \in Tabs, Reload(t) PROVE TypeOK'
    <3>1. CallsOK' BY <2>16, <2>t, CloseKeepsTypes DEF Reload, RequestsOf
    <3> QED BY <2>16, <2>t, <3>1 DEF Reload, server, TypeOK
  <2>17. ASSUME NEW access \in Pairs, Expire(access) PROVE TypeOK'
    BY <2>17 DEF Expire, page, request, TypeOK
  <2>18. CASE UNCHANGED vars
    BY <2>18 DEF vars, server, page, request, TypeOK
  <2> QED
    BY <2>1, <2>2, <2>3, <2>4, <2>5, <2>6, <2>7, <2>8, <2>9, <2>10, <2>11, <2>12,
       <2>13, <2>14, <2>15, <2>16, <2>17, <2>18 DEF Next, Step
<1> QED
  BY <1>1, <1>2, PTL DEF Spec

-----------------------------------------------------------------------------
(* The mutex                                                               *)

\* The queue holds the calls that wait.
QueueKept == \A t \in Tabs : failedQueue[t] = Queued(t)

\* The flag is up while a call of the page refreshes.
FlagSet == \A t \in Tabs : isRefreshing[t] <=> Refreshing(t) # {}

\* At most one does.
OneRefreshes == \A t \in Tabs : \A r, q \in Refreshing(t) : r = q

\* A queue without a refresh would never be emptied.
QueueServed == \A t \in Tabs : failedQueue[t] # {} => isRefreshing[t]

MutexInv == QueueKept /\ FlagSet /\ OneRefreshes /\ QueueServed

SameCalls == \A t \in Tabs : Queued(t)' = Queued(t) /\ Refreshing(t)' = Refreshing(t)

\* What an action does that frees the callers of one page.
Frees(t) ==
  /\ Queued(t)' = {} /\ Refreshing(t)' = {}
  /\ \A u \in Tabs \ {t} : Queued(u)' = Queued(u) /\ Refreshing(u)' = Refreshing(u)

Flights == \A t \in Tabs : [Flight(t)!Next]_<<Refreshing(t), Queued(t)>>

\* Calls that change neither into nor out of the two groups leave them alone.
LEMMA NeutralCalls ==
  ASSUME TypeOK,
         \A q \in Requests :
           /\ pc[q] = "queued" <=> pc'[q] = "queued"
           /\ pc[q] \in {"refreshing", "refreshed"} <=>
                pc'[q] \in {"refreshing", "refreshed"}
  PROVE  SameCalls
BY DEF SameCalls, Queued, Refreshing, RequestsOf

LEMMA NeutralStep ==
  ASSUME TypeOK, MutexInv, SameCalls, UNCHANGED <<failedQueue, isRefreshing>>
  PROVE  MutexInv' /\ Flights
<1>1. MutexInv'
  BY DEF SameCalls, MutexInv, QueueKept, FlagSet, OneRefreshes, QueueServed
<1>2. Flights
  BY DEF Flights, SameCalls
<1> QED BY <1>1, <1>2

LEMMA FreeingStep ==
  ASSUME TypeOK, MutexInv, NEW t \in Tabs, Frees(t),
         failedQueue' = [failedQueue EXCEPT ![t] = {}],
         isRefreshing' = [isRefreshing EXCEPT ![t] = FALSE]
  PROVE  MutexInv' /\ Flights
<1>1. /\ failedQueue'[t] = {} /\ ~isRefreshing'[t]
      /\ \A u \in Tabs \ {t} : failedQueue'[u] = failedQueue[u]
                               /\ isRefreshing'[u] = isRefreshing[u]
  BY DEF TypeOK
<1>2. QueueKept'
  BY <1>1 DEF Frees, MutexInv, QueueKept
<1>3. FlagSet' /\ QueueServed'
  BY <1>1 DEF Frees, MutexInv, FlagSet, QueueServed
<1>4. OneRefreshes'
  BY DEF Frees, MutexInv, OneRefreshes
<1>5. Flights
  <2>1. Flight(t)!Next
    BY DEF Frees, Flight!Next, Flight!Release
  <2> QED BY <2>1 DEF Frees, Flights
<1> QED BY <1>2, <1>3, <1>4, <1>5 DEF MutexInv

\* A step keeps the mutex and is, in every page, a step of SingleFlight.
LEMMA MutexStep ==
  ASSUME TypeOK, MutexInv, [Next]_vars
  PROVE  MutexInv' /\ Flights
<1> USE TokenRefreshAssumption
<1>n. ASSUME NEW S \in SUBSET Requests, NEW label \in {"idle", "sent", "answered"},
             \A q \in Requests : pc'[q] = IF q \in S THEN label ELSE pc[q],
             \A q \in S : pc[q] \in {"idle", "sent", "answered"},
             UNCHANGED <<failedQueue, isRefreshing>>
      PROVE  MutexInv' /\ Flights
  BY <1>n, NeutralCalls, NeutralStep
<1>1. ASSUME NEW r \in Requests, Api(r) \/ refreshToken(r) PROVE MutexInv' /\ Flights
  <2>1. pc[r] = "idle" /\ \A q \in Requests : pc'[q] = IF q \in {r} THEN "sent" ELSE pc[q]
    BY <1>1 DEF Api, refreshToken, Send, TypeOK
  <2> QED BY <1>1, <2>1, <1>n DEF Api, refreshToken, page
<1>2. ASSUME NEW r \in Requests, initializeAuth(r) PROVE MutexInv' /\ Flights
  <2>1. \E S \in {{}, {r}} :
          \A q \in Requests : pc'[q] = IF q \in S THEN "sent" ELSE pc[q]
    BY <1>2 DEF initializeAuth, Send, request, TypeOK
  <2> QED BY <1>2, <2>1, <1>n DEF initializeAuth
<1>3. ASSUME NEW r \in Requests, Serve(r) PROVE MutexInv' /\ Flights
  <2>1. \A q \in Requests : pc'[q] = IF q \in {r} THEN "answered" ELSE pc[q]
    BY <1>3 DEF Serve, ServeToken, Answer, TypeOK
  <2> QED BY <1>3, <2>1, <1>n DEF Serve, page
<1>4. ASSUME NEW r \in Requests, ServeRefresh(r) PROVE MutexInv' /\ Flights
  <2>1. pc[r] = "refreshing" /\ pc' = [pc EXCEPT ![r] = "refreshed"]
    BY <1>4 DEF ServeRefresh, ServeToken, Answer
  <2>2. SameCalls
    BY <2>1, NeutralCalls DEF TypeOK
  <2> QED BY <1>4, <2>2, NeutralStep DEF ServeRefresh, page
<1>5. ASSUME NEW r \in Requests, Succeed(r) PROVE MutexInv' /\ Flights
  <2>1. \E label \in {"idle", "sent"} :
          \A q \in Requests : pc'[q] = IF q \in {r} THEN label ELSE pc[q]
    <3>1. CASE call[r].stage = "refresh"
      BY <1>5, <3>1 DEF Succeed, Send, TypeOK
    <3>2. CASE call[r].stage = "api"
      BY <1>5, <3>2 DEF Succeed, Close, TypeOK
    <3>3. CASE call[r].stage \notin {"api", "refresh"}
      BY <1>5, <3>3 DEF Succeed, Close, TypeOK
    <3> QED BY <3>1, <3>2, <3>3
  <2> QED BY <1>5, <2>1, <1>n DEF Succeed
<1>6. ASSUME NEW r \in Requests, Fail(r) PROVE MutexInv' /\ Flights
  <2>1. \A q \in Requests : pc'[q] = IF q \in {r} THEN "idle" ELSE pc[q]
    BY <1>6 DEF Fail, Rejected, Close, TypeOK
  <2> QED BY <1>6, <2>1, <1>n DEF Fail
<1>7. ASSUME NEW r \in Requests, NoRefreshToken(r) PROVE MutexInv' /\ Flights
  <2> DEFINE t == TabOf[r]
  <2>1. failedQueue[t] = {} /\ failedQueue' = failedQueue
    BY <1>7 DEF NoRefreshToken, MutexInv, QueueServed, TypeOK
  <2>2. \A q \in Requests : pc'[q] = IF q \in {r} THEN "idle" ELSE pc[q]
    BY <1>7, <2>1 DEF NoRefreshToken, Rejected, Close, TypeOK
  <2> QED BY <1>7, <2>1, <2>2, <1>n DEF NoRefreshToken, Refused
<1>8. ASSUME NEW r \in Requests, Enqueue(r) PROVE MutexInv' /\ Flights
  <2> DEFINE t == TabOf[r]
  <2>1. /\ t \in Tabs /\ isRefreshing[t] /\ pc[r] = "answered"
        /\ failedQueue' = [failedQueue EXCEPT ![t] = @ \cup {r}]
        /\ isRefreshing' = isRefreshing /\ pc' = [pc EXCEPT ![r] = "queued"]
    BY <1>8 DEF Enqueue, Refused
  <2>2. Queued(t)' = Queued(t) \cup {r} /\ r \in RequestsOf(t)
    BY <2>1 DEF Queued, RequestsOf, TypeOK
  <2>3. \A u \in Tabs \ {t} : Queued(u)' = Queued(u)
    BY <2>1 DEF Queued, RequestsOf, TypeOK
  <2>4. \A u \in Tabs : Refreshing(u)' = Refreshing(u)
    BY <2>1 DEF Refreshing, RequestsOf, TypeOK
  <2>5. /\ failedQueue'[t] = failedQueue[t] \cup {r}
        /\ \A u \in Tabs \ {t} : failedQueue'[u] = failedQueue[u]
    BY <2>1 DEF TypeOK
  <2>6. QueueKept'
    BY <2>2, <2>3, <2>5 DEF MutexInv, QueueKept
  <2>7. FlagSet' /\ OneRefreshes'
    BY <2>1, <2>4 DEF MutexInv, FlagSet, OneRefreshes
  <2>8. QueueServed'
    BY <2>1, <2>5 DEF MutexInv, QueueServed
  <2>9. Flight(t)!Join(r)
    BY <2>1, <2>2, <2>4 DEF Flight!Join, MutexInv, FlagSet, Queued, Refreshing
  <2>10. Flights
    BY <2>2, <2>3, <2>4, <2>9 DEF Flights, Flight!Next
  <2> QED BY <2>6, <2>7, <2>8, <2>10 DEF MutexInv
<1>9. ASSUME NEW r \in Requests, StartRefresh(r) PROVE MutexInv' /\ Flights
  <2> DEFINE t == TabOf[r]
  <2>1. /\ t \in Tabs /\ ~isRefreshing[t] /\ pc[r] = "answered"
        /\ isRefreshing' = [isRefreshing EXCEPT ![t] = TRUE]
        /\ failedQueue' = failedQueue /\ pc' = [pc EXCEPT ![r] = "refreshing"]
    BY <1>9 DEF StartRefresh, Refused
  <2>2. Refreshing(t) = {}
    BY <2>1 DEF MutexInv, FlagSet
  <2>3. Refreshing(t)' = {r} /\ r \in RequestsOf(t)
    BY <2>1, <2>2 DEF Refreshing, RequestsOf, TypeOK
  <2>4. \A u \in Tabs \ {t} : Refreshing(u)' = Refreshing(u)
    BY <2>1 DEF Refreshing, RequestsOf, TypeOK
  <2>5. \A u \in Tabs : Queued(u)' = Queued(u)
    BY <2>1 DEF Queued, RequestsOf, TypeOK
  <2>6. isRefreshing'[t] /\ \A u \in Tabs \ {t} : isRefreshing'[u] = isRefreshing[u]
    BY <2>1 DEF TypeOK
  <2>7. QueueKept'
    BY <2>1, <2>5 DEF MutexInv, QueueKept
  <2>8. FlagSet' /\ OneRefreshes'
    BY <2>3, <2>4, <2>6 DEF MutexInv, FlagSet, OneRefreshes
  <2>9. QueueServed'
    BY <2>1, <2>6 DEF MutexInv, QueueServed
  <2>10. Flight(t)!Lead(r)
    BY <2>2, <2>3, <2>5, <2>1 DEF Flight!Lead
  <2>11. Flights
    BY <2>3, <2>4, <2>5, <2>10 DEF Flights, Flight!Next
  <2> QED BY <2>7, <2>8, <2>9, <2>11 DEF MutexInv
<1>10. ASSUME NEW r \in Requests, FinishRefresh(r) \/ FailRefresh(r)
       PROVE  MutexInv' /\ Flights
  <2> DEFINE t == TabOf[r]
  <2>1. /\ t \in Tabs /\ r \in Refreshing(t)
        /\ failedQueue' = [failedQueue EXCEPT ![t] = {}]
        /\ isRefreshing' = [isRefreshing EXCEPT ![t] = FALSE]
    BY <1>10 DEF FinishRefresh, FailRefresh, Refreshing, RequestsOf
  <2>2. \E label \in {"sent", "idle"} : \A q \in Requests :
          pc'[q] = IF q \in {r} \cup failedQueue[t] THEN label ELSE pc[q]
    BY <1>10 DEF FinishRefresh, FailRefresh, Rejected, Close
  <2>3. failedQueue[t] = Queued(t) /\ Refreshing(t) = {r}
    BY <2>1 DEF MutexInv, QueueKept, OneRefreshes
  <2>4. PICK label \in {"sent", "idle"} : \A q \in Requests :
          pc'[q] = IF q \in {r} \cup Queued(t) THEN label ELSE pc[q]
    BY <2>2, <2>3
  <2>5. Queued(t)' = {} /\ Refreshing(t)' = {}
    <3>1. \A q \in RequestsOf(t) :
            pc'[q] \notin {"queued", "refreshing", "refreshed"}
      BY <2>3, <2>4 DEF Queued, Refreshing, RequestsOf
    <3> QED BY <3>1 DEF Queued, Refreshing, RequestsOf
  <2>6. \A u \in Tabs \ {t} : \A q \in RequestsOf(u) : pc'[q] = pc[q]
    BY <2>1, <2>4 DEF Queued, RequestsOf
  <2>7. Frees(t)
    BY <2>5, <2>6 DEF Frees, Queued, Refreshing, RequestsOf
  <2> QED BY <2>1, <2>7, FreeingStep
<1>11. ASSUME NEW t \in Tabs, Reload(t) PROVE MutexInv' /\ Flights
  <2>1. \A q \in Requests : pc'[q] = IF TabOf[q] = t THEN "idle" ELSE pc[q]
    BY <1>11 DEF Reload, Close, RequestsOf
  <2>2. Frees(t)
    BY <2>1 DEF Frees, Queued, Refreshing, RequestsOf, TypeOK
  <2> QED BY <1>11, <2>2, FreeingStep DEF Reload
<1>12. ASSUME UNCHANGED <<pc, failedQueue, isRefreshing>> PROVE MutexInv' /\ Flights
  BY <1>12, NeutralCalls, NeutralStep
<1>13. ASSUME NEW t \in Tabs, login(t) \/ logout(t) \/ handleStorageChange(t)
       PROVE  MutexInv' /\ Flights
  BY <1>13, <1>12 DEF login, logout, handleStorageChange, request
<1>14. ASSUME NEW access \in Pairs, Expire(access) PROVE MutexInv' /\ Flights
  BY <1>14, <1>12 DEF Expire, page, request
<1>15. CASE UNCHANGED vars
  BY <1>15, <1>12 DEF vars, page, request
<1> QED
  BY <1>1, <1>2, <1>3, <1>4, <1>5, <1>6, <1>7, <1>8, <1>9, <1>10, <1>11, <1>13,
     <1>14, <1>15 DEF Next, Step

\* The mutex of the page holds: one refresh at a time, the flag up while it
\* runs, and no call in the queue without it.
THEOREM Mutex == Spec => []MutexInv
<1>1. Init => MutexInv
  BY TokenRefreshAssumption DEF Init, MutexInv, QueueKept, FlagSet, OneRefreshes,
     QueueServed, Queued, Refreshing, RequestsOf
<1>2. TypeOK /\ MutexInv /\ [Next]_vars => MutexInv'
  BY MutexStep
<1> QED BY <1>1, <1>2, TypeCorrect, PTL DEF Spec

\* The interceptor implements SingleFlight in every page: FlightSpec.
THEOREM Refinement == Spec => FlightSpec
<1>1. Init => \A t \in Tabs : Flight(t)!Init
  BY TokenRefreshAssumption DEF Init, Flight!Init, Queued, Refreshing, RequestsOf
<1>2. TypeOK /\ MutexInv /\ [Next]_vars =>
        [\A t \in Tabs : [Flight(t)!Next]_<<Refreshing(t), Queued(t)>>]_vars
  BY MutexStep DEF Flights
<1> QED BY <1>1, <1>2, TypeCorrect, Mutex, PTL DEF Spec, FlightSpec

\* The calls that wait go out again with the new access token of the call that
\* refreshed, or are rejected with it: FareAlike.
THEOREM CommonFate == Spec => FareAlike
<1> DEFINE Alike(r) ==
      pc[r] = "refreshed" /\ pc'[r] # "refreshed" =>
        \A q \in Queued(TabOf[r]) :
          pc'[q] = pc'[r] /\ call'[q].bearer = call'[r].bearer
<1>1. ASSUME TypeOK, MutexInv, Next, NEW r \in Requests PROVE Alike(r)
  <2> USE <1>1, TokenRefreshAssumption
  <2> DEFINE t == TabOf[r]
  <2> SUFFICES ASSUME pc[r] = "refreshed", pc'[r] # "refreshed",
                      NEW q \in Queued(t)
               PROVE  pc'[q] = pc'[r] /\ call'[q].bearer = call'[r].bearer
    OBVIOUS
  <2>1. /\ t \in Tabs /\ q \in RequestsOf(t) /\ pc[q] = "queued"
        /\ failedQueue[t] = Queued(t) /\ r \in Refreshing(t)
        /\ q \in failedQueue[t] /\ isRefreshing[t]
    BY DEF Queued, RequestsOf, Refreshing, MutexInv, QueueKept, QueueServed
  <2>2. \A x \in Refreshing(t) : x = r
    BY <2>1 DEF MutexInv, OneRefreshes
  <2>3. ASSUME NEW x \in Requests, Api(x) \/ refreshToken(x) \/ initializeAuth(x)
        PROVE  FALSE
    BY <2>3 DEF Api, refreshToken, initializeAuth, Send, request, TypeOK
  <2>4. ASSUME NEW x \in Requests, Serve(x) \/ ServeRefresh(x) PROVE FALSE
    BY <2>4 DEF Serve, ServeRefresh, ServeToken, Answer, TypeOK
  <2>5. ASSUME NEW x \in Requests, Succeed(x) PROVE FALSE
    <3>1. pc[x] = "answered" /\ x # r
      BY <2>5 DEF Succeed
    <3>2. CASE call[x].stage = "refresh"
      BY <2>5, <3>1, <3>2 DEF Succeed, Send, TypeOK
    <3>3. CASE call[x].stage = "api"
      BY <2>5, <3>1, <3>3 DEF Succeed, Close, TypeOK
    <3>4. CASE call[x].stage \notin {"api", "refresh"}
      BY <2>5, <3>1, <3>4 DEF Succeed, Close, TypeOK
    <3> QED BY <3>2, <3>3, <3>4
  <2>6. ASSUME NEW x \in Requests, Fail(x) PROVE FALSE
    BY <2>6 DEF Fail, Rejected, Close
  <2>7. ASSUME NEW x \in Requests, Enqueue(x) \/ StartRefresh(x) PROVE FALSE
    BY <2>7 DEF Enqueue, StartRefresh, Refused, TypeOK
  <2>8. ASSUME NEW x \in Requests, NoRefreshToken(x) PROVE FALSE
    <3>1. TabOf[x] # t /\ pc[x] = "answered"
      BY <2>8, <2>1 DEF NoRefreshToken, Refused
    <3>2. failedQueue[TabOf[x]] = Queued(TabOf[x])
      BY DEF MutexInv, QueueKept
    <3>3. r \notin {x} \cup failedQueue[TabOf[x]]
      BY <3>1, <3>2 DEF Queued, RequestsOf
    <3> QED BY <2>8, <3>3 DEF NoRefreshToken, Rejected, Close
  <2>9. ASSUME NEW x \in Requests, FinishRefresh(x) \/ FailRefresh(x)
        PROVE  pc'[q] = pc'[r] /\ call'[q].bearer = call'[r].bearer
    <3>1. x \in Refreshing(TabOf[x]) /\ failedQueue[TabOf[x]] = Queued(TabOf[x])
      BY <2>9 DEF FinishRefresh, FailRefresh, Refreshing, RequestsOf, MutexInv, QueueKept
    <3>2. CASE TabOf[x] = t
      <4>1. x = r BY <3>1, <3>2, <2>2
      <4>2. CASE FinishRefresh(x)
        BY <4>1, <4>2, <2>1 DEF FinishRefresh, RequestsOf
      <4>3. CASE FailRefresh(x)
        BY <4>1, <4>3, <2>1 DEF FailRefresh, Rejected, Close, RequestsOf
      <4> QED BY <2>9, <4>2, <4>3
    <3>3. CASE TabOf[x] # t
      <4>1. r \notin {x} \cup failedQueue[TabOf[x]]
        BY <3>1, <3>3 DEF Queued, RequestsOf
      <4> QED BY <2>9, <4>1 DEF FinishRefresh, FailRefresh, Rejected, Close
    <3> QED BY <3>2, <3>3
  <2>10. ASSUME NEW u \in Tabs, Reload(u)
         PROVE  pc'[q] = pc'[r] /\ call'[q].bearer = call'[r].bearer
    <3>1. u = t BY <2>10 DEF Reload, Close, RequestsOf
    <3> QED BY <2>10, <3>1, <2>1 DEF Reload, Close, RequestsOf
  <2>11. ASSUME NEW u \in Tabs, login(u) \/ logout(u) \/ handleStorageChange(u)
         PROVE  FALSE
    BY <2>11 DEF login, logout, handleStorageChange, request
  <2>12. ASSUME NEW access \in Pairs, Expire(access) PROVE FALSE
    BY <2>12 DEF Expire, request
  <2> QED
    BY <2>3, <2>4, <2>5, <2>6, <2>7, <2>8, <2>9, <2>10, <2>11, <2>12 DEF Next, Step
<1>2. TypeOK /\ MutexInv /\ [Next]_vars => [\A r \in Requests : Alike(r)]_vars
  BY <1>1
<1> QED BY <1>2, TypeCorrect, Mutex, PTL DEF Spec, FareAlike
==============================================================================
