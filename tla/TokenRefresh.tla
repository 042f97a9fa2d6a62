----------------------------- MODULE TokenRefresh -----------------------------
(***************************************************************************)
(* How the tabs of the client portal keep a session: the interceptors of   *)
(* the axios client with the refresh mutex of a page, the AuthContext that *)
(* refreshes on a timer and when the page is shown again, and the token    *)
(* pair in localStorage that all tabs share.                               *)
(*                                                                         *)
(* A page runs one callback at a time: an action is what it does from one  *)
(* await to the next.  Pair n of tokens is the n-th the server has issued; *)
(* 0 is no token.  The server rotates refresh tokens and blacklists the    *)
(* one it was given (core/settings/auth.py).                               *)
(***************************************************************************)
EXTENDS Naturals

CONSTANTS
  Tabs, Requests,
  TabOf,      \* the tab that makes a request
  MaxToken    \* bound: pairs issued; the server answers with an error after that

ASSUME TokenRefreshAssumption ==
  /\ TabOf \in [Requests -> Tabs]
  /\ MaxToken \in Nat \ {0}

VARIABLES
  (* the server *)
  issued,      \* pairs issued
  expired,     \* access tokens that have expired
  blacklisted, \* refresh tokens that have been used
  (* localStorage *)
  stored,      \* the access and the refresh token, and whether a user is there
  (* a page *)
  user,        \* AuthContext has a user
  loading,     \* initializeAuth has not begun
  isRefreshing, failedQueue,
  removed,     \* a storage event "tokens removed" is on its way to the tab
  (* a call of the axios client *)
  pc,
  call,        \* what awaits it (stage), the tokens in its header and its body
  _retry,      \* the flag the interceptor sets
  using,       \* the refresh token that an interceptor has sent for it
  reply        \* what has come back, and the pair in it

server == <<issued, expired, blacklisted>>
page == <<user, loading, isRefreshing, failedQueue>>
request == <<pc, call, _retry, using, reply>>
vars == <<server, stored, page, removed, request>>

Pairs == 0..MaxToken

Stages == {"api", "refresh", "profile", "mount"}
Labels == {"idle", "sent", "answered", "queued", "refreshing", "refreshed"}

NoCall == [stage |-> "api", bearer |-> 0, body |-> 0]
NoReply == [answer |-> "none", pair |-> 0]
NoTokens == [access |-> 0, refresh |-> 0, user |-> FALSE]

TypeOK ==
  /\ issued \in Pairs
  /\ expired \in SUBSET Pairs /\ blacklisted \in SUBSET Pairs
  /\ stored \in [access : Pairs, refresh : Pairs, user : BOOLEAN]
  /\ user \in [Tabs -> BOOLEAN] /\ loading \in [Tabs -> BOOLEAN]
  /\ isRefreshing \in [Tabs -> BOOLEAN]
  /\ failedQueue \in [Tabs -> SUBSET Requests]
  /\ removed \in [Tabs -> BOOLEAN]
  /\ pc \in [Requests -> Labels]
  /\ call \in [Requests -> [stage : Stages, bearer : Pairs, body : Pairs]]
  /\ _retry \in [Requests -> BOOLEAN]
  /\ using \in [Requests -> Pairs]
  /\ reply \in [Requests -> [answer : {"none", "ok", "401", "error"}, pair : Pairs]]

\* A client has logged in and has opened every tab.
Init ==
  /\ issued = 1 /\ expired = {} /\ blacklisted = {}
  /\ stored = [access |-> 1, refresh |-> 1, user |-> TRUE]
  /\ user = [t \in Tabs |-> TRUE] /\ loading = [t \in Tabs |-> FALSE]
  /\ isRefreshing = [t \in Tabs |-> FALSE]
  /\ failedQueue = [t \in Tabs |-> {}]
  /\ removed = [t \in Tabs |-> FALSE]
  /\ pc = [r \in Requests |-> "idle"]
  /\ call = [r \in Requests |-> NoCall]
  /\ _retry = [r \in Requests |-> FALSE]
  /\ using = [r \in Requests |-> 0]
  /\ reply = [r \in Requests |-> NoReply]

RequestsOf(t) == {r \in Requests : TabOf[r] = t}

-----------------------------------------------------------------------------
(* localStorage                                                            *)

setTokens(access, refresh) ==
  stored' = [stored EXCEPT !.access = access, !.refresh = refresh]

KeyedClearAuth(t) ==                         \* MUTANT: the user is forgotten
  /\ stored' = [access |-> 0, refresh |-> 0]
  /\ removed' = [u \in Tabs |-> removed[u] \/ (u # t /\ stored.access # 0)]

\* Only a removal that removes something is an event, and only in other tabs.
clearAuth(t) ==
  /\ stored' = NoTokens
  /\ removed' = [u \in Tabs |-> removed[u] \/ (u # t /\ stored.access # 0)]

-----------------------------------------------------------------------------
(* The server                                                              *)

Valid(access) == access \in 1..issued /\ access \notin expired

Rotate(refresh) ==
  /\ refresh \notin blacklisted /\ issued < MaxToken
  /\ issued' = issued + 1
  /\ blacklisted' = blacklisted \cup {refresh}
  /\ UNCHANGED expired

Answer(r, label, answer, pair) ==
  /\ pc' = [pc EXCEPT ![r] = label]
  /\ reply' = [reply EXCEPT ![r] = [answer |-> answer, pair |-> pair]]
  /\ UNCHANGED <<call, _retry, using>>

\* The refresh endpoint.  The answer of a refresh that was served may be lost.
ServeToken(r, refresh, label) ==
  \/ refresh \in blacklisted /\ Answer(r, label, "401", 0) /\ UNCHANGED server
  \/ Rotate(refresh) /\ Answer(r, label, "ok", issued + 1)
  \/ Rotate(refresh) /\ Answer(r, label, "error", 0)

\* The request reaches the server, or fails for another reason than its token.
Serve(r) ==
  /\ pc[r] = "sent"
  /\ \/ call[r].stage = "refresh" /\ ServeToken(r, call[r].body, "answered")
     \/ /\ call[r].stage # "refresh"
        /\ Answer(r, "answered", IF Valid(call[r].bearer) THEN "ok" ELSE "401", 0)
        /\ UNCHANGED server
     \/ Answer(r, "answered", "error", 0) /\ UNCHANGED server
  /\ UNCHANGED <<stored, page, removed>>

\* The bare axios call of the interceptor.
ServeRefresh(r) ==
  /\ pc[r] = "refreshing"
  /\ \/ ServeToken(r, using[r], "refreshed")
     \/ Answer(r, "refreshed", "error", 0) /\ UNCHANGED server
  /\ UNCHANGED <<stored, page, removed>>

Expire(access) ==
  /\ Valid(access)
  /\ expired' = expired \cup {access}
  /\ UNCHANGED <<issued, blacklisted, stored, page, removed, request>>

-----------------------------------------------------------------------------
(* The callers                                                             *)

\* The request interceptor reads the access token when the call goes out.
Send(r, stage, access, body) ==
  /\ pc' = [pc EXCEPT ![r] = "sent"]
  /\ call' = [call EXCEPT ![r] = [stage |-> stage, bearer |-> access, body |-> body]]
  /\ _retry' = [_retry EXCEPT ![r] = FALSE]
  /\ reply' = [reply EXCEPT ![r] = NoReply]
  /\ UNCHANGED using

\* The calls in S are over.
Close(S) ==
  /\ pc' = [r \in Requests |-> IF r \in S THEN "idle" ELSE pc[r]]
  /\ call' = [r \in Requests |-> IF r \in S THEN NoCall ELSE call[r]]
  /\ _retry' = [r \in Requests |-> r \notin S /\ _retry[r]]
  /\ using' = [r \in Requests |-> IF r \in S THEN 0 ELSE using[r]]
  /\ reply' = [r \in Requests |-> IF r \in S THEN NoReply ELSE reply[r]]

Api(r) ==
  /\ pc[r] = "idle"
  /\ Send(r, "api", stored.access, 0)
  /\ UNCHANGED <<server, stored, page, removed>>

\* AuthContext, on its timer or when the page is shown.  It posts through the
\* same client, so the response interceptor handles the answer as well.
refreshToken(r) ==
  /\ user[TabOf[r]] /\ pc[r] = "idle"
  /\ stored.refresh # 0
  /\ Send(r, "refresh", stored.access, stored.refresh)
  /\ UNCHANGED <<server, stored, page, removed>>

login(t) ==
  /\ ~user[t] /\ issued < MaxToken
  /\ issued' = issued + 1
  /\ stored' = [access |-> issued + 1, refresh |-> issued + 1, user |-> TRUE]
  /\ user' = [user EXCEPT ![t] = TRUE]
  /\ UNCHANGED <<expired, blacklisted, loading, isRefreshing, failedQueue,
                 removed, request>>

\* The server is asked to blacklist the pair, but the request interceptor runs
\* after clearAuth: without a token the server refuses.
logout(t) ==
  /\ user[t]
  /\ clearAuth(t)
  /\ user' = [user EXCEPT ![t] = FALSE]
  /\ UNCHANGED <<server, loading, isRefreshing, failedQueue, request>>

handleStorageChange(t) ==
  /\ removed[t]
  /\ removed' = [removed EXCEPT ![t] = FALSE]
  /\ user' = [user EXCEPT ![t] = FALSE]
  /\ UNCHANGED <<server, stored, loading, isRefreshing, failedQueue, request>>

\* The client reloads the page: nothing in memory is left.
Reload(t) ==
  /\ user' = [user EXCEPT ![t] = FALSE]
  /\ loading' = [loading EXCEPT ![t] = TRUE]
  /\ isRefreshing' = [isRefreshing EXCEPT ![t] = FALSE]
  /\ failedQueue' = [failedQueue EXCEPT ![t] = {}]
  /\ removed' = [removed EXCEPT ![t] = FALSE]
  /\ Close(RequestsOf(t))
  /\ UNCHANGED <<server, stored>>

initializeAuth(r) ==
  /\ loading[TabOf[r]] /\ pc[r] = "idle"
  /\ loading' = [loading EXCEPT ![TabOf[r]] = FALSE]
  /\ IF stored.access # 0 /\ stored.user
       THEN Send(r, "mount", stored.access, 0) ELSE UNCHANGED request
  /\ UNCHANGED <<server, stored, user, isRefreshing, failedQueue, removed>>

-----------------------------------------------------------------------------
(* Answers                                                                 *)

\* The calls in S are rejected: a refresh logs out, the start of the page
\* clears the session, and so does the interceptor when it has failed itself.
Rejected(t, S, failed) ==
  LET stages == {call[r].stage : r \in S} IN
  /\ Close(S)
  /\ IF failed \/ stages \cap {"refresh", "mount"} # {}
       THEN clearAuth(t) ELSE UNCHANGED <<stored, removed>>
  /\ user' = [user EXCEPT ![t] = user[t] /\ "refresh" \notin stages]

Succeed(r) ==
  LET t == TabOf[r] IN
  /\ pc[r] = "answered" /\ reply[r].answer = "ok"
  /\ CASE call[r].stage = "api" -> Close({r}) /\ UNCHANGED <<stored, user>>
       [] call[r].stage = "refresh" ->
            /\ setTokens(reply[r].pair, reply[r].pair)
            /\ Send(r, "profile", reply[r].pair, 0)
            /\ UNCHANGED user
       [] OTHER ->
            /\ Close({r})
            /\ stored' = [stored EXCEPT !.user = TRUE]
            /\ user' = [user EXCEPT ![t] = TRUE]
  /\ UNCHANGED <<server, loading, isRefreshing, failedQueue, removed>>

\* An error, or a 401 of a call that was repeated, whose endpoint is public or
\* that comes back to a booking page.
Fail(r) ==
  /\ pc[r] = "answered" /\ reply[r].answer \in {"401", "error"}
  /\ Rejected(TabOf[r], {r}, FALSE)
  /\ UNCHANGED <<server, loading, isRefreshing, failedQueue>>

-----------------------------------------------------------------------------
(* The response interceptor                                                *)

Refused(r) == pc[r] = "answered" /\ reply[r].answer = "401" /\ ~_retry[r]

Enqueue(r) ==
  LET t == TabOf[r] IN
  /\ Refused(r) /\ isRefreshing[t]
  /\ failedQueue' = [failedQueue EXCEPT ![t] = @ \cup {r}]
  /\ pc' = [pc EXCEPT ![r] = "queued"]
  /\ UNCHANGED <<server, stored, user, loading, isRefreshing, removed,
                 call, _retry, using, reply>>

LateStartRefresh(r) ==                       \* MUTANT: the flag is not set
  LET t == TabOf[r] IN
  /\ Refused(r) /\ ~isRefreshing[t] /\ stored.refresh # 0
  /\ pc' = [pc EXCEPT ![r] = "refreshing"]
  /\ _retry' = [_retry EXCEPT ![r] = TRUE]
  /\ using' = [using EXCEPT ![r] = stored.refresh]
  /\ UNCHANGED <<server, stored, page, removed, call, reply>>

StartRefresh(r) ==
  LET t == TabOf[r] IN
  /\ Refused(r) /\ ~isRefreshing[t] /\ stored.refresh # 0
  /\ isRefreshing' = [isRefreshing EXCEPT ![t] = TRUE]
  /\ pc' = [pc EXCEPT ![r] = "refreshing"]
  /\ _retry' = [_retry EXCEPT ![r] = TRUE]
  /\ using' = [using EXCEPT ![r] = stored.refresh]
  /\ UNCHANGED <<server, stored, user, loading, failedQueue, removed, call, reply>>

\* Without a refresh token everything that waits is rejected at once.
NoRefreshToken(r) ==
  LET t == TabOf[r] IN
  /\ Refused(r) /\ ~isRefreshing[t] /\ stored.refresh = 0
  /\ Rejected(t, {r} \cup failedQueue[t], TRUE)
  /\ failedQueue' = [failedQueue EXCEPT ![t] = {}]
  /\ UNCHANGED <<server, loading, isRefreshing>>

\* The new access token is stored beside the refresh token that was sent; the
\* call and all that wait go out again.
FinishRefresh(r) ==
  LET t == TabOf[r]
      again == {r} \cup failedQueue[t] IN
  /\ pc[r] = "refreshed" /\ reply[r].answer = "ok"
  /\ setTokens(reply[r].pair, using[r])
  /\ pc' = [q \in Requests |-> IF q \in again THEN "sent" ELSE pc[q]]
  /\ call' = [q \in Requests |->
       IF q \in again THEN [stage |-> call[q].stage, bearer |-> reply[r].pair,
                            body |-> call[q].body]
                      ELSE call[q]]
  /\ using' = [using EXCEPT ![r] = 0]
  /\ reply' = [q \in Requests |-> IF q \in again THEN NoReply ELSE reply[q]]
  /\ failedQueue' = [failedQueue EXCEPT ![t] = {}]
  /\ isRefreshing' = [isRefreshing EXCEPT ![t] = FALSE]
  /\ UNCHANGED <<server, user, loading, removed, _retry>>

ForgetfulFailRefresh(r) ==                   \* MUTANT: the queue is not rejected
  LET t == TabOf[r] IN
  /\ pc[r] = "refreshed" /\ reply[r].answer # "ok"
  /\ Rejected(t, {r}, TRUE)
  /\ isRefreshing' = [isRefreshing EXCEPT ![t] = FALSE]
  /\ UNCHANGED <<server, loading, failedQueue>>

FailRefresh(r) ==
  LET t == TabOf[r] IN
  /\ pc[r] = "refreshed" /\ reply[r].answer # "ok"
  /\ Rejected(t, {r} \cup failedQueue[t], TRUE)
  /\ failedQueue' = [failedQueue EXCEPT ![t] = {}]
  /\ isRefreshing' = [isRefreshing EXCEPT ![t] = FALSE]
  /\ UNCHANGED <<server, loading>>

-----------------------------------------------------------------------------
\* What carries a call on once it has been sent.
Step(r) ==
  \/ Serve(r) \/ Succeed(r) \/ Fail(r)
  \/ Enqueue(r) \/ StartRefresh(r) \/ NoRefreshToken(r)
  \/ ServeRefresh(r) \/ FinishRefresh(r) \/ FailRefresh(r)

Next ==
  \/ \E r \in Requests : Api(r) \/ refreshToken(r) \/ initializeAuth(r) \/ Step(r)
  \/ \E t \in Tabs : login(t) \/ logout(t) \/ handleStorageChange(t) \/ Reload(t)
  \/ \E access \in Pairs : Expire(access)

Spec == Init /\ [][Next]_vars

\* Every call is answered, or fails, in the end, and a page runs its callbacks.
FairSpec == Spec /\ \A r \in Requests : WF_vars(Step(r))

-----------------------------------------------------------------------------
(* Properties                                                              *)

Queued(t) == {r \in RequestsOf(t) : pc[r] = "queued"}

Refreshing(t) == {r \in RequestsOf(t) : pc[r] \in {"refreshing", "refreshed"}}

Flight(t) == INSTANCE SingleFlight
  WITH Callers <- RequestsOf(t), leaders <- Refreshing(t), waiters <- Queued(t)

\* In every tab the interceptor refreshes once at a time, calls wait only while
\* it does, and none is left behind: the mutex of utils/api.ts does what the
\* comment over it says, for the interceptor.
FlightSpec ==
  /\ \A t \in Tabs : Flight(t)!Init
  /\ [][\A t \in Tabs : [Flight(t)!Next]_<<Refreshing(t), Queued(t)>>]_vars

\* Every call returns, however many 401s and refreshes lie between.
RequestsReturn == \A r \in Requests : pc[r] # "idle" ~> pc[r] = "idle"

\* The calls that wait fare as the one that refreshes for them: they go out
\* again with the same new access token or are rejected together.
FareAlike ==
  [][\A r \in Requests :
       pc[r] = "refreshed" /\ pc'[r] # "refreshed" =>
         \A q \in Queued(TabOf[r]) :
           pc'[q] = pc'[r] /\ call'[q].bearer = call'[r].bearer]_vars

\* What is stored can be used: the refresh token that goes into localStorage is
\* not one the server has taken back.  auth.api.ts:55 knows that the backend
\* rotates; the interceptor stores the token it has just used.
StoredRefreshUsable ==
  [][stored'.refresh # stored.refresh \/ stored'.access # stored.access =>
       stored'.refresh \notin blacklisted']_vars
==============================================================================
