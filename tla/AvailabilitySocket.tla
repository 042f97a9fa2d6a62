-------------------------- MODULE AvailabilitySocket --------------------------
(***************************************************************************)
(* The live updates of the calendar in the date step of a booking: the     *)
(* hook that keeps a WebSocket to the server open, and the page that takes *)
(* its selection back when the date it has selected is blocked.            *)
(*                                                                         *)
(* The callbacks of a WebSocket and of a timer keep the values of the      *)
(* render that made them, and connect is made anew by every render with    *)
(* another selectedDate or blockedDate.  React runs the effects of a       *)
(* render some time after it: other callbacks may come first.  Nothing in  *)
(* the server sends date_released, so its handler is left out.             *)
(***************************************************************************)
CONSTANTS
  Dates, None,
  Sockets      \* bound: names for the WebSockets and timers there are at a time

ASSUME AvailabilitySocketAssumption ==
  /\ None \notin Dates /\ None \notin Sockets /\ Sockets # {}

VARIABLES
  (* the page *)
  mounted,
  selectedDate,
  (* the hook *)
  blockedDate,
  wsRef,
  reconnectTimeoutRef,
  rendered,     \* the render whose effects have run
  (* a socket *)
  readyState,
  closure,      \* the selected date its handlers have been made with
  inbox         \* dates of the messages on their way to it

socket == <<readyState, closure, inbox>>
hook == <<blockedDate, wsRef, reconnectTimeoutRef, rendered>>
vars == <<mounted, selectedDate, hook, socket>>

Live == {"connecting", "open"}

\* "waiting": it is closed and its onclose has a reconnection pending.
States == Live \cup {"closing", "waiting", "gone"}

Renders == [selectedDate : Dates \cup {None}, blockedDate : Dates \cup {None}]

Render == [selectedDate |-> selectedDate, blockedDate |-> blockedDate]

TypeOK ==
  /\ mounted \in BOOLEAN
  /\ selectedDate \in Dates \cup {None} /\ blockedDate \in Dates \cup {None}
  /\ wsRef \in Sockets
  /\ reconnectTimeoutRef \in Sockets \cup {None}
  /\ rendered \in Renders
  /\ readyState \in [Sockets -> States]
  /\ closure \in [Sockets -> Dates \cup {None}]
  /\ inbox \in [Sockets -> SUBSET Dates]

\* The step is shown and its socket is open.
Init ==
  /\ mounted = TRUE
  /\ selectedDate = None /\ blockedDate = None
  /\ wsRef = CHOOSE n \in Sockets : TRUE
  /\ reconnectTimeoutRef = None
  /\ rendered = Render
  /\ readyState = [n \in Sockets |-> IF n = wsRef THEN "open" ELSE "gone"]
  /\ closure = [n \in Sockets |-> None]
  /\ inbox = [n \in Sockets |-> {}]

-----------------------------------------------------------------------------
(* The server                                                              *)

\* A settlement blocks the date and sends the message to every connection, from
\* inside its transaction: it may come again, if it has been rolled back.
Broadcast(d) ==
  /\ inbox' = [n \in Sockets |->
       IF readyState[n] = "open" THEN inbox[n] \cup {d} ELSE inbox[n]]
  /\ UNCHANGED <<mounted, selectedDate, hook, readyState, closure>>

-----------------------------------------------------------------------------
(* The hook: connecting                                                    *)

LeavingClose(rs) == rs                       \* MUTANT: the old one stays

\* close() of the socket in wsRef; its onclose comes later.
Close(rs) == [rs EXCEPT ![wsRef] = IF @ \in Live THEN "closing" ELSE @]

\* The sockets become rs: one that is gone or closing gets no message.
Become(rs) ==
  /\ readyState' = rs
  /\ inbox' = [n \in Sockets |-> IF rs[n] = "open" THEN inbox[n] ELSE {}]

\* connect of the handlers with selected date c, when wsRef is not open.
Connect(rs, c) ==
  /\ \E n \in Sockets : rs[n] = "gone"
  /\ wsRef' = CHOOSE n \in Sockets : rs[n] = "gone"
  /\ Become([Close(rs) EXCEPT ![wsRef'] = "connecting"])
  /\ closure' = [n \in Sockets |->
       IF n = wsRef' THEN c ELSE IF rs[n] = "gone" THEN None ELSE closure[n]]

\* clearTimeout of the timer in reconnectTimeoutRef, the last that was set.
Cleanup == [n \in Sockets |-> IF n = reconnectTimeoutRef THEN "gone" ELSE readyState[n]]

\* The effects of a render with a new connect: the cleanup of the last one, the
\* connection, and the blocked date is cleared unless it is selected (the page
\* clears it when it is).
Effects ==
  /\ mounted /\ rendered # Render
  /\ Connect(Cleanup, selectedDate)
  /\ reconnectTimeoutRef' = None
  /\ rendered' = Render
  /\ blockedDate' = None
  /\ UNCHANGED <<mounted, selectedDate>>

\* The consumer has added it to the group before it accepts it.
Opens(n) ==
  /\ readyState[n] = "connecting"
  /\ readyState' = [readyState EXCEPT ![n] = "open"]
  /\ UNCHANGED <<mounted, selectedDate, closure, inbox>>
  /\ UNCHANGED <<blockedDate, wsRef, reconnectTimeoutRef, rendered>>

LostForGood(n) ==                            \* MUTANT: no timer
  /\ Become([readyState EXCEPT ![n] = "gone"])
  /\ closure' = [closure EXCEPT ![n] = None]
  /\ UNCHANGED <<mounted, selectedDate, hook>>

\* onclose of a socket with another code than 1000, whoever has closed it.
Lost(n) ==
  /\ Become([readyState EXCEPT ![n] = "waiting"])
  /\ reconnectTimeoutRef' = n
  /\ UNCHANGED <<mounted, selectedDate, closure>>
  /\ UNCHANGED <<blockedDate, wsRef, rendered>>

\* onclose of a socket that connect or a cleanup has closed.  close() sends no
\* code: the code is 1000 if it was open and the server answers so, and another
\* one if it was still connecting; both are left open here.
Closes(n) ==
  /\ readyState[n] = "closing"
  /\ \/ Lost(n)
     \/ /\ Become([readyState EXCEPT ![n] = "gone"])
        /\ closure' = [closure EXCEPT ![n] = None]
        /\ UNCHANGED <<mounted, selectedDate, hook>>

\* The network or the server drops it, or refuses it.
Drops(n) ==
  /\ readyState[n] \in Live
  /\ Lost(n)

HastyTimerFires(n) ==                        \* MUTANT: whether wsRef is open or not
  /\ readyState[n] = "waiting"
  /\ Connect([readyState EXCEPT ![n] = "gone"], closure[n])
  /\ reconnectTimeoutRef' = IF reconnectTimeoutRef = n THEN None ELSE reconnectTimeoutRef
  /\ UNCHANGED <<mounted, selectedDate>>
  /\ UNCHANGED <<blockedDate, rendered>>

\* After five seconds: connect of the render that has made socket n.
TimerFires(n) ==
  /\ readyState[n] = "waiting"
  /\ LET rs == [readyState EXCEPT ![n] = "gone"] IN
     IF readyState[wsRef] = "open"
     THEN /\ Become(rs)
          /\ closure' = [closure EXCEPT ![n] = None]
          /\ UNCHANGED wsRef
     ELSE Connect(rs, closure[n])
  /\ reconnectTimeoutRef' = IF reconnectTimeoutRef = n THEN None ELSE reconnectTimeoutRef
  /\ UNCHANGED <<mounted, selectedDate>>
  /\ UNCHANGED <<blockedDate, rendered>>

-----------------------------------------------------------------------------
(* The page                                                                *)

Select(d) ==
  /\ mounted /\ d # selectedDate
  /\ selectedDate' = d
  /\ UNCHANGED <<mounted, hook, socket>>

WholeDeliver(n, d) ==                        \* MUTANT: the message for its date
  /\ readyState[n] = "open" /\ d \in inbox[n]
  /\ inbox' = [inbox EXCEPT ![n] = @ \ {d}]
  /\ IF mounted /\ closure[n] = d
     THEN selectedDate' = None /\ blockedDate' = [date |-> d]
     ELSE UNCHANGED <<selectedDate, blockedDate>>
  /\ UNCHANGED <<mounted, wsRef, reconnectTimeoutRef, rendered, readyState, closure>>

\* onmessage, with the selection as it was when the socket was made.
Deliver(n, d) ==
  /\ readyState[n] = "open" /\ d \in inbox[n]
  /\ inbox' = [inbox EXCEPT ![n] = @ \ {d}]
  /\ IF mounted /\ closure[n] = d
     THEN selectedDate' = None /\ blockedDate' = d
     ELSE UNCHANGED <<selectedDate, blockedDate>>
  /\ UNCHANGED <<mounted, wsRef, reconnectTimeoutRef, rendered, readyState, closure>>

\* The client goes to another step: the cleanup of the last effects, and the
\* state of the page is gone.
Leave ==
  /\ mounted /\ mounted' = FALSE
  /\ Become(Close(Cleanup))
  /\ closure' = [n \in Sockets |-> IF n = reconnectTimeoutRef THEN None ELSE closure[n]]
  /\ reconnectTimeoutRef' = None
  /\ selectedDate' = None /\ blockedDate' = None
  /\ rendered' = [selectedDate |-> None, blockedDate |-> None]
  /\ UNCHANGED wsRef

-----------------------------------------------------------------------------
Next ==
  \/ \E d \in Dates : Broadcast(d) \/ Select(d)
  \/ \E n \in Sockets :
       \/ Opens(n) \/ Closes(n) \/ Drops(n) \/ TimerFires(n)
       \/ \E d \in Dates : Deliver(n, d)
  \/ Effects \/ Leave

Spec == Init /\ [][Next]_vars

\* A page runs its effects, callbacks and timers, and a socket that is closed
\* closes; of the connections that begin again and again one is open before the
\* next timer of five seconds fires.
FairSpec ==
  /\ Spec
  /\ WF_vars(Effects)
  /\ \A n \in Sockets :
       /\ WF_vars(Closes(n)) /\ WF_vars(TimerFires(n))
       /\ \A d \in Dates : WF_vars(Deliver(n, d))
  /\ SF_vars(\E n \in Sockets : Opens(n))

-----------------------------------------------------------------------------
(* Properties                                                              *)

\* However renders, closes and stale timers fall, the hook never leaves a
\* connection behind: every socket but the last is closed or closing.
OneLive == \A n \in Sockets : readyState[n] \in Live => n = wsRef

\* While the step is shown the hook has a connection, or the timer that gets it
\* one: no cleanup, close or timer of an older render takes the last of both away.
NeverStranded == mounted => readyState[wsRef] \in Live \cup {"waiting"}

Open == readyState[wsRef] = "open"

\* A page that has lost its connection, or has closed it itself, gets one again.
Reconnects == mounted /\ ~Open ~> Open \/ ~mounted

Disturbed ==
  \/ \E d \in Dates : Select(d) \/ Broadcast(d)
  \/ \E n \in Sockets : Drops(n)

\* Once nothing disturbs it any more the hook comes to rest on an open
\* connection: the timers that every close leaves do not undo one another's
\* connections for ever.
Calms ==
  \/ []<><<Disturbed>>_vars
  \/ <>[](mounted => Open /\ \A n \in Sockets : readyState[n] # "waiting")
=============================================================================
