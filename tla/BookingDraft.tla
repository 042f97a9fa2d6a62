----------------------------- MODULE BookingDraft -----------------------------
(***************************************************************************)
(* One booking in the client portal: the page with its BookingContext, the *)
(* record it keeps in localStorage, and the session row of the server that *)
(* the page updates in the background and when it moves between steps.     *)
(*                                                                         *)
(* A page runs one callback at a time: an action is what it does from one  *)
(* await to the next.  The server takes no lock: each request reads the    *)
(* row, works on this copy and saves every column of it, so requests that  *)
(* are under way together overwrite each other.  Nothing is assumed of     *)
(* their order, of the network, or of the patience of the client.          *)
(*                                                                         *)
(* What the client enters at a step is the number of the edit; 0 is        *)
(* nothing.  The last step is the confirmation.  apart and behind are      *)
(* history variables: no action reads them.                                *)
(***************************************************************************)
EXTENDS Naturals, FiniteSets

CONSTANTS
  LastStep,
  MaxEdit,     \* bound: edits
  MaxRequests  \* bound: requests under way together

ASSUME BookingDraftAssumption ==
  /\ LastStep \in Nat \ {0}
  /\ MaxEdit \in Nat
  /\ MaxRequests \in Nat

VARIABLES
  (* the session row *)
  current_step,
  booking_data,
  is_completed,
  completed_steps,  \* rows of their own; TRUE: there are some, progress is not 0
  (* localStorage *)
  saved,       \* the step in the record; 0: no record, or one without progress
  (* the page *)
  page,
  url,         \* session_id is in the URL
  step, held, progress,  \* currentSession
  timer,       \* the debounced update is due
  edits,
  (* the requests *)
  call,        \* nextStep or previousStep, during which the page is blocked
  background,  \* debounced updates
  completion,  \* complete_booking
  confirmed,   \* what the page held when it was called
  (* history *)
  apart,       \* the page may show another step than the server is on
  behind       \* the server may have taken back what it had of some step

row == <<current_step, booking_data, is_completed>>
server == <<row, completed_steps>>
session == <<step, held, progress>>
client == <<page, url, session, timer, edits>>
confirmation == <<completion, confirmed>>
history == <<apart, behind>>
vars == <<server, saved, client, call, background, confirmation, history>>

Steps == 1..LastStep
Data == [Steps -> 0..MaxEdit]
NoData == [s \in Steps |-> 0]

\* The columns of the row, as a request has read them.
Rows == [data : Data, step : Steps, done : BOOLEAN]
NoCopy == [data |-> NoData, step |-> 1, done |-> FALSE]
Row == [data |-> booking_data, step |-> current_step, done |-> is_completed]

\* Requests; live: the page that sent it is there.
Calls == [at : {"none", "sent", "read", "saved", "served"}, kind : {"next", "back"},
          live : BOOLEAN, data : Data, step : Steps, copy : Rows,
          ok : BOOLEAN, progress : BOOLEAN]
Updates == [at : {"sent", "read", "served"}, live : BOOLEAN, data : Data, copy : Rows]
Completions == [at : {"none", "sent", "read", "accepted", "refused"},
                live : BOOLEAN, copy : Rows]

Call(at, kind, data, s) ==
  [at |-> at, kind |-> kind, live |-> TRUE, data |-> data, step |-> s, copy |-> NoCopy,
   ok |-> FALSE, progress |-> FALSE]

NoCall == Call("none", "next", NoData, 1)

Completion(at) == [at |-> at, live |-> TRUE, copy |-> NoCopy]

TypeOK ==
  /\ current_step \in Steps
  /\ booking_data \in Data
  /\ is_completed \in BOOLEAN /\ completed_steps \in BOOLEAN
  /\ saved \in 0..LastStep
  /\ page \in {"open", "closed", "offer", "loading"} /\ url \in BOOLEAN
  /\ step \in Steps /\ held \in Data /\ progress \in BOOLEAN
  /\ timer \in BOOLEAN /\ edits \in 0..MaxEdit
  /\ call \in Calls
  /\ background \in SUBSET Updates
  /\ completion \in Completions
  /\ confirmed \in Data
  /\ apart \in BOOLEAN /\ behind \in BOOLEAN

\* startSession has just answered; the record it has saved shows no progress.
Init ==
  /\ current_step = 1 /\ booking_data = NoData
  /\ is_completed = FALSE /\ completed_steps = FALSE
  /\ saved = 0
  /\ page = "open" /\ url = FALSE
  /\ step = 1 /\ held = NoData /\ progress = FALSE
  /\ timer = FALSE /\ edits = 0
  /\ call = NoCall
  /\ background = {}
  /\ completion = Completion("none") /\ confirmed = NoData
  /\ apart = FALSE /\ behind = FALSE

Idle == page = "open" /\ call.at = "none"

\* The requests of which the page does not know the end yet, and those that an
\* earlier page has left.
UnderWay ==
  Cardinality(background) + (IF call.at = "none" THEN 0 ELSE 1)
                          + (IF completion.at = "none" THEN 0 ELSE 1)

-----------------------------------------------------------------------------
(* The server                                                              *)

\* session.save(): every column of the copy.
Write(r) ==
  /\ current_step' = r.step
  /\ booking_data' = r.data
  /\ is_completed' = r.done

\* The data of some step become older than they were.
TakesBack(r) == \E s \in Steps : r.data[s] < booking_data[s]

\* A save that the page does not learn of may move the row to another step.
SaveUnheard(r) ==
  /\ Write(r)
  /\ apart' = (apart \/ r.step # current_step)
  /\ behind' = (behind \/ TakesBack(r))

\* A key that the request lacks keeps its value.  (The code files most keys under the
\* step of the copy; the model keeps, of each, what was merged last.)
Merged(old, data) == [s \in Steps |-> IF data[s] = 0 THEN old[s] ELSE data[s]]

\* get_session_by_id of update_session_data or go_to_step.
ReadCall ==
  /\ call.at = "sent"
  /\ call' = [call EXCEPT !.at = "read", !.copy = Row]
  /\ UNCHANGED <<server, saved, client, background, confirmation, history>>

\* The answer to a call; nobody waits for it on a page that is gone.
Answer(s) ==
  call' = IF call.live THEN [call EXCEPT !.at = "served", !.step = s, !.copy = NoCopy,
                               !.ok = TRUE, !.progress = completed_steps]
                       ELSE NoCall

Refuse == call' = IF call.live THEN Call("served", call.kind, NoData, 1) ELSE NoCall

\* update_session_data of a session that was completed changes nothing ...
IgnoreNext ==
  /\ call.at = "read" /\ call.kind = "next"
  /\ call.copy.done
  /\ Answer(call.copy.step)
  /\ apart' = (call.copy.step # current_step)
  /\ behind' = TRUE
  /\ UNCHANGED <<server, saved, client, background, confirmation>>

AdvancingRejectNext ==   \* MUTANT: data that do not validate are left out, no more
  /\ call.at = "read" /\ call.kind = "next" /\ ~call.copy.done
  /\ call.copy.step < LastStep
  /\ Write([call.copy EXCEPT !.step = @ + 1])
  /\ Answer(call.copy.step + 1)
  /\ apart' = FALSE /\ behind' = (behind \/ TakesBack(call.copy))
  /\ UNCHANGED <<completed_steps, saved, client, background, confirmation>>

\* ... data that do not validate are left out of the save, and the page gets the
\* errors ...
RejectNext ==
  /\ call.at = "read" /\ call.kind = "next"
  /\ ~call.copy.done
  /\ SaveUnheard(call.copy)
  /\ Refuse
  /\ UNCHANGED <<completed_steps, saved, client, background, confirmation>>

AdvancesWithoutData(r, data) ==   \* MUTANT: mark_completed works on the row as it was
  IF r.step = LastStep THEN {[r EXCEPT !.done = TRUE]}
  ELSE {[r EXCEPT !.step = s] : s \in r.step + 1 .. LastStep}

\* ... and mark_completed takes the copy to the next step that is visible; the
\* session is complete when there is none.
Advances(r, data) ==
  LET new == Merged(r.data, data)
  IN IF r.step = LastStep
     THEN {[data |-> new, step |-> r.step, done |-> TRUE]}
     ELSE {[data |-> new, step |-> s, done |-> FALSE] : s \in r.step + 1 .. LastStep}

SaveNext ==
  /\ call.at = "read" /\ call.kind = "next"
  /\ ~call.copy.done
  /\ \E r \in Advances(call.copy, call.data) : Write(r)
  /\ completed_steps' = TRUE
  /\ call' = IF call.live THEN [call EXCEPT !.at = "saved", !.copy = NoCopy] ELSE NoCall
  /\ behind' = FALSE
  /\ UNCHANGED <<saved, client, background, confirmation, apart>>

\* The answer is made from the row, which is read again.
AnswerNext ==
  /\ call.at = "saved"
  /\ Answer(current_step)
  /\ apart' = FALSE
  /\ UNCHANGED <<server, saved, client, background, confirmation, behind>>

\* go_to_step looks at nothing but the step it is given.
SaveBack ==
  /\ call.at = "read" /\ call.kind = "back"
  /\ LET r == [call.copy EXCEPT !.step = call.step]
     IN Write(r) /\ behind' = (behind \/ TakesBack(r))
  /\ Answer(call.step)
  /\ apart' = FALSE
  /\ UNCHANGED <<completed_steps, saved, client, background, confirmation>>

ReadBackground(b) ==
  /\ b.at = "sent"
  /\ background' = (background \ {b}) \cup {[b EXCEPT !.at = "read", !.copy = Row]}
  /\ UNCHANGED <<server, saved, client, call, confirmation, history>>

\* update_session_data without mark_completed: the same three cases.
SaveBackground(b) ==
  /\ b.at = "read"
  /\ \/ b.copy.done /\ UNCHANGED <<row, history>>
     \/ ~b.copy.done /\ SaveUnheard(b.copy)
     \/ ~b.copy.done /\ SaveUnheard([b.copy EXCEPT !.data = Merged(b.copy.data, b.data)])
  /\ background' = (background \ {b}) \cup
       (IF b.live THEN {[b EXCEPT !.at = "served", !.copy = NoCopy]} ELSE {})
  /\ UNCHANGED <<completed_steps, saved, client, call, confirmation>>

\* complete_booking, which module BookingCompletion has in detail.
ReadCompletion ==
  /\ completion.at = "sent"
  /\ completion' = [completion EXCEPT !.at = "read", !.copy = Row]
  /\ UNCHANGED <<server, saved, client, call, background, confirmed, history>>

Completed(at) == completion' = Completion(IF completion.live THEN at ELSE "none")

SaveCompletion ==
  /\ completion.at = "read"
  /\ \/ completion.copy.done /\ Completed("accepted") /\ UNCHANGED <<row, history>>
     \/ ~completion.copy.done /\ Completed("refused") /\ UNCHANGED <<row, history>>
     \/ /\ ~completion.copy.done /\ Completed("accepted")
        /\ SaveUnheard([completion.copy EXCEPT !.done = TRUE])
  /\ UNCHANGED <<completed_steps, saved, client, call, background, confirmed>>

\* A request does not arrive, or fails, or its answer is lost or brings the errors
\* of an update that ran meanwhile: the page takes the call for failed.
LoseCall ==
  /\ call.at # "none"
  /\ Refuse
  /\ apart' = (apart \/ call.at = "saved" \/ (call.at = "served" /\ call.ok))
  /\ UNCHANGED <<server, saved, client, background, confirmation, behind>>

LoseBackground(b) ==
  /\ background' = background \ {b}
  /\ UNCHANGED <<server, saved, client, call, confirmation, history>>

LoseCompletion ==
  /\ completion.at \in {"sent", "read", "accepted"}
  /\ Completed("refused")
  /\ UNCHANGED <<server, saved, client, call, background, confirmed, history>>

-----------------------------------------------------------------------------
(* The page: editing                                                       *)

\* updateStepData: the debounced update starts anew.
Edit ==
  /\ Idle /\ step # LastStep
  /\ edits < MaxEdit
  /\ edits' = edits + 1
  /\ held' = [held EXCEPT ![step] = edits + 1]
  /\ timer' = TRUE
  /\ UNCHANGED <<server, saved, page, url, step, progress, call, background, confirmation,
                 history>>

\* What the debounced function does before its await.  Two updates with the same
\* data are told apart once the first has been read.
Flush ==
  /\ UnderWay < MaxRequests
  /\ background' = background \cup {[at |-> "sent", live |-> TRUE, data |-> held,
                                     copy |-> NoCopy]}
  /\ timer' = FALSE

FireKeepingRecord ==   \* MUTANT: the record keeps the step that the page shows
  /\ page = "open" /\ timer
  /\ Flush
  /\ saved' = step
  /\ UNCHANGED <<server, page, url, session, edits, call, confirmation, history>>

\* The record it saves has no progress, whatever record it replaces.
Fire ==
  /\ page = "open" /\ timer
  /\ Flush
  /\ saved' = 0
  /\ UNCHANGED <<server, page, url, session, edits, call, confirmation, history>>

\* After the await: the same record again, with pending_sync off.
BackgroundAnswered(b) ==
  /\ b.at = "served"
  /\ background' = background \ {b}
  /\ saved' = 0
  /\ UNCHANGED <<server, client, call, confirmation, history>>

-----------------------------------------------------------------------------
(* The page: moving between steps                                          *)

EagerNextStep ==   \* MUTANT: the safeguard is gone
  /\ Idle
  /\ timer' = FALSE
  /\ call' = Call("sent", "next", held, step)
  /\ UNCHANGED <<server, saved, page, url, session, edits, background, confirmation,
                 history>>

\* nextStep cancels the debounced update, not one under way: it sends the data
\* itself.
NextStep ==
  /\ Idle /\ step # LastStep
  /\ UnderWay < MaxRequests
  /\ timer' = FALSE
  /\ call' = Call("sent", "next", held, step)
  /\ UNCHANGED <<server, saved, page, url, session, edits, background, confirmation,
                 history>>

BoundlessPreviousStep ==   \* MUTANT: there is a step before the first
  /\ Idle
  /\ call' = Call("sent", "back", held, step - 1)
  /\ UNCHANGED <<server, saved, client, background, confirmation, history>>

\* previousStep neither sends what has been entered nor cancels its update.
PreviousStep ==
  /\ Idle /\ step > 1
  /\ UnderWay < MaxRequests
  /\ call' = Call("sent", "back", held, step - 1)
  /\ UNCHANGED <<server, saved, client, background, confirmation, history>>

DeafMoved ==   \* MUTANT: nextStep counts its steps itself
  /\ page = "open" /\ call.at = "served" /\ call.ok
  /\ step' = IF call.kind = "next" /\ step < LastStep THEN step + 1 ELSE call.step
  /\ held' = call.data
  /\ progress' = call.progress
  /\ saved' = IF call.progress THEN call.step ELSE 0
  /\ call' = NoCall
  /\ UNCHANGED <<server, page, url, timer, edits, background, confirmation, history>>

\* The page goes where the answer says, with the data it had when it asked, and
\* saves the whole session.
Moved ==
  /\ page = "open" /\ call.at = "served" /\ call.ok
  /\ step' = call.step
  /\ held' = call.data
  /\ progress' = call.progress
  /\ saved' = IF call.progress THEN call.step ELSE 0
  /\ call' = NoCall
  /\ UNCHANGED <<server, page, url, timer, edits, background, confirmation, history>>

StuckNotMoved ==   \* MUTANT: isSubmitting is not reset on an error
  /\ page = "open" /\ call.at = "served" /\ ~call.ok
  /\ UNCHANGED vars

\* Validation errors, or an error: the page stays where it is.
NotMoved ==
  /\ page = "open" /\ call.at = "served" /\ ~call.ok
  /\ call' = NoCall
  /\ UNCHANGED <<server, saved, client, background, confirmation, history>>

-----------------------------------------------------------------------------
(* The page: completing                                                    *)

\* handleCompleteBooking first notes the status as an edit.  It does not block
\* the page.  (bound: one complete_booking under way at a time)
Confirm ==
  /\ Idle /\ step = LastStep
  /\ completion.at = "none"
  /\ UnderWay < MaxRequests
  /\ completion' = Completion("sent") /\ confirmed' = held
  /\ timer' = TRUE
  /\ UNCHANGED <<server, saved, page, url, session, edits, call, background, history>>

\* The page waits for the answer to complete_booking.
Awaited == completion.live /\ completion.at # "none"

\* The record goes.  The status is noted again, in the session as it was when
\* the client confirmed, wherever the client has gone meanwhile.
CompletionAnswered ==
  /\ page = "open"
  /\ completion.at \in {"accepted", "refused"}
  /\ saved' = IF completion.at = "accepted" THEN 0 ELSE saved
  /\ completion' = Completion("none") /\ confirmed' = NoData
  /\ step' = LastStep /\ held' = confirmed
  /\ timer' = TRUE
  /\ apart' = (apart \/ step # LastStep)
  /\ UNCHANGED <<server, page, url, progress, edits, call, background, behind>>

-----------------------------------------------------------------------------
(* The page: leaving it and coming back                                    *)

\* saveSessionOnLeave: when the page is hidden, and when it is unloaded.
SaveOnLeave ==
  /\ page = "open"
  /\ IF timer THEN Flush ELSE UNCHANGED <<timer, background>>
  /\ saved' = IF progress THEN step ELSE IF timer THEN 0 ELSE saved
  /\ UNCHANGED <<server, page, url, session, edits, call, confirmation, history>>

\* The state of the page is gone, and nobody waits any more for what it has sent.
Abandon ==
  /\ step' = 1 /\ held' = NoData /\ progress' = FALSE
  /\ timer' = FALSE /\ confirmed' = NoData
  /\ call' = IF call.at \in {"none", "served"} THEN NoCall
             ELSE [call EXCEPT !.live = FALSE]
  /\ completion' = IF completion.at \in {"sent", "read"}
                   THEN [completion EXCEPT !.live = FALSE]
                   ELSE Completion("none")
  /\ background' = {[b EXCEPT !.live = FALSE] :
                     b \in {c \in background : c.at # "served"}}

\* The page is closed, or crashes without its handlers.
Close ==
  /\ page \in {"open", "loading"}
  /\ page' = "closed"
  /\ Abandon
  /\ UNCHANGED <<server, saved, url, edits, history>>

\* resetBooking: the client leaves the booking for the start page.
Exit ==
  /\ Idle /\ ~Awaited
  /\ page' = "closed" /\ url' = FALSE
  /\ saved' = 0
  /\ Abandon
  /\ UNCHANGED <<server, edits, history>>

\* discoverRecoverableSession removes a record without progress and one of the
\* confirmation; it offers to resume any other.
Discover ==
  /\ page = "closed" /\ ~url
  /\ saved # 0
  /\ IF saved = LastStep THEN saved' = 0 /\ UNCHANGED page
     ELSE page' = "offer" /\ UNCHANGED saved
  /\ UNCHANGED <<server, url, session, timer, edits, call, background, confirmation,
                 history>>

\* handleRestoreSession, or a page with session_id in its URL: the server answers
\* with the session, without the booking data.  (bound: the move that an earlier
\* page asked for has been served; its updates and its completion need not be)
Resume ==
  /\ page = "offer" \/ (page = "closed" /\ url)
  /\ call.at = "none"
  /\ page' = "loading" /\ url' = TRUE
  /\ step' = current_step /\ held' = NoData /\ progress' = completed_steps
  /\ apart' = FALSE /\ behind' = FALSE
  /\ UNCHANGED <<server, saved, timer, edits, call, background, confirmation>>

\* ... and the page shows it.
Resumed ==
  /\ page = "loading"
  /\ page' = "open"
  /\ UNCHANGED <<server, saved, url, session, timer, edits, call, background,
                 confirmation, history>>

Discard ==
  /\ page = "offer"
  /\ page' = "closed"
  /\ saved' = 0
  /\ UNCHANGED <<server, url, session, timer, edits, call, background, confirmation,
                 history>>

-----------------------------------------------------------------------------
ServeCall ==
  ReadCall \/ IgnoreNext \/ RejectNext \/ SaveNext \/ AnswerNext \/ SaveBack \/ LoseCall

Serve ==
  \/ ServeCall
  \/ ReadCompletion \/ SaveCompletion \/ LoseCompletion
  \/ \E b \in background : ReadBackground(b) \/ SaveBackground(b) \/ LoseBackground(b)

Page ==
  \/ Edit \/ Fire \/ NextStep \/ PreviousStep \/ Moved \/ NotMoved
  \/ Confirm \/ CompletionAnswered
  \/ SaveOnLeave \/ Close \/ Exit \/ Discover \/ Resume \/ Resumed \/ Discard
  \/ \E b \in background : BackgroundAnswered(b)

Next == Serve \/ Page

Spec == Init /\ [][Next]_vars

\* The network delivers a request or gives up on it; a page runs its callbacks.
Fairness == WF_vars(ServeCall) /\ WF_vars(Moved \/ NotMoved)

FairSpec == Spec /\ Fairness

-----------------------------------------------------------------------------
(* Properties                                                              *)

\* A page at rest shows the step that the server is on, whatever was lost, left or
\* reloaded, until a save from an outdated copy, a lost answer or the late answer
\* to a completion parts them; the next answered move, or a reload, heals that.
InStep == Idle /\ ~apart => step = current_step

\* What the client has entered at the steps before the one shown is on the server,
\* that or something newer, even if every background update of it was lost or did
\* not validate.  Only a save from an outdated copy takes it back, and the next
\* successful Next sends it again.
PassedStepsSaved ==
  Idle /\ ~behind => \A s \in 1 .. step - 1 : booking_data[s] >= held[s]

\* Next never completes the booking, which only the confirmation may do
\* (useNavigationActions.ts:33), unless the server had come to the last step
\* behind the back of the page.
NextNeverCompletes ==
  [][call.at = "read" /\ call.kind = "next" /\ call'.at # "read" /\ ~is_completed
       /\ is_completed' => apart]_vars

\* A booking is completed with the data of the steps that the client has confirmed,
\* or newer ones, unless the completion itself saves, or follows, an outdated copy.
BookedAsConfirmed ==
  [][completion.at = "read" /\ completion.live /\ completion'.at = "accepted"
       /\ ~completion.copy.done
       => behind' \/ \A s \in 1 .. LastStep - 1 : booking_data'[s] >= confirmed[s]]_vars

\* A client is never asked to resume a booking of which no step is complete.
OfferMeaningful == page = "offer" => completed_steps /\ saved \in 1 .. LastStep - 1

\* A page that is blocked by a move is released, unless it is left.
PageReleased == call.at # "none" ~> call.at = "none"
=============================================================================
