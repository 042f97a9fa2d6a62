------------------------- MODULE BookingDraft_proofs -------------------------
(* Proofs about BookingDraft, for any number of steps, edits and requests.   *)
EXTENDS BookingDraft, TLAPS

LEMMA Nothing ==
  /\ 1 \in Steps /\ NoData \in Data /\ NoCopy \in Rows /\ NoCall \in Calls
  /\ NoCall.at = "none" /\ NoCall.live /\ ~NoCall.ok /\ ~NoCall.progress
  /\ NoCall.data = NoData
<1>1. 1 \in Steps /\ NoData \in Data
  BY BookingDraftAssumption DEF NoData, Data, Steps
<1>2. NoCopy \in Rows
  BY <1>1 DEF NoCopy, Rows
<1> QED BY <1>1, <1>2 DEF NoCall, Call, Calls

\* A request as it is sent, and one that is answered or refused.
LEMMA Calling ==
  ASSUME NEW at \in {"sent", "served"}, NEW kind \in {"next", "back"}, NEW d \in Data,
         NEW s \in Steps
  PROVE  LET c == Call(at, kind, d, s)
         IN /\ c \in Calls /\ c.at = at /\ c.kind = kind /\ c.live /\ c.data = d
            /\ c.step = s /\ ~c.ok /\ ~c.progress
BY Nothing DEF Call, Calls

LEMMA Answering ==
  ASSUME TypeOK, NEW s \in Steps, Answer(s)
  PROVE  /\ call' \in Calls
         /\ ~call.live => call' = NoCall
         /\ call.live => /\ call'.at = "served" /\ call'.live /\ call'.ok
                         /\ call'.kind = call.kind /\ call'.data = call.data
                         /\ call'.step = s /\ call'.progress = completed_steps
BY Nothing DEF Answer, TypeOK, Calls

LEMMA Refusing ==
  ASSUME TypeOK, Refuse
  PROVE  /\ call' \in Calls
         /\ ~call.live => call' = NoCall
         /\ call.live => /\ call'.at = "served" /\ call'.live /\ ~call'.ok
                         /\ call'.data = NoData /\ ~call'.progress
<1>1. call.kind \in {"next", "back"}
  BY DEF TypeOK, Calls
<1> QED BY <1>1, Nothing, Calling DEF Refuse

\* What leaving the page makes of the requests.
LEMMA Leaving ==
  ASSUME TypeOK, Abandon
  PROVE  /\ call' \in Calls
         /\ call.at \in {"none", "served"} => call' = NoCall
         /\ call.at \notin {"none", "served"} =>
              /\ call'.at = call.at /\ ~call'.live /\ call'.kind = call.kind
              /\ call'.data = call.data /\ call'.step = call.step /\ call'.ok = call.ok
              /\ call'.copy = call.copy /\ call'.progress = call.progress
         /\ background' \in SUBSET Updates
         /\ \A b \in background' : b.at # "served" /\ ~b.live
         /\ completion' \in Completions
<1>1. completion' \in Completions
  BY Nothing DEF Abandon, Completion, Completions, TypeOK
<1>2. \A b \in Updates : b.at # "served" =>
        LET c == [b EXCEPT !.live = FALSE] IN c \in Updates /\ c.at # "served" /\ ~c.live
  BY DEF Updates
<1>3. background' \in SUBSET Updates /\ \A b \in background' : b.at # "served" /\ ~b.live
  BY <1>2 DEF Abandon, TypeOK
<1> QED BY <1>1, <1>3, Nothing DEF Abandon, Calls, TypeOK

LEMMA Merging ==
  ASSUME NEW old \in Data, NEW data \in Data
  PROVE  /\ Merged(old, data) \in Data
         /\ \A s \in Steps : data[s] # 0 => Merged(old, data)[s] = data[s]
BY DEF Merged, Data

\* What mark_completed makes of a copy of the row.
LEMMA Advancing ==
  ASSUME NEW r \in Rows, NEW data \in Data, NEW n \in Advances(r, data)
  PROVE  /\ n \in Rows /\ n.data = Merged(r.data, data)
         /\ n.done => r.step = LastStep
<1>1. r.data \in Data /\ r.step \in Steps
  BY DEF Rows
<1>2. Merged(r.data, data) \in Data
  BY <1>1, Merging
<1>3. \A s \in r.step + 1 .. LastStep : s \in Steps
  BY <1>1, BookingDraftAssumption DEF Steps
<1> DEFINE Of(s, done) == [data |-> Merged(r.data, data), step |-> s, done |-> done]
<1>4. \A s \in Steps, done \in BOOLEAN :
        Of(s, done) \in Rows /\ Of(s, done).data = Merged(r.data, data)
        /\ Of(s, done).done = done
  BY <1>2 DEF Rows
<1>5. CASE r.step = LastStep
  <2>1. n = Of(r.step, TRUE)
    BY <1>5 DEF Advances
  <2> QED BY <1>1, <1>4, <1>5, <2>1
<1>6. CASE r.step # LastStep
  <2>1. PICK s \in r.step + 1 .. LastStep : n = Of(s, FALSE)
    BY <1>6 DEF Advances
  <2> QED BY <1>3, <1>4, <2>1
<1> QED BY <1>5, <1>6

\* The copy of a row with another step, with data merged in, or completed.
LEMMA Copying ==
  ASSUME NEW r \in Rows, NEW s \in Steps, NEW data \in Data
  PROVE  /\ r.step \in Steps /\ r.data \in Data /\ r.done \in BOOLEAN
         /\ LET b == [r EXCEPT !.step = s]
            IN b \in Rows /\ b.step = s /\ b.data = r.data /\ b.done = r.done
         /\ LET b == [r EXCEPT !.data = Merged(r.data, data)]
            IN b \in Rows /\ b.step = r.step /\ b.done = r.done
         /\ LET b == [r EXCEPT !.done = TRUE]
            IN b \in Rows /\ b.step = r.step /\ b.data = r.data /\ b.done
<1>1. r.step \in Steps /\ r.data \in Data /\ r.done \in BOOLEAN
  BY DEF Rows
<1>2. Merged(r.data, data) \in Data
  BY <1>1, Merging
<1> QED BY <1>1, <1>2 DEF Rows

\* The values of the variables are of their types: every request works on a row
\* that the session may have, and what an answer carries the page can show.
THEOREM TypeCorrect == Spec => []TypeOK
<1> USE BookingDraftAssumption
<1>1. Init => TypeOK
  <2> SUFFICES ASSUME Init PROVE TypeOK
    OBVIOUS
  <2>1. 0 \in 0..LastStep /\ 0 \in 0..MaxEdit /\ Completion("none") \in Completions
    BY Nothing DEF Completion, Completions
  <2> QED BY <2>1, Nothing DEF Init, TypeOK
<1>2. TypeOK /\ [Next]_vars => TypeOK'
  <2> SUFFICES ASSUME TypeOK, [Next]_vars PROVE TypeOK'
    OBVIOUS
  <2> USE Nothing DEF server, row, client, session, confirmation, history
  <2>t. /\ Row \in Rows /\ call.copy \in Rows /\ completion.copy \in Rows
        /\ call.data \in Data /\ call.step \in Steps /\ call.kind \in {"next", "back"}
        /\ call.progress \in BOOLEAN
        /\ \A b \in background : b.copy \in Rows /\ b.data \in Data
    BY DEF TypeOK, Row, Rows, Calls, Completions, Updates
  <2>w. ASSUME NEW r \in Rows, Write(r)
        PROVE  current_step' \in Steps /\ booking_data' \in Data /\ is_completed' \in BOOLEAN
    BY <2>w DEF Write, Rows
  <2>u. ASSUME NEW r \in Rows, SaveUnheard(r)
        PROVE  /\ current_step' \in Steps /\ booking_data' \in Data
               /\ is_completed' \in BOOLEAN /\ apart' \in BOOLEAN /\ behind' \in BOOLEAN
    BY <2>u, <2>w DEF SaveUnheard, TypeOK, TakesBack
  <2>f. ASSUME Flush PROVE background' \in SUBSET Updates /\ timer' = FALSE
    <3>1. [at |-> "sent", live |-> TRUE, data |-> held, copy |-> NoCopy] \in Updates
      BY DEF TypeOK, Updates
    <3>2. timer' = FALSE /\ background \in SUBSET Updates
      BY <2>f DEF Flush, TypeOK
    <3> QED BY <2>f, <3>1, <3>2 DEF Flush
  <2>1. CASE Edit
    <3>1. held' \in Data
      BY <2>1 DEF Edit, TypeOK, Data
    <3> QED BY <2>1, <3>1 DEF Edit, TypeOK
  <2>2. CASE Fire
    BY <2>2, <2>f DEF Fire, TypeOK
  <2>3. CASE NextStep
    BY <2>3, Calling DEF NextStep, TypeOK
  <2>4. CASE PreviousStep
    <3>1. step - 1 \in Steps
      BY <2>4 DEF PreviousStep, TypeOK, Steps
    <3> QED BY <2>4, <3>1, Calling DEF PreviousStep, TypeOK
  <2>5. CASE Moved
    <3>1. saved' \in 0..LastStep
      BY <2>5, <2>t DEF Moved, Steps
    <3> QED BY <2>5, <2>t, <3>1 DEF Moved, TypeOK
  <2>6. CASE NotMoved
    BY <2>6 DEF NotMoved, TypeOK
  <2>7. CASE Confirm
    BY <2>7 DEF Confirm, TypeOK, Completion, Completions
  <2>8. CASE CompletionAnswered
    <3>1. saved' \in 0..LastStep
      BY <2>8 DEF CompletionAnswered, TypeOK
    <3>2. LastStep \in Steps
      BY DEF Steps
    <3>3. apart' \in BOOLEAN
      BY <2>8 DEF CompletionAnswered
    <3> QED BY <2>8, <3>1, <3>2, <3>3
            DEF CompletionAnswered, TypeOK, Completion, Completions
  <2>9. CASE SaveOnLeave
    <3>1. background' \in SUBSET Updates /\ timer' \in BOOLEAN
      BY <2>9, <2>f DEF SaveOnLeave, TypeOK
    <3>2. saved' \in 0..LastStep
      BY <2>9 DEF SaveOnLeave, TypeOK, Steps
    <3> QED BY <2>9, <3>1, <3>2 DEF SaveOnLeave, TypeOK
  <2>a. ASSUME Abandon PROVE /\ step' = 1 /\ held' = NoData /\ progress' = FALSE
                             /\ timer' = FALSE /\ confirmed' = NoData
    BY <2>a DEF Abandon
  <2>10. CASE Close
    <3>1. Abandon
      BY <2>10 DEF Close
    <3> QED BY <2>10, <2>a, <3>1, Leaving DEF Close, TypeOK
  <2>11. CASE Exit
    <3>1. Abandon
      BY <2>11 DEF Exit
    <3>2. saved' \in 0..LastStep
      BY <2>11 DEF Exit
    <3> QED BY <2>11, <2>a, <3>1, <3>2, Leaving DEF Exit, TypeOK
  <2>12. CASE Discover
    BY <2>12 DEF Discover, TypeOK
  <2>13. CASE Resume
    BY <2>13 DEF Resume, TypeOK
  <2>14. CASE Resumed
    BY <2>14 DEF Resumed, TypeOK
  <2>15. CASE Discard
    BY <2>15 DEF Discard, TypeOK
  <2>16. CASE ReadCall
    <3>1. call' \in Calls
      BY <2>16, <2>t DEF ReadCall, TypeOK, Calls
    <3> QED BY <2>16, <3>1 DEF ReadCall, TypeOK
  <2>17. CASE IgnoreNext
    <3>1. call.copy.step \in Steps
      BY <2>t DEF Rows
    <3>2. call' \in Calls
      BY <2>17, <3>1, Answering DEF IgnoreNext
    <3>3. apart' \in BOOLEAN /\ behind' \in BOOLEAN
      BY <2>17 DEF IgnoreNext
    <3> QED BY <2>17, <3>2, <3>3 DEF IgnoreNext, TypeOK
  <2>18. CASE RejectNext
    <3>1. call' \in Calls
      BY <2>18, Refusing DEF RejectNext
    <3> QED BY <2>18, <2>t, <2>u, <3>1 DEF RejectNext, TypeOK
  <2>19. CASE SaveNext
    <3>1. PICK r \in Advances(call.copy, call.data) : Write(r)
      BY <2>19 DEF SaveNext
    <3>2. r \in Rows
      BY <2>t, Advancing
    <3>3. call' \in Calls
      BY <2>19, <2>t DEF SaveNext, TypeOK, Calls
    <3>4. /\ current_step' \in Steps /\ booking_data' \in Data /\ is_completed' \in BOOLEAN
      BY <2>w, <3>1, <3>2
    <3> QED BY <2>19, <3>3, <3>4 DEF SaveNext, TypeOK
  <2>20. CASE AnswerNext
    <3>1. current_step \in Steps
      BY DEF TypeOK
    <3>2. call' \in Calls
      BY <2>20, <3>1, Answering DEF AnswerNext
    <3> QED BY <2>20, <3>2 DEF AnswerNext, TypeOK
  <2>21. CASE SaveBack
    <3>1. [call.copy EXCEPT !.step = call.step] \in Rows
      BY <2>t, Copying
    <3>2. call' \in Calls
      BY <2>21, <2>t, Answering DEF SaveBack
    <3>3. behind' \in BOOLEAN
      BY <2>21 DEF SaveBack, TypeOK, TakesBack
    <3>4. current_step' \in Steps /\ booking_data' \in Data /\ is_completed' \in BOOLEAN
      BY <2>21, <2>w, <3>1 DEF SaveBack
    <3> QED BY <2>21, <3>2, <3>3, <3>4 DEF SaveBack, TypeOK
  <2>22. CASE LoseCall
    <3>1. call' \in Calls
      BY <2>22, Refusing DEF LoseCall
    <3>2. apart' \in BOOLEAN
      BY <2>22 DEF LoseCall, TypeOK, Calls
    <3> QED BY <2>22, <3>1, <3>2 DEF LoseCall, TypeOK
  <2>c. ASSUME NEW at \in {"accepted", "refused"}, Completed(at)
        PROVE  completion' \in Completions
    BY <2>c DEF Completed, Completion, Completions
  <2>23. CASE ReadCompletion
    <3>1. completion' \in Completions
      BY <2>23, <2>t DEF ReadCompletion, TypeOK, Completions
    <3> QED BY <2>23, <3>1 DEF ReadCompletion, TypeOK
  <2>24. CASE SaveCompletion
    <3>1. completion' \in Completions
      BY <2>24, <2>c DEF SaveCompletion
    <3>2. [completion.copy EXCEPT !.done = TRUE] \in Rows
      BY <2>t, Copying
    <3>3. /\ current_step' \in Steps /\ booking_data' \in Data /\ is_completed' \in BOOLEAN
          /\ apart' \in BOOLEAN /\ behind' \in BOOLEAN
      BY <2>24, <2>u, <3>2 DEF SaveCompletion, TypeOK
    <3> QED BY <2>24, <3>1, <3>3 DEF SaveCompletion, TypeOK
  <2>25. CASE LoseCompletion
    <3>1. completion' \in Completions
      BY <2>25, <2>c DEF LoseCompletion
    <3> QED BY <2>25, <3>1 DEF LoseCompletion, TypeOK
  <2>26. ASSUME NEW b \in background, ReadBackground(b) PROVE TypeOK'
    <3>1. [b EXCEPT !.at = "read", !.copy = Row] \in Updates
      BY <2>t DEF TypeOK, Updates
    <3> QED BY <2>26, <3>1 DEF ReadBackground, TypeOK
  <2>27. ASSUME NEW b \in background, SaveBackground(b) PROVE TypeOK'
    <3>1. [b EXCEPT !.at = "served", !.copy = NoCopy] \in Updates
      BY DEF TypeOK, Updates
    <3>2. background' \in SUBSET Updates
      BY <2>27, <3>1 DEF SaveBackground, TypeOK
    <3>3. b.copy \in Rows /\ [b.copy EXCEPT !.data = Merged(b.copy.data, b.data)] \in Rows
      BY <2>t, Copying
    <3>4. /\ current_step' \in Steps /\ booking_data' \in Data /\ is_completed' \in BOOLEAN
          /\ apart' \in BOOLEAN /\ behind' \in BOOLEAN
      BY <2>27, <2>u, <3>3 DEF SaveBackground, TypeOK
    <3> QED BY <2>27, <3>2, <3>4 DEF SaveBackground, TypeOK
  <2>28. ASSUME NEW b \in background, LoseBackground(b) PROVE TypeOK'
    BY <2>28 DEF LoseBackground, TypeOK
  <2>29. ASSUME NEW b \in background, BackgroundAnswered(b) PROVE TypeOK'
    BY <2>29 DEF BackgroundAnswered, TypeOK
  <2>30. CASE UNCHANGED vars
    BY <2>30 DEF vars, TypeOK
  <2> HIDE DEF server, row, client, session, confirmation, history
  <2> QED
    BY <2>1, <2>2, <2>3, <2>4, <2>5, <2>6, <2>7, <2>8, <2>9, <2>10, <2>11, <2>12, <2>13,
       <2>14, <2>15, <2>16, <2>17, <2>18, <2>19, <2>20, <2>21, <2>22, <2>23, <2>24, <2>25,
       <2>26, <2>27, <2>28, <2>29, <2>30
    DEF Next, Serve, ServeCall, Page
<1> QED BY <1>1, <1>2, PTL DEF Spec

-----------------------------------------------------------------------------
(* Where the page and the server are                                        *)

\* The step that the page shows, or will when it has the answer it waits for.
Shown == IF call.at = "served" /\ call.ok THEN call.step ELSE step

AskedNext == call.at \in {"sent", "read"} /\ call.kind = "next"
AskedBack == call.at \in {"sent", "read"} /\ call.kind = "back"

\* The invariant behind InStep and NextNeverCompletes.  An open page waits for its
\* call, and one that is gone does not; while nothing parts them, the page is on the
\* step of the row but for an answer on its way, and a nextStep that is under way
\* was sent from this step, before the last.
StepInv ==
  /\ page \in {"open", "loading"} \/ call.at = "none" => call.live
  /\ page # "open" => call.at \in {"none", "sent", "read", "saved"}
  /\ page \in {"closed", "offer"} => call.at = "none" \/ ~call.live
  /\ page = "loading" => call.at = "none"
  /\ ~apart =>
       /\ page \in {"open", "loading"} /\ call.at # "saved" => Shown = current_step
       /\ AskedNext => call.step = current_step /\ current_step # LastStep
       /\ AskedNext /\ call.at = "read" => call.copy.step = current_step

\* A step of the system keeps the invariant.
LEMMA StepKept ==
  ASSUME TypeOK, StepInv, [Next]_vars
  PROVE  StepInv'
<1> USE BookingDraftAssumption, Nothing
    DEF StepInv, Shown, AskedNext, Idle, client, session
<1>t. /\ call \in Calls /\ call.kind \in {"next", "back"} /\ call.ok \in BOOLEAN
      /\ call.live \in BOOLEAN /\ call.at \in {"none", "sent", "read", "saved", "served"}
      /\ call.data \in Data /\ call.step \in Steps /\ apart \in BOOLEAN
      /\ page \in {"open", "closed", "offer", "loading"}
  BY DEF TypeOK, Calls
<1> HIDE DEF client, session
<1>s. ASSUME NEW r, SaveUnheard(r) PROVE ~apart' => ~apart /\ current_step' = current_step
  BY <1>s DEF SaveUnheard, Write
<1>q. ASSUME UNCHANGED <<page, step, call>>,
             ~apart' => ~apart /\ current_step' = current_step
      PROVE  StepInv'
  BY <1>q
<1>r. ASSUME UNCHANGED client, Refuse, apart' \in BOOLEAN, call.at # "none",
             ~apart' => /\ ~apart /\ current_step' = current_step
                        /\ call.at # "saved" /\ (call.at = "served" => ~call.ok)
      PROVE  StepInv'
  <2>1. /\ ~call.live => call' = NoCall
        /\ call.live => call'.at = "served" /\ call'.live /\ ~call'.ok
    BY <1>r, Refusing
  <2> QED BY <1>r, <1>t, <2>1 DEF client, session
<1>a. ASSUME NEW s \in Steps, UNCHANGED client, Answer(s), call.at \in {"read", "saved"},
             ~apart' => current_step' = s
      PROVE  StepInv'
  <2>1. /\ ~call.live => call' = NoCall
        /\ call.live => /\ call'.at = "served" /\ call'.live /\ call'.ok /\ call'.step = s
    BY <1>a, Answering
  <2> QED BY <1>a, <1>t, <2>1 DEF client, session
<1>l. ASSUME Abandon, page' = "closed", UNCHANGED <<server, history>>
      PROVE  StepInv'
  <2>1. /\ call.at \in {"none", "served"} => call' = NoCall
        /\ call.at \notin {"none", "served"} =>
             /\ call'.at = call.at /\ ~call'.live /\ call'.kind = call.kind
             /\ call'.step = call.step /\ call'.copy = call.copy
    BY <1>l, Leaving
  <2> QED BY <1>l, <1>t, <2>1 DEF server, row, history
<1>1. CASE Edit
  BY <1>1, <1>q DEF Edit, server, row, history
<1>2. CASE Fire
  BY <1>2, <1>q DEF Fire, server, row, session, history
<1>3. CASE NextStep
  <2>1. call'.at = "sent" /\ call'.live /\ call'.kind = "next" /\ call'.step = step
    BY <1>3, Calling DEF NextStep, TypeOK
  <2> QED BY <1>3, <2>1 DEF NextStep, server, row, session, history
<1>4. CASE PreviousStep
  <2>1. step - 1 \in Steps
    BY <1>4 DEF PreviousStep, TypeOK, Steps
  <2>2. call'.at = "sent" /\ call'.live /\ call'.kind = "back"
    BY <1>4, <2>1, Calling DEF PreviousStep, TypeOK
  <2> QED BY <1>4, <2>2 DEF PreviousStep, server, row, client, session, history
<1>5. CASE Moved
  BY <1>5 DEF Moved, server, row, history
<1>6. CASE NotMoved
  BY <1>6 DEF NotMoved, server, row, client, session, history
<1>7. CASE Confirm
  BY <1>7, <1>q DEF Confirm, server, row, session, history
<1>8. CASE CompletionAnswered
  BY <1>8 DEF CompletionAnswered, server, row
<1>9. CASE SaveOnLeave
  BY <1>9, <1>q DEF SaveOnLeave, server, row, session, history
<1>10. CASE Close
  BY <1>10, <1>l DEF Close
<1>11. CASE Exit
  BY <1>11, <1>l DEF Exit
<1>12. CASE Discover
  BY <1>12, <1>t DEF Discover, server, row, session, history
<1>13. CASE Resume
  BY <1>13 DEF Resume, server, row, history
<1>14. CASE Resumed
  BY <1>14 DEF Resumed, server, row, session, history
<1>15. CASE Discard
  BY <1>15 DEF Discard, server, row, session, history
<1>16. CASE ReadCall
  <2>1. /\ call'.at = "read" /\ call'.live = call.live /\ call'.kind = call.kind
        /\ call'.step = call.step /\ call'.copy = Row /\ call'.ok = call.ok
    BY <1>16, <1>t DEF ReadCall, Calls
  <2>2. Row.step = current_step
    BY DEF Row
  <2> QED BY <1>16, <1>t, <2>1, <2>2 DEF ReadCall, server, row, client, session, history
<1>17. CASE IgnoreNext
  <2>1. call.copy.step \in Steps
    BY <1>t DEF Calls, Rows
  <2> QED BY <1>17, <1>a, <2>1 DEF IgnoreNext, server, row
<1>18. CASE RejectNext
  <2>1. apart' \in BOOLEAN
    BY <1>18 DEF RejectNext, SaveUnheard
  <2> QED BY <1>18, <1>r, <1>s, <2>1 DEF RejectNext
<1>19. CASE SaveNext
  <2>1. /\ ~call.live => call' = NoCall
        /\ call.live => call'.at = "saved" /\ call'.live
    BY <1>19, <1>t DEF SaveNext, Calls
  <2> QED BY <1>19, <1>t, <2>1 DEF SaveNext, client, session
<1>20. CASE AnswerNext
  <2>1. current_step \in Steps
    BY DEF TypeOK
  <2> QED BY <1>20, <1>a, <2>1 DEF AnswerNext, server, row
<1>21. CASE SaveBack
  <2>1. current_step' = call.step
    BY <1>21, <1>t, Copying DEF SaveBack, Write, Calls
  <2> QED BY <1>21, <1>a, <1>t, <2>1 DEF SaveBack
<1>22. CASE LoseCall
  <2>1. apart' \in BOOLEAN
    BY <1>22, <1>t DEF LoseCall
  <2> QED BY <1>22, <1>r, <2>1 DEF LoseCall, server, row
<1>23. CASE ReadCompletion
  BY <1>23, <1>q DEF ReadCompletion, server, row, client, session, history
<1>24. CASE SaveCompletion
  <2>1. ~apart' => ~apart /\ current_step' = current_step
    BY <1>24, <1>s DEF SaveCompletion, row, history
  <2> QED BY <1>24, <1>q, <2>1 DEF SaveCompletion, client, session
<1>25. CASE LoseCompletion
  BY <1>25, <1>q DEF LoseCompletion, server, row, client, session, history
<1>26. ASSUME NEW b \in background, ReadBackground(b) PROVE StepInv'
  BY <1>26, <1>q DEF ReadBackground, server, row, client, session, history
<1>27. ASSUME NEW b \in background, SaveBackground(b) PROVE StepInv'
  <2>1. ~apart' => ~apart /\ current_step' = current_step
    BY <1>27, <1>s DEF SaveBackground, row, history
  <2> QED BY <1>27, <1>q, <2>1 DEF SaveBackground, client, session
<1>28. ASSUME NEW b \in background, LoseBackground(b) PROVE StepInv'
  BY <1>28, <1>q DEF LoseBackground, server, row, client, session, history
<1>29. ASSUME NEW b \in background, BackgroundAnswered(b) PROVE StepInv'
  BY <1>29, <1>q DEF BackgroundAnswered, server, row, client, session, history
<1>30. CASE UNCHANGED vars
  BY <1>30, <1>q DEF vars, server, row, client, session, history
<1> QED
  BY <1>1, <1>2, <1>3, <1>4, <1>5, <1>6, <1>7, <1>8, <1>9, <1>10, <1>11, <1>12, <1>13,
     <1>14, <1>15, <1>16, <1>17, <1>18, <1>19, <1>20, <1>21, <1>22, <1>23, <1>24, <1>25,
     <1>26, <1>27, <1>28, <1>29, <1>30
  DEF Next, Serve, ServeCall, Page

\* A page at rest shows the step that the server is on, unless something parted
\* them and neither an answered move nor a reload has brought them together since.
THEOREM PageInStep == Spec => []InStep
<1>1. Init => StepInv
  BY Nothing DEF Init, StepInv, Shown, AskedNext, AskedBack
<1>2. TypeOK /\ StepInv /\ [Next]_vars => StepInv'
  BY StepKept
<1>3. StepInv => InStep
  BY DEF StepInv, Shown, InStep, Idle
<1> QED BY <1>1, <1>2, <1>3, TypeCorrect, PTL DEF Spec

\* Next completes the booking only when the server was brought to the last step
\* behind the back of the page.
THEOREM NoCompletionByNext == Spec => NextNeverCompletes
<1> DEFINE Silent == call.at = "read" /\ call.kind = "next" /\ (call.at)' # "read"
                     /\ ~is_completed /\ is_completed'
<1>1. ASSUME TypeOK, StepInv, [Next]_vars, Silent PROVE apart
  <2> USE Nothing
  <2>t. /\ call.copy \in Rows /\ call.data \in Data /\ call \in Calls
        /\ call.copy.done \in BOOLEAN
    BY <1>1 DEF TypeOK, Calls, Rows
  <2>c. UNCHANGED call => FALSE
    BY <1>1
  <2>r. UNCHANGED is_completed => FALSE
    BY <1>1
  <2>1. CASE RejectNext
    <3>1. is_completed' = call.copy.done /\ ~call.copy.done
      BY <2>1 DEF RejectNext, SaveUnheard, Write
    <3> QED BY <1>1, <3>1
  <2>2. CASE SaveNext
    <3>1. PICK n \in Advances(call.copy, call.data) : Write(n)
      BY <2>2 DEF SaveNext
    <3>2. n.done
      BY <1>1, <3>1 DEF Write
    <3>3. call.copy.step = LastStep
      BY <2>t, <3>1, <3>2, Advancing
    <3> QED BY <1>1, <3>3 DEF StepInv, AskedNext
  <2>3. CASE SaveBack
    BY <1>1, <2>3 DEF SaveBack
  <2>4. CASE SaveCompletion
    BY <2>4, <2>c DEF SaveCompletion
  <2>5. ASSUME NEW b \in background, SaveBackground(b) PROVE apart
    BY <2>5, <2>c DEF SaveBackground
  <2>6. CASE \/ Edit \/ Fire \/ NextStep \/ PreviousStep \/ Moved \/ NotMoved \/ Confirm
             \/ CompletionAnswered \/ SaveOnLeave \/ Close \/ Exit \/ Discover \/ Resume
             \/ Resumed \/ Discard
    BY <2>6, <2>r DEF Edit, Fire, NextStep, PreviousStep, Moved, NotMoved, Confirm,
                      CompletionAnswered, SaveOnLeave, Close, Exit, Discover, Resume,
                      Resumed, Discard, server, row
  <2>7. CASE ReadCall \/ IgnoreNext \/ AnswerNext \/ LoseCall \/ ReadCompletion
             \/ LoseCompletion
    BY <2>7, <2>r DEF ReadCall, IgnoreNext, AnswerNext, LoseCall, ReadCompletion,
                      LoseCompletion, server, row
  <2>8. ASSUME NEW b \in background,
               ReadBackground(b) \/ LoseBackground(b) \/ BackgroundAnswered(b)
        PROVE  apart
    BY <2>8, <2>r DEF ReadBackground, LoseBackground, BackgroundAnswered, server, row
  <2>9. CASE UNCHANGED vars
    BY <2>9, <2>c DEF vars
  <2> QED
    BY <1>1, <2>1, <2>2, <2>3, <2>4, <2>5, <2>6, <2>7, <2>8, <2>9
    DEF Next, Serve, ServeCall, Page
<1>2. Init => StepInv
  BY Nothing DEF Init, StepInv, Shown, AskedNext, AskedBack
<1>3. TypeOK /\ StepInv /\ [Next]_vars => StepInv'
  BY StepKept
<1>4. TypeOK /\ StepInv /\ [Next]_vars =>
        [call.at = "read" /\ call.kind = "next" /\ call'.at # "read" /\ ~is_completed
         /\ is_completed' => apart]_vars
  BY <1>1, SMTT(30)
<1> QED BY <1>2, <1>3, <1>4, TypeCorrect, PTL DEF Spec, NextNeverCompletes

-----------------------------------------------------------------------------
(* What the page and the server hold                                        *)

\* The page that has asked takes call.data for its own when it has its answer.
Carries ==
  call.live /\ (call.at \in {"sent", "read", "saved"} \/ (call.at = "served" /\ call.ok))

\* What the client confirmed is not newer than what the page holds, now or after
\* the move under way; a page that asks for the next step sends all it holds.
PageInv ==
  /\ page # "open" => held = NoData /\ confirmed = NoData
  /\ \A s \in Steps :
       /\ confirmed[s] <= held[s] /\ held[s] <= edits /\ call.data[s] <= edits
       /\ Carries => confirmed[s] <= call.data[s]
       /\ AskedNext /\ call.live => held[s] <= call.data[s]

\* Unless a save took something back, the server has what the page holds of the
\* steps it has passed, will have passed after the move under way, or had passed
\* when the client confirmed.
RowInv ==
  ~behind => \A s \in Steps :
    /\ s < step => held[s] <= booking_data[s]
    /\ s < LastStep => confirmed[s] <= booking_data[s]
    /\ AskedBack /\ call.live /\ s < call.step => call.data[s] <= booking_data[s]
    /\ call.at = "saved" /\ call.live => call.data[s] <= booking_data[s]
    /\ call.at = "served" /\ call.ok /\ s < call.step => call.data[s] <= booking_data[s]

DataInv == PageInv /\ RowInv

\* A step of the system keeps the invariant.
LEMMA DataKept ==
  ASSUME TypeOK, TypeOK', StepInv, DataInv, [Next]_vars
  PROVE  DataInv'
<1> USE BookingDraftAssumption, Nothing
    DEF DataInv, PageInv, RowInv, Carries, AskedNext, AskedBack, Idle
<1>t. /\ call \in Calls /\ call.kind \in {"next", "back"} /\ call.ok \in BOOLEAN
      /\ call.live \in BOOLEAN /\ call.at \in {"none", "sent", "read", "saved", "served"}
      /\ call.data \in Data /\ call.step \in Steps /\ call.copy \in Rows
      /\ call.copy.data \in Data /\ behind \in BOOLEAN /\ held \in Data /\ confirmed \in Data
      /\ booking_data \in Data /\ edits \in Nat /\ Steps \subseteq Nat /\ step \in Steps
      /\ current_step \in Steps
  BY DEF TypeOK, Calls, Rows, Steps
<1>n. /\ \A d \in Data : \A s \in Steps : d[s] \in Nat
      /\ \A s \in Steps : NoData[s] = 0
  BY DEF Data, NoData
<1>w. /\ page \in {"open", "loading"} \/ call.at = "none" => call.live
      /\ page # "open" => call.at \in {"none", "sent", "read", "saved"}
      /\ page \in {"closed", "offer"} => call.at = "none" \/ ~call.live
      /\ page = "loading" => call.at = "none"
  BY DEF StepInv
<1>s. ASSUME NEW r, r.data \in Data, booking_data' = r.data,
             behind' = (behind \/ TakesBack(r))
      PROVE  ~behind' => ~behind /\ \A s \in Steps : booking_data[s] <= booking_data'[s]
  <2>1. ~behind' => ~behind /\ ~TakesBack(r)
    BY <1>s
  <2>2. ~TakesBack(r) => \A s \in Steps : booking_data[s] <= r.data[s]
    BY <1>s, <1>t, <1>n DEF TakesBack
  <2> QED BY <1>s, <2>1, <2>2
<1>u. ASSUME NEW r, r.data \in Data, SaveUnheard(r)
      PROVE  ~behind' => ~behind /\ \A s \in Steps : booking_data[s] <= booking_data'[s]
  BY <1>s, <1>u DEF SaveUnheard, Write
<1> DEFINE Grows == ~behind' => /\ ~behind
                                /\ \A s \in Steps : booking_data[s] <= booking_data'[s]
<1>g. UNCHANGED <<booking_data, behind>> => Grows
  BY <1>t, <1>n
\* Neither the page nor its call is concerned.
<1>q. ASSUME UNCHANGED <<page, step, held, confirmed, edits, call>>, booking_data' \in Data,
             Grows
      PROVE  DataInv'
  <2>1. PageInv'
    BY <1>q
  <2>2. RowInv'
    BY <1>q, <1>t, <1>n
  <2> QED BY <2>1, <2>2
<1>b. booking_data' \in Data /\ behind' \in BOOLEAN
  BY DEF TypeOK
\* The server answers or refuses.
<1>x. ASSUME UNCHANGED client, UNCHANGED confirmation, Grows,
             \/ Refuse
             \/ /\ call.at \in {"read", "saved"}
                /\ \E s \in Steps :
                     /\ Answer(s)
                     /\ ~behind' => \A i \in Steps : call.live /\ i < s =>
                                     call.data[i] <= booking_data'[i]
      PROVE  DataInv'
  <2> USE <1>x, <1>t, <1>n, <1>w, <1>b DEF client, session, confirmation
  <2>1. CASE Refuse
    <3>1. /\ ~call.live => call' = NoCall
          /\ call.live => call'.at = "served" /\ call'.live /\ ~call'.ok /\ call'.data = NoData
      BY <2>1, Refusing
    <3>2. /\ ~Carries' /\ ~(AskedNext)' /\ ~(AskedBack)'
          /\ (call.data)' = NoData
      BY <3>1
    <3>3. PageInv'
      BY <3>2
    <3>4. RowInv'
      BY <3>1, <3>2
    <3> QED BY <3>3, <3>4
  <2>2. ASSUME NEW s \in Steps, Answer(s), call.at \in {"read", "saved"},
               ~behind' => \A i \in Steps : call.live /\ i < s =>
                             call.data[i] <= booking_data'[i]
        PROVE  DataInv'
    <3>1. CASE ~call.live
      <4>1. call' = NoCall
        BY <2>2, <3>1, Answering
      <4> QED BY <3>1, <4>1
    <3>2. CASE call.live
      <4>1. /\ call'.at = "served" /\ call'.live /\ call'.ok
            /\ call'.data = call.data /\ call'.step = s
        BY <2>2, <3>2, Answering
      <4>2. Carries
        BY <2>2, <3>2
      <4>3. PageInv'
        BY <4>1, <4>2
      <4>4. RowInv'
        BY <2>2, <3>2, <4>1
      <4> QED BY <4>3, <4>4
    <3> QED BY <3>1, <3>2
  <2> QED BY <2>1, <2>2
\* The client leaves the page.
<1>l. ASSUME Abandon, page' = "closed", UNCHANGED <<server, edits, history>>
      PROVE  DataInv'
  <2>1. /\ call.at \in {"none", "served"} => call' = NoCall
        /\ call.at \notin {"none", "served"} =>
             /\ call'.at = call.at /\ ~call'.live /\ call'.kind = call.kind
             /\ call'.data = call.data
    BY <1>l, Leaving
  <2>2. held' = NoData /\ confirmed' = NoData
    BY <1>l DEF Abandon
  <2>3. ~Carries' /\ (call'.live => call'.at = "none") /\ call'.at # "served"
    BY <1>t, <2>1
  <2>4. PageInv'
    BY <1>l, <1>t, <1>n, <2>1, <2>2, <2>3
  <2>5. RowInv'
    BY <1>b, <1>n, <1>l, <1>t, <2>1, <2>2, <2>3
  <2> QED BY <2>4, <2>5
<1>1. CASE Edit
  <2>1. \A s \in Steps : held'[s] = IF s = step THEN edits + 1 ELSE held[s]
    BY <1>1, <1>t DEF Edit, Data
  <2>2. /\ call' = call /\ call.at = "none" /\ page = "open" /\ page' = "open"
        /\ edits' = edits + 1 /\ confirmed' = confirmed
    BY <1>1 DEF Edit, confirmation
  <2>a. ~Carries' /\ ~(AskedNext)'
    BY <2>2
  <2>b. ASSUME NEW s \in Steps
        PROVE  confirmed'[s] <= held'[s] /\ held'[s] <= edits' /\ (call.data)'[s] <= edits'
    <3>1. /\ confirmed[s] \in Nat /\ held[s] \in Nat /\ call.data[s] \in Nat
          /\ confirmed[s] <= held[s] /\ held[s] <= edits /\ call.data[s] <= edits
      BY <1>t, <1>n
    <3> QED BY <1>t, <2>1, <2>2, <3>1
  <2>3. PageInv'
    BY <2>2, <2>a, <2>b
  <2>4. RowInv'
    BY <1>1, <1>t, <1>n, <2>1, <2>2 DEF Edit, confirmation, server, row, history
  <2> QED BY <2>3, <2>4
<1>2. CASE Fire
  BY <1>2, <1>b, <1>g, <1>q DEF Fire, server, row, session, confirmation, history
<1>3. CASE NextStep
  <2>1. call'.at = "sent" /\ call'.live /\ call'.kind = "next" /\ call'.data = held
    BY <1>3, <1>t, Calling DEF NextStep
  <2>2. PageInv'
    BY <1>3, <1>t, <1>n, <2>1 DEF NextStep, session, confirmation
  <2>3. RowInv'
    BY <1>3, <1>t, <1>n, <2>1 DEF NextStep, server, row, session, confirmation, history
  <2> QED BY <2>2, <2>3
<1>4. CASE PreviousStep
  <2>1. step - 1 \in Steps
    BY <1>4, <1>t DEF PreviousStep, Steps
  <2>2. /\ call'.at = "sent" /\ call'.live /\ call'.kind = "back" /\ call'.data = held
        /\ call'.step = step - 1
    BY <1>4, <1>t, <2>1, Calling DEF PreviousStep
  <2>3. PageInv'
    BY <1>4, <1>t, <1>n, <2>2 DEF PreviousStep, client, session, confirmation
  <2>4. RowInv'
    BY <1>4, <1>t, <1>n, <2>2
    DEF PreviousStep, server, row, client, session, confirmation, history
  <2> QED BY <2>3, <2>4
<1>5. CASE Moved
  <2>1. PageInv'
    BY <1>5, <1>t, <1>n, <1>w DEF Moved, confirmation
  <2>2. RowInv'
    BY <1>5, <1>t, <1>n, <1>w DEF Moved, server, row, confirmation, history
  <2> QED BY <2>1, <2>2
<1>6. CASE NotMoved
  <2>1. /\ call' = NoCall
        /\ UNCHANGED <<page, step, held, edits, confirmed, booking_data, behind>>
    BY <1>6 DEF NotMoved, server, row, client, session, confirmation, history
  <2>2. ~Carries' /\ ~(AskedNext)' /\ ~(AskedBack)' /\ \A s \in Steps : (call.data)'[s] = 0
    BY <1>n, <2>1
  <2>3. PageInv'
    BY <1>t, <1>n, <2>1, <2>2
  <2>4. RowInv'
    BY <2>1, <2>2
  <2> QED BY <2>3, <2>4
<1>7. CASE Confirm
  <2>1. /\ page = "open" /\ call.at = "none" /\ step = LastStep /\ confirmed' = held
        /\ UNCHANGED <<page, step, held, edits, call, booking_data, behind>>
    BY <1>7 DEF Confirm, server, row, session, history
  <2>2. PageInv'
    BY <1>t, <1>n, <2>1
  <2>3. RowInv'
    BY <1>t, <1>n, <2>1
  <2> QED BY <2>2, <2>3
<1>8. CASE CompletionAnswered
  <2>1. /\ page = "open" /\ page' = "open" /\ held' = confirmed /\ confirmed' = NoData
        /\ step' = LastStep /\ UNCHANGED <<booking_data, behind, call, edits>>
    BY <1>8 DEF CompletionAnswered, server, row
  <2>a. \A s \in Steps :
          /\ confirmed[s] \in Nat /\ held[s] \in Nat /\ call.data[s] \in Nat
          /\ confirmed[s] <= held[s] /\ held[s] <= edits /\ call.data[s] <= edits
          /\ AskedNext /\ call.live => held[s] <= call.data[s]
    BY <1>t, <1>n
  <2>b. ASSUME NEW s \in Steps
        PROVE  /\ confirmed'[s] <= held'[s] /\ held'[s] <= edits' /\ (call.data)'[s] <= edits'
               /\ Carries' => confirmed'[s] <= (call.data)'[s]
               /\ (AskedNext /\ call.live)' => held'[s] <= (call.data)'[s]
    <3>1. confirmed'[s] = 0 /\ held'[s] = confirmed[s] /\ call' = call /\ edits' = edits
      BY <1>n, <2>1
    <3> QED BY <1>t, <2>a, <3>1
  <2>2. PageInv'
    BY <2>1, <2>b
  <2>3. RowInv'
    BY <1>t, <1>n, <2>1
  <2> QED BY <2>2, <2>3
<1>9. CASE SaveOnLeave
  BY <1>9, <1>b, <1>g, <1>q DEF SaveOnLeave, server, row, session, confirmation, history
<1>10. CASE Close
  BY <1>10, <1>l DEF Close
<1>11. CASE Exit
  BY <1>11, <1>l DEF Exit
\* A page that comes back holds nothing.
<1>c. ASSUME UNCHANGED <<call, confirmed, held, edits, booking_data>>, page # "open",
             call.at = "none", step' \in Steps, held' = NoData
      PROVE  DataInv'
  <2>1. confirmed = NoData
    BY <1>c
  <2>2. ~Carries' /\ ~(AskedNext)' /\ ~(AskedBack)'
    BY <1>c
  <2>3. \A s \in Steps : held'[s] = 0 /\ confirmed'[s] = 0 /\ call'.data[s] \in Nat
    BY <1>c, <1>n, <1>t, <2>1
  <2>4. PageInv'
    BY <1>c, <1>t, <2>1, <2>2, <2>3
  <2>5. RowInv'
    BY <1>b, <1>c, <1>n, <1>t, <2>2, <2>3
  <2> QED BY <2>4, <2>5
<1>o. page # "open" => held = NoData /\ confirmed = NoData
  OBVIOUS
<1>12. CASE Discover
  <2>1. page = "closed"
    BY <1>12 DEF Discover
  <2> QED BY <1>12, <1>t, <1>n, <1>o, <2>1
          DEF Discover, server, row, session, confirmation, history
<1>13. CASE Resume
  <2>1. page # "open" /\ call.at = "none" /\ held' = NoData /\ step' \in Steps
    BY <1>13, <1>t DEF Resume
  <2> QED BY <1>13, <1>c, <1>o, <2>1 DEF Resume, server, row, confirmation
<1>14. CASE Resumed
  <2>1. page # "open" /\ call.at = "none"
    BY <1>14, <1>w DEF Resumed
  <2> QED BY <1>14, <1>c, <1>o, <1>t, <2>1
          DEF Resumed, server, row, session, confirmation, history
<1>15. CASE Discard
  <2>1. page # "open"
    BY <1>15 DEF Discard
  <2> QED BY <1>15, <1>t, <1>n, <1>o, <2>1
          DEF Discard, server, row, session, confirmation, history
<1>16. CASE ReadCall
  <2>1. /\ call'.at = "read" /\ call'.live = call.live /\ call'.kind = call.kind
        /\ call'.step = call.step /\ call'.data = call.data
    BY <1>16, <1>t DEF ReadCall, Calls
  <2>2. PageInv'
    BY <1>16, <1>t, <1>n, <2>1 DEF ReadCall, client, session, confirmation
  <2>3. RowInv'
    BY <1>16, <1>t, <1>n, <2>1
    DEF ReadCall, server, row, client, session, confirmation, history
  <2> QED BY <2>2, <2>3
<1>17. CASE IgnoreNext
  <2>1. call.copy.step \in Steps /\ Answer(call.copy.step) /\ behind'
    BY <1>17, <1>t DEF IgnoreNext, Rows
  <2> QED BY <1>17, <1>x, <2>1 DEF IgnoreNext
<1>18. CASE RejectNext
  BY <1>18, <1>t, <1>u, <1>x DEF RejectNext
<1>19. CASE SaveNext
  <2>1. PICK n \in Advances(call.copy, call.data) : Write(n)
    BY <1>19 DEF SaveNext
  <2>2. \A s \in Steps : call.data[s] # 0 => booking_data'[s] = call.data[s]
    BY <1>t, <2>1, Advancing, Merging DEF Write
  <2>3. \A s \in Steps : call.data[s] <= booking_data'[s]
    BY <1>b, <1>n, <1>t, <2>2
  <2>4. /\ UNCHANGED <<page, step, held, confirmed, edits>>
        /\ call.at = "read" /\ call.kind = "next"
    BY <1>19 DEF SaveNext, client, session, confirmation
  <2>5. CASE call.live
    <3>1. call'.at = "saved" /\ call'.live /\ call'.data = call.data
      BY <1>19, <1>t, <2>5 DEF SaveNext, Calls
    <3>2. \A s \in Steps : held[s] <= booking_data'[s] /\ confirmed[s] <= booking_data'[s]
      BY <1>b, <1>n, <1>t, <2>3, <2>4, <2>5
    <3>3. PageInv'
      BY <2>4, <2>5, <3>1
    <3>4. RowInv'
      BY <2>3, <2>4, <3>1, <3>2
    <3> QED BY <3>3, <3>4
  <2>6. CASE ~call.live
    <3>1. call' = NoCall
      BY <1>19, <2>6 DEF SaveNext
    <3>2. page # "open"
      BY <1>w, <2>6
    <3> QED BY <1>b, <1>n, <1>o, <1>t, <2>4, <3>1, <3>2
  <2> QED BY <1>t, <2>5, <2>6
<1>20. CASE AnswerNext
  BY <1>20, <1>g, <1>t, <1>x DEF AnswerNext, server, row
<1>21. CASE SaveBack
  <2> DEFINE r == [call.copy EXCEPT !.step = call.step]
  <2>1. r.data \in Data
    BY <1>t, Copying
  <2>2. Write(r) /\ behind' = (behind \/ TakesBack(r)) /\ Answer(call.step)
    BY <1>21 DEF SaveBack
  <2>3. booking_data' = r.data
    BY <2>2 DEF Write
  <2> HIDE DEF r
  <2>4. ~behind' => ~behind /\ \A s \in Steps : booking_data[s] <= booking_data'[s]
    BY <1>s, <2>1, <2>2, <2>3
  <2>5. ~behind' => \A i \in Steps : call.live /\ i < call.step =>
                      call.data[i] <= booking_data'[i]
    BY <1>21, <1>b, <1>n, <1>t, <2>4 DEF SaveBack
  <2> QED BY <1>21, <1>t, <1>x, <2>2, <2>4, <2>5 DEF SaveBack
<1>22. CASE LoseCall
  BY <1>22, <1>g, <1>x DEF LoseCall, server, row
<1>23. CASE ReadCompletion
  BY <1>23, <1>b, <1>g, <1>q DEF ReadCompletion, server, row, client, session, history
<1>24. CASE SaveCompletion
  <2>1. completion.copy \in Rows
    BY DEF TypeOK, Completions
  <2>2. [completion.copy EXCEPT !.done = TRUE].data \in Data
    BY <1>t, <2>1, Copying
  <2>3. Grows
    BY <1>24, <1>g, <1>u, <2>2 DEF SaveCompletion, row, history
  <2> QED BY <1>24, <1>b, <1>q, <2>3 DEF SaveCompletion, client, session
<1>25. CASE LoseCompletion
  BY <1>25, <1>b, <1>g, <1>q DEF LoseCompletion, server, row, client, session, history
<1>26. ASSUME NEW b \in background, ReadBackground(b) PROVE DataInv'
  BY <1>26, <1>b, <1>g, <1>q
  DEF ReadBackground, server, row, client, session, confirmation, history
<1>27. ASSUME NEW b \in background, SaveBackground(b) PROVE DataInv'
  <2>1. b.copy \in Rows /\ b.data \in Data
    BY DEF TypeOK, Updates
  <2>2. /\ b.copy.data \in Data
        /\ [b.copy EXCEPT !.data = Merged(b.copy.data, b.data)].data \in Data
    <3>1. [b.copy EXCEPT !.data = Merged(b.copy.data, b.data)] \in Rows
      BY <1>t, <2>1, Copying
    <3> QED BY <2>1, <3>1 DEF Rows
  <2>3. Grows
    BY <1>27, <1>g, <1>u, <2>2 DEF SaveBackground, row, history
  <2> QED BY <1>27, <1>b, <1>q, <2>3 DEF SaveBackground, client, session, confirmation
<1>28. ASSUME NEW b \in background, LoseBackground(b) PROVE DataInv'
  BY <1>28, <1>b, <1>g, <1>q
  DEF LoseBackground, server, row, client, session, confirmation, history
<1>29. ASSUME NEW b \in background, BackgroundAnswered(b) PROVE DataInv'
  BY <1>29, <1>b, <1>g, <1>q
  DEF BackgroundAnswered, server, row, client, session, confirmation, history
<1>30. CASE UNCHANGED vars
  BY <1>30, <1>b, <1>g, <1>q DEF vars, server, row, client, session, confirmation, history
<1> QED
  BY <1>1, <1>2, <1>3, <1>4, <1>5, <1>6, <1>7, <1>8, <1>9, <1>10, <1>11, <1>12, <1>13,
     <1>14, <1>15, <1>16, <1>17, <1>18, <1>19, <1>20, <1>21, <1>22, <1>23, <1>24, <1>25,
     <1>26, <1>27, <1>28, <1>29, <1>30
  DEF Next, Serve, ServeCall, Page

LEMMA Started == Init => StepInv /\ DataInv
<1> SUFFICES ASSUME Init PROVE StepInv /\ DataInv
  OBVIOUS
<1>1. \A s \in Steps : NoData[s] = 0
  BY DEF NoData
<1>2. StepInv
  BY Nothing DEF Init, StepInv, Shown, AskedNext, AskedBack
<1>3. DataInv
  BY Nothing, <1>1 DEF Init, DataInv, PageInv, RowInv, Carries, AskedNext, AskedBack
<1> QED BY <1>2, <1>3

\* What the client has entered at the steps it has passed is on the server, or
\* something newer, whatever became of the background updates, unless a save from
\* an outdated copy took it back and no Next has sent it again.
THEOREM PassedSaved == Spec => []PassedStepsSaved
<1>1. Init => StepInv /\ DataInv
  BY Started
<1>2. TypeOK /\ TypeOK' /\ StepInv /\ DataInv /\ [Next]_vars => StepInv' /\ DataInv'
  BY StepKept, DataKept
<1>3. TypeOK /\ DataInv => PassedStepsSaved
  <2> SUFFICES ASSUME TypeOK, DataInv, ~behind, NEW s \in 1 .. step - 1
               PROVE  booking_data[s] >= held[s]
    BY DEF PassedStepsSaved
  <2>1. s \in Steps /\ s < step
    BY BookingDraftAssumption DEF TypeOK, Steps
  <2>2. held[s] \in Nat /\ booking_data[s] \in Nat
    BY <2>1, BookingDraftAssumption DEF TypeOK, Data
  <2> QED BY <2>1, <2>2 DEF DataInv, RowInv
<1> QED BY <1>1, <1>2, <1>3, TypeCorrect, PTL DEF Spec

\* A booking is completed with the data that the client has confirmed, or newer
\* ones, unless the completion itself saves, or follows, an outdated copy.
THEOREM Confirmed == Spec => BookedAsConfirmed
<1> DEFINE Books == /\ completion.at = "read" /\ completion.live
                    /\ (completion.at)' = "accepted" /\ ~completion.copy.done
           Kept == behind' \/ \A s \in 1 .. LastStep - 1 : booking_data'[s] >= confirmed[s]
<1>1. ASSUME TypeOK, TypeOK', DataInv', [Next]_vars, Books PROVE Kept
  <2> USE Nothing
  <2>k. ASSUME UNCHANGED confirmed PROVE Kept
    <3> SUFFICES ASSUME ~behind', NEW s \in 1 .. LastStep - 1
                 PROVE  booking_data'[s] >= confirmed[s]
      OBVIOUS
    <3>1. s \in Steps /\ s < LastStep
      BY BookingDraftAssumption DEF Steps
    <3>2. confirmed'[s] <= booking_data'[s]
      BY <1>1, <3>1 DEF DataInv, RowInv
    <3>3. confirmed'[s] \in Nat /\ booking_data'[s] \in Nat
      BY <1>1, <3>1, BookingDraftAssumption DEF TypeOK, Data
    <3> QED BY <2>k, <3>2, <3>3
  <2>c. UNCHANGED completion => FALSE
    BY <1>1
  <2>a. Abandon => FALSE
    <3>1. ASSUME Abandon PROVE completion'.at = "read"
      BY <1>1, <3>1 DEF Abandon, TypeOK, Completions
    <3> QED BY <1>1, <3>1
  <2>1. CASE Confirm \/ CompletionAnswered
    BY <1>1, <2>1 DEF Confirm, CompletionAnswered
  <2>2. CASE ReadCompletion \/ SaveCompletion \/ LoseCompletion
    BY <2>2, <2>k DEF ReadCompletion, SaveCompletion, LoseCompletion
  <2>3. CASE Close \/ Exit
    BY <2>3, <2>a DEF Close, Exit
  <2>4. CASE \/ Edit \/ Fire \/ NextStep \/ PreviousStep \/ Moved \/ NotMoved \/ SaveOnLeave
             \/ Discover \/ Resume \/ Resumed \/ Discard
    BY <2>4, <2>c DEF Edit, Fire, NextStep, PreviousStep, Moved, NotMoved, SaveOnLeave,
                      Discover, Resume, Resumed, Discard, confirmation
  <2>5. CASE ServeCall
    BY <2>5, <2>c DEF ServeCall, ReadCall, IgnoreNext, RejectNext, SaveNext, AnswerNext,
                      SaveBack, LoseCall, confirmation
  <2>6. ASSUME NEW b \in background,
               \/ ReadBackground(b) \/ SaveBackground(b) \/ LoseBackground(b)
               \/ BackgroundAnswered(b)
        PROVE  Kept
    BY <2>6, <2>c DEF ReadBackground, SaveBackground, LoseBackground, BackgroundAnswered,
                      confirmation
  <2>7. CASE UNCHANGED vars
    BY <2>7, <2>c DEF vars, confirmation
  <2> QED BY <1>1, <2>1, <2>2, <2>3, <2>4, <2>5, <2>6, <2>7 DEF Next, Serve, Page
<1>2. Init => StepInv /\ DataInv
  BY Started
<1>3. TypeOK /\ TypeOK' /\ StepInv /\ DataInv /\ [Next]_vars => StepInv' /\ DataInv'
  BY StepKept, DataKept
<1>4. TypeOK /\ TypeOK' /\ DataInv' /\ [Next]_vars =>
        [completion.at = "read" /\ completion.live /\ completion'.at = "accepted"
         /\ ~completion.copy.done
         => behind' \/ \A s \in 1 .. LastStep - 1 : booking_data'[s] >= confirmed[s]]_vars
  BY <1>1
<1> QED BY <1>2, <1>3, <1>4, TypeCorrect, PTL DEF Spec, BookedAsConfirmed

-----------------------------------------------------------------------------
(* What the page offers                                                      *)

\* The invariant behind OfferMeaningful: progress, in the record or anywhere on its
\* way there, is of steps that are complete, and nobody writes the record while
\* it is offered.
OfferInv ==
  /\ saved # 0 \/ progress \/ call.progress => completed_steps
  /\ page = "offer" => saved \in 1 .. LastStep - 1
  /\ \A b \in background : b.at = "served" => b.live
  /\ page # "open" => \A b \in background : ~b.live

\* A client is offered a booking only when some of its steps are complete.
THEOREM Offers == Spec => []OfferMeaningful
<1> USE BookingDraftAssumption, Nothing
<1>1. Init => OfferInv
  BY DEF Init, OfferInv
<1>2. ASSUME TypeOK, OfferInv, [Next]_vars PROVE OfferInv'
  <2> USE <1>2 DEF OfferInv, Idle
  <2>t. /\ call \in Calls /\ call.data \in Data /\ call.step \in Steps
        /\ call.kind \in {"next", "back"} /\ call.copy.step \in Steps
        /\ step \in Steps /\ held \in Data /\ current_step \in Steps
        /\ completed_steps \in BOOLEAN /\ saved \in 0 .. LastStep
        /\ Steps = 1 .. LastStep
    BY DEF TypeOK, Calls, Rows, Steps
  <2>f. ASSUME Flush PROVE \A b \in background' : b.at = "served" => b.live
    BY <2>f DEF Flush
  <2>a. ASSUME NEW s \in Steps, Answer(s) PROVE call'.progress => completed_steps
    BY <2>a, Answering
  <2>r. ASSUME Refuse PROVE ~call'.progress
    BY <2>r, Refusing
  <2>l. ASSUME Abandon
        PROVE  /\ call'.progress => call.progress
               /\ ~progress' /\ \A b \in background' : b.at # "served" /\ ~b.live
    <3>1. ~progress'
      BY <2>l DEF Abandon
    <3> QED BY <2>l, <3>1, Leaving
  <2>q. ASSUME UNCHANGED <<completed_steps, saved, page, progress, background>>,
               call'.progress => completed_steps
        PROVE  OfferInv'
    BY <2>q
  <2>1. CASE Edit
    BY <2>1, <2>q DEF Edit, server
  <2>2. CASE Fire
    BY <2>2, <2>f DEF Fire, server, session
  <2>3. CASE NextStep
    <3>1. ~call'.progress
      BY <2>3, <2>t, Calling DEF NextStep
    <3> QED BY <2>3, <2>q, <3>1 DEF NextStep, server, session
  <2>4. CASE PreviousStep
    <3>1. step - 1 \in Steps
      BY <2>4, <2>t DEF PreviousStep
    <3>2. ~call'.progress
      BY <2>4, <2>t, <3>1, Calling DEF PreviousStep
    <3> QED BY <2>4, <2>q, <3>2 DEF PreviousStep, server, client, session
  <2>5. CASE Moved
    BY <2>5 DEF Moved, server
  <2>6. CASE NotMoved
    BY <2>6, <2>q DEF NotMoved, server, client, session
  <2>7. CASE Confirm
    BY <2>7, <2>q DEF Confirm, server, session
  <2>8. CASE CompletionAnswered
    BY <2>8 DEF CompletionAnswered, server
  <2>9. CASE SaveOnLeave
    BY <2>9, <2>f DEF SaveOnLeave, server, session
  <2>10. CASE Close
    BY <2>10, <2>l DEF Close, server
  <2>11. CASE Exit
    BY <2>11, <2>l DEF Exit, server
  <2>12. CASE Discover
    BY <2>12, <2>t DEF Discover, server, session
  <2>13. CASE Resume
    BY <2>13 DEF Resume, server
  <2>14. CASE Resumed
    BY <2>14 DEF Resumed, server, session
  <2>15. CASE Discard
    BY <2>15 DEF Discard, server, session
  <2>16. CASE ReadCall
    <3>1. call'.progress = call.progress
      BY <2>16, <2>t DEF ReadCall, Calls
    <3> QED BY <2>16, <2>q, <3>1 DEF ReadCall, server, client, session
  <2>17. CASE IgnoreNext
    BY <2>17, <2>a, <2>q, <2>t DEF IgnoreNext, server, client, session
  <2>18. CASE RejectNext
    BY <2>18, <2>q, <2>r DEF RejectNext, client, session
  <2>19. CASE SaveNext
    BY <2>19 DEF SaveNext, client, session
  <2>20. CASE AnswerNext
    BY <2>20, <2>a, <2>q, <2>t DEF AnswerNext, server, client, session
  <2>21. CASE SaveBack
    BY <2>21, <2>a, <2>q, <2>t DEF SaveBack, client, session
  <2>22. CASE LoseCall
    BY <2>22, <2>q, <2>r DEF LoseCall, server, client, session
  <2>23. CASE ReadCompletion
    BY <2>23, <2>q DEF ReadCompletion, server, client, session
  <2>24. CASE SaveCompletion
    BY <2>24, <2>q DEF SaveCompletion, client, session
  <2>25. CASE LoseCompletion
    BY <2>25, <2>q DEF LoseCompletion, server, client, session
  <2>26. ASSUME NEW b \in background, ReadBackground(b) PROVE OfferInv'
    <3>1. b \in Updates
      BY DEF TypeOK
    <3>2. LET c == [b EXCEPT !.at = "read", !.copy = Row]
          IN c.at = "read" /\ c.live = b.live
      BY <3>1 DEF Updates
    <3> QED BY <2>26, <3>2 DEF ReadBackground, server, client, session
  <2>27. ASSUME NEW b \in background, SaveBackground(b) PROVE OfferInv'
    <3>1. b \in Updates
      BY DEF TypeOK
    <3>2. [b EXCEPT !.at = "served", !.copy = NoCopy].live = b.live
      BY <3>1 DEF Updates
    <3>3. \A c \in background' : c \in background \/ (b.live /\ c.live)
      BY <2>27, <3>2 DEF SaveBackground
    <3> QED BY <2>27, <3>3 DEF SaveBackground, client, session
  <2>28. ASSUME NEW b \in background, LoseBackground(b) PROVE OfferInv'
    BY <2>28 DEF LoseBackground, server, client, session
  <2>29. ASSUME NEW b \in background, BackgroundAnswered(b) PROVE OfferInv'
    BY <2>29 DEF BackgroundAnswered, server, client, session
  <2>30. CASE UNCHANGED vars
    BY <2>30, <2>q DEF vars, server, client, session
  <2> QED
    BY <2>1, <2>2, <2>3, <2>4, <2>5, <2>6, <2>7, <2>8, <2>9, <2>10, <2>11, <2>12, <2>13,
       <2>14, <2>15, <2>16, <2>17, <2>18, <2>19, <2>20, <2>21, <2>22, <2>23, <2>24, <2>25,
       <2>26, <2>27, <2>28, <2>29, <2>30
    DEF Next, Serve, ServeCall, Page
<1>3. TypeOK /\ OfferInv => OfferMeaningful
  <2>1. TypeOK /\ OfferInv /\ page = "offer" => saved \in 1 .. LastStep - 1 /\ saved # 0
    BY DEF OfferInv
  <2> QED BY <2>1 DEF OfferInv, OfferMeaningful
<1>4. TypeOK /\ OfferInv /\ [Next]_vars => OfferInv'
  BY <1>2
<1> QED BY <1>1, <1>3, <1>4, TypeCorrect, PTL DEF Spec
=============================================================================
