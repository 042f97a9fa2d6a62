------------------------------ MODULE DateLease ------------------------------
(***************************************************************************)
(* What the reservation service promises: a calendar date is leased to at  *)
(* most one booking session at a time, a lease starts only on a free date, *)
(* and it ends (released, confirmed or expired) before the next one        *)
(* starts.  It is the contract stated by the docstring of DateReservation  *)
(* (event_supporting.py:216-225): one client holds a date while its payment *)
(* window is open.                                                         *)
(***************************************************************************)
CONSTANTS Sessions, Dates, None

VARIABLE holder   \* holder[d] is the session that holds date d, or None

Init == holder = [d \in Dates |-> None]

\* A free date is granted to one session.
Grant(d, s) ==
  /\ holder[d] = None
  /\ holder' = [holder EXCEPT ![d] = s]

\* Leases end: one by release or confirmation, several at once when time passes.
Lapse(D) == holder' = [d \in Dates |-> IF d \in D THEN None ELSE holder[d]]

Next ==
  \/ \E d \in Dates, s \in Sessions : Grant(d, s)
  \/ \E D \in SUBSET Dates : Lapse(D)

Spec == Init /\ [][Next]_holder
==============================================================================
