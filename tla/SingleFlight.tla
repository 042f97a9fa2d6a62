----------------------------- MODULE SingleFlight -----------------------------
(***************************************************************************)
(* What the refresh mutex of a page promises: of the callers that meet an  *)
(* expired access token one refreshes it, those that come meanwhile wait   *)
(* for that one, and all of them go on when it is done.                    *)
(***************************************************************************)
CONSTANT Callers

VARIABLES leaders, waiters

Init == leaders = {} /\ waiters = {}

Lead(c) == leaders = {} /\ leaders' = {c} /\ UNCHANGED waiters

\* Nobody waits unless somebody refreshes.
Join(c) ==
  /\ leaders # {} /\ c \notin leaders \cup waiters
  /\ waiters' = waiters \cup {c}
  /\ UNCHANGED leaders

Release == leaders' = {} /\ waiters' = {}

Next == Release \/ \E c \in Callers : Lead(c) \/ Join(c)

Spec == Init /\ [][Next]_<<leaders, waiters>>
==============================================================================
