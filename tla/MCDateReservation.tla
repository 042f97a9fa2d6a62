-------------------------- MODULE MCDateReservation --------------------------
(* A small instance of DateReservation for TLC.                            *)
EXTENDS DateReservation, TLC

CONSTANTS s1, s2, d1, e1

\* One event that may be settled: two sessions compete for its date.
MCSessionOf == e1 :> s1
MCDateOf == e1 :> d1
==============================================================================
