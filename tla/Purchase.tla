------------------------------- MODULE Purchase -------------------------------
(***************************************************************************)
(* What the payment of an invoice promises of every attempt: it is charged *)
(* at most once, what was charged is noted as paid at most once and only   *)
(* then, and neither is ever taken back.  Nothing else charges or notes.   *)
(***************************************************************************)
EXTENDS Integers

CONSTANTS Attempts, Total

VARIABLES
  phase,        \* of an attempt: none, charged or noted
  taken, paid   \* what has been charged, and noted, of all attempts

Init ==
  /\ phase = [p \in Attempts |-> "none"]
  /\ taken = 0 /\ paid = 0

Moves(p, from, to) ==
  /\ phase[p] = from
  /\ phase' = [phase EXCEPT ![p] = to]

Take(p) ==
  /\ Moves(p, "none", "charged")
  /\ \E a \in 1..Total : taken' = taken + a
  /\ UNCHANGED paid

Note(p) ==
  /\ Moves(p, "charged", "noted")
  /\ \E a \in 1..Total : paid' = paid + a
  /\ UNCHANGED taken

Next == \E p \in Attempts : Take(p) \/ Note(p)

Spec == Init /\ [][Next]_<<phase, taken, paid>>
=============================================================================
