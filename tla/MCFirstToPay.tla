----------------------------- MODULE MCFirstToPay -----------------------------
(* Small instances of FirstToPay for TLC.                                     *)
EXTENDS FirstToPay, TLC

CONSTANTS e1, e2, p1, p2, p3, w1, w2

MCEventOf == (p1 :> e1) @@ (p2 :> e2)
MCDownpayment == SUBSET Payments \ {{}}
MCFull == {Payments}

\* Two events, one worker each: the race for the date.
MCRace == (w1 :> p1) @@ (w2 :> p2)

\* Two payments of one event that reach the downpayment together only.
MCEventOfInstalments == MCEventOf @@ (p3 :> e1)
MCInstalments == (w1 :> p1) @@ (w2 :> p3)
MCBothOrOther == {S \in SUBSET Payments : {p1, p3} \subseteq S \/ p2 \in S}
==============================================================================
