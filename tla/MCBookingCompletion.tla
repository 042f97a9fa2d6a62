-------------------------- MODULE MCBookingCompletion --------------------------
(* Small instances of BookingCompletion for TLC.                              *)
EXTENDS BookingCompletion, TLC

CONSTANTS r1, r2, r3, r4

\* Two completions (a double click, a retry), an update and an abandon.
MCKinds == (r1 :> "complete") @@ (r2 :> "complete") @@ (r3 :> "update") @@ (r4 :> "abandon")

\* Two completions only.
MCCompletions == (r1 :> "complete") @@ (r2 :> "complete")
==============================================================================
