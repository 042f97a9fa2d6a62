---------------------------- MODULE MCBookingDraft ----------------------------
(* A small instance of BookingDraft for TLC; it needs no definitions.      *)
EXTENDS BookingDraft
=============================================================================
