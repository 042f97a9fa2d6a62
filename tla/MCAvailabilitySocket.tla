------------------------- MODULE MCAvailabilitySocket -------------------------
(* Small instances of AvailabilitySocket for TLC.                            *)
EXTENDS AvailabilitySocket
=============================================================================
