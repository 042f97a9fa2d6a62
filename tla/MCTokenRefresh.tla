---------------------------- MODULE MCTokenRefresh ----------------------------
(* Small instances of TokenRefresh for TLC.                                  *)
EXTENDS TokenRefresh, TLC

CONSTANTS t1, t2, r1, r2

MCTabOf == (r1 :> t1) @@ (r2 :> t1)
==============================================================================
