---------------------------- MODULE MCPermission ----------------------------
(* Model values for the run of Permission.                                 *)
EXTENDS Permission

CONSTANTS r1, r2

MCReqs == {r1, r2}
=============================================================================
