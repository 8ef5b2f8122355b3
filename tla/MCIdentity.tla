----------------------------- MODULE MCIdentity -----------------------------
(* Model values for the run of Identity.                                   *)
EXTENDS Identity

CONSTANT d1

MCCodes == 1..3
MCKeys == {d1}
MCCalls == 1..3
=============================================================================
