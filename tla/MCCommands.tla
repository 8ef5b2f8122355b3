----------------------------- MODULE MCCommands -----------------------------
(* Model values for the run of Commands.                                   *)
EXTENDS Commands

CONSTANT k1

MCRequests == 1..3
MCKeys == {k1}
=============================================================================
