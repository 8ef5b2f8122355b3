-------------------------- MODULE MCApprovalBridge --------------------------
(* Model values for the run of ApprovalBridge.                             *)
EXTENDS ApprovalBridge

CONSTANTS a1, c1, c2

MCIds == {a1}
MCCalls == {c1, c2}
=============================================================================
