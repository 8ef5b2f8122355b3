-------------------------- MODULE MCEventDelivery --------------------------
(* Model values for the run of EventDelivery.                              *)
EXTENDS EventDelivery

CONSTANTS e1, e2, c1

MCEvents == {e1, e2}
MCConns == {c1}
=============================================================================
