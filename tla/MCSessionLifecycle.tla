------------------------- MODULE MCSessionLifecycle -------------------------
(* Model values and symmetry for the runs of SessionLifecycle.             *)
EXTENDS SessionLifecycle, TLC

CONSTANTS s1, s2, i1, p1, p2

MCOneStart == {s1}
MCStarts == {s1, s2}
MCInterrupts == {i1}
MCNoInterrupts == {}
MCOneApproval == {p1}
MCTwoApprovals == {p1, p2}

MCSymmetry == Permutations(MCStarts)
=============================================================================
