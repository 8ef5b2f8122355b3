----------------------------- MODULE EventFeed -----------------------------
(***************************************************************************)
(* What the journal and the gateway promise together: a session's events   *)
(* form an append-only log without repetitions, and what a connection has  *)
(* received is in the log, at the sequence it was received under.  The     *)
(* order of reception and its completeness are not promised here.          *)
(***************************************************************************)
EXTENDS Naturals, Sequences, FiniteSets

CONSTANTS Events, Conns

VARIABLES log, received

feedVars == <<log, received>>

FeedInit ==
    /\ log = <<>>
    /\ received = [c \in Conns |-> {}]

Record(e) ==
    /\ \A n \in 1 .. Len(log) : log[n] # e
    /\ log' = Append(log, e)
    /\ UNCHANGED received

Receive(c, n) ==
    /\ n \in 1 .. Len(log)
    /\ received' = [received EXCEPT ![c] = @ \cup {<<n, log[n]>>}]
    /\ UNCHANGED log

FeedNext ==
    \/ \E e \in Events : Record(e)
    \/ \E c \in Conns : \E n \in 1 .. Len(log) : Receive(c, n)

FeedSpec == FeedInit /\ [][FeedNext]_feedVars
=============================================================================
