-------------------------- MODULE PermissionProofs --------------------------
(***************************************************************************)
(* Tool permissions for any number of requests.  Nothing here counts: the  *)
(* argument follows one request through the helper, its handler, the       *)
(* parked map and the decision, and every conjunct of the invariant says   *)
(* where these four may be at the same time.                               *)
(***************************************************************************)
EXTENDS Permission, TLAPS

-----------------------------------------------------------------------------
(* The inductive invariant.                                                *)

\* A helper that stopped waiting before it was answered: its deadline passed
\* or it died.
GaveUp(r) == (helper[r] = "deny" /\ r \in expired) \/ helper[r] = "gone"

\* The helper waits while the handler works, unless it gave up; it has an
\* answer of the handler only when the handler is done.
HelperShape ==
    \A r \in Reqs :
        /\ helper[r] = "idle" => handler[r] = "none"
        /\ handler[r] = "none" => helper[r] \in {"idle", "deny"} /\ r \notin expired
        /\ handler[r] \in {"lookup", "park", "send", "wait", "unpark", "reply"} =>
            helper[r] = "waiting" \/ GaveUp(r)
        /\ handler[r] = "done" => helper[r] = verdict[r] \/ GaveUp(r)

\* The handler has a verdict from its answer on.
VerdictShape ==
    \A r \in Reqs :
        verdict[r] = "none" <=> handler[r] \in {"none", "lookup", "park", "send", "wait"}

\* Only a handler between its two accesses of the map is parked, the channel of
\* a parked request is empty, one who waits is parked or answered, and what is
\* parked after the teardown parked after it.
ParkedShape ==
    \A r \in Reqs :
        /\ r \in parked => handler[r] \in {"send", "wait", "unpark"} /\ box[r] = "empty"
        /\ box[r] # "empty" => handler[r] \in {"send", "wait", "unpark", "reply", "done"}
        /\ handler[r] \in {"send", "wait"} => r \in parked \/ box[r] # "empty"
        /\ r \in parked => run \in {"running", "deleted"} \/ r \in late

\* Nobody decides what was not announced, and a request is parked before it is
\* announced.
AnnouncedShape ==
    \A r \in Reqs :
        /\ handler[r] \in {"lookup", "park", "send"} => r \notin announced
        /\ decide[r] # "idle" => r \in announced

\* An accepted decision is in the channel; an approval came from nowhere else.
OutcomeShape ==
    \A r \in Reqs :
        /\ outcome[r] = "none" <=> decide[r] # "done"
        /\ decision[r] = "none" <=> decide[r] = "idle"
        /\ outcome[r] = "parked" => box[r] = decision[r]
        /\ box[r] = "allow" => outcome[r] = "parked"

\* The verdict is what was in the channel, or a deny that no decision can
\* contradict any more: the helper gave up, or nobody heard of the request.
VerdictRight ==
    \A r \in Reqs :
        verdict[r] # "none" =>
            \/ verdict[r] = box[r]
            \/ verdict[r] = "deny" /\ (GaveUp(r) \/ r \notin announced)

\* A decision that found the run before its teardown finds nothing parked after
\* it.
LateDecision ==
    \A r \in Reqs :
        decide[r] = "resolve" /\ r \in parked => run \in {"running", "deleted"}

IInv ==
    /\ TypeOK /\ HelperShape /\ VerdictShape /\ ParkedShape
    /\ AnnouncedShape /\ OutcomeShape /\ VerdictRight /\ LateDecision

-----------------------------------------------------------------------------
(* One lemma per action.                                                   *)

\* A request starts with nothing parked, announced or decided.
LEMMA AskStep ==
  ASSUME IInv, NEW r \in Reqs, Ask(r)
  PROVE  IInv'
  <1> USE DEF IInv, Ask, Serve, Listening, runVars, helperVars, handleVars, parkVars, decideVars
  <1>1. TypeOK'
    BY DEF TypeOK, VerdictShape
  <1>2. HelperShape' /\ VerdictShape' /\ VerdictRight'
    BY DEF TypeOK, HelperShape, VerdictShape, ParkedShape, AnnouncedShape, VerdictRight, GaveUp
  <1>3. ParkedShape' /\ AnnouncedShape'
    BY DEF TypeOK, HelperShape, ParkedShape, AnnouncedShape
  <1>4. OutcomeShape' /\ LateDecision'
    BY DEF TypeOK, ParkedShape, AnnouncedShape, OutcomeShape, LateDecision
  <1>5. QED
    BY <1>1, <1>2, <1>3, <1>4

\* A deadline ends the wait of the helper and nothing else.
LEMMA HelperDeadlineStep ==
  ASSUME IInv, NEW r \in Reqs, HelperDeadline(r)
  PROVE  IInv'
  <1> USE DEF IInv, HelperDeadline, runVars, helperVars, handleVars, parkVars, decideVars
  <1>1. TypeOK'
    BY DEF TypeOK, VerdictShape
  <1>2. HelperShape' /\ VerdictShape' /\ VerdictRight'
    BY DEF TypeOK, HelperShape, VerdictShape, ParkedShape, AnnouncedShape, VerdictRight, GaveUp
  <1>3. ParkedShape' /\ AnnouncedShape'
    BY DEF TypeOK, HelperShape, ParkedShape, AnnouncedShape
  <1>4. OutcomeShape' /\ LateDecision'
    BY DEF TypeOK, ParkedShape, AnnouncedShape, OutcomeShape, LateDecision
  <1>5. QED
    BY <1>1, <1>2, <1>3, <1>4

\* The death of a helper touches neither its handler nor its decision.
LEMMA HelperDiesStep ==
  ASSUME IInv, NEW r \in Reqs, HelperDies(r)
  PROVE  IInv'
  <1> USE DEF IInv, HelperDies, runVars, helperVars, handleVars, parkVars, decideVars
  <1>1. TypeOK'
    BY DEF TypeOK, VerdictShape
  <1>2. HelperShape' /\ VerdictShape' /\ VerdictRight'
    BY DEF TypeOK, HelperShape, VerdictShape, ParkedShape, AnnouncedShape, VerdictRight, GaveUp
  <1>3. ParkedShape' /\ AnnouncedShape'
    BY DEF TypeOK, HelperShape, ParkedShape, AnnouncedShape
  <1>4. OutcomeShape' /\ LateDecision'
    BY DEF TypeOK, ParkedShape, AnnouncedShape, OutcomeShape, LateDecision
  <1>5. QED
    BY <1>1, <1>2, <1>3, <1>4

\* A handler that finds no run denies what nobody has heard of.
LEMMA LookupStep ==
  ASSUME IInv, NEW r \in Reqs, Lookup(r)
  PROVE  IInv'
  <1> USE DEF IInv, Lookup, runVars, helperVars, handleVars, parkVars, decideVars
  <1>1. TypeOK'
    BY DEF TypeOK, VerdictShape
  <1>2. HelperShape' /\ VerdictShape' /\ VerdictRight'
    BY DEF TypeOK, HelperShape, VerdictShape, ParkedShape, AnnouncedShape, VerdictRight, GaveUp
  <1>3. ParkedShape' /\ AnnouncedShape'
    BY DEF TypeOK, HelperShape, ParkedShape, AnnouncedShape
  <1>4. OutcomeShape' /\ LateDecision'
    BY DEF TypeOK, ParkedShape, AnnouncedShape, OutcomeShape, LateDecision
  <1>5. QED
    BY <1>1, <1>2, <1>3, <1>4

\* A request is parked before anyone can decide it.
LEMMA ParkStep ==
  ASSUME IInv, NEW r \in Reqs, Park(r)
  PROVE  IInv'
  <1> USE DEF IInv, Park, runVars, helperVars, handleVars, parkVars, decideVars
  <1>1. TypeOK'
    BY DEF TypeOK, VerdictShape
  <1>2. HelperShape' /\ VerdictShape' /\ VerdictRight'
    BY DEF TypeOK, HelperShape, VerdictShape, ParkedShape, AnnouncedShape, VerdictRight, GaveUp
  <1>3. ParkedShape' /\ AnnouncedShape'
    BY DEF TypeOK, HelperShape, ParkedShape, AnnouncedShape
  <1>4. OutcomeShape' /\ LateDecision'
    BY DEF TypeOK, ParkedShape, AnnouncedShape, OutcomeShape, LateDecision
  <1>5. QED
    BY <1>1, <1>2, <1>3, <1>4

\* A handler that panics denies what nobody has heard of.
LEMMA AnnouncePanicStep ==
  ASSUME IInv, NEW r \in Reqs, AnnouncePanic(r)
  PROVE  IInv'
  <1> USE DEF IInv, AnnouncePanic, runVars, helperVars, handleVars, parkVars, decideVars
  <1>1. TypeOK'
    BY DEF TypeOK, VerdictShape
  <1>2. HelperShape' /\ VerdictShape' /\ VerdictRight'
    BY DEF TypeOK, HelperShape, VerdictShape, ParkedShape, AnnouncedShape, VerdictRight, GaveUp
  <1>3. ParkedShape' /\ AnnouncedShape'
    BY DEF TypeOK, HelperShape, ParkedShape, AnnouncedShape
  <1>4. OutcomeShape' /\ LateDecision'
    BY DEF TypeOK, ParkedShape, AnnouncedShape, OutcomeShape, LateDecision
  <1>5. QED
    BY <1>1, <1>2, <1>3, <1>4

\* What is announced is parked or already answered by the teardown.
LEMMA AnnounceStep ==
  ASSUME IInv, NEW r \in Reqs, Announce(r)
  PROVE  IInv'
  <1> USE DEF IInv, Announce, runVars, helperVars, handleVars, parkVars, decideVars
  <1>1. TypeOK'
    BY DEF TypeOK, VerdictShape
  <1>2. HelperShape' /\ VerdictShape' /\ VerdictRight'
    BY DEF TypeOK, HelperShape, VerdictShape, ParkedShape, AnnouncedShape, VerdictRight, GaveUp
  <1>3. ParkedShape' /\ AnnouncedShape'
    BY DEF TypeOK, HelperShape, ParkedShape, AnnouncedShape
  <1>4. OutcomeShape' /\ LateDecision'
    BY DEF TypeOK, ParkedShape, AnnouncedShape, OutcomeShape, LateDecision
  <1>5. QED
    BY <1>1, <1>2, <1>3, <1>4

\* The handler takes what is in the channel.
LEMMA ReceiveStep ==
  ASSUME IInv, NEW r \in Reqs, Receive(r)
  PROVE  IInv'
  <1> USE DEF IInv, Receive, runVars, helperVars, handleVars, parkVars, decideVars
  <1>1. TypeOK'
    BY DEF TypeOK, VerdictShape
  <1>2. HelperShape' /\ VerdictShape' /\ VerdictRight'
    BY DEF TypeOK, HelperShape, VerdictShape, ParkedShape, AnnouncedShape, VerdictRight, GaveUp
  <1>3. ParkedShape' /\ AnnouncedShape'
    BY DEF TypeOK, HelperShape, ParkedShape, AnnouncedShape
  <1>4. OutcomeShape' /\ LateDecision'
    BY DEF TypeOK, ParkedShape, AnnouncedShape, OutcomeShape, LateDecision
  <1>5. QED
    BY <1>1, <1>2, <1>3, <1>4

\* The handler times out only after its helper gave up.
LEMMA TimeoutStep ==
  ASSUME IInv, NEW r \in Reqs, Timeout(r)
  PROVE  IInv'
  <1> USE DEF IInv, Timeout, runVars, helperVars, handleVars, parkVars, decideVars
  <1>1. TypeOK'
    BY DEF TypeOK, VerdictShape
  <1>2. HelperShape' /\ VerdictShape' /\ VerdictRight'
    BY DEF TypeOK, HelperShape, VerdictShape, ParkedShape, AnnouncedShape, VerdictRight, GaveUp
  <1>3. ParkedShape' /\ AnnouncedShape'
    BY DEF TypeOK, HelperShape, ParkedShape, AnnouncedShape
  <1>4. OutcomeShape' /\ LateDecision'
    BY DEF TypeOK, ParkedShape, AnnouncedShape, OutcomeShape, LateDecision
  <1>5. QED
    BY <1>1, <1>2, <1>3, <1>4

\* The deferred delete leaves the channel as it is.
LEMMA UnparkStep ==
  ASSUME IInv, NEW r \in Reqs, Unpark(r)
  PROVE  IInv'
  <1> USE DEF IInv, Unpark, runVars, helperVars, handleVars, parkVars, decideVars
  <1>1. TypeOK'
    BY DEF TypeOK, VerdictShape
  <1>2. HelperShape' /\ VerdictShape' /\ VerdictRight'
    BY DEF TypeOK, HelperShape, VerdictShape, ParkedShape, AnnouncedShape, VerdictRight, GaveUp
  <1>3. ParkedShape' /\ AnnouncedShape'
    BY DEF TypeOK, HelperShape, ParkedShape, AnnouncedShape
  <1>4. OutcomeShape' /\ LateDecision'
    BY DEF TypeOK, ParkedShape, AnnouncedShape, OutcomeShape, LateDecision
  <1>5. QED
    BY <1>1, <1>2, <1>3, <1>4

\* The verdict reaches a helper that still waits.
LEMMA ReplyStep ==
  ASSUME IInv, NEW r \in Reqs, Reply(r)
  PROVE  IInv'
  <1> USE DEF IInv, Reply, runVars, helperVars, handleVars, parkVars, decideVars
  <1>1. TypeOK'
    BY DEF TypeOK, VerdictShape
  <1>2. HelperShape' /\ VerdictShape' /\ VerdictRight'
    BY DEF TypeOK, HelperShape, VerdictShape, ParkedShape, AnnouncedShape, VerdictRight, GaveUp
  <1>3. ParkedShape' /\ AnnouncedShape'
    BY DEF TypeOK, HelperShape, ParkedShape, AnnouncedShape
  <1>4. OutcomeShape' /\ LateDecision'
    BY DEF TypeOK, ParkedShape, AnnouncedShape, OutcomeShape, LateDecision
  <1>5. QED
    BY <1>1, <1>2, <1>3, <1>4

\* The parser announces only requests that no helper has asked.
LEMMA EmitParsedStep ==
  ASSUME IInv, NEW r \in Reqs, emitParsed(r)
  PROVE  IInv'
  <1> USE DEF IInv, emitParsed, runVars, helperVars, handleVars, parkVars, decideVars
  <1>1. TypeOK'
    BY DEF TypeOK, VerdictShape
  <1>2. HelperShape' /\ VerdictShape' /\ VerdictRight'
    BY DEF TypeOK, HelperShape, VerdictShape, ParkedShape, AnnouncedShape, VerdictRight, GaveUp
  <1>3. ParkedShape' /\ AnnouncedShape'
    BY DEF TypeOK, HelperShape, ParkedShape, AnnouncedShape
  <1>4. OutcomeShape' /\ LateDecision'
    BY DEF TypeOK, ParkedShape, AnnouncedShape, OutcomeShape, LateDecision
  <1>5. QED
    BY <1>1, <1>2, <1>3, <1>4

\* A decision that finds the run starts before the teardown.
LEMMA DecideLookupStep ==
  ASSUME IInv, NEW r \in Reqs, DecideLookup(r)
  PROVE  IInv'
  <1> USE DEF IInv, DecideLookup, runVars, helperVars, handleVars, parkVars, decideVars
  <1>1. TypeOK'
    BY DEF TypeOK, VerdictShape
  <1>2. HelperShape' /\ VerdictShape' /\ VerdictRight'
    BY DEF TypeOK, HelperShape, VerdictShape, ParkedShape, AnnouncedShape, VerdictRight, GaveUp
  <1>3. ParkedShape' /\ AnnouncedShape'
    BY DEF TypeOK, HelperShape, ParkedShape, AnnouncedShape
  <1>4. OutcomeShape' /\ LateDecision'
    BY DEF TypeOK, ParkedShape, AnnouncedShape, OutcomeShape, LateDecision
  <1>5. QED
    BY <1>1, <1>2, <1>3, <1>4

\* The decision is put into an empty channel.
LEMMA ResolveParkedStep ==
  ASSUME IInv, NEW r \in Reqs, resolveParked(r)
  PROVE  IInv'
  <1> USE DEF IInv, resolveParked, runVars, helperVars, handleVars, parkVars, decideVars
  <1>1. TypeOK'
    BY DEF TypeOK, OutcomeShape
  <1>2. HelperShape' /\ VerdictShape' /\ VerdictRight'
    BY DEF TypeOK, HelperShape, VerdictShape, ParkedShape, AnnouncedShape, VerdictRight, GaveUp
  <1>3. ParkedShape' /\ AnnouncedShape'
    BY DEF TypeOK, HelperShape, ParkedShape, AnnouncedShape
  <1>4. OutcomeShape' /\ LateDecision'
    BY DEF TypeOK, ParkedShape, AnnouncedShape, OutcomeShape, LateDecision
  <1>5. QED
    BY <1>1, <1>2, <1>3, <1>4

\* A decision that found nothing parked is not accepted for a parked request.
LEMMA DecideStdinStep ==
  ASSUME IInv, NEW r \in Reqs, DecideStdin(r)
  PROVE  IInv'
  <1> USE DEF IInv, DecideStdin, runVars, helperVars, handleVars, parkVars, decideVars
  <1>1. TypeOK'
    BY DEF TypeOK, VerdictShape
  <1>2. HelperShape' /\ VerdictShape' /\ VerdictRight'
    BY DEF TypeOK, HelperShape, VerdictShape, ParkedShape, AnnouncedShape, VerdictRight, GaveUp
  <1>3. ParkedShape' /\ AnnouncedShape'
    BY DEF TypeOK, HelperShape, ParkedShape, AnnouncedShape
  <1>4. OutcomeShape' /\ LateDecision'
    BY DEF TypeOK, ParkedShape, AnnouncedShape, OutcomeShape, LateDecision
  <1>5. QED
    BY <1>1, <1>2, <1>3, <1>4

\* The exit of the process leaves every request where it is.
LEMMA ProcessExitStep ==
  ASSUME IInv, ProcessExit
  PROVE  IInv'
  <1> USE DEF IInv, ProcessExit, runVars, helperVars, handleVars, parkVars, decideVars
  <1>1. TypeOK'
    BY DEF TypeOK, VerdictShape
  <1>2. HelperShape' /\ VerdictShape' /\ VerdictRight'
    BY DEF TypeOK, HelperShape, VerdictShape, ParkedShape, AnnouncedShape, VerdictRight, GaveUp
  <1>3. ParkedShape' /\ AnnouncedShape'
    BY DEF TypeOK, HelperShape, ParkedShape, AnnouncedShape
  <1>4. OutcomeShape' /\ LateDecision'
    BY DEF TypeOK, ParkedShape, AnnouncedShape, OutcomeShape, LateDecision
  <1>5. QED
    BY <1>1, <1>2, <1>3, <1>4

\* So does the removal of the run from the map.
LEMMA PumpDeleteStep ==
  ASSUME IInv, PumpDelete
  PROVE  IInv'
  <1> USE DEF IInv, PumpDelete, runVars, helperVars, handleVars, parkVars, decideVars
  <1>1. TypeOK'
    BY DEF TypeOK, VerdictShape
  <1>2. HelperShape' /\ VerdictShape' /\ VerdictRight'
    BY DEF TypeOK, HelperShape, VerdictShape, ParkedShape, AnnouncedShape, VerdictRight, GaveUp
  <1>3. ParkedShape' /\ AnnouncedShape'
    BY DEF TypeOK, HelperShape, ParkedShape, AnnouncedShape
  <1>4. OutcomeShape' /\ LateDecision'
    BY DEF TypeOK, ParkedShape, AnnouncedShape, OutcomeShape, LateDecision
  <1>5. QED
    BY <1>1, <1>2, <1>3, <1>4

\* The teardown denies what is parked, into empty channels.
LEMMA CleanupPermissionStep ==
  ASSUME IInv, cleanupPermission
  PROVE  IInv'
  <1> USE DEF IInv, cleanupPermission, runVars, helperVars, handleVars, parkVars, decideVars
  <1>1. TypeOK'
    BY DEF TypeOK, VerdictShape
  <1>2. HelperShape' /\ VerdictShape' /\ VerdictRight'
    BY DEF TypeOK, HelperShape, VerdictShape, ParkedShape, AnnouncedShape, VerdictRight, GaveUp
  <1>3. ParkedShape' /\ AnnouncedShape'
    BY DEF TypeOK, HelperShape, ParkedShape, AnnouncedShape
  <1>4. OutcomeShape' /\ LateDecision'
    BY DEF TypeOK, ParkedShape, AnnouncedShape, OutcomeShape, LateDecision
  <1>5. QED
    BY <1>1, <1>2, <1>3, <1>4

\* The signal channel is closed after the teardown.
LEMMA PumpCloseStep ==
  ASSUME IInv, PumpClose
  PROVE  IInv'
  <1> USE DEF IInv, PumpClose, runVars, helperVars, handleVars, parkVars, decideVars
  <1>1. TypeOK'
    BY DEF TypeOK, VerdictShape
  <1>2. HelperShape' /\ VerdictShape' /\ VerdictRight'
    BY DEF TypeOK, HelperShape, VerdictShape, ParkedShape, AnnouncedShape, VerdictRight, GaveUp
  <1>3. ParkedShape' /\ AnnouncedShape'
    BY DEF TypeOK, HelperShape, ParkedShape, AnnouncedShape
  <1>4. OutcomeShape' /\ LateDecision'
    BY DEF TypeOK, ParkedShape, AnnouncedShape, OutcomeShape, LateDecision
  <1>5. QED
    BY <1>1, <1>2, <1>3, <1>4

-----------------------------------------------------------------------------
(* Theorems.                                                               *)

\* A run starts with no request.
LEMMA InitInv == Init => IInv
  BY DEF Init, IInv, TypeOK, HelperShape, VerdictShape, ParkedShape, AnnouncedShape,
         OutcomeShape, VerdictRight, LateDecision, GaveUp

\* Every step keeps the invariant.
LEMMA NextInv == IInv /\ [Next]_vars => IInv'
  <1> SUFFICES ASSUME IInv, [Next]_vars
               PROVE  IInv'
    OBVIOUS
  <1>1. CASE UNCHANGED vars
    BY <1>1 DEF vars, runVars, helperVars, handleVars, parkVars, decideVars, IInv, TypeOK,
       HelperShape, VerdictShape, ParkedShape, AnnouncedShape, OutcomeShape, VerdictRight,
       LateDecision, GaveUp
  <1>2. ASSUME NEW r \in Reqs, handlePermission(r)
        PROVE  IInv'
    BY <1>2, LookupStep, ParkStep, AnnounceStep, AnnouncePanicStep, ReceiveStep, TimeoutStep,
       UnparkStep, ReplyStep DEF handlePermission
  <1>3. ASSUME NEW r \in Reqs, DecideApproval(r)
        PROVE  IInv'
    BY <1>3, DecideLookupStep, ResolveParkedStep, DecideStdinStep DEF DecideApproval
  <1>4. QED
    BY <1>1, <1>2, <1>3, AskStep, HelperDeadlineStep, HelperDiesStep, EmitParsedStep,
       ProcessExitStep, PumpDeleteStep, CleanupPermissionStep, PumpCloseStep DEF Next

\* The invariant holds throughout.
LEMMA Invariance == Spec => []IInv
  BY InitInv, NextInv, PTL DEF Spec

\* Helpers, handlers, the parked map and decisions keep their types
\* (adapter/claude/permission.go, internal/mcpperm).
THEOREM TypeCorrect == Spec => []TypeOK
  BY Invariance, PTL DEF IInv

\* A tool is allowed only by an approval that found its request parked: no
\* timeout, teardown, panic or transport failure allows one
\* (handlePermission, DecideOverSocket).
THEOREM FailsClosed == Spec => []FailClosed
  <1>1. IInv => FailClosed
    BY DEF IInv, FailClosed, TypeOK, HelperShape, VerdictShape, VerdictRight, OutcomeShape, GaveUp
  <1>2. QED
    BY <1>1, Invariance, PTL

\* A decision accepted for a parked request is what the agent gets, unless
\* the helper's own deadline passed (resolveParked, handlePermission).
THEOREM AcceptedIsEffective == Spec => []AcceptedTakesEffect
  <1>1. IInv => AcceptedTakesEffect
    BY DEF IInv, AcceptedTakesEffect, TypeOK, HelperShape, VerdictShape, ParkedShape,
           AnnouncedShape, OutcomeShape, VerdictRight, GaveUp
  <1>2. QED
    BY <1>1, Invariance, PTL

\* A handler that waits has its answer, or is parked before the teardown is
\* over, or parked when it was over and has only its timeout; one that is done
\* has left the parked map (handlePermission, its deferred delete,
\* cleanupPermission).
THEOREM WaitersReachable == Spec => []NobodyStranded
  <1>1. IInv => NobodyStranded
    BY DEF IInv, NobodyStranded, ParkedShape
  <1>2. QED
    BY <1>1, Invariance, PTL

\* No step after the teardown accepts a decision for a parked request
\* (DecideApproval racing cleanupPermission).
THEOREM TeardownIsFinal == Spec => NoDecisionAfterEnd
  <1> DEFINE Kept == \A r \in Reqs : run \in {"cleaned", "closed"} /\ outcome[r] # "parked"
                                        => outcome'[r] # "parked"
  <1>1. IInv /\ [Next]_vars => [Kept]_vars
    <2> SUFFICES ASSUME IInv, Next, NEW q \in Reqs,
                        run \in {"cleaned", "closed"}, outcome[q] # "parked",
                        outcome'[q] = "parked"
                 PROVE  FALSE
      OBVIOUS
    <2>1. ASSUME NEW r \in Reqs, resolveParked(r)
          PROVE  FALSE
      BY <2>1 DEF resolveParked, IInv, TypeOK, LateDecision
    <2>2. ASSUME NEW r \in Reqs, DecideLookup(r) \/ DecideStdin(r)
          PROVE  FALSE
      BY <2>2 DEF DecideLookup, DecideStdin, IInv, TypeOK
    <2>3. ASSUME NEW r \in Reqs, Ask(r) \/ HelperDeadline(r) \/ HelperDies(r)
                                 \/ handlePermission(r) \/ emitParsed(r)
          PROVE  FALSE
      BY <2>3 DEF Ask, HelperDeadline, HelperDies, handlePermission, emitParsed, Lookup, Park,
                  AnnouncePanic, Announce, Receive, Timeout, Unpark, Reply, decideVars
    <2>4. ProcessExit \/ PumpDelete \/ cleanupPermission \/ PumpClose => FALSE
      BY DEF ProcessExit, PumpDelete, cleanupPermission, PumpClose, decideVars
    <2>5. QED
      BY <2>1, <2>2, <2>3, <2>4 DEF Next, DecideApproval
  <1>2. QED
    BY <1>1, Invariance, PTL DEF Spec, NoDecisionAfterEnd
=============================================================================
