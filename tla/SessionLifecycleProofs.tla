----------------------- MODULE SessionLifecycleProofs -----------------------
(***************************************************************************)
(* What holds of a session's life for any number of requests, approvals    *)
(* and restarts and any capacity of the signal channel.                    *)
(*                                                                         *)
(* The inductive invariant IInv has one part per argument: Typed; Reads,   *)
(* that a request acts on a state its own check let pass; Owner, that the  *)
(* run belongs to the call whose row is stored; Spawned, that whoever is   *)
(* observed or in the row has a process; Quiet, that no request is in      *)
(* progress outside the running phase; Marked and Reconciled, how a stop   *)
(* and a restart leave the session.                                        *)
(***************************************************************************)
EXTENDS SessionLifecycle, FiniteSetTheorems, TLAPS

\* The nine states of session/manager.go.
LEMMA StateNames ==
  SessionStates = {"created", "starting", "active", "waiting_approval", "interrupted",
                   "completed", "failed", "resumable", "recovering"}
  BY DEF SessionStates, validTransitions

\* The observer handles a signal of a process's channel, and the branch it takes in
\* observeAdapter fits the signal.
ObserverShape ==
    /\ obsPc \in {"loop", "request", "setPending", "waiting", "reload", "announce",
                  "complete", "emit", "cancel"} => obsChan \in Starts
    /\ obsPc \in {"request", "setPending"} => obsSignal \in Approvals
    /\ obsPc = "complete" => obsSignal \in {"completed", "failed"}

Typed == TypeOK /\ ObserverShape

\* The new server's variables have their types.
LEMMA InitTyped == Init => Typed
  BY StateNames DEF Init, Typed, TypeOK, ObserverShape

\* Every step of the service, the adapter, the observer and the lifecycle manager
\* keeps the types.
LEMMA TypedStep == Typed /\ [Next]_vars => Typed'
  <1> SUFFICES ASSUME Typed, [Next]_vars
               PROVE  Typed'
    OBVIOUS
  <1> USE StateNames DEF Typed, TypeOK, ObserverShape
  <1>1. ASSUME NEW c \in Starts, StartRead(c)
        PROVE  Typed'
    BY <1>1 DEF StartRead, dbVars, procVars, obsVars, callVars, lifeVars
  <1>2. ASSUME NEW c \in Starts, StartTransition(c)
        PROVE  Typed'
    BY <1>2 DEF StartTransition, UpdateState, procVars, obsVars, callVars, lifeVars
  <1>3. ASSUME NEW c \in Starts, StartSpawn(c)
        PROVE  Typed'
    <2>1. startPc' \in [Starts -> {"idle", "transition", "spawn", "fail", "failEmit", "create",
                                   "register", "emit", "done", "refused", "dead"}]
      BY ZenonT(60), <1>3 DEF StartSpawn
    <2>2. /\ proc' \in [Starts -> {"none", "running", "exited", "lost"}]
          /\ runs' \in Starts \cup {NoRun}
      BY <1>3 DEF StartSpawn
    <2>3. UNCHANGED <<dbVars, approval, seen, signals, closed, lines, obsVars, callVars,
                      lifeVars, shown>>
      BY <1>3 DEF StartSpawn
    <2>4. QED
      BY <2>1, <2>2, <2>3 DEF dbVars, obsVars, callVars, lifeVars
  <1>4. ASSUME NEW c \in Starts, StartFail(c)
        PROVE  Typed'
    BY <1>4 DEF StartFail, UpdateState, procVars, obsVars, callVars, lifeVars
  <1>5. ASSUME NEW c \in Starts, StartFailEmit(c)
        PROVE  Typed'
    BY <1>5 DEF StartFailEmit, emitEvent, procVars, obsVars, callVars, lifeVars
  <1>6. ASSUME NEW c \in Starts, StartCreate(c)
        PROVE  Typed'
    <2>1. /\ startPc' \in [Starts -> {"idle", "transition", "spawn", "fail", "failEmit",
                                      "create", "register", "emit", "done", "refused", "dead"}]
          /\ runRow' \in Starts \cup {NoRun}
      BY <1>6 DEF StartCreate
    <2>2. UNCHANGED <<session, pending, journal, approval, seen, procVars, obsVars, callVars,
                      lifeVars, shown>>
      BY <1>6 DEF StartCreate
    <2>3. QED
      BY <2>1, <2>2 DEF procVars, obsVars, callVars, lifeVars
  <1>7. ASSUME NEW c \in Starts, StartRegister(c)
        PROVE  Typed'
    BY <1>7 DEF StartRegister, UpdateState, procVars, obsVars, callVars
  <1>8. ASSUME NEW c \in Starts, StartEmit(c)
        PROVE  Typed'
    <2>1. CASE emitEvent("run.started") /\ obsPc' = "observe" /\ obsState' = seen[c]
               /\ startPc' = [startPc EXCEPT ![c] = "done"]
      BY <1>8, <2>1 DEF StartEmit, emitEvent, procVars, callVars, lifeVars
    <2>2. CASE /\ startPc' = [startPc EXCEPT ![c] = "refused"]
               /\ UNCHANGED <<journal, obsPc, obsState>>
      BY <1>8, <2>2 DEF StartEmit, procVars, callVars, lifeVars
    <2>3. QED
      BY <1>8, <2>1, <2>2 DEF StartEmit
  <1>9. ASSUME NEW c \in Starts, NEW a \in Approvals, AskApproval(c, a)
        PROVE  Typed'
    BY <1>9 DEF AskApproval, Sent, dbVars, startVars, obsVars, callVars, lifeVars
  <1>10. ASSUME NEW c \in Starts, ProcessExit(c)
        PROVE  Typed'
    <2>1. \A s \in {"completed", "failed"} :
             Sent(c, s) \in [Starts -> Seq(Approvals \cup {"completed", "failed"})]
      BY <1>10 DEF Sent
    <2>2. /\ signals' \in [Starts -> Seq(Approvals \cup {"completed", "failed"})]
          /\ proc' \in [Starts -> {"none", "running", "exited", "lost"}]
      BY <1>10, <2>1 DEF ProcessExit
    <2>3. UNCHANGED <<dbVars, approval, startVars, runs, closed, lines, obsVars, callVars,
                      lifeVars, shown>>
      BY <1>10 DEF ProcessExit
    <2>4. QED
      BY <2>2, <2>3 DEF dbVars, startVars, obsVars, callVars, lifeVars
  <1>11. ASSUME NEW c \in Starts, ParsedCompletion(c)
        PROVE  Typed'
    <2>1. \A s \in {"completed", "failed"} :
             Sent(c, s) \in [Starts -> Seq(Approvals \cup {"completed", "failed"})]
      BY <1>11 DEF Sent
    <2>2. /\ signals' \in [Starts -> Seq(Approvals \cup {"completed", "failed"})]
          /\ lines' \in Nat
      BY <1>11, <2>1 DEF ParsedCompletion
    <2>3. UNCHANGED <<dbVars, approval, startVars, proc, runs, closed, obsVars, callVars,
                      lifeVars, shown>>
      BY <1>11 DEF ParsedCompletion
    <2>4. QED
      BY <2>2, <2>3 DEF dbVars, startVars, obsVars, callVars, lifeVars
  <1>12. ASSUME NEW c \in Starts, PumpEnd(c)
        PROVE  Typed'
    BY <1>12 DEF PumpEnd, dbVars, startVars, obsVars, callVars, lifeVars
  <1>13. CASE ObserveBegin
    BY <1>13 DEF ObserveBegin, dbVars, startVars, procVars, callVars, lifeVars
  <1>14. CASE ObserveTake
    BY <1>14 DEF ObserveTake, dbVars, startVars, callVars, lifeVars
  <1>15. CASE ObserveClosed
    BY <1>15 DEF ObserveClosed, dbVars, startVars, procVars, callVars, lifeVars
  <1>16. CASE ObserveEnd
    BY <1>16 DEF ObserveEnd, dbVars, startVars, procVars, callVars
  <1>17. CASE HandleRequest
    BY <1>17 DEF HandleRequest, dbVars, startVars, procVars, callVars, lifeVars
  <1>18. CASE HandleSetPending
    BY <1>18 DEF HandleSetPending, startVars, procVars, callVars, lifeVars
  <1>19. CASE HandleWaiting
    BY <1>19 DEF HandleWaiting, UpdateState, startVars, procVars, callVars, lifeVars
  <1>20. CASE HandleReload
    BY <1>20 DEF HandleReload, dbVars, startVars, procVars, callVars, lifeVars
  <1>21. CASE HandleAnnounce
    BY <1>21 DEF HandleAnnounce, emitEvent, startVars, procVars, callVars, lifeVars
  <1>22. CASE HandleComplete
    BY <1>22 DEF HandleComplete, UpdateState, startVars, procVars, callVars, lifeVars
  <1>23. CASE HandleCompleteEmit
    BY <1>23 DEF HandleCompleteEmit, emitEvent, startVars, procVars, callVars, lifeVars
  <1>24. CASE HandleCancel
    <2>1. approval' = approval
            \/ \E a \in Approvals : approval' = [approval EXCEPT ![a] = "cancelled"]
      BY <1>24 DEF HandleCancel
    <2>2. journal' = journal \/ journal' = Append(journal, "approval.resolved")
      BY <1>24 DEF HandleCancel, emitEvent
    <2>3. /\ obsPc = "cancel"
          /\ obsPc' \in {"loop", "cancel"}
      BY <1>24 DEF HandleCancel
    <2>4. UNCHANGED <<session, pending, runRow, startVars, procVars, obsState, obsChan,
                      obsSignal, callVars, lifeVars, shown>>
      BY <1>24 DEF HandleCancel
    <2>5. approval' \in [Approvals -> {"none", "asked", "pending", "decided", "cancelled",
                                       "expired"}]
      BY <2>1
    <2>6. journal' \in Seq({"session.created", "run.start_failed", "run.started",
                            "approval.requested", "approval.resolved", "run.interrupted",
                            "run.completed"})
      <3>1. CASE journal' = journal
        BY <3>1
      <3>2. CASE journal' = Append(journal, "approval.resolved")
        BY <3>2
      <3>3. QED
        BY <2>2, <3>1, <3>2
    <2>7. QED
      BY <2>3, <2>4, <2>5, <2>6 DEF startVars, procVars, callVars, lifeVars
  <1>25. ASSUME NEW i \in Interrupts, InterruptRead(i)
        PROVE  Typed'
    BY <1>25 DEF InterruptRead, dbVars, startVars, procVars, obsVars, lifeVars
  <1>26. ASSUME NEW i \in Interrupts, InterruptSignal(i)
        PROVE  Typed'
    BY SMTT(30), <1>26 DEF InterruptSignal, dbVars, startVars, procVars, obsVars, lifeVars
  <1>27. ASSUME NEW i \in Interrupts, InterruptUpdate(i)
        PROVE  Typed'
    BY <1>27 DEF InterruptUpdate, UpdateState, startVars, procVars, obsVars, lifeVars
  <1>28. ASSUME NEW i \in Interrupts, InterruptEmit(i)
        PROVE  Typed'
    BY <1>28 DEF InterruptEmit, emitEvent, startVars, procVars, obsVars, lifeVars
  <1>29. ASSUME NEW a \in Approvals, ResolveDecide(a)
        PROVE  Typed'
    BY <1>29 DEF ResolveDecide, dbVars, startVars, procVars, obsVars, lifeVars
  <1>30. ASSUME NEW a \in Approvals, ResolveEmit(a)
        PROVE  Typed'
    BY <1>30 DEF ResolveEmit, emitEvent, startVars, procVars, obsVars, lifeVars
  <1>31. ASSUME NEW a \in Approvals, ResolveClear(a)
        PROVE  Typed'
    BY <1>31 DEF ResolveClear, startVars, procVars, obsVars, lifeVars
  <1>32. ASSUME NEW a \in Approvals, ExpireApproval(a)
        PROVE  Typed'
    BY <1>32 DEF ExpireApproval, dbVars, startVars, procVars, obsVars, callVars, lifeVars
  <1>33. CASE CloseServer
    BY <1>33 DEF CloseServer, dbVars, startVars, procVars, obsVars, callVars
  <1>34. CASE ShutdownBegin
    BY <1>34 DEF ShutdownBegin, dbVars, startVars, procVars, obsVars, callVars
  <1>35. CASE DrainDone
    BY <1>35 DEF DrainDone, dbVars, startVars, procVars, obsVars, callVars
  <1>36. CASE DrainTimeout
    BY <1>36 DEF DrainTimeout, dbVars, startVars, procVars, obsVars, callVars
  <1>37. CASE DrainMark
    BY <1>37 DEF DrainMark, startVars, procVars, obsVars, callVars
  <1>38. CASE MarkList
    BY <1>38 DEF MarkList, dbVars, startVars, procVars, obsVars, callVars
  <1>39. CASE MarkUpdate
    BY <1>39 DEF MarkUpdate, startVars, procVars, obsVars, callVars
  <1>40. CASE ShutdownEnd
    BY <1>40 DEF ShutdownEnd, MemoryLost, dbVars
  <1>41. CASE Crash
    BY <1>41 DEF Crash, MemoryLost, dbVars
  <1>42. CASE ReconcileMark
    BY <1>42 DEF ReconcileMark, startVars, procVars, obsVars, callVars
  <1>43. CASE ReconcileResolve
    BY <1>43 DEF ReconcileResolve, UpdateState, startVars, procVars, obsVars, callVars
  <1>44. CASE UNCHANGED vars
    BY <1>44 DEF vars, dbVars, startVars, procVars, obsVars, callVars, lifeVars
  <1>45. QED
    BY <1>1, <1>2, <1>3, <1>4, <1>5, <1>6, <1>7, <1>8, <1>9, <1>10, <1>11, <1>12, <1>13,
       <1>14, <1>15, <1>16, <1>17, <1>18, <1>19, <1>20, <1>21, <1>22, <1>23, <1>24, <1>25,
       <1>26, <1>27, <1>28, <1>29, <1>30, <1>31, <1>32, <1>33, <1>34, <1>35, <1>36, <1>37,
       <1>38, <1>39, <1>40, <1>41, <1>42, <1>43, <1>44
    DEF Next, StartRun, Observer, Interrupt, ResolveApproval, Shutdown

-----------------------------------------------------------------------------
(* What a step does to the stored session state.                           *)

\* What session.CanTransition answers where the service asks it.
LEMMA Table ==
  /\ \A s \in SessionStates : CanTransition(s, "starting") => s \in {"created", "resumable"}
  /\ \A s \in SessionStates : CanTransition(s, "waiting_approval") => s = "active"
  /\ \A s \in SessionStates : CanTransition(s, "completed") \/ CanTransition(s, "failed")
                                  => s \notin {"completed", "failed"}
  /\ CanTransition("starting", "active") /\ CanTransition("starting", "failed")
  /\ CanTransition("active", "interrupted") /\ CanTransition("waiting_approval", "interrupted")
  /\ CanTransition("recovering", "failed")
  BY StateNames DEF CanTransition, validTransitions

\* The state a request acts on is one its own check let pass.
Reads ==
    /\ \A c \in Starts : startPc[c] = "transition" => CanTransition(seen[c], "starting")
    /\ \A i \in Interrupts :
          intPc[i] \in {"signal", "update"} => intSeen[i] \in {"active", "waiting_approval"}

\* A request writes the state it read before it leaves the guard behind, so every
\* step keeps Reads.
LEMMA ReadsStep == Typed /\ Reads /\ [Next]_vars => Reads'
  <1> SUFFICES ASSUME Typed, Reads, [Next]_vars
               PROVE  Reads'
    OBVIOUS
  <1> USE DEF Typed, TypeOK, Reads
  <1>1. ASSUME NEW c \in Starts, StartRun(c)
        PROVE  Reads'
    <2>1. UNCHANGED callVars
      BY <1>1 DEF StartRun, StartRead, StartTransition, StartSpawn, StartFail, StartFailEmit,
              StartCreate, StartRegister, StartEmit
    <2>2. \A d \in Starts \ {c} : startPc'[d] = startPc[d] /\ seen'[d] = seen[d]
      BY <1>1 DEF StartRun, StartRead, StartTransition, StartSpawn, StartFail, StartFailEmit,
              StartCreate, StartRegister, StartEmit
    <2>3. startPc'[c] = "transition" => CanTransition(seen'[c], "starting")
      BY <1>1 DEF StartRun, StartRead, StartTransition, StartSpawn, StartFail, StartFailEmit,
              StartCreate, StartRegister, StartEmit
    <2>4. QED
      BY <2>1, <2>2, <2>3 DEF callVars
  <1>2. ASSUME NEW i \in Interrupts, Interrupt(i)
        PROVE  Reads'
    <2>1. UNCHANGED startVars
      BY <1>2 DEF Interrupt, InterruptRead, InterruptSignal, InterruptUpdate, InterruptEmit
    <2>2. \A j \in Interrupts \ {i} : intPc'[j] = intPc[j] /\ intSeen'[j] = intSeen[j]
      BY <1>2 DEF Interrupt, InterruptRead, InterruptSignal, InterruptUpdate, InterruptEmit
    <2>3. intPc'[i] \in {"signal", "update"} => intSeen'[i] \in {"active", "waiting_approval"}
      BY <1>2 DEF Interrupt, InterruptRead, InterruptSignal, InterruptUpdate, InterruptEmit
    <2>4. QED
      BY <2>1, <2>2, <2>3 DEF startVars
  <1>3. CASE MemoryLost
    BY <1>3 DEF MemoryLost
  <1>4. CASE UNCHANGED <<startVars, intPc, intSeen>>
    BY <1>4 DEF startVars
  <1>5. (\E a \in Approvals : ResolveApproval(a) \/ ExpireApproval(a))
          => UNCHANGED <<startVars, intPc, intSeen>>
    BY DEF ResolveApproval, ResolveDecide, ResolveEmit, ResolveClear, ExpireApproval, callVars
  <1>6. (\E c \in Starts : \/ ParsedCompletion(c) \/ ProcessExit(c) \/ PumpEnd(c)
                           \/ \E a \in Approvals : AskApproval(c, a))
          => UNCHANGED <<startVars, intPc, intSeen>>
    BY DEF ParsedCompletion, ProcessExit, PumpEnd, AskApproval, callVars
  <1>7. Observer => UNCHANGED <<startVars, intPc, intSeen>>
    BY DEF Observer, ObserveBegin, ObserveTake, ObserveClosed, ObserveEnd, HandleRequest,
           HandleSetPending, HandleWaiting, HandleReload, HandleAnnounce, HandleComplete,
           HandleCompleteEmit, HandleCancel, callVars
  <1>8. Shutdown \/ Crash => MemoryLost \/ UNCHANGED <<startVars, intPc, intSeen>>
    BY DEF Shutdown, ShutdownBegin, DrainDone, DrainTimeout, DrainMark, MarkList, MarkUpdate,
           ShutdownEnd, Crash, callVars
  <1>9. CloseServer \/ ReconcileMark \/ ReconcileResolve
          => UNCHANGED <<startVars, intPc, intSeen>>
    BY DEF CloseServer, ReconcileMark, ReconcileResolve, callVars
  <1>10. UNCHANGED vars => UNCHANGED <<startVars, intPc, intSeen>>
    BY DEF vars, callVars
  <1>11. QED
    BY <1>1, <1>2, <1>3, <1>4, <1>5, <1>6, <1>7, <1>8, <1>9, <1>10 DEF Next

\* How the stored state may change in one step.
Moves ==
    \/ UNCHANGED session
    \/ /\ CanTransition(session, session')
       /\ session' # "resumable"
       /\ session' = "active" => session = "starting"
    \/ /\ session' = "recovering"
       /\ shutPc \in {"drainMark", "mark"} \/ isNonterminalState(session)

\* Every conditional update moves along the table, because the state it expects
\* is the one the caller checked; only the shutdown and the reconciliation mark.
LEMMA SessionMoves == Typed /\ Reads /\ [Next]_vars => Moves
  <1> SUFFICES ASSUME Typed, Reads, [Next]_vars
               PROVE  Moves
    OBVIOUS
  <1> USE DEF Moves
  <1>1. ASSUME NEW c \in Starts, StartRun(c)
        PROVE  Moves
    <2>1. CASE StartTransition(c)
      <3>1. CanTransition(seen[c], "starting")
        BY <2>1 DEF Reads, StartTransition
      <3>2. session' = session \/ (session = seen[c] /\ session' = "starting")
        BY <2>1 DEF StartTransition, UpdateState
      <3>3. QED
        BY <3>1, <3>2
    <2>2. CASE StartFail(c)
      BY <2>2, Table DEF StartFail, UpdateState
    <2>3. CASE StartRegister(c)
      BY <2>3, Table DEF StartRegister, UpdateState
    <2>4. CASE UNCHANGED session
      BY <2>4
    <2>5. QED
      BY <1>1, <2>1, <2>2, <2>3, <2>4 DEF StartRun, StartRead, StartSpawn, StartFailEmit,
              StartCreate, StartEmit, dbVars
  <1>2. ASSUME NEW i \in Interrupts, InterruptUpdate(i)
        PROVE  Moves
    <2>1. intSeen[i] \in {"active", "waiting_approval"}
      BY <1>2 DEF Reads, InterruptUpdate
    <2>2. session' = session \/ (session = intSeen[i] /\ session' = "interrupted")
      BY <1>2 DEF InterruptUpdate, UpdateState
    <2>3. QED
      BY <2>1, <2>2, Table
  <1>3. CASE HandleWaiting
    BY <1>3 DEF HandleWaiting, UpdateState
  <1>4. CASE HandleComplete
    <2>1. obsSignal \in {"completed", "failed"}
      BY <1>4 DEF Typed, ObserverShape, HandleComplete
    <2>2. QED
      BY <1>4, <2>1 DEF HandleComplete, UpdateState
  <1>5. CASE DrainMark \/ MarkUpdate
    BY <1>5 DEF DrainMark, MarkUpdate
  <1>6. CASE ReconcileMark
    BY <1>6 DEF ReconcileMark
  <1>7. CASE ReconcileResolve
    BY <1>7, Table DEF ReconcileResolve, UpdateState
  <1>8. CASE UNCHANGED session
    BY <1>8
  <1>9. (\E i \in Interrupts : Interrupt(i))
          => UNCHANGED session \/ \E i \in Interrupts : InterruptUpdate(i)
    BY DEF Interrupt, InterruptRead, InterruptSignal, InterruptEmit, dbVars
  <1>10. (\E a \in Approvals : ResolveApproval(a) \/ ExpireApproval(a)) => UNCHANGED session
    BY DEF ResolveApproval, ResolveDecide, ResolveEmit, ResolveClear, ExpireApproval, dbVars
  <1>11. (\E c \in Starts : \/ ParsedCompletion(c) \/ ProcessExit(c) \/ PumpEnd(c)
                            \/ \E a \in Approvals : AskApproval(c, a))
           => UNCHANGED session
    BY DEF ParsedCompletion, ProcessExit, PumpEnd, AskApproval, dbVars
  <1>12. Observer => HandleWaiting \/ HandleComplete \/ UNCHANGED session
    BY DEF Observer, ObserveBegin, ObserveTake, ObserveClosed, ObserveEnd, HandleRequest,
           HandleSetPending, HandleReload, HandleAnnounce, HandleCompleteEmit, HandleCancel,
           dbVars
  <1>13. Shutdown \/ Crash \/ CloseServer => DrainMark \/ MarkUpdate \/ UNCHANGED session
    BY DEF Shutdown, ShutdownBegin, DrainDone, DrainTimeout, MarkList, ShutdownEnd, Crash,
           CloseServer, dbVars
  <1>14. UNCHANGED vars => UNCHANGED session
    BY DEF vars, dbVars
  <1>15. QED
    BY <1>1, <1>2, <1>3, <1>4, <1>5, <1>6, <1>7, <1>8, <1>9, <1>10, <1>11, <1>12, <1>13,
       <1>14 DEF Next

-----------------------------------------------------------------------------
(* One run.                                                                *)

\* Only the call whose row is stored gets past CreateRun or is tracked.
Owner ==
    /\ \A c \in Starts : startPc[c] \in {"register", "emit", "done"} => runRow = c
    /\ activeRuns \subseteq {runRow}

\* The primary key of the runs table lets one call pass, and only that call is
\* registered, so every step keeps Owner.
LEMMA OwnerStep == Typed /\ Owner /\ [Next]_vars => Owner'
  <1> SUFFICES ASSUME Typed, Owner, [Next]_vars
               PROVE  Owner'
    OBVIOUS
  <1> USE DEF Typed, TypeOK, Owner
  <1>1. ASSUME NEW c \in Starts, StartCreate(c)
        PROVE  Owner'
    <2>1. CASE runRow = NoRun
      <3>1. activeRuns = {} /\ \A d \in Starts : startPc[d] \notin {"register", "emit", "done"}
        BY <2>1, SessionNames
      <3>2. QED
        BY <1>1, <2>1, <3>1 DEF StartCreate, lifeVars
    <2>2. CASE runRow # NoRun
      BY <1>1, <2>2 DEF StartCreate, lifeVars
    <2>3. QED
      BY <2>1, <2>2
  <1>2. ASSUME NEW c \in Starts, StartRegister(c)
        PROVE  Owner'
    BY <1>2 DEF StartRegister
  <1>3. ASSUME NEW c \in Starts, StartEmit(c)
        PROVE  Owner'
    BY <1>3 DEF StartEmit, lifeVars
  <1>4. ASSUME NEW c \in Starts,
               StartRead(c) \/ StartTransition(c) \/ StartSpawn(c) \/ StartFail(c)
                 \/ StartFailEmit(c)
        PROVE  Owner'
    <2>1. UNCHANGED <<runRow, activeRuns>>
      BY <1>4 DEF StartRead, StartTransition, StartSpawn, StartFail, StartFailEmit, dbVars,
              lifeVars
    <2>2. \A d \in Starts : startPc'[d] \in {"register", "emit", "done"}
                              => startPc'[d] = startPc[d]
      BY <1>4 DEF StartRead, StartTransition, StartSpawn, StartFail, StartFailEmit
    <2>3. QED
      BY <2>1, <2>2
  <1>5. CASE ObserveEnd
    BY <1>5 DEF ObserveEnd, dbVars, startVars
  <1>6. CASE ShutdownEnd \/ Crash
    BY <1>6 DEF ShutdownEnd, Crash, MemoryLost, dbVars
  <1>7. CASE UNCHANGED <<startPc, runRow, activeRuns>>
    BY <1>7
  <1>8. (\E i \in Interrupts : Interrupt(i)) => UNCHANGED <<startPc, runRow, activeRuns>>
    BY DEF Interrupt, InterruptRead, InterruptSignal, InterruptUpdate, InterruptEmit, dbVars,
           startVars, lifeVars
  <1>9. (\E a \in Approvals : ResolveApproval(a) \/ ExpireApproval(a))
          => UNCHANGED <<startPc, runRow, activeRuns>>
    BY DEF ResolveApproval, ResolveDecide, ResolveEmit, ResolveClear, ExpireApproval, dbVars,
           startVars, lifeVars
  <1>10. (\E c \in Starts : \/ ParsedCompletion(c) \/ ProcessExit(c) \/ PumpEnd(c)
                            \/ \E a \in Approvals : AskApproval(c, a))
           => UNCHANGED <<startPc, runRow, activeRuns>>
    BY DEF ParsedCompletion, ProcessExit, PumpEnd, AskApproval, dbVars, startVars, lifeVars
  <1>11. Observer => ObserveEnd \/ UNCHANGED <<startPc, runRow, activeRuns>>
    BY DEF Observer, ObserveBegin, ObserveTake, ObserveClosed, HandleRequest, HandleSetPending,
           HandleWaiting, HandleReload, HandleAnnounce, HandleComplete, HandleCompleteEmit,
           HandleCancel, dbVars, startVars, lifeVars
  <1>12. Shutdown => ShutdownEnd \/ UNCHANGED <<startPc, runRow, activeRuns>>
    BY DEF Shutdown, ShutdownBegin, DrainDone, DrainTimeout, DrainMark, MarkList, MarkUpdate,
           dbVars, startVars
  <1>13. CloseServer \/ ReconcileMark \/ ReconcileResolve
           => UNCHANGED <<startPc, runRow, activeRuns>>
    BY DEF CloseServer, ReconcileMark, ReconcileResolve, dbVars, startVars
  <1>14. UNCHANGED vars => UNCHANGED <<startPc, runRow, activeRuns>>
    BY DEF vars, dbVars, startVars, lifeVars
  <1>15. QED
    BY <1>1, <1>2, <1>3, <1>4, <1>5, <1>6, <1>7, <1>8, <1>9, <1>10, <1>11, <1>12, <1>13,
       <1>14 DEF Next, StartRun

\* Whoever is past the spawn, behind the run id, in the row or observed has a process,
\* and there is an observer only of a session that has its row.
Spawned ==
    /\ \A c \in Starts : startPc[c] \in {"create", "register", "emit", "done"}
                            => proc[c] # "none"
    /\ \A c \in Starts : c \in {runs, runRow, obsChan} => proc[c] # "none"
    /\ obsPc # "none" \/ obsChan # NoRun => runRow # NoRun

\* A process that was spawned stays one, and the row is not removed, so every step
\* keeps Spawned.
LEMMA SpawnedStep == Typed /\ Owner /\ Spawned /\ [Next]_vars => Spawned'
  <1> SUFFICES ASSUME Typed, Owner, Spawned, [Next]_vars
               PROVE  Spawned'
    OBVIOUS
  <1> DEFINE who == <<startPc, proc, runs, runRow, obsPc, obsChan>>
  <1> USE DEF Typed, TypeOK, Spawned
  <1>1. ASSUME NEW c \in Starts, StartSpawn(c)
        PROVE  Spawned'
    <2>1. UNCHANGED <<runRow, obsPc, obsChan>>
      BY <1>1 DEF StartSpawn, dbVars, obsVars
    <2>2. \/ /\ proc' = [proc EXCEPT ![c] = "running"] /\ runs' = c
             /\ startPc' = [startPc EXCEPT ![c] = "create"]
          \/ startPc' = [startPc EXCEPT ![c] = "fail"] /\ UNCHANGED <<proc, runs>>
      BY <1>1 DEF StartSpawn
    <2>3. CASE /\ proc' = [proc EXCEPT ![c] = "running"] /\ runs' = c
               /\ startPc' = [startPc EXCEPT ![c] = "create"]
      BY <2>1, <2>3
    <2>4. CASE startPc' = [startPc EXCEPT ![c] = "fail"] /\ UNCHANGED <<proc, runs>>
      BY <2>1, <2>4
    <2>5. QED
      BY <2>2, <2>3, <2>4
  <1>2. ASSUME NEW c \in Starts, StartCreate(c)
        PROVE  Spawned'
    <2>1. startPc[c] = "create" /\ UNCHANGED <<proc, runs, obsPc, obsChan>>
      BY <1>2 DEF StartCreate, procVars, obsVars
    <2>2. \/ runRow' = c /\ startPc' = [startPc EXCEPT ![c] = "register"]
          \/ UNCHANGED runRow /\ startPc' = [startPc EXCEPT ![c] = "refused"]
      BY <1>2 DEF StartCreate
    <2>3. QED
      BY <2>1, <2>2, SessionNames
  <1>3. ASSUME NEW c \in Starts, StartEmit(c)
        PROVE  Spawned'
    <2>1. startPc[c] = "emit" /\ UNCHANGED <<proc, runs, runRow, obsChan>>
      BY <1>3 DEF StartEmit, procVars
    <2>2. runRow = c /\ startPc' \in {[startPc EXCEPT ![c] = "done"], [startPc EXCEPT ![c] = "refused"]}
      BY <1>3, <2>1 DEF StartEmit, Owner
    <2>3. QED
      BY <2>1, <2>2, SessionNames
  <1>4. ASSUME NEW c \in Starts,
               \/ StartRead(c) \/ StartTransition(c) \/ StartFail(c) \/ StartFailEmit(c)
               \/ StartRegister(c)
        PROVE  Spawned'
    <2>1. UNCHANGED <<proc, runs, runRow, obsPc, obsChan>>
      BY <1>4 DEF StartRead, StartTransition, StartFail, StartFailEmit, StartRegister, dbVars,
              procVars, obsVars
    <2>2. \A d \in Starts : startPc'[d] \in {"create", "register", "emit", "done"}
                              => startPc[d] \in {"create", "register", "emit", "done"}
      BY <1>4 DEF StartRead, StartTransition, StartFail, StartFailEmit, StartRegister
    <2>3. QED
      BY <2>1, <2>2
  <1>5. ASSUME NEW c \in Starts, ProcessExit(c)
        PROVE  Spawned'
    BY <1>5 DEF ProcessExit, dbVars, startVars, obsVars
  <1>6. ASSUME NEW c \in Starts, PumpEnd(c)
        PROVE  Spawned'
    BY <1>6, SessionNames DEF PumpEnd, dbVars, startVars, obsVars
  <1>7. CASE Observer
    <2>1. UNCHANGED <<startPc, proc, runs, runRow>> /\ obsPc # "none"
      BY <1>7 DEF Observer, ObserveBegin, ObserveTake, ObserveClosed, ObserveEnd,
              HandleRequest, HandleSetPending, HandleWaiting, HandleReload, HandleAnnounce,
              HandleComplete, HandleCompleteEmit, HandleCancel, dbVars, startVars, procVars
    <2>2. obsChan' \in {obsChan, runs}
      BY <1>7 DEF Observer, ObserveBegin, ObserveTake, ObserveClosed, ObserveEnd,
              HandleRequest, HandleSetPending, HandleWaiting, HandleReload, HandleAnnounce,
              HandleComplete, HandleCompleteEmit, HandleCancel
    <2>3. QED
      BY <2>1, <2>2
  <1>8. CASE MemoryLost /\ UNCHANGED runRow
    BY <1>8, SessionNames DEF MemoryLost
  <1>9. CASE UNCHANGED who
    BY <1>9
  <1>10. (\E i \in Interrupts : Interrupt(i)) => UNCHANGED who
    BY DEF Interrupt, InterruptRead, InterruptSignal, InterruptUpdate, InterruptEmit, dbVars,
           startVars, procVars, obsVars
  <1>11. (\E a \in Approvals : ResolveApproval(a) \/ ExpireApproval(a)) => UNCHANGED who
    BY DEF ResolveApproval, ResolveDecide, ResolveEmit, ResolveClear, ExpireApproval, dbVars,
           startVars, procVars, obsVars
  <1>12. (\E c \in Starts : \/ ParsedCompletion(c)
                            \/ \E a \in Approvals : AskApproval(c, a)) => UNCHANGED who
    BY DEF ParsedCompletion, AskApproval, dbVars, startVars, obsVars
  <1>13. Shutdown \/ Crash => (MemoryLost /\ UNCHANGED runRow) \/ UNCHANGED who
    BY DEF Shutdown, ShutdownBegin, DrainDone, DrainTimeout, DrainMark, MarkList, MarkUpdate,
           ShutdownEnd, Crash, dbVars, startVars, procVars, obsVars
  <1>14. CloseServer \/ ReconcileMark \/ ReconcileResolve \/ UNCHANGED vars => UNCHANGED who
    BY DEF CloseServer, ReconcileMark, ReconcileResolve, vars, dbVars, startVars, procVars,
           obsVars
  <1> HIDE DEF Typed, TypeOK, Spawned
  <1>15. QED
    BY <1>1, <1>2, <1>3, <1>4, <1>5, <1>6, <1>7, <1>8, <1>9, <1>10, <1>11, <1>12, <1>13,
       <1>14 DEF Next, StartRun

-----------------------------------------------------------------------------
(* Shutdown, crash and reconciliation.                                     *)

\* The states in which a session claims to be in progress.
InProgress == {"created", "starting", "active", "waiting_approval"}

\* A session that is out of these states comes back to none of them, and is
\* marked for recovery only by a shutdown or a reconciliation.
LEMMA NotRevived ==
  ASSUME Typed, Moves, session \notin InProgress, session # "resumable"
  PROVE  /\ session' \notin InProgress
         /\ session' # "resumable"
  <1>1. \A s \in SessionStates, t \in InProgress :
           CanTransition(s, t) => s \in InProgress \/ s = "resumable" \/ t = "active"
    BY StateNames DEF CanTransition, validTransitions, InProgress
  <1>2. session \in SessionStates
    BY DEF Typed, TypeOK
  <1>3. QED
    BY <1>1, <1>2 DEF Moves, InProgress

\* A shutdown runs only in the draining phase; outside the running phase the
\* requests have returned and the server takes none; and between the end of one
\* incarnation and the start of the next nothing observes.
Quiet ==
    /\ shutPc # "none" => phase = "draining"
    /\ phase # "running" => RequestsDone /\ http = "closed"
    /\ phase \in {"stopped", "down", "starting"} => obsPc = "none"

\* Outside the running phase no request takes a step, so Quiet is kept.
LEMMA QuietStep == Typed /\ Quiet /\ [Next]_vars => Quiet'
  <1> SUFFICES ASSUME Typed, Quiet, [Next]_vars
               PROVE  Quiet'
    OBVIOUS
  <1> DEFINE pcs == <<startPc, intPc, resPc>>
  <1> USE DEF Quiet
  <1>1. ASSUME phase = "running", UNCHANGED <<phase, shutPc>>
        PROVE  Quiet'
    BY <1>1
  <1>2. ASSUME NEW c \in Starts, StartRun(c)
        PROVE  phase = "running" /\ UNCHANGED <<phase, shutPc>>
    <2>1. phase = "running"
      <3>1. StartRead(c) => phase = "running"
        BY DEF StartRead, Serving
      <3>2. ~ StartRead(c) => startPc[c] \notin {"idle", "refused", "done", "dead"}
        BY <1>2 DEF StartRun, StartTransition, StartSpawn, StartFail, StartFailEmit,
                StartCreate, StartRegister, StartEmit
      <3>3. QED
        BY <3>1, <3>2 DEF RequestsDone
    <2>2. UNCHANGED <<phase, shutPc>>
      BY <1>2 DEF StartRun, StartRead, StartTransition, StartSpawn, StartFail, StartFailEmit,
              StartCreate, StartRegister, StartEmit, lifeVars
    <2>3. QED
      BY <2>1, <2>2
  <1>3. ASSUME NEW i \in Interrupts, Interrupt(i)
        PROVE  phase = "running" /\ UNCHANGED <<phase, shutPc>>
    <2>1. phase = "running"
      <3>1. InterruptRead(i) => phase = "running"
        BY DEF InterruptRead, Serving
      <3>2. ~ InterruptRead(i) => intPc[i] \notin {"idle", "done", "dead"}
        BY <1>3 DEF Interrupt, InterruptSignal, InterruptUpdate, InterruptEmit
      <3>3. QED
        BY <3>1, <3>2 DEF RequestsDone
    <2>2. UNCHANGED <<phase, shutPc>>
      BY <1>3 DEF Interrupt, InterruptRead, InterruptSignal, InterruptUpdate, InterruptEmit,
              lifeVars
    <2>3. QED
      BY <2>1, <2>2
  <1>4. ASSUME NEW a \in Approvals, ResolveApproval(a)
        PROVE  phase = "running" /\ UNCHANGED <<phase, shutPc>>
    <2>1. phase = "running"
      <3>1. ResolveDecide(a) => phase = "running"
        BY DEF ResolveDecide, Serving
      <3>2. ~ ResolveDecide(a) => resPc[a] \notin {"idle", "done", "dead"}
        BY <1>4 DEF ResolveApproval, ResolveEmit, ResolveClear
      <3>3. QED
        BY <3>1, <3>2 DEF RequestsDone
    <2>2. UNCHANGED <<phase, shutPc>>
      BY <1>4 DEF ResolveApproval, ResolveDecide, ResolveEmit, ResolveClear, lifeVars
    <2>3. QED
      BY <2>1, <2>2
  <1>5. CASE UNCHANGED <<pcs, phase, http, shutPc, obsPc>>
    BY <1>5 DEF RequestsDone
  <1>6. CASE Observer
    <2>1. Running /\ UNCHANGED <<pcs, phase, http, shutPc>>
      BY <1>6 DEF Observer, ObserveBegin, ObserveTake, ObserveClosed, ObserveEnd,
              HandleRequest, HandleSetPending, HandleWaiting, HandleReload, HandleAnnounce,
              HandleComplete, HandleCompleteEmit, HandleCancel, startVars, callVars, lifeVars
    <2>2. QED
      BY <2>1 DEF Running, RequestsDone
  <1>7. ASSUME MemoryLost
        PROVE  RequestsDone' /\ obsPc' = "none"
    BY <1>7 DEF MemoryLost, RequestsDone
  <1>8. CASE ShutdownEnd
    BY <1>7, <1>8 DEF ShutdownEnd
  <1>9. CASE Crash
    BY <1>7, <1>9 DEF Crash
  <1>10. CASE ShutdownBegin
    BY <1>10 DEF ShutdownBegin, RequestsDone, startVars, callVars
  <1>11. CASE DrainDone \/ DrainTimeout \/ DrainMark \/ MarkList \/ MarkUpdate
    <2>1. phase = "draining" /\ UNCHANGED <<pcs, phase, http>>
      BY <1>11 DEF DrainDone, DrainTimeout, DrainMark, MarkList, MarkUpdate, startVars, callVars
    <2>2. QED
      BY <2>1 DEF RequestsDone
  <1>12. CASE CloseServer
    BY <1>12, <1>1 DEF CloseServer, Serving
  <1>13. CASE ReconcileMark
    <2>1. UNCHANGED <<pcs, shutPc, obsPc>> /\ phase \in {"stopped", "down"}
      BY <1>13 DEF ReconcileMark, startVars, callVars, obsVars
    <2>2. (phase' = "starting" /\ http' = http) \/ phase' = "running"
      BY <1>13 DEF ReconcileMark
    <2>3. QED
      BY <2>1, <2>2 DEF RequestsDone
  <1>14. CASE ReconcileResolve
    BY <1>14 DEF ReconcileResolve
  <1>15. ASSUME NEW a \in Approvals, ExpireApproval(a)
         PROVE  UNCHANGED <<pcs, phase, http, shutPc, obsPc>>
    BY <1>15 DEF ExpireApproval, startVars, callVars, lifeVars, obsVars
  <1>16. ASSUME NEW c \in Starts,
                \/ ParsedCompletion(c) \/ ProcessExit(c) \/ PumpEnd(c)
                \/ \E a \in Approvals : AskApproval(c, a)
         PROVE  UNCHANGED <<pcs, phase, http, shutPc, obsPc>>
    BY <1>16 DEF ParsedCompletion, ProcessExit, PumpEnd, AskApproval, startVars, callVars,
            lifeVars, obsVars
  <1>17. CASE UNCHANGED vars
    BY <1>5, <1>17 DEF vars, startVars, callVars, lifeVars, obsVars
  <1> HIDE DEF Quiet
  <1>18. QED
    BY <1>1, <1>2, <1>3, <1>4, <1>5, <1>6, <1>8, <1>9, <1>10, <1>11, <1>12, <1>13, <1>14,
       <1>15, <1>16, <1>17 DEF Next, Shutdown

\* From the last reading of the sessions on, the stored state is out of progress.
Marked == shutPc = "stop" \/ phase = "stopped" => session \notin InProgress

\* The observer still runs while the shutdown stops, with the state it read
\* earlier; its updates do not bring the session back.
LEMMA MarkedStep ==
    Typed /\ Reads /\ Quiet /\ Marked /\ session # "resumable" /\ [Next]_vars => Marked'
  <1> SUFFICES ASSUME Typed, Reads, Quiet, Marked, session # "resumable", [Next]_vars
               PROVE  Marked'
    OBVIOUS
  <1>1. Moves
    BY SessionMoves
  <1>2. CASE MarkList
    BY <1>2 DEF MarkList, Marked, isNonterminalState, InProgress, dbVars
  <1>3. CASE MarkUpdate
    BY <1>3 DEF MarkUpdate, Marked, InProgress
  <1>4. CASE ShutdownEnd
    BY <1>4 DEF ShutdownEnd, Marked, dbVars
  <1>5. CASE UNCHANGED <<shutPc, phase>>
    BY <1>1, <1>5, NotRevived DEF Marked
  <1>6. CASE shutPc' # "stop" /\ phase' # "stopped"
    BY <1>6 DEF Marked
  <1>7. (\E c \in Starts : StartRun(c)) => UNCHANGED <<shutPc, phase>>
    BY DEF StartRun, StartRead, StartTransition, StartSpawn, StartFail, StartFailEmit,
           StartCreate, StartRegister, StartEmit, lifeVars
  <1>8. (\E c \in Starts : \/ ParsedCompletion(c) \/ ProcessExit(c) \/ PumpEnd(c)
                           \/ \E a \in Approvals : AskApproval(c, a))
          => UNCHANGED <<shutPc, phase>>
    BY DEF ParsedCompletion, ProcessExit, PumpEnd, AskApproval, lifeVars
  <1>9. (\E i \in Interrupts : Interrupt(i)) => UNCHANGED <<shutPc, phase>>
    BY DEF Interrupt, InterruptRead, InterruptSignal, InterruptUpdate, InterruptEmit, lifeVars
  <1>10. (\E a \in Approvals : ResolveApproval(a) \/ ExpireApproval(a))
           => UNCHANGED <<shutPc, phase>>
    BY DEF ResolveApproval, ResolveDecide, ResolveEmit, ResolveClear, ExpireApproval, lifeVars
  <1>11. Observer => UNCHANGED <<shutPc, phase>>
    BY DEF Observer, ObserveBegin, ObserveTake, ObserveClosed, ObserveEnd, HandleRequest,
           HandleSetPending, HandleWaiting, HandleReload, HandleAnnounce, HandleComplete,
           HandleCompleteEmit, HandleCancel, lifeVars
  <1>12. ShutdownBegin \/ Crash => shutPc' # "stop" /\ phase' # "stopped"
    BY DEF ShutdownBegin, Crash
  <1>13. CloseServer => UNCHANGED <<shutPc, phase>>
    BY DEF CloseServer
  <1>14. DrainDone \/ DrainTimeout \/ DrainMark \/ ReconcileMark \/ ReconcileResolve
           => shutPc' # "stop" /\ phase' # "stopped"
    BY DEF DrainDone, DrainTimeout, DrainMark, ReconcileMark, ReconcileResolve, Quiet
  <1>15. UNCHANGED vars => UNCHANGED <<shutPc, phase>>
    BY DEF vars, lifeVars
  <1>16. QED
    BY <1>2, <1>3, <1>4, <1>5, <1>6, <1>7, <1>8, <1>9, <1>10, <1>11, <1>12, <1>13, <1>14,
       <1>15 DEF Next, Shutdown

\* After a restart no earlier request, observer or state in progress is left: the
\* session is marked while the reconciliation runs, and resolved when it ends.
Reconciled ==
    /\ session # "resumable"
    /\ restarts > 0 =>
          /\ \A c \in Starts : startPc[c] \in {"idle", "refused", "done", "dead"}
          /\ \A i \in Interrupts : intPc[i] \in {"idle", "done", "dead"}
          /\ obsPc = "none"
          /\ session \notin InProgress
          /\ phase = "running" => session # "recovering"
          /\ phase = "starting" => session = "recovering"

\* A new incarnation starts from a quiet one, refuses to start or interrupt a
\* session that ended, and observes nothing.
LEMMA ReconciledStep ==
    Typed /\ Reads /\ Quiet /\ Reconciled /\ [Next]_vars => Reconciled'
  <1> SUFFICES ASSUME Typed, Reads, Quiet, Reconciled, [Next]_vars
               PROVE  Reconciled'
    OBVIOUS
  <1> DEFINE Rest == <<session, obsPc, phase, restarts>>
  <1>1. session' # "resumable"
    BY SessionMoves DEF Moves, Reconciled
  <1>2. SUFFICES ASSUME restarts' > 0
                 PROVE  Reconciled'
    BY <1>1 DEF Reconciled
  <1>3. ASSUME NEW c \in Starts, StartRun(c), restarts > 0
        PROVE  Reconciled'
    <2>1. StartRead(c)
      BY <1>3 DEF StartRun, StartTransition, StartSpawn, StartFail, StartFailEmit,
              StartCreate, StartRegister, StartEmit, Reconciled
    <2>2. ~ CanTransition(session, "starting")
      BY <1>3, <2>1, Table DEF StartRead, Serving, Reconciled, InProgress, Typed, TypeOK
    <2>3. startPc' = [startPc EXCEPT ![c] = "refused"] /\ UNCHANGED <<Rest, intPc>>
      BY <2>1, <2>2 DEF StartRead, dbVars, obsVars, callVars, lifeVars
    <2>4. QED
      BY <1>3, <2>3 DEF Reconciled, Typed, TypeOK
  <1>4. ASSUME NEW i \in Interrupts, Interrupt(i), restarts > 0
        PROVE  FALSE
    BY <1>4 DEF Interrupt, InterruptRead, InterruptSignal, InterruptUpdate, InterruptEmit,
            Reconciled, InProgress
  <1>5. ASSUME Observer, restarts > 0
        PROVE  FALSE
    BY <1>5 DEF Observer, ObserveBegin, ObserveTake, ObserveClosed, ObserveEnd, HandleRequest,
            HandleSetPending, HandleWaiting, HandleReload, HandleAnnounce, HandleComplete,
            HandleCompleteEmit, HandleCancel, Reconciled
  <1>6. ASSUME UNCHANGED <<Rest, startPc, intPc>>
        PROVE  Reconciled'
    BY <1>1, <1>2, <1>6 DEF Reconciled
  <1>7. ASSUME MemoryLost, UNCHANGED <<session, restarts>>, phase' \in {"stopped", "down"}
        PROVE  Reconciled'
    BY <1>1, <1>2, <1>7 DEF MemoryLost, Reconciled
  <1>8. CASE ShutdownEnd \/ Crash
    BY <1>7, <1>8 DEF ShutdownEnd, Crash, dbVars
  <1>9. ASSUME DrainMark \/ MarkUpdate
        PROVE  Reconciled'
    <2>1. session' = "recovering" /\ phase = "draining"
      BY <1>9 DEF DrainMark, MarkUpdate, Quiet
    <2>2. UNCHANGED <<phase, restarts, startPc, intPc, obsPc>>
      BY <1>9 DEF DrainMark, MarkUpdate, startVars, callVars, obsVars
    <2>3. QED
      BY <1>2, <2>1, <2>2 DEF Reconciled, InProgress
  <1>10. CASE ShutdownBegin
    <2>1. phase' = "draining" /\ UNCHANGED <<session, restarts, startPc, intPc, obsPc>>
      BY <1>10 DEF ShutdownBegin, dbVars, startVars, callVars, obsVars
    <2>2. QED
      BY <1>2, <2>1 DEF Reconciled
  <1>11. CASE ReconcileMark
    <2>1. RequestsDone /\ obsPc = "none" /\ UNCHANGED <<startPc, intPc, obsPc>>
      BY <1>11 DEF ReconcileMark, Quiet, startVars, callVars, obsVars
    <2>2. \/ session' = "recovering" /\ phase' = "starting"
          \/ session' \notin InProgress \cup {"recovering"} /\ phase' = "running"
      BY <1>11 DEF ReconcileMark, isNonterminalState, InProgress
    <2>3. QED
      BY <1>1, <2>1, <2>2 DEF Reconciled, RequestsDone, InProgress
  <1>12. CASE ReconcileResolve
    <2>1. UNCHANGED <<restarts, startPc, intPc, obsPc>> /\ phase' = "running"
      BY <1>12 DEF ReconcileResolve, startVars, callVars, obsVars
    <2>2. session' = "failed"
      BY <1>2, <1>12, <2>1 DEF ReconcileResolve, UpdateState, Reconciled
    <2>3. QED
      BY <1>2, <2>1, <2>2 DEF Reconciled, InProgress
  <1>13. (\E c \in Starts : \/ ParsedCompletion(c) \/ ProcessExit(c) \/ PumpEnd(c)
                            \/ \E a \in Approvals : AskApproval(c, a))
           => UNCHANGED <<Rest, startPc, intPc>>
    BY DEF ParsedCompletion, ProcessExit, PumpEnd, AskApproval, dbVars, startVars, callVars,
           obsVars, lifeVars
  <1>14. (\E a \in Approvals : ResolveApproval(a) \/ ExpireApproval(a))
           => UNCHANGED <<Rest, startPc, intPc>>
    BY DEF ResolveApproval, ResolveDecide, ResolveEmit, ResolveClear, ExpireApproval, dbVars,
           startVars, callVars, obsVars, lifeVars
  <1>15. CloseServer \/ DrainDone \/ DrainTimeout \/ MarkList
           => UNCHANGED <<Rest, startPc, intPc>>
    BY DEF CloseServer, DrainDone, DrainTimeout, MarkList, dbVars, startVars, callVars, obsVars
  <1>16. UNCHANGED vars => UNCHANGED <<Rest, startPc, intPc>>
    BY DEF vars, dbVars, startVars, callVars, obsVars, lifeVars
  <1>17. (\E c \in Starts : StartRun(c)) \/ (\E i \in Interrupts : Interrupt(i)) \/ Observer
           => restarts > 0
    BY <1>2 DEF StartRun, StartRead, StartTransition, StartSpawn, StartFail, StartFailEmit,
           StartCreate, StartRegister, StartEmit, Interrupt, InterruptRead, InterruptSignal,
           InterruptUpdate, InterruptEmit, Observer, ObserveBegin, ObserveTake, ObserveClosed,
           ObserveEnd, HandleRequest, HandleSetPending, HandleWaiting, HandleReload,
           HandleAnnounce, HandleComplete, HandleCompleteEmit, HandleCancel, lifeVars
  <1>18. QED
    BY <1>3, <1>4, <1>5, <1>6, <1>8, <1>9, <1>10, <1>11, <1>12, <1>13, <1>14, <1>15, <1>16,
       <1>17 DEF Next, Shutdown

-----------------------------------------------------------------------------
(* What the journal tells.                                                 *)

Happened(e) == \E j \in DOMAIN journal : journal[j] = e

\* The signals that handleCompletion handles.
Exits == {"completed", "failed"} \ Approvals

\* The completions a process's channel can still deliver, apart from lines to come:
\* those in it, and the exit of a process that has not ended.
Due(c) == Count(signals[c], Exits) + IF proc[c] \in {"none", "running"} THEN 1 ELSE 0

\* A process exists from its spawn on, and reports one exit besides its lines.
Channels ==
    \A c \in Starts :
        /\ startPc[c] \in {"idle", "transition", "spawn"} => proc[c] = "none"
        /\ Due(c) <= 1 + lines

\* The completion the observer has in hand, and those it can still meet.
Taken == IF obsPc \in {"complete", "emit"} THEN 1 ELSE 0
Ahead == IF obsPc \in {"loop", "request", "setPending", "waiting", "reload", "announce",
                       "complete", "emit", "cancel"} THEN Due(obsChan) ELSE 0

\* The observer is launched once, after run.started; what it journaled, has in hand
\* and can still meet is one exit and the lines.
Reported ==
    /\ obsPc # "none" \/ Happened("run.completed") => \E c \in Starts : startPc[c] = "done"
    /\ obsPc # "none" => Happened("run.started")
    /\ obsPc = "observe" => ~ Happened("run.completed")
    /\ Count(journal, {"run.completed"}) + Taken + Ahead <= 1 + lines
    /\ Before("run.started", "approval.requested")
    /\ Before("run.started", "run.completed")

\* The positions that are counted in a sequence are finitely many.
LEMMA CountFinite ==
  ASSUME NEW T, NEW s \in Seq(T), NEW S
  PROVE  /\ IsFiniteSet({j \in DOMAIN s : s[j] \in S})
         /\ Count(s, S) \in Nat
  <1>1. Len(s) \in Nat /\ DOMAIN s = 1 .. Len(s)
    OBVIOUS
  <1>2. IsFiniteSet(1 .. Len(s))
    BY <1>1, FS_Interval
  <1>3. IsFiniteSet({j \in DOMAIN s : s[j] \in S})
    BY <1>1, <1>2, FS_Subset
  <1>4. QED
    BY <1>3, FS_CardinalityType DEF Count

\* Nothing is counted in a sequence without an element of the set.
LEMMA CountNone ==
  ASSUME NEW s, NEW S, \A j \in DOMAIN s : s[j] \notin S
  PROVE  Count(s, S) = 0
  <1>1. {j \in DOMAIN s : s[j] \in S} = {}
    OBVIOUS
  <1>2. QED
    BY <1>1, FS_EmptySet DEF Count

\* Appending adds the appended element to the count.
LEMMA CountAppend ==
  ASSUME NEW T, NEW s \in Seq(T), NEW S, NEW e
  PROVE  Count(Append(s, e), S) = Count(s, S) + IF e \in S THEN 1 ELSE 0
  <1> DEFINE A == {j \in DOMAIN s : s[j] \in S}
             n == Len(s) + 1
  <1>1. /\ Len(s) \in Nat /\ DOMAIN s = 1 .. Len(s) /\ DOMAIN Append(s, e) = 1 .. n
        /\ Append(s, e)[n] = e /\ \A j \in 1 .. Len(s) : Append(s, e)[j] = s[j]
    OBVIOUS
  <1>2. IsFiniteSet(A) /\ Count(s, S) \in Nat
    BY CountFinite
  <1>3. n \notin A
    BY <1>1
  <1>4. CASE e \in S
    <2>1. {j \in DOMAIN Append(s, e) : Append(s, e)[j] \in S} = A \cup {n}
      BY <1>1, <1>4
    <2>2. Cardinality(A \cup {n}) = Cardinality(A) + 1
      BY <1>2, <1>3, FS_AddElement
    <2>3. QED
      BY <1>4, <2>1, <2>2 DEF Count
  <1>5. CASE e \notin S
    <2>1. {j \in DOMAIN Append(s, e) : Append(s, e)[j] \in S} = A
      BY <1>1, <1>5
    <2>2. Count(Append(s, e), S) = Count(s, S)
      BY <2>1 DEF Count
    <2>3. QED
      BY <1>2, <1>5, <2>2
  <1>6. QED
    BY <1>4, <1>5

\* Taking the first element takes it off the count.
LEMMA CountTail ==
  ASSUME NEW T, NEW s \in Seq(T), NEW S, s # <<>>
  PROVE  Count(s, S) = Count(Tail(s), S) + IF Head(s) \in S THEN 1 ELSE 0
  <1> DEFINE A == {j \in DOMAIN s : s[j] \in S}
             B == {j \in DOMAIN Tail(s) : Tail(s)[j] \in S}
             f == [j \in B |-> j + 1]
  <1>1. /\ Len(s) \in Nat \ {0} /\ DOMAIN s = 1 .. Len(s) /\ Head(s) = s[1]
        /\ Tail(s) \in Seq(T) /\ DOMAIN Tail(s) = 1 .. Len(s) - 1
        /\ \A j \in 1 .. Len(s) - 1 : Tail(s)[j] = s[j + 1]
    OBVIOUS
  <1>2. IsFiniteSet(A) /\ Count(s, S) \in Nat /\ IsFiniteSet(B) /\ Count(Tail(s), S) \in Nat
    BY <1>1, CountFinite
  <1>3. Cardinality(A \ {1}) = Cardinality(B)
    <2>1. f \in [B -> A \ {1}]
      BY <1>1
    <2>2. \A i, j \in B : f[i] = f[j] => i = j
      BY <1>1
    <2>3. ASSUME NEW k \in A \ {1}
          PROVE  \E j \in B : f[j] = k
      <3>1. k - 1 \in B
        BY <1>1
      <3>2. QED
        BY <1>1, <3>1
    <2>4. f \in Bijection(B, A \ {1})
      BY <2>1, <2>2, <2>3 DEF Bijection, Injection, Surjection, IsInjective
    <2>5. ExistsBijection(B, A \ {1})
      BY <2>4 DEF ExistsBijection
    <2>6. QED
      BY <1>2, <2>5, FS_Bijection
  <1>4. CASE s[1] \in S
    <2>1. 1 \in A
      BY <1>1, <1>4
    <2>2. Cardinality(A \ {1}) = Cardinality(A) - 1
      BY <1>2, <2>1, FS_RemoveElement
    <2>3. Count(s, S) = Cardinality(A) /\ Count(Tail(s), S) = Cardinality(B)
      BY DEF Count
    <2> HIDE DEF A, B
    <2>4. QED
      BY <1>1, <1>2, <1>3, <1>4, <2>2, <2>3
  <1>5. CASE s[1] \notin S
    <2>1. A \ {1} = A
      BY <1>5
    <2>2. Count(s, S) = Cardinality(A) /\ Count(Tail(s), S) = Cardinality(B)
      BY DEF Count
    <2>3. Count(s, S) = Count(Tail(s), S)
      BY <1>3, <2>1, <2>2
    <2>4. QED
      BY <1>1, <1>2, <1>5, <2>3
  <1>6. QED
    BY <1>4, <1>5

\* An event of the journal is an old one or the one just appended.
LEMMA HappenedAppend ==
  ASSUME Typed, NEW e, NEW f, journal' = Append(journal, e)
  PROVE  Happened(f)' <=> Happened(f) \/ e = f
  <1>1. /\ Len(journal) \in Nat /\ DOMAIN journal = 1 .. Len(journal)
        /\ DOMAIN journal' = 1 .. Len(journal) + 1
        /\ \A j \in 1 .. Len(journal) : journal'[j] = journal[j]
        /\ journal'[Len(journal) + 1] = e
    BY DEF Typed, TypeOK
  <1>2. QED
    BY <1>1 DEF Happened

\* Appending keeps the order of the journal when the new event has its cause in it.
LEMMA OrderAppend ==
  ASSUME Typed, NEW f, Before("run.started", f), NEW e, journal' = Append(journal, e),
         e = f => Happened("run.started")
  PROVE  Before("run.started", f)'
  <1>1. /\ Len(journal) \in Nat /\ DOMAIN journal = 1 .. Len(journal)
        /\ DOMAIN journal' = 1 .. Len(journal) + 1
        /\ \A j \in 1 .. Len(journal) : journal'[j] = journal[j]
        /\ journal'[Len(journal) + 1] = e
    BY DEF Typed, TypeOK
  <1>2. SUFFICES ASSUME NEW j \in DOMAIN journal', journal'[j] = f
                 PROVE  \E i \in 1 .. j - 1 : journal'[i] = "run.started"
    BY DEF Before
  <1>3. CASE j \in DOMAIN journal
    <2>1. PICK i \in 1 .. j - 1 : journal[i] = "run.started"
      BY <1>1, <1>2, <1>3 DEF Before
    <2>2. QED
      BY <1>1, <1>3, <2>1
  <1>4. CASE j = Len(journal) + 1
    <2>1. PICK i \in DOMAIN journal : journal[i] = "run.started"
      BY <1>1, <1>2, <1>4 DEF Happened
    <2>2. QED
      BY <1>1, <1>4, <2>1
  <1>5. QED
    BY <1>1, <1>2, <1>3, <1>4

\* A send adds its signal to one channel, or nothing.
LEMMA SentCount ==
  ASSUME Typed, NEW c \in Starts, NEW s, signals' = Sent(c, s), NEW d \in Starts
  PROVE  Count(signals'[d], Exits)
           <= Count(signals[d], Exits) + IF c = d /\ s \in Exits THEN 1 ELSE 0
  <1>1. signals[d] \in Seq(Approvals \cup {"completed", "failed"})
    BY DEF Typed, TypeOK
  <1>2. Count(signals[d], Exits) \in Nat
    BY <1>1, CountFinite
  <1>3. signals'[d] = signals[d] \/ (c = d /\ signals'[d] = Append(signals[d], s))
    <2>1. CASE Len(signals[c]) < SignalCap
      <3>1. signals' = [signals EXCEPT ![c] = Append(signals[c], s)]
        BY <2>1 DEF Sent
      <3>2. QED
        BY <3>1 DEF Typed, TypeOK
    <2>2. CASE ~ (Len(signals[c]) < SignalCap)
      BY <2>2 DEF Sent
    <2>3. QED
      BY <2>1, <2>2
  <1>4. CASE signals'[d] = signals[d]
    BY <1>2, <1>4
  <1>5. CASE c = d /\ signals'[d] = Append(signals[d], s)
    <2>1. Count(Append(signals[d], s), Exits)
            = Count(signals[d], Exits) + IF s \in Exits THEN 1 ELSE 0
      BY <1>1, CountAppend
    <2>2. PICK n \in Nat : n = Count(signals[d], Exits)
      BY <1>2
    <2>3. Count(signals'[d], Exits) = n + IF s \in Exits THEN 1 ELSE 0
      BY <1>5, <2>1, <2>2
    <2>4. CASE s \in Exits
      BY <1>5, <2>2, <2>3, <2>4
    <2>5. CASE s \notin Exits
      BY <1>5, <2>2, <2>3, <2>5
    <2>6. QED
      BY <2>4, <2>5
  <1>6. QED
    BY <1>3, <1>4, <1>5

\* The observer takes the first signal of its channel off it.
LEMMA TakenSignal ==
  ASSUME Typed, ObserveTake
  PROVE  /\ obsChan \in Starts
         /\ \A d \in Starts \ {obsChan} : signals'[d] = signals[d]
         /\ Count(signals[obsChan], Exits)
              = Count(signals'[obsChan], Exits) + IF obsPc' = "complete" THEN 1 ELSE 0
  <1>1. obsChan \in Starts
    BY DEF ObserveTake, Typed, ObserverShape
  <1>2. signals[obsChan] \in Seq(Approvals \cup {"completed", "failed"})
    BY <1>1 DEF Typed, TypeOK
  <1>3. signals[obsChan] # <<>> /\ signals' = [signals EXCEPT ![obsChan] = Tail(signals[obsChan])]
    BY DEF ObserveTake
  <1>4. /\ signals'[obsChan] = Tail(signals[obsChan])
        /\ \A d \in Starts \ {obsChan} : signals'[d] = signals[d]
    BY <1>1, <1>3 DEF Typed, TypeOK
  <1>5. Head(signals[obsChan]) \in Approvals \cup {"completed", "failed"}
    BY <1>2, <1>3
  <1>6. obsPc' = "complete" <=> Head(signals[obsChan]) \in Exits
    BY <1>5 DEF ObserveTake, Exits
  <1>7. QED
    BY <1>1, <1>2, <1>3, <1>4, <1>6, CountTail

\* What a channel can still deliver grows with the lines only, and shrinks when the
\* observer takes a completion.
LEMMA DueStep ==
  ASSUME Typed, Channels, [Next]_vars, NEW c \in Starts
  PROVE  /\ Due(c) \in Nat /\ Due(c)' \in Nat /\ lines \in Nat /\ lines' \in Nat
         /\ lines <= lines'
         /\ Due(c)' <= Due(c) + (lines' - lines)
         /\ ObserveTake /\ obsPc' = "complete" /\ c = obsChan => Due(c)' + 1 <= Due(c)
  <1> DEFINE n == Count(signals[c], Exits)
             m == Count(signals'[c], Exits)
             left == <<proc, signals, lines>>
             Goal == /\ lines <= lines'
                     /\ Due(c)' <= Due(c) + (lines' - lines)
                     /\ ObserveTake /\ obsPc' = "complete" /\ c = obsChan
                          => Due(c)' + 1 <= Due(c)
  <1>1. Typed'
    BY TypedStep
  <1>2. n \in Nat /\ m \in Nat /\ lines \in Nat /\ lines' \in Nat
    <2>1. /\ signals[c] \in Seq(Approvals \cup {"completed", "failed"})
          /\ signals'[c] \in Seq(Approvals \cup {"completed", "failed"})
      BY <1>1 DEF Typed, TypeOK
    <2>2. QED
      BY <1>1, <2>1, CountFinite DEF Typed, TypeOK
  <1>3. /\ Due(c) = n + IF proc[c] \in {"none", "running"} THEN 1 ELSE 0
        /\ Due(c)' = m + IF proc'[c] \in {"none", "running"} THEN 1 ELSE 0
    BY DEF Due
  <1>4. ASSUME NEW d \in Starts, ParsedCompletion(d)
        PROVE  Goal
    <2>1. PICK r \in {"completed", "failed"} : signals' = Sent(d, r)
      BY <1>4 DEF ParsedCompletion
    <2>2. m <= n + 1
      BY <1>2, <2>1, SentCount
    <2>3. lines' = lines + 1 /\ proc' = proc /\ obsPc' = obsPc
      BY <1>4 DEF ParsedCompletion, obsVars
    <2>4. ~ ObserveTake
      BY <2>3 DEF ObserveTake
    <2>5. QED
      BY <1>2, <1>3, <2>2, <2>3, <2>4
  <1>5. ASSUME NEW d \in Starts, ProcessExit(d)
        PROVE  Goal
    <2>1. /\ lines' = lines /\ obsPc' = obsPc /\ proc[d] = "running" /\ proc'[d] = "exited"
          /\ \A e \in Starts \ {d} : proc'[e] = proc[e]
      BY <1>5 DEF ProcessExit, Typed, TypeOK, obsVars
    <2>2. signals' = signals \/ \E r \in {"completed", "failed"} : signals' = Sent(d, r)
      BY <1>5 DEF ProcessExit
    <2>3. m <= n + IF c = d THEN 1 ELSE 0
      BY <1>2, <2>2, SentCount
    <2>4. ~ ObserveTake
      BY <2>1 DEF ObserveTake
    <2>5. QED
      BY <1>2, <1>3, <2>1, <2>3, <2>4
  <1>6. ASSUME NEW d \in Starts, NEW a \in Approvals, AskApproval(d, a)
        PROVE  Goal
    <2>1. /\ runs \in Starts /\ signals' = Sent(runs, a) /\ lines' = lines /\ proc' = proc
          /\ obsPc' = obsPc
      BY <1>6 DEF AskApproval, Typed, TypeOK, obsVars
    <2>2. m <= n
      BY <1>2, <2>1, SentCount DEF Exits
    <2>3. ~ ObserveTake
      BY <2>1 DEF ObserveTake
    <2>4. QED
      BY <1>2, <1>3, <2>1, <2>2, <2>3
  <1>7. ASSUME NEW d \in Starts, StartSpawn(d)
        PROVE  Goal
    <2>1. /\ proc[d] = "none" /\ lines' = lines /\ signals' = signals /\ obsPc' = obsPc
          /\ \A e \in Starts \ {d} : proc'[e] = proc[e]
      BY <1>7 DEF StartSpawn, Channels, Typed, TypeOK, obsVars
    <2>2. ~ ObserveTake
      BY <2>1 DEF ObserveTake
    <2>3. QED
      BY <1>2, <1>3, <2>1, <2>2
  <1>8. ASSUME ObserveTake
        PROVE  Goal
    <2>1. lines' = lines /\ proc' = proc
      BY <1>8 DEF ObserveTake
    <2>2. CASE c = obsChan
      BY <1>2, <1>3, <1>8, <2>1, <2>2, TakenSignal
    <2>3. CASE c # obsChan
      BY <1>2, <1>3, <1>8, <2>1, <2>3, TakenSignal
    <2>4. QED
      BY <2>2, <2>3
  <1>9. ASSUME MemoryLost
        PROVE  Goal
    <2>1. /\ lines' = lines /\ signals'[c] = <<>> /\ obsPc' = "none"
          /\ proc'[c] \in {"none", "running"} => proc[c] \in {"none", "running"}
      BY <1>9 DEF MemoryLost, Typed, TypeOK
    <2>2. m = 0
      <3>1. DOMAIN << >> = {}
        OBVIOUS
      <3>2. QED
        BY <2>1, <3>1, CountNone
    <2>3. QED
      BY <1>2, <1>3, <2>1, <2>2
  <1>10. ASSUME UNCHANGED left, ~ ObserveTake
        PROVE  Goal
    BY <1>2, <1>3, <1>10
  <1>11. (\E i \in Interrupts : Interrupt(i)) => UNCHANGED left
    BY DEF Interrupt, InterruptRead, InterruptSignal, InterruptUpdate, InterruptEmit, procVars
  <1>12. (\E a \in Approvals : ResolveApproval(a) \/ ExpireApproval(a)) => UNCHANGED left
    BY DEF ResolveApproval, ResolveDecide, ResolveEmit, ResolveClear, ExpireApproval, procVars
  <1>13. (\E d \in Starts : PumpEnd(d)) => UNCHANGED left
    BY DEF PumpEnd
  <1>14. Observer => ObserveTake \/ UNCHANGED left
    BY DEF Observer, ObserveBegin, ObserveClosed, ObserveEnd, HandleRequest, HandleSetPending,
           HandleWaiting, HandleReload, HandleAnnounce, HandleComplete, HandleCompleteEmit,
           HandleCancel, procVars
  <1>15. Shutdown \/ Crash => MemoryLost \/ UNCHANGED left
    BY DEF Shutdown, ShutdownBegin, DrainDone, DrainTimeout, DrainMark, MarkList, MarkUpdate,
           ShutdownEnd, Crash, procVars
  <1>16. CloseServer \/ ReconcileMark \/ ReconcileResolve \/ UNCHANGED vars => UNCHANGED left
    BY DEF CloseServer, ReconcileMark, ReconcileResolve, vars, procVars
  <1>17. (\E d \in Starts : StartRun(d)) => (\E d \in Starts : StartSpawn(d)) \/ UNCHANGED left
    BY DEF StartRun, StartRead, StartTransition, StartFail, StartFailEmit, StartCreate,
           StartRegister, StartEmit, procVars
  <1>18. Goal
    <2> HIDE DEF Goal, left
    <2>1. QED
      BY <1>4, <1>5, <1>6, <1>7, <1>8, <1>9, <1>10, <1>11, <1>12, <1>13, <1>14, <1>15,
         <1>16, <1>17 DEF Next
  <1>19. QED
    BY <1>2, <1>3, <1>18

\* The requests, the pump and the observer keep each channel to one exit and the lines.
LEMMA ChannelsStep == Typed /\ Channels /\ [Next]_vars => Channels'
  <1> SUFFICES ASSUME Typed, Channels, [Next]_vars
               PROVE  Channels'
    OBVIOUS
  <1> DEFINE Early == {"idle", "transition", "spawn"}
             Unspawned == \A d \in Starts : startPc[d] \in Early => proc[d] = "none"
  <1>1. \A d \in Starts : Due(d)' <= 1 + lines'
    <2> SUFFICES ASSUME NEW d \in Starts
                 PROVE  Due(d)' <= 1 + lines'
      OBVIOUS
    <2>1. Due(d) <= 1 + lines
      BY DEF Channels
    <2>2. QED
      BY <2>1, DueStep
  <1>2. Unspawned
    BY DEF Channels
  <1>3. ASSUME NEW c \in Starts,
               \/ StartRead(c) \/ StartTransition(c) \/ StartFail(c) \/ StartFailEmit(c)
               \/ StartCreate(c) \/ StartRegister(c) \/ StartEmit(c)
        PROVE  Unspawned'
    <2>1. UNCHANGED proc
      BY <1>3 DEF StartRead, StartTransition, StartFail, StartFailEmit, StartCreate,
              StartRegister, StartEmit, procVars
    <2>2. \A d \in Starts : startPc'[d] \in Early => startPc[d] \in Early
      BY <1>3 DEF StartRead, StartTransition, StartFail, StartFailEmit, StartCreate,
              StartRegister, StartEmit, Typed, TypeOK
    <2>3. QED
      BY <1>2, <2>1, <2>2
  <1>4. ASSUME NEW c \in Starts, StartSpawn(c)
        PROVE  Unspawned'
    <2>1. startPc'[c] \notin Early
      BY <1>4 DEF StartSpawn, Typed, TypeOK
    <2>2. \A d \in Starts \ {c} : startPc'[d] = startPc[d] /\ proc'[d] = proc[d]
      BY <1>4 DEF StartSpawn, Typed, TypeOK
    <2>3. QED
      BY <1>2, <2>1, <2>2
  <1>5. ASSUME NEW c \in Starts, ProcessExit(c)
        PROVE  Unspawned'
    BY <1>2, <1>5 DEF ProcessExit, Typed, TypeOK, startVars
  <1>6. ASSUME MemoryLost
        PROVE  Unspawned'
    BY <1>2, <1>6 DEF MemoryLost, Typed, TypeOK
  <1>7. ASSUME UNCHANGED <<startPc, proc>>
        PROVE  Unspawned'
    BY <1>2, <1>7
  <1>8. (\E i \in Interrupts : Interrupt(i)) => UNCHANGED <<startPc, proc>>
    BY DEF Interrupt, InterruptRead, InterruptSignal, InterruptUpdate, InterruptEmit, startVars,
           procVars
  <1>9. (\E a \in Approvals : ResolveApproval(a) \/ ExpireApproval(a))
          => UNCHANGED <<startPc, proc>>
    BY DEF ResolveApproval, ResolveDecide, ResolveEmit, ResolveClear, ExpireApproval, startVars,
           procVars
  <1>10. (\E c \in Starts : \/ ParsedCompletion(c) \/ PumpEnd(c)
                            \/ \E a \in Approvals : AskApproval(c, a))
           => UNCHANGED <<startPc, proc>>
    BY DEF ParsedCompletion, PumpEnd, AskApproval, startVars
  <1>11. Observer => UNCHANGED <<startPc, proc>>
    BY DEF Observer, ObserveBegin, ObserveTake, ObserveClosed, ObserveEnd, HandleRequest,
           HandleSetPending, HandleWaiting, HandleReload, HandleAnnounce, HandleComplete,
           HandleCompleteEmit, HandleCancel, startVars, procVars
  <1>12. Shutdown \/ Crash => MemoryLost \/ UNCHANGED <<startPc, proc>>
    BY DEF Shutdown, ShutdownBegin, DrainDone, DrainTimeout, DrainMark, MarkList, MarkUpdate,
           ShutdownEnd, Crash, startVars, procVars
  <1>13. CloseServer \/ ReconcileMark \/ ReconcileResolve \/ UNCHANGED vars
           => UNCHANGED <<startPc, proc>>
    BY DEF CloseServer, ReconcileMark, ReconcileResolve, vars, startVars, procVars
  <1>14. Unspawned'
    <2> HIDE DEF Unspawned
    <2>1. QED
      BY <1>3, <1>4, <1>5, <1>6, <1>7, <1>8, <1>9, <1>10, <1>11, <1>12, <1>13
      DEF Next, StartRun
  <1>15. QED
    BY <1>1, <1>14 DEF Channels

\* A StartRun that returned stays so.
LEMMA DoneStays ==
  ASSUME Typed, [Next]_vars, NEW d \in Starts, startPc[d] = "done"
  PROVE  startPc'[d] = "done"
  <1>1. ASSUME NEW c \in Starts, StartRun(c)
        PROVE  startPc'[d] = "done"
    BY <1>1 DEF StartRun, StartRead, StartTransition, StartSpawn, StartFail, StartFailEmit,
            StartCreate, StartRegister, StartEmit, Typed, TypeOK
  <1>2. CASE MemoryLost
    BY <1>2 DEF MemoryLost
  <1>3. (\E i \in Interrupts : Interrupt(i)) => UNCHANGED startPc
    BY DEF Interrupt, InterruptRead, InterruptSignal, InterruptUpdate, InterruptEmit, startVars
  <1>4. (\E a \in Approvals : ResolveApproval(a) \/ ExpireApproval(a)) => UNCHANGED startPc
    BY DEF ResolveApproval, ResolveDecide, ResolveEmit, ResolveClear, ExpireApproval, startVars
  <1>5. (\E c \in Starts : \/ ParsedCompletion(c) \/ ProcessExit(c) \/ PumpEnd(c)
                           \/ \E a \in Approvals : AskApproval(c, a)) => UNCHANGED startPc
    BY DEF ParsedCompletion, ProcessExit, PumpEnd, AskApproval, startVars
  <1>6. Observer => UNCHANGED startPc
    BY DEF Observer, ObserveBegin, ObserveTake, ObserveClosed, ObserveEnd, HandleRequest,
           HandleSetPending, HandleWaiting, HandleReload, HandleAnnounce, HandleComplete,
           HandleCompleteEmit, HandleCancel, startVars
  <1>7. Shutdown \/ Crash => MemoryLost \/ UNCHANGED startPc
    BY DEF Shutdown, ShutdownBegin, DrainDone, DrainTimeout, DrainMark, MarkList, MarkUpdate,
           ShutdownEnd, Crash, startVars
  <1>8. CloseServer \/ ReconcileMark \/ ReconcileResolve \/ UNCHANGED vars => UNCHANGED startPc
    BY DEF CloseServer, ReconcileMark, ReconcileResolve, vars, startVars
  <1>9. QED
    BY <1>1, <1>2, <1>3, <1>4, <1>5, <1>6, <1>7, <1>8 DEF Next

\* The journal keeps telling the run in order: one request launches the observer,
\* after run.started, and the observer journals each completion its channel delivers.
LEMMA ReportedStep == Typed /\ Owner /\ Channels /\ Reported /\ [Next]_vars => Reported'
  <1> SUFFICES ASSUME Typed, Owner, Channels, Reported, [Next]_vars
               PROVE  Reported'
    OBVIOUS
  <1> DEFINE obs == <<obsPc, obsChan>>
             told == Count(journal, {"run.completed"})
             watching == {"loop", "request", "setPending", "waiting", "reload", "announce",
                          "complete", "emit", "cancel"}
  <1>1. (\E c \in Starts : startPc[c] = "done") => \E c \in Starts : startPc'[c] = "done"
    BY DoneStays
  <1>2. /\ journal \in Seq({"session.created", "run.start_failed", "run.started",
                            "approval.requested", "approval.resolved", "run.interrupted",
                            "run.completed"})
        /\ told \in Nat /\ lines \in Nat
    BY CountFinite DEF Typed, TypeOK
  <1>3. lines' \in Nat /\ lines <= lines'
    <2>1. CASE Starts = {}
      BY <1>2, <2>1, TypedStep DEF Next, Typed, TypeOK, vars, procVars, Interrupt, InterruptRead,
              InterruptSignal, InterruptUpdate, InterruptEmit, ResolveApproval, ResolveDecide,
              ResolveEmit, ResolveClear, ExpireApproval, Observer, ObserveBegin, ObserveTake,
              ObserveClosed, ObserveEnd, HandleRequest, HandleSetPending, HandleWaiting,
              HandleReload, HandleAnnounce, HandleComplete, HandleCompleteEmit, HandleCancel,
              CloseServer, Shutdown, ShutdownBegin, DrainDone, DrainTimeout, DrainMark, MarkList,
              MarkUpdate, ShutdownEnd, Crash, MemoryLost, ReconcileMark, ReconcileResolve
    <2>2. CASE Starts # {}
      BY <2>2, DueStep
    <2>3. QED
      BY <2>1, <2>2
  <1>4. obsPc \in watching => obsChan \in Starts
    BY DEF Typed, ObserverShape
  <1>5. /\ Ahead \in Nat /\ Taken \in {0, 1} /\ Taken' \in {0, 1}
        /\ told + Taken + Ahead <= 1 + lines
    BY <1>4, DueStep DEF Ahead, Taken, Reported
  <1> PICK n \in Nat, n2 \in Nat : lines = n /\ lines' = n2 /\ n <= n2
    BY <1>2, <1>3
  <1> PICK k \in Nat, t \in Nat, h \in Nat : told = k /\ Taken = t /\ Ahead = h
    BY <1>2, <1>5
  <1> PICK t2 \in Nat : Taken' = t2
    BY <1>5
  <1>6. ASSUME UNCHANGED obs
        PROVE  /\ Taken' = Taken /\ Ahead' \in Nat
               /\ Ahead' <= Ahead + (lines' - lines)
    <2>1. CASE obsPc \in watching
      <3>1. Ahead = Due(obsChan) /\ Ahead' = Due(obsChan)'
        BY <1>6, <2>1 DEF Ahead
      <3>2. QED
        BY <1>4, <1>6, <2>1, <3>1, DueStep DEF Taken
    <2>2. CASE obsPc \notin watching
      <3>1. Taken' = Taken /\ Ahead' = 0 /\ Ahead = 0
        BY <1>6, <2>2 DEF Ahead, Taken
      <3>2. QED
        BY <3>1
    <2>3. QED
      BY <2>1, <2>2
  <1>7. ASSUME NEW e, journal' = Append(journal, e), obsPc' # "none" => obsPc # "none",
               obsPc' = "observe" => obsPc = "observe" /\ e # "run.completed",
               e \in {"approval.requested", "run.completed"} => obsPc # "none",
               Taken' + Ahead' + (IF e = "run.completed" THEN 1 ELSE 0)
                  <= Taken + Ahead + (lines' - lines),
               Ahead' \in Nat
        PROVE  Reported'
    <2>1. told' = told + IF e = "run.completed" THEN 1 ELSE 0
      BY <1>2, <1>7, CountAppend
    <2>2. told' + Taken' + Ahead' <= 1 + lines'
      <3>1. PICK a2 \in Nat : Ahead' = a2
        BY <1>7
      <3>2. CASE e = "run.completed"
        <4>1. told' = k + 1 /\ t2 + a2 + 1 <= t + h + (n2 - n)
          BY <1>7, <2>1, <3>1, <3>2
        <4>2. QED
          BY <1>5, <3>1, <4>1
      <3>3. CASE e # "run.completed"
        <4>1. told' = k + 0 /\ t2 + a2 <= t + h + (n2 - n)
          BY <1>7, <2>1, <3>1, <3>3
        <4>2. QED
          BY <1>5, <3>1, <4>1
      <3>4. QED
        BY <3>2, <3>3
    <2>3. /\ Happened("run.completed")' <=> Happened("run.completed") \/ e = "run.completed"
          /\ Happened("run.started") => Happened("run.started")'
      BY <1>7, HappenedAppend
    <2>4. /\ Before("run.started", "approval.requested")'
          /\ Before("run.started", "run.completed")'
      BY <1>7, OrderAppend DEF Reported
    <2>5. QED
      BY <1>1, <1>7, <2>2, <2>3, <2>4 DEF Reported
  <1>8. ASSUME UNCHANGED journal, obsPc' # "none" => obsPc # "none",
               obsPc' = "observe" => obsPc = "observe",
               Taken' + Ahead' <= Taken + Ahead + (lines' - lines), Ahead' \in Nat
        PROVE  Reported'
    <2>1. \A e : Happened(e)' <=> Happened(e)
      BY <1>8 DEF Happened
    <2>2. /\ Before("run.started", "approval.requested")'
          /\ Before("run.started", "run.completed")'
      BY <1>8 DEF Reported, Before
    <2>3. told' + Taken' + Ahead' <= 1 + lines'
      <3>1. PICK a2 \in Nat : Ahead' = a2
        BY <1>8
      <3>2. told' = k /\ t2 + a2 <= t + h + (n2 - n)
        BY <1>8, <3>1
      <3>3. QED
        BY <1>5, <3>1, <3>2
    <2>4. QED
      BY <1>1, <1>8, <2>1, <2>2, <2>3 DEF Reported
  <1>9. ASSUME UNCHANGED <<journal, obs>>
        PROVE  Reported'
    <2>1. PICK a2 \in Nat : Ahead' = a2 /\ a2 <= h + (n2 - n)
      BY <1>6, <1>9
    <2>2. Taken' + Ahead' <= Taken + Ahead + (lines' - lines)
      <3>1. t2 = t
        BY <1>6, <1>9
      <3>2. t2 + a2 <= t + h + (n2 - n)
        BY <2>1, <3>1
      <3>3. QED
        BY <2>1, <3>2
    <2>3. QED
      BY <1>8, <1>9, <2>1, <2>2
  <1>10. ASSUME NEW e, journal' = Append(journal, e), UNCHANGED obs,
                e \notin {"approval.requested", "run.completed"}
         PROVE  Reported'
    <2>1. PICK a2 \in Nat : Ahead' = a2 /\ a2 <= h + (n2 - n)
      BY <1>6, <1>10
    <2>2. Taken' + Ahead' + 0 <= Taken + Ahead + (lines' - lines)
      <3>1. t2 = t
        BY <1>6, <1>10
      <3>2. t2 + a2 + 0 <= t + h + (n2 - n)
        BY <2>1, <3>1
      <3>3. QED
        BY <2>1, <3>2
    <2>3. QED
      BY <1>7, <1>10, <2>1, <2>2
  <1>11. ASSUME NEW c \in Starts, StartEmit(c)
         PROVE  Reported'
    <2>1. CASE startPc' = [startPc EXCEPT ![c] = "refused"] /\ UNCHANGED <<journal, obsPc>>
      BY <1>9, <1>11, <2>1 DEF StartEmit
    <2>2. CASE emitEvent("run.started") /\ obsPc' = "observe"
               /\ startPc' = [startPc EXCEPT ![c] = "done"]
      <3>1. startPc[c] = "emit" /\ startPc'[c] = "done"
        BY <1>11, <2>2 DEF StartEmit, Typed, TypeOK
      <3>2. journal' = Append(journal, "run.started")
        BY <2>2 DEF emitEvent
      <3>3. ~ Happened("run.completed")
        BY <3>1 DEF Owner, Reported
      <3>4. ~ Happened("run.completed")' /\ Happened("run.started")'
        BY <3>2, <3>3, HappenedAppend
      <3>5. told' = 0
        BY <3>4, CountNone DEF Happened
      <3>6. Taken' = 0 /\ Ahead' = 0
        BY <2>2 DEF Taken, Ahead
      <3>7. /\ Before("run.started", "approval.requested")'
            /\ Before("run.started", "run.completed")'
        BY <3>2, OrderAppend DEF Reported
      <3>8. told' + Taken' + Ahead' <= 1 + lines'
        BY <1>3, <3>5, <3>6
      <3>9. QED
        BY <2>2, <3>1, <3>4, <3>7, <3>8 DEF Reported
    <2>3. QED
      BY <1>11, <2>1, <2>2 DEF StartEmit
  <1>12. ASSUME UNCHANGED <<obsChan, lines>>, obsPc \in watching, obsPc' \in watching
         PROVE  /\ Ahead' \in Nat /\ Ahead' <= Ahead
                /\ ObserveTake /\ obsPc' = "complete" => Ahead' + 1 <= Ahead
    <2>1. Ahead = Due(obsChan) /\ Ahead' = Due(obsChan)'
      BY <1>12 DEF Ahead, Due
    <2>2. QED
      BY <1>4, <1>12, <2>1, DueStep
  <1>13. CASE HandleAnnounce
    <2>1. obsPc = "announce" /\ obsPc' = "loop" /\ UNCHANGED <<obsChan, lines>>
      BY <1>13 DEF HandleAnnounce, procVars
    <2>2. journal' = Append(journal, "approval.requested")
      BY <1>13 DEF HandleAnnounce, emitEvent
    <2>3. Taken = 0 /\ Taken' = 0
      BY <2>1 DEF Taken
    <2>4. QED
      BY <1>2, <1>3, <1>5, <1>7, <1>12, <2>1, <2>2, <2>3
  <1>14. CASE HandleCompleteEmit
    <2>1. obsPc = "emit" /\ obsPc' = "cancel" /\ UNCHANGED <<obsChan, lines>>
      BY <1>14 DEF HandleCompleteEmit, procVars
    <2>2. journal' = Append(journal, "run.completed")
      BY <1>14 DEF HandleCompleteEmit, emitEvent
    <2>3. Taken = 1 /\ Taken' = 0
      BY <2>1 DEF Taken
    <2>4. QED
      BY <1>2, <1>3, <1>5, <1>7, <1>12, <2>1, <2>2, <2>3
  <1>15. CASE HandleCancel
    <2>1. obsPc = "cancel" /\ obsPc' \in {"cancel", "loop"} /\ UNCHANGED <<obsChan, lines>>
      BY <1>15 DEF HandleCancel, procVars
    <2>2. CASE journal' = journal
      <3>1. Taken = 0 /\ Taken' = 0
        BY <2>1 DEF Taken
      <3>2. QED
        BY <1>2, <1>3, <1>5, <1>8, <1>12, <2>1, <2>2, <3>1
    <2>3. CASE journal' = Append(journal, "approval.resolved") /\ obsPc' = obsPc
      BY <1>10, <2>1, <2>3
    <2>4. QED
      BY <1>15, <2>2, <2>3 DEF HandleCancel, emitEvent
  <1>16. CASE ObserveBegin
    <2>1. /\ obsPc = "observe" /\ obsPc' \in {"loop", "ending"} /\ obsChan' = runs
          /\ UNCHANGED <<journal, lines, proc, signals>>
          /\ obsPc' = "loop" => runs # NoRun
      BY <1>16 DEF ObserveBegin, dbVars, procVars
    <2>2. ~ Happened("run.completed")
      BY <2>1 DEF Reported
    <2>3. told' = 0
      BY <2>1, <2>2, CountNone DEF Happened
    <2>4. Taken' = 0
      BY <2>1 DEF Taken
    <2>5. Ahead' <= 1 + lines' /\ Ahead' \in Nat
      <3>1. CASE obsPc' = "loop"
        <4>1. runs \in Starts
          BY <2>1, <3>1 DEF Typed, TypeOK
        <4>2. Ahead' = Due(runs)
          BY <2>1, <3>1 DEF Ahead, Due
        <4>3. QED
          BY <2>1, <4>1, <4>2, DueStep DEF Channels
      <3>2. CASE obsPc' = "ending"
        <4>1. Ahead' = 0
          BY <3>2 DEF Ahead
        <4>2. QED
          BY <1>3, <4>1
      <3>3. QED
        BY <2>1, <3>1, <3>2
    <2>6. \A e : Happened(e)' <=> Happened(e)
      BY <2>1 DEF Happened
    <2>7. /\ Before("run.started", "approval.requested")'
          /\ Before("run.started", "run.completed")'
      BY <2>1 DEF Reported, Before
    <2>8. told' + Taken' + Ahead' <= 1 + lines'
      <3>1. PICK a2 \in Nat : Ahead' = a2 /\ a2 <= 1 + n2
        BY <2>5
      <3>2. QED
        BY <2>3, <2>4, <3>1
    <2>9. QED
      BY <1>1, <2>1, <2>2, <2>6, <2>7, <2>8 DEF Reported
  <1>17. CASE ObserveTake
    <2>1. /\ obsPc = "loop" /\ obsPc' \in {"request", "complete"}
          /\ UNCHANGED <<journal, obsChan, lines>>
      BY <1>17 DEF ObserveTake, dbVars
    <2>2. Taken = 0 /\ Taken' = IF obsPc' = "complete" THEN 1 ELSE 0
      BY <2>1 DEF Taken
    <2>3. QED
      BY <1>2, <1>3, <1>5, <1>8, <1>12, <1>17, <2>1, <2>2
  <1>18. CASE HandleRequest \/ HandleSetPending \/ HandleWaiting \/ HandleReload \/ HandleComplete
    <2>1. /\ UNCHANGED <<journal, obsChan, lines>>
          /\ obsPc \in watching /\ obsPc' \in watching
          /\ obsPc' \in {"complete", "emit"} <=> obsPc \in {"complete", "emit"}
      BY <1>18 DEF HandleRequest, HandleSetPending, HandleWaiting, HandleReload, HandleComplete,
              dbVars, procVars
    <2>2. Taken' = Taken
      BY <2>1 DEF Taken
    <2>3. QED
      BY <1>2, <1>3, <1>5, <1>8, <1>12, <2>1, <2>2
  <1>19. ASSUME UNCHANGED <<journal, lines>>, obsPc' \in {"none", "ending", "ended"},
                obsPc' # "none" => obsPc # "none"
         PROVE  Reported'
    <2>1. Taken' = 0 /\ Ahead' = 0
      BY <1>19 DEF Taken, Ahead
    <2>2. QED
      BY <1>2, <1>3, <1>5, <1>8, <1>19, <2>1
  <1>20. CASE ObserveClosed \/ ObserveEnd
    BY <1>19, <1>20 DEF ObserveClosed, ObserveEnd, dbVars, procVars
  <1>21. CASE MemoryLost /\ UNCHANGED journal
    BY <1>19, <1>21 DEF MemoryLost
  <1>22. ASSUME NEW c \in Starts, StartRun(c)
         PROVE  Reported'
    <2>1. CASE StartFailEmit(c)
      BY <1>10, <2>1 DEF StartFailEmit, emitEvent, obsVars
    <2>2. CASE \/ StartRead(c) \/ StartTransition(c) \/ StartSpawn(c) \/ StartFail(c)
               \/ StartCreate(c) \/ StartRegister(c)
      BY <1>9, <2>2 DEF StartRead, StartTransition, StartSpawn, StartFail, StartCreate,
              StartRegister, dbVars, obsVars
    <2>3. QED
      BY <1>11, <1>22, <2>1, <2>2 DEF StartRun
  <1>23. ASSUME NEW i \in Interrupts, Interrupt(i)
         PROVE  Reported'
    <2>1. CASE InterruptEmit(i)
      BY <1>10, <2>1 DEF InterruptEmit, emitEvent, obsVars
    <2>2. CASE InterruptRead(i) \/ InterruptSignal(i) \/ InterruptUpdate(i)
      BY <1>9, <2>2 DEF InterruptRead, InterruptSignal, InterruptUpdate, dbVars, obsVars
    <2>3. QED
      BY <1>23, <2>1, <2>2 DEF Interrupt
  <1>24. ASSUME NEW a \in Approvals, ResolveApproval(a) \/ ExpireApproval(a)
         PROVE  Reported'
    <2>1. CASE ResolveEmit(a)
      BY <1>10, <2>1 DEF ResolveEmit, emitEvent, obsVars
    <2>2. CASE ResolveDecide(a) \/ ResolveClear(a) \/ ExpireApproval(a)
      BY <1>9, <2>2 DEF ResolveDecide, ResolveClear, ExpireApproval, dbVars, obsVars
    <2>3. QED
      BY <1>24, <2>1, <2>2 DEF ResolveApproval
  <1>25. (\E c \in Starts : \/ ParsedCompletion(c) \/ ProcessExit(c) \/ PumpEnd(c)
                            \/ \E a \in Approvals : AskApproval(c, a))
           => UNCHANGED <<journal, obs>>
    BY DEF ParsedCompletion, ProcessExit, PumpEnd, AskApproval, dbVars, obsVars
  <1>26. Shutdown \/ Crash => (MemoryLost /\ UNCHANGED journal) \/ UNCHANGED <<journal, obs>>
    BY DEF Shutdown, ShutdownBegin, DrainDone, DrainTimeout, DrainMark, MarkList, MarkUpdate,
           ShutdownEnd, Crash, dbVars, obsVars
  <1>27. CloseServer \/ ReconcileMark \/ ReconcileResolve \/ UNCHANGED vars
           => UNCHANGED <<journal, obs>>
    BY DEF CloseServer, ReconcileMark, ReconcileResolve, vars, dbVars, obsVars
  <1> HIDE DEF obs
  <1>28. QED
    BY <1>9, <1>13, <1>14, <1>15, <1>16, <1>17, <1>18, <1>20, <1>21, <1>22, <1>23, <1>24,
       <1>25, <1>26, <1>27 DEF Next, Observer

-----------------------------------------------------------------------------
(* The theorems.                                                           *)

\* Everything the steps keep together.
IInv == Typed /\ Reads /\ Owner /\ Spawned /\ Quiet /\ Marked /\ Reconciled

\* The inductive invariant holds in every reachable state.
LEMMA Inductive == Spec => []IInv
  <1>1. Init => IInv
    <2> SUFFICES ASSUME Init
                 PROVE  IInv
      OBVIOUS
    <2>1. Typed
      BY InitTyped
    <2>2. Reads /\ Owner /\ Spawned
      BY SessionNames DEF Init, Reads, Owner, Spawned
    <2>3. Quiet /\ Marked /\ Reconciled
      BY DEF Init, Quiet, Marked, Reconciled
    <2>4. QED
      BY <2>1, <2>2, <2>3 DEF IInv
  <1>2. IInv /\ [Next]_vars => IInv'
    <2> SUFFICES ASSUME IInv, [Next]_vars
                 PROVE  IInv'
      OBVIOUS
    <2>1. Typed' /\ Reads' /\ Owner' /\ Spawned'
      BY TypedStep, ReadsStep, OwnerStep, SpawnedStep DEF IInv
    <2>2. session # "resumable"
      BY DEF IInv, Reconciled
    <2>3. Quiet' /\ Marked' /\ Reconciled'
      BY <2>2, QuietStep, MarkedStep, ReconciledStep DEF IInv
    <2>4. QED
      BY <2>1, <2>3 DEF IInv
  <1>3. QED
    BY <1>1, <1>2, PTL DEF Spec

\* Every variable keeps its type, for any number of requests and approvals.
THEOREM SessionTypeCorrect == Spec => []TypeOK
  <1>1. IInv => TypeOK
    BY DEF IInv, Typed
  <1>2. QED
    BY <1>1, Inductive, PTL

\* However stale the state a request, the observer or the shutdown acts on, the
\* stored state moves along validTransitions or into "recovering".
THEOREM LegalTransitionsTheorem == Spec => LegalTransitions
  <1>1. IInv /\ [Next]_vars
          => [session' # session =>
                 session' = "recovering" \/ CanTransition(session, session')]_vars
    BY SessionMoves DEF IInv, Moves
  <1>2. QED
    BY <1>1, Inductive, PTL DEF Spec, LegalTransitions

\* Only the marking of a shutdown moves a completed or failed session.
THEOREM EndedStaysTheorem == Spec => EndedStays
  <1>1. IInv /\ [Next]_vars
          => [(session \in {"completed", "failed"} /\ session' # session)
                 => shutPc \in {"drainMark", "mark"}]_vars
    <2> SUFFICES ASSUME IInv, [Next]_vars, session \in {"completed", "failed"},
                        session' # session
                 PROVE  shutPc \in {"drainMark", "mark"}
      OBVIOUS
    <2>1. Moves
      BY SessionMoves DEF IInv
    <2>2. \A t : CanTransition(session, t) => t = "resumable"
      BY DEF CanTransition, validTransitions
    <2>3. ~ isNonterminalState(session)
      BY DEF isNonterminalState
    <2>4. QED
      BY <2>1, <2>2, <2>3 DEF Moves
  <1>2. QED
    BY <1>1, Inductive, PTL DEF Spec, EndedStays

\* Of all StartRun requests that race, one gets the run row and is tracked; the
\* observer reads its process, unless a second process was started.
THEOREM OneRunTheorem == Spec => []OneRun
  <1>1. IInv => OneRun
    <2> SUFFICES ASSUME IInv, obsChan \notin {NoRun, runRow}
                 PROVE  \E c, d \in Starts : c # d /\ proc[c] # "none" /\ proc[d] # "none"
      BY DEF IInv, Owner, OneRun
    <2>1. obsChan \in Starts /\ runRow \in Starts
      BY DEF IInv, Typed, TypeOK, Spawned
    <2>2. QED
      BY <2>1 DEF IInv, Spawned
  <1>2. QED
    BY <1>1, Inductive, PTL

\* A graceful stop leaves no session in progress behind, for any order of the
\* observer's and the shutdown's statements.
THEOREM StoppedIsMarkedTheorem == Spec => []StoppedIsMarked
  <1>1. IInv => StoppedIsMarked
    BY DEF IInv, Marked, StoppedIsMarked, InProgress
  <1>2. QED
    BY <1>1, Inductive, PTL

\* Whatever sequence of crashes and stops came before, an incarnation that serves
\* after a restart shows no earlier session as live.
THEOREM ReconciledNotLiveTheorem == Spec => []ReconciledNotLive
  <1>1. IInv => ReconciledNotLive
    BY DEF IInv, Reconciled, ReconciledNotLive, InProgress
  <1>2. QED
    BY <1>1, Inductive, PTL

\* For any number of requests, approvals, completion lines and restarts, what the
\* observer journals follows run.started, and the journal has one run.completed more
\* than there were such lines, at most.
THEOREM JournalOrderTheorem == Spec => []JournalOrder
  <1>1. Init => Channels /\ Reported
    <2> SUFFICES ASSUME Init
                 PROVE  Channels /\ Reported
      OBVIOUS
    <2>1. Channels
      <3>1. DOMAIN << >> = {}
        OBVIOUS
      <3>2. \A c \in Starts : proc[c] = "none" /\ DOMAIN signals[c] = {}
        BY <3>1 DEF Init
      <3>3. \A c \in Starts : Count(signals[c], Exits) = 0
        BY <3>2, CountNone
      <3>4. QED
        BY <3>2, <3>3 DEF Init, Channels, Due
    <2>2. DOMAIN journal = {1} /\ journal[1] = "session.created"
      BY DEF Init
    <2>3. Count(journal, {"run.completed"}) = 0
      BY <2>2, CountNone
    <2>4. Reported
      BY <2>2, <2>3 DEF Init, Reported, Happened, Before, Taken, Ahead
    <2>5. QED
      BY <2>1, <2>4
  <1>2. IInv /\ Channels /\ Reported /\ [Next]_vars => Channels' /\ Reported'
    BY ChannelsStep, ReportedStep DEF IInv
  <1>3. IInv /\ Reported => JournalOrder
    <2> SUFFICES ASSUME IInv, Reported
                 PROVE  Count(journal, {"run.completed"}) <= 1 + lines
      BY DEF Reported, JournalOrder
    <2>1. Count(journal, {"run.completed"}) \in Nat /\ lines \in Nat
      BY CountFinite DEF IInv, Typed, TypeOK
    <2>2. Taken \in Nat /\ Ahead \in Nat
      <3>1. ASSUME NEW c \in Starts
            PROVE  Due(c) \in Nat
        <4>1. signals[c] \in Seq(Approvals \cup {"completed", "failed"})
          BY DEF IInv, Typed, TypeOK
        <4>2. Count(signals[c], Exits) \in Nat
          BY <4>1, CountFinite
        <4>3. QED
          BY <4>2 DEF Due
      <3>2. QED
        BY <3>1 DEF Taken, Ahead, IInv, Typed, ObserverShape
    <2>3. QED
      BY <2>1, <2>2 DEF Reported
  <1>4. QED
    BY <1>1, <1>2, <1>3, Inductive, PTL DEF Spec
=============================================================================
