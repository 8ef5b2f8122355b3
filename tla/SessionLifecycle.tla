-------------------------- MODULE SessionLifecycle --------------------------
(***************************************************************************)
(* One session through its life: the session service (internal/app), the   *)
(* compare-and-set on the sessions table (internal/storage), the           *)
(* transition table (internal/session), the adapter's process and signal   *)
(* channel (internal/adapter/claude, internal/wrapper) and the lifecycle   *)
(* manager that drains at shutdown and reconciles at start                 *)
(* (internal/lifecycle).                                                   *)
(*                                                                         *)
(* Every statement on the sessions and runs tables is a step of its own:   *)
(* requests, the observer goroutine and the shutdown goroutine interleave  *)
(* between them, each with the session state it read earlier.  A call of   *)
(* the approval bridge is one step here; ApprovalBridge takes it apart.    *)
(* Every process of a session has the run id "run-" + session id, so the   *)
(* adapter's map and the runs table hold one entry; processes are named    *)
(* after the StartRun call that spawned them.                              *)
(***************************************************************************)
EXTENDS Naturals, Sequences, FiniteSets

CONSTANTS
    Starts,       \* StartRun requests
    Interrupts,   \* Interrupt requests
    Approvals,    \* approval ids the agent asks for
    NoRun,        \* no entry for the run id
    NoApproval,   \* pending_approval_id is NULL
    SignalCap,    \* capacity of a run's signal channel (256)
    MaxLines,     \* bound: completion lines the agents print
    MaxRestarts   \* bound: server incarnations after the first

ASSUME SessionNames == NoRun \notin Starts /\ NoApproval \notin Approvals
ASSUME SessionBounds == SignalCap \in Nat /\ MaxLines \in Nat /\ MaxRestarts \in Nat

VARIABLES
    session,    \* sessions.state
    pending,    \* sessions.pending_approval_id
    runRow,     \* the call whose row runs.id = "run-<session>" is, or NoRun
    journal,    \* events of the session, oldest first
    approval,   \* state of an approval in the bridge
    shown,      \* approvals whose id a device can know
    phase,      \* lifecycle phase, "down" between two incarnations
    http,       \* whether the HTTP server takes requests
    activeRuns, \* calls whose run the lifecycle manager tracks
    startPc,    \* progress of a StartRun request
    seen,       \* the session state it read
    proc,       \* the process it spawned
    runs,       \* the adapter's map: the process behind the run id
    signals,    \* the process's signal channel
    closed,     \* processes whose signal channel is closed
    lines,      \* completion lines printed so far
    obsPc,      \* progress of the observer goroutine
    obsState,   \* its session state: s.State
    obsChan,    \* the process whose channel it ranges over
    obsSignal,  \* the signal it is handling
    intPc,      \* progress of an Interrupt request
    intSeen,    \* the session state it read
    resPc,      \* progress of the ResolveApproval request that won
    shutPc,     \* progress of Shutdown
    restarts

dbVars    == <<session, pending, runRow, journal>>
startVars == <<startPc, seen>>
procVars  == <<proc, runs, signals, closed, lines>>
obsVars   == <<obsPc, obsState, obsChan, obsSignal>>
callVars  == <<intPc, intSeen, resPc>>
lifeVars  == <<phase, http, activeRuns, shutPc, restarts>>
vars == <<dbVars, approval, shown, startVars, procVars, obsVars, callVars, lifeVars>>

-----------------------------------------------------------------------------
(* The transition table and the sessions table.                            *)

validTransitions ==
    [created          |-> {"starting", "failed"},
     starting         |-> {"active", "failed"},
     active           |-> {"waiting_approval", "interrupted", "completed", "failed"},
     waiting_approval |-> {"active", "interrupted", "failed"},
     interrupted      |-> {"resumable", "failed"},
     completed        |-> {"resumable"},
     failed           |-> {},
     resumable        |-> {"starting"},
     recovering       |-> {"active", "completed", "failed"}]

SessionStates == DOMAIN validTransitions
CanTransition(from, to) == to \in validTransitions[from]

isNonterminalStateNoStarting(s) ==  \* mutant
    s \in {"created", "active", "waiting_approval", "recovering"}

isNonterminalState(s) ==
    s \in {"created", "starting", "active", "waiting_approval", "recovering"}

\* UpdateState with an expected state: WHERE id = ? AND state = ?. Every caller
\* ignores whether a row matched.
UpdateState(new, expected) ==
    session' = IF session = expected THEN new ELSE session

emitEvent(e) == journal' = Append(journal, e)

Running == phase \in {"running", "draining"}
Serving == phase = "running" /\ http = "open"

\* send: the non-blocking send on a run's channel, which drops when it is full.
Sent(c, s) ==
    IF Len(signals[c]) < SignalCap THEN [signals EXCEPT ![c] = Append(@, s)] ELSE signals

Init ==
    /\ session = "created"
    /\ pending = NoApproval
    /\ runRow = NoRun
    /\ journal = <<"session.created">>
    /\ approval = [a \in Approvals |-> "none"]
    /\ shown = {}
    /\ phase = "running"
    /\ http = "open"
    /\ activeRuns = {}
    /\ startPc = [c \in Starts |-> "idle"]
    /\ seen = [c \in Starts |-> "created"]
    /\ proc = [c \in Starts |-> "none"]
    /\ runs = NoRun
    /\ signals = [c \in Starts |-> <<>>]
    /\ closed = {}
    /\ lines = 0
    /\ obsPc = "none"
    /\ obsState = "created"
    /\ obsChan = NoRun
    /\ obsSignal = "none"
    /\ intPc = [i \in Interrupts |-> "idle"]
    /\ intSeen = [i \in Interrupts |-> "created"]
    /\ resPc = [a \in Approvals |-> "idle"]
    /\ shutPc = "none"
    /\ restarts = 0

-----------------------------------------------------------------------------
(* StartRun.                                                               *)

StartRead(c) ==
    /\ Serving
    /\ startPc[c] = "idle"
    /\ seen' = [seen EXCEPT ![c] = session]
    /\ startPc' = [startPc EXCEPT ![c] = IF CanTransition(session, "starting")
                                           THEN "transition" ELSE "refused"]
    /\ UNCHANGED <<dbVars, approval, procVars, obsVars, callVars, lifeVars, shown>>

StartTransition(c) ==
    /\ startPc[c] = "transition"
    /\ UpdateState("starting", seen[c])
    /\ startPc' = [startPc EXCEPT ![c] = "spawn"]
    /\ UNCHANGED <<pending, runRow, journal, approval, seen, procVars, obsVars,
                   callVars, lifeVars, shown>>

\* ad.Start: the new process takes over the entry of the run id.
StartSpawn(c) ==
    /\ startPc[c] = "spawn"
    /\ \/ /\ proc' = [proc EXCEPT ![c] = "running"]
          /\ runs' = c
          /\ startPc' = [startPc EXCEPT ![c] = "create"]
       \/ /\ startPc' = [startPc EXCEPT ![c] = "fail"]
          /\ UNCHANGED <<proc, runs>>
    /\ UNCHANGED <<dbVars, approval, seen, signals, closed, lines, obsVars, callVars,
                   lifeVars, shown>>

StartFail(c) ==
    /\ startPc[c] = "fail"
    /\ UpdateState("failed", "starting")
    /\ startPc' = [startPc EXCEPT ![c] = "failEmit"]
    /\ UNCHANGED <<pending, runRow, journal, approval, seen, procVars, obsVars,
                   callVars, lifeVars, shown>>

StartFailEmit(c) ==
    /\ startPc[c] = "failEmit"
    /\ emitEvent("run.start_failed")
    /\ startPc' = [startPc EXCEPT ![c] = "refused"]
    /\ UNCHANGED <<session, pending, runRow, approval, seen, procVars, obsVars,
                   callVars, lifeVars, shown>>

\* Mutant: INSERT OR REPLACE.
StartCreateReplace(c) ==
    /\ startPc[c] = "create"
    /\ runRow' = c
    /\ startPc' = [startPc EXCEPT ![c] = "register"]
    /\ UNCHANGED <<session, pending, journal, approval, seen, procVars, obsVars,
                   callVars, lifeVars, shown>>

\* CreateRun inserts under the primary key. When the id is taken, StartRun
\* returns an error and leaves the process and the session as they are.
StartCreate(c) ==
    /\ startPc[c] = "create"
    /\ \/ /\ runRow = NoRun
          /\ runRow' = c
          /\ startPc' = [startPc EXCEPT ![c] = "register"]
       \/ /\ runRow # NoRun
          /\ startPc' = [startPc EXCEPT ![c] = "refused"]
          /\ UNCHANGED runRow
    /\ UNCHANGED <<session, pending, journal, approval, seen, procVars, obsVars,
                   callVars, lifeVars, shown>>

StartRegister(c) ==
    /\ startPc[c] = "register"
    /\ activeRuns' = IF phase = "running" THEN activeRuns \cup {c} ELSE activeRuns
    /\ UpdateState("active", "starting")
    /\ startPc' = [startPc EXCEPT ![c] = "emit"]
    /\ UNCHANGED <<pending, runRow, journal, approval, seen, procVars, obsVars,
                   callVars, phase, http, shutPc, restarts, shown>>

\* Mutant: the observer is launched before run.started is in the journal.
StartEmitAfterLaunch(c) ==
    /\ startPc[c] = "emit"
    /\ obsPc' = "observe"
    /\ obsState' = seen[c]
    /\ startPc' = [startPc EXCEPT ![c] = "done"]
    /\ UNCHANGED <<dbVars, approval, seen, procVars, obsChan, obsSignal, callVars,
                   lifeVars, shown>>

\* The observer goroutine gets the session as StartRun read it. When the event
\* cannot be appended, StartRun returns: the run stays tracked, nobody observes it.
StartEmit(c) ==
    /\ startPc[c] = "emit"
    /\ \/ /\ emitEvent("run.started")
          /\ obsPc' = "observe"
          /\ obsState' = seen[c]
          /\ startPc' = [startPc EXCEPT ![c] = "done"]
       \/ /\ startPc' = [startPc EXCEPT ![c] = "refused"]
          /\ UNCHANGED <<journal, obsPc, obsState>>
    /\ UNCHANGED <<session, pending, runRow, approval, seen, procVars, obsChan,
                   obsSignal, callVars, lifeVars, shown>>

StartRun(c) ==
    \/ StartRead(c)
    \/ StartTransition(c)
    \/ StartSpawn(c)
    \/ StartFail(c)
    \/ StartFailEmit(c)
    \/ StartCreate(c)
    \/ StartRegister(c)
    \/ StartEmit(c)

-----------------------------------------------------------------------------
(* The agent process and the adapter's pump.                               *)

\* handlePermission: the request goes to the process behind the run id.
AskApproval(c, a) ==
    /\ Running
    /\ proc[c] = "running"
    /\ approval[a] = "none"
    /\ runs # NoRun
    /\ approval' = [approval EXCEPT ![a] = "asked"]
    /\ signals' = Sent(runs, a)
    /\ UNCHANGED <<dbVars, startVars, proc, runs, closed, lines, obsVars, callVars,
                   lifeVars, shown>>

\* emitParsed forwards what the parser makes of a line: one of type "completion"
\* is a completion signal with the exit code the line gives, 0 without one. The
\* process goes on.
ParsedCompletion(c) ==
    /\ Running
    /\ proc[c] = "running"
    /\ lines < MaxLines
    /\ lines' = lines + 1
    /\ \E result \in {"completed", "failed"} : signals' = Sent(c, result)
    /\ UNCHANGED <<dbVars, approval, startVars, proc, runs, closed, obsVars, callVars,
                   lifeVars, shown>>

\* The process ends and emitCompletion reports its exit code, if the wrapper
\* has one: not after a Kill.
ProcessExit(c) ==
    /\ Running
    /\ proc[c] = "running"
    /\ proc' = [proc EXCEPT ![c] = "exited"]
    /\ \/ \E result \in {"completed", "failed"} : signals' = Sent(c, result)
       \/ UNCHANGED signals
    /\ UNCHANGED <<dbVars, approval, startVars, runs, closed, lines, obsVars, callVars,
                   lifeVars, shown>>

\* Mutant: the pump returns without closing the channel.
PumpEndOpen(c) ==
    /\ Running
    /\ proc[c] = "exited"
    /\ c \notin closed
    /\ runs = c
    /\ runs' = NoRun
    /\ UNCHANGED <<dbVars, approval, startVars, proc, signals, closed, lines, obsVars,
                   callVars, lifeVars, shown>>

\* The deferred calls of pump: whatever process is behind the run id is
\* removed from the map, and the channel is closed.
PumpEnd(c) ==
    /\ Running
    /\ proc[c] = "exited"
    /\ c \notin closed
    /\ runs' = NoRun
    /\ closed' = closed \cup {c}
    /\ UNCHANGED <<dbVars, approval, startVars, proc, signals, lines, obsVars, callVars,
                   lifeVars, shown>>

-----------------------------------------------------------------------------
(* observeAdapter, handleApprovalRequest and handleCompletion.             *)

\* Observe returns the channel of the process behind the run id now; without
\* one, a closed channel.
ObserveBegin ==
    /\ Running
    /\ obsPc = "observe"
    /\ obsChan' = runs
    /\ obsPc' = IF runs = NoRun THEN "ending" ELSE "loop"
    /\ UNCHANGED <<dbVars, approval, startVars, procVars, obsState, obsSignal,
                   callVars, lifeVars, shown>>

ObserveTake ==
    /\ Running
    /\ obsPc = "loop"
    /\ signals[obsChan] # <<>>
    /\ obsSignal' = Head(signals[obsChan])
    /\ signals' = [signals EXCEPT ![obsChan] = Tail(@)]
    /\ obsPc' = IF Head(signals[obsChan]) \in Approvals THEN "request" ELSE "complete"
    /\ UNCHANGED <<dbVars, approval, startVars, proc, runs, closed, lines, obsState,
                   obsChan, callVars, lifeVars, shown>>

ObserveClosed ==
    /\ Running
    /\ obsPc = "loop"
    /\ signals[obsChan] = <<>>
    /\ obsChan \in closed
    /\ obsPc' = "ending"
    /\ UNCHANGED <<dbVars, approval, startVars, procVars, obsState, obsChan,
                   obsSignal, callVars, lifeVars, shown>>

\* The deferred CompleteRun.
ObserveEnd ==
    /\ Running
    /\ obsPc = "ending"
    /\ activeRuns' = {}
    /\ obsPc' = "ended"
    /\ UNCHANGED <<dbVars, approval, startVars, procVars, obsState, obsChan,
                   obsSignal, callVars, phase, http, shutPc, restarts, shown>>

HandleRequest ==
    /\ Running
    /\ obsPc = "request"
    /\ approval' = [approval EXCEPT ![obsSignal] = "pending"]
    /\ obsPc' = "setPending"
    /\ UNCHANGED <<dbVars, startVars, procVars, obsState, obsChan, obsSignal,
                   callVars, lifeVars, shown>>

HandleSetPending ==
    /\ Running
    /\ obsPc = "setPending"
    /\ pending' = obsSignal
    /\ shown' = shown \cup {obsSignal}
    /\ obsPc' = "waiting"
    /\ UNCHANGED <<session, runRow, journal, approval, startVars, procVars,
                   obsState, obsChan, obsSignal, callVars, lifeVars>>

HandleWaiting ==
    /\ Running
    /\ obsPc = "waiting"
    /\ IF CanTransition(obsState, "waiting_approval")
         THEN UpdateState("waiting_approval", obsState)
         ELSE UNCHANGED session
    /\ obsPc' = "reload"
    /\ UNCHANGED <<pending, runRow, journal, approval, startVars, procVars,
                   obsState, obsChan, obsSignal, callVars, lifeVars, shown>>

HandleReload ==
    /\ Running
    /\ obsPc = "reload"
    /\ obsState' = session
    /\ obsPc' = "announce"
    /\ UNCHANGED <<dbVars, approval, startVars, procVars, obsChan, obsSignal,
                   callVars, lifeVars, shown>>

HandleAnnounce ==
    /\ Running
    /\ obsPc = "announce"
    /\ emitEvent("approval.requested")
    /\ obsPc' = "loop"
    /\ UNCHANGED <<session, pending, runRow, approval, startVars, procVars,
                   obsState, obsChan, obsSignal, callVars, lifeVars, shown>>

\* UpdateRunState names a column the runs table does not have, and its error
\* is ignored: the row stays 'active'.
HandleComplete ==
    /\ Running
    /\ obsPc = "complete"
    /\ IF CanTransition(obsState, obsSignal)
         THEN UpdateState(obsSignal, obsState)
         ELSE UNCHANGED session
    /\ obsPc' = "emit"
    /\ UNCHANGED <<pending, runRow, journal, approval, startVars, procVars,
                   obsState, obsChan, obsSignal, callVars, lifeVars, shown>>

HandleCompleteEmit ==
    /\ Running
    /\ obsPc = "emit"
    /\ emitEvent("run.completed")
    /\ obsPc' = "cancel"
    /\ UNCHANGED <<session, pending, runRow, approval, startVars, procVars,
                   obsState, obsChan, obsSignal, callVars, lifeVars, shown>>

\* One pending approval after the other; pending_approval_id is not cleared.
HandleCancel ==
    /\ Running
    /\ obsPc = "cancel"
    /\ \/ \E a \in Approvals :
             /\ approval[a] = "pending"
             /\ approval' = [approval EXCEPT ![a] = "cancelled"]
             /\ emitEvent("approval.resolved")
             /\ UNCHANGED obsPc
       \/ /\ \A a \in Approvals : approval[a] # "pending"
          /\ obsPc' = "loop"
          /\ UNCHANGED <<approval, journal>>
    /\ UNCHANGED <<session, pending, runRow, startVars, procVars, obsState,
                   obsChan, obsSignal, callVars, lifeVars, shown>>

Observer ==
    \/ ObserveBegin
    \/ ObserveTake
    \/ ObserveClosed
    \/ ObserveEnd
    \/ HandleRequest
    \/ HandleSetPending
    \/ HandleWaiting
    \/ HandleReload
    \/ HandleAnnounce
    \/ HandleComplete
    \/ HandleCompleteEmit
    \/ HandleCancel

-----------------------------------------------------------------------------
(* Interrupt, ResolveApproval and the expiry sweep.                        *)

InterruptRead(i) ==
    /\ Serving
    /\ intPc[i] = "idle"
    /\ session \in {"active", "waiting_approval"}
    /\ runRow # NoRun
    /\ intSeen' = [intSeen EXCEPT ![i] = session]
    /\ intPc' = [intPc EXCEPT ![i] = "signal"]
    /\ UNCHANGED <<dbVars, approval, startVars, procVars, obsVars, resPc, lifeVars,
                   shown>>

\* ad.Interrupt: refused when no process is behind the run id, or when neither
\* it nor its process group can be signalled any more.
InterruptSignal(i) ==
    /\ intPc[i] = "signal"
    /\ \/ /\ runs # NoRun
          /\ intPc' = [intPc EXCEPT ![i] = "update"]
       \/ intPc' = [intPc EXCEPT ![i] = "done"]
    /\ UNCHANGED <<dbVars, approval, startVars, procVars, obsVars, intSeen, resPc,
                   lifeVars, shown>>

InterruptUpdate(i) ==
    /\ intPc[i] = "update"
    /\ UpdateState("interrupted", intSeen[i])
    /\ intPc' = [intPc EXCEPT ![i] = "emit"]
    /\ UNCHANGED <<pending, runRow, journal, approval, startVars, procVars,
                   obsVars, intSeen, resPc, lifeVars, shown>>

InterruptEmit(i) ==
    /\ intPc[i] = "emit"
    /\ emitEvent("run.interrupted")
    /\ intPc' = [intPc EXCEPT ![i] = "done"]
    /\ UNCHANGED <<session, pending, runRow, approval, startVars, procVars,
                   obsVars, intSeen, resPc, lifeVars, shown>>

Interrupt(i) ==
    \/ InterruptRead(i)
    \/ InterruptSignal(i)
    \/ InterruptUpdate(i)
    \/ InterruptEmit(i)

\* Decide, as ApprovalBridge details it, seen from here: one winner.
ResolveDecide(a) ==
    /\ Serving
    /\ a \in shown
    /\ approval[a] = "pending"
    /\ approval' = [approval EXCEPT ![a] = "decided"]
    /\ resPc' = [resPc EXCEPT ![a] = "emit"]
    /\ UNCHANGED <<dbVars, startVars, procVars, obsVars, intPc, intSeen, lifeVars,
                   shown>>

ResolveEmit(a) ==
    /\ resPc[a] = "emit"
    /\ emitEvent("approval.resolved")
    /\ resPc' = [resPc EXCEPT ![a] = "clear"]
    /\ UNCHANGED <<session, pending, runRow, approval, startVars, procVars,
                   obsVars, intPc, intSeen, lifeVars, shown>>

\* SetPendingApproval(nil), whichever approval is recorded. The session state
\* is not touched.
ResolveClear(a) ==
    /\ resPc[a] = "clear"
    /\ pending' = NoApproval
    /\ resPc' = [resPc EXCEPT ![a] = "done"]
    /\ UNCHANGED <<session, runRow, journal, approval, startVars, procVars,
                   obsVars, intPc, intSeen, lifeVars, shown>>

ResolveApproval(a) ==
    \/ ResolveDecide(a)
    \/ ResolveEmit(a)
    \/ ResolveClear(a)

\* checkExpiry emits no event and leaves the session alone.
ExpireApproval(a) ==
    /\ Running
    /\ approval[a] = "pending"
    /\ approval' = [approval EXCEPT ![a] = "expired"]
    /\ UNCHANGED <<dbVars, startVars, procVars, obsVars, callVars, lifeVars, shown>>

-----------------------------------------------------------------------------
(* The lifecycle manager.                                                  *)

RequestsDone ==
    /\ \A c \in Starts : startPc[c] \in {"idle", "refused", "done", "dead"}
    /\ \A i \in Interrupts : intPc[i] \in {"idle", "done", "dead"}
    /\ \A a \in Approvals : resPc[a] \in {"idle", "done", "dead"}

\* httpServer.Shutdown: no new request is taken.
CloseServer ==
    /\ Serving
    /\ http' = "closed"
    /\ UNCHANGED <<dbVars, approval, startVars, procVars, obsVars, callVars,
                   phase, activeRuns, shutPc, restarts, shown>>

\* Manager.Shutdown, called when the requests in progress have returned.
ShutdownBegin ==
    /\ phase = "running"
    /\ http = "closed"
    /\ RequestsDone
    /\ phase' = "draining"
    /\ shutPc' = IF activeRuns = {} THEN "list" ELSE "drain"
    /\ UNCHANGED <<dbVars, approval, startVars, procVars, obsVars, callVars,
                   http, activeRuns, restarts, shown>>

DrainDone ==
    /\ shutPc = "drain"
    /\ activeRuns = {}
    /\ shutPc' = "list"
    /\ UNCHANGED <<dbVars, approval, startVars, procVars, obsVars, callVars,
                   phase, http, activeRuns, restarts, shown>>

\* Mutant: drainRun without its timeout and context cases.
DrainTimeoutNever ==
    /\ shutPc = "drain"
    /\ activeRuns = {}
    /\ shutPc' = "drainMark"
    /\ UNCHANGED <<dbVars, approval, startVars, procVars, obsVars, callVars,
                   phase, http, activeRuns, restarts, shown>>

\* drainTimeout or the shutdown context: chosen while the run is going on.
DrainTimeout ==
    /\ shutPc = "drain"
    /\ shutPc' = "drainMark"
    /\ UNCHANGED <<dbVars, approval, startVars, procVars, obsVars, callVars,
                   phase, http, activeRuns, restarts, shown>>

\* markSessionForRecovery: UpdateState without an expected state.
DrainMark ==
    /\ shutPc = "drainMark"
    /\ session' = "recovering"
    /\ shutPc' = "list"
    /\ UNCHANGED <<pending, runRow, journal, approval, startVars, procVars,
                   obsVars, callVars, phase, http, activeRuns, restarts, shown>>

\* markUnresolvedForRecovery reads all sessions, then updates the nonterminal
\* ones without an expected state.
MarkList ==
    /\ shutPc = "list"
    /\ shutPc' = IF isNonterminalState(session) THEN "mark" ELSE "stop"
    /\ UNCHANGED <<dbVars, approval, startVars, procVars, obsVars, callVars,
                   phase, http, activeRuns, restarts, shown>>

MarkUpdate ==
    /\ shutPc = "mark"
    /\ session' = "recovering"
    /\ shutPc' = "stop"
    /\ UNCHANGED <<pending, runRow, journal, approval, startVars, procVars,
                   obsVars, callVars, phase, http, activeRuns, restarts, shown>>

\* What a dead server leaves of its memory.
MemoryLost ==
    /\ activeRuns' = {}
    /\ proc' = [c \in Starts |-> IF proc[c] = "running" THEN "lost" ELSE proc[c]]
    /\ runs' = NoRun
    /\ signals' = [c \in Starts |-> <<>>]
    /\ obsPc' = "none"
    /\ startPc' = [c \in Starts |->
                      IF startPc[c] \in {"idle", "refused", "done"}
                        THEN startPc[c] ELSE "dead"]
    /\ intPc' = [i \in Interrupts |->
                    IF intPc[i] \in {"idle", "done"} THEN intPc[i] ELSE "dead"]
    /\ resPc' = [a \in Approvals |->
                    IF resPc[a] \in {"idle", "done"} THEN resPc[a] ELSE "dead"]
    /\ UNCHANGED <<closed, lines, seen, obsState, obsChan, obsSignal, intSeen>>

\* Shutdown returns, runCancel kills the processes, the database is closed.
ShutdownEnd ==
    /\ shutPc = "stop"
    /\ phase' = "stopped"
    /\ shutPc' = "none"
    /\ MemoryLost
    /\ UNCHANGED <<dbVars, approval, http, restarts, shown>>

\* The process is killed, at any point: serving, draining or reconciling.
Crash ==
    /\ phase \notin {"stopped", "down"}
    /\ restarts < MaxRestarts
    /\ phase' = "down"
    /\ http' = "closed"
    /\ shutPc' = "none"
    /\ MemoryLost
    /\ UNCHANGED <<dbVars, approval, restarts, shown>>

\* reconcileOnStartup, first statement for this session.
ReconcileMark ==
    /\ phase \in {"stopped", "down"}
    /\ restarts < MaxRestarts
    /\ restarts' = restarts + 1
    /\ \/ /\ isNonterminalState(session)
          /\ session' = "recovering"
          /\ phase' = "starting"
          /\ UNCHANGED http
       \/ /\ ~ isNonterminalState(session)
          /\ phase' = "running"
          /\ http' = "open"
          /\ UNCHANGED session
    /\ UNCHANGED <<pending, runRow, journal, approval, startVars, procVars,
                   obsVars, callVars, activeRuns, shutPc, shown>>

\* resolveRecovery without a reconciler answers "failed".
ReconcileResolve ==
    /\ phase = "starting"
    /\ UpdateState("failed", "recovering")
    /\ phase' = "running"
    /\ http' = "open"
    /\ UNCHANGED <<pending, runRow, journal, approval, startVars, procVars,
                   obsVars, callVars, activeRuns, shutPc, restarts, shown>>

Shutdown ==
    \/ ShutdownBegin
    \/ DrainDone
    \/ DrainTimeout
    \/ DrainMark
    \/ MarkList
    \/ MarkUpdate
    \/ ShutdownEnd

Next ==
    \/ \E c \in Starts : \/ StartRun(c)
                         \/ ParsedCompletion(c)
                         \/ ProcessExit(c)
                         \/ PumpEnd(c)
                         \/ \E a \in Approvals : AskApproval(c, a)
    \/ \E i \in Interrupts : Interrupt(i)
    \/ \E a \in Approvals : ResolveApproval(a) \/ ExpireApproval(a)
    \/ Observer
    \/ CloseServer
    \/ Shutdown
    \/ Crash
    \/ ReconcileMark
    \/ ReconcileResolve

Spec == Init /\ [][Next]_vars

\* Goroutines that can take a step take one; agents, devices and operators owe
\* nothing.
Fairness ==
    /\ WF_vars(Observer)
    /\ WF_vars(Shutdown)
    /\ WF_vars(ReconcileResolve)
    /\ \A c \in Starts : WF_vars(startPc[c] # "idle" /\ StartRun(c))
    /\ \A c \in Starts : WF_vars(PumpEnd(c))
    /\ \A i \in Interrupts : WF_vars(intPc[i] # "idle" /\ Interrupt(i))
    /\ \A a \in Approvals : WF_vars(resPc[a] # "idle" /\ ResolveApproval(a))

FairSpec == Spec /\ Fairness
-----------------------------------------------------------------------------
(* Properties.                                                             *)

TypeOK ==
    /\ session \in SessionStates
    /\ pending \in Approvals \cup {NoApproval}
    /\ runRow \in Starts \cup {NoRun}
    /\ journal \in Seq({"session.created", "run.start_failed", "run.started",
                        "approval.requested", "approval.resolved", "run.interrupted",
                        "run.completed"})
    /\ approval \in [Approvals -> {"none", "asked", "pending", "decided", "cancelled",
                                   "expired"}]
    /\ shown \subseteq Approvals
    /\ phase \in {"running", "draining", "stopped", "down", "starting"}
    /\ http \in {"open", "closed"}
    /\ activeRuns \subseteq Starts
    /\ startPc \in [Starts -> {"idle", "transition", "spawn", "fail", "failEmit", "create",
                               "register", "emit", "done", "refused", "dead"}]
    /\ seen \in [Starts -> SessionStates]
    /\ proc \in [Starts -> {"none", "running", "exited", "lost"}]
    /\ runs \in Starts \cup {NoRun}
    /\ signals \in [Starts -> Seq(Approvals \cup {"completed", "failed"})]
    /\ closed \subseteq Starts
    /\ lines \in Nat
    /\ obsPc \in {"none", "observe", "loop", "request", "setPending", "waiting", "reload",
                  "announce", "complete", "emit", "cancel", "ending", "ended"}
    /\ obsState \in SessionStates
    /\ obsChan \in Starts \cup {NoRun}
    /\ obsSignal \in Approvals \cup {"none", "completed", "failed"}
    /\ intPc \in [Interrupts -> {"idle", "signal", "update", "emit", "done", "dead"}]
    /\ intSeen \in [Interrupts -> SessionStates]
    /\ resPc \in [Approvals -> {"idle", "emit", "clear", "done", "dead"}]
    /\ shutPc \in {"none", "drain", "drainMark", "list", "mark", "stop"}
    /\ restarts \in Nat

\* Whatever stale state a request or the observer acts on, the stored state
\* only moves along the transition table, or into "recovering"
\* (session_repository.go, UpdateState; session/manager.go, validTransitions).
LegalTransitions ==
    [][session' # session =>
          session' = "recovering" \/ CanTransition(session, session')]_vars

\* A session that completed or failed is only ever moved again by the marking
\* of a shutdown: no late interrupt, completion or start revives it.
EndedStays ==
    [][(session \in {"completed", "failed"} /\ session' # session)
          => shutPc \in {"drainMark", "mark"}]_vars

\* However many StartRun requests race, one of them gets the run row and is the
\* one the lifecycle manager tracks (session_service.go, CreateRun). Each may have
\* started a process before that, against docs/10-session-lifecycle.md:33, "At most
\* one run may be active for a session"; only then can the observer range over the
\* channel of another process than the run's.
OneRun ==
    /\ \A c, d \in Starts :
          {startPc[c], startPc[d]} \subseteq {"register", "emit", "done"} => c = d
    /\ activeRuns \subseteq {runRow}
    /\ \/ obsChan \in {NoRun, runRow}
       \/ \E c, d \in Starts : c # d /\ proc[c] # "none" /\ proc[d] # "none"

Before(e, f) ==
    \A j \in DOMAIN journal : journal[j] = f => \E i \in 1 .. j - 1 : journal[i] = e

Count(s, S) == Cardinality({j \in DOMAIN s : s[j] \in S})

\* The journal tells the run in order: what the observer reports follows
\* run.started. The exit is reported once, although two processes may have been
\* started for the session: every further run.completed stands for a line in which
\* an agent claimed to have completed (claude_parser.go, "completion").
JournalOrder ==
    /\ Before("run.started", "approval.requested")
    /\ Before("run.started", "run.completed")
    /\ Count(journal, {"run.completed"}) <= 1 + lines

\* A graceful stop leaves no session that still claims to be in progress,
\* although the observer runs until the end (lifecycle/manager.go, Shutdown).
StoppedIsMarked ==
    phase = "stopped"
        => session \notin {"created", "starting", "active", "waiting_approval"}

\* Once startup reconciliation is over, what an earlier incarnation left is not
\* represented as live, also when a crash hit the previous reconciliation.
ReconciledNotLive ==
    restarts > 0 /\ phase = "running"
        => session \notin {"created", "starting", "active", "waiting_approval",
                           "recovering"}

\* A shutdown that started ends, with or without the runs it drains.
ShutdownEnds == shutPc # "none" ~> shutPc = "none"

\* The observer of a process that exited ends, and the run is no longer tracked.
ObserverEnds ==
    \A c \in Starts :
        obsPc = "loop" /\ obsChan = c /\ proc[c] = "exited" ~> activeRuns = {}

\* docs/10-session-lifecycle.md:19: "active --> completed: successful exit".
SuccessfulExitCompletes ==
    obsPc = "ended" /\ obsSignal = "completed" => session # "active"

\* docs/10-session-lifecycle.md:16: "waiting_approval --> active: decision
\* accepted". With every request decided, the session does not keep waiting.
DecisionResumes ==
    session = "waiting_approval" /\ (\A a \in Approvals : approval[a] = "decided")
        ~> session # "waiting_approval"
=============================================================================
