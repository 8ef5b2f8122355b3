----------------------------- MODULE Permission -----------------------------
(***************************************************************************)
(* Tool permissions of a Claude run: the car-mcp-perm helper asks over a   *)
(* unix socket (internal/mcpperm), handlePermission parks the request in   *)
(* the run and announces it as an approval, DecideApproval answers it, and *)
(* the end of the pump tears everything down (adapter/claude).             *)
(*                                                                         *)
(* A request is named by its tool use id.  The approval bridge hands the   *)
(* decision of an approval to the adapter once, so a request has at most   *)
(* one DecideApproval call.                                                *)
(***************************************************************************)
EXTENDS Naturals

CONSTANT Reqs  \* tool use ids; the agent uses each once

VARIABLES
    server,   \* setupPermissionServer succeeded
    run,      \* the pump's tail: "running", "deleted", "cleaned", "closed"
    alive,    \* the wrapper is in state running, so stdin can be written
    helper,   \* what the helper got for a request
    expired,  \* requests whose helper reached its own deadline
    handler,  \* progress of handlePermission
    parked,   \* keys of r.parked
    late,     \* history: requests that parked after the teardown
    box,      \* the channel of a parked request, of capacity 1
    verdict,  \* what handlePermission returns
    announced,\* approval requests that reached run.signals
    decide,   \* progress of DecideApproval
    decision, \* its verdict
    outcome   \* "parked" or "stdin" if it was accepted, and by whom

runVars    == <<server, run, alive>>
helperVars == <<helper, expired>>
handleVars == <<handler, verdict, announced>>
parkVars   == <<parked, late, box>>
decideVars == <<decide, decision, outcome>>
vars == <<runVars, helperVars, handleVars, parkVars, decideVars>>

TypeOK ==
    /\ server \in BOOLEAN /\ alive \in BOOLEAN
    /\ run \in {"running", "deleted", "cleaned", "closed"}
    /\ helper \in [Reqs -> {"idle", "waiting", "allow", "deny", "gone"}]
    /\ expired \subseteq Reqs
    /\ handler \in [Reqs -> {"none", "lookup", "park", "send", "wait", "unpark", "reply", "done"}]
    /\ parked \subseteq Reqs /\ late \subseteq Reqs
    /\ box \in [Reqs -> {"empty", "allow", "deny"}]
    /\ verdict \in [Reqs -> {"none", "allow", "deny"}]
    /\ announced \subseteq Reqs
    /\ decide \in [Reqs -> {"idle", "resolve", "stdin", "done"}]
    /\ decision \in [Reqs -> {"none", "allow", "deny"}]
    /\ outcome \in [Reqs -> {"none", "parked", "stdin", "refused"}]

Init ==
    /\ server \in BOOLEAN
    /\ run = "running" /\ alive = TRUE
    /\ helper = [r \in Reqs |-> "idle"]
    /\ expired = {}
    /\ handler = [r \in Reqs |-> "none"]
    /\ parked = {} /\ late = {}
    /\ box = [r \in Reqs |-> "empty"]
    /\ verdict = [r \in Reqs |-> "none"]
    /\ announced = {}
    /\ decide = [r \in Reqs |-> "idle"]
    /\ decision = [r \in Reqs |-> "none"]
    /\ outcome = [r \in Reqs |-> "none"]

-----------------------------------------------------------------------------
(* The helper: Serve answers one tools/call at a time, so a request waits  *)
(* only when no other does.  Every failure of the transport is a deny.     *)

Listening == run \in {"running", "deleted"}

\* The loop of Serve takes the next line when the call before it is answered.
Serve == \A q \in Reqs : helper[q] # "waiting"

Ask(r) ==
    /\ server /\ alive /\ r \notin announced
    /\ helper[r] = "idle" /\ Serve
    /\ IF Listening
         THEN /\ helper' = [helper EXCEPT ![r] = "waiting"]
              /\ handler' = [handler EXCEPT ![r] = "lookup"]
         ELSE /\ helper' = [helper EXCEPT ![r] = "deny"]
              /\ UNCHANGED handler
    /\ UNCHANGED <<runVars, expired, verdict, announced, parkVars, decideVars>>

\* The deadline DecideOverSocket sets on its connection.
HelperDeadline(r) ==
    /\ helper[r] = "waiting"
    /\ helper' = [helper EXCEPT ![r] = "deny"]
    /\ expired' = expired \cup {r}
    /\ UNCHANGED <<runVars, handleVars, parkVars, decideVars>>

\* The helper is in the process group of the agent and dies with it.
HelperDies(r) ==
    /\ helper[r] = "waiting" /\ ~alive
    /\ helper' = [helper EXCEPT ![r] = "gone"]
    /\ UNCHANGED <<runVars, expired, handleVars, parkVars, decideVars>>

-----------------------------------------------------------------------------
(* handlePermission, called by SocketServer.handle.                        *)

\* Mutant: the request is announced before it is parked.
LookupAnnouncing(r) ==
    /\ handler[r] = "lookup"
    /\ IF run = "running"
         THEN /\ handler' = [handler EXCEPT ![r] = "park"]
              /\ announced' = announced \cup {r}
              /\ UNCHANGED verdict
         ELSE /\ handler' = [handler EXCEPT ![r] = "reply"]
              /\ verdict' = [verdict EXCEPT ![r] = "deny"]
              /\ UNCHANGED announced
    /\ UNCHANGED <<runVars, helperVars, parkVars, decideVars>>

\* runFor: a run that has left the map denies.
Lookup(r) ==
    /\ handler[r] = "lookup"
    /\ IF run = "running"
         THEN /\ handler' = [handler EXCEPT ![r] = "park"]
              /\ UNCHANGED verdict
         ELSE /\ handler' = [handler EXCEPT ![r] = "reply"]
              /\ verdict' = [verdict EXCEPT ![r] = "deny"]
    /\ UNCHANGED <<runVars, helperVars, announced, parkVars, decideVars>>

\* The map is created again if cleanupPermission has dropped it meanwhile.
Park(r) ==
    /\ handler[r] = "park"
    /\ handler' = [handler EXCEPT ![r] = "send"]
    /\ parked' = parked \cup {r}
    /\ late' = IF run \in {"cleaned", "closed"} THEN late \cup {r} ELSE late
    /\ UNCHANGED <<runVars, helperVars, verdict, announced, box, decideVars>>

\* The pump has closed run.signals: the send panics, the deferred delete runs,
\* and SocketServer.handle recovers with a deny.
AnnouncePanic(r) ==
    /\ handler[r] = "send" /\ run = "closed"
    /\ parked' = parked \ {r}
    /\ handler' = [handler EXCEPT ![r] = "reply"]
    /\ verdict' = [verdict EXCEPT ![r] = "deny"]
    /\ UNCHANGED <<runVars, helperVars, announced, late, box, decideVars>>

\* The signal is queued, or dropped because output has filled the channel.
Announce(r) ==
    /\ handler[r] = "send" /\ run # "closed"
    /\ announced' \in {announced, announced \cup {r}}
    /\ handler' = [handler EXCEPT ![r] = "wait"]
    /\ UNCHANGED <<runVars, helperVars, verdict, parkVars, decideVars>>

Receive(r) ==
    /\ handler[r] = "wait" /\ box[r] # "empty"
    /\ verdict' = [verdict EXCEPT ![r] = box[r]]
    /\ handler' = [handler EXCEPT ![r] = "unpark"]
    /\ UNCHANGED <<runVars, helperVars, announced, parkVars, decideVars>>

\* Mutants: a timeout that fires before the helper's deadline; no timeout.
TimeoutEarly(r) ==
    /\ handler[r] = "wait"
    /\ verdict' = [verdict EXCEPT ![r] = "deny"]
    /\ handler' = [handler EXCEPT ![r] = "unpark"]
    /\ UNCHANGED <<runVars, helperVars, announced, parkVars, decideVars>>
TimeoutNever(r) == FALSE /\ UNCHANGED vars

\* The five minutes of the handler start after the five minutes of the helper,
\* so the helper has stopped waiting.  A decision that is in the channel too
\* may lose the select.
Timeout(r) ==
    /\ handler[r] = "wait" /\ helper[r] # "waiting"
    /\ verdict' = [verdict EXCEPT ![r] = "deny"]
    /\ handler' = [handler EXCEPT ![r] = "unpark"]
    /\ UNCHANGED <<runVars, helperVars, announced, parkVars, decideVars>>

\* The deferred delete.
Unpark(r) ==
    /\ handler[r] = "unpark"
    /\ parked' = parked \ {r}
    /\ handler' = [handler EXCEPT ![r] = "reply"]
    /\ UNCHANGED <<runVars, helperVars, verdict, announced, late, box, decideVars>>

\* The reply is lost when the helper is no longer waiting.
Reply(r) ==
    /\ handler[r] = "reply"
    /\ handler' = [handler EXCEPT ![r] = "done"]
    /\ helper' = IF helper[r] = "waiting" THEN [helper EXCEPT ![r] = verdict[r]] ELSE helper
    /\ UNCHANGED <<runVars, expired, verdict, announced, parkVars, decideVars>>

\* The parser finds an approval request in the output: announced, not parked.
\* What else a line can become, output, an error or a completion, only takes
\* room in run.signals; that is why Announce may lose its signal.
emitParsed(r) ==
    /\ run = "running" /\ helper[r] = "idle" /\ r \notin announced
    /\ announced' = announced \cup {r}
    /\ UNCHANGED <<runVars, helperVars, handler, verdict, parkVars, decideVars>>

-----------------------------------------------------------------------------
(* DecideApproval, for an approval the service has seen.                   *)

DecideLookup(r) ==
    /\ decide[r] = "idle" /\ r \in announced
    /\ \E d \in {"allow", "deny"} : decision' = [decision EXCEPT ![r] = d]
    /\ IF run = "running"
         THEN decide' = [decide EXCEPT ![r] = "resolve"] /\ UNCHANGED outcome
         ELSE /\ decide' = [decide EXCEPT ![r] = "done"]
              /\ outcome' = [outcome EXCEPT ![r] = "refused"]
    /\ UNCHANGED <<runVars, helperVars, handleVars, parkVars>>

resolveParked(r) ==
    /\ decide[r] = "resolve"
    /\ IF r \in parked
         THEN /\ box' = IF box[r] = "empty" THEN [box EXCEPT ![r] = decision[r]] ELSE box
              /\ parked' = parked \ {r}
              /\ decide' = [decide EXCEPT ![r] = "done"]
              /\ outcome' = [outcome EXCEPT ![r] = "parked"]
              /\ UNCHANGED late
         ELSE /\ decide' = [decide EXCEPT ![r] = "stdin"]
              /\ UNCHANGED <<parkVars, outcome>>
    /\ UNCHANGED <<runVars, helperVars, handleVars, decision>>

\* The fallback: a line on the stdin of the process, which no agent reads.
DecideStdin(r) ==
    /\ decide[r] = "stdin"
    /\ decide' = [decide EXCEPT ![r] = "done"]
    /\ outcome' = [outcome EXCEPT ![r] = IF alive THEN "stdin" ELSE "refused"]
    /\ UNCHANGED <<runVars, helperVars, handleVars, parkVars, decision>>

-----------------------------------------------------------------------------
(* The end of the run.                                                     *)

ProcessExit ==
    /\ alive
    /\ alive' = FALSE
    /\ UNCHANGED <<server, run, helperVars, handleVars, parkVars, decideVars>>

\* The pump returns: its streams are closed or the run context is cancelled.
PumpDelete ==
    /\ run = "running"
    /\ run' = "deleted"
    /\ UNCHANGED <<server, alive, helperVars, handleVars, parkVars, decideVars>>

\* Mutant: the parked requests are dropped without an answer.
cleanupPermissionSilent ==
    /\ run = "deleted"
    /\ run' = "cleaned"
    /\ parked' = {}
    /\ UNCHANGED <<server, alive, helperVars, handleVars, late, box, decideVars>>

\* Mutant: the end of the run allows what is parked.
cleanupPermissionAllows ==
    /\ run = "deleted"
    /\ run' = "cleaned"
    /\ box' = [r \in Reqs |-> IF r \in parked /\ box[r] = "empty" THEN "allow" ELSE box[r]]
    /\ parked' = {}
    /\ UNCHANGED <<server, alive, helperVars, handleVars, late, decideVars>>

\* The listener is closed, what is parked is denied, the map is dropped.
cleanupPermission ==
    /\ run = "deleted"
    /\ run' = "cleaned"
    /\ box' = [r \in Reqs |-> IF r \in parked /\ box[r] = "empty" THEN "deny" ELSE box[r]]
    /\ parked' = {}
    /\ UNCHANGED <<server, alive, helperVars, handleVars, late, decideVars>>

PumpClose ==
    /\ run = "cleaned"
    /\ run' = "closed"
    /\ UNCHANGED <<server, alive, helperVars, handleVars, parkVars, decideVars>>

-----------------------------------------------------------------------------

handlePermission(r) ==
    \/ Lookup(r) \/ Park(r) \/ Announce(r) \/ AnnouncePanic(r)
    \/ Receive(r) \/ Timeout(r) \/ Unpark(r) \/ Reply(r)
DecideApproval(r) == DecideLookup(r) \/ resolveParked(r) \/ DecideStdin(r)

Next ==
    \/ \E r \in Reqs :
        \/ Ask(r) \/ HelperDeadline(r) \/ HelperDies(r) \/ handlePermission(r) \/ emitParsed(r)
        \/ DecideApproval(r)
    \/ ProcessExit \/ PumpDelete \/ cleanupPermission \/ PumpClose

Spec == Init /\ [][Next]_vars

\* Goroutines run and timers fire; nobody has to decide and no run has to end.
FairSpec ==
    /\ Spec
    /\ \A r \in Reqs : WF_vars(handlePermission(r)) /\ WF_vars(HelperDeadline(r))

-----------------------------------------------------------------------------
(* Properties.                                                             *)

\* Fail closed: a tool is allowed only if DecideApproval found its request
\* parked and the decision was an approval.
FailClosed ==
    \A r \in Reqs : helper[r] = "allow" => outcome[r] = "parked" /\ decision[r] = "allow"

\* A decision that was accepted for a parked request is what the agent gets,
\* unless the helper's own deadline passed first: neither the end of the run
\* nor the handler's timeout replaces it.
AcceptedTakesEffect ==
    \A r \in Reqs :
        outcome[r] = "parked" /\ helper[r] \in {"allow", "deny"} /\ r \notin expired
            => helper[r] = decision[r]

\* The parked map is in step with the handlers.  One that waits has its answer
\* on the way, or is parked where a decision or the teardown still finds it; the
\* only exception is one that parked after the teardown was over, which nothing
\* but its timeout ends although its run has ended ("blocks until DecideApproval
\* resolves it, the run ends, or it times out", claude.go:541-543).  One that has
\* its answer leaves nothing behind, also when its announcement panicked.
NobodyStranded ==
    \A r \in Reqs :
        /\ handler[r] = "wait" =>
            \/ box[r] # "empty"
            \/ r \in parked /\ (run \in {"running", "deleted"} \/ r \in late)
        /\ handler[r] \in {"reply", "done"} => r \notin parked

\* After the run was torn down no decision is accepted for a parked request:
\* whoever can be decided was parked before its announcement, and hence
\* denied by the teardown.
NoDecisionAfterEnd ==
    [][\A r \in Reqs :
         run \in {"cleaned", "closed"} /\ outcome[r] # "parked" => outcome'[r] # "parked"]_vars

\* Every request the socket accepted is answered, decided or not.
HandlersEnd == \A r \in Reqs : handler[r] = "lookup" ~> handler[r] = "done"
=============================================================================
