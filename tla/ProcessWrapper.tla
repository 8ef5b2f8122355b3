--------------------------- MODULE ProcessWrapper ---------------------------
(***************************************************************************)
(* One agent process under internal/wrapper, and the pump of the adapter   *)
(* that started it (adapter/claude or adapter/codex).                      *)
(*                                                                         *)
(* The child and the descendants in its process group belong to the        *)
(* operating system.  The wrapper runs a reader per pipe and waitForExit;  *)
(* the adapter runs the pump; Interrupt comes from a request, and the      *)
(* cancellation of the run context from the shutdown of the server.        *)
(* Output is counted in chunks, an exit code is zero or nonzero.           *)
(***************************************************************************)
EXTENDS Naturals, Sequences

CONSTANTS
    ChanCap,       \* capacity of outputCh and errCh (100)
    SignalCap,     \* capacity of run.signals (256)
    MaxChunks,     \* bound: chunks written to one pipe
    MaxInterrupts  \* bound: Interrupt calls

ASSUME ProcessBounds ==
    /\ ChanCap \in Nat \ {0} /\ SignalCap \in Nat \ {0}
    /\ MaxChunks \in Nat /\ MaxInterrupts \in Nat

Streams == {"stdout", "stderr"}
Statuses == {"zero", "nonzero", "signal"}

VARIABLES
    agent,      \* the adapter: "claude" or "codex"
    child,      \* "none", "alive", "zombie" (dead, not waited for), "reaped"
    status,     \* how the child died
    kin,        \* its descendants: "none", "quiet", or "piped" if they hold the pipes
    pipe,       \* chunks in the pipe of a stream
    reader,     \* readOutput of a stream
    queue,      \* chunks in outputCh, errCh
    open,       \* the channels that are not closed
    waiter,     \* waitForExit
    reaped,     \* what cmd.Wait returned
    state,      \* w.state
    exitCode,   \* w.exitCode
    exited,     \* w.done is closed
    ctxDone,    \* the run context is cancelled
    ctxKilled,  \* exec's context watcher killed the child
    pump,       \* progress of the pump
    live,       \* the streams the pump still selects on
    signals,    \* run.signals
    closed,     \* run.signals is closed
    completion, \* exit code of the completion the pump made of the exit
    killing,    \* an Interrupt is about to call Kill
    killed,     \* a Kill succeeded
    writing,    \* a WriteInput is blocked in stdin.Write and holds w.mu for reading
    interrupts

osVars   == <<child, status, kin>>
ioVars   == <<pipe, reader, queue, open>>
exitVars == <<waiter, reaped, state, exitCode, exited>>
ctxVars  == <<ctxDone, ctxKilled>>
pumpVars == <<pump, live, signals, closed, completion>>
reqVars  == <<killing, killed, writing, interrupts>>
vars == <<agent, osVars, ioVars, exitVars, ctxVars, pumpVars, reqVars>>

\* "claim": a completion the Claude parser made of an output line, whatever the
\* process does; "completion": the one that reports the exit.
SignalTypes == {"active", "output", "claim", "completion", "status"}

TypeOK ==
    /\ agent \in {"claude", "codex"}
    /\ child \in {"none", "alive", "zombie", "reaped"}
    /\ status \in Statuses \cup {"none"}
    /\ kin \in {"none", "quiet", "piped"}
    /\ pipe \in [Streams -> 0..MaxChunks]
    /\ reader \in [Streams -> {"off", "reading", "done"}]
    /\ queue \in [Streams -> 0..ChanCap]
    /\ open \subseteq Streams
    /\ waiter \in {"off", "drain", "wait", "closeOut", "closeErr", "record", "done"}
    /\ reaped \in {"none", "zero", "nonzero", "nocode"}
    /\ state \in {"pending", "running", "exited", "killed", "error"}
    /\ exitCode \in {"nil", "zero", "nonzero"}
    /\ exited \in BOOLEAN /\ ctxDone \in BOOLEAN /\ ctxKilled \in BOOLEAN
    /\ pump \in {"off", "first", "loop", "await", "complete", "status",
                 "delete", "close", "ended"}
    /\ live \subseteq Streams
    /\ signals \in Seq(SignalTypes) /\ Len(signals) <= SignalCap
    /\ closed \in BOOLEAN
    /\ completion \in {"none", "zero", "nonzero"}
    /\ killing \in BOOLEAN /\ killed \in BOOLEAN /\ writing \in BOOLEAN
    /\ interrupts \in 0..MaxInterrupts

Init ==
    /\ agent \in {"claude", "codex"}
    /\ child = "none" /\ status = "none" /\ kin = "none"
    /\ pipe = [s \in Streams |-> 0]
    /\ reader = [s \in Streams |-> "off"]
    /\ queue = [s \in Streams |-> 0]
    /\ open = Streams
    /\ waiter = "off" /\ reaped = "none"
    /\ state = "pending" /\ exitCode = "nil" /\ exited = FALSE
    /\ ctxDone = FALSE /\ ctxKilled = FALSE
    /\ pump = "off" /\ live = {} /\ signals = <<>> /\ closed = FALSE
    /\ completion = "none"
    /\ killing = FALSE /\ killed = FALSE /\ writing = FALSE
    /\ interrupts = 0

-----------------------------------------------------------------------------
(* The operating system.                                                   *)

PipeHeld == child = "alive" \/ kin = "piped"

ChildWrite(s) ==
    /\ PipeHeld
    /\ pipe[s] < MaxChunks
    /\ pipe' = [pipe EXCEPT ![s] = @ + 1]
    /\ UNCHANGED <<agent, osVars, reader, queue, open, exitVars, ctxVars, pumpVars, reqVars>>

\* The child starts a descendant in its process group.
ChildFork ==
    /\ child = "alive" /\ kin = "none"
    /\ kin' \in {"quiet", "piped"}
    /\ UNCHANGED <<agent, child, status, ioVars, exitVars, ctxVars, pumpVars, reqVars>>

ChildExit ==
    /\ child = "alive"
    /\ child' = "zombie"
    /\ status' \in Statuses
    /\ UNCHANGED <<agent, kin, ioVars, exitVars, ctxVars, pumpVars, reqVars>>

KinExit ==
    /\ kin # "none"
    /\ kin' = "none"
    /\ UNCHANGED <<agent, child, status, ioVars, exitVars, ctxVars, pumpVars, reqVars>>

-----------------------------------------------------------------------------
(* The wrapper.                                                            *)

\* proc.Start: the process runs, both readers and waitForExit are launched,
\* and the adapter registers the run.
Start ==
    /\ pump = "off" /\ state = "pending" /\ ~ctxDone
    /\ child' = "alive"
    /\ state' = "running"
    /\ reader' = [s \in Streams |-> "reading"]
    /\ waiter' = "drain"
    /\ pump' = "first"
    /\ UNCHANGED <<agent, status, kin, pipe, queue, open, reaped, exitCode, exited,
                   ctxVars, live, signals, closed, completion, reqVars>>

\* cmd.Start fails: no goroutine is launched and no run is registered.
StartFail ==
    /\ pump = "off" /\ state = "pending"
    /\ state' = "error"
    /\ UNCHANGED <<agent, osVars, ioVars, waiter, reaped, exitCode, exited,
                   ctxVars, pumpVars, reqVars>>

\* Mutant: a full channel blocks the reader.
ReadChunkBlocking(s) ==
    /\ reader[s] = "reading" /\ pipe[s] > 0
    /\ queue[s] < ChanCap
    /\ pipe' = [pipe EXCEPT ![s] = @ - 1]
    /\ queue' = [queue EXCEPT ![s] = @ + 1]
    /\ UNCHANGED <<agent, osVars, reader, open, exitVars, ctxVars, pumpVars, reqVars>>

\* A full channel drops the chunk.
ReadChunk(s) ==
    /\ reader[s] = "reading" /\ pipe[s] > 0
    /\ pipe' = [pipe EXCEPT ![s] = @ - 1]
    /\ queue' = IF queue[s] < ChanCap THEN [queue EXCEPT ![s] = @ + 1] ELSE queue
    /\ UNCHANGED <<agent, osVars, reader, open, exitVars, ctxVars, pumpVars, reqVars>>

ReadEnd(s) ==
    /\ reader[s] = "reading" /\ pipe[s] = 0 /\ ~PipeHeld
    /\ reader' = [reader EXCEPT ![s] = "done"]
    /\ UNCHANGED <<agent, osVars, pipe, queue, open, exitVars, ctxVars, pumpVars, reqVars>>

\* Mutant: cmd.Wait before the readers are done, which closes their pipes.
DrainedEarly ==
    /\ waiter = "drain" /\ child = "zombie"
    /\ waiter' = "wait"
    /\ UNCHANGED <<agent, osVars, ioVars, reaped, state, exitCode, exited, ctxVars, pumpVars, reqVars>>

\* readersWG.Wait
Drained ==
    /\ waiter = "drain"
    /\ \A s \in Streams : reader[s] = "done"
    /\ waiter' = "wait"
    /\ UNCHANGED <<agent, osVars, ioVars, reaped, state, exitCode, exited, ctxVars, pumpVars, reqVars>>

\* cmd.Wait: the exit status, or the context's error (no code) when the
\* context watcher killed a process that had already exited with 0.
CmdWait ==
    /\ waiter = "wait" /\ child = "zombie"
    /\ child' = "reaped"
    /\ reaped' = CASE status = "zero" /\ ctxKilled -> "nocode"
                   [] status = "zero" /\ ~ctxKilled -> "zero"
                   [] OTHER -> "nonzero"
    /\ waiter' = "closeOut"
    /\ UNCHANGED <<agent, status, kin, ioVars, state, exitCode, exited, ctxVars, pumpVars, reqVars>>

\* close(w.outputCh), then close(w.errCh), both before w.mu is taken.
CloseChannels ==
    /\ \/ waiter = "closeOut" /\ open' = open \ {"stdout"} /\ waiter' = "closeErr"
       \/ waiter = "closeErr" /\ open' = open \ {"stderr"} /\ waiter' = "record"
    /\ UNCHANGED <<agent, osVars, pipe, reader, queue, reaped, state, exitCode, exited,
                   ctxVars, pumpVars, reqVars>>

\* Mutant: only a clean exit has a code.
RecordExitNoCode ==
    /\ waiter = "record"
    /\ waiter' = "done"
    /\ exited' = TRUE
    /\ IF state = "killed"
         THEN UNCHANGED <<state, exitCode>>
         ELSE /\ exitCode' = IF reaped = "zero" THEN "zero" ELSE "nil"
              /\ state' = IF reaped = "zero" THEN "exited" ELSE "error"
    /\ UNCHANGED <<agent, osVars, ioVars, reaped, ctxVars, pumpVars, reqVars>>

\* The tail of waitForExit, under w.mu.
RecordExit ==
    /\ waiter = "record" /\ ~writing
    /\ waiter' = "done"
    /\ exited' = TRUE
    /\ IF state = "killed"
         THEN UNCHANGED <<state, exitCode>>
         ELSE /\ exitCode' = IF reaped = "nocode" THEN "nil" ELSE reaped
              /\ state' = IF reaped = "zero" THEN "exited" ELSE "error"
    /\ UNCHANGED <<agent, osVars, ioVars, reaped, ctxVars, pumpVars, reqVars>>

\* The group exists as long as the child is not reaped or a descendant lives.
GroupExists == child \in {"alive", "zombie"} \/ kin # "none"

\* Mutant: the signal goes to the child and not to its group.
KillChildOnly ==
    IF child \in {"alive", "zombie"}
      THEN /\ child' = "zombie"
           /\ status' = IF child = "alive" THEN "signal" ELSE status
           /\ state' = "killed"
           /\ killed' = TRUE
           /\ UNCHANGED kin
      ELSE UNCHANGED <<osVars, state, killed>>

\* Kill, under w.mu; without a group Process.Kill fails too.
Kill ==
    IF GroupExists
      THEN /\ kin' = "none"
           /\ child' = IF child = "alive" THEN "zombie" ELSE child
           /\ status' = IF child = "alive" THEN "signal" ELSE status
           /\ state' = "killed"
           /\ killed' = TRUE
      ELSE UNCHANGED <<osVars, state, killed>>

-----------------------------------------------------------------------------
(* The adapters.                                                           *)

Registered == pump \in {"first", "loop", "await", "complete", "status", "delete"}

\* ClaudeAdapter.Interrupt: SIGINT, which reaches a child that is not reaped
\* and which the child may ignore; Kill when the signal fails.
InterruptClaude ==
    /\ agent = "claude" /\ Registered
    /\ interrupts < MaxInterrupts
    /\ interrupts' = interrupts + 1
    /\ killing' = (killing \/ child = "reaped")
    /\ UNCHANGED <<agent, osVars, ioVars, exitVars, ctxVars, pumpVars, killed, writing>>

\* Mutant: Kill without cancelling the context first.
InterruptCodexKillOnly ==
    /\ agent = "codex" /\ Registered
    /\ interrupts < MaxInterrupts
    /\ interrupts' = interrupts + 1
    /\ killing' = TRUE
    /\ UNCHANGED <<agent, osVars, ioVars, exitVars, ctxVars, pumpVars, killed, writing>>

\* codex Adapter.Interrupt: cancel the run's own context, then Kill.
InterruptCodex ==
    /\ agent = "codex" /\ Registered
    /\ interrupts < MaxInterrupts
    /\ interrupts' = interrupts + 1
    /\ ctxDone' = TRUE
    /\ killing' = TRUE
    /\ UNCHANGED <<agent, osVars, ioVars, exitVars, ctxKilled, pumpVars, killed, writing>>

InterruptKill ==
    /\ killing /\ ~writing
    /\ killing' = FALSE
    /\ Kill
    /\ UNCHANGED <<agent, ioVars, waiter, reaped, exitCode, exited, ctxVars, pumpVars, writing, interrupts>>

\* SubmitInput: a prompt larger than the pipe blocks in stdin.Write until it
\* is read, or until nobody can read it any more.  A waiting Lock, of Kill or
\* of waitForExit, keeps new readers of w.mu out.
WriteInput ==
    /\ Registered /\ state = "running" /\ ~writing
    /\ waiter # "record" /\ ~killing
    /\ writing' = TRUE
    /\ UNCHANGED <<agent, osVars, ioVars, exitVars, ctxVars, pumpVars, killing, killed, interrupts>>

WriteTaken ==
    /\ writing /\ PipeHeld
    /\ writing' = FALSE
    /\ UNCHANGED <<agent, osVars, ioVars, exitVars, ctxVars, pumpVars, killing, killed, interrupts>>

WriteBroken ==
    /\ writing /\ ~PipeHeld
    /\ writing' = FALSE
    /\ UNCHANGED <<agent, osVars, ioVars, exitVars, ctxVars, pumpVars, killing, killed, interrupts>>

SubmitInput == WriteInput \/ WriteTaken \/ WriteBroken

\* App.Shutdown cancels the context of the Claude runs.
CancelRuns ==
    /\ agent = "claude" /\ ~ctxDone
    /\ ctxDone' = TRUE
    /\ UNCHANGED <<agent, osVars, ioVars, exitVars, ctxKilled, pumpVars, reqVars>>

\* exec.CommandContext kills the child alone, not its group.
ContextKill ==
    /\ ctxDone /\ ~ctxKilled /\ child \in {"alive", "zombie"}
    /\ ctxKilled' = TRUE
    /\ child' = "zombie"
    /\ status' = IF child = "alive" THEN "signal" ELSE status
    /\ UNCHANGED <<agent, kin, ioVars, exitVars, ctxDone, pumpVars, reqVars>>

\* The Claude pump drops a signal when the channel is full, the Codex pump
\* waits for room.
MaySend == agent = "claude" \/ Len(signals) < SignalCap
Enqueued(sig) ==
    IF Len(signals) < SignalCap THEN Append(signals, sig) ELSE signals

\* "active" is the first signal; the Claude adapter sends it in Start, before
\* the pump is launched.  A Codex run consumes stdout only.
PumpBegin ==
    /\ pump = "first"
    /\ signals' = Enqueued("active")
    /\ live' = IF agent = "claude" THEN Streams ELSE {"stdout"}
    /\ pump' = "loop"
    /\ UNCHANGED <<agent, osVars, ioVars, exitVars, ctxVars, closed, completion, reqVars>>

\* A chunk is turned into an output signal, or, when it is a stdout line of type
\* "completion" and the agent is Claude, into a completion signal.
PumpOutput(s) ==
    /\ pump = "loop" /\ s \in live /\ queue[s] > 0
    /\ MaySend
    /\ queue' = [queue EXCEPT ![s] = @ - 1]
    /\ \/ signals' = Enqueued("output")
       \/ agent = "claude" /\ s = "stdout" /\ signals' = Enqueued("claim")
    /\ UNCHANGED <<agent, osVars, pipe, reader, open, exitVars, ctxVars, pump, live, closed, completion, reqVars>>

\* A closed and empty channel; the loop ends with the last stream.
PumpDrained(s) ==
    /\ pump = "loop" /\ s \in live /\ queue[s] = 0 /\ s \notin open
    /\ live' = live \ {s}
    /\ pump' = IF live' = {} THEN "await" ELSE "loop"
    /\ UNCHANGED <<agent, osVars, ioVars, exitVars, ctxVars, signals, closed, completion, reqVars>>

\* <-ctx.Done() wins the select: no completion.
PumpCancelled ==
    /\ pump = "loop" /\ ctxDone
    /\ pump' = "delete"
    /\ UNCHANGED <<agent, osVars, ioVars, exitVars, ctxVars, live, signals, closed, completion, reqVars>>

\* ExitCode is usable in the states exited and error only.
KnownCode == IF state \in {"exited", "error"} THEN exitCode ELSE "nil"

\* Mutant: the code is read without waiting, a missing one counts as 0.
PumpExitCodeUnwaited ==
    /\ pump = "await"
    /\ completion' = IF KnownCode = "nil" THEN "zero" ELSE KnownCode
    /\ pump' = "complete"
    /\ UNCHANGED <<agent, osVars, ioVars, exitVars, ctxVars, live, signals, closed, reqVars>>

\* emitCompletion waits for w.done, and a run without a code ends silently.
\* The Codex pump does not wait, and a missing code counts as 0.
PumpExitCode ==
    /\ pump = "await"
    /\ agent = "claude" => exited
    /\ IF agent = "claude" /\ KnownCode = "nil"
         THEN pump' = "delete" /\ UNCHANGED completion
         ELSE /\ completion' = IF KnownCode = "nil" THEN "zero" ELSE KnownCode
              /\ pump' = "complete"
    /\ UNCHANGED <<agent, osVars, ioVars, exitVars, ctxVars, live, signals, closed, reqVars>>

\* The completion signal and, from the Claude adapter, a status change.
PumpComplete ==
    /\ MaySend
    /\ \/ /\ pump = "complete"
          /\ signals' = Enqueued("completion")
          /\ pump' = IF agent = "claude" THEN "status" ELSE "delete"
       \/ /\ pump = "status"
          /\ signals' = Enqueued("status")
          /\ pump' = "delete"
    /\ UNCHANGED <<agent, osVars, ioVars, exitVars, ctxVars, live, closed, completion, reqVars>>

\* The deferred calls: the run leaves the map, then the channel is closed.
PumpEnd ==
    /\ \/ pump = "delete" /\ pump' = "close" /\ UNCHANGED closed
       \/ pump = "close" /\ pump' = "ended" /\ closed' = TRUE
    /\ UNCHANGED <<agent, osVars, ioVars, exitVars, ctxVars, live, signals, completion, reqVars>>

\* Whoever ranges over the channel Observe returned.
Consume ==
    /\ signals # <<>>
    /\ signals' = Tail(signals)
    /\ UNCHANGED <<agent, osVars, ioVars, exitVars, ctxVars, pump, live, closed, completion, reqVars>>

-----------------------------------------------------------------------------

Wrapper == (\E s \in Streams : ReadChunk(s) \/ ReadEnd(s))
           \/ Drained \/ CmdWait \/ CloseChannels \/ RecordExit
Pump == PumpBegin \/ (\E s \in Streams : PumpOutput(s) \/ PumpDrained(s))
        \/ PumpCancelled \/ PumpExitCode \/ PumpComplete \/ PumpEnd
Outside == (\E s \in Streams : ChildWrite(s)) \/ ChildFork \/ ChildExit \/ KinExit

Next ==
    \/ Start \/ StartFail
    \/ Outside \/ Wrapper \/ Pump \/ Consume
    \/ InterruptClaude \/ InterruptCodex \/ InterruptKill
    \/ SubmitInput \/ CancelRuns \/ ContextKill

Spec == Init /\ [][Next]_vars

\* Goroutines run and a signal channel is read; the child and its
\* descendants owe nothing.
FairSpec ==
    /\ Spec
    /\ \A s \in Streams : /\ WF_vars(ReadChunk(s)) /\ WF_vars(ReadEnd(s))
                          /\ WF_vars(PumpOutput(s)) /\ WF_vars(PumpDrained(s))
    /\ WF_vars(Drained \/ CmdWait \/ CloseChannels \/ RecordExit)
    /\ WF_vars(PumpCancelled)
    /\ WF_vars(WriteBroken)
    /\ WF_vars(PumpBegin \/ PumpExitCode \/ PumpComplete \/ PumpEnd)
    /\ WF_vars(ContextKill)
    /\ agent = "codex" => WF_vars(Consume)

-----------------------------------------------------------------------------
(* Properties.                                                             *)

\* The completion that reports the exit follows everything the process wrote to the
\* streams the pump reads: nothing is left in a pipe or a channel when its code is
\* taken (waitForExit drains before it reaps, and closes after it reaped). What the
\* Claude parser makes of a completion line is not meant: it goes out with the
\* output, also while the process runs.
OutputBeforeCompletion ==
    completion # "none" =>
        \A s \in IF agent = "claude" THEN Streams ELSE {"stdout"} :
            pipe[s] = 0 /\ queue[s] = 0 /\ reader[s] = "done"

\* The completion that reports the exit tells the truth about it: the Claude adapter
\* always, the Codex adapter when it reports a failure. Codex may report 0 for a
\* failed process, because it reads the code before waitForExit has recorded it;
\* and a Claude completion line carries whatever code the line gives, 0 by default.
CompletionIsTrue ==
    /\ completion = "zero" /\ agent = "claude" => status = "zero"
    /\ completion = "nonzero" => status \in {"nonzero", "signal"}

\* A Claude run that ends without reporting its exit was killed or cancelled.
SilentEndExplained ==
    agent = "claude" /\ closed /\ completion = "none" => killed \/ ctxDone

\* Once the process and whoever holds its pipes are gone, the pump ends and
\* closes the channel its observer ranges over, however full the channels are.
RunEnds == (child # "none" /\ ~PipeHeld) ~> closed

\* A kill lets Wait return: the descendants die with the child, so none of
\* them keeps a reader, and with it waitForExit, waiting.
KillEnds == killed ~> exited

\* Interrupting a Codex run ends it although a prompt write that the agent
\* never reads may hold w.mu against Kill: the context is cancelled first.
InterruptEnds == killing ~> closed
=============================================================================
