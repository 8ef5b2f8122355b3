------------------------ MODULE ProcessWrapperProofs ------------------------
(***************************************************************************)
(* One agent process for any capacity of the channels, any amount of       *)
(* output and any number of interrupts.  The argument follows the order    *)
(* waitForExit imposes: the readers are done before cmd.Wait, the channels *)
(* are closed after it, and the pump leaves a stream only when its channel *)
(* is closed and empty.                                                    *)
(***************************************************************************)
EXTENDS ProcessWrapper, SequenceTheorems, TLAPS

-----------------------------------------------------------------------------
(* The inductive invariant.                                                *)

\* Before Start there is no process, no goroutine and no completion.
NotStarted ==
    pump = "off" =>
        /\ child = "none" /\ kin = "none" /\ waiter = "off" /\ exitCode = "nil"
        /\ \A s \in Streams : reader[s] = "off"

\* A reader that is done has left nothing in its pipe, and nobody can write to
\* it again.
ReaderShape ==
    \A s \in Streams : reader[s] = "done" => pipe[s] = 0 /\ ~PipeHeld

\* waitForExit drains, waits and closes in this order.
WaiterShape ==
    /\ waiter \in {"wait", "closeOut", "closeErr", "record", "done"} =>
        \A s \in Streams : reader[s] = "done"
    /\ "stdout" \notin open => waiter \in {"closeErr", "record", "done"}
    /\ "stderr" \notin open => waiter \in {"record", "done"}

\* The streams a pump reads.
Consumed == IF agent = "claude" THEN Streams ELSE {"stdout"}

\* A stream the pump has left is closed and empty.
PumpShape ==
    /\ pump \in {"off", "first", "loop", "await"} => completion = "none"
    /\ pump \in {"complete", "status"} => completion # "none"
    /\ pump = "loop" => \A s \in Consumed \ live : queue[s] = 0 /\ s \notin open
    /\ pump = "await" \/ completion # "none" =>
        \A s \in Consumed : queue[s] = 0 /\ s \notin open
    /\ closed => pump = "ended"

\* The status is that of the dead child, and what was reaped is that status.
StatusShape ==
    /\ child \in {"none", "alive"} <=> status = "none"
    /\ child = "reaped" <=> reaped # "none"
    /\ reaped = "zero" => status = "zero"
    /\ reaped = "nonzero" => status \in {"nonzero", "signal"}
    /\ reaped = "nocode" => ctxKilled
    /\ ctxKilled => ctxDone

\* The code that was recorded is the one that was reaped, unless it is missing
\* because the process was killed or its context cancelled.
CodeShape ==
    /\ waiter \in {"closeOut", "closeErr", "record", "done"} => reaped # "none"
    /\ exitCode # "nil" => exitCode = reaped /\ waiter = "done"
    /\ state = "killed" => killed
    /\ exited <=> waiter = "done"
    /\ exited => state \in {"exited", "error", "killed"}
    /\ exited /\ exitCode = "nil" => killed \/ reaped = "nocode"

\* A completion carries the recorded code; a Codex run may make up a zero.
CompletionShape ==
    /\ completion = "nonzero" => exitCode = "nonzero"
    /\ completion = "zero" /\ agent = "claude" => exitCode = "zero"
    /\ agent = "claude" /\ pump \in {"delete", "close", "ended"} /\ completion = "none" =>
        killed \/ ctxDone

IInv ==
    /\ TypeOK /\ NotStarted /\ ReaderShape /\ WaiterShape /\ PumpShape
    /\ StatusShape /\ CodeShape /\ CompletionShape

-----------------------------------------------------------------------------
(* Signals.                                                                *)

\* A signal that is queued or dropped leaves the channel within its capacity.
LEMMA EnqueuedTyped ==
  ASSUME signals \in Seq(SignalTypes), Len(signals) <= SignalCap, NEW sig \in SignalTypes
  PROVE  Enqueued(sig) \in Seq(SignalTypes) /\ Len(Enqueued(sig)) <= SignalCap
  <1>1. Append(signals, sig) \in Seq(SignalTypes) /\ Len(Append(signals, sig)) = Len(signals) + 1
    BY AppendProperties
  <1>2. QED
    BY <1>1, ProcessBounds DEF Enqueued

-----------------------------------------------------------------------------
(* One lemma per action.                                                   *)

\* Output comes while somebody holds the pipe, so its reader is not done.
LEMMA ChildWriteStep ==
  ASSUME IInv, NEW s \in Streams, ChildWrite(s)
  PROVE  IInv'
  <1> USE DEF IInv, osVars, ioVars, exitVars, ctxVars, pumpVars, reqVars
  <1>1. TypeOK'
    BY ProcessBounds DEF ChildWrite, TypeOK, Streams, Statuses
  <1>2. NotStarted' /\ ReaderShape' /\ WaiterShape'
    BY DEF ChildWrite, TypeOK, NotStarted, ReaderShape, WaiterShape, PipeHeld, Streams, Registered
  <1>3. PumpShape'
    BY DEF ChildWrite, TypeOK, NotStarted, WaiterShape, PumpShape, Consumed, Streams
  <1>4. StatusShape'
    BY DEF ChildWrite, TypeOK, NotStarted, StatusShape, Statuses
  <1>5. CodeShape' /\ CompletionShape'
    BY DEF ChildWrite, TypeOK, NotStarted, PumpShape, StatusShape, CodeShape, CompletionShape
  <1>6. QED
    BY <1>1, <1>2, <1>3, <1>4, <1>5

\* Only a living child starts a descendant.
LEMMA ChildForkStep ==
  ASSUME IInv, ChildFork
  PROVE  IInv'
  <1> USE DEF IInv, osVars, ioVars, exitVars, ctxVars, pumpVars, reqVars
  <1>1. TypeOK'
    BY ProcessBounds DEF ChildFork, TypeOK, Streams, Statuses
  <1>2. NotStarted' /\ ReaderShape' /\ WaiterShape'
    BY DEF ChildFork, TypeOK, NotStarted, ReaderShape, WaiterShape, PipeHeld, Streams, Registered
  <1>3. PumpShape'
    BY DEF ChildFork, TypeOK, NotStarted, WaiterShape, PumpShape, Consumed, Streams
  <1>4. StatusShape'
    BY DEF ChildFork, TypeOK, NotStarted, StatusShape, Statuses
  <1>5. CodeShape' /\ CompletionShape'
    BY DEF ChildFork, TypeOK, NotStarted, PumpShape, StatusShape, CodeShape, CompletionShape
  <1>6. QED
    BY <1>1, <1>2, <1>3, <1>4, <1>5

\* The status is set when the child dies.
LEMMA ChildExitStep ==
  ASSUME IInv, ChildExit
  PROVE  IInv'
  <1> USE DEF IInv, osVars, ioVars, exitVars, ctxVars, pumpVars, reqVars
  <1>1. TypeOK'
    BY ProcessBounds DEF ChildExit, TypeOK, Streams, Statuses
  <1>2. NotStarted' /\ ReaderShape' /\ WaiterShape'
    BY DEF ChildExit, TypeOK, NotStarted, ReaderShape, WaiterShape, PipeHeld, Streams, Registered
  <1>3. PumpShape'
    BY DEF ChildExit, TypeOK, NotStarted, WaiterShape, PumpShape, Consumed, Streams
  <1>4. StatusShape'
    BY DEF ChildExit, TypeOK, NotStarted, StatusShape, Statuses
  <1>5. CodeShape' /\ CompletionShape'
    BY DEF ChildExit, TypeOK, NotStarted, PumpShape, StatusShape, CodeShape, CompletionShape
  <1>6. QED
    BY <1>1, <1>2, <1>3, <1>4, <1>5

\* A descendant that ends gives up the pipes.
LEMMA KinExitStep ==
  ASSUME IInv, KinExit
  PROVE  IInv'
  <1> USE DEF IInv, osVars, ioVars, exitVars, ctxVars, pumpVars, reqVars
  <1>1. TypeOK'
    BY ProcessBounds DEF KinExit, TypeOK, Streams, Statuses
  <1>2. NotStarted' /\ ReaderShape' /\ WaiterShape'
    BY DEF KinExit, TypeOK, NotStarted, ReaderShape, WaiterShape, PipeHeld, Streams, Registered
  <1>3. PumpShape'
    BY DEF KinExit, TypeOK, NotStarted, WaiterShape, PumpShape, Consumed, Streams
  <1>4. StatusShape'
    BY DEF KinExit, TypeOK, NotStarted, StatusShape, Statuses
  <1>5. CodeShape' /\ CompletionShape'
    BY DEF KinExit, TypeOK, NotStarted, PumpShape, StatusShape, CodeShape, CompletionShape
  <1>6. QED
    BY <1>1, <1>2, <1>3, <1>4, <1>5

\* Start launches what NotStarted says is missing.
LEMMA StartStep ==
  ASSUME IInv, Start
  PROVE  IInv'
  <1> USE DEF IInv, osVars, ioVars, exitVars, ctxVars, pumpVars, reqVars
  <1>1. TypeOK'
    BY ProcessBounds DEF Start, TypeOK, Streams, Statuses
  <1>2. NotStarted' /\ ReaderShape' /\ WaiterShape'
    BY DEF Start, TypeOK, NotStarted, ReaderShape, WaiterShape, PipeHeld, Streams, Registered
  <1>3. PumpShape'
    BY DEF Start, TypeOK, NotStarted, WaiterShape, PumpShape, Consumed, Streams
  <1>4. StatusShape'
    BY DEF Start, TypeOK, NotStarted, StatusShape, Statuses
  <1>5. CodeShape' /\ CompletionShape'
    BY DEF Start, TypeOK, NotStarted, PumpShape, StatusShape, CodeShape, CompletionShape
  <1>6. QED
    BY <1>1, <1>2, <1>3, <1>4, <1>5

\* A failed Start leaves everything off.
LEMMA StartFailStep ==
  ASSUME IInv, StartFail
  PROVE  IInv'
  <1> USE DEF IInv, osVars, ioVars, exitVars, ctxVars, pumpVars, reqVars
  <1>1. TypeOK'
    BY ProcessBounds DEF StartFail, TypeOK, Streams, Statuses
  <1>2. NotStarted' /\ ReaderShape' /\ WaiterShape'
    BY DEF StartFail, TypeOK, NotStarted, ReaderShape, WaiterShape, PipeHeld, Streams, Registered
  <1>3. PumpShape'
    BY DEF StartFail, TypeOK, NotStarted, WaiterShape, PumpShape, Consumed, Streams
  <1>4. StatusShape'
    BY DEF StartFail, TypeOK, NotStarted, StatusShape, Statuses
  <1>5. CodeShape' /\ CompletionShape'
    BY DEF StartFail, TypeOK, NotStarted, PumpShape, StatusShape, CodeShape, CompletionShape
  <1>6. QED
    BY <1>1, <1>2, <1>3, <1>4, <1>5

\* A reader that has more to read has not ended its stream.
LEMMA ReadChunkStep ==
  ASSUME IInv, NEW s \in Streams, ReadChunk(s)
  PROVE  IInv'
  <1> USE DEF IInv, osVars, ioVars, exitVars, ctxVars, pumpVars, reqVars
  <1>1. TypeOK'
    BY ProcessBounds DEF ReadChunk, TypeOK, Streams, Statuses
  <1>2. NotStarted' /\ ReaderShape' /\ WaiterShape'
    BY DEF ReadChunk, TypeOK, NotStarted, ReaderShape, WaiterShape, PipeHeld, Streams, Registered
  <1>3. PumpShape'
    BY DEF ReadChunk, TypeOK, NotStarted, WaiterShape, PumpShape, Consumed, Streams
  <1>4. StatusShape'
    BY DEF ReadChunk, TypeOK, NotStarted, StatusShape, Statuses
  <1>5. CodeShape' /\ CompletionShape'
    BY DEF ReadChunk, TypeOK, NotStarted, PumpShape, StatusShape, CodeShape, CompletionShape
  <1>6. QED
    BY <1>1, <1>2, <1>3, <1>4, <1>5

\* A stream ends when nobody holds the pipe and it is empty.
LEMMA ReadEndStep ==
  ASSUME IInv, NEW s \in Streams, ReadEnd(s)
  PROVE  IInv'
  <1> USE DEF IInv, osVars, ioVars, exitVars, ctxVars, pumpVars, reqVars
  <1>1. TypeOK'
    BY ProcessBounds DEF ReadEnd, TypeOK, Streams, Statuses
  <1>2. NotStarted' /\ ReaderShape' /\ WaiterShape'
    BY DEF ReadEnd, TypeOK, NotStarted, ReaderShape, WaiterShape, PipeHeld, Streams, Registered
  <1>3. PumpShape'
    BY DEF ReadEnd, TypeOK, NotStarted, WaiterShape, PumpShape, Consumed, Streams
  <1>4. StatusShape'
    BY DEF ReadEnd, TypeOK, NotStarted, StatusShape, Statuses
  <1>5. CodeShape' /\ CompletionShape'
    BY DEF ReadEnd, TypeOK, NotStarted, PumpShape, StatusShape, CodeShape, CompletionShape
  <1>6. QED
    BY <1>1, <1>2, <1>3, <1>4, <1>5

\* Both readers are done.
LEMMA DrainedStep ==
  ASSUME IInv, Drained
  PROVE  IInv'
  <1> USE DEF IInv, osVars, ioVars, exitVars, ctxVars, pumpVars, reqVars
  <1>1. TypeOK'
    BY ProcessBounds DEF Drained, TypeOK, Streams, Statuses
  <1>2. NotStarted' /\ ReaderShape' /\ WaiterShape'
    BY DEF Drained, TypeOK, NotStarted, ReaderShape, WaiterShape, PipeHeld, Streams, Registered
  <1>3. PumpShape'
    BY DEF Drained, TypeOK, NotStarted, WaiterShape, PumpShape, Consumed, Streams
  <1>4. StatusShape'
    BY DEF Drained, TypeOK, NotStarted, StatusShape, Statuses
  <1>5. CodeShape' /\ CompletionShape'
    BY DEF Drained, TypeOK, NotStarted, PumpShape, StatusShape, CodeShape, CompletionShape
  <1>6. QED
    BY <1>1, <1>2, <1>3, <1>4, <1>5

\* The status of the dead child is reaped.
LEMMA CmdWaitStep ==
  ASSUME IInv, CmdWait
  PROVE  IInv'
  <1> USE DEF IInv, osVars, ioVars, exitVars, ctxVars, pumpVars, reqVars
  <1>1. TypeOK'
    BY ProcessBounds DEF CmdWait, TypeOK, Streams, Statuses
  <1>2. NotStarted' /\ ReaderShape' /\ WaiterShape'
    BY DEF CmdWait, TypeOK, NotStarted, ReaderShape, WaiterShape, PipeHeld, Streams, Registered
  <1>3. PumpShape'
    BY DEF CmdWait, TypeOK, NotStarted, WaiterShape, PumpShape, Consumed, Streams
  <1>4. StatusShape'
    BY DEF CmdWait, TypeOK, NotStarted, StatusShape, Statuses
  <1>5. CodeShape' /\ CompletionShape'
    BY DEF CmdWait, TypeOK, NotStarted, PumpShape, StatusShape, CodeShape, CompletionShape
  <1>6. QED
    BY <1>1, <1>2, <1>3, <1>4, <1>5

\* The channels are closed one after the other, after the reaping.
LEMMA CloseChannelsStep ==
  ASSUME IInv, CloseChannels
  PROVE  IInv'
  <1> USE DEF IInv, osVars, ioVars, exitVars, ctxVars, pumpVars, reqVars
  <1>1. TypeOK'
    <2>1. open' \subseteq Streams
      BY DEF CloseChannels, TypeOK, Statuses, CodeShape
    <2>2. waiter' \in {"off", "drain", "wait", "closeOut", "closeErr", "record", "done"}
      BY DEF CloseChannels, TypeOK, Statuses, CodeShape
    <2>3. QED
      BY <2>1, <2>2 DEF CloseChannels, TypeOK
  <1>2. NotStarted' /\ ReaderShape' /\ WaiterShape'
    BY DEF CloseChannels, TypeOK, NotStarted, ReaderShape, WaiterShape, PipeHeld, Streams,
           Registered
  <1>3. PumpShape'
    BY DEF CloseChannels, TypeOK, NotStarted, WaiterShape, PumpShape, Consumed, Streams
  <1>4. StatusShape'
    BY DEF CloseChannels, TypeOK, NotStarted, StatusShape, Statuses
  <1>5. CodeShape' /\ CompletionShape'
    BY DEF CloseChannels, TypeOK, NotStarted, PumpShape, StatusShape, CodeShape, CompletionShape
  <1>6. QED
    BY <1>1, <1>2, <1>3, <1>4, <1>5

\* The code is recorded once, and is missing only after a kill or a
\* cancellation.
LEMMA RecordExitStep ==
  ASSUME IInv, RecordExit
  PROVE  IInv'
  <1> USE DEF IInv, osVars, ioVars, exitVars, ctxVars, pumpVars, reqVars
  <1>1. TypeOK'
    <2>1. state' \in {"pending", "running", "exited", "killed", "error"}
      BY DEF RecordExit, TypeOK, Statuses, CodeShape
    <2>2. exitCode' \in {"nil", "zero", "nonzero"}
      BY DEF RecordExit, TypeOK, Statuses, CodeShape
    <2>3. QED
      BY <2>1, <2>2 DEF RecordExit, TypeOK
  <1>2. NotStarted' /\ ReaderShape' /\ WaiterShape'
    BY DEF RecordExit, TypeOK, NotStarted, ReaderShape, WaiterShape, PipeHeld, Streams, Registered
  <1>3. PumpShape'
    BY DEF RecordExit, TypeOK, NotStarted, WaiterShape, PumpShape, Consumed, Streams
  <1>4. StatusShape'
    BY DEF RecordExit, TypeOK, NotStarted, StatusShape, Statuses
  <1>5. CodeShape' /\ CompletionShape'
    BY DEF RecordExit, TypeOK, NotStarted, PumpShape, StatusShape, CodeShape, CompletionShape
  <1>6. QED
    BY <1>1, <1>2, <1>3, <1>4, <1>5

\* An interrupt only asks for a kill.
LEMMA InterruptClaudeStep ==
  ASSUME IInv, InterruptClaude
  PROVE  IInv'
  <1> USE DEF IInv, osVars, ioVars, exitVars, ctxVars, pumpVars, reqVars
  <1>1. TypeOK'
    BY ProcessBounds DEF InterruptClaude, TypeOK, Streams, Statuses
  <1>2. NotStarted' /\ ReaderShape' /\ WaiterShape'
    BY DEF InterruptClaude, TypeOK, NotStarted, ReaderShape, WaiterShape, PipeHeld,
           Streams, Registered
  <1>3. PumpShape'
    BY DEF InterruptClaude, TypeOK, NotStarted, WaiterShape, PumpShape, Consumed, Streams
  <1>4. StatusShape'
    BY DEF InterruptClaude, TypeOK, NotStarted, StatusShape, Statuses
  <1>5. CodeShape' /\ CompletionShape'
    BY DEF InterruptClaude, TypeOK, NotStarted, PumpShape, StatusShape, CodeShape, CompletionShape
  <1>6. QED
    BY <1>1, <1>2, <1>3, <1>4, <1>5

\* An interrupt of a Codex run cancels its context.
LEMMA InterruptCodexStep ==
  ASSUME IInv, InterruptCodex
  PROVE  IInv'
  <1> USE DEF IInv, osVars, ioVars, exitVars, ctxVars, pumpVars, reqVars
  <1>1. TypeOK'
    BY ProcessBounds DEF InterruptCodex, TypeOK, Streams, Statuses
  <1>2. NotStarted' /\ ReaderShape' /\ WaiterShape'
    BY DEF InterruptCodex, TypeOK, NotStarted, ReaderShape, WaiterShape, PipeHeld, Streams,
           Registered
  <1>3. PumpShape'
    BY DEF InterruptCodex, TypeOK, NotStarted, WaiterShape, PumpShape, Consumed, Streams
  <1>4. StatusShape'
    BY DEF InterruptCodex, TypeOK, NotStarted, StatusShape, Statuses
  <1>5. CodeShape' /\ CompletionShape'
    BY DEF InterruptCodex, TypeOK, NotStarted, PumpShape, StatusShape, CodeShape, CompletionShape
  <1>6. QED
    BY <1>1, <1>2, <1>3, <1>4, <1>5

\* A kill ends the child and its descendants.
LEMMA InterruptKillStep ==
  ASSUME IInv, InterruptKill
  PROVE  IInv'
  <1> USE DEF IInv, osVars, ioVars, exitVars, ctxVars, pumpVars, reqVars
  <1>1. TypeOK'
    <2>1. kin' \in {"none", "quiet", "piped"}
      BY DEF InterruptKill, Kill, GroupExists, TypeOK, Statuses, CodeShape
    <2>2. child' \in {"none", "alive", "zombie", "reaped"}
      BY DEF InterruptKill, Kill, GroupExists, TypeOK, Statuses, CodeShape
    <2>3. status' \in Statuses \cup {"none"}
      BY DEF InterruptKill, Kill, GroupExists, TypeOK, Statuses, CodeShape
    <2>4. state' \in {"pending", "running", "exited", "killed", "error"}
      BY DEF InterruptKill, Kill, GroupExists, TypeOK, Statuses, CodeShape
    <2>5. killed' \in BOOLEAN
      BY DEF InterruptKill, Kill, GroupExists, TypeOK, Statuses, CodeShape
    <2>6. /\ killing' \in BOOLEAN
          /\ UNCHANGED <<agent, pipe, reader, queue, open, waiter, reaped, exitCode, exited, ctxDone,
                         ctxKilled, pump, live, signals, closed, completion, writing, interrupts>>
      BY DEF InterruptKill
    <2>7. QED
      BY <2>1, <2>2, <2>3, <2>4, <2>5, <2>6 DEF TypeOK
  <1>2. NotStarted' /\ ReaderShape' /\ WaiterShape'
    BY DEF InterruptKill, Kill, GroupExists, TypeOK, NotStarted, ReaderShape, WaiterShape,
           PipeHeld, Streams, Registered
  <1>3. PumpShape'
    BY DEF InterruptKill, Kill, GroupExists, TypeOK, NotStarted, WaiterShape, PumpShape,
           Consumed, Streams
  <1>4. StatusShape'
    BY DEF InterruptKill, Kill, GroupExists, TypeOK, NotStarted, StatusShape, Statuses
  <1>5. CodeShape' /\ CompletionShape'
    BY DEF InterruptKill, Kill, GroupExists, TypeOK, NotStarted, PumpShape, StatusShape,
           CodeShape, CompletionShape
  <1>6. QED
    BY <1>1, <1>2, <1>3, <1>4, <1>5

\* A write to stdin holds the lock and changes nothing else.
LEMMA SubmitInputStep ==
  ASSUME IInv, SubmitInput
  PROVE  IInv'
  <1> USE DEF IInv, osVars, ioVars, exitVars, ctxVars, pumpVars, reqVars
  <1>1. TypeOK'
    <2>1. writing' \in BOOLEAN
      BY DEF SubmitInput, WriteInput, WriteTaken, WriteBroken, TypeOK, Statuses, CodeShape
    <2>2. QED
      BY <2>1 DEF SubmitInput, WriteInput, WriteTaken, WriteBroken, TypeOK
  <1>2. NotStarted' /\ ReaderShape' /\ WaiterShape'
    BY DEF SubmitInput, WriteInput, WriteTaken, WriteBroken, TypeOK, NotStarted,
           ReaderShape, WaiterShape, PipeHeld, Streams, Registered
  <1>3. PumpShape'
    BY DEF SubmitInput, WriteInput, WriteTaken, WriteBroken, TypeOK, NotStarted,
           WaiterShape, PumpShape, Consumed, Streams
  <1>4. StatusShape'
    BY DEF SubmitInput, WriteInput, WriteTaken, WriteBroken, TypeOK, NotStarted,
           StatusShape, Statuses
  <1>5. CodeShape' /\ CompletionShape'
    BY DEF SubmitInput, WriteInput, WriteTaken, WriteBroken, TypeOK, NotStarted, PumpShape,
           StatusShape, CodeShape, CompletionShape
  <1>6. QED
    BY <1>1, <1>2, <1>3, <1>4, <1>5

\* A cancellation of the context is never taken back.
LEMMA CancelRunsStep ==
  ASSUME IInv, CancelRuns
  PROVE  IInv'
  <1> USE DEF IInv, osVars, ioVars, exitVars, ctxVars, pumpVars, reqVars
  <1>1. TypeOK'
    BY ProcessBounds DEF CancelRuns, TypeOK, Streams, Statuses
  <1>2. NotStarted' /\ ReaderShape' /\ WaiterShape'
    BY DEF CancelRuns, TypeOK, NotStarted, ReaderShape, WaiterShape, PipeHeld, Streams, Registered
  <1>3. PumpShape'
    BY DEF CancelRuns, TypeOK, NotStarted, WaiterShape, PumpShape, Consumed, Streams
  <1>4. StatusShape'
    BY DEF CancelRuns, TypeOK, NotStarted, StatusShape, Statuses
  <1>5. CodeShape' /\ CompletionShape'
    BY DEF CancelRuns, TypeOK, NotStarted, PumpShape, StatusShape, CodeShape, CompletionShape
  <1>6. QED
    BY <1>1, <1>2, <1>3, <1>4, <1>5

\* The context watcher leaves the status of a dead child alone.
LEMMA ContextKillStep ==
  ASSUME IInv, ContextKill
  PROVE  IInv'
  <1> USE DEF IInv, osVars, ioVars, exitVars, ctxVars, pumpVars, reqVars
  <1>1. TypeOK'
    BY ProcessBounds DEF ContextKill, TypeOK, Streams, Statuses
  <1>2. NotStarted' /\ ReaderShape' /\ WaiterShape'
    BY DEF ContextKill, TypeOK, NotStarted, ReaderShape, WaiterShape, PipeHeld, Streams, Registered
  <1>3. PumpShape'
    BY DEF ContextKill, TypeOK, NotStarted, WaiterShape, PumpShape, Consumed, Streams
  <1>4. StatusShape'
    BY DEF ContextKill, TypeOK, NotStarted, StatusShape, Statuses
  <1>5. CodeShape' /\ CompletionShape'
    BY DEF ContextKill, TypeOK, NotStarted, PumpShape, StatusShape, CodeShape, CompletionShape
  <1>6. QED
    BY <1>1, <1>2, <1>3, <1>4, <1>5

\* The pump begins with every stream it consumes.
LEMMA PumpBeginStep ==
  ASSUME IInv, PumpBegin
  PROVE  IInv'
  <1> USE DEF IInv, osVars, ioVars, exitVars, ctxVars, pumpVars, reqVars
  <1>1. TypeOK'
    <2>1. signals' \in Seq(SignalTypes) /\ Len(signals') <= SignalCap
      BY EnqueuedTyped DEF PumpBegin, TypeOK, SignalTypes
    <2>2. QED
      BY <2>1, ProcessBounds DEF PumpBegin, TypeOK, Streams
  <1>2. NotStarted' /\ ReaderShape' /\ WaiterShape'
    BY DEF PumpBegin, TypeOK, NotStarted, ReaderShape, WaiterShape, PipeHeld, Streams, Registered
  <1>3. PumpShape'
    BY DEF PumpBegin, TypeOK, NotStarted, WaiterShape, PumpShape, Consumed, Streams
  <1>4. StatusShape'
    BY DEF PumpBegin, TypeOK, NotStarted, StatusShape, Statuses
  <1>5. CodeShape' /\ CompletionShape'
    BY DEF PumpBegin, TypeOK, NotStarted, PumpShape, StatusShape, CodeShape, CompletionShape
  <1>6. QED
    BY <1>1, <1>2, <1>3, <1>4, <1>5

\* A chunk leaves the channel as an output or, of a completion line, as a claim.
LEMMA PumpOutputStep ==
  ASSUME IInv, NEW s \in Streams, PumpOutput(s)
  PROVE  IInv'
  <1> USE DEF IInv, osVars, ioVars, exitVars, ctxVars, pumpVars, reqVars
  <1>1. TypeOK'
    <2>1. signals' \in Seq(SignalTypes) /\ Len(signals') <= SignalCap
      BY EnqueuedTyped DEF PumpOutput, TypeOK, SignalTypes
    <2>2. QED
      BY <2>1, ProcessBounds DEF PumpOutput, TypeOK, Streams
  <1>2. NotStarted' /\ ReaderShape' /\ WaiterShape'
    BY DEF PumpOutput, TypeOK, NotStarted, ReaderShape, WaiterShape, PipeHeld, Streams, Registered
  <1>3. PumpShape'
    BY DEF PumpOutput, TypeOK, NotStarted, WaiterShape, PumpShape, Consumed, Streams
  <1>4. StatusShape'
    BY DEF PumpOutput, TypeOK, NotStarted, StatusShape, Statuses
  <1>5. CodeShape' /\ CompletionShape'
    BY DEF PumpOutput, TypeOK, NotStarted, PumpShape, StatusShape, CodeShape, CompletionShape
  <1>6. QED
    BY <1>1, <1>2, <1>3, <1>4, <1>5

\* A stream is left when its channel is closed and empty.
LEMMA PumpDrainedStep ==
  ASSUME IInv, NEW s \in Streams, PumpDrained(s)
  PROVE  IInv'
  <1> USE DEF IInv, osVars, ioVars, exitVars, ctxVars, pumpVars, reqVars
  <1>1. TypeOK'
    BY ProcessBounds DEF PumpDrained, TypeOK, Streams, Statuses
  <1>2. NotStarted' /\ ReaderShape' /\ WaiterShape'
    BY DEF PumpDrained, TypeOK, NotStarted, ReaderShape, WaiterShape, PipeHeld, Streams, Registered
  <1>3. PumpShape'
    BY DEF PumpDrained, TypeOK, NotStarted, WaiterShape, PumpShape, Consumed, Streams
  <1>4. StatusShape'
    BY DEF PumpDrained, TypeOK, NotStarted, StatusShape, Statuses
  <1>5. CodeShape' /\ CompletionShape'
    BY DEF PumpDrained, TypeOK, NotStarted, PumpShape, StatusShape, CodeShape, CompletionShape
  <1>6. QED
    BY <1>1, <1>2, <1>3, <1>4, <1>5

\* A cancelled pump ends without a completion.
LEMMA PumpCancelledStep ==
  ASSUME IInv, PumpCancelled
  PROVE  IInv'
  <1> USE DEF IInv, osVars, ioVars, exitVars, ctxVars, pumpVars, reqVars
  <1>1. TypeOK'
    BY ProcessBounds DEF PumpCancelled, TypeOK, Streams, Statuses
  <1>2. NotStarted' /\ ReaderShape' /\ WaiterShape'
    BY DEF PumpCancelled, TypeOK, NotStarted, ReaderShape, WaiterShape, PipeHeld, Streams,
           Registered
  <1>3. PumpShape'
    BY DEF PumpCancelled, TypeOK, NotStarted, WaiterShape, PumpShape, Consumed, Streams
  <1>4. StatusShape'
    BY DEF PumpCancelled, TypeOK, NotStarted, StatusShape, Statuses
  <1>5. CodeShape' /\ CompletionShape'
    BY DEF PumpCancelled, TypeOK, NotStarted, PumpShape, StatusShape, CodeShape, CompletionShape
  <1>6. QED
    BY <1>1, <1>2, <1>3, <1>4, <1>5

\* The completion carries the recorded code; without one a Claude run was
\* killed or cancelled.
LEMMA PumpExitCodeStep ==
  ASSUME IInv, PumpExitCode
  PROVE  IInv'
  <1> USE DEF IInv, osVars, ioVars, exitVars, ctxVars, pumpVars, reqVars
  <1>1. TypeOK'
    BY ProcessBounds DEF PumpExitCode, KnownCode, TypeOK, Streams, Statuses
  <1>2. NotStarted' /\ ReaderShape' /\ WaiterShape'
    BY DEF PumpExitCode, KnownCode, TypeOK, NotStarted, ReaderShape, WaiterShape, PipeHeld,
           Streams, Registered
  <1>3. PumpShape'
    BY DEF PumpExitCode, KnownCode, TypeOK, NotStarted, WaiterShape, PumpShape, Consumed, Streams
  <1>4. StatusShape'
    BY DEF PumpExitCode, KnownCode, TypeOK, NotStarted, StatusShape, Statuses
  <1>5. CodeShape' /\ CompletionShape'
    BY DEF PumpExitCode, KnownCode, TypeOK, NotStarted, PumpShape, StatusShape, CodeShape,
           CompletionShape
  <1>6. QED
    BY <1>1, <1>2, <1>3, <1>4, <1>5

\* The signals of the completion.
LEMMA PumpCompleteStep ==
  ASSUME IInv, PumpComplete
  PROVE  IInv'
  <1> USE DEF IInv, osVars, ioVars, exitVars, ctxVars, pumpVars, reqVars
  <1>1. TypeOK'
    <2>1. signals' \in Seq(SignalTypes) /\ Len(signals') <= SignalCap
      <3>1. PICK sig \in SignalTypes : signals' = Enqueued(sig)
        BY DEF PumpComplete, SignalTypes
      <3>2. QED
        BY <3>1, EnqueuedTyped DEF TypeOK
    <2>2. QED
      BY <2>1 DEF PumpComplete, TypeOK
  <1>2. NotStarted' /\ ReaderShape' /\ WaiterShape'
    BY DEF PumpComplete, TypeOK, NotStarted, ReaderShape, WaiterShape, PipeHeld, Streams, Registered
  <1>3. PumpShape'
    BY DEF PumpComplete, TypeOK, NotStarted, WaiterShape, PumpShape, Consumed, Streams
  <1>4. StatusShape'
    BY DEF PumpComplete, TypeOK, NotStarted, StatusShape, Statuses
  <1>5. CodeShape' /\ CompletionShape'
    BY DEF PumpComplete, TypeOK, NotStarted, PumpShape, StatusShape, CodeShape, CompletionShape
  <1>6. QED
    BY <1>1, <1>2, <1>3, <1>4, <1>5

\* The deferred calls run last.
LEMMA PumpEndStep ==
  ASSUME IInv, PumpEnd
  PROVE  IInv'
  <1> USE DEF IInv, osVars, ioVars, exitVars, ctxVars, pumpVars, reqVars
  <1>1. TypeOK'
    <2>1. pump' \in {"close", "ended"}
      BY DEF PumpEnd, TypeOK, Statuses, CodeShape
    <2>2. closed' \in BOOLEAN
      BY DEF PumpEnd, TypeOK, Statuses, CodeShape
    <2>3. QED
      BY <2>1, <2>2 DEF PumpEnd, TypeOK
  <1>2. NotStarted' /\ ReaderShape' /\ WaiterShape'
    BY DEF PumpEnd, TypeOK, NotStarted, ReaderShape, WaiterShape, PipeHeld, Streams, Registered
  <1>3. PumpShape'
    BY DEF PumpEnd, TypeOK, NotStarted, WaiterShape, PumpShape, Consumed, Streams
  <1>4. StatusShape'
    BY DEF PumpEnd, TypeOK, NotStarted, StatusShape, Statuses
  <1>5. CodeShape' /\ CompletionShape'
    BY DEF PumpEnd, TypeOK, NotStarted, PumpShape, StatusShape, CodeShape, CompletionShape
  <1>6. QED
    BY <1>1, <1>2, <1>3, <1>4, <1>5

\* Reading the signals touches nothing else.
LEMMA ConsumeStep ==
  ASSUME IInv, Consume
  PROVE  IInv'
  <1> USE DEF IInv, osVars, ioVars, exitVars, ctxVars, pumpVars, reqVars
  <1>1. TypeOK'
    <2>1. signals' \in Seq(SignalTypes) /\ Len(signals') <= SignalCap
      <3>1. signals \in Seq(SignalTypes) /\ signals # <<>> /\ signals' = Tail(signals)
        BY DEF Consume, TypeOK
      <3>2. Tail(signals) \in Seq(SignalTypes) /\ Len(Tail(signals)) = Len(signals) - 1
            /\ Len(signals) \in Nat
        BY <3>1, HeadTailProperties, LenProperties
      <3>3. QED
        BY <3>1, <3>2, ProcessBounds DEF TypeOK
    <2>2. QED
      BY <2>1 DEF Consume, TypeOK
  <1>2. NotStarted' /\ ReaderShape' /\ WaiterShape'
    BY DEF Consume, TypeOK, NotStarted, ReaderShape, WaiterShape, PipeHeld, Streams, Registered
  <1>3. PumpShape'
    BY DEF Consume, TypeOK, NotStarted, WaiterShape, PumpShape, Consumed, Streams
  <1>4. StatusShape'
    BY DEF Consume, TypeOK, NotStarted, StatusShape, Statuses
  <1>5. CodeShape' /\ CompletionShape'
    BY DEF Consume, TypeOK, NotStarted, PumpShape, StatusShape, CodeShape, CompletionShape
  <1>6. QED
    BY <1>1, <1>2, <1>3, <1>4, <1>5

-----------------------------------------------------------------------------
(* Theorems.                                                               *)

\* Before Start the invariant holds.
LEMMA InitInv == Init => IInv
  <1> SUFFICES ASSUME Init
               PROVE  IInv
    OBVIOUS
  <1>1. signals \in Seq(SignalTypes) /\ Len(signals) <= SignalCap
    BY ProcessBounds, EmptySeq DEF Init
  <1>2. TypeOK
    <2>1. /\ pipe \in [Streams -> 0 .. MaxChunks] /\ queue \in [Streams -> 0 .. ChanCap]
          /\ reader \in [Streams -> {"off", "reading", "done"}] /\ interrupts \in 0 .. MaxInterrupts
      BY ProcessBounds DEF Init
    <2>2. exited \in BOOLEAN /\ ctxDone \in BOOLEAN /\ ctxKilled \in BOOLEAN /\ closed \in BOOLEAN
      BY Zenon DEF Init
    <2>3. killing \in BOOLEAN /\ killed \in BOOLEAN /\ writing \in BOOLEAN
      BY Zenon DEF Init
    <2>4. QED
      BY <1>1, <2>1, <2>2, <2>3 DEF Init, TypeOK
  <1>3. NotStarted /\ ReaderShape /\ WaiterShape
    BY DEF Init, NotStarted, ReaderShape, WaiterShape, Streams
  <1>4. PumpShape /\ StatusShape
    BY DEF Init, PumpShape, StatusShape
  <1>5. CodeShape /\ CompletionShape
    BY DEF Init, CodeShape, CompletionShape
  <1>6. QED
    BY <1>2, <1>3, <1>4, <1>5 DEF IInv

\* Every step keeps the invariant.
LEMMA NextInv == IInv /\ [Next]_vars => IInv'
  <1> SUFFICES ASSUME IInv, [Next]_vars
               PROVE  IInv'
    OBVIOUS
  <1>1. CASE UNCHANGED vars
    BY <1>1 DEF vars, osVars, ioVars, exitVars, ctxVars, pumpVars, reqVars, IInv, TypeOK,
       NotStarted, ReaderShape, WaiterShape, PumpShape, StatusShape, CodeShape, CompletionShape,
       PipeHeld, Consumed
  <1>2. CASE Outside
    BY <1>2, ChildWriteStep, ChildForkStep, ChildExitStep, KinExitStep DEF Outside
  <1>3. CASE Wrapper
    BY <1>3, ReadChunkStep, ReadEndStep, DrainedStep, CmdWaitStep, CloseChannelsStep,
       RecordExitStep DEF Wrapper
  <1>4. CASE Pump
    BY <1>4, PumpBeginStep, PumpOutputStep, PumpDrainedStep, PumpCancelledStep, PumpExitCodeStep,
       PumpCompleteStep, PumpEndStep DEF Pump
  <1>5. QED
    BY <1>1, <1>2, <1>3, <1>4, StartStep, StartFailStep, ConsumeStep, InterruptClaudeStep,
       InterruptCodexStep, InterruptKillStep, SubmitInputStep, CancelRunsStep, ContextKillStep
    DEF Next

\* The invariant holds throughout.
LEMMA Invariance == Spec => []IInv
  BY InitInv, NextInv, PTL DEF Spec

\* The process, the wrapper and the pump keep their types, and neither channel
\* exceeds its capacity (wrapper.go, claude.go, codex.go).
THEOREM TypeCorrect == Spec => []TypeOK
  BY Invariance, PTL DEF IInv

\* When the completion that reports the exit is produced, what the process wrote to
\* the streams the pump reads has been read and passed on or dropped at a full channel
\* (wrapper.go, waitForExit; the pumps of both adapters).
THEOREM OutputPrecedesCompletion == Spec => []OutputBeforeCompletion
  <1>1. IInv => OutputBeforeCompletion
    BY DEF IInv, OutputBeforeCompletion, PumpShape, WaiterShape, ReaderShape, Consumed, Streams
  <1>2. QED
    BY <1>1, Invariance, PTL

\* The completion that reports the exit of a Claude run tells the exit status, and so
\* does a failure that a Codex run reports (emitCompletion, ExitCode).
THEOREM CompletionsAreTrue == Spec => []CompletionIsTrue
  <1>1. IInv => CompletionIsTrue
    BY DEF IInv, CompletionIsTrue, StatusShape, CodeShape, CompletionShape
  <1>2. QED
    BY <1>1, Invariance, PTL

\* A Claude run whose channel was closed without reporting the exit was killed or
\* its context cancelled (emitCompletion, waitForExit).
THEOREM SilenceIsExplained == Spec => []SilentEndExplained
  <1>1. IInv => SilentEndExplained
    BY DEF IInv, SilentEndExplained, PumpShape, CompletionShape
  <1>2. QED
    BY <1>1, Invariance, PTL
=============================================================================
