# Code-All-Remote: verification project

Code-All-Remote is a Go server that runs coding agents (Claude Code, Codex) as
child processes and lets paired devices follow and steer them: a session is
created and started over REST, its events are journaled in SQLite and streamed
over WebSocket, and what the agent wants to do is put to the user as an
approval. This directory holds TLA+ models of that server, TLC runs over small
instances of them, and TLAPS proofs for every instance.

Run one check with `tlc -config EventDelivery.cfg MCEventDelivery`, the
proofs with `tlapm ApprovalBridgeProofs.tla`. `PROJECT.json` lists the
components, the runs, the source lines behind every definition, the hazards and
the findings.

## 1. Inventory

Paths are relative to `src/internal/`.

| Component | State it keeps | Operations | What makes it correct |
|---|---|---|---|
| approval bridge `approval/` | map of approval objects behind `b.mu`, a row per approval, `decisionCh` | Request, Decide, Cancel, ExtendExpiry, expiry sweep | one outcome per approval, recorded before anybody acts on it; every pending approval ends |
| session service `app/session_service.go` | none of its own; works on the tables | CreateSession, StartRun, SubmitPrompt, Interrupt, ResolveApproval, one observer goroutine per run | state follows the transition table although every caller acts on a state it read earlier; one run per session |
| state machine, sessions and runs tables `session/`, `storage/session_repository.go` | session state, pending approval id, run row | compare-and-set, inserts | no lost or revived outcome |
| lifecycle manager `lifecycle/`, `server/` | phase, active runs | start with reconciliation, drain, mark, stop | a stop ends; nothing from before a restart is shown as live |
| Claude adapter `adapter/claude` | run id -> process, a bounded signal channel per process, parked permission requests | Start, Observe, Interrupt, DecideApproval, the pump | the exit is reported once and truly, the channel is closed once, no request is parked for ever |
| process wrapper `wrapper/` | process, exit code, output channels | Start, Signal, Kill, two readers, one waiter | the output is drained before the channels close |
| event journal `storage/cursor_repository.go` | append-only events with a sequence per session | Append, Replay, PurgeExpired (no caller) | sequences without holes and without repetition |
| WebSocket gateway `ws/` | subscribers per session; per client a replay buffer, a bounded channel, a closed flag | Publish, replayAndSubscribe, writer, pinger, reader | nothing is lost between replay and live delivery; a slow client holds up nobody |
| permission bridge `mcpperm/`, `cmd/car-mcp-perm` | a Unix socket and parked requests per run | Ask (helper), handlePermission, DecideApproval, teardown | denies when in doubt; an accepted decision is the answer; nobody waits for ever |
| Codex adapter `adapter/codex` | run id -> process, a bounded signal channel | Start, pump, SubmitInput, Interrupt | as for the Claude adapter |
| identity `identity/`, `api/pairing_handlers.go` | challenges in memory, devices and tokens in tables | create challenge, pair, refresh, authorize, revoke | a challenge pairs one device; a revoked device is refused |
| REST API and dispatcher `api/`, `protocol/` | idempotency keys in memory | the POST handlers, Dispatch | a retry does not run again and gets the first answer |
| workspace registry `workspace/` | two maps over a table | Register, Unregister, look-ups, LoadFromConfig | one id per directory; a session keeps its directory |
| backup `cmd/carctl` | an archive, a target directory | backup, verify, restore | what is restored was backed up whole and opens |
| projection, plugins, audit | folds, maps, records | | |
| Android client `android/` | per-session cursor, in memory and on disk | connect, handle frame, advance | a cursor never passes an event that was not applied |

How they interact. A REST handler calls the session service in the goroutine of
the request. `StartRun` calls the adapter, which spawns a process through the
wrapper and starts a pump; the service starts an observer that ranges over the
adapter's signal channel until the pump closes it. Request handlers and
observers call the bridge (behind a mutex) and the tables (one statement at a
time, no transaction around a sequence of them), and both call `emitEvent`,
which appends to the journal and then publishes to the hub. The hub hands the
event to clients, each drained by its writer goroutine. The lifecycle manager
runs before the first request and after the last one, while observers still run.

What is hard here: sessions are read, checked and updated in separate
statements by several goroutines; the bridge holds an approval in memory and in
a table and releases its lock in between; events are numbered in one place and
published in another; clients move from replay to live delivery while events
arrive; all of it may stop at any statement and is expected to be put right by
the next start. The `hazards` of `PROJECT.json` name the lines.

## 2. Modules

### ApprovalBridge (proved: ApprovalBridgeProofs)

An approval is an object (`objState`, `objExpires`) that the map `approvals`
points to, and a row (`row`, `rowExpires`). Objects are named after what
allocates them, so that a pointer is a name: the `Request` of an id, or the
`Decide` call that loaded a private copy of a row after a restart. A
`ResolveApproval` call goes through the steps between which Go releases `b.mu`
or talks to the database: `DecideLookup` (under the lock; with `Conclude` if the
map has the approval), `DecideLoad`, `DecideApply`, `DecidePersist` or
`DecidePersistExpired`, `ResolveEmit`, `ResolveTell`. `Cancel`, `ExtendExpiry`
and `CheckExpiry` write while they hold the lock and are one step each.
`RequestPut` and `RequestCreate` are the two halves of `Request`. The database
may be down for a while (`StoreBreak`, `StoreHeal`): every error path of these
operations is taken. `Crash` empties the map, as `NewApprovalBridge` does.

Data left out: risk, category, reason texts, the hash of the action; the
subscriber list, which has no user in the server.

### SessionLifecycle (proved: SessionLifecycleProofs)

One session. `session`, `pending` and `runRow` are what the tables hold;
`startPc`, `intPc`, `resPc` are requests, `obsPc` the observer, `shutPc` the
shutdown, and each keeps the session state it read (`seen`, `intSeen`,
`obsState`). Every statement on a table is a step. `UpdateState` is the
compare-and-set, whose "no row matched" no caller looks at. Processes are named
after the `StartRun` call that spawned them; since the run id is derived from
the session id, the adapter's map has one entry, `runs`, and the runs table one
row, `runRow`. `signals` is the bounded channel with its drop; `ProcessExit` may
report no completion, as after a kill. `ParsedCompletion` is an output line of
type "completion", which the Claude parser turns into a completion signal while
the process goes on; `lines` counts them. `StartEmit` may fail, and leaves a run
that is tracked and not observed. `ShutdownBegin` to `ShutdownEnd` are the
drain, its timeout, the marking and the stop; `Crash` is the process killed
anywhere, in the reconciliation too; `ReconcileMark` and `ReconcileResolve` are
the next start. The server passes no reconciler, so recovery answers "failed".

A call of the bridge is one step here; ApprovalBridge takes it apart.
`SubmitPrompt`, output and status signals only append events and are left out.

### EventDelivery, and EventFeed which it implements (proved: EventDeliveryProofs)

The events of one session. `journal[n]` is the event with sequence n. An
emission reads the maximum (`AppendRead`), inserts and commits
(`AppendInsert`), copies the subscribers under the hub's lock
(`PublishSnapshot`) and sends to each (`PublishSend`). A connection says hello
with a cursor, starts buffering, subscribes, replays one page, sends it, flushes
its buffer and goes live (`startBuffering` to `FlushEnd`), while `runWriter`
drains `sendCh` and anything may close it (`Disconnect`, a full channel).
`PublishSend` waits while the client flushes, because both hold `bufMu`.

The external part is SQLite in WAL mode: a deferred transaction that has read a
snapshot cannot become a writer once another one has committed; no busy timeout
helps it, and its INSERT fails. Any statement of the server may be the one that
committed, so `AppendInsert` may always take its second disjunct, and must when
another event was appended.

EventFeed is the promise of journal and gateway together: a log that only grows,
without repetitions, and connections that receive entries of the log under the
sequence they have there. The refinement mapping takes the journal for the log
and the frames written to a socket, looked up in the journal, for what was
received.

### ProcessWrapper (proved: ProcessWrapperProofs)

One process from `Start` to the end of the pump. The operating system has
`child`, `kin` (a descendant that may hold the pipes) and `pipe`; the wrapper has
a reader per stream, `waiter` (waitForExit: drain, wait, close, record), `state`
and `exitCode`; `agent` says whether the Claude or the Codex pump runs on top.
The lock `w.mu` appears where it can be held for long: `writing` is a WriteInput
blocked in the pipe of stdin, which keeps `InterruptKill` and `RecordExit`
waiting. `CancelRuns` and `ContextKill` are the cancelled context and what
os/exec does with it. The pumps differ as in the code: Claude reads both streams,
waits for the exit and drops signals when the channel is full; Codex reads stdout
only, does not wait for the exit code and blocks when the channel is full. A chunk
of Claude output may become a completion ("claim" in `signals`) besides output;
`completion` is the one that reports the exit.

### Permission (proved: PermissionProofs)

A tool request goes from the helper (`helper`, `expired`) through
`handlePermission`, whose steps are the ones between which other goroutines run:
look up the run, park, announce, wait, remove, reply. `DecideApproval` looks the
run up, resolves the parked channel or falls back to stdin. The pump takes the
run out of the map, tears down the permission server and closes the signal
channel in three steps (`PumpDelete`, `cleanupPermission`, `PumpClose`).
`AnnouncePanic` is the send on the closed channel with what `recover` makes of
it; `late` is a history variable, the handlers that parked after the teardown. The
timeouts carry one fact of real time: the handler's five minutes begin
after the helper's five minutes, so the helper has given up when they end.

### Identity (proved: IdentityProofs)

Challenges (`challenge`, `chExpires`) are a map that a restart empties; `device`
and `tokens` are tables. A call (pairing, refresh, authorization, revocation) is
a sequence of statements and keeps the time it read at its start (`now`). A
statement may fail. `ServeHTTP` opens a socket for an authorized call and
`pinger` closes it. `everRevoked` and `late` are history variables.

### Commands (proved: CommandsProofs)

A request is rejected or admitted, looks its key up, is refused or runs, and
records its answer. The five POST handlers have one shape and are one action,
`Run`, with `Refuse` for their checks of key and body. `front` chooses the REST
path or the dispatcher, which differ in what they record: REST records refusals
made inside the handler, the dispatcher does not record the commands it refuses,
and its entries do not expire. `prior` is a history variable: the recordings in
force at the look-up.

### Backup (proved: StorageProofs)

The external part is SQLite in WAL mode: `top` committed transactions, of which
`main` are in car.db, and a log that begins after `base` and whose file has `size`.
`backup` lists the directory and copies file by file while the server commits,
checkpoints, stops, crashes and starts. A copied database file has pages between
the transactions `lo` and `hi`; `Opens` says when a file and a log make a
consistent database. `Seal`, `verify` and restore treat the encryption as what
it gives: an archive opens whole or not at all. A backup that fails or is killed
after its last write leaves a whole archive (`BackupFail`), and a restore that
fails while it copies leaves a truncated file, `Cut` (`RestoreFail`); `complete`
records what was sealed after everything had been read.

### Workspaces (proved: StorageProofs)

`rows` is the table, `workspaces` and `paths` the two maps of the registry, which
a restart empties. `LoadEntry` is one entry of `LoadFromConfig`. `dirs` are the
directories that exist and `Canonical` resolves links; both the configuration and
the directories may change in a restart; which path is a link to which is fixed,
so a directory that is replaced by a link between two starts is not covered.
`CreateSession` and `Insert` are the two
statements of App.CreateSession, `StartRun` takes the directory of a run.
`unchecked` records that a statement ran on a connection without foreign keys.

## 3. Runs

Passing runs.

| Run | Instance | Distinct states | Shows |
|---|---|---|---|
| `approval` | 1 approval, 2 calls, clock 0..4, 2 crashes, 1 outage, `FairSpec` | 471 thousand | `DecidedOnce`, `DurableBeforeTold`, `MemoryMatchesStore`, `ResolvedOnce`, `PendingEnds` |
| `session_safety` | 2 StartRun, 1 interrupt, 1 approval, 1 completion line, 1 restart | 7.1 million | `OneRun`, `JournalOrder`, `StoppedIsMarked`, `ReconciledNotLive` |
| `session_live` | 1 StartRun, 1 interrupt, 1 approval, 1 completion line, `FairSpec` | 126 thousand | `ShutdownEnds`, `ObserverEnds` |
| `delivery` | 2 emissions, 1 connection, page and channel of 1, 1 crash, `FairSpec` | 27 thousand | `NoLossWindow`, `RetainedFirst`, `ImplementsFeed`, `EmitsEnd`, `EventuallyWritten` |
| `process` | both adapters, channels of 1 and 2, 1 chunk in a pipe, 1 interrupt, `FairSpec` | 262 thousand | `OutputBeforeCompletion`, `CompletionIsTrue`, `SilentEndExplained`, `RunEnds`, `KillEnds`, `InterruptEnds` |
| `permission` | 2 requests, `FairSpec` | 154 thousand | `FailClosed`, `AcceptedTakesEffect`, `NobodyStranded`, `NoDecisionAfterEnd`, `HandlersEnd` |
| `identity` | 3 codes, cap of 2, 1 key, 3 calls, clock 0..2, 1 fault, 1 restart, `FairSpec` | 699 thousand | `OneDevicePerCode`, `NoAccessAfterRevoke`, `TokenIsDurable`, `ChallengeKept`, `RevokedSocketCloses` |
| `commands` | 3 requests, 1 key or none, clock 0..2, 1 restart | 129 thousand | `RetryDoesNotRunAgain`, `ReplayIsTheAnswer` |
| `backup` | 3 transactions, 2 backups, 2 restores | 4.5 million | `BackupIsConsistent`, `OnlyCompleteBackups`, `RestoreIsExact` |
| `workspaces` | 2 ids, 3 paths of 2 directories, 4 configurations, 2 restarts, 2 sessions | 589 thousand | `OneIdPerDirectory`, `LookupsAgree`, `SessionKeepsWorkspace` |

The type invariant of every module, and the properties of the first three
modules that the table does not name (`TerminalStays`, `RowNeverReopens`,
`LegalTransitions`, `EndedStays`, `SequenceOwned`, `PublishedIsRecoverable`),
are proved in section 4 and not checked again by a run.

Runs that TLC refutes, each against a sentence of the repository (`findings`):

| Run | What happens |
|---|---|
| `session_completes` | The observer has the session as StartRun read it ("created"), from which "completed" is no legal transition: the session stays "active". |
| `session_resumes` | Nothing moves a session out of "waiting_approval" when its approvals are decided. |

What the properties leave out. They are the strongest statements we found that
the code keeps; where one has an exception, the exception is a behaviour of the
models:

* `DecidedOnce`, `ResolvedOnce`: after a restart two calls may load two copies of
  one pending row, and both decide on their copy.
* `DurableBeforeTold`: in that case both tell the adapter, and the later Update
  overwrites what it was told first. With the original in the map, or one copy,
  the row keeps it.
* `OneRun`: two StartRun requests that read "created" both spawn a process, although
  docs/10-session-lifecycle.md:33 says "At most one run may be active for a
  session"; one gets the run row and is tracked. The observer may then range over
  the channel of the other process, since they share a run id.
* `JournalOrder`, `OutputBeforeCompletion`, `CompletionIsTrue` are about the
  completion that reports the exit. A line in which an agent claims completion
  is forwarded as a completion as well (claude_parser.go:131, claude.go:324),
  before the rest of the output and with the code the line gives, and
  observeAdapter goes on: run.completed is then journaled while the run lasts, and
  again at its end. `JournalOrder` allows one more per such line.
* `EventuallyWritten`: a connection whose replay failed is unsubscribed and stays
  open (hub.go:172-175); it is not told, and gets nothing of the session.
* `NoLossWindow`: `HasMore` is ignored, so what lies beyond the first page (`gap`)
  is skipped and later events are delivered.
* `PublishedIsRecoverable` says nothing of order: two emitters may append in one
  order and publish in the other.
* `EndedStays`, `LegalTransitions`: a run that completes between the drain timeout
  and the unconditional marking is overwritten with "recovering".
* `CompletionIsTrue`: the Codex pump may report 0 for a process that failed,
  because the channel is closed before the exit code is recorded.
* `InterruptEnds` is about Codex runs and Claude runs whose signal failed: an
  interrupt of a Claude run is a SIGINT, which the agent may ignore.
* `AcceptedTakesEffect`: a decision accepted after the helper's deadline is lost.
* `NobodyStranded`: a handler that looked its run up before the pump deleted it and
  parks after the teardown is reached by no decision and no teardown; only its
  timeout ends it, although claude.go:541-543 says "blocks until DecideApproval
  resolves it, the run ends, or it times out".
* `RetryDoesNotRunAgain`: two retries that overlap both run, and so does a retry
  after a restart. Over REST a failure or a refusal is replayed for 24 hours like
  a success.
* `ChallengeKept`: at the cap all usable challenges are dropped together, and the
  property says so; the comment at service.go:112 says "Hard cap: drop the oldest
  challenge".
* `BackupIsConsistent`: a log that is restarted, deleted or created while the files
  are copied makes a backup that does not open, without an error; `verify`
  accepts it.
* `OnlyCompleteBackups` is about files that are whole: a restore that fails leaves
  truncated ones, and a backup that failed after its last write has left an
  archive that restore accepts.
* `RestoreIsExact`: an archive without a log, restored over a directory that has
  one, leaves that log beside the restored database.
* `SessionKeepsWorkspace`: a statement that runs on a connection without foreign
  keys can remove the workspace of a session; its next run then starts in the
  directory of the server.
* `LookupsAgree` is about map and table: an id that is in the table is passed over
  when the configuration is loaded, also when its path or its adapters have
  changed there.

Also without a property: a row left pending by a crash is in no map, and the
sweep reads the map only; a client closed between its hello and its subscription
stays in the subscriber map; an append transaction
fails when anything was committed since it read, and most callers of `emitEvent`
drop the error; a pairing that fails, for
a key that is known already for instance, has consumed its code;
ResolveApproval clears pending_approval_id whichever approval it names by then.

Bounds. One approval and two calls give every race of `Decide` with itself and
the sweep across an incarnation; with two crashes a decision of the first
incarnation meets copies loaded in the second and third. Requests and extensions
are only made while they can still expire before `MaxTime`, without which
`PendingEnds` would fail for want of time. Capacities and caps (`DecisionCap`,
`SignalCap`, `ChanCap`, `SendBuffer`, `PageLimit`, `MaxChallenges`) are small so
that they are reached. Two StartRun requests are enough for every race on the
session row; one restart follows every prefix of a run; one completion line
(`MaxLines`) can come before, between and after every other signal. Two
emissions overtake each other, conflict, and overflow a page and a channel; the
proofs of section 4 cover larger instances. Connections share nothing but
`subs`, so one stands for all. A pipe that holds one chunk is filled again and
again, so a channel of one overflows. Two requests are one that is answered and
one that meets the teardown; requests share only the run. Three calls are a
pairing, a revocation and an authorization, or two pairings of one code with
what follows; with one key every pair of calls is about one device. Three
requests are an attempt, an overlapping one and a retry of both. Three
transactions are one before, one during and one after a checkpoint, and a second
backup meets the archive of the first. Two restarts undo and redo a change of
the configuration. Symmetry is used in `session_safety` only, over the StartRun
requests. Deadlock is not checked: in every instance the bounded requests are
used up and the system may rest.

Fairness. Weak fairness of a step means that a goroutine that can run is run. It
is assumed for requests that have begun, the observer, the pump, the readers, the
waiter, the shutdown, emissions, connection handlers and writers (a write ends by
its deadline), permission handlers and their timers, the sweep and
the pinger (tickers), and the clock of the approval bridge; for
`StoreHeal`, that an outage ends; for `ContextKill`, that os/exec kills the process
of a cancelled context; for `WriteBroken`, that a write to a pipe without readers
returns; for `Consume` of a Codex run, that its signals are read. `PumpCancelled`
has fairness of its own: the select of Go chooses at random, so a cancelled
context does not lose for ever. The timeouts of the drain make `DrainTimeout` part
of the shutdown's progress. Nothing is assumed of agents, devices and operators:
processes and their descendants may run for ever and never read their stdin, and
nobody needs to decide, connect or shut down.

## 4. Proofs

Every safety invariant and every action property of the passing runs, the type
invariant of every module and the refinement are theorems, for every value of
the constants. All proofs have one form: an inductive invariant `IInv`, a
conjunction of named parts that was checked by TLC on the run's instance before
it was proved; a lemma per action (`...Step`) or, where few actions matter to a
part, per part; `NextInv` or an `Invariance` lemma that puts them together; and
theorems that follow from the invariant. `tlapm <module>.tla` checks a module
of proofs.

| Module | Assumes of the constants | Theorems, and the property they state |
|---|---|---|
| `ApprovalBridgeProofs` | `ApprovalNames`, `ApprovalBounds` | `DecidedOnce`, `DurableBeforeTold`, `MemoryMatchesStore`, `ResolvedOnce`, `TerminalStays`, `RowNeverReopens` |
| `SessionLifecycleProofs` | `SessionNames` | `LegalTransitions`, `EndedStays`, `OneRun`, `StoppedIsMarked`, `ReconciledNotLive`, `JournalOrder` |
| `EventDeliveryProofs` | `DeliveryBounds` | `SequenceOwned`, `PublishedIsRecoverable`, `NoLossWindow`, `RetainedFirst`, `FeedRefinement` |
| `ProcessWrapperProofs` | `ProcessBounds` | `OutputBeforeCompletion`, `CompletionIsTrue`, `SilentEndExplained` |
| `PermissionProofs` | nothing | `FailClosed`, `AcceptedTakesEffect`, `NobodyStranded`, `NoDecisionAfterEnd` |
| `IdentityProofs` | `IdentityNames`, `IdentityBounds` | `OneDevicePerCode`, `NoAccessAfterRevoke`, `TokenIsDurable`, `ChallengeKept` |
| `CommandsProofs` | `CommandNames`, `CommandBounds`, `EntryNames` | `RetryDoesNotRunAgain`, `ReplayIsTheAnswer` |
| `StorageProofs` | `WorkspaceNames`, `WorkspaceBounds`; `BackupBounds`, `BackupNames` | `OneIdPerDirectory`, `LookupsAgree`, `SessionKeepsWorkspace`; `BackupIsConsistent`, `OnlyCompleteBackups`, `RestoreIsExact` |

The assumptions on names say that ids, calls and null values are different
values; the ones on bounds that a bound is a natural number and that a
channel, a page, a lifetime or a cap that the code requires to be positive is.
`WorkspaceNames` says in addition that resolving links twice changes nothing.

### ApprovalBridge

None of the properties is inductive. `DurableBeforeTold`, for instance, could be
broken by a later call that loads the row and writes its own decision. The
invariant `IInv` rules that out: while the original object is in the map every call on the
approval works on it (`LiveOriginal`, `LiveHeld`), at most one of them wins it
(`OneWinner`) and its decision is what the object says (`HeldState`); once the
winner has persisted, the row has that decision (`PersistedRow`), so a copy
loaded by a later incarnation is terminal and is not decided on
(`PersistedCopy`). A decision on a copy stays in the row as long as no other call
decides on one (`CopiedRow`), because nobody but a call with a copy of its own then
writes the row (`CopyRowKept`). `CallShape`, `RequestShape` and `MapShape` tie the program
counters to the pointers, and `PendingRow` says that a pending original has no
recorded outcome, which is what `ExtendExpiry` needs to write "pending".
`TerminalStays` needs that only pending objects are written, `RowNeverReopens`
needs `HeldState` and `PendingRow`.

`MemoryMatchesStore` rests on `StoreAgrees`: a step that changes a live object
leaves its call on the way to the Update, and by `OneWinner` no two calls owe
one, so the Update that comes brings the row to what the object says.
`ResolvedOnce` rests on `ResolvedShape`: once approval.resolved is journaled the
object is terminal, and whoever else reached the journaling step would have had
to win the same object (or a copy, which the property leaves out).

### SessionLifecycle

A request checks the state it read and updates the row only if it
still has that state, so its update is a step of the table (`Reads`, then
`SessionMoves`, which says for every step how the stored state may change). The
observer checks at the moment it updates. `Owner` says that only the call whose
row is stored is past `CreateRun` or tracked; it is inductive because the row is
written once. `StoppedIsMarked` needs that the observer, still running after the
last reading of the sessions, cannot bring a session back: the table leads back
into progress only from "resumable", which nothing writes, and from "recovering"
to "active", which no caller asks for (`Moves`, `NotRevived`). `ReconciledNotLive`
needs that a new incarnation starts with no request and no observer of the
earlier one (`Quiet`) and that none starts a session that ended (`Reconciled`).
`JournalOrder` counts: the completions journaled, taken by the observer and waiting
in its channel are never more than the claimed ones (`lines`) and one for the
exit, which a process that still runs has yet to produce (`Channels` for every
process, `Reported` for the journal); the observer exists
only after run.started. That the observer is on the channel of the run unless
two processes were spawned is `Spawned`: a request that reached the observer's
launch spawned a process of its own, and the adapter's map names a process
that was spawned.

### EventDelivery

An insert is only possible when nothing was appended since the
emission read the maximum (`FreshUntilInsert`), so the sequence it computed is the
next one; with `PublishedHasSequence` this makes `SequenceOwned` inductive
(`Numbered`). Every frame of a page, a buffer, a channel or a socket is a
sequence of the journal (`Recoverable`). `NoLossWindow` is inductive given the
types: the subscription precedes the replay, so an event
appended after the page was read finds the connection among the subscribers when
its emission copies them, and before that it is on the way. `RetainedFirst` needs
that nothing is queued before the page (`QuietBeforeReplay`), that live frames
stay in the buffer until the flush (`KeptBack`) and that the page is contiguous
(`Contiguous`). For the refinement every step appends an event that the journal does not
have, writes one frame of the journal to one socket, or changes neither
(`FeedStepMapped`).

### ProcessWrapper

The argument is the order that `waitForExit` imposes. `ReaderShape`: a reader is
done only when its pipe is empty and nobody can write to it. `WaiterShape`: the
waiter passes its drain only when both readers are done, and closes the channels
after it reaped. `PumpShape`: the pump has left a stream only if its channel is
closed and empty, which with the two others is `OutputBeforeCompletion`.
`StatusShape` and `CodeShape` carry the status of the child through `cmd.Wait`
and `RecordExit` to the code the pump reads, and say where it may get lost (a kill
before, a cancelled context); `CompletionShape` carries it into the completion.
`NotStarted` covers the time before `Start`.

### Permission

`ParkedShape` says who is in the parked map and that a waiting handler is in it
or has its answer; `AnnouncedShape`, that a request is parked before anybody can
decide it; `late` tells the waiting handlers that the teardown missed from those it still
reaches; `OutcomeShape`, that an accepted decision is in the channel and that
an approval comes from nowhere else; `VerdictRight`, that the handler's verdict is
what was in the channel, or a deny that no decision contradicts.
`NoDecisionAfterEnd` needs `LateDecision`: a `DecideApproval` that looked the run
up before the teardown finds the map empty after it.

### Identity

`OneDevicePerCode` is inductive with `CodeSpent`: a consumed code was generated,
is not open, and no code is generated twice. `NoAccessAfterRevoke` needs that a
stored revocation stays (`RevokedStays`: pairing again does not revive the
device), and `LateShape`, that a late authorization works on a revoked device.
`TokenIsDurable` needs that a call works with a time that is not ahead of the
clock (`CallShape`), so that a slow call prunes nothing that is still valid.
`ChallengeKept` counts: `Capped`, with facts about finite cardinalities, shows
that an eviction at the cap takes a usable challenge only if all are usable.

### Commands

`Covered` is the heart: a recording in force is covered by an entry under its key
that falls due no earlier, also when another recording has replaced it, because
the clock does not go back. So a look-up after a recording hits (`HitIsFinal`), and
`StoredBy` and `PriorAnswered` say whose answer it is sent.

### Workspaces and Backup

Workspaces: only resolved directories reach the table (`CanonicalRows`), so
that the UNIQUE constraint of the path column (`UniquePaths`) is unique up to
links; the maps hold only what the table holds (`MapsAgree`). `SessionKeepsWorkspace`
is inductive with `SessionShape`, through the foreign key of the sessions.

Backup is proved beside it, from its own specification `BackupSpec` and
invariant `BackupInv`: the two models share nothing but the module of proofs, and
Backup's names (`BackupInit`, `BackupNext`, `BackupTypeOK`) differ for that
reason. `Copied` is the
heart: as long as the log is not disturbed, the pages read so far are no older
than its beginning and no newer than its end, so the copy opens and has every
transaction of the backup's beginning. `BackupShape` says that nothing is sealed
before everything is gathered, and `RestoreShape` that restore writes files of a
sealed archive, one after the other.

### Only model-checked

`PendingEnds`, `ShutdownEnds`, `ObserverEnds`, `EmitsEnd`, `EventuallyWritten`, `RunEnds`,
`KillEnds`, `InterruptEnds`, `HandlersEnd` and `RevokedSocketCloses` are liveness
under fairness, for which the provers have no rules, and stay with TLC. The
two refuted properties are counterexamples and need no proof.

## 5. Not modelled

* The Android client: a program of its own in Kotlin, whose collectors are in
  the screens. A model of it should look at frames handled by concurrent
  coroutines (CarWsClient.kt:168), a closed socket that is never reconnected
  (CarWsClient.kt:133) and cursors persisted out of order
  (HybridCursorStore.kt:66), composed with EventFeed.
* The session projection and the plugin registry: nothing in the server uses
  them. Of what is modelled, the dispatcher, `RefreshToken`,
  `Registry.Unregister` and `Registry.Register` other than from `LoadFromConfig`
  have no caller in the server either, so the races of `Unregister` with a
  session cannot occur there; they are modelled because they are finished and
  guard against the hazards of the code that is used. `PurgeExpired` has no
  caller, so the resync branch of replay is not reached.
* The patterns of the parser of agent output; which signals a line can become is
  in the models.
* Configuration, error catalog, observability, audit records, the SDK and the
  Android screens: strings, tables, formatting or I/O without protocol.
* `SubmitPrompt`, run.output and handleStatusChange only append to the journal.
* Database failures are modelled in ApprovalBridge, Identity and, for appends
  and replays, in EventDelivery; SessionLifecycle assumes that its statements
  succeed, the append of run.started apart. Its reconciliation and marking leave
  out the branches that log a failed statement and go on with the next session.
* Two writers on one socket (pinger and writer): a matter of the WebSocket
  library, frames are atomic here.

## 6. Plan

1. ApprovalBridge, SessionLifecycle, EventDelivery with EventFeed, ProcessWrapper,
   Permission, Identity, Commands, Backup, Workspaces: modelled and checked.
2. The type invariants, all safety invariants, the action properties and the
   refinement: proved.
3. Next: abstract specifications of further components and their refinement, as
   EventFeed is for delivery. Candidates are the permission bridge (a request is
   asked, and answered once) and the approval bridge (an approval is pending, and
   then has one recorded outcome).
