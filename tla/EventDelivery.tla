--------------------------- MODULE EventDelivery ---------------------------
(***************************************************************************)
(* The events of one session, from the goroutine that emits them to the    *)
(* socket: the journal (internal/storage/cursor_repository.go), the hub    *)
(* and its clients (internal/ws), and emitEvent (internal/app), which      *)
(* joins them.                                                             *)
(*                                                                         *)
(* Each event is emitted by a goroutine of its own: the observer of a run, *)
(* and the handlers of requests.  A frame is the sequence of the event it  *)
(* carries.                                                                *)
(***************************************************************************)
EXTENDS Naturals, Sequences, FiniteSets

CONSTANTS
    Events,       \* emissions
    Conns,        \* WebSocket connections, each used once
    PageLimit,    \* replayLimit (100)
    SendBuffer,   \* capacity of sendCh (256)
    MaxCrashes    \* bound: crashes of the server

ASSUME DeliveryBounds ==
    PageLimit \in Nat \ {0} /\ SendBuffer \in Nat \ {0} /\ MaxCrashes \in Nat

VARIABLES
    journal,    \* events table: journal[n] is the event with sequence n
    emitPc,     \* progress of emitEvent
    maxSeen,    \* MAX(sequence), as the transaction read it
    seq,        \* ev.Sequence; 0 before it is assigned
    targets,    \* Publish's snapshot: the connections still to be sent to
    subs,       \* subsBySession[session]
    connPc,     \* progress of the connection's handler
    after,      \* the cursor in its hello
    open,       \* connections whose closed channel is open
    buffering,
    buffer,
    sendCh,
    page,       \* retained events still to be sent
    gap,        \* sequences that were retained but not on the page
    written,    \* frames written to the socket
    crashes

emitVars == <<emitPc, maxSeen, seq, targets>>
connVars == <<connPc, after, buffering, page, gap>>
vars == <<journal, emitVars, subs, connVars, open, buffer, sendCh, written, crashes>>

Init ==
    /\ journal = <<>>
    /\ emitPc = [e \in Events |-> "idle"]
    /\ maxSeen = [e \in Events |-> 0]
    /\ seq = [e \in Events |-> 0]
    /\ targets = [e \in Events |-> {}]
    /\ subs = {}
    /\ connPc = [c \in Conns |-> "none"]
    /\ after = [c \in Conns |-> 0]
    /\ open = {}
    /\ buffering = {}
    /\ buffer = [c \in Conns |-> <<>>]
    /\ sendCh = [c \in Conns |-> <<>>]
    /\ page = [c \in Conns |-> <<>>]
    /\ gap = [c \in Conns |-> {}]
    /\ written = [c \in Conns |-> <<>>]
    /\ crashes = 0

HasRoom(c) == Len(sendCh[c]) < SendBuffer
Push(c, n) == sendCh' = [sendCh EXCEPT ![c] = Append(@, n)]

\* markSlow and close: the closed channel is closed and, once per client,
\* onClose unsubscribes it.
close(c) ==
    /\ open' = open \ {c}
    /\ subs' = subs \ {c}

-----------------------------------------------------------------------------
(* emitEvent.                                                              *)

\* Append opens a deferred transaction with SELECT MAX(sequence).
AppendRead(e) ==
    /\ emitPc[e] = "idle"
    /\ emitPc' = [emitPc EXCEPT ![e] = "insert"]
    /\ maxSeen' = [maxSeen EXCEPT ![e] = Len(journal)]
    /\ UNCHANGED <<journal, seq, targets, subs, connVars, open, buffer, sendCh,
                   written, crashes>>

\* Mutant: INSERT OR REPLACE.
AppendInsertReplace(e) ==
    /\ emitPc[e] = "insert"
    /\ seq' = [seq EXCEPT ![e] = maxSeen[e] + 1]
    /\ emitPc' = [emitPc EXCEPT ![e] = "snapshot"]
    /\ journal' = IF maxSeen[e] = Len(journal)
                    THEN Append(journal, e) ELSE [journal EXCEPT ![maxSeen[e] + 1] = e]
    /\ UNCHANGED <<maxSeen, targets, subs, connVars, open, buffer, sendCh, written,
                   crashes>>

\* INSERT and COMMIT. A transaction whose read snapshot is no longer the last
\* one cannot become a writer: the INSERT fails, emitEvent returns the error
\* and the event is gone. An append to this journal makes the snapshot old, and
\* so may any commit to another session's journal or another table.
AppendInsert(e) ==
    /\ emitPc[e] = "insert"
    /\ \/ /\ maxSeen[e] = Len(journal)
          /\ seq' = [seq EXCEPT ![e] = maxSeen[e] + 1]
          /\ journal' = Append(journal, e)
          /\ emitPc' = [emitPc EXCEPT ![e] = "snapshot"]
       \/ /\ emitPc' = [emitPc EXCEPT ![e] = "lost"]
          /\ UNCHANGED <<seq, journal>>
    /\ UNCHANGED <<maxSeen, targets, subs, connVars, open, buffer, sendCh, written,
                   crashes>>

\* Publish: the subscribers are copied under the lock.
PublishSnapshot(e) ==
    /\ emitPc[e] = "snapshot"
    /\ targets' = [targets EXCEPT ![e] = subs]
    /\ emitPc' = [emitPc EXCEPT ![e] = "send"]
    /\ UNCHANGED <<journal, maxSeen, seq, subs, connVars, open, buffer, sendCh,
                   written, crashes>>

\* Mutant: send does not look at the replay buffer.
PublishSendUnbuffered(e, c) ==
    /\ emitPc[e] = "send"
    /\ c \in targets[e]
    /\ targets' = [targets EXCEPT ![e] = @ \ {c}]
    /\ \/ /\ c \in open /\ HasRoom(c)
          /\ Push(c, seq[e])
          /\ UNCHANGED <<open, subs>>
       \/ /\ c \in open /\ ~ HasRoom(c)
          /\ close(c)
          /\ UNCHANGED sendCh
       \/ /\ c \notin open
          /\ UNCHANGED <<open, subs, sendCh>>
    /\ UNCHANGED <<journal, emitPc, maxSeen, seq, connVars, buffer, written, crashes>>

\* Mutant: a blocking send that does not watch the closed channel.
PublishSendBlocking(e, c) ==
    /\ emitPc[e] = "send"
    /\ c \in targets[e]
    /\ HasRoom(c)
    /\ connPc[c] # "flush"
    /\ targets' = [targets EXCEPT ![e] = @ \ {c}]
    /\ \/ /\ c \in buffering
          /\ buffer' = [buffer EXCEPT ![c] = Append(@, seq[e])]
          /\ UNCHANGED sendCh
       \/ /\ c \notin buffering
          /\ Push(c, seq[e])
          /\ UNCHANGED buffer
    /\ UNCHANGED <<journal, emitPc, maxSeen, seq, subs, connVars, open, written,
                   crashes>>

\* client.send: dropped when closed, kept back while the client is replaying,
\* else a non-blocking send; a full channel closes the client. bufMu is held
\* while the handler flushes.
PublishSend(e, c) ==
    /\ emitPc[e] = "send"
    /\ c \in targets[e]
    /\ connPc[c] # "flush"
    /\ targets' = [targets EXCEPT ![e] = @ \ {c}]
    /\ \/ /\ c \notin open
          /\ UNCHANGED <<open, subs, buffer, sendCh>>
       \/ /\ c \in open /\ c \in buffering
          /\ buffer' = [buffer EXCEPT ![c] = Append(@, seq[e])]
          /\ UNCHANGED <<open, subs, sendCh>>
       \/ /\ c \in open /\ c \notin buffering /\ HasRoom(c)
          /\ Push(c, seq[e])
          /\ UNCHANGED <<open, subs, buffer>>
       \/ /\ c \in open /\ c \notin buffering /\ ~ HasRoom(c)
          /\ close(c)
          /\ UNCHANGED <<buffer, sendCh>>
    /\ UNCHANGED <<journal, emitPc, maxSeen, seq, connVars, written, crashes>>

PublishEnd(e) ==
    /\ emitPc[e] = "send"
    /\ targets[e] = {}
    /\ emitPc' = [emitPc EXCEPT ![e] = "done"]
    /\ UNCHANGED <<journal, maxSeen, seq, targets, subs, connVars, open, buffer,
                   sendCh, written, crashes>>

emitEvent(e) ==
    \/ AppendInsert(e)
    \/ PublishSnapshot(e)
    \/ \E c \in Conns : PublishSend(e, c)
    \/ PublishEnd(e)

-----------------------------------------------------------------------------
(* The handler of a connection: hello, then replayAndSubscribe.            *)

\* The device sends any cursor it can have reached.
Hello(c) ==
    /\ connPc[c] = "none"
    /\ connPc' = [connPc EXCEPT ![c] = "hello"]
    /\ \E n \in 0 .. Len(journal) : after' = [after EXCEPT ![c] = n]
    /\ open' = open \cup {c}
    /\ UNCHANGED <<journal, emitVars, subs, buffering, page, gap, buffer, sendCh,
                   written, crashes>>

startBuffering(c) ==
    /\ connPc[c] = "hello"
    /\ connPc' = [connPc EXCEPT ![c] = "subscribe"]
    /\ buffering' = buffering \cup {c}
    /\ buffer' = [buffer EXCEPT ![c] = <<>>]
    /\ UNCHANGED <<journal, emitVars, subs, after, page, gap, open, sendCh, written,
                   crashes>>

\* Mutant: subscribed when the replay is over.
subscribeLate(c) ==
    /\ \/ /\ connPc[c] = "subscribe"
          /\ UNCHANGED subs
       \/ /\ connPc[c] = "live"
          /\ subs' = subs \cup {c}
    /\ connPc' = [connPc EXCEPT ![c] = IF @ = "live" THEN "live" ELSE "replay"]
    /\ UNCHANGED <<journal, emitVars, after, buffering, page, gap, open, buffer,
                   sendCh, written, crashes>>

\* subscribe looks neither at closed nor at an earlier unsubscribe.
subscribe(c) ==
    /\ connPc[c] = "subscribe"
    /\ connPc' = [connPc EXCEPT ![c] = "replay"]
    /\ subs' = subs \cup {c}
    /\ UNCHANGED <<journal, emitVars, after, buffering, page, gap, open, buffer,
                   sendCh, written, crashes>>

\* The first page after the cursor, in order. has_more is ignored: what a
\* longer journal holds beyond the page is the gap.
Replay(c) ==
    LET upto == IF after[c] + PageLimit < Len(journal)
                  THEN after[c] + PageLimit ELSE Len(journal)
    IN
    /\ connPc[c] = "replay"
    /\ connPc' = [connPc EXCEPT ![c] = "direct"]
    /\ page' = [page EXCEPT ![c] = [i \in 1 .. upto - after[c] |-> after[c] + i]]
    /\ gap' = [gap EXCEPT ![c] = upto + 1 .. Len(journal)]
    /\ UNCHANGED <<journal, emitVars, subs, after, buffering, open, buffer, sendCh,
                   written, crashes>>

\* A query fails: the session is left out, and the client is not told.
ReplayError(c) ==
    /\ connPc[c] = "replay"
    /\ connPc' = [connPc EXCEPT ![c] = "direct"]
    /\ subs' = subs \ {c}
    /\ UNCHANGED <<journal, emitVars, after, buffering, page, gap, open, buffer,
                   sendCh, written, crashes>>

sendDirect(c) ==
    /\ connPc[c] = "direct"
    /\ page[c] # <<>>
    /\ page' = [page EXCEPT ![c] = Tail(@)]
    /\ \/ /\ c \notin open
          /\ UNCHANGED <<open, subs, sendCh>>
       \/ /\ c \in open /\ HasRoom(c)
          /\ Push(c, Head(page[c]))
          /\ UNCHANGED <<open, subs>>
       \/ /\ c \in open /\ ~ HasRoom(c)
          /\ close(c)
          /\ UNCHANGED sendCh
    /\ UNCHANGED <<journal, emitVars, connPc, after, buffering, gap, buffer, written,
                   crashes>>

\* flushAndStopBuffering takes bufMu, sends what was kept back, frame by frame
\* while the writer goes on, and stops buffering.
FlushBegin(c) ==
    /\ connPc[c] = "direct"
    /\ page[c] = <<>>
    /\ connPc' = [connPc EXCEPT ![c] = "flush"]
    /\ UNCHANGED <<journal, emitVars, subs, after, buffering, page, gap, open, buffer,
                   sendCh, written, crashes>>

FlushOne(c) ==
    /\ connPc[c] = "flush"
    /\ buffer[c] # <<>>
    /\ \/ /\ HasRoom(c)
          /\ Push(c, Head(buffer[c]))
          /\ buffer' = [buffer EXCEPT ![c] = Tail(@)]
          /\ UNCHANGED <<open, subs>>
       \/ /\ c \notin open
          /\ buffer' = [buffer EXCEPT ![c] = <<>>]
          /\ UNCHANGED <<open, subs, sendCh>>
       \/ /\ c \in open /\ ~ HasRoom(c)
          /\ close(c)
          /\ buffer' = [buffer EXCEPT ![c] = Tail(@)]
          /\ UNCHANGED sendCh
    /\ UNCHANGED <<journal, emitVars, connVars, written, crashes>>

FlushEnd(c) ==
    /\ connPc[c] = "flush"
    /\ buffer[c] = <<>>
    /\ connPc' = [connPc EXCEPT ![c] = "live"]
    /\ buffering' = buffering \ {c}
    /\ UNCHANGED <<journal, emitVars, subs, after, page, gap, open, buffer, sendCh,
                   written, crashes>>

replayAndSubscribe(c) ==
    \/ startBuffering(c)
    \/ subscribe(c)
    \/ Replay(c)
    \/ ReplayError(c)
    \/ sendDirect(c)
    \/ FlushBegin(c)
    \/ FlushOne(c)
    \/ FlushEnd(c)

\* runWriter. Between the close and its return it may still write a frame.
runWriter(c) ==
    /\ sendCh[c] # <<>>
    /\ written' = [written EXCEPT ![c] = Append(@, Head(sendCh[c]))]
    /\ sendCh' = [sendCh EXCEPT ![c] = Tail(@)]
    /\ UNCHANGED <<journal, emitVars, subs, connVars, open, buffer, crashes>>

\* The peer is gone, a write misses its deadline, or the token is revoked: the
\* reader, the writer or the pinger closes the client.
Disconnect(c) ==
    /\ c \in open
    /\ close(c)
    /\ UNCHANGED <<journal, emitVars, connVars, buffer, sendCh, written, crashes>>

\* Only the journal survives the process.
Crash ==
    /\ crashes < MaxCrashes
    /\ crashes' = crashes + 1
    /\ emitPc' = [e \in Events |-> IF emitPc[e] \in {"idle", "done", "lost"}
                                     THEN emitPc[e] ELSE "dead"]
    /\ connPc' = [c \in Conns |-> IF connPc[c] = "none" THEN "none" ELSE "dead"]
    /\ targets' = [e \in Events |-> {}]
    /\ subs' = {}
    /\ open' = {}
    /\ buffering' = {}
    /\ buffer' = [c \in Conns |-> <<>>]
    /\ sendCh' = [c \in Conns |-> <<>>]
    /\ page' = [c \in Conns |-> <<>>]
    /\ UNCHANGED <<journal, maxSeen, seq, after, gap, written>>

Next ==
    \/ \E e \in Events : AppendRead(e) \/ emitEvent(e)
    \/ \E c \in Conns : \/ Hello(c)
                        \/ replayAndSubscribe(c)
                        \/ runWriter(c)
                        \/ Disconnect(c)
    \/ Crash

Spec == Init /\ [][Next]_vars

\* Goroutines that can run do; a write ends, by its deadline at the latest.
\* Nobody owes an event or a connection.
Fairness ==
    /\ \A e \in Events : WF_vars(emitEvent(e))
    /\ \A c \in Conns : WF_vars(replayAndSubscribe(c))
    /\ \A c \in Conns : WF_vars(c \in open /\ runWriter(c))

FairSpec == Spec /\ Fairness

-----------------------------------------------------------------------------
(* Properties.                                                             *)

FramesOf(s) == {s[i] : i \in 1 .. Len(s)}

TypeOK ==
    /\ journal \in Seq(Events)
    /\ emitPc \in [Events -> {"idle", "insert", "snapshot", "send", "done", "lost", "dead"}]
    /\ maxSeen \in [Events -> Nat]
    /\ seq \in [Events -> Nat]
    /\ targets \in [Events -> SUBSET Conns]
    /\ subs \subseteq Conns
    /\ connPc \in [Conns -> {"none", "hello", "subscribe", "replay", "direct", "flush",
                             "live", "dead"}]
    /\ after \in [Conns -> Nat]
    /\ open \subseteq Conns
    /\ buffering \subseteq Conns
    /\ buffer \in [Conns -> Seq(Nat)]
    /\ sendCh \in [Conns -> Seq(Nat)]
    /\ page \in [Conns -> Seq(Nat)]
    /\ gap \in [Conns -> SUBSET Nat]
    /\ written \in [Conns -> Seq(Nat)]
    /\ crashes \in Nat

\* Concurrent appends never give two events one sequence or leave a hole
\* (cursor_repository.go, Append).
SequenceOwned ==
    \A e \in Events : seq[e] # 0 => seq[e] \in 1 .. Len(journal) /\ journal[seq[e]] = e

\* A client that receives an event can recover it: whatever is on its way to a
\* socket is in the journal (app.go, emitEvent persists before it publishes).
PublishedIsRecoverable ==
    \A c \in Conns :
        FramesOf(written[c]) \cup FramesOf(sendCh[c]) \cup FramesOf(buffer[c])
            \subseteq 1 .. Len(journal)

\* Emissions that will still reach the client.
OnTheWay(c) ==
    {seq[e] : e \in {d \in Events : \/ emitPc[d] = "snapshot"
                                    \/ emitPc[d] = "send" /\ c \in targets[d]}}

Held(c) ==
    FramesOf(written[c]) \cup FramesOf(sendCh[c]) \cup FramesOf(page[c])
        \cup FramesOf(buffer[c]) \cup OnTheWay(c)

Replayed(c) == c \in open /\ c \in subs /\ connPc[c] \in {"direct", "flush", "live"}

\* The hand-over from replay to live delivery loses nothing: every event after
\* the cursor has been written, is queued, or is about to be published to the
\* client, whichever way appends, snapshots, the subscription and the replay
\* interleave (hub.go, replayAndSubscribe). Only what the first page left out
\* is missing.
NoLossWindow ==
    \A c \in Conns : Replayed(c) =>
        \A n \in 1 .. Len(journal) : after[c] < n /\ n \notin gap[c] => n \in Held(c)

\* The retained events come first, in order and without a hole; what was
\* published during the replay comes after them (client.go, startBuffering).
RetainedFirst ==
    \A c \in Conns :
        LET frames == written[c] \o sendCh[c] IN
        connPc[c] = "direct" => \A i \in 1 .. Len(frames) : frames[i] = after[c] + i

\* What reaches the clients is an append-only log, read in any order.
Feed == INSTANCE EventFeed WITH
            log <- journal,
            received <- [c \in Conns |-> {<<n, journal[n]>> : n \in FramesOf(written[c])}]

ImplementsFeed == Feed!FeedSpec

\* An emission ends, however slow or dead its subscribers are.
EmitsEnd ==
    \A e \in Events : emitPc[e] = "insert" ~> emitPc[e] \in {"done", "lost", "dead"}

\* A connection that stays open and whose replay succeeded gets every event after
\* its cursor, but for the gap. One whose replay query failed is unsubscribed and
\* left open (hub.go:172-175): it is not told, and gets nothing of this session.
EventuallyWritten ==
    \A c \in Conns : \A n \in 1 .. Cardinality(Events) :
        (Replayed(c) /\ after[c] < n /\ n <= Len(journal) /\ n \notin gap[c])
            ~> (n \in FramesOf(written[c]) \/ c \notin open)
=============================================================================
