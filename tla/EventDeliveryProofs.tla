------------------------ MODULE EventDeliveryProofs ------------------------
(***************************************************************************)
(* The delivery of events for any number of emissions, connections and     *)
(* crashes, any page size and any channel capacity.  An event gets its     *)
(* sequence when it is committed, so every frame names a committed event;  *)
(* a subscription precedes the replay query, so an event is on the page or *)
(* its publication sees the subscription.                                  *)
(***************************************************************************)
EXTENDS EventDelivery, TLAPS

-----------------------------------------------------------------------------
(* Frames of a sequence.                                                   *)

\* Nothing is in an empty channel.
LEMMA FramesEmpty == FramesOf(<<>>) = {}
  BY DEF FramesOf

\* A send adds one frame.
LEMMA FramesAppend ==
  ASSUME NEW s \in Seq(Nat), NEW n \in Nat
  PROVE  FramesOf(Append(s, n)) = FramesOf(s) \cup {n}
  BY DEF FramesOf

\* A receive takes one frame and leaves the others.
LEMMA FramesHead ==
  ASSUME NEW s \in Seq(Nat), s # <<>>
  PROVE  /\ Head(s) \in Nat
         /\ Tail(s) \in Seq(Nat)
         /\ FramesOf(s) = FramesOf(Tail(s)) \cup {Head(s)}
  <1>1. /\ Len(s) \in Nat \ {0}
        /\ Len(Tail(s)) = Len(s) - 1
        /\ Tail(s) \in Seq(Nat)
        /\ Head(s) = s[1]
        /\ \A i \in 1 .. Len(s) - 1 : Tail(s)[i] = s[i + 1]
    OBVIOUS
  <1>2. FramesOf(Tail(s)) \cup {Head(s)} \subseteq FramesOf(s)
    BY <1>1 DEF FramesOf
  <1>3. ASSUME NEW i \in 1 .. Len(s)
        PROVE  s[i] \in FramesOf(Tail(s)) \cup {Head(s)}
    <2>1. CASE i = 1
      BY <1>1, <2>1
    <2>2. CASE i # 1
      <3>1. i - 1 \in 1 .. Len(Tail(s)) /\ Tail(s)[i - 1] = s[i]
        BY <1>1, <2>2
      <3>2. QED
        BY <3>1 DEF FramesOf
    <2>3. QED
      BY <2>1, <2>2
  <1>4. QED
    BY <1>1, <1>2, <1>3 DEF FramesOf

-----------------------------------------------------------------------------
(* Types.                                                                  *)

\* A cursor is at most the last sequence.
CursorInJournal == \A c \in Conns : after[c] <= Len(journal)

Typed == TypeOK /\ CursorInJournal

\* Replacing the sequence of one connection keeps the type.
LEMMA QueueTyped ==
  ASSUME NEW f \in [Conns -> Seq(Nat)], NEW c \in Conns, NEW s \in Seq(Nat)
  PROVE  [f EXCEPT ![c] = s] \in [Conns -> Seq(Nat)]
  OBVIOUS

\* A send keeps the type of the channels.
LEMMA PushTyped ==
  ASSUME TypeOK, NEW c \in Conns, NEW n \in Nat, Push(c, n)
  PROVE  sendCh' \in [Conns -> Seq(Nat)]
  BY QueueTyped DEF TypeOK, Push

\* The types hold when the server starts with an empty journal.
LEMMA InitTyped == Init => Typed
  BY DEF Init, Typed, TypeOK, CursorInJournal

\* Every step of emitEvent, of a connection and of a crash keeps the types.
LEMMA TypedStep == Typed /\ [Next]_vars => Typed'
  <1> SUFFICES ASSUME Typed, [Next]_vars
               PROVE  Typed'
    OBVIOUS
  <1> USE DeliveryBounds
  <1>1. ASSUME NEW e \in Events, AppendRead(e)
        PROVE  Typed'
    BY <1>1 DEF AppendRead, Typed, TypeOK, CursorInJournal, connVars
  <1>2. ASSUME NEW e \in Events, AppendInsert(e)
        PROVE  Typed'
    <2>1. /\ journal' \in Seq(Events) /\ Len(journal) <= Len(journal')
          /\ Len(journal) \in Nat /\ Len(journal') \in Nat
      <3>1. journal \in Seq(Events)
        BY DEF Typed, TypeOK
      <3>2. journal' \in {journal, Append(journal, e)}
        BY <1>2 DEF AppendInsert
      <3>3. QED
        BY <3>1, <3>2
    <2>2. seq' \in [Events -> Nat]
      <3>1. seq \in [Events -> Nat] /\ maxSeen[e] + 1 \in Nat
        BY DEF Typed, TypeOK
      <3>2. seq' = seq \/ seq' = [seq EXCEPT ![e] = maxSeen[e] + 1]
        BY <1>2 DEF AppendInsert
      <3>3. QED
        BY <3>1, <3>2
    <2>3. emitPc' \in [Events -> {"idle", "insert", "snapshot", "send", "done", "lost", "dead"}]
      BY <1>2 DEF AppendInsert, Typed, TypeOK
    <2>4. UNCHANGED <<maxSeen, targets, subs, connVars, open, buffer, sendCh, written, crashes>>
      BY <1>2 DEF AppendInsert
    <2>5. QED
      BY <2>1, <2>2, <2>3, <2>4 DEF Typed, TypeOK, CursorInJournal, connVars
  <1>3. ASSUME NEW e \in Events, PublishSnapshot(e)
        PROVE  Typed'
    BY <1>3 DEF PublishSnapshot, Typed, TypeOK, CursorInJournal, connVars
  <1>4. ASSUME NEW e \in Events, NEW c \in Conns, PublishSend(e, c)
        PROVE  Typed'
    <2>1. seq[e] \in Nat /\ buffer \in [Conns -> Seq(Nat)]
      BY DEF Typed, TypeOK
    <2>2. sendCh' \in [Conns -> Seq(Nat)]
      BY <1>4, <2>1, PushTyped DEF PublishSend, Typed, TypeOK
    <2>3. buffer' \in [Conns -> Seq(Nat)]
      <3>1. buffer[c] \in Seq(Nat) /\ Append(buffer[c], seq[e]) \in Seq(Nat)
        BY <2>1
      <3>2. buffer' = buffer \/ buffer' = [buffer EXCEPT ![c] = Append(buffer[c], seq[e])]
        BY <1>4 DEF PublishSend
      <3>3. QED
        BY <2>1, <3>1, <3>2, QueueTyped
    <2>4. targets' \in [Events -> SUBSET Conns] /\ open' \subseteq Conns /\ subs' \subseteq Conns
      BY <1>4 DEF PublishSend, close, Typed, TypeOK
    <2>5. UNCHANGED <<journal, emitPc, maxSeen, seq, connVars, written, crashes>>
      BY <1>4 DEF PublishSend
    <2>6. QED
      BY <2>2, <2>3, <2>4, <2>5 DEF Typed, TypeOK, CursorInJournal, connVars
  <1>5. ASSUME NEW e \in Events, PublishEnd(e)
        PROVE  Typed'
    BY <1>5 DEF PublishEnd, Typed, TypeOK, CursorInJournal, connVars
  <1>6. ASSUME NEW c \in Conns, Hello(c)
        PROVE  Typed'
    BY <1>6 DEF Hello, Typed, TypeOK, CursorInJournal, emitVars
  <1>7. ASSUME NEW c \in Conns, startBuffering(c)
        PROVE  Typed'
    BY <1>7 DEF startBuffering, Typed, TypeOK, CursorInJournal, emitVars
  <1>8. ASSUME NEW c \in Conns, subscribe(c)
        PROVE  Typed'
    BY <1>8 DEF subscribe, Typed, TypeOK, CursorInJournal, emitVars
  <1>9. ASSUME NEW c \in Conns, Replay(c)
        PROVE  Typed'
    <2> DEFINE upto == IF after[c] + PageLimit < Len(journal)
                         THEN after[c] + PageLimit ELSE Len(journal)
               frames == [i \in 1 .. upto - after[c] |-> after[c] + i]
    <2>1. after[c] \in Nat /\ upto \in Nat /\ upto - after[c] \in Nat /\ Len(journal) \in Nat
      <3>1. after[c] \in Nat /\ Len(journal) \in Nat /\ after[c] <= Len(journal)
        BY DEF Typed, TypeOK, CursorInJournal
      <3>2. QED
        BY <3>1
    <2>2. frames \in Seq(Nat)
      BY <2>1
    <2>3. /\ page' = [page EXCEPT ![c] = frames]
          /\ gap' = [gap EXCEPT ![c] = upto + 1 .. Len(journal)]
      BY <1>9 DEF Replay
    <2> HIDE DEF upto, frames
    <2>4. page' \in [Conns -> Seq(Nat)]
      BY <2>2, <2>3, QueueTyped DEF Typed, TypeOK
    <2>5. gap' \in [Conns -> SUBSET Nat]
      <3>1. upto + 1 .. Len(journal) \subseteq Nat
        BY <2>1
      <3>2. QED
        BY <2>3, <3>1 DEF Typed, TypeOK
    <2>6. connPc' \in [Conns -> {"none", "hello", "subscribe", "replay", "direct", "flush",
                                 "live", "dead"}]
      BY <1>9 DEF Replay, Typed, TypeOK
    <2>7. UNCHANGED <<journal, emitVars, subs, after, buffering, open, buffer, sendCh, written,
                      crashes>>
      BY <1>9 DEF Replay
    <2>8. QED
      BY <2>4, <2>5, <2>6, <2>7 DEF Typed, TypeOK, CursorInJournal, emitVars
  <1>10. ASSUME NEW c \in Conns, ReplayError(c)
         PROVE  Typed'
    BY <1>10 DEF ReplayError, Typed, TypeOK, CursorInJournal, emitVars
  <1>11. ASSUME NEW c \in Conns, sendDirect(c)
         PROVE  Typed'
    <2>1. page \in [Conns -> Seq(Nat)] /\ page[c] \in Seq(Nat) /\ page[c] # <<>>
      BY <1>11 DEF sendDirect, Typed, TypeOK
    <2>2. Head(page[c]) \in Nat /\ Tail(page[c]) \in Seq(Nat)
      BY <2>1
    <2>3. page' \in [Conns -> Seq(Nat)]
      BY <1>11, <2>1, <2>2, QueueTyped DEF sendDirect
    <2>4. sendCh' \in [Conns -> Seq(Nat)]
      BY <1>11, <2>2, PushTyped DEF sendDirect, Typed, TypeOK
    <2>5. open' \subseteq Conns /\ subs' \subseteq Conns
      BY <1>11 DEF sendDirect, close, Typed, TypeOK
    <2>6. UNCHANGED <<journal, emitVars, connPc, after, buffering, gap, buffer, written, crashes>>
      BY <1>11 DEF sendDirect
    <2>7. QED
      BY <2>3, <2>4, <2>5, <2>6 DEF Typed, TypeOK, CursorInJournal, emitVars
  <1>12. ASSUME NEW c \in Conns, FlushBegin(c)
         PROVE  Typed'
    BY <1>12 DEF FlushBegin, Typed, TypeOK, CursorInJournal, emitVars
  <1>13. ASSUME NEW c \in Conns, FlushOne(c)
         PROVE  Typed'
    <2>1. buffer \in [Conns -> Seq(Nat)] /\ buffer[c] \in Seq(Nat) /\ buffer[c] # <<>>
      BY <1>13 DEF FlushOne, Typed, TypeOK
    <2>2. Head(buffer[c]) \in Nat /\ Tail(buffer[c]) \in Seq(Nat) /\ <<>> \in Seq(Nat)
      BY <2>1
    <2>3. buffer' \in [Conns -> Seq(Nat)]
      BY <1>13, <2>1, <2>2, QueueTyped DEF FlushOne
    <2>4. sendCh' \in [Conns -> Seq(Nat)]
      BY <1>13, <2>2, PushTyped DEF FlushOne, Typed, TypeOK
    <2>5. open' \subseteq Conns /\ subs' \subseteq Conns
      BY <1>13 DEF FlushOne, close, Typed, TypeOK
    <2>6. UNCHANGED <<journal, emitVars, connVars, written, crashes>>
      BY <1>13 DEF FlushOne
    <2>7. QED
      BY <2>3, <2>4, <2>5, <2>6 DEF Typed, TypeOK, CursorInJournal, emitVars, connVars
  <1>14. ASSUME NEW c \in Conns, FlushEnd(c)
         PROVE  Typed'
    BY <1>14 DEF FlushEnd, Typed, TypeOK, CursorInJournal, emitVars
  <1>15. ASSUME NEW c \in Conns, runWriter(c)
         PROVE  Typed'
    BY <1>15 DEF runWriter, Typed, TypeOK, CursorInJournal, emitVars, connVars
  <1>16. ASSUME NEW c \in Conns, Disconnect(c)
         PROVE  Typed'
    BY <1>16 DEF Disconnect, close, Typed, TypeOK, CursorInJournal, emitVars, connVars
  <1>17. CASE Crash
    BY <1>17 DEF Crash, Typed, TypeOK, CursorInJournal
  <1>18. CASE UNCHANGED vars
    BY <1>18 DEF vars, Typed, TypeOK, CursorInJournal, emitVars, connVars
  <1>19. QED
    BY <1>1, <1>2, <1>3, <1>4, <1>5, <1>6, <1>7, <1>8, <1>9, <1>10, <1>11, <1>12,
       <1>13, <1>14, <1>15, <1>16, <1>17, <1>18
    DEF Next, emitEvent, replayAndSubscribe

\* Every variable of journal and gateway keeps its type.
THEOREM DeliveryTypeCorrect == Spec => []TypeOK
  <1>1. Spec => []Typed
    BY InitTyped, TypedStep, PTL DEF Spec
  <1>2. Typed => TypeOK
    BY DEF Typed
  <1>3. QED
    BY <1>1, <1>2, PTL

-----------------------------------------------------------------------------
(* Sequences.                                                              *)

\* An event is not in the journal before its INSERT.
FreshUntilInsert(e) ==
    emitPc[e] \in {"idle", "insert"} => \A n \in 1 .. Len(journal) : journal[n] # e

\* A publication has a sequence.
PublishedHasSequence(e) == emitPc[e] \in {"snapshot", "send"} => seq[e] # 0

Numbered ==
    /\ SequenceOwned
    /\ \A e \in Events : FreshUntilInsert(e) /\ PublishedHasSequence(e)

\* An empty journal is numbered.
LEMMA InitNumbered == Init => Numbered
  BY DEF Init, Numbered, SequenceOwned, FreshUntilInsert, PublishedHasSequence

\* What a successful INSERT does to the journal.
LEMMA JournalGrows ==
  ASSUME Typed, NEW e \in Events, AppendInsert(e), emitPc'[e] = "snapshot"
  PROVE  /\ Len(journal) \in Nat
         /\ Len(journal') = Len(journal) + 1
         /\ journal'[Len(journal) + 1] = e
         /\ \A n \in 1 .. Len(journal) : journal'[n] = journal[n]
         /\ seq' = [seq EXCEPT ![e] = Len(journal) + 1]
  <1>1. journal \in Seq(Events)
    BY DEF Typed, TypeOK
  <1>2. journal' = Append(journal, e) /\ seq' = [seq EXCEPT ![e] = Len(journal) + 1]
    BY DEF AppendInsert, Typed, TypeOK
  <1>3. QED
    BY <1>1, <1>2

\* Only the INSERT numbers an event, and it takes the next sequence (Append).
LEMMA NumberedStep == Typed /\ Numbered /\ [Next]_vars => Numbered'
  <1> SUFFICES ASSUME Typed, Numbered, [Next]_vars
               PROVE  Numbered'
    OBVIOUS
  <1> USE DEF Numbered, SequenceOwned, FreshUntilInsert, PublishedHasSequence
  <1>1. ASSUME NEW e \in Events, AppendRead(e)
        PROVE  Numbered'
    BY <1>1 DEF AppendRead, Typed, TypeOK
  <1>2. ASSUME NEW e \in Events, AppendInsert(e)
        PROVE  Numbered'
    <2>1. /\ emitPc'[e] \in {"snapshot", "lost"}
          /\ \A d \in Events : d # e => emitPc'[d] = emitPc[d]
      BY <1>2 DEF AppendInsert, Typed, TypeOK
    <2>2. CASE emitPc'[e] = "snapshot"
      <3>1. /\ Len(journal) \in Nat
            /\ Len(journal') = Len(journal) + 1
            /\ journal'[Len(journal) + 1] = e
            /\ \A n \in 1 .. Len(journal) : journal'[n] = journal[n]
            /\ seq' = [seq EXCEPT ![e] = Len(journal) + 1]
        BY <1>2, <2>2, JournalGrows
      <3>2. seq \in [Events -> Nat]
        BY DEF Typed, TypeOK
      <3>3. SequenceOwned'
        BY <3>1, <3>2
      <3>4. ASSUME NEW d \in Events
            PROVE  FreshUntilInsert(d)' /\ PublishedHasSequence(d)'
        BY <2>1, <2>2, <3>1, <3>2
      <3>5. QED
        BY <3>3, <3>4
    <2>3. CASE emitPc'[e] = "lost"
      <3>1. journal' = journal /\ seq' = seq
        BY <1>2, <2>3 DEF AppendInsert, Typed, TypeOK
      <3>2. QED
        BY <2>1, <2>3, <3>1
    <2>4. QED
      BY <2>1, <2>2, <2>3
  <1>3. ASSUME NEW e \in Events, PublishSnapshot(e)
        PROVE  Numbered'
    BY <1>3 DEF PublishSnapshot, Typed, TypeOK
  <1>4. ASSUME NEW e \in Events, PublishEnd(e)
        PROVE  Numbered'
    BY <1>4 DEF PublishEnd, Typed, TypeOK
  <1>5. CASE Crash
    BY <1>5 DEF Crash
  <1>6. CASE UNCHANGED <<journal, emitPc, seq>>
    BY <1>6
  <1>7. ASSUME NEW e \in Events, NEW c \in Conns, PublishSend(e, c)
        PROVE  UNCHANGED <<journal, emitPc, seq>>
    BY <1>7 DEF PublishSend
  <1>8. ASSUME NEW c \in Conns,
               Hello(c) \/ replayAndSubscribe(c) \/ runWriter(c) \/ Disconnect(c)
        PROVE  UNCHANGED <<journal, emitPc, seq>>
    BY <1>8 DEF Hello, replayAndSubscribe, startBuffering, subscribe, Replay, ReplayError,
                sendDirect, FlushBegin, FlushOne, FlushEnd, runWriter, Disconnect, emitVars
  <1>9. UNCHANGED vars => UNCHANGED <<journal, emitPc, seq>>
    BY DEF vars, emitVars
  <1>10. QED
    BY <1>1, <1>2, <1>3, <1>4, <1>5, <1>6, <1>7, <1>8, <1>9 DEF Next, emitEvent

\* The invariants so far, for every behaviour.
LEMMA TypedNumbered == Spec => [](Typed /\ Numbered)
  BY InitTyped, TypedStep, InitNumbered, NumberedStep, PTL DEF Spec

\* Concurrent appends never give two events one sequence or leave a hole, for
\* any number of emissions and crashes (cursor_repository.go, Append).
THEOREM SequenceOwnedTheorem == Spec => []SequenceOwned
  <1>1. Numbered => SequenceOwned
    BY DEF Numbered
  <1>2. QED
    BY <1>1, TypedNumbered, PTL

-----------------------------------------------------------------------------
(* What each step does to the frames a connection has or will be sent.     *)

Stored(c) ==
    FramesOf(written[c]) \cup FramesOf(sendCh[c]) \cup FramesOf(page[c])
        \cup FramesOf(buffer[c])

\* A send on the channel of a connection.
LEMMA PushFrames ==
  ASSUME Typed, NEW c \in Conns, NEW n \in Nat, Push(c, n)
  PROVE  /\ FramesOf(sendCh'[c]) = FramesOf(sendCh[c]) \cup {n}
         /\ \A d \in Conns : d # c => sendCh'[d] = sendCh[d]
  <1>1. sendCh \in [Conns -> Seq(Nat)] /\ sendCh[c] \in Seq(Nat)
    BY DEF Typed, TypeOK
  <1>2. sendCh'[c] = Append(sendCh[c], n)
    BY <1>1 DEF Push
  <1>3. QED
    BY <1>1, <1>2, FramesAppend DEF Push

\* Publish hands the event to the client, unless the client is closed.
LEMMA PublishSendFrames ==
  ASSUME Typed, NEW e \in Events, NEW c \in Conns, PublishSend(e, c)
  PROVE  /\ Stored(c)' \subseteq Stored(c) \cup {seq[e]}
         /\ c \in open' => Stored(c)' = Stored(c) \cup {seq[e]}
         /\ \A d \in Conns : d # c => Stored(d)' = Stored(d)
  <1>1. /\ seq[e] \in Nat /\ buffer \in [Conns -> Seq(Nat)] /\ buffer[c] \in Seq(Nat)
        /\ UNCHANGED <<written, page>>
    BY DEF Typed, TypeOK, PublishSend, connVars
  <1>2. CASE c \notin open
    <2>1. UNCHANGED <<buffer, sendCh, open>>
      BY <1>2 DEF PublishSend
    <2>2. QED
      BY <1>1, <1>2, <2>1 DEF Stored
  <1>3. CASE c \in open /\ c \in buffering
    <2>1. buffer' = [buffer EXCEPT ![c] = Append(buffer[c], seq[e])] /\ sendCh' = sendCh
      BY <1>3 DEF PublishSend
    <2>2. FramesOf(buffer'[c]) = FramesOf(buffer[c]) \cup {seq[e]}
      BY <1>1, <2>1, FramesAppend
    <2>3. \A d \in Conns : d # c => buffer'[d] = buffer[d]
      BY <1>1, <2>1
    <2>4. QED
      BY <1>1, <2>1, <2>2, <2>3 DEF Stored
  <1>4. CASE c \in open /\ c \notin buffering /\ HasRoom(c)
    <2>1. Push(c, seq[e]) /\ buffer' = buffer
      BY <1>4 DEF PublishSend
    <2>2. QED
      BY ZenonT(60), <1>1, <2>1, PushFrames DEF Stored
  <1>5. CASE c \in open /\ c \notin buffering /\ ~ HasRoom(c)
    <2>1. UNCHANGED <<buffer, sendCh>> /\ c \notin open'
      BY <1>5 DEF PublishSend, close
    <2>2. QED
      BY <1>1, <2>1 DEF Stored
  <1>6. QED
    BY <1>2, <1>3, <1>4, <1>5

\* The page goes to the channel frame by frame, unless the client is closed.
LEMMA SendDirectFrames ==
  ASSUME Typed, NEW c \in Conns, sendDirect(c)
  PROVE  /\ Stored(c)' \subseteq Stored(c)
         /\ c \in open' => Stored(c)' = Stored(c)
         /\ \A d \in Conns : d # c => Stored(d)' = Stored(d)
  <1>1. /\ page \in [Conns -> Seq(Nat)] /\ page[c] \in Seq(Nat) /\ page[c] # <<>>
        /\ page' = [page EXCEPT ![c] = Tail(page[c])]
        /\ UNCHANGED <<written, buffer>>
    BY DEF Typed, TypeOK, sendDirect
  <1>2. Head(page[c]) \in Nat /\ FramesOf(page[c]) = FramesOf(page'[c]) \cup {Head(page[c])}
    BY <1>1, FramesHead
  <1>3. \A d \in Conns : d # c => page'[d] = page[d]
    BY <1>1
  <1>4. CASE Push(c, Head(page[c]))
    BY ZenonT(60), <1>1, <1>2, <1>3, <1>4, PushFrames DEF Stored
  <1>5. CASE sendCh' = sendCh /\ c \notin open'
    BY <1>1, <1>2, <1>3, <1>5 DEF Stored
  <1>6. QED
    BY <1>4, <1>5 DEF sendDirect, close

\* The buffer goes to the channel frame by frame, unless the client is closed.
LEMMA FlushOneFrames ==
  ASSUME Typed, NEW c \in Conns, FlushOne(c)
  PROVE  /\ Stored(c)' \subseteq Stored(c)
         /\ c \in open' => Stored(c)' = Stored(c)
         /\ \A d \in Conns : d # c => Stored(d)' = Stored(d)
  <1>1. /\ buffer \in [Conns -> Seq(Nat)] /\ buffer[c] \in Seq(Nat) /\ buffer[c] # <<>>
        /\ UNCHANGED <<written, page>>
    BY DEF Typed, TypeOK, FlushOne, connVars
  <1>2. /\ Head(buffer[c]) \in Nat
        /\ FramesOf(buffer[c]) = FramesOf(Tail(buffer[c])) \cup {Head(buffer[c])}
    BY <1>1, FramesHead
  <1>3. \A d \in Conns : d # c => buffer'[d] = buffer[d]
    BY <1>1 DEF FlushOne
  <1>4. CASE Push(c, Head(buffer[c])) /\ buffer' = [buffer EXCEPT ![c] = Tail(buffer[c])]
    <2>1. buffer'[c] = Tail(buffer[c])
      BY <1>1, <1>4
    <2>2. QED
      BY ZenonT(60), <1>1, <1>2, <1>3, <1>4, <2>1, PushFrames DEF Stored
  <1>5. CASE sendCh' = sendCh /\ c \notin open'
    <2>1. buffer'[c] \in {Tail(buffer[c]), <<>>}
      BY <1>1 DEF FlushOne
    <2>2. FramesOf(buffer'[c]) \subseteq FramesOf(buffer[c])
      BY <1>2, <2>1, FramesEmpty
    <2>3. QED
      BY <1>1, <1>3, <1>5, <2>2 DEF Stored
  <1>6. QED
    BY <1>4, <1>5 DEF FlushOne, close

\* The writer moves a frame from the channel to the socket.
LEMMA RunWriterFrames ==
  ASSUME Typed, NEW c \in Conns, runWriter(c)
  PROVE  /\ Head(sendCh[c]) \in FramesOf(sendCh[c])
         /\ FramesOf(written'[c]) = FramesOf(written[c]) \cup {Head(sendCh[c])}
         /\ \A d \in Conns : d # c => written'[d] = written[d]
         /\ \A d \in Conns : Stored(d)' = Stored(d)
  <1>1. /\ sendCh \in [Conns -> Seq(Nat)] /\ sendCh[c] \in Seq(Nat) /\ sendCh[c] # <<>>
        /\ written \in [Conns -> Seq(Nat)] /\ written[c] \in Seq(Nat)
        /\ sendCh' = [sendCh EXCEPT ![c] = Tail(sendCh[c])]
        /\ written' = [written EXCEPT ![c] = Append(written[c], Head(sendCh[c]))]
        /\ UNCHANGED <<page, buffer>>
    BY DEF Typed, TypeOK, runWriter, connVars
  <1>2. /\ Head(sendCh[c]) \in Nat
        /\ FramesOf(sendCh[c]) = FramesOf(sendCh'[c]) \cup {Head(sendCh[c])}
    BY <1>1, FramesHead
  <1>3. FramesOf(written'[c]) = FramesOf(written[c]) \cup {Head(sendCh[c])}
    BY <1>1, <1>2, FramesAppend
  <1>4. \A d \in Conns : d # c => sendCh'[d] = sendCh[d] /\ written'[d] = written[d]
    BY <1>1
  <1>5. QED
    BY <1>1, <1>2, <1>3, <1>4 DEF Stored

\* The replay query reads the page that follows the cursor; the rest is the gap.
LEMMA ReplayFrames ==
  ASSUME Typed, NEW c \in Conns, Replay(c)
  PROVE  /\ FramesOf(page'[c]) \subseteq 1 .. Len(journal)
         /\ \A i \in 1 .. Len(page'[c]) : page'[c][i] = after[c] + i
         /\ \A n \in 1 .. Len(journal) :
               after[c] < n /\ n \notin gap'[c] => n \in FramesOf(page'[c])
         /\ \A d \in Conns : d # c => page'[d] = page[d] /\ gap'[d] = gap[d]
  <1> DEFINE upto == IF after[c] + PageLimit < Len(journal)
                       THEN after[c] + PageLimit ELSE Len(journal)
             frames == [i \in 1 .. upto - after[c] |-> after[c] + i]
  <1>1. /\ page' = [page EXCEPT ![c] = frames]
        /\ gap' = [gap EXCEPT ![c] = upto + 1 .. Len(journal)]
    BY DEF Replay
  <1>2. after[c] \in Nat /\ Len(journal) \in Nat /\ after[c] <= Len(journal)
    BY DEF Typed, TypeOK, CursorInJournal
  <1>3. upto \in Nat /\ after[c] <= upto /\ upto <= Len(journal)
    BY <1>2, DeliveryBounds
  <1> HIDE DEF upto
  <1>4. Len(frames) = upto - after[c] /\ \A i \in 1 .. upto - after[c] : frames[i] = after[c] + i
    BY <1>2, <1>3
  <1> HIDE DEF frames
  <1>5. FramesOf(frames) = after[c] + 1 .. upto
    <2>1. ASSUME NEW i \in 1 .. Len(frames)
          PROVE  frames[i] \in after[c] + 1 .. upto
      BY <1>2, <1>3, <1>4
    <2>2. ASSUME NEW n \in after[c] + 1 .. upto
          PROVE  n \in FramesOf(frames)
      <3>1. n - after[c] \in 1 .. Len(frames) /\ frames[n - after[c]] = n
        BY <1>2, <1>3, <1>4
      <3>2. QED
        BY <3>1 DEF FramesOf
    <2>3. QED
      BY <2>1, <2>2 DEF FramesOf
  <1>6. /\ page'[c] = frames /\ gap'[c] = upto + 1 .. Len(journal)
        /\ \A d \in Conns : d # c => page'[d] = page[d] /\ gap'[d] = gap[d]
    BY <1>1 DEF Typed, TypeOK
  <1>7. QED
    BY <1>2, <1>3, <1>4, <1>5, <1>6

-----------------------------------------------------------------------------
(* Every frame names a committed event.                                    *)

Recoverable == \A c \in Conns : Stored(c) \subseteq 1 .. Len(journal)

\* No frame exists at the start.
LEMMA InitRecoverable == Init => Recoverable
  BY FramesEmpty DEF Init, Recoverable, Stored

\* Frames come from the journal by a replay, or from an event that was
\* committed before it was published.
LEMMA RecoverableStep ==
  Typed /\ Numbered /\ Recoverable /\ [Next]_vars => Recoverable'
  <1> SUFFICES ASSUME Typed, Numbered, Recoverable, [Next]_vars
               PROVE  Recoverable'
    OBVIOUS
  <1> USE DEF Recoverable
  <1>1. ASSUME journal' = journal, \A c \in Conns : Stored(c)' \subseteq Stored(c)
        PROVE  Recoverable'
    BY <1>1
  <1>2. ASSUME NEW e \in Events, AppendInsert(e)
        PROVE  Recoverable'
    <2>1. \A c \in Conns : Stored(c)' = Stored(c)
      BY <1>2 DEF AppendInsert, Stored, connVars
    <2>2. Len(journal) \in Nat /\ Len(journal') \in Nat /\ Len(journal) <= Len(journal')
      <3>1. journal \in Seq(Events) /\ journal' \in {journal, Append(journal, e)}
        BY <1>2 DEF AppendInsert, Typed, TypeOK
      <3>2. QED
        BY <3>1
    <2>3. QED
      BY <2>1, <2>2
  <1>3. ASSUME NEW e \in Events, NEW c \in Conns, PublishSend(e, c)
        PROVE  Recoverable'
    <2>1. seq[e] \in 1 .. Len(journal)
      BY <1>3 DEF PublishSend, Numbered, SequenceOwned, PublishedHasSequence
    <2>2. journal' = journal
      BY <1>3 DEF PublishSend
    <2>3. QED
      BY <1>3, <2>1, <2>2, PublishSendFrames
  <1>4. ASSUME NEW c \in Conns, Replay(c)
        PROVE  Recoverable'
    <2>1. UNCHANGED <<journal, written, sendCh, buffer>>
      BY <1>4 DEF Replay
    <2>2. QED
      BY <1>4, <2>1, ReplayFrames DEF Stored
  <1>5. ASSUME NEW c \in Conns, sendDirect(c)
        PROVE  Recoverable'
    BY <1>1, <1>5, SendDirectFrames DEF sendDirect
  <1>6. ASSUME NEW c \in Conns, FlushOne(c)
        PROVE  Recoverable'
    BY <1>1, <1>6, FlushOneFrames DEF FlushOne
  <1>7. ASSUME NEW c \in Conns, runWriter(c)
        PROVE  Recoverable'
    BY <1>1, <1>7, RunWriterFrames DEF runWriter
  <1>8. ASSUME NEW c \in Conns, startBuffering(c)
        PROVE  Recoverable'
    <2>1. UNCHANGED <<journal, written, sendCh, page>>
      BY <1>8 DEF startBuffering
    <2>2. \A d \in Conns : FramesOf(buffer'[d]) \subseteq FramesOf(buffer[d])
      BY <1>8, FramesEmpty DEF startBuffering, Typed, TypeOK
    <2>3. QED
      BY <1>1, <2>1, <2>2 DEF Stored
  <1>9. CASE Crash
    <2>1. UNCHANGED <<journal, written>>
      BY <1>9 DEF Crash
    <2>2. \A d \in Conns : buffer'[d] = <<>> /\ sendCh'[d] = <<>> /\ page'[d] = <<>>
      BY <1>9 DEF Crash
    <2>3. QED
      BY <1>1, <2>1, <2>2, FramesEmpty DEF Stored
  <1>10. CASE UNCHANGED <<journal, written, sendCh, page, buffer>>
    BY <1>1, <1>10 DEF Stored
  <1>11. ASSUME NEW e \in Events, AppendRead(e) \/ PublishSnapshot(e) \/ PublishEnd(e)
         PROVE  UNCHANGED <<journal, written, sendCh, page, buffer>>
    BY <1>11 DEF AppendRead, PublishSnapshot, PublishEnd, connVars
  <1>12. ASSUME NEW c \in Conns,
                \/ Hello(c) \/ subscribe(c) \/ ReplayError(c) \/ FlushBegin(c)
                \/ FlushEnd(c) \/ Disconnect(c)
         PROVE  UNCHANGED <<journal, written, sendCh, page, buffer>>
    BY <1>12 DEF Hello, subscribe, ReplayError, FlushBegin, FlushEnd, Disconnect, connVars
  <1>13. UNCHANGED vars => UNCHANGED <<journal, written, sendCh, page, buffer>>
    BY DEF vars, connVars
  <1>14. QED
    BY <1>2, <1>3, <1>4, <1>5, <1>6, <1>7, <1>8, <1>9, <1>10, <1>11, <1>12, <1>13
    DEF Next, emitEvent, replayAndSubscribe

\* The three invariants, for every behaviour.
LEMMA DeliveryInvariant == Spec => [](Typed /\ Numbered /\ Recoverable)
  BY InitTyped, TypedStep, InitNumbered, NumberedStep, InitRecoverable, RecoverableStep, PTL
  DEF Spec

\* A client that receives an event can recover it from the journal, whatever
\* crashes and slow clients come between (app.go, emitEvent persists before it
\* publishes).
THEOREM PublishedIsRecoverableTheorem == Spec => []PublishedIsRecoverable
  <1>1. Recoverable => PublishedIsRecoverable
    BY DEF Recoverable, Stored, PublishedIsRecoverable
  <1>2. QED
    BY <1>1, DeliveryInvariant, PTL

-----------------------------------------------------------------------------
(* The hand-over from replay to live delivery.                             *)

\* At the start no connection has replayed.
LEMMA InitNoLoss == Init => NoLossWindow
  BY DEF Init, NoLossWindow, Replayed

\* Each step hands an event on: from the publication to the buffer or the
\* channel, from the page and the buffer to the channel, from there to the
\* socket. The replay query finds what was committed before it.
LEMMA NoLossStep == Typed /\ NoLossWindow /\ [Next]_vars => NoLossWindow'
  <1> SUFFICES ASSUME Typed, NoLossWindow, [Next]_vars,
                      NEW c \in Conns, Replayed(c)',
                      NEW n \in 1 .. Len(journal'), after'[c] < n, n \notin gap'[c]
               PROVE  n \in Held(c)'
    BY DEF NoLossWindow
  <1>1. ASSUME Replayed(c), after'[c] = after[c], gap'[c] = gap[c], journal' = journal
        PROVE  n \in Stored(c) \/ n \in OnTheWay(c)
    BY <1>1 DEF NoLossWindow, Held, Stored
  <1>2. n \in Stored(c)' \/ n \in OnTheWay(c)' => n \in Held(c)'
    BY DEF Held, Stored
  <1>3. ASSUME NEW e \in Events, AppendRead(e)
        PROVE  n \in Held(c)'
    <2>1. UNCHANGED <<journal, written, sendCh, page, buffer, targets, seq, after, gap, connPc,
                      open, subs>>
      BY <1>3 DEF AppendRead, connVars
    <2>2. OnTheWay(c) \subseteq OnTheWay(c)'
      BY <1>3, <2>1 DEF AppendRead, OnTheWay, Typed, TypeOK
    <2>3. QED
      BY <1>1, <1>2, <2>1, <2>2 DEF Stored, Replayed
  <1>4. ASSUME NEW e \in Events, AppendInsert(e)
        PROVE  n \in Held(c)'
    <2>1. /\ UNCHANGED <<written, sendCh, page, buffer, targets, after, gap, connPc, open, subs>>
          /\ emitPc[e] = "insert" /\ emitPc'[e] \in {"snapshot", "lost"}
          /\ \A d \in Events : d # e => emitPc'[d] = emitPc[d] /\ seq'[d] = seq[d]
      BY <1>4 DEF AppendInsert, connVars, Typed, TypeOK
    <2>2. OnTheWay(c) \subseteq OnTheWay(c)'
      BY <2>1 DEF OnTheWay
    <2>3. CASE journal' = journal
      BY <1>1, <1>2, <2>1, <2>2, <2>3 DEF Stored, Replayed
    <2>4. CASE journal' # journal
      <3>1. emitPc'[e] = "snapshot"
        BY <1>4, <2>4 DEF AppendInsert, Typed, TypeOK
      <3>2. /\ Len(journal) \in Nat /\ Len(journal') = Len(journal) + 1
            /\ seq'[e] = Len(journal) + 1
        BY <1>4, <3>1, JournalGrows DEF Typed, TypeOK
      <3>3. CASE n = Len(journal) + 1
        BY <1>2, <3>1, <3>2, <3>3 DEF OnTheWay
      <3>4. CASE n # Len(journal) + 1
        <4>1. n \in 1 .. Len(journal)
          BY <3>2, <3>4
        <4>2. n \in Held(c)
          BY <2>1, <4>1 DEF NoLossWindow, Replayed
        <4>3. QED
          BY <1>2, <2>1, <2>2, <4>2 DEF Held, Stored
      <3>5. QED
        BY <3>3, <3>4
    <2>5. QED
      BY <2>3, <2>4
  <1>5. ASSUME NEW e \in Events, PublishSnapshot(e)
        PROVE  n \in Held(c)'
    <2>1. UNCHANGED <<journal, written, sendCh, page, buffer, seq, after, gap, connPc, open, subs>>
      BY <1>5 DEF PublishSnapshot, connVars
    <2>2. /\ emitPc'[e] = "send" /\ targets'[e] = subs
          /\ \A d \in Events : d # e => emitPc'[d] = emitPc[d] /\ targets'[d] = targets[d]
      BY <1>5 DEF PublishSnapshot, Typed, TypeOK
    <2>3. c \in subs
      BY <2>1 DEF Replayed
    <2>4. OnTheWay(c) \subseteq OnTheWay(c)'
      BY <2>1, <2>2, <2>3 DEF OnTheWay
    <2>5. QED
      BY <1>1, <1>2, <2>1, <2>4 DEF Stored, Replayed
  <1>6. ASSUME NEW e \in Events, NEW d \in Conns, PublishSend(e, d)
        PROVE  n \in Held(c)'
    <2>1. /\ UNCHANGED <<journal, emitPc, seq, after, gap, connPc>>
          /\ open' \subseteq open /\ subs' \subseteq subs
      BY <1>6 DEF PublishSend, close, connVars
    <2>2. Replayed(c)
      BY <2>1 DEF Replayed
    <2>3. n \in Stored(c) \/ n \in OnTheWay(c)
      BY <1>1, <2>1, <2>2
    <2>4. Stored(c) \subseteq Stored(c)' /\ (c = d => seq[e] \in Stored(c)')
      BY <1>6, PublishSendFrames DEF Replayed
    <2>5. /\ targets'[e] = targets[e] \ {d}
          /\ \A f \in Events : f # e => targets'[f] = targets[f]
      BY <1>6 DEF PublishSend, Typed, TypeOK
    <2>6. OnTheWay(c) \subseteq OnTheWay(c)' \cup Stored(c)'
      <3>1. ASSUME NEW f \in Events,
                   emitPc[f] = "snapshot" \/ (emitPc[f] = "send" /\ c \in targets[f])
            PROVE  seq[f] \in OnTheWay(c)' \cup Stored(c)'
        <4>1. CASE f = e /\ c = d
          BY <2>4, <4>1
        <4>2. CASE ~ (f = e /\ c = d)
          BY <2>1, <2>5, <3>1, <4>2 DEF OnTheWay
        <4>3. QED
          BY <4>1, <4>2
      <3>2. QED
        BY <3>1 DEF OnTheWay
    <2>7. QED
      BY <1>2, <2>3, <2>4, <2>6
  <1>7. ASSUME NEW e \in Events, PublishEnd(e)
        PROVE  n \in Held(c)'
    <2>1. UNCHANGED <<journal, written, sendCh, page, buffer, targets, seq, after, gap, connPc,
                      open, subs>>
      BY <1>7 DEF PublishEnd, connVars
    <2>2. OnTheWay(c) \subseteq OnTheWay(c)'
      BY <1>7, <2>1 DEF PublishEnd, OnTheWay, Typed, TypeOK
    <2>3. QED
      BY <1>1, <1>2, <2>1, <2>2 DEF Stored, Replayed
  <1>8. ASSUME UNCHANGED emitVars
        PROVE  OnTheWay(c)' = OnTheWay(c)
    BY <1>8 DEF OnTheWay, emitVars
  <1>9. ASSUME NEW d \in Conns, Hello(d) \/ startBuffering(d) \/ subscribe(d)
        PROVE  n \in Held(c)'
    <2>1. /\ UNCHANGED <<journal, emitVars, written, sendCh, page, gap>> /\ d # c
          /\ after'[c] = after[c] /\ buffer'[c] = buffer[c] /\ Replayed(c)
      BY <1>9 DEF Hello, startBuffering, subscribe, Replayed, Typed, TypeOK
    <2>2. QED
      BY <1>1, <1>2, <1>8, <2>1 DEF Stored
  <1>10. ASSUME NEW d \in Conns, Replay(d)
         PROVE  n \in Held(c)'
    <2>1. UNCHANGED <<journal, emitVars, written, sendCh, buffer, after, open, subs>>
      BY <1>10 DEF Replay
    <2>2. CASE d = c
      <3>1. n \in FramesOf(page'[c])
        BY <1>10, <2>1, <2>2, ReplayFrames
      <3>2. QED
        BY <1>2, <3>1 DEF Stored
    <2>3. CASE d # c
      <3>1. page'[c] = page[c] /\ gap'[c] = gap[c]
        BY <1>10, <2>3, ReplayFrames
      <3>2. Replayed(c)
        BY <1>10, <2>1, <2>3 DEF Replay, Replayed, Typed, TypeOK
      <3>3. QED
        BY <1>1, <1>2, <1>8, <2>1, <3>1, <3>2 DEF Stored
    <2>4. QED
      BY <2>2, <2>3
  <1>11. ASSUME NEW d \in Conns, ReplayError(d) \/ FlushBegin(d) \/ FlushEnd(d)
         PROVE  n \in Held(c)'
    <2>1. UNCHANGED <<journal, emitVars, written, sendCh, page, buffer, gap, after>>
      BY <1>11 DEF ReplayError, FlushBegin, FlushEnd
    <2>2. Replayed(c)
      BY <1>11 DEF ReplayError, FlushBegin, FlushEnd, Replayed, Typed, TypeOK
    <2>3. QED
      BY <1>1, <1>2, <1>8, <2>1, <2>2 DEF Stored
  <1>12. ASSUME NEW d \in Conns, sendDirect(d)
         PROVE  n \in Held(c)'
    <2>1. UNCHANGED <<journal, emitVars, gap, after>> /\ Replayed(c)
      BY <1>12 DEF sendDirect, close, Replayed
    <2>2. Stored(c)' = Stored(c)
      BY <1>12, SendDirectFrames DEF Replayed
    <2>3. QED
      BY <1>1, <1>2, <1>8, <2>1, <2>2
  <1>13. ASSUME NEW d \in Conns, FlushOne(d)
         PROVE  n \in Held(c)'
    <2>1. UNCHANGED <<journal, emitVars, gap, after>> /\ Replayed(c)
      BY <1>13 DEF FlushOne, close, Replayed, connVars
    <2>2. Stored(c)' = Stored(c)
      BY <1>13, FlushOneFrames DEF Replayed
    <2>3. QED
      BY <1>1, <1>2, <1>8, <2>1, <2>2
  <1>14. ASSUME NEW d \in Conns, runWriter(d)
         PROVE  n \in Held(c)'
    <2>1. UNCHANGED <<journal, emitVars, gap, after>> /\ Replayed(c)
      BY <1>14 DEF runWriter, Replayed, connVars
    <2>2. Stored(c)' = Stored(c)
      BY <1>14, RunWriterFrames
    <2>3. QED
      BY <1>1, <1>2, <1>8, <2>1, <2>2
  <1>15. ASSUME NEW d \in Conns, Disconnect(d)
         PROVE  n \in Held(c)'
    <2>1. /\ UNCHANGED <<journal, emitVars, gap, after, written, sendCh, page, buffer>>
          /\ Replayed(c)
      BY <1>15 DEF Disconnect, close, Replayed, connVars
    <2>2. QED
      BY <1>1, <1>2, <1>8, <2>1 DEF Stored
  <1>16. CASE Crash
    BY <1>16 DEF Crash, Replayed
  <1>17. CASE UNCHANGED vars
    <2>1. /\ UNCHANGED <<journal, emitVars, gap, after, written, sendCh, page, buffer>>
          /\ Replayed(c)
      BY <1>17 DEF vars, Replayed, connVars
    <2>2. QED
      BY <1>1, <1>2, <1>8, <2>1 DEF Stored
  <1>18. QED
    BY <1>3, <1>4, <1>5, <1>6, <1>7, <1>9, <1>10, <1>11, <1>12, <1>13, <1>14, <1>15, <1>16,
       <1>17
    DEF Next, emitEvent, replayAndSubscribe

\* The hand-over from replay to live delivery loses nothing, for any number of
\* emissions and connections, any page and any channel (hub.go,
\* replayAndSubscribe).
THEOREM NoLossWindowTheorem == Spec => []NoLossWindow
  BY InitTyped, TypedStep, InitNoLoss, NoLossStep, PTL DEF Spec

-----------------------------------------------------------------------------
(* The order of retained and live events.                                  *)

\* The sequence holds the consecutive numbers after b.
Run(s, b) == \A i \in 1 .. Len(s) : s[i] = b + i

\* A run is continued by the next number.
LEMMA RunAppend ==
  ASSUME NEW s \in Seq(Nat), NEW b \in Nat, Run(s, b)
  PROVE  /\ Run(Append(s, b + Len(s) + 1), b)
         /\ Len(Append(s, b + Len(s) + 1)) = Len(s) + 1
  <1>1. Len(s) \in Nat /\ b + Len(s) + 1 \in Nat
    OBVIOUS
  <1> DEFINE n == b + Len(s) + 1
             t == Append(s, n)
  <1>2. Len(t) = Len(s) + 1 /\ t[Len(s) + 1] = n /\ \A i \in 1 .. Len(s) : t[i] = s[i]
    BY <1>1
  <1> HIDE DEF t
  <1>3. ASSUME NEW i \in 1 .. Len(t)
        PROVE  t[i] = b + i
    <2>1. CASE i = Len(s) + 1
      BY <1>1, <1>2, <2>1
    <2>2. CASE i # Len(s) + 1
      <3>1. i \in 1 .. Len(s)
        BY <1>1, <1>2, <2>2
      <3>2. QED
        BY <1>2, <3>1 DEF Run
    <2>3. QED
      BY <2>1, <2>2
  <1>4. Run(t, b)
    BY <1>3 DEF Run
  <1>5. QED
    BY <1>2, <1>4 DEF t

\* What is left of a run when its head is taken.
LEMMA RunTail ==
  ASSUME NEW s \in Seq(Nat), NEW b \in Nat, Run(s, b), s # <<>>
  PROVE  /\ Head(s) = b + 1
         /\ Run(Tail(s), b + 1)
         /\ Len(Tail(s)) = Len(s) - 1
  <1>1. /\ Len(s) \in Nat \ {0}
        /\ Len(Tail(s)) = Len(s) - 1
        /\ Head(s) = s[1]
        /\ \A i \in 1 .. Len(s) - 1 : Tail(s)[i] = s[i + 1]
    OBVIOUS
  <1>2. Head(s) = b + 1
    BY <1>1 DEF Run
  <1>3. ASSUME NEW i \in 1 .. Len(Tail(s))
        PROVE  Tail(s)[i] = b + 1 + i
    <2>1. i + 1 \in 1 .. Len(s) /\ Tail(s)[i] = s[i + 1]
      BY <1>1
    <2>2. s[i + 1] = b + (i + 1)
      BY <2>1 DEF Run
    <2>3. QED
      BY <2>1, <2>2
  <1>4. QED
    BY <1>1, <1>2, <1>3 DEF Run

\* Two runs that continue each other are one run.
LEMMA RunConcat ==
  ASSUME NEW s \in Seq(Nat), NEW t \in Seq(Nat), NEW b \in Nat,
         Run(s, b), Run(t, b + Len(s))
  PROVE  Run(s \o t, b)
  <1>1. /\ Len(s) \in Nat /\ Len(t) \in Nat
        /\ Len(s \o t) = Len(s) + Len(t)
        /\ \A i \in 1 .. Len(s) + Len(t) :
              (s \o t)[i] = IF i <= Len(s) THEN s[i] ELSE t[i - Len(s)]
    OBVIOUS
  <1>2. ASSUME NEW i \in 1 .. Len(s \o t)
        PROVE  (s \o t)[i] = b + i
    <2>1. CASE i <= Len(s)
      <3>1. i \in 1 .. Len(s) /\ (s \o t)[i] = s[i]
        BY <1>1, <2>1
      <3>2. QED
        BY <3>1 DEF Run
    <2>2. CASE ~ (i <= Len(s))
      <3>1. i - Len(s) \in 1 .. Len(t) /\ (s \o t)[i] = t[i - Len(s)]
        BY <1>1, <2>2
      <3>2. t[i - Len(s)] = b + Len(s) + (i - Len(s))
        BY <3>1 DEF Run
      <3>3. QED
        BY <1>1, <3>1, <3>2
    <2>3. QED
      BY <2>1, <2>2
  <1>3. QED
    BY <1>2 DEF Run

\* Before the replay query a connection has nothing to send, and before it is
\* subscribed no publication knows it.
QuietBeforeReplay(c) ==
    /\ connPc[c] \in {"none", "hello", "subscribe", "replay"}
          => written[c] = <<>> /\ sendCh[c] = <<>> /\ page[c] = <<>>
    /\ connPc[c] \in {"none", "hello", "subscribe"}
          => c \notin subs /\ \A e \in Events : c \notin targets[e]

\* Live events are kept back until the buffer is flushed.
KeptBack(c) == connPc[c] \in {"subscribe", "replay", "direct", "flush"} => c \in buffering

\* The socket, the channel and the page of an open client continue each other.
Contiguous(c) ==
    connPc[c] = "direct" =>
        /\ Run(written[c], after[c])
        /\ Run(sendCh[c], after[c] + Len(written[c]))
        /\ c \in open => Run(page[c], after[c] + Len(written[c]) + Len(sendCh[c]))

Ordered == \A c \in Conns : QuietBeforeReplay(c) /\ KeptBack(c) /\ Contiguous(c)

\* At the start no connection exists.
LEMMA InitOrdered == Init => Ordered
  BY DEF Init, Ordered, QuietBeforeReplay, KeptBack, Contiguous, Run

\* What a step of another connection must leave alone.
SameConnection(c) ==
    /\ connPc'[c] = connPc[c] /\ after'[c] = after[c]
    /\ written'[c] = written[c] /\ sendCh'[c] = sendCh[c] /\ page'[c] = page[c]
    /\ (c \in buffering') = (c \in buffering)
    /\ c \in open' => c \in open
    /\ c \in subs' => c \in subs
    /\ \A e \in Events : c \in targets'[e] => c \in targets[e] \cup subs

\* A connection that a step leaves alone keeps its order.
LEMMA SameConnectionOrdered ==
  ASSUME Ordered, NEW c \in Conns, SameConnection(c)
  PROVE  (QuietBeforeReplay(c) /\ KeptBack(c) /\ Contiguous(c))'
  <1>1. QuietBeforeReplay(c)'
    BY DEF Ordered, SameConnection, QuietBeforeReplay
  <1>2. KeptBack(c)'
    BY DEF Ordered, SameConnection, KeptBack
  <1>3. Contiguous(c)'
    BY DEF Ordered, SameConnection, Contiguous
  <1>4. QED
    BY <1>1, <1>2, <1>3

\* Only sendDirect sends before the flush: live events wait in the buffer.
LEMMA OrderedStep == Typed /\ Ordered /\ [Next]_vars => Ordered'
  <1> SUFFICES ASSUME Typed, Ordered, [Next]_vars, NEW c \in Conns
               PROVE  (QuietBeforeReplay(c) /\ KeptBack(c) /\ Contiguous(c))'
    BY DEF Ordered
  <1> DEFINE Goal == (QuietBeforeReplay(c) /\ KeptBack(c) /\ Contiguous(c))'
  <1>1. ASSUME SameConnection(c)
        PROVE  Goal
    BY <1>1, SameConnectionOrdered
  <1>2. QuietBeforeReplay(c) /\ KeptBack(c) /\ Contiguous(c)
    BY DEF Ordered
  <1>3. ASSUME NEW e \in Events,
               AppendRead(e) \/ AppendInsert(e) \/ PublishSnapshot(e) \/ PublishEnd(e)
        PROVE  SameConnection(c)
    BY <1>3 DEF AppendRead, AppendInsert, PublishSnapshot, PublishEnd, SameConnection,
                connVars, Typed, TypeOK
  <1>4. ASSUME NEW e \in Events, NEW d \in Conns, PublishSend(e, d)
        PROVE  Goal
    <2>1. /\ UNCHANGED <<written, page, connPc, after, buffering>>
          /\ open' \subseteq open /\ subs' \subseteq subs
          /\ \A f \in Events : targets'[f] \subseteq targets[f]
      BY <1>4 DEF PublishSend, close, connVars, Typed, TypeOK
    <2>2. CASE sendCh'[c] = sendCh[c]
      BY <1>1, <2>1, <2>2 DEF SameConnection
    <2>3. CASE sendCh'[c] # sendCh[c]
      <3>1. d = c /\ c \notin buffering /\ c \in targets[e]
        BY <1>4, <2>3 DEF PublishSend, Push, Typed, TypeOK
      <3>2. connPc[c] \notin {"none", "hello", "subscribe", "replay", "direct", "flush"}
        BY <1>2, <3>1 DEF QuietBeforeReplay, KeptBack
      <3>3. QED
        BY <2>1, <3>2 DEF QuietBeforeReplay, KeptBack, Contiguous
    <2>4. QED
      BY <2>2, <2>3
  <1>5. ASSUME NEW d \in Conns, d # c, Hello(d) \/ replayAndSubscribe(d) \/ runWriter(d)
        PROVE  SameConnection(c)
    <2>1. CASE Hello(d) \/ startBuffering(d) \/ subscribe(d) \/ ReplayError(d)
               \/ FlushBegin(d) \/ FlushEnd(d)
      BY <1>5, <2>1 DEF Hello, startBuffering, subscribe, ReplayError, FlushBegin, FlushEnd,
                        SameConnection, emitVars, Typed, TypeOK
    <2>2. CASE Replay(d)
      BY <1>5, <2>2, ReplayFrames DEF Replay, SameConnection, emitVars, Typed, TypeOK
    <2>3. CASE sendDirect(d)
      BY <1>5, <2>3 DEF sendDirect, Push, close, SameConnection, emitVars, Typed, TypeOK
    <2>4. CASE FlushOne(d)
      BY <1>5, <2>4 DEF FlushOne, Push, close, SameConnection, emitVars, connVars, Typed, TypeOK
    <2>5. CASE runWriter(d)
      BY <1>5, <2>5 DEF runWriter, SameConnection, emitVars, connVars, Typed, TypeOK
    <2>6. QED
      BY <1>5, <2>1, <2>2, <2>3, <2>4, <2>5 DEF replayAndSubscribe
  <1>6. CASE Hello(c) \/ startBuffering(c) \/ subscribe(c)
    <2>1. /\ UNCHANGED <<written, sendCh, page, targets>>
          /\ connPc[c] \in {"none", "hello", "subscribe"}
          /\ connPc'[c] \in {"hello", "subscribe", "replay"}
      BY <1>6 DEF Hello, startBuffering, subscribe, emitVars, Typed, TypeOK
    <2>2. QuietBeforeReplay(c)'
      BY <1>2, <1>6, <2>1 DEF QuietBeforeReplay, Hello, startBuffering, subscribe, Typed, TypeOK
    <2>3. KeptBack(c)'
      BY <1>2, <1>6 DEF KeptBack, Hello, startBuffering, subscribe, Typed, TypeOK
    <2>4. QED
      BY <2>1, <2>2, <2>3 DEF Contiguous
  <1>7. CASE Replay(c)
    <2>1. connPc[c] = "replay" /\ connPc'[c] = "direct" /\ c \in buffering
      BY <1>2, <1>7 DEF Replay, KeptBack, Typed, TypeOK
    <2>2. UNCHANGED <<written, sendCh, buffering, after>>
      BY <1>7 DEF Replay
    <2>3. written[c] = <<>> /\ sendCh[c] = <<>>
      BY <1>2, <2>1 DEF QuietBeforeReplay
    <2>4. Run(page'[c], after[c])
      BY <1>7, ReplayFrames DEF Run
    <2>5. after[c] \in Nat
      BY DEF Typed, TypeOK
    <2>6. Contiguous(c)'
      <3>1. Run(<<>>, after[c]) /\ Run(<<>>, after[c] + Len(<<>>))
        BY DEF Run
      <3>2. after[c] + Len(<<>>) + Len(<<>>) = after[c]
        BY <2>5
      <3>3. QED
        BY <2>2, <2>3, <2>4, <3>1, <3>2 DEF Contiguous
    <2>7. QED
      BY <2>1, <2>2, <2>6 DEF QuietBeforeReplay, KeptBack
  <1>8. CASE ReplayError(c)
    <2>1. connPc[c] = "replay" /\ connPc'[c] = "direct" /\ c \in buffering
      BY <1>2, <1>8 DEF ReplayError, KeptBack, Typed, TypeOK
    <2>2. UNCHANGED <<written, sendCh, page, buffering, after>>
      BY <1>8 DEF ReplayError
    <2>3. written[c] = <<>> /\ sendCh[c] = <<>> /\ page[c] = <<>>
      BY <1>2, <2>1 DEF QuietBeforeReplay
    <2>4. QED
      BY <2>1, <2>2, <2>3 DEF QuietBeforeReplay, KeptBack, Contiguous, Run
  <1>9. CASE sendDirect(c)
    <2>1. /\ connPc[c] = "direct" /\ page[c] # <<>>
          /\ page'[c] = Tail(page[c])
          /\ UNCHANGED <<connPc, written, buffering, after>>
      BY <1>9 DEF sendDirect, Typed, TypeOK
    <2>2. /\ page[c] \in Seq(Nat) /\ sendCh[c] \in Seq(Nat)
          /\ written[c] \in Seq(Nat) /\ after[c] \in Nat
      BY DEF Typed, TypeOK
    <2>3. CASE c \in open'
      <3>1. c \in open /\ sendCh'[c] = Append(sendCh[c], Head(page[c]))
        BY <1>9, <2>3 DEF sendDirect, Push, close, Typed, TypeOK
      <3>2. /\ Run(written[c], after[c])
            /\ Run(sendCh[c], after[c] + Len(written[c]))
            /\ Run(page[c], after[c] + Len(written[c]) + Len(sendCh[c]))
        BY <1>2, <2>1, <3>1 DEF Contiguous
      <3>3. /\ after[c] + Len(written[c]) \in Nat
            /\ after[c] + Len(written[c]) + Len(sendCh[c]) \in Nat
        BY <2>2
      <3>4. /\ Head(page[c]) = after[c] + Len(written[c]) + Len(sendCh[c]) + 1
            /\ Run(page'[c], after[c] + Len(written[c]) + Len(sendCh[c]) + 1)
        BY <2>1, <2>2, <3>2, <3>3, RunTail
      <3>5. /\ Run(sendCh'[c], after[c] + Len(written[c]))
            /\ Len(sendCh'[c]) = Len(sendCh[c]) + 1
        BY <2>2, <3>1, <3>2, <3>3, <3>4, RunAppend
      <3>6. after[c] + Len(written[c]) + Len(sendCh'[c])
               = after[c] + Len(written[c]) + Len(sendCh[c]) + 1
        <4>1. /\ after[c] \in Nat /\ Len(written[c]) \in Nat /\ Len(sendCh[c]) \in Nat
              /\ Len(sendCh'[c]) = Len(sendCh[c]) + 1
          BY <2>2, <3>5
        <4>2. QED
          BY <4>1
      <3>7. QED
        BY <1>2, <2>1, <3>2, <3>4, <3>5, <3>6 DEF QuietBeforeReplay, KeptBack, Contiguous
    <2>4. CASE c \notin open'
      <3>1. sendCh'[c] = sendCh[c]
        BY <1>9, <2>4 DEF sendDirect, close
      <3>2. QED
        BY <1>2, <2>1, <2>4, <3>1 DEF QuietBeforeReplay, KeptBack, Contiguous
    <2>5. QED
      BY <2>3, <2>4
  <1>10. CASE FlushBegin(c) \/ FlushEnd(c) \/ FlushOne(c)
    <2>1. connPc'[c] \in {"flush", "live"} /\ (connPc'[c] = "flush" => c \in buffering')
      BY <1>2, <1>10 DEF FlushBegin, FlushEnd, FlushOne, KeptBack, connVars, Typed, TypeOK
    <2>2. QED
      BY <2>1 DEF QuietBeforeReplay, KeptBack, Contiguous
  <1>11. CASE runWriter(c)
    <2>1. /\ sendCh[c] # <<>>
          /\ written'[c] = Append(written[c], Head(sendCh[c]))
          /\ sendCh'[c] = Tail(sendCh[c])
          /\ UNCHANGED <<connPc, page, buffering, after, open>>
      BY <1>11 DEF runWriter, connVars, Typed, TypeOK
    <2>2. /\ page[c] \in Seq(Nat) /\ sendCh[c] \in Seq(Nat)
          /\ written[c] \in Seq(Nat) /\ after[c] \in Nat
      BY DEF Typed, TypeOK
    <2>3. connPc[c] \notin {"none", "hello", "subscribe", "replay"}
      BY <1>2, <2>1 DEF QuietBeforeReplay
    <2>4. ASSUME connPc[c] = "direct"
          PROVE  Contiguous(c)'
      <3>1. /\ Run(written[c], after[c])
            /\ Run(sendCh[c], after[c] + Len(written[c]))
            /\ c \in open => Run(page[c], after[c] + Len(written[c]) + Len(sendCh[c]))
        BY <1>2, <2>4 DEF Contiguous
      <3>2. after[c] + Len(written[c]) \in Nat
        BY <2>2
      <3>3. /\ Head(sendCh[c]) = after[c] + Len(written[c]) + 1
            /\ Run(sendCh'[c], after[c] + Len(written[c]) + 1)
            /\ Len(sendCh'[c]) = Len(sendCh[c]) - 1
        BY <2>1, <2>2, <3>1, <3>2, RunTail
      <3>4. Run(written'[c], after[c]) /\ Len(written'[c]) = Len(written[c]) + 1
        BY <2>1, <2>2, <3>1, <3>3, RunAppend
      <3>5. /\ after[c] + Len(written'[c]) = after[c] + Len(written[c]) + 1
            /\ after[c] + Len(written'[c]) + Len(sendCh'[c])
                  = after[c] + Len(written[c]) + Len(sendCh[c])
        <4>1. /\ after[c] \in Nat /\ Len(written[c]) \in Nat /\ Len(sendCh[c]) \in Nat
              /\ Len(written'[c]) = Len(written[c]) + 1
              /\ Len(sendCh'[c]) = Len(sendCh[c]) - 1
          BY <2>2, <3>3, <3>4
        <4>2. QED
          BY <4>1
      <3>6. QED
        BY <2>1, <3>1, <3>3, <3>4, <3>5 DEF Contiguous
    <2>5. QED
      BY <1>2, <2>1, <2>3, <2>4 DEF QuietBeforeReplay, KeptBack, Contiguous
  <1>12. ASSUME NEW d \in Conns, Disconnect(d)
         PROVE  SameConnection(c)
    BY <1>12 DEF Disconnect, close, SameConnection, emitVars, connVars
  <1>13. CASE Crash
    <2>1. \/ connPc'[c] = "none" /\ connPc[c] = "none"
          \/ connPc'[c] = "dead"
      BY <1>13 DEF Crash, Typed, TypeOK
    <2>2. /\ written' = written /\ sendCh'[c] = <<>> /\ page'[c] = <<>> /\ subs' = {}
          /\ \A e \in Events : targets'[e] = {}
      BY <1>13 DEF Crash
    <2>3. QED
      BY <1>2, <2>1, <2>2 DEF QuietBeforeReplay, KeptBack, Contiguous
  <1>14. UNCHANGED vars => SameConnection(c)
    BY DEF vars, SameConnection, emitVars, connVars
  <1>15. QED
    BY <1>1, <1>3, <1>4, <1>5, <1>6, <1>7, <1>8, <1>9, <1>10, <1>11, <1>12, <1>13, <1>14
    DEF Next, emitEvent, replayAndSubscribe

\* Retained events come first, in order and without a hole, for any number of
\* emissions and any page (client.go, startBuffering).
THEOREM RetainedFirstTheorem == Spec => []RetainedFirst
  <1>1. Typed /\ Ordered => RetainedFirst
    <2> SUFFICES ASSUME Typed, Ordered, NEW c \in Conns, connPc[c] = "direct"
                 PROVE  Run(written[c] \o sendCh[c], after[c])
      BY DEF RetainedFirst, Run
    <2>1. written[c] \in Seq(Nat) /\ sendCh[c] \in Seq(Nat) /\ after[c] \in Nat
      BY DEF Typed, TypeOK
    <2>2. QED
      BY <2>1, RunConcat DEF Ordered, Contiguous
  <1>2. QED
    BY <1>1, InitTyped, TypedStep, InitOrdered, OrderedStep, PTL DEF Spec

-----------------------------------------------------------------------------
(* The refinement of EventFeed.                                            *)

Received(c) == {<<n, journal[n]>> : n \in FramesOf(written[c])}

\* The initial states map to the initial state of the feed.
LEMMA FeedInitMapped == Init => Feed!FeedInit
  BY FramesEmpty DEF Init, Feed!FeedInit

\* A successful INSERT maps to Record, a socket write to Receive, every other
\* step to a stutter.
LEMMA FeedStepMapped ==
  Typed /\ Numbered /\ Recoverable /\ [Next]_vars => [Feed!FeedNext]_(Feed!feedVars)
  <1> SUFFICES ASSUME Typed, Numbered, Recoverable, [Next]_vars
               PROVE  [Feed!FeedNext]_(Feed!feedVars)
    OBVIOUS
  <1> DEFINE received == [c \in Conns |-> Received(c)]
  <1>1. ASSUME UNCHANGED <<journal, written>>
        PROVE  UNCHANGED Feed!feedVars
    BY <1>1 DEF Feed!feedVars, Received
  <1>2. ASSUME NEW e \in Events, AppendInsert(e)
        PROVE  [Feed!FeedNext]_(Feed!feedVars)
    <2>1. written' = written /\ emitPc[e] = "insert" /\ emitPc'[e] \in {"snapshot", "lost"}
      BY <1>2 DEF AppendInsert, Typed, TypeOK
    <2>2. CASE emitPc'[e] = "lost"
      <3>1. journal' = journal
        BY <1>2, <2>2 DEF AppendInsert, Typed, TypeOK
      <3>2. QED
        BY <1>1, <2>1, <3>1
    <2>3. CASE emitPc'[e] = "snapshot"
      <3>1. journal' = Append(journal, e)
        BY <1>2, <2>3 DEF AppendInsert, Typed, TypeOK
      <3>2. \A n \in 1 .. Len(journal) : journal[n] # e
        BY <2>1 DEF Numbered, FreshUntilInsert
      <3>3. ASSUME NEW c \in Conns
            PROVE  Received(c)' = Received(c)
        <4>1. FramesOf(written[c]) \subseteq 1 .. Len(journal)
          BY DEF Recoverable, Stored
        <4>2. \A n \in FramesOf(written[c]) : journal'[n] = journal[n]
          BY <1>2, <2>3, <4>1, JournalGrows
        <4>3. QED
          BY <2>1, <4>2 DEF Received
      <3>4. Feed!Record(e)
        BY <3>1, <3>2, <3>3 DEF Feed!Record, Received
      <3>5. QED
        BY <3>4 DEF Feed!FeedNext
    <2>4. QED
      BY <2>1, <2>2, <2>3
  <1>3. ASSUME NEW c \in Conns, runWriter(c)
        PROVE  Feed!FeedNext
    <2> DEFINE n == Head(sendCh[c])
    <2>1. journal' = journal /\ n \in 1 .. Len(journal)
      BY <1>3, RunWriterFrames DEF runWriter, Recoverable, Stored
    <2>2. Received(c)' = Received(c) \cup {<<n, journal[n]>>}
      BY <1>3, <2>1, RunWriterFrames DEF Received
    <2>3. \A d \in Conns : d # c => Received(d)' = Received(d)
      BY <1>3, <2>1, RunWriterFrames DEF Received
    <2> HIDE DEF n
    <2>4. received' = [received EXCEPT ![c] = Received(c) \cup {<<n, journal[n]>>}]
      BY <2>2, <2>3
    <2>5. \E k \in 1 .. Len(journal) :
             received' = [received EXCEPT ![c] = Received(c) \cup {<<k, journal[k]>>}]
      BY <2>1, <2>4
    <2>6. \E k \in 1 .. Len(journal) : Feed!Receive(c, k)
      BY <2>1, <2>5 DEF Feed!Receive, Received
    <2>7. QED
      BY <2>6 DEF Feed!FeedNext
  <1>4. ASSUME NEW e \in Events, NEW c \in Conns,
               AppendRead(e) \/ PublishSnapshot(e) \/ PublishSend(e, c) \/ PublishEnd(e)
        PROVE  UNCHANGED <<journal, written>>
    BY <1>4 DEF AppendRead, PublishSnapshot, PublishSend, PublishEnd
  <1>5. ASSUME NEW c \in Conns, Hello(c) \/ replayAndSubscribe(c) \/ Disconnect(c)
        PROVE  UNCHANGED <<journal, written>>
    BY <1>5 DEF Hello, replayAndSubscribe, startBuffering, subscribe, Replay, ReplayError,
                sendDirect, FlushBegin, FlushOne, FlushEnd, Disconnect
  <1>6. ASSUME NEW e \in Events, AppendRead(e) \/ PublishSnapshot(e) \/ PublishEnd(e)
        PROVE  UNCHANGED <<journal, written>>
    BY <1>6 DEF AppendRead, PublishSnapshot, PublishEnd
  <1>7. Crash \/ UNCHANGED vars => UNCHANGED <<journal, written>>
    BY DEF Crash, vars
  <1>8. QED
    BY <1>1, <1>2, <1>3, <1>4, <1>5, <1>6, <1>7 DEF Next, emitEvent

\* Journal and gateway implement the append-only feed: every step is a step of
\* EventFeed or changes nothing a client can see (app.go, emitEvent; hub.go).
THEOREM FeedRefinement == Spec => ImplementsFeed
  BY FeedInitMapped, FeedStepMapped, DeliveryInvariant, PTL
  DEF Spec, ImplementsFeed, Feed!FeedSpec
=============================================================================
