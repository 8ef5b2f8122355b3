--------------------------- MODULE CommandsProofs ---------------------------
(***************************************************************************)
(* Idempotency keys for any number of requests and keys, any lifetime of   *)
(* an entry and any number of restarts.  A recording that is in force is   *)
(* covered by the entry under its key, even when a later recording has     *)
(* replaced it, because the clock never goes back; so a look-up that comes *)
(* after a recording hits, and never reaches the handler.                  *)
(***************************************************************************)
EXTENDS Commands, TLAPS

-----------------------------------------------------------------------------
(* The inductive invariant.                                                *)

\* What a request has at each of its steps.
RequestShape ==
    \A r \in Requests :
        /\ pc[r] \in {"lookup", "add"} => key[r] \in Keys
        /\ pc[r] = "add" => answer[r] \in Answers
        /\ pc[r] \in {"idle", "lookup", "handle"} => r \notin ran

\* A request that found recordings in force was answered without running.
HitIsFinal ==
    \A r \in Requests : prior[r] # {} => pc[r] = "done" /\ r \notin ran

\* Only an answered request has recorded its answer.
RecordedShape ==
    \A q \in Requests :
        addedAt[q] # NoEntry => pc[q] = "done" /\ key[q] \in Keys /\ addedAt[q] <= clock

\* When an answer recorded now, or at a time t, falls due.
Due(t) == IF front = "rest" THEN t + Expiry ELSE MaxTime

\* A recording in force is covered by an entry that falls due no earlier.
Covered ==
    \A q \in Requests :
        addedAt[q] # NoEntry /\ clock <= Due(addedAt[q]) =>
            store[key[q]] # NoEntry /\ Due(addedAt[q]) <= store[key[q]].expires

\* An entry holds the answer of one of the requests that recorded.
StoredBy ==
    \A k \in Keys : store[k] # NoEntry =>
        \E q \in Requests :
            /\ key[q] = k /\ addedAt[q] # NoEntry
            /\ store[k].answer = answer[q] /\ store[k].expires = Due(addedAt[q])

\* The recordings a request found were made by answered requests, and a
\* request that found a single one has its answer.
PriorAnswered ==
    \A r \in Requests :
        /\ \A q \in prior[r] : pc[q] = "done"
        /\ \A q \in Requests : prior[r] = {q} => answer[r] = answer[q]

IInv ==
    /\ TypeOK /\ RequestShape /\ HitIsFinal
    /\ RecordedShape /\ Covered /\ StoredBy /\ PriorAnswered

-----------------------------------------------------------------------------
(* What an answered request keeps.                                         *)

\* A step that leaves the answered requests alone, and the store, the clock
\* and the recordings, keeps what is said of the store.
LEMMA RecordsKept ==
  ASSUME TypeOK, RecordedShape, Covered, StoredBy,
         UNCHANGED <<store, front, clock, addedAt>>,
         \A q \in Requests : pc[q] = "done" =>
            pc'[q] = "done" /\ key'[q] = key[q] /\ answer'[q] = answer[q]
  PROVE  RecordedShape' /\ Covered' /\ StoredBy'
  <1>1. \A q \in Requests : addedAt[q] # NoEntry =>
            pc'[q] = "done" /\ key'[q] = key[q] /\ answer'[q] = answer[q]
    BY DEF RecordedShape
  <1>2. RecordedShape'
    BY <1>1 DEF RecordedShape
  <1>3. Covered'
    BY <1>1 DEF Covered, Due
  <1>4. StoredBy'
    <2> SUFFICES ASSUME NEW k \in Keys, store[k] # NoEntry
                 PROVE  \E q \in Requests :
                            /\ key'[q] = k /\ addedAt[q] # NoEntry
                            /\ store[k].answer = answer'[q]
                            /\ store[k].expires = Due(addedAt[q])
      BY DEF StoredBy, Due
    <2>1. PICK q \in Requests : /\ key[q] = k /\ addedAt[q] # NoEntry
                                /\ store[k].answer = answer[q]
                                /\ store[k].expires = Due(addedAt[q])
      BY DEF StoredBy
    <2>2. QED
      BY <1>1, <2>1
  <1>5. QED
    BY <1>2, <1>3, <1>4

\* It also keeps what is said of the requests that found recordings.
LEMMA PriorKept ==
  ASSUME TypeOK, HitIsFinal, PriorAnswered, prior' = prior,
         \A q \in Requests : pc[q] = "done" => pc'[q] = "done" /\ answer'[q] = answer[q]
  PROVE  PriorAnswered'
  <1>1. ASSUME NEW r \in Requests, NEW q \in prior[r]
        PROVE  pc'[q] = "done"
    BY <1>1 DEF PriorAnswered, TypeOK
  <1>2. ASSUME NEW r \in Requests, NEW q \in Requests, prior[r] = {q}
        PROVE  answer'[r] = answer'[q]
    <2>1. pc[r] = "done" /\ pc[q] = "done" /\ answer[r] = answer[q]
      BY <1>2 DEF PriorAnswered, HitIsFinal
    <2>2. QED
      BY <2>1
  <1>3. QED
    BY <1>1, <1>2 DEF PriorAnswered

-----------------------------------------------------------------------------
(* One lemma per action.                                                   *)

\* A request that is refused before its key is read changes only itself.
LEMMA RejectStep ==
  ASSUME IInv, NEW r \in Requests, Reject(r)
  PROVE  IInv'
  <1> USE DEF IInv, Reject, NextToArrive, Goto, Sent, histVars
  <1>1. TypeOK'
    BY DEF TypeOK, Answers
  <1>2. RequestShape' /\ HitIsFinal'
    BY DEF TypeOK, RequestShape, HitIsFinal
  <1>3. \A q \in Requests : pc[q] = "done" =>
            pc'[q] = "done" /\ key'[q] = key[q] /\ answer'[q] = answer[q]
    BY DEF TypeOK
  <1>4. QED
    BY <1>1, <1>2, <1>3, RecordsKept, PriorKept

\* An admitted request has recorded nothing yet.
LEMMA AdmitStep ==
  ASSUME IInv, NEW r \in Requests, NEW k \in Keys \cup {NoKey}, NEW valid \in BOOLEAN,
         Admit(r, k, valid)
  PROVE  IInv'
  <1> USE DEF IInv, Admit, NextToArrive, Goto, histVars
  <1>1. TypeOK'
    BY DEF TypeOK
  <1>2. RequestShape' /\ HitIsFinal'
    BY DEF TypeOK, RequestShape, HitIsFinal
  <1>3. \A q \in Requests : pc[q] = "done" =>
            pc'[q] = "done" /\ key'[q] = key[q] /\ answer'[q] = answer[q]
    BY DEF TypeOK
  <1>4. QED
    BY <1>1, <1>2, <1>3, RecordsKept, PriorKept

\* A refused request has not run, and a recording of its answer is still to
\* come.
LEMMA RefuseStep ==
  ASSUME IInv, NEW r \in Requests, Refuse(r)
  PROVE  IInv'
  <1> USE DEF IInv, Refuse, Goto, Sent, histVars
  <1>1. TypeOK'
    BY DEF TypeOK, Answers
  <1>2. RequestShape' /\ HitIsFinal'
    BY DEF TypeOK, RequestShape, HitIsFinal, Answers
  <1>3. \A q \in Requests : pc[q] = "done" =>
            pc'[q] = "done" /\ key'[q] = key[q] /\ answer'[q] = answer[q]
    BY DEF TypeOK
  <1>4. QED
    BY <1>1, <1>2, <1>3, RecordsKept, PriorKept

\* A request that runs had found no recording.
LEMMA RunStep ==
  ASSUME IInv, NEW r \in Requests, NEW class \in {"ok", "failed"}, Run(r, class)
  PROVE  IInv'
  <1> USE DEF IInv, Run, Goto, Sent, histVars
  <1>1. TypeOK'
    BY DEF TypeOK, Answers
  <1>2. RequestShape' /\ HitIsFinal'
    BY DEF TypeOK, RequestShape, HitIsFinal, Answers
  <1>3. \A q \in Requests : pc[q] = "done" =>
            pc'[q] = "done" /\ key'[q] = key[q] /\ answer'[q] = answer[q]
    BY DEF TypeOK
  <1>4. QED
    BY <1>1, <1>2, <1>3, RecordsKept, PriorKept

\* A look-up hits when a recording under its key is in force, and what it
\* replays was recorded by one of those requests.
LEMMA LookupStep ==
  ASSUME IInv, NEW r \in Requests, Lookup(r)
  PROVE  IInv'
  <1> USE CommandNames, CommandBounds DEF IInv, Goto
  <1>1. key[r] \in Keys /\ pc[r] = "lookup" /\ prior[r] = {} /\ r \notin ran
    BY DEF Lookup, RequestShape, HitIsFinal
  <1>2. TypeOK'
    <2>1. InForce(key[r]) \subseteq Requests
      BY DEF InForce
    <2>2. Get(r) => store[key[r]].answer \in Answers
      BY <1>1 DEF Get, TypeOK, Entries
    <2>3. QED
      BY <2>1, <2>2 DEF TypeOK, Lookup
  <1>3. \A q \in Requests : pc[q] = "done" =>
            pc'[q] = "done" /\ key'[q] = key[q] /\ answer'[q] = answer[q]
    BY DEF TypeOK, Lookup
  <1>4. RequestShape'
    BY <1>1 DEF TypeOK, RequestShape, Lookup
  <1>5. RecordedShape' /\ Covered' /\ StoredBy'
    BY <1>3, RecordsKept DEF Lookup
  <1>6. ASSUME NEW q \in InForce(key[r])
        PROVE  /\ q \in Requests /\ key[q] = key[r] /\ pc[q] = "done" /\ q # r
               /\ addedAt[q] # NoEntry /\ clock <= Due(addedAt[q])
    BY <1>1 DEF InForce, RecordedShape, Due, TypeOK
  <1>7. InForce(key[r]) # {} => Get(r)
    <2> SUFFICES ASSUME NEW q \in InForce(key[r])
                 PROVE  Get(r)
      OBVIOUS
    <2>1. store[key[r]] # NoEntry /\ Due(addedAt[q]) <= store[key[r]].expires
      BY <1>6 DEF Covered
    <2>2. store[key[r]].expires \in Nat /\ addedAt[q] \in Nat /\ clock \in Nat
      BY <1>1, <1>6, <2>1 DEF TypeOK, Entries
    <2>3. QED
      BY <1>6, <2>1, <2>2 DEF Get, Due
  <1>8. HitIsFinal'
    BY <1>1, <1>7 DEF HitIsFinal, Lookup, TypeOK
  <1>9. PriorAnswered'
    <2>1. ASSUME NEW s \in Requests, s # r
          PROVE  /\ \A q \in prior'[s] : pc'[q] = "done"
                 /\ \A q \in Requests : prior'[s] = {q} => answer'[s] = answer'[q]
      <3>1. prior'[s] = prior[s]
        BY <2>1 DEF Lookup, TypeOK
      <3>2. prior[s] # {} => pc[s] = "done"
        BY DEF HitIsFinal
      <3>3. \A q \in prior[s] : q \in Requests /\ pc[q] = "done"
        BY DEF PriorAnswered, TypeOK
      <3>4. \A q \in Requests : prior[s] = {q} => answer[s] = answer[q]
        BY DEF PriorAnswered
      <3>5. QED
        BY <1>3, <3>1, <3>2, <3>3, <3>4
    <2>2. prior'[r] = InForce(key[r])
      BY DEF Lookup, TypeOK
    <2>3. \A q \in prior'[r] : pc'[q] = "done"
      BY <1>3, <1>6, <2>2
    <2>4. ASSUME NEW q \in Requests, prior'[r] = {q}
          PROVE  answer'[r] = answer'[q]
      <3>1. q \in InForce(key[r]) /\ Get(r)
        BY <1>7, <2>2, <2>4
      <3>2. PICK p \in Requests : /\ key[p] = key[r] /\ addedAt[p] # NoEntry
                                  /\ store[key[r]].answer = answer[p]
                                  /\ store[key[r]].expires = Due(addedAt[p])
        BY <1>1, <3>1 DEF Get, StoredBy
      <3>3. p \in InForce(key[r])
        BY <3>1, <3>2 DEF Get, InForce, Due
      <3>4. answer'[r] = answer[q]
        BY <2>2, <2>4, <3>1, <3>2, <3>3 DEF Lookup, TypeOK
      <3>5. QED
        BY <1>3, <1>6, <3>1, <3>4
    <2>5. QED
      BY <2>1, <2>3, <2>4 DEF PriorAnswered
  <1>10. QED
    BY <1>2, <1>4, <1>5, <1>8, <1>9

\* A recording falls due no earlier than those before it.
LEMMA AddStep ==
  ASSUME IInv, NEW r \in Requests, Add(r)
  PROVE  IInv'
  <1> USE CommandNames, CommandBounds, EntryNames DEF IInv, Goto
  <1> DEFINE k == key[r]
  <1>1. k \in Keys /\ pc[r] = "add" /\ answer[r] \in Answers /\ prior[r] = {}
    BY DEF Add, RequestShape, HitIsFinal
  <1>2. Entry(r) \in Entries /\ Entry(r).answer = answer[r] /\ Entry(r).expires = Due(clock)
    BY <1>1 DEF Entry, Entries, TypeOK, Due
  <1>3. /\ store' = [store EXCEPT ![k] = Entry(r)]
        /\ addedAt' = [addedAt EXCEPT ![r] = clock]
        /\ pc' = [pc EXCEPT ![r] = "done"]
        /\ UNCHANGED <<clock, restarts, front, key, sound, answer, ran, prior>>
    BY DEF Add
  <1>4. TypeOK'
    BY <1>2, <1>3 DEF TypeOK
  <1>5. RequestShape' /\ HitIsFinal'
    BY <1>1, <1>3 DEF TypeOK, RequestShape, HitIsFinal
  <1>6. clock \in Nat /\ \A q \in Requests : addedAt[q] # NoEntry => addedAt[q] \in Nat
    BY DEF TypeOK
  <1>7. RecordedShape'
    BY <1>1, <1>3, <1>6 DEF RecordedShape, TypeOK
  <1>8. store'[k] = Entry(r) /\ Entry(r) # NoEntry
    BY <1>1, <1>2, <1>3 DEF TypeOK
  <1>9. Covered'
    <2> SUFFICES ASSUME NEW q \in Requests, addedAt'[q] # NoEntry, clock <= Due(addedAt'[q])
                 PROVE  store'[key[q]] # NoEntry /\ Due(addedAt'[q]) <= store'[key[q]].expires
      BY <1>3 DEF Covered, Due
    <2>1. CASE q = r
      BY <1>2, <1>3, <1>6, <1>8, <2>1 DEF Due, TypeOK
    <2>2. CASE q # r /\ key[q] = k
      <3>1. addedAt'[q] = addedAt[q] /\ addedAt[q] <= clock
        BY <1>3, <2>2 DEF TypeOK, RecordedShape
      <3>2. Due(addedAt'[q]) <= Due(clock)
        BY <1>6, <3>1 DEF Due
      <3>3. QED
        BY <1>2, <1>8, <2>2, <3>2
    <2>3. CASE q # r /\ key[q] # k
      <3>1. addedAt'[q] = addedAt[q] /\ store'[key[q]] = store[key[q]]
        BY <1>3, <2>3 DEF TypeOK, RecordedShape
      <3>2. QED
        BY <3>1 DEF Covered
    <2>4. QED
      BY <2>1, <2>2, <2>3
  <1>10. StoredBy'
    <2> SUFFICES ASSUME NEW j \in Keys, store'[j] # NoEntry
                 PROVE  \E q \in Requests :
                            /\ key[q] = j /\ addedAt'[q] # NoEntry
                            /\ store'[j].answer = answer[q]
                            /\ store'[j].expires = Due(addedAt'[q])
      BY <1>3 DEF StoredBy, Due
    <2>1. CASE j = k
      BY <1>2, <1>3, <1>6, <1>8, <2>1 DEF TypeOK
    <2>2. CASE j # k
      <3>1. store'[j] = store[j]
        BY <1>3, <2>2 DEF TypeOK
      <3>2. PICK q \in Requests : /\ key[q] = j /\ addedAt[q] # NoEntry
                                  /\ store[j].answer = answer[q]
                                  /\ store[j].expires = Due(addedAt[q])
        BY <3>1 DEF StoredBy
      <3>3. addedAt'[q] = addedAt[q]
        BY <1>3, <2>2, <3>2 DEF TypeOK
      <3>4. QED
        BY <3>1, <3>2, <3>3
    <2>3. QED
      BY <2>1, <2>2
  <1>11. PriorAnswered'
    BY <1>3, PriorKept DEF TypeOK
  <1>12. QED
    BY <1>4, <1>5, <1>7, <1>9, <1>10, <1>11

\* The ticker removes no entry that covers a recording in force.
LEMMA CleanupStep ==
  ASSUME IInv, cleanup
  PROVE  IInv'
  <1> USE CommandNames, CommandBounds DEF IInv
  <1>1. /\ UNCHANGED <<clock, restarts, front, key, sound, pc, answer, ran, addedAt, prior>>
        /\ store' = [k \in Keys |-> IF Overdue(k) THEN NoEntry ELSE store[k]]
    BY DEF cleanup, reqVars, histVars
  <1>2. TypeOK' /\ RequestShape' /\ HitIsFinal' /\ RecordedShape' /\ PriorAnswered'
    BY <1>1 DEF TypeOK, RequestShape, HitIsFinal, RecordedShape, PriorAnswered
  <1>3. Covered'
    <2> SUFFICES ASSUME NEW q \in Requests, addedAt[q] # NoEntry, clock <= Due(addedAt[q])
                 PROVE  store'[key[q]] # NoEntry /\ Due(addedAt[q]) <= store'[key[q]].expires
      BY <1>1 DEF Covered, Due
    <2>1. store[key[q]] # NoEntry /\ Due(addedAt[q]) <= store[key[q]].expires /\ key[q] \in Keys
      BY DEF Covered, RecordedShape
    <2>2. store[key[q]] \in Entries /\ addedAt[q] \in Nat /\ clock \in Nat
      BY <2>1 DEF TypeOK
    <2>3. ~Overdue(key[q])
      BY <2>1, <2>2 DEF Overdue, Due, Entries
    <2>4. QED
      BY <1>1, <2>1, <2>3
  <1>4. StoredBy'
    BY <1>1 DEF StoredBy, Due
  <1>5. QED
    BY <1>2, <1>3, <1>4

\* A restart forgets the store and the recordings together.
LEMMA RestartStep ==
  ASSUME IInv, Restart
  PROVE  IInv'
  <1> USE CommandBounds DEF IInv, Restart
  <1>1. TypeOK'
    BY DEF TypeOK
  <1>2. RequestShape' /\ HitIsFinal'
    BY DEF RequestShape, HitIsFinal
  <1>3. RecordedShape' /\ Covered' /\ StoredBy'
    BY DEF RecordedShape, Covered, StoredBy
  <1>4. PriorAnswered'
    BY PriorKept
  <1>5. QED
    BY <1>1, <1>2, <1>3, <1>4

\* Time takes recordings out of force and puts none in.
LEMMA TickStep ==
  ASSUME IInv, Tick
  PROVE  IInv'
  <1> USE CommandBounds DEF IInv
  <1>1. /\ UNCHANGED <<restarts, store, front, key, sound, pc, answer, ran, addedAt, prior>>
        /\ clock < MaxTime /\ clock' = clock + 1
    BY DEF Tick, reqVars, histVars
  <1>2. TypeOK' /\ RequestShape' /\ HitIsFinal' /\ PriorAnswered'
    BY <1>1 DEF TypeOK, RequestShape, HitIsFinal, PriorAnswered
  <1>3. clock \in Nat /\ \A q \in Requests : addedAt[q] # NoEntry => addedAt[q] \in Nat
    BY DEF TypeOK
  <1>4. RecordedShape'
    BY <1>1, <1>3 DEF RecordedShape
  <1>5. Covered'
    BY <1>1, <1>3 DEF Covered, Due
  <1>6. StoredBy'
    BY <1>1 DEF StoredBy, Due
  <1>7. QED
    BY <1>2, <1>4, <1>5, <1>6

-----------------------------------------------------------------------------
(* Theorems.                                                               *)

\* Before the first request nothing is recorded.
LEMMA InitInv == Init => IInv
  BY CommandBounds DEF Init, IInv, TypeOK, Fronts, RequestShape, HitIsFinal, RecordedShape, Covered,
     StoredBy, PriorAnswered

\* Every step keeps the invariant.
LEMMA NextInv == IInv /\ [Next]_vars => IInv'
  <1> SUFFICES ASSUME IInv, [Next]_vars
               PROVE  IInv'
    OBVIOUS
  <1>1. CASE UNCHANGED vars
    BY <1>1 DEF IInv, vars, reqVars, histVars, TypeOK, RequestShape, HitIsFinal, RecordedShape,
       Covered, StoredBy, PriorAnswered, Due
  <1>2. ASSUME NEW r \in Requests, Guarded(r)
        PROVE  IInv'
    BY <1>2, LookupStep, RefuseStep, RunStep, AddStep DEF Guarded
  <1>3. QED
    BY <1>1, <1>2, RejectStep, AdmitStep, CleanupStep, RestartStep, TickStep
    DEF Next, withIdempotency, Dispatch

\* The invariant holds throughout.
LEMMA Invariance == Spec => []IInv
  BY InitInv, NextInv, PTL DEF Spec

\* The requests, the store and the history keep their types (handlers.go,
\* session.IdempotencyStore, protocol.Dispatcher).
THEOREM TypeCorrect == Spec => []TypeOK
  BY Invariance, PTL DEF IInv

\* A request that looks its key up while an earlier recording under it is in
\* force never runs the command (withIdempotency and Dispatcher.Dispatch).
THEOREM NoSecondRun == Spec => []RetryDoesNotRunAgain
  <1>1. IInv => RetryDoesNotRunAgain
    BY DEF IInv, HitIsFinal, RetryDoesNotRunAgain
  <1>2. QED
    BY <1>1, Invariance, PTL

\* A retry that found one recording is sent that answer, although the entry
\* may have been written, replaced or removed since (idempotency.go, Get, Add).
THEOREM ReplayIsFaithful == Spec => []ReplayIsTheAnswer
  <1>1. IInv => ReplayIsTheAnswer
    BY DEF IInv, PriorAnswered, ReplayIsTheAnswer
  <1>2. QED
    BY <1>1, Invariance, PTL
=============================================================================
