------------------------ MODULE ApprovalBridgeProofs ------------------------
(***************************************************************************)
(* What the approval bridge guarantees for every number of approvals,      *)
(* calls, crashes and outages.  The argument: an approval that is still    *)
(* behind its original pointer is only ever touched under b.mu, so one     *)
(* call wins it; once it was won and persisted, a later incarnation can    *)
(* only load a terminal copy; hence nobody rewrites the row.               *)
(***************************************************************************)
EXTENDS ApprovalBridge, TLAPS

\* A call that took the approval for its decision.
Won(c) == pc[c] \in {"persist", "emit", "tell"} \/ result[c] = "applied"

\* Progress of a call and of the request of its target go together.
CallShape(c) ==
    /\ pc[c] = "idle" => target[c] = NoId /\ held[c] = NoObject /\ result[c] = "none"
    /\ pc[c] # "idle" => target[c] \in Ids /\ reqPc[target[c]] = "announced"
    /\ pc[c] \in {"load", "apply"} => held[c] = NoObject
    /\ held[c] \in {NoObject, target[c], c}
    /\ Won(c) \/ pc[c] = "persistExpired" => held[c] # NoObject
    /\ result[c] # "none" => pc[c] = "done"
    /\ c \in told => result[c] = "applied"

\* Before Request nothing of an approval exists; its row appears with
\* store.Create.
RequestShape(id) ==
    /\ reqPc[id] = "idle" => approvals[id] = NoObject /\ objState[id] = "none"
    /\ reqPc[id] = "create" => approvals[id] = id
    /\ reqPc[id] \in {"idle", "create"} => row[id] = "absent"
    /\ reqPc[id] = "announced" => row[id] # "absent"
    /\ approvals[id] = id => objState[id] # "none"

\* The map points to the object of Request or to a decided copy.
MapShape(id) ==
    \/ approvals[id] \in {NoObject, id}
    \/ /\ approvals[id] \in Calls
       /\ held[approvals[id]] = approvals[id]
       /\ objState[approvals[id]] \in Terminal

\* While the original object is in the map, every call on the approval works
\* on that object.
LiveOriginal(id, c) ==
    approvals[id] = id /\ target[c] = id =>
        held[c] # c /\ pc[c] \notin {"load", "apply", "dead"}

\* A call that is still working on the original works on what the map holds.
LiveHeld(c) ==
    pc[c] \in {"persist", "persistExpired", "emit", "tell"} /\ held[c] = target[c]
        => approvals[target[c]] = target[c]

\* The object a call decided or expired says so.
HeldState(c) ==
    /\ Won(c) => objState[held[c]] = want[c]
    /\ pc[c] = "persistExpired" => objState[held[c]] = "expired"
    /\ pc[c] = "apply" => objState[c] # "none"
    /\ pc[c] \in {"idle", "load"} => objState[c] = "none"

\* One call wins the original.
OneWinner(c, d) ==
    Won(c) /\ Won(d) /\ held[c] \in Ids /\ held[d] = held[c] => c = d

\* A persisted decision on the original stays on disk.
PersistedRow(c) ==
    Effective(c) /\ held[c] \in Ids => row[target[c]] = want[c]

\* Every copy of such an approval that a later incarnation loads is terminal
\* already, so nobody decides on it.
PersistedCopy(c, d) ==
    Effective(c) /\ held[c] \in Ids /\ target[d] = target[c] =>
        held[d] # d /\ (pc[d] = "apply" => objState[d] \in Terminal)

\* A pending original has no terminal row.
PendingRow(id) ==
    approvals[id] = id /\ objState[id] = "pending" => row[id] \in {"absent", "pending"}

IInv ==
    /\ StatesOK
    /\ \A c \in Calls : CallShape(c)
    /\ \A id \in Ids : RequestShape(id)
    /\ \A id \in Ids : MapShape(id)
    /\ \A id \in Ids, c \in Calls : LiveOriginal(id, c)
    /\ \A c \in Calls : LiveHeld(c)
    /\ \A c \in Calls : HeldState(c)
    /\ \A c, d \in Calls : OneWinner(c, d)
    /\ \A c \in Calls : PersistedRow(c)
    /\ \A c, d \in Calls : PersistedCopy(c, d)
    /\ \A id \in Ids : PendingRow(id)

\* A call that has left the lock and still owes the table its Update.
Writing(c, id) == pc[c] \in {"persist", "persistExpired"} /\ target[c] = id

\* Until the first outage the database is up, and the row of an announced
\* original says what the object says unless a call still owes the Update.
StoreAgrees ==
    /\ outages = 0 => StoreUp
    /\ \A id \in Ids :
          outages = 0 /\ approvals[id] = id /\ reqPc[id] = "announced" =>
              row[id] = objState[id] \/ \E c \in Calls : Writing(c, id)

\* No call decided this approval on a copy of its row.
NoCopy(id) == \A c \in Calls : target[c] = id => held[c] # c

\* Once approval.resolved was journaled for an approval decided through the map,
\* its object is terminal and no call is on the way to journaling another.
ResolvedShape(id) ==
    NoCopy(id) =>
        /\ resolved[id] \in {0, 1}
        /\ resolved[id] = 1 =>
              /\ objState[id] \in Terminal
              /\ \A c \in Calls : held[c] = id => pc[c] \notin {"persist", "emit"}

\* The frame conditions of the proofs: a step of call c leaves the other calls
\* alone.
OtherCallsKept(c) ==
    \A d \in Calls : d # c =>
        /\ pc'[d] = pc[d] /\ target'[d] = target[d] /\ want'[d] = want[d]
        /\ held'[d] = held[d] /\ result'[d] = result[d]

-----------------------------------------------------------------------------
\* The initial state satisfies the inductive invariant and the number types.
LEMMA InitInv == Init => NumbersOK /\ IInv
  <1>1. Init => NumbersOK
    BY DEF Init, NumbersOK
  <1>2. Init => IInv
    BY ApprovalNames
    DEF Init, IInv, StatesOK, CallShape, RequestShape, MapShape, LiveOriginal, LiveHeld,
        HeldState, OneWinner, PersistedRow, PersistedCopy, PendingRow, Won, Objects
  <1>3. QED
    BY <1>1, <1>2

-----------------------------------------------------------------------------
\* A call holding an object that is still pending has not decided or expired it.
LEMMA PendingUnwon ==
  ASSUME IInv, NEW d \in Calls, objState[held[d]] = "pending"
  PROVE  ~ Won(d) /\ pc[d] # "persistExpired"
  <1>1. want[d] # "pending"
    BY DEF IInv, StatesOK
  <1>2. QED
    BY <1>1 DEF IInv, HeldState

\* A call holding an object that expired has not decided it.
LEMMA ExpiredUnwon ==
  ASSUME IInv, NEW d \in Calls, objState[held[d]] = "expired"
  PROVE  ~ Won(d)
  <1>1. want[d] # "expired"
    BY DEF IInv, StatesOK
  <1>2. QED
    BY <1>1 DEF IInv, HeldState

\* A call that decided or expired an approval holds its object.
LEMMA HeldObject ==
  ASSUME IInv, NEW d \in Calls, Won(d) \/ pc[d] = "persistExpired"
  PROVE  held[d] \in Objects /\ held[d] \in {target[d], d}
  <1>1. held[d] # NoObject /\ held[d] \in {NoObject, target[d], d}
    BY DEF IInv, CallShape
  <1>2. held[d] \in Objects \cup {NoObject}
    BY DEF IInv, StatesOK
  <1>3. QED
    BY <1>1, <1>2

\* Nobody else has persisted a decision on the original of an approval that
\* call c is about to persist.
LEMMA AloneAtPersist ==
  ASSUME IInv, NEW c \in Calls, NEW d \in Calls, d # c,
         pc[c] \in {"persist", "persistExpired"},
         target[d] = target[c], held[d] \in Ids, Effective(d)
  PROVE  FALSE
  <1>1. held[c] # c
    BY DEF IInv, PersistedCopy
  <1>2. held[c] = target[c]
    BY <1>1, HeldObject DEF Won
  <1>3. Won(d)
    BY DEF Won, Effective
  <1>4. held[d] = held[c]
    BY <1>2, <1>3, HeldObject, ApprovalNames
  <1>5. CASE pc[c] = "persist"
    BY <1>3, <1>4, <1>5 DEF IInv, OneWinner, Won
  <1>6. CASE pc[c] = "persistExpired"
    <2>1. objState[held[c]] = "expired"
      BY <1>6 DEF IInv, HeldState
    <2>2. QED
      BY <1>3, <1>4, <2>1, ExpiredUnwon
  <1>7. QED
    BY <1>5, <1>6

\* The part of StatesOK that the critical section of Decide can disturb.
DecideStatesOK ==
    /\ objState \in [Objects -> ApprovalStates \cup {"none"}]
    /\ approvals \in [Ids -> Objects \cup {NoObject}]
    /\ pc \in [Calls -> {"idle", "load", "apply", "persist", "persistExpired",
                         "emit", "tell", "done", "dead"}]
    /\ held \in [Calls -> Objects \cup {NoObject}]
    /\ result \in [Calls -> {"none", "not found", "final", "expired",
                             "store failed", "applied"}]

\* The critical section of Decide keeps the types.
LEMMA ConcludeTypes ==
  ASSUME StatesOK, NEW c \in Calls, NEW id \in Ids, NEW o \in Objects,
         NEW w \in {"approved", "denied"}, Conclude(c, id, o, w)
  PROVE  DecideStatesOK'
  <1>1. CASE objState[o] # "pending"
    BY <1>1 DEF Conclude, StatesOK, DecideStatesOK
  <1>2. CASE objState[o] = "pending" /\ Overdue(o)
    BY ZenonT(60), <1>2 DEF Conclude, StatesOK, DecideStatesOK, ApprovalStates, Terminal
  <1>3. CASE objState[o] = "pending" /\ ~ Overdue(o)
    <2>1. /\ objState' = [objState EXCEPT ![o] = w]
          /\ approvals' = [approvals EXCEPT ![id] = o]
          /\ held' = [held EXCEPT ![c] = o]
          /\ pc' = [pc EXCEPT ![c] = "persist"]
          /\ result' = result
      BY <1>3 DEF Conclude
    <2>2. QED
      BY <2>1 DEF StatesOK, DecideStatesOK, ApprovalStates, Terminal
  <1>4. QED
    BY <1>1, <1>2, <1>3

\* What the critical section of Decide does to the object and the call.
LEMMA ConcludeEffect ==
  ASSUME StatesOK, NEW c \in Calls, NEW id \in Ids, NEW o \in Objects,
         NEW w \in {"approved", "denied"}, Conclude(c, id, o, w)
  PROVE  \/ /\ objState[o] # "pending"
            /\ pc'[c] = "done" /\ held'[c] = held[c] /\ result'[c] = "final"
            /\ approvals'[id] = approvals[id] /\ objState'[o] = objState[o]
         \/ /\ objState[o] = "pending"
            /\ pc'[c] = "persistExpired" /\ held'[c] = o /\ result'[c] = result[c]
            /\ approvals'[id] = approvals[id] /\ objState'[o] = "expired"
         \/ /\ objState[o] = "pending"
            /\ pc'[c] = "persist" /\ held'[c] = o /\ result'[c] = result[c]
            /\ approvals'[id] = o /\ objState'[o] = w
  <1>1. CASE objState[o] # "pending"
    BY <1>1 DEF Conclude, StatesOK
  <1>2. CASE objState[o] = "pending" /\ Overdue(o)
    BY <1>2 DEF Conclude, StatesOK
  <1>3. CASE objState[o] = "pending" /\ ~ Overdue(o)
    BY <1>3 DEF Conclude, StatesOK
  <1>4. QED
    BY <1>1, <1>2, <1>3

\* What DecideLookup can do: start a load, report a final state, or conclude a
\* pending original.
LEMMA LookupFrame ==
  ASSUME IInv, NEW c \in Calls, NEW id \in Ids, NEW w \in {"approved", "denied"},
         DecideLookup(c, id, w), held[c] = NoObject, result[c] = "none"
  PROVE  \/ /\ approvals[id] = NoObject /\ pc'[c] = "load"
            /\ held'[c] = NoObject /\ result'[c] = "none"
            /\ approvals' = approvals /\ objState' = objState
         \/ /\ pc'[c] = "done" /\ held'[c] = NoObject /\ result'[c] = "final"
            /\ approvals' = approvals /\ objState' = objState
         \/ /\ approvals[id] = id /\ objState[id] = "pending"
            /\ pc'[c] \in {"persist", "persistExpired"} /\ held'[c] = id
            /\ result'[c] = "none" /\ approvals' = approvals
            /\ objState'[id] = IF pc'[c] = "persist" THEN w ELSE "expired"
            /\ \A o \in Objects : o # id => objState'[o] = objState[o]
  <1>1. CASE ~ InMap(id)
    BY <1>1 DEF DecideLookup, InMap, IInv, StatesOK
  <1>2. CASE InMap(id) /\ objState[approvals[id]] # "pending"
    BY <1>2 DEF DecideLookup, Conclude, IInv, StatesOK
  <1>3. CASE InMap(id) /\ objState[approvals[id]] = "pending"
    <2>1. approvals[id] = id /\ id \in Objects
      BY <1>3 DEF IInv, MapShape, InMap, Terminal, Objects
    <2>2. approvals' = approvals
      BY <2>1 DEF DecideLookup, Conclude, IInv, StatesOK
    <2>3. \A o \in Objects : o # id => objState'[o] = objState[o]
      BY <2>1 DEF DecideLookup, Conclude, IInv, StatesOK
    <2>4. QED
      BY ZenonT(60), <1>3, <2>1, <2>2, <2>3 DEF DecideLookup, Conclude, IInv, StatesOK
  <1>4. QED
    BY <1>1, <1>2, <1>3


\* Request's map insert preserves the invariant (approval.go, Request).
LEMMA RequestPutStep ==
  ASSUME IInv, NEW id \in Ids, RequestPut(id)
  PROVE  IInv'
  <1>1. reqPc[id] = "idle" /\ approvals[id] = NoObject /\ row[id] = "absent"
    BY DEF IInv, RequestPut, RequestShape
  <1>2. reqPc'[id] = "create" /\ approvals'[id] = id /\ objState'[id] = "pending"
    BY DEF RequestPut, IInv, StatesOK, Objects
  <1>3. \A i \in Ids : i # id => reqPc'[i] = reqPc[i] /\ approvals'[i] = approvals[i]
    BY DEF RequestPut
  <1>4. \A o \in Objects : o # id => objState'[o] = objState[o]
    BY DEF RequestPut
  <1>5. UNCHANGED <<row, pc, target, want, held, result, told>>
    BY DEF RequestPut, rowVars, callVars, traceVars
  <1>6. \A d \in Calls : target[d] # id /\ held[d] # id
    BY <1>1, ApprovalNames DEF IInv, CallShape
  <1>7. StatesOK'
    BY DEF RequestPut, IInv, StatesOK, Objects, ApprovalStates, rowVars, callVars,
           traceVars, faultVars
  <1>8. ASSUME NEW d \in Calls PROVE CallShape(d)'
    BY <1>3, <1>5, <1>6 DEF IInv, CallShape, Won
  <1>9. ASSUME NEW i \in Ids PROVE RequestShape(i)'
    BY <1>1, <1>2, <1>3, <1>4, <1>5 DEF IInv, RequestShape, Objects
  <1>10. ASSUME NEW i \in Ids PROVE MapShape(i)'
    BY <1>2, <1>3, <1>4, <1>5, ApprovalNames DEF IInv, MapShape, Objects
  <1>11. ASSUME NEW i \in Ids, NEW d \in Calls PROVE LiveOriginal(i, d)'
    BY <1>3, <1>5, <1>6 DEF IInv, LiveOriginal
  <1>12. ASSUME NEW d \in Calls PROVE LiveHeld(d)'
    BY <1>3, <1>5, <1>6 DEF IInv, LiveHeld, CallShape
  <1>13. ASSUME NEW d \in Calls PROVE HeldState(d)'
    BY <1>4, <1>5, <1>6, ApprovalNames DEF IInv, HeldState, CallShape, Won, Objects
  <1>14. ASSUME NEW d \in Calls, NEW e \in Calls PROVE OneWinner(d, e)'
    BY <1>5 DEF IInv, OneWinner, Won
  <1>15. ASSUME NEW d \in Calls PROVE PersistedRow(d)'
    BY <1>5 DEF IInv, PersistedRow, Effective
  <1>16. ASSUME NEW d \in Calls, NEW e \in Calls PROVE PersistedCopy(d, e)'
    BY <1>4, <1>5, ApprovalNames DEF IInv, PersistedCopy, Effective, Objects
  <1>17. ASSUME NEW i \in Ids PROVE PendingRow(i)'
    BY <1>1, <1>3, <1>4, <1>5 DEF IInv, PendingRow, Objects
  <1>18. QED
    BY <1>7, <1>8, <1>9, <1>10, <1>11, <1>12, <1>13, <1>14, <1>15, <1>16, <1>17 DEF IInv

\* Request's insert of the row preserves the invariant (store.go, Create).
LEMMA RequestCreateStep ==
  ASSUME IInv, NEW id \in Ids, RequestCreate(id)
  PROVE  IInv'
  <1>1. reqPc[id] = "create" /\ approvals[id] = id /\ row[id] = "absent" /\ objState[id] # "none"
    BY DEF IInv, RequestCreate, RequestShape
  <1>2. \/ reqPc'[id] = "announced" /\ row'[id] = objState[id]
        \/ reqPc'[id] = "failed" /\ row'[id] = row[id]
    BY DEF RequestCreate, IInv, StatesOK, rowVars
  <1>3. \A i \in Ids : i # id => reqPc'[i] = reqPc[i] /\ row'[i] = row[i]
    BY DEF RequestCreate, IInv, StatesOK, rowVars
  <1>4. UNCHANGED <<approvals, objState, pc, target, want, held, result, told>>
    BY DEF RequestCreate, mapVars, callVars, traceVars
  <1>5. \A d \in Calls : target[d] # id /\ held[d] # id
    BY <1>1, ApprovalNames DEF IInv, CallShape
  <1>6. objState[id] \in ApprovalStates
    BY <1>1 DEF IInv, StatesOK, Objects
  <1>7. StatesOK'
    BY ZenonT(60), <1>6
    DEF RequestCreate, IInv, StatesOK, mapVars, rowVars, callVars, traceVars, faultVars
  <1>8. ASSUME NEW d \in Calls PROVE CallShape(d)'
    BY <1>3, <1>4, <1>5 DEF IInv, CallShape, Won
  <1>9. ASSUME NEW i \in Ids PROVE RequestShape(i)'
    BY <1>2, <1>3, <1>4, <1>6 DEF IInv, RequestShape, ApprovalStates, Terminal
  <1>10. ASSUME NEW i \in Ids PROVE MapShape(i)'
    BY <1>4 DEF IInv, MapShape
  <1>11. ASSUME NEW i \in Ids, NEW d \in Calls PROVE LiveOriginal(i, d)'
    BY <1>4 DEF IInv, LiveOriginal
  <1>12. ASSUME NEW d \in Calls PROVE LiveHeld(d)'
    BY <1>4 DEF IInv, LiveHeld
  <1>13. ASSUME NEW d \in Calls PROVE HeldState(d)'
    BY <1>4 DEF IInv, HeldState, Won
  <1>14. ASSUME NEW d \in Calls, NEW e \in Calls PROVE OneWinner(d, e)'
    BY <1>4 DEF IInv, OneWinner, Won
  <1>15. ASSUME NEW d \in Calls PROVE PersistedRow(d)'
    BY <1>3, <1>4, <1>5 DEF IInv, PersistedRow, CallShape, Effective
  <1>16. ASSUME NEW d \in Calls, NEW e \in Calls PROVE PersistedCopy(d, e)'
    BY <1>4 DEF IInv, PersistedCopy, Effective
  <1>17. ASSUME NEW i \in Ids PROVE PendingRow(i)'
    BY <1>2, <1>3, <1>4 DEF IInv, PendingRow
  <1>18. QED
    BY <1>7, <1>8, <1>9, <1>10, <1>11, <1>12, <1>13, <1>14, <1>15, <1>16, <1>17 DEF IInv

\* Decide's first critical section preserves the invariant: only a pending
\* original can be decided here, copies in the map are terminal.
LEMMA DecideLookupStep ==
  ASSUME IInv, NEW c \in Calls, NEW id \in Ids, NEW w \in {"approved", "denied"},
         DecideLookup(c, id, w)
  PROVE  IInv'
  <1>1. /\ pc[c] = "idle" /\ reqPc[id] = "announced" /\ held[c] = NoObject
        /\ result[c] = "none" /\ target[c] = NoId
    BY DEF IInv, DecideLookup, CallShape
  <1>2. target'[c] = id /\ want'[c] = w
    BY DEF DecideLookup, IInv, StatesOK
  <1>3. UNCHANGED <<row, reqPc, told, database>>
    BY DEF DecideLookup, rowVars, traceVars, faultVars
  <1>4. \/ /\ approvals[id] = NoObject /\ pc'[c] = "load"
           /\ held'[c] = NoObject /\ result'[c] = "none"
           /\ approvals' = approvals /\ objState' = objState
        \/ /\ pc'[c] = "done" /\ held'[c] = NoObject /\ result'[c] = "final"
           /\ approvals' = approvals /\ objState' = objState
        \/ /\ approvals[id] = id /\ objState[id] = "pending"
           /\ pc'[c] \in {"persist", "persistExpired"} /\ held'[c] = id
           /\ result'[c] = "none" /\ approvals' = approvals
           /\ objState'[id] = IF pc'[c] = "persist" THEN w ELSE "expired"
           /\ \A o \in Objects : o # id => objState'[o] = objState[o]
    BY <1>1, LookupFrame
  <1>5. OtherCallsKept(c)
    BY ZenonT(60) DEF DecideLookup, Conclude, IInv, StatesOK, OtherCallsKept
  <1>6. approvals[id] = id /\ objState[id] = "pending" =>
            \A d \in Calls : held[d] = id => ~ Won(d) /\ pc[d] # "persistExpired"
    BY PendingUnwon
  <1>7. \A i \in Ids : approvals[i] # c
    BY <1>1, ApprovalNames DEF IInv, MapShape
  <1>8. StatesOK'
    <2>1. CASE InMap(id)
      <3>1. approvals[id] \in Objects
        BY <2>1, approvals[id] \in Objects \cup {NoObject} DEF InMap, IInv, StatesOK
      <3>2. Conclude(c, id, approvals[id], w)
        BY <2>1 DEF DecideLookup
      <3>3. QED
        <4>1. StatesOK /\ target' \in [Calls -> Ids \cup {NoId}]
                       /\ want' \in [Calls -> {"approved", "denied"}]
          BY DEF DecideLookup, IInv, StatesOK
        <4>2. DecideStatesOK'
          BY <3>1, <3>2, <4>1, ConcludeTypes
        <4>3. QED
          BY <1>3, <4>1, <4>2 DEF StatesOK, DecideStatesOK
    <2>2. CASE ~ InMap(id)
      BY <1>3, <2>2 DEF DecideLookup, IInv, StatesOK
    <2>3. QED
      BY <2>1, <2>2
  <1>9. ASSUME NEW d \in Calls PROVE CallShape(d)'
    BY <1>1, <1>2, <1>3, <1>4, <1>5, ApprovalNames DEF IInv, CallShape, Won, OtherCallsKept
  <1>10. ASSUME NEW i \in Ids PROVE RequestShape(i)'
    BY <1>3, <1>4 DEF IInv, RequestShape, Objects
  <1>11. ASSUME NEW i \in Ids PROVE MapShape(i)'
    BY <1>4, <1>5, <1>7 DEF IInv, MapShape, OtherCallsKept, Terminal, Objects
  <1>12. ASSUME NEW i \in Ids, NEW d \in Calls PROVE LiveOriginal(i, d)'
    BY <1>2, <1>4, <1>5, ApprovalNames DEF IInv, LiveOriginal, OtherCallsKept
  <1>13. ASSUME NEW d \in Calls PROVE LiveHeld(d)'
    BY <1>4, <1>5 DEF IInv, LiveHeld, OtherCallsKept
  <1>14. ASSUME NEW d \in Calls PROVE HeldState(d)'
    BY <1>1, <1>2, <1>4, <1>5, <1>6
    DEF IInv, HeldState, CallShape, Won, OtherCallsKept, Objects
  <1>15. ASSUME NEW d \in Calls, NEW e \in Calls PROVE OneWinner(d, e)'
    BY <1>4, <1>5, <1>6 DEF IInv, OneWinner, Won, OtherCallsKept
  <1>16. ASSUME NEW d \in Calls PROVE PersistedRow(d)'
    BY <1>3, <1>4, <1>5 DEF IInv, PersistedRow, Effective, OtherCallsKept
  <1>17. ASSUME NEW d \in Calls, NEW e \in Calls PROVE PersistedCopy(d, e)'
    BY <1>4, <1>5, ApprovalNames DEF IInv, PersistedCopy, Effective, OtherCallsKept, Objects
  <1>18. ASSUME NEW i \in Ids PROVE PendingRow(i)'
    BY <1>3, <1>4 DEF IInv, PendingRow, Objects
  <1>19. QED
    BY <1>8, <1>9, <1>10, <1>11, <1>12, <1>13, <1>14, <1>15, <1>16, <1>17, <1>18 DEF IInv

\* Loading a private copy of the row preserves the invariant.
LEMMA DecideLoadStep ==
  ASSUME IInv, NEW c \in Calls, DecideLoad(c)
  PROVE  IInv'
  <1>1. /\ pc[c] = "load" /\ target[c] \in Ids /\ held[c] = NoObject /\ result[c] = "none"
        /\ c \notin told /\ row[target[c]] # "absent"
    BY DEF IInv, DecideLoad, CallShape, RequestShape
  <1>2. UNCHANGED <<approvals, row, reqPc, target, want, held, told, database>>
    BY DEF DecideLoad, rowVars, traceVars, faultVars
  <1>3. \/ /\ pc'[c] = "apply" /\ result'[c] = result[c]
           /\ objState'[c] = row[target[c]]
        \/ /\ pc'[c] = "done" /\ result'[c] = "not found"
           /\ objState'[c] = objState[c]
    BY ZenonT(60), <1>1 DEF DecideLoad, IInv, StatesOK, Objects
  <1>4. \A o \in Objects : o # c => objState'[o] = objState[o]
    BY DEF DecideLoad, IInv, StatesOK
  <1>5. OtherCallsKept(c)
    BY ZenonT(60) DEF DecideLoad, IInv, StatesOK, OtherCallsKept
  <1>6. row[target[c]] \in ApprovalStates
    BY <1>1 DEF IInv, StatesOK
  <1>7. \A i \in Ids : approvals[i] # c
    BY <1>1, ApprovalNames DEF IInv, MapShape
  <1>8. \A d \in Calls : held[d] # c
    BY <1>1, ApprovalNames DEF IInv, CallShape
  <1>9. \A d \in Calls : Won(d)' => Won(d) /\ d # c
    BY <1>1, <1>3, <1>5 DEF Won, OtherCallsKept
  <1>10. \A d \in Calls : Effective(d)' => Effective(d) /\ d # c
    BY <1>1, <1>3, <1>5 DEF Effective, OtherCallsKept
  <1>11. StatesOK'
    <2>1. StatesOK
      BY DEF IInv
    <2>2. objState' \in [Objects -> ApprovalStates \cup {"none"}]
      BY <1>6, <2>1 DEF DecideLoad, StatesOK
    <2>3. pc' \in [Calls -> {"idle", "load", "apply", "persist", "persistExpired",
                            "emit", "tell", "done", "dead"}]
      <3>1. \/ pc' = [pc EXCEPT ![c] = "apply"]
            \/ pc' = [pc EXCEPT ![c] = "done"]
        BY DEF DecideLoad
      <3>2. QED
        BY <2>1, <3>1 DEF StatesOK
    <2>4. result' \in [Calls -> {"none", "not found", "final", "expired",
                                "store failed", "applied"}]
      <3>1. result' = result \/ result' = [result EXCEPT ![c] = "not found"]
        BY DEF DecideLoad
      <3>2. QED
        BY <2>1, <3>1 DEF StatesOK
    <2>5. QED
      BY <1>2, <2>1, <2>2, <2>3, <2>4 DEF StatesOK
  <1>12. ASSUME NEW d \in Calls PROVE CallShape(d)'
    <2>1. CASE d = c
      BY <1>1, <1>2, <1>3, <2>1 DEF IInv, CallShape, Won
    <2>2. CASE d # c
      BY <1>2, <1>5, <2>2 DEF IInv, CallShape, Won, OtherCallsKept
    <2>3. QED
      BY <2>1, <2>2
  <1>13. ASSUME NEW i \in Ids PROVE RequestShape(i)'
    BY <1>2, <1>4, ApprovalNames DEF IInv, RequestShape, Objects
  <1>14. ASSUME NEW i \in Ids PROVE MapShape(i)'
    BY <1>2, <1>4, <1>8 DEF IInv, MapShape, Objects
  <1>15. ASSUME NEW i \in Ids, NEW d \in Calls PROVE LiveOriginal(i, d)'
    BY <1>1, <1>2, <1>5 DEF IInv, LiveOriginal, OtherCallsKept
  <1>16. ASSUME NEW d \in Calls PROVE LiveHeld(d)'
    BY <1>2, <1>3, <1>5 DEF IInv, LiveHeld, OtherCallsKept
  <1>17. ASSUME NEW d \in Calls PROVE HeldState(d)'
    <2>1. CASE d = c
      BY <1>1, <1>3, <1>6, <2>1 DEF HeldState, Won, ApprovalStates, Terminal
    <2>2. CASE d # c
      BY <1>4, <1>5, <1>8, <1>9, <2>2, HeldObject
      DEF IInv, HeldState, OtherCallsKept, Objects
    <2>3. QED
      BY <2>1, <2>2
  <1>18. ASSUME NEW d \in Calls, NEW e \in Calls PROVE OneWinner(d, e)'
    BY <1>2, <1>9 DEF IInv, OneWinner
  <1>19. ASSUME NEW d \in Calls PROVE PersistedRow(d)'
    BY <1>2, <1>10 DEF IInv, PersistedRow
  <1>20. ASSUME NEW d \in Calls, NEW e \in Calls PROVE PersistedCopy(d, e)'
    <2>1. CASE e = c
      <3>1. want[d] \in Terminal
        BY DEF IInv, StatesOK, Terminal
      <3>2. QED
        BY <1>2, <1>3, <1>10, <2>1, <3>1 DEF IInv, PersistedCopy, PersistedRow
    <2>2. CASE e # c
      BY <1>4, <1>5, <1>10, <2>2 DEF IInv, PersistedCopy, OtherCallsKept, Objects
    <2>3. QED
      BY <2>1, <2>2
  <1>21. ASSUME NEW i \in Ids PROVE PendingRow(i)'
    BY <1>2, <1>4, ApprovalNames DEF IInv, PendingRow, Objects
  <1>22. QED
    BY <1>11, <1>12, <1>13, <1>14, <1>15, <1>16, <1>17, <1>18, <1>19, <1>20, <1>21 DEF IInv

\* Deciding a private copy preserves the invariant.
LEMMA DecideApplyStep ==
  ASSUME IInv, NEW c \in Calls, DecideApply(c)
  PROVE  IInv'
  <1>1. /\ pc[c] = "apply" /\ target[c] \in Ids /\ held[c] = NoObject /\ result[c] = "none"
        /\ c \notin told /\ objState[c] # "none" /\ reqPc[target[c]] = "announced"
    BY DEF IInv, DecideApply, CallShape, HeldState
  <1>2. UNCHANGED <<row, reqPc, target, want, told, database>>
    BY DEF DecideApply, rowVars, traceVars, faultVars
  <1>3. \/ /\ pc'[c] = "done" /\ held'[c] = NoObject /\ result'[c] = "final"
           /\ approvals'[target[c]] = approvals[target[c]] /\ objState'[c] = objState[c]
        \/ /\ objState[c] = "pending" /\ pc'[c] = "persistExpired" /\ held'[c] = c
           /\ result'[c] = "none" /\ objState'[c] = "expired"
           /\ approvals'[target[c]] = approvals[target[c]]
        \/ /\ objState[c] = "pending" /\ pc'[c] = "persist" /\ held'[c] = c
           /\ result'[c] = "none" /\ approvals'[target[c]] = c /\ objState'[c] = want[c]
    <2>1. c \in Objects /\ want[c] \in {"approved", "denied"} /\ StatesOK
      BY DEF Objects, IInv, StatesOK
    <2>2. Conclude(c, target[c], c, want[c])
      BY DEF DecideApply
    <2>3. QED
      BY <1>1, <2>1, <2>2, ConcludeEffect
  <1>4. \A i \in Ids : i # target[c] => approvals'[i] = approvals[i]
    BY DEF DecideApply, Conclude, IInv, StatesOK
  <1>5. \A o \in Objects : o # c => objState'[o] = objState[o]
    BY DEF DecideApply, Conclude, IInv, StatesOK
  <1>6. OtherCallsKept(c)
    BY ZenonT(60) DEF DecideApply, Conclude, IInv, StatesOK, OtherCallsKept
  <1>7. approvals[target[c]] # target[c]
    BY <1>1 DEF IInv, LiveOriginal
  <1>8. \A i \in Ids : approvals[i] # c
    BY <1>1, ApprovalNames DEF IInv, MapShape
  <1>9. \A d \in Calls : held[d] # c
    BY <1>1, ApprovalNames DEF IInv, CallShape
  <1>10. StatesOK'
    <2>1. c \in Objects /\ want[c] \in {"approved", "denied"} /\ StatesOK
      BY DEF Objects, IInv, StatesOK
    <2>2. Conclude(c, target[c], c, want[c])
      BY DEF DecideApply
    <2>3. QED
      <3>1. target[c] \in Ids
        BY <1>1
      <3>2. DecideStatesOK'
        BY <2>1, <2>2, <3>1, ConcludeTypes
      <3>3. QED
        BY <1>2, <2>1, <3>2 DEF StatesOK, DecideStatesOK
  <1>11. ASSUME NEW d \in Calls PROVE CallShape(d)'
    BY <1>1, <1>2, <1>3, <1>6, ApprovalNames DEF IInv, CallShape, Won, OtherCallsKept
  <1>12. ASSUME NEW i \in Ids PROVE RequestShape(i)'
    BY <1>1, <1>2, <1>3, <1>4, <1>5, ApprovalNames DEF IInv, RequestShape, Objects
  <1>13. ASSUME NEW i \in Ids PROVE MapShape(i)'
    <2>1. want[c] \in Terminal
      BY DEF IInv, StatesOK, Terminal
    <2>2. CASE approvals'[i] = c
      BY <1>3, <1>4, <1>8, <2>1, <2>2 DEF MapShape
    <2>3. CASE approvals'[i] # c
      <3>1. approvals'[i] = approvals[i]
        BY <1>3, <1>4, <2>3
      <3>2. QED
        BY <1>5, <1>6, <2>3, <3>1 DEF IInv, MapShape, OtherCallsKept, Objects
    <2>4. QED
      BY <2>2, <2>3
  <1>14. ASSUME NEW i \in Ids, NEW d \in Calls PROVE LiveOriginal(i, d)'
    BY <1>2, <1>3, <1>4, <1>6, <1>7, ApprovalNames DEF IInv, LiveOriginal, OtherCallsKept
  <1>15. ASSUME NEW d \in Calls PROVE LiveHeld(d)'
    BY <1>1, <1>2, <1>3, <1>4, <1>6, <1>7, ApprovalNames
    DEF IInv, LiveHeld, CallShape, OtherCallsKept
  <1>16. ASSUME NEW d \in Calls PROVE HeldState(d)'
    BY <1>2, <1>3, <1>5, <1>6, ApprovalNames
    DEF IInv, HeldState, CallShape, Won, OtherCallsKept, Objects
  <1>17. ASSUME NEW d \in Calls, NEW e \in Calls PROVE OneWinner(d, e)'
    BY <1>3, <1>6, ApprovalNames DEF IInv, OneWinner, Won, OtherCallsKept
  <1>18. ASSUME NEW d \in Calls PROVE PersistedRow(d)'
    BY <1>2, <1>3, <1>6 DEF IInv, PersistedRow, Effective, OtherCallsKept
  <1>19. ASSUME NEW d \in Calls, NEW e \in Calls PROVE PersistedCopy(d, e)'
    BY <1>1, <1>2, <1>3, <1>5, <1>6
    DEF IInv, PersistedCopy, Effective, OtherCallsKept, Objects, Terminal
  <1>20. ASSUME NEW i \in Ids PROVE PendingRow(i)'
    BY <1>2, <1>3, <1>4, <1>5, ApprovalNames DEF IInv, PendingRow, Objects
  <1>21. QED
    BY <1>10, <1>11, <1>12, <1>13, <1>14, <1>15, <1>16, <1>17, <1>18, <1>19, <1>20 DEF IInv

\* Persisting an expiry met by Decide preserves the invariant.
LEMMA DecidePersistExpiredStep ==
  ASSUME IInv, NEW c \in Calls, DecidePersistExpired(c)
  PROVE  IInv'
  <1>1. /\ pc[c] = "persistExpired" /\ target[c] \in Ids /\ held[c] \in {target[c], c}
        /\ result[c] = "none" /\ c \notin told /\ row[target[c]] # "absent"
    BY DEF IInv, DecidePersistExpired, CallShape, RequestShape
  <1>2. UNCHANGED <<approvals, objState, reqPc, target, want, held, told, database>>
    BY DEF DecidePersistExpired, mapVars, traceVars, faultVars
  <1>3. /\ pc'[c] = "done" /\ result'[c] = "expired"
        /\ row'[target[c]] \in {row[target[c]], objState[held[c]]}
    BY DEF DecidePersistExpired, RowAfterUpdate, IInv, StatesOK
  <1>4. \A i \in Ids : i # target[c] => row'[i] = row[i]
    BY DEF DecidePersistExpired, RowAfterUpdate
  <1>5. OtherCallsKept(c)
    BY DEF DecidePersistExpired, OtherCallsKept
  <1>6. objState[held[c]] = "expired"
    BY <1>1 DEF IInv, HeldState
  <1>7. \A d \in Calls : d # c /\ target[d] = target[c] /\ held[d] \in Ids => ~ Effective(d)
    BY <1>1, AloneAtPersist
  <1>8. approvals[target[c]] = target[c] => objState[target[c]] # "pending"
    BY <1>1, <1>6 DEF IInv, LiveOriginal
  <1>9. StatesOK'
    BY <1>1, <1>2, <1>6
    DEF DecidePersistExpired, RowAfterUpdate, IInv, StatesOK, ApprovalStates, Terminal
  <1>10. ASSUME NEW d \in Calls PROVE CallShape(d)'
    <2>1. CASE d = c
      BY <1>1, <1>2, <1>3, <2>1 DEF IInv, CallShape
    <2>2. CASE d # c
      BY <1>2, <1>5, <2>2 DEF IInv, CallShape, Won, OtherCallsKept
    <2>3. QED
      BY <2>1, <2>2
  <1>11. ASSUME NEW i \in Ids PROVE RequestShape(i)'
    <2>1. want[c] # "absent" /\ reqPc[target[c]] = "announced"
      BY <1>1 DEF IInv, StatesOK, CallShape
    <2>2. row'[target[c]] # "absent"
      BY <1>1, <1>3, <1>6
    <2>3. QED
      BY <1>2, <1>4, <2>1, <2>2 DEF IInv, RequestShape
  <1>12. ASSUME NEW i \in Ids PROVE MapShape(i)'
    BY <1>2 DEF IInv, MapShape
  <1>13. ASSUME NEW i \in Ids, NEW d \in Calls PROVE LiveOriginal(i, d)'
    BY <1>2, <1>3, <1>5 DEF IInv, LiveOriginal, OtherCallsKept
  <1>14. ASSUME NEW d \in Calls PROVE LiveHeld(d)'
    BY <1>2, <1>3, <1>5 DEF IInv, LiveHeld, OtherCallsKept
  <1>15. ASSUME NEW d \in Calls PROVE HeldState(d)'
    BY <1>2, <1>3, <1>5 DEF IInv, HeldState, Won, OtherCallsKept
  <1>16. ASSUME NEW d \in Calls, NEW e \in Calls PROVE OneWinner(d, e)'
    BY <1>3, <1>5 DEF IInv, OneWinner, Won, OtherCallsKept
  <1>17. ASSUME NEW d \in Calls PROVE PersistedRow(d)'
    <2>1. CASE d = c
      BY <1>3, <2>1 DEF PersistedRow, Effective
    <2>2. CASE d # c
      <3>1. SUFFICES ASSUME Effective(d), held[d] \in Ids
                     PROVE  row'[target[d]] = want[d]
        BY <1>5, <2>2 DEF PersistedRow, Effective, OtherCallsKept
      <3>2. target[d] \in Ids /\ target[d] # target[c]
        BY <1>7, <2>2, <3>1 DEF IInv, CallShape, Effective
      <3>3. QED
        BY <1>4, <3>1, <3>2 DEF IInv, PersistedRow
    <2>3. QED
      BY <2>1, <2>2
  <1>18. ASSUME NEW d \in Calls, NEW e \in Calls PROVE PersistedCopy(d, e)'
    <2>1. CASE d = c
      BY <1>3, <2>1 DEF PersistedCopy, Effective
    <2>2. CASE d # c
      BY <1>2, <1>3, <1>5 DEF IInv, PersistedCopy, Effective, OtherCallsKept
    <2>3. QED
      BY <2>1, <2>2
  <1>19. ASSUME NEW i \in Ids PROVE PendingRow(i)'
    BY <1>2, <1>4, <1>8 DEF IInv, PendingRow
  <1>20. QED
    BY <1>9, <1>10, <1>11, <1>12, <1>13, <1>14, <1>15, <1>16, <1>17, <1>18, <1>19 DEF IInv

\* Persisting a decision preserves the invariant: the winner of the original
\* is alone, and no copy of its row is waiting to be decided.
LEMMA DecidePersistStep ==
  ASSUME IInv, NEW c \in Calls, DecidePersist(c)
  PROVE  IInv'
  <1>1. /\ pc[c] = "persist" /\ target[c] \in Ids /\ held[c] \in {target[c], c}
        /\ result[c] = "none" /\ c \notin told /\ row[target[c]] # "absent"
    BY DEF IInv, DecidePersist, CallShape, RequestShape, Won
  <1>2. UNCHANGED <<approvals, objState, reqPc, target, want, held, told, database>>
    BY DEF DecidePersist, mapVars, faultVars
  <1>3. \/ /\ pc'[c] = "emit" /\ result'[c] = "none"
           /\ row'[target[c]] = objState[held[c]]
        \/ /\ pc'[c] = "done" /\ result'[c] = "store failed"
           /\ row'[target[c]] = row[target[c]]
    BY ZenonT(60), <1>1 DEF DecidePersist, RowAfterUpdate, IInv, StatesOK
  <1>4. \A i \in Ids : i # target[c] => row'[i] = row[i]
    BY DEF DecidePersist, RowAfterUpdate, IInv, StatesOK
  <1>5. OtherCallsKept(c)
    BY ZenonT(60) DEF DecidePersist, IInv, StatesOK, OtherCallsKept
  <1>6. objState[held[c]] = want[c]
    BY <1>1 DEF IInv, HeldState, Won
  <1>7. \A d \in Calls : d # c /\ target[d] = target[c] /\ held[d] \in Ids => ~ Effective(d)
    BY <1>1, AloneAtPersist
  <1>8. approvals[target[c]] = target[c] => objState[target[c]] # "pending"
    BY <1>1, <1>6 DEF IInv, LiveOriginal, StatesOK
  <1>9. StatesOK'
    BY ZenonT(60), <1>1, <1>2, <1>6
    DEF DecidePersist, RowAfterUpdate, IInv, StatesOK, ApprovalStates, Terminal
  <1>10. ASSUME NEW d \in Calls PROVE CallShape(d)'
    <2>1. CASE d = c
      BY <1>1, <1>2, <1>3, <2>1 DEF IInv, CallShape, Won
    <2>2. CASE d # c
      BY <1>2, <1>5, <2>2 DEF IInv, CallShape, Won, OtherCallsKept
    <2>3. QED
      BY <2>1, <2>2
  <1>11. ASSUME NEW i \in Ids PROVE RequestShape(i)'
    <2>1. want[c] # "absent" /\ reqPc[target[c]] = "announced"
      BY <1>1 DEF IInv, StatesOK, CallShape
    <2>2. row'[target[c]] # "absent"
      BY <1>1, <1>3, <1>6, <2>1
    <2>3. QED
      BY <1>2, <1>4, <2>1, <2>2 DEF IInv, RequestShape
  <1>12. ASSUME NEW i \in Ids PROVE MapShape(i)'
    BY <1>2 DEF IInv, MapShape
  <1>13. ASSUME NEW i \in Ids, NEW d \in Calls PROVE LiveOriginal(i, d)'
    BY <1>2, <1>3, <1>5 DEF IInv, LiveOriginal, OtherCallsKept
  <1>14. ASSUME NEW d \in Calls PROVE LiveHeld(d)'
    BY <1>1, <1>2, <1>5 DEF IInv, LiveHeld, OtherCallsKept
  <1>15. ASSUME NEW d \in Calls PROVE HeldState(d)'
    BY <1>1, <1>2, <1>3, <1>5 DEF IInv, HeldState, Won, OtherCallsKept
  <1>16. ASSUME NEW d \in Calls, NEW e \in Calls PROVE OneWinner(d, e)'
    BY <1>1, <1>2, <1>5 DEF IInv, OneWinner, Won, OtherCallsKept
  <1>17. ASSUME NEW d \in Calls PROVE PersistedRow(d)'
    <2>1. CASE d = c
      BY <1>2, <1>3, <1>6, <2>1 DEF PersistedRow, Effective
    <2>2. CASE d # c
      <3>1. SUFFICES ASSUME Effective(d), held[d] \in Ids
                     PROVE  row'[target[d]] = want[d]
        BY <1>5, <2>2 DEF PersistedRow, Effective, OtherCallsKept
      <3>2. target[d] \in Ids /\ target[d] # target[c]
        BY <1>7, <2>2, <3>1 DEF IInv, CallShape, Effective
      <3>3. QED
        BY <1>4, <3>1, <3>2 DEF IInv, PersistedRow
    <2>3. QED
      BY <2>1, <2>2
  <1>18. ASSUME NEW d \in Calls, NEW e \in Calls PROVE PersistedCopy(d, e)'
    <2>1. CASE d = c
      BY <1>1, <1>2, <1>3, <1>5, <2>1, ApprovalNames
      DEF IInv, PersistedCopy, LiveHeld, LiveOriginal, OtherCallsKept
    <2>2. CASE d # c
      BY <1>2, <1>3, <1>5, <2>2 DEF IInv, PersistedCopy, Effective, OtherCallsKept
    <2>3. QED
      BY <2>1, <2>2
  <1>19. ASSUME NEW i \in Ids PROVE PendingRow(i)'
    BY <1>2, <1>4, <1>8 DEF IInv, PendingRow
  <1>20. QED
    BY <1>9, <1>10, <1>11, <1>12, <1>13, <1>14, <1>15, <1>16, <1>17, <1>18, <1>19 DEF IInv

\* Journalling the outcome preserves the invariant.
LEMMA ResolveEmitStep ==
  ASSUME IInv, NEW c \in Calls, ResolveEmit(c)
  PROVE  IInv'
  <1>1. pc[c] = "emit" /\ result[c] = "none" /\ c \notin told
    BY DEF IInv, ResolveEmit, CallShape
  <1>2. UNCHANGED <<approvals, objState, row, reqPc, target, want, held, told, database>>
    BY DEF ResolveEmit, mapVars, rowVars, faultVars
  <1>3. pc'[c] = "tell" /\ result'[c] = result[c]
    BY DEF ResolveEmit, IInv, StatesOK
  <1>4. OtherCallsKept(c)
    BY DEF ResolveEmit, OtherCallsKept
  <1>5. StatesOK'
    BY <1>2 DEF ResolveEmit, IInv, StatesOK
  <1>6. ASSUME NEW d \in Calls PROVE CallShape(d)'
    BY <1>1, <1>2, <1>3, <1>4 DEF IInv, CallShape, Won, OtherCallsKept
  <1>7. ASSUME NEW i \in Ids PROVE RequestShape(i)'
    BY <1>2 DEF IInv, RequestShape
  <1>8. ASSUME NEW i \in Ids PROVE MapShape(i)'
    BY <1>2 DEF IInv, MapShape
  <1>9. ASSUME NEW i \in Ids, NEW d \in Calls PROVE LiveOriginal(i, d)'
    BY <1>2, <1>3, <1>4 DEF IInv, LiveOriginal, OtherCallsKept
  <1>10. ASSUME NEW d \in Calls PROVE LiveHeld(d)'
    BY <1>1, <1>2, <1>4 DEF IInv, LiveHeld, OtherCallsKept
  <1>11. ASSUME NEW d \in Calls PROVE HeldState(d)'
    BY <1>1, <1>2, <1>3, <1>4 DEF IInv, HeldState, Won, OtherCallsKept
  <1>12. ASSUME NEW d \in Calls, NEW e \in Calls PROVE OneWinner(d, e)'
    BY <1>1, <1>2, <1>4 DEF IInv, OneWinner, Won, OtherCallsKept
  <1>13. ASSUME NEW d \in Calls PROVE PersistedRow(d)'
    BY <1>1, <1>2, <1>4 DEF IInv, PersistedRow, Effective, OtherCallsKept
  <1>14. ASSUME NEW d \in Calls, NEW e \in Calls PROVE PersistedCopy(d, e)'
    BY <1>1, <1>2, <1>3, <1>4 DEF IInv, PersistedCopy, Effective, OtherCallsKept
  <1>15. ASSUME NEW i \in Ids PROVE PendingRow(i)'
    BY <1>2 DEF IInv, PendingRow
  <1>16. QED
    BY <1>5, <1>6, <1>7, <1>8, <1>9, <1>10, <1>11, <1>12, <1>13, <1>14, <1>15 DEF IInv

\* Telling the adapter preserves the invariant.
LEMMA ResolveTellStep ==
  ASSUME IInv, NEW c \in Calls, ResolveTell(c)
  PROVE  IInv'
  <1>1. pc[c] = "tell" /\ result[c] = "none" /\ c \notin told
    BY DEF IInv, ResolveTell, CallShape
  <1>2. UNCHANGED <<approvals, objState, row, reqPc, target, want, held, database>>
    BY DEF ResolveTell, mapVars, rowVars, faultVars
  <1>3. pc'[c] = "done" /\ result'[c] = "applied" /\ told' \subseteq told \cup {c}
    BY DEF ResolveTell, IInv, StatesOK
  <1>4. OtherCallsKept(c)
    BY DEF ResolveTell, OtherCallsKept
  <1>5. StatesOK'
    BY <1>2 DEF ResolveTell, IInv, StatesOK
  <1>6. ASSUME NEW d \in Calls PROVE CallShape(d)'
    BY <1>1, <1>2, <1>3, <1>4 DEF IInv, CallShape, Won, OtherCallsKept
  <1>7. ASSUME NEW i \in Ids PROVE RequestShape(i)'
    BY <1>2 DEF IInv, RequestShape
  <1>8. ASSUME NEW i \in Ids PROVE MapShape(i)'
    BY <1>2 DEF IInv, MapShape
  <1>9. ASSUME NEW i \in Ids, NEW d \in Calls PROVE LiveOriginal(i, d)'
    BY <1>2, <1>3, <1>4 DEF IInv, LiveOriginal, OtherCallsKept
  <1>10. ASSUME NEW d \in Calls PROVE LiveHeld(d)'
    BY <1>2, <1>3, <1>4 DEF IInv, LiveHeld, OtherCallsKept
  <1>11. ASSUME NEW d \in Calls PROVE HeldState(d)'
    BY <1>1, <1>2, <1>3, <1>4 DEF IInv, HeldState, Won, OtherCallsKept
  <1>12. ASSUME NEW d \in Calls, NEW e \in Calls PROVE OneWinner(d, e)'
    BY <1>1, <1>2, <1>4 DEF IInv, OneWinner, Won, OtherCallsKept
  <1>13. ASSUME NEW d \in Calls PROVE PersistedRow(d)'
    BY <1>1, <1>2, <1>4 DEF IInv, PersistedRow, Effective, OtherCallsKept
  <1>14. ASSUME NEW d \in Calls, NEW e \in Calls PROVE PersistedCopy(d, e)'
    BY <1>1, <1>2, <1>3, <1>4 DEF IInv, PersistedCopy, Effective, OtherCallsKept
  <1>15. ASSUME NEW i \in Ids PROVE PendingRow(i)'
    BY <1>2 DEF IInv, PendingRow
  <1>16. QED
    BY <1>5, <1>6, <1>7, <1>8, <1>9, <1>10, <1>11, <1>12, <1>13, <1>14, <1>15 DEF IInv

\* The sweep preserves the invariant: it only meets pending originals, which
\* no call has won.
LEMMA CheckExpiryStep ==
  ASSUME IInv, CheckExpiry
  PROVE  IInv'
  <1>1. \A i \in Ids : PendingInMap(i) => approvals[i] = i
    BY DEF IInv, MapShape, PendingInMap, InMap, Terminal
  <1>2. \A o \in Objects :
            \/ objState'[o] = objState[o]
            \/ /\ o \in Ids /\ approvals[o] = o
               /\ objState[o] = "pending" /\ objState'[o] = "expired"
    BY <1>1 DEF CheckExpiry, PendingInMap
  <1>3. \A i \in Ids :
            \/ row'[i] = row[i]
            \/ /\ approvals[i] = i /\ objState[i] = "pending" /\ objState'[i] = "expired"
               /\ row[i] # "absent" /\ row'[i] = "expired"
    BY <1>1 DEF CheckExpiry, PendingInMap, Objects
  <1>4. UNCHANGED <<approvals, reqPc, pc, target, want, held, result, told, database>>
    BY DEF CheckExpiry, callVars, traceVars, faultVars
  <1>5. \A d \in Calls, i \in Ids : held[d] = i /\ objState[i] = "pending" =>
            ~ Won(d) /\ pc[d] # "persistExpired"
    BY PendingUnwon
  <1>6. StatesOK'
    <2>1. objState' \in [Objects -> ApprovalStates \cup {"none"}]
      BY DEF CheckExpiry, IInv, StatesOK, ApprovalStates, Terminal
    <2>2. row' \in [Ids -> ApprovalStates \cup {"absent"}]
      BY DEF CheckExpiry, IInv, StatesOK, ApprovalStates, Terminal
    <2>3. QED
      BY <1>4, <2>1, <2>2 DEF IInv, StatesOK
  <1>7. ASSUME NEW d \in Calls PROVE CallShape(d)'
    BY <1>4 DEF IInv, CallShape, Won
  <1>8. ASSUME NEW i \in Ids PROVE RequestShape(i)'
    BY <1>2, <1>3, <1>4 DEF IInv, RequestShape, Objects
  <1>9. ASSUME NEW i \in Ids PROVE MapShape(i)'
    BY <1>2, <1>4 DEF IInv, MapShape, Terminal, Objects
  <1>10. ASSUME NEW i \in Ids, NEW d \in Calls PROVE LiveOriginal(i, d)'
    BY <1>4 DEF IInv, LiveOriginal
  <1>11. ASSUME NEW d \in Calls PROVE LiveHeld(d)'
    BY <1>4 DEF IInv, LiveHeld
  <1>12. ASSUME NEW d \in Calls PROVE HeldState(d)'
    <2>1. Won(d) \/ pc[d] = "persistExpired" => objState'[held[d]] = objState[held[d]]
      BY <1>2, <1>5, HeldObject
    <2>2. objState'[d] = objState[d]
      BY <1>2, ApprovalNames DEF Objects
    <2>3. QED
      BY <1>4, <2>1, <2>2 DEF IInv, HeldState, Won
  <1>13. ASSUME NEW d \in Calls, NEW e \in Calls PROVE OneWinner(d, e)'
    BY <1>4 DEF IInv, OneWinner, Won
  <1>14. ASSUME NEW d \in Calls PROVE PersistedRow(d)'
    BY <1>3, <1>4, <1>5, ApprovalNames DEF IInv, PersistedRow, CallShape, Effective, Won
  <1>15. ASSUME NEW d \in Calls, NEW e \in Calls PROVE PersistedCopy(d, e)'
    BY <1>2, <1>4 DEF IInv, PersistedCopy, Effective, Objects, Terminal
  <1>16. ASSUME NEW i \in Ids PROVE PendingRow(i)'
    BY <1>2, <1>3, <1>4 DEF IInv, PendingRow, Objects
  <1>17. QED
    BY <1>6, <1>7, <1>8, <1>9, <1>10, <1>11, <1>12, <1>13, <1>14, <1>15, <1>16 DEF IInv

\* Cancelling at completion preserves the invariant.
LEMMA CancelStep ==
  ASSUME IInv, NEW id \in Ids, Cancel(id)
  PROVE  IInv'
  <1>1. approvals[id] = id /\ objState[id] = "pending"
    BY DEF IInv, MapShape, Cancel, PendingInMap, InMap, Terminal
  <1>2. objState'[id] = "cancelled" /\ \A o \in Objects : o # id => objState'[o] = objState[o]
    BY <1>1 DEF Cancel, IInv, StatesOK, Objects
  <1>3. /\ row'[id] = row[id] \/ (row[id] # "absent" /\ row'[id] = "cancelled")
        /\ \A i \in Ids : i # id => row'[i] = row[i]
    BY DEF Cancel, RowAfterUpdate
  <1>4. UNCHANGED <<approvals, reqPc, pc, target, want, held, result, told, database>>
    BY DEF Cancel, callVars, faultVars
  <1>5. \A d \in Calls : held[d] = id => ~ Won(d) /\ pc[d] # "persistExpired"
    BY <1>1, PendingUnwon
  <1>6. StatesOK'
    BY <1>4 DEF Cancel, RowAfterUpdate, IInv, StatesOK, ApprovalStates, Terminal
  <1>7. ASSUME NEW d \in Calls PROVE CallShape(d)'
    BY <1>4 DEF IInv, CallShape, Won
  <1>8. ASSUME NEW i \in Ids PROVE RequestShape(i)'
    BY <1>1, <1>2, <1>3, <1>4 DEF IInv, RequestShape, Objects
  <1>9. ASSUME NEW i \in Ids PROVE MapShape(i)'
    BY <1>2, <1>4 DEF IInv, MapShape, Terminal, Objects
  <1>10. ASSUME NEW i \in Ids, NEW d \in Calls PROVE LiveOriginal(i, d)'
    BY <1>4 DEF IInv, LiveOriginal
  <1>11. ASSUME NEW d \in Calls PROVE LiveHeld(d)'
    BY <1>4 DEF IInv, LiveHeld
  <1>12. ASSUME NEW d \in Calls PROVE HeldState(d)'
    <2>1. Won(d) \/ pc[d] = "persistExpired" => objState'[held[d]] = objState[held[d]]
      BY <1>2, <1>5, HeldObject
    <2>2. objState'[d] = objState[d]
      BY <1>2, ApprovalNames DEF Objects
    <2>3. QED
      BY <1>4, <2>1, <2>2 DEF IInv, HeldState, Won
  <1>13. ASSUME NEW d \in Calls, NEW e \in Calls PROVE OneWinner(d, e)'
    BY <1>4 DEF IInv, OneWinner, Won
  <1>14. ASSUME NEW d \in Calls PROVE PersistedRow(d)'
    BY <1>3, <1>4, <1>5, ApprovalNames DEF IInv, PersistedRow, CallShape, Effective, Won
  <1>15. ASSUME NEW d \in Calls, NEW e \in Calls PROVE PersistedCopy(d, e)'
    BY <1>2, <1>4 DEF IInv, PersistedCopy, Effective, Objects, Terminal
  <1>16. ASSUME NEW i \in Ids PROVE PendingRow(i)'
    BY <1>2, <1>3, <1>4 DEF IInv, PendingRow, Objects
  <1>17. QED
    BY <1>6, <1>7, <1>8, <1>9, <1>10, <1>11, <1>12, <1>13, <1>14, <1>15, <1>16 DEF IInv

\* Extending the deadline preserves the invariant: the row of a pending
\* original is pending or absent.
LEMMA ExtendExpiryStep ==
  ASSUME IInv, NEW id \in Ids, ExtendExpiry(id)
  PROVE  IInv'
  <1>1. approvals[id] = id /\ objState[id] = "pending"
    BY DEF IInv, MapShape, ExtendExpiry, PendingInMap, InMap, Terminal
  <1>2. row[id] \in {"absent", "pending"}
    BY <1>1 DEF IInv, PendingRow
  <1>3. row' = row
    BY <1>2 DEF ExtendExpiry, RowAfterUpdate, IInv, StatesOK
  <1>4. UNCHANGED <<approvals, objState, reqPc, pc, target, want, held, result, told, database>>
    BY DEF ExtendExpiry, callVars, traceVars, faultVars
  <1>5. StatesOK'
    BY <1>3, <1>4 DEF IInv, StatesOK
  <1>6. ASSUME NEW d \in Calls PROVE CallShape(d)'
    BY <1>4 DEF IInv, CallShape, Won
  <1>7. ASSUME NEW i \in Ids PROVE RequestShape(i)'
    BY <1>3, <1>4 DEF IInv, RequestShape
  <1>8. ASSUME NEW i \in Ids PROVE MapShape(i)'
    BY <1>4 DEF IInv, MapShape
  <1>9. ASSUME NEW i \in Ids, NEW d \in Calls PROVE LiveOriginal(i, d)'
    BY <1>4 DEF IInv, LiveOriginal
  <1>10. ASSUME NEW d \in Calls PROVE LiveHeld(d)'
    BY <1>4 DEF IInv, LiveHeld
  <1>11. ASSUME NEW d \in Calls PROVE HeldState(d)'
    BY <1>4 DEF IInv, HeldState, Won
  <1>12. ASSUME NEW d \in Calls, NEW e \in Calls PROVE OneWinner(d, e)'
    BY <1>4 DEF IInv, OneWinner, Won
  <1>13. ASSUME NEW d \in Calls PROVE PersistedRow(d)'
    BY <1>3, <1>4 DEF IInv, PersistedRow, Effective
  <1>14. ASSUME NEW d \in Calls, NEW e \in Calls PROVE PersistedCopy(d, e)'
    BY <1>4 DEF IInv, PersistedCopy, Effective
  <1>15. ASSUME NEW i \in Ids PROVE PendingRow(i)'
    BY <1>3, <1>4 DEF IInv, PendingRow
  <1>16. QED
    BY <1>5, <1>6, <1>7, <1>8, <1>9, <1>10, <1>11, <1>12, <1>13, <1>14, <1>15 DEF IInv

\* A crash preserves the invariant: the map is empty and every call in
\* progress is dead.
LEMMA CrashStep ==
  ASSUME IInv, Crash
  PROVE  IInv'
  <1>1. \A i \in Ids : approvals'[i] = NoObject
    BY DEF Crash
  <1>2. \A i \in Ids :
            \/ reqPc'[i] = reqPc[i] /\ reqPc[i] # "create"
            \/ reqPc'[i] = "failed" /\ reqPc[i] = "create"
    BY DEF Crash
  <1>3. \A d \in Calls :
            \/ pc'[d] = pc[d] /\ pc[d] \in {"idle", "done"}
            \/ pc'[d] = "dead" /\ pc[d] \notin {"idle", "done"}
    BY DEF Crash
  <1>4. UNCHANGED <<objState, row, target, want, held, result, told, database>>
    BY DEF Crash, rowVars
  <1>5. StatesOK'
    BY <1>4 DEF Crash, IInv, StatesOK
  <1>6. ASSUME NEW d \in Calls PROVE CallShape(d)'
    BY <1>2, <1>3, <1>4 DEF IInv, CallShape, Won
  <1>7. ASSUME NEW i \in Ids PROVE RequestShape(i)'
    BY <1>1, <1>2, <1>4, ApprovalNames DEF IInv, RequestShape
  <1>8. ASSUME NEW i \in Ids PROVE MapShape(i)'
    BY <1>1 DEF MapShape
  <1>9. ASSUME NEW i \in Ids, NEW d \in Calls PROVE LiveOriginal(i, d)'
    BY <1>1, ApprovalNames DEF LiveOriginal
  <1>10. ASSUME NEW d \in Calls PROVE LiveHeld(d)'
    BY <1>3 DEF LiveHeld
  <1>11. ASSUME NEW d \in Calls PROVE HeldState(d)'
    BY <1>3, <1>4 DEF IInv, HeldState, Won
  <1>12. ASSUME NEW d \in Calls, NEW e \in Calls PROVE OneWinner(d, e)'
    BY <1>3, <1>4 DEF IInv, OneWinner, Won
  <1>13. ASSUME NEW d \in Calls PROVE PersistedRow(d)'
    BY <1>3, <1>4 DEF IInv, PersistedRow, Effective
  <1>14. ASSUME NEW d \in Calls, NEW e \in Calls PROVE PersistedCopy(d, e)'
    BY <1>3, <1>4 DEF IInv, PersistedCopy, Effective
  <1>15. ASSUME NEW i \in Ids PROVE PendingRow(i)'
    BY <1>1, ApprovalNames DEF PendingRow
  <1>16. QED
    BY <1>5, <1>6, <1>7, <1>8, <1>9, <1>10, <1>11, <1>12, <1>13, <1>14, <1>15 DEF IInv

\* Time, database outages and stuttering touch nothing the invariant speaks of.
LEMMA QuietStep ==
  ASSUME IInv, Tick \/ StoreBreak \/ StoreHeal \/ UNCHANGED vars
  PROVE  IInv'
  <1>1. /\ UNCHANGED <<approvals, objState, row, reqPc, pc, target, want, held,
                       result, told>>
        /\ database' \in {"up", "down"}
    BY DEF IInv, StatesOK, Tick, StoreBreak, StoreHeal, vars, mapVars, rowVars, callVars,
           traceVars, faultVars
  <1>2. StatesOK'
    BY <1>1 DEF IInv, StatesOK
  <1>3. QED
    BY <1>1, <1>2
    DEF IInv, CallShape, RequestShape, MapShape, LiveOriginal, LiveHeld, HeldState,
        OneWinner, PersistedRow, PersistedCopy, PendingRow, Won, Effective

\* Every step of the bridge, its callers and the faults preserves the invariant.
LEMMA NextInv == IInv /\ [Next]_vars => IInv'
  <1>1. SUFFICES ASSUME IInv, [Next]_vars PROVE IInv'
    OBVIOUS
  <1>2. ASSUME NEW id \in Ids, RequestPut(id) \/ RequestCreate(id)
        PROVE  IInv'
    BY <1>1, <1>2, RequestPutStep, RequestCreateStep
  <1>3. ASSUME NEW id \in Ids, Cancel(id) \/ ExtendExpiry(id)
        PROVE  IInv'
    BY <1>1, <1>3, CancelStep, ExtendExpiryStep
  <1>4. ASSUME NEW c \in Calls, ResolveApproval(c)
        PROVE  IInv'
    <2>1. CASE \E id \in Ids, w \in {"approved", "denied"} : DecideLookup(c, id, w)
      BY <1>1, <2>1, DecideLookupStep
    <2>2. CASE DecideLoad(c) \/ DecideApply(c)
      BY <1>1, <2>2, DecideLoadStep, DecideApplyStep
    <2>3. CASE DecidePersistExpired(c) \/ DecidePersist(c)
      BY <1>1, <2>3, DecidePersistExpiredStep, DecidePersistStep
    <2>4. CASE ResolveEmit(c) \/ ResolveTell(c)
      BY <1>1, <2>4, ResolveEmitStep, ResolveTellStep
    <2>5. QED
      BY <1>4, <2>1, <2>2, <2>3, <2>4 DEF ResolveApproval
  <1>5. CASE CheckExpiry \/ Crash
    BY <1>1, <1>5, CheckExpiryStep, CrashStep
  <1>6. CASE Tick \/ StoreBreak \/ StoreHeal \/ UNCHANGED vars
    BY <1>1, <1>6, QuietStep
  <1>7. QED
    BY <1>1, <1>2, <1>3, <1>4, <1>5, <1>6 DEF Next

\* The invariant holds in every reachable state.
LEMMA InductiveInvariant == Spec => []IInv
  <1>1. Init => IInv
    BY InitInv
  <1>2. QED
    BY <1>1, NextInv, PTL DEF Spec

-----------------------------------------------------------------------------
\* The clock, the deadlines and the counters stay natural numbers.
LEMMA NumbersStep ==
  ASSUME IInv, NumbersOK, [Next]_vars
  PROVE  NumbersOK'
  <1> USE ApprovalBounds
  <1>1. ASSUME NEW id \in Ids, RequestPut(id) PROVE NumbersOK'
    <2>1. clock + DefaultExpiry \in Nat
      BY DEF NumbersOK
    <2>2. QED
      BY <1>1, <2>1 DEF RequestPut, NumbersOK, rowVars, traceVars, faultVars
  <1>2. ASSUME NEW id \in Ids, RequestCreate(id) PROVE NumbersOK'
    <2>1. objExpires[id] \in Nat
      BY DEF NumbersOK, Objects
    <2>2. QED
      BY <1>2, <2>1 DEF RequestCreate, NumbersOK, mapVars, rowVars, traceVars, faultVars
  <1>3. ASSUME NEW id \in Ids, Cancel(id) PROVE NumbersOK'
    <2>1. resolved[id] + (IF StoreUp THEN 1 ELSE 0) \in Nat
      BY DEF NumbersOK
    <2>2. QED
      BY <1>3 DEF Cancel, NumbersOK, faultVars
  <1>4. ASSUME NEW id \in Ids, ExtendExpiry(id) PROVE NumbersOK'
    <2>1. approvals[id] \in Objects
      <3>1. approvals[id] \in Objects \cup {NoObject}
        BY DEF IInv, StatesOK
      <3>2. QED
        BY <1>4, <3>1 DEF ExtendExpiry, PendingInMap, InMap
    <2>2. objExpires[approvals[id]] + Extension \in Nat
      BY <2>1 DEF NumbersOK
    <2>3. QED
      BY <1>4, <2>2 DEF ExtendExpiry, NumbersOK, traceVars, faultVars
  <1>5. ASSUME NEW c \in Calls, NEW id \in Ids, NEW w \in {"approved", "denied"},
               DecideLookup(c, id, w)
        PROVE  NumbersOK'
    BY <1>5 DEF DecideLookup, NumbersOK, rowVars, traceVars, faultVars
  <1>6. ASSUME NEW c \in Calls, DecideLoad(c) PROVE NumbersOK'
    <2>1. rowExpires[target[c]] \in Nat
      BY <1>6 DEF DecideLoad, NumbersOK, IInv, CallShape
    <2>2. QED
      BY <1>6, <2>1 DEF DecideLoad, NumbersOK, rowVars, traceVars, faultVars
  <1>7. ASSUME NEW c \in Calls, DecideApply(c) \/ DecidePersistExpired(c) \/ ResolveTell(c)
        PROVE  NumbersOK'
    BY <1>7
    DEF DecideApply, DecidePersistExpired, ResolveTell, NumbersOK, mapVars, rowVars,
        traceVars, faultVars
  <1>8. ASSUME NEW c \in Calls, DecidePersist(c) PROVE NumbersOK'
    <2>1. decisionLen \in Nat
      BY DEF NumbersOK
    <2>2. decisionLen' \in {decisionLen, decisionLen + 1}
      BY <1>8 DEF DecidePersist
    <2>3. decisionLen' \in Nat
      BY <2>1, <2>2
    <2>4. QED
      BY <1>8, <2>3 DEF DecidePersist, NumbersOK, mapVars, faultVars
  <1>9. ASSUME NEW c \in Calls, ResolveEmit(c) PROVE NumbersOK'
    <2>1. target[c] \in Ids
      BY <1>9 DEF ResolveEmit, IInv, CallShape
    <2>2. resolved[target[c]] + (IF StoreUp THEN 1 ELSE 0) \in Nat
      BY <2>1 DEF NumbersOK
    <2>3. QED
      BY <1>9, <2>2 DEF ResolveEmit, NumbersOK, mapVars, rowVars, faultVars
  <1>10. CASE CheckExpiry
    BY <1>10 DEF CheckExpiry, NumbersOK, traceVars, faultVars
  <1>11. CASE Tick \/ StoreBreak \/ StoreHeal \/ Crash
    BY <1>11
    DEF Tick, StoreBreak, StoreHeal, Crash, NumbersOK, mapVars, rowVars, traceVars,
        faultVars
  <1>12. CASE UNCHANGED vars
    BY <1>12 DEF vars, NumbersOK, mapVars, rowVars, traceVars, faultVars
  <1>13. QED
    BY <1>1, <1>2, <1>3, <1>4, <1>5, <1>6, <1>7, <1>8, <1>9, <1>10, <1>11, <1>12
    DEF Next, ResolveApproval

\* Every variable keeps its type in every reachable state.
THEOREM TypeCorrect == Spec => []TypeOK
  <1>1. Init => NumbersOK /\ IInv
    BY InitInv
  <1>2. NumbersOK /\ IInv /\ [Next]_vars => (NumbersOK /\ IInv)'
    BY NumbersStep, NextInv
  <1>3. NumbersOK /\ IInv => TypeOK
    BY DEF IInv, TypeOK
  <1>4. QED
    BY <1>1, <1>2, <1>3, PTL DEF Spec

\* Decide accepts at most one decision on an approval reached through the map,
\* however calls, sweeps, cancellations, crashes and outages interleave; two
\* decisions are only possible when both were made on copies of the row.
THEOREM DecidedOnceTheorem == Spec => []DecidedOnce
  <1>1. IInv => DecidedOnce
    <2>1. SUFFICES ASSUME IInv, NEW c \in Calls, NEW d \in Calls, c # d,
                          Effective(c), Effective(d), target[c] = target[d],
                          held[c] # c
                   PROVE  FALSE
      <3>1. ASSUME IInv, ~ DecidedOnce
            PROVE  \E c, d \in Calls : /\ c # d /\ Effective(c) /\ Effective(d)
                                       /\ target[c] = target[d] /\ held[c] # c
        BY <3>1 DEF DecidedOnce
      <3>2. QED
        BY <3>1
    <2>2. Won(c) /\ Won(d)
      BY <2>1 DEF Won, Effective
    <2>3. target[c] \in Ids
      BY <2>1 DEF IInv, CallShape, Effective
    <2>4. held[c] = target[c]
      BY <2>1, <2>2, HeldObject
    <2>5. held[d] # d
      BY <2>1, <2>3, <2>4 DEF IInv, PersistedCopy
    <2>6. held[d] = target[d]
      BY <2>1, <2>2, <2>5, HeldObject
    <2>7. QED
      BY <2>1, <2>2, <2>3, <2>4, <2>6 DEF IInv, OneWinner
  <1>2. QED
    BY <1>1, InductiveInvariant, PTL

-----------------------------------------------------------------------------
\* No step revises an outcome in memory: the critical sections of Decide,
\* Cancel and the sweep only write over "pending", a load only fills a copy
\* that has no state yet.
LEMMA TerminalKept ==
  ASSUME IInv, [Next]_vars, NEW o \in Objects, objState[o] \in Terminal
  PROVE  objState'[o] = objState[o]
  <1>1. objState[o] # "pending" /\ objState[o] # "none" /\ StatesOK
    BY DEF Terminal, IInv
  <1>2. ASSUME NEW id \in Ids, RequestPut(id) PROVE objState'[o] = objState[o]
    <2>1. objState[id] = "none"
      BY <1>2 DEF RequestPut, IInv, RequestShape
    <2>2. QED
      BY <1>1, <1>2, <2>1 DEF RequestPut
  <1>3. ASSUME NEW id \in Ids, Cancel(id) PROVE objState'[o] = objState[o]
    BY <1>1, <1>3 DEF Cancel, PendingInMap
  <1>4. ASSUME NEW c \in Calls, NEW id \in Ids, NEW x \in Objects, NEW w,
               Conclude(c, id, x, w)
        PROVE  objState'[o] = objState[o]
    BY <1>1, <1>4 DEF Conclude, StatesOK
  <1>5. ASSUME NEW c \in Calls, ResolveApproval(c) PROVE objState'[o] = objState[o]
    <2>1. CASE \E id \in Ids, w \in {"approved", "denied"} : DecideLookup(c, id, w)
      <3>1. PICK id \in Ids, w \in {"approved", "denied"} : DecideLookup(c, id, w)
        BY <2>1
      <3>2. approvals[id] \in Objects \cup {NoObject}
        BY <1>1 DEF StatesOK
      <3>3. QED
        BY <1>4, <3>1, <3>2 DEF DecideLookup, InMap
    <2>2. CASE DecideLoad(c)
      <3>1. objState[c] = "none"
        BY <2>2 DEF DecideLoad, IInv, HeldState
      <3>2. QED
        BY <1>1, <2>2, <3>1 DEF DecideLoad, StatesOK
    <2>3. CASE DecideApply(c)
      <3>1. c \in Objects /\ target[c] \in Ids
        BY <2>3 DEF DecideApply, Objects, IInv, CallShape
      <3>2. QED
        BY <1>4, <2>3, <3>1 DEF DecideApply
    <2>4. CASE DecidePersistExpired(c) \/ DecidePersist(c) \/ ResolveEmit(c) \/ ResolveTell(c)
      BY <2>4 DEF DecidePersistExpired, DecidePersist, ResolveEmit, ResolveTell, mapVars
    <2>5. QED
      BY <1>5, <2>1, <2>2, <2>3, <2>4 DEF ResolveApproval
  <1>6. CASE CheckExpiry
    BY <1>1, <1>6 DEF CheckExpiry, PendingInMap
  <1>7. ASSUME NEW id \in Ids, RequestCreate(id) \/ ExtendExpiry(id)
        PROVE  objState'[o] = objState[o]
    BY <1>7 DEF RequestCreate, ExtendExpiry, mapVars
  <1>8. CASE Tick \/ StoreBreak \/ StoreHeal \/ Crash \/ UNCHANGED vars
    BY <1>8 DEF Tick, StoreBreak, StoreHeal, Crash, vars, mapVars
  <1>9. QED
    BY <1>2, <1>3, <1>5, <1>6, <1>7, <1>8 DEF Next

\* An approval object that left "pending" never changes again.
THEOREM TerminalStaysTheorem == Spec => TerminalStays
  <1>1. IInv /\ [Next]_vars =>
          [\A o \in Objects : objState[o] \in Terminal => objState'[o] = objState[o]]_vars
    BY TerminalKept
  <1>2. QED
    BY <1>1, InductiveInvariant, PTL DEF Spec, TerminalStays

\* No step reopens a row that records an outcome: the late writers (Decide after
\* its unlock, ExtendExpiry, the sweep, Cancel) hold a terminal object, or meet
\* a row that was still pending.
THEOREM RowNeverReopensTheorem == Spec => RowNeverReopens
  <1>1. ASSUME IInv, [Next]_vars, NEW i \in Ids, row[i] \in Terminal
        PROVE  row'[i] \in Terminal
    <2>1. row[i] # "pending" /\ row[i] # "absent" /\ StatesOK
      BY <1>1 DEF Terminal, IInv
    <2>2. ASSUME NEW id \in Ids, NEW s \in Terminal, row' = RowAfterUpdate(id, s)
          PROVE  row'[i] \in Terminal
      BY <1>1, <2>2 DEF RowAfterUpdate
    <2>3. ASSUME NEW id \in Ids, RequestCreate(id) PROVE row'[i] \in Terminal
      <3>1. row[id] = "absent"
        BY <1>1, <2>3 DEF RequestCreate, IInv, RequestShape
      <3>2. QED
        BY <1>1, <2>1, <2>3, <3>1 DEF RequestCreate, StatesOK, rowVars
    <2>4. ASSUME NEW id \in Ids, Cancel(id) PROVE row'[i] \in Terminal
      BY <2>2, <2>4 DEF Cancel, Terminal
    <2>5. ASSUME NEW id \in Ids, ExtendExpiry(id) PROVE row'[i] \in Terminal
      <3>1. approvals[id] = id /\ objState[id] = "pending"
        BY <1>1, <2>5 DEF IInv, MapShape, ExtendExpiry, PendingInMap, InMap, Terminal
      <3>2. row[id] \in {"absent", "pending"}
        BY <1>1, <3>1 DEF IInv, PendingRow
      <3>3. QED
        BY <1>1, <2>5, <3>2 DEF ExtendExpiry, RowAfterUpdate
    <2>6. ASSUME NEW c \in Calls, DecidePersistExpired(c) \/ DecidePersist(c)
          PROVE  row'[i] \in Terminal
      <3>1. target[c] \in Ids /\ want[c] \in Terminal
        BY <1>1, <2>6
        DEF DecidePersistExpired, DecidePersist, IInv, CallShape, StatesOK, Terminal
      <3>2. objState[held[c]] \in Terminal
        BY <1>1, <2>6, <3>1
        DEF DecidePersistExpired, DecidePersist, IInv, HeldState, Won, Terminal
      <3>3. row' = RowAfterUpdate(target[c], objState[held[c]])
        BY <2>6 DEF DecidePersistExpired, DecidePersist
      <3>4. QED
        BY <2>2, <3>1, <3>2, <3>3
    <2>7. ASSUME NEW c \in Calls, ResolveApproval(c) PROVE row'[i] \in Terminal
      <3>1. CASE \/ \E id \in Ids, w \in {"approved", "denied"} : DecideLookup(c, id, w)
                 \/ DecideLoad(c) \/ DecideApply(c) \/ ResolveEmit(c) \/ ResolveTell(c)
        BY <1>1, <3>1
        DEF DecideLookup, DecideLoad, DecideApply, ResolveEmit, ResolveTell, rowVars
      <3>2. QED
        BY <2>6, <2>7, <3>1 DEF ResolveApproval
    <2>8. CASE CheckExpiry
      BY <1>1, <2>8 DEF CheckExpiry, Terminal
    <2>9. ASSUME NEW id \in Ids, RequestPut(id) PROVE row'[i] \in Terminal
      BY <1>1, <2>9 DEF RequestPut, rowVars
    <2>10. CASE Tick \/ StoreBreak \/ StoreHeal \/ Crash \/ UNCHANGED vars
      BY <1>1, <2>10 DEF Tick, StoreBreak, StoreHeal, Crash, vars, rowVars
    <2>11. QED
      BY <1>1, <2>3, <2>4, <2>5, <2>7, <2>8, <2>9, <2>10 DEF Next
  <1>2. IInv /\ [Next]_vars =>
          [\A id \in Ids : row[id] \in Terminal => row'[id] \in Terminal]_vars
    BY <1>1
  <1>3. QED
    BY <1>2, InductiveInvariant, PTL DEF Spec, RowNeverReopens
-----------------------------------------------------------------------------
\* Of the original objects, each operation on an approval touches its own.
LEMMA OwnObject ==
  ASSUME IInv, NEW i \in Ids, NEW j \in Ids, approvals[i] = j
  PROVE  i = j
  BY ApprovalNames DEF IInv, MapShape

\* A call keeps its target and its copy.
LEMMA CopyKept ==
  ASSUME IInv, [Next]_vars, NEW d \in Calls, held[d] = d
  PROVE  held'[d] = d /\ target'[d] = target[d]
  <1>1. pc[d] \notin {"idle", "load", "apply"}
    BY ApprovalNames DEF IInv, CallShape
  <1>2. ASSUME NEW c \in Calls, ResolveApproval(c) PROVE held'[d] = d /\ target'[d] = target[d]
    <2>1. ASSUME NEW id \in Ids, NEW w \in {"approved", "denied"}, DecideLookup(c, id, w)
          PROVE  held'[d] = d /\ target'[d] = target[d]
      <3>1. d # c
        BY <1>1, <2>1 DEF DecideLookup
      <3>2. QED
        BY <2>1, <3>1 DEF DecideLookup, Conclude, IInv, StatesOK
    <2>2. CASE DecideApply(c)
      <3>1. d # c
        BY <1>1, <2>2 DEF DecideApply
      <3>2. QED
        BY <2>2, <3>1 DEF DecideApply, Conclude, IInv, StatesOK
    <2>3. CASE DecideLoad(c) \/ DecidePersistExpired(c) \/ DecidePersist(c)
               \/ ResolveEmit(c) \/ ResolveTell(c)
      BY <2>3 DEF DecideLoad, DecidePersistExpired, DecidePersist, ResolveEmit, ResolveTell
    <2>4. QED
      BY <1>2, <2>1, <2>2, <2>3 DEF ResolveApproval
  <1>3. ASSUME NEW id \in Ids, RequestPut(id) \/ RequestCreate(id) \/ Cancel(id) \/ ExtendExpiry(id)
        PROVE  held'[d] = d /\ target'[d] = target[d]
    BY <1>3 DEF RequestPut, RequestCreate, Cancel, ExtendExpiry, callVars
  <1>4. CASE CheckExpiry \/ Tick \/ StoreBreak \/ StoreHeal \/ Crash \/ UNCHANGED vars
    BY <1>4 DEF CheckExpiry, Tick, StoreBreak, StoreHeal, Crash, callVars, vars
  <1>5. QED
    BY <1>2, <1>3, <1>4 DEF Next

-----------------------------------------------------------------------------
\* A decision persisted from the only copy of its row stays on disk.
CopiedRow(c) ==
    Effective(c) /\ held[c] = c => row[target[c]] = want[c] \/ OtherCopy(c)

\* Once an approval was decided on a copy, only calls with a copy write its row:
\* the map holds no pending object for it any more.
LEMMA CopyRowKept ==
  ASSUME IInv, [Next]_vars, NEW c \in Calls, Effective(c), held[c] = c, ~ OtherCopy(c)
  PROVE  row'[target[c]] = row[target[c]] /\ want'[c] = want[c]
  <1> DEFINE i == target[c]
             Goal == row'[i] = row[i] /\ want'[c] = want[c]
  <1>1. pc[c] # "idle"
    BY ApprovalNames DEF IInv, CallShape
  <1>2. i \in Ids /\ reqPc[i] = "announced" /\ approvals[i] # i /\ StatesOK
    BY <1>1 DEF IInv, CallShape, LiveOriginal
  <1>3. ~ PendingInMap(i)
    BY <1>2 DEF IInv, MapShape, PendingInMap, InMap, Terminal
  <1>4. ASSUME NEW d \in Calls, pc[d] \in {"persist", "persistExpired"}
        PROVE  target[d] # i
    <2>1. pc[c] \notin {"persist", "persistExpired"}
      BY DEF Effective, IInv, CallShape
    <2>2. CASE held[d] = d
      BY <1>4, <2>1, <2>2 DEF OtherCopy
    <2>3. CASE held[d] # d
      <3>1. held[d] = target[d]
        BY <1>4, <2>3, HeldObject DEF Won
      <3>2. QED
        BY <1>2, <1>4, <3>1 DEF IInv, LiveHeld
    <2>4. QED
      BY <2>2, <2>3
  <1>5. ASSUME NEW d \in Calls, NEW id \in Ids, NEW w \in {"approved", "denied"},
               DecideLookup(d, id, w)
        PROVE  Goal
    BY <1>1, <1>2, <1>5 DEF DecideLookup, StatesOK, rowVars
  <1>6. ASSUME NEW d \in Calls, DecidePersistExpired(d) \/ DecidePersist(d) PROVE Goal
    BY <1>2, <1>4, <1>6 DEF DecidePersistExpired, DecidePersist, RowAfterUpdate, StatesOK
  <1>7. ASSUME NEW d \in Calls,
               DecideLoad(d) \/ DecideApply(d) \/ ResolveEmit(d) \/ ResolveTell(d)
        PROVE  Goal
    BY <1>7 DEF DecideLoad, DecideApply, ResolveEmit, ResolveTell, rowVars
  <1>8. ASSUME NEW id \in Ids, RequestPut(id) \/ RequestCreate(id) \/ Cancel(id) \/ ExtendExpiry(id)
        PROVE  Goal
    BY <1>2, <1>3, <1>8
    DEF RequestPut, RequestCreate, Cancel, ExtendExpiry, RowAfterUpdate, StatesOK, rowVars, callVars
  <1>9. CASE CheckExpiry
    BY <1>2, <1>3, <1>9 DEF CheckExpiry, StatesOK, callVars
  <1>10. CASE Tick \/ StoreBreak \/ StoreHeal \/ Crash \/ UNCHANGED vars
    BY <1>10 DEF Tick, StoreBreak, StoreHeal, Crash, rowVars, callVars, vars
  <1>11. QED
    BY <1>5, <1>6, <1>7, <1>8, <1>9, <1>10 DEF Next, ResolveApproval

\* A call that has left the critical section of Decide works on the same object
\* to its end.
LEMMA EffectiveHeld ==
  ASSUME IInv, [Next]_vars, NEW c \in Calls, Effective(c)
  PROVE  held'[c] = held[c]
  <1>1. pc[c] \notin {"idle", "apply"}
    BY DEF IInv, CallShape, Effective
  <1>2. ASSUME NEW d \in Calls, ResolveApproval(d) PROVE held'[c] = held[c]
    <2>1. ASSUME NEW id \in Ids, NEW w \in {"approved", "denied"}, DecideLookup(d, id, w)
          PROVE  held'[c] = held[c]
      BY <1>1, <2>1 DEF DecideLookup, Conclude, IInv, StatesOK
    <2>2. CASE DecideApply(d)
      BY <1>1, <2>2 DEF DecideApply, Conclude, IInv, StatesOK
    <2>3. CASE DecideLoad(d) \/ DecidePersistExpired(d) \/ DecidePersist(d)
               \/ ResolveEmit(d) \/ ResolveTell(d)
      BY <2>3 DEF DecideLoad, DecidePersistExpired, DecidePersist, ResolveEmit, ResolveTell
    <2>4. QED
      BY <1>2, <2>1, <2>2, <2>3 DEF ResolveApproval
  <1>3. ASSUME NEW id \in Ids, RequestPut(id) \/ RequestCreate(id) \/ Cancel(id) \/ ExtendExpiry(id)
        PROVE  held'[c] = held[c]
    BY <1>3 DEF RequestPut, RequestCreate, Cancel, ExtendExpiry, callVars
  <1>4. CASE CheckExpiry \/ Tick \/ StoreBreak \/ StoreHeal \/ Crash \/ UNCHANGED vars
    BY <1>4 DEF CheckExpiry, Tick, StoreBreak, StoreHeal, Crash, callVars, vars
  <1>5. QED
    BY <1>2, <1>3, <1>4 DEF Next

\* A call on a copy becomes effective by its own successful Update.
LEMMA BecomesEffective ==
  ASSUME IInv, [Next]_vars, NEW c \in Calls, ~ Effective(c), Effective(c)'
  PROVE  DecidePersist(c) /\ StoreUp
  <1>0. DOMAIN pc = Calls /\ DOMAIN result = Calls
    BY DEF IInv, StatesOK
  <1>1. ASSUME NEW d \in Calls, NEW id \in Ids, NEW w \in {"approved", "denied"},
               DecideLookup(d, id, w)
        PROVE  FALSE
    BY ZenonT(60), <1>1 DEF DecideLookup, Conclude, IInv, StatesOK, Effective
  <1>2. ASSUME NEW d \in Calls, DecideApply(d) PROVE FALSE
    BY ZenonT(60), <1>2 DEF DecideApply, Conclude, IInv, StatesOK, Effective
  <1>3. ASSUME NEW d \in Calls,
               DecideLoad(d) \/ DecidePersistExpired(d) \/ ResolveEmit(d) \/ ResolveTell(d)
        PROVE  FALSE
    <2>1. CASE DecideLoad(d)
      <3>1. \/ pc' = [pc EXCEPT ![d] = "apply"] /\ result' = result
            \/ /\ pc' = [pc EXCEPT ![d] = "done"]
               /\ result' = [result EXCEPT ![d] = "not found"]
        BY <2>1 DEF DecideLoad
      <3>2. QED
        BY <1>0, <3>1 DEF Effective
    <2>2. CASE DecidePersistExpired(d)
      <3>1. /\ pc' = [pc EXCEPT ![d] = "done"]
            /\ result' = [result EXCEPT ![d] = "expired"]
        BY <2>2 DEF DecidePersistExpired
      <3>2. QED
        BY <1>0, <3>1 DEF Effective
    <2>3. CASE ResolveEmit(d) \/ ResolveTell(d)
      BY <1>0, <2>3 DEF ResolveEmit, ResolveTell, Effective
    <2>4. QED
      BY <1>3, <2>1, <2>2, <2>3
  <1>4. ASSUME NEW d \in Calls, DecidePersist(d) PROVE d = c /\ StoreUp
    BY <1>0, <1>4 DEF DecidePersist, Effective
  <1>5. ASSUME NEW id \in Ids, RequestPut(id) \/ RequestCreate(id) \/ Cancel(id) \/ ExtendExpiry(id)
        PROVE  FALSE
    BY <1>5 DEF RequestPut, RequestCreate, Cancel, ExtendExpiry, callVars, Effective
  <1>6. CASE CheckExpiry \/ Tick \/ StoreBreak \/ StoreHeal \/ Crash \/ UNCHANGED vars
    BY <1>6 DEF CheckExpiry, Tick, StoreBreak, StoreHeal, Crash, callVars, vars, Effective
  <1>7. QED
    BY <1>1, <1>2, <1>3, <1>4, <1>5, <1>6 DEF Next, ResolveApproval

\* The row of an approval decided on one copy is written by that copy alone.
LEMMA CopiedRowStep ==
  ASSUME IInv, [Next]_vars, NEW c \in Calls, CopiedRow(c)
  PROVE  CopiedRow(c)'
  <1> SUFFICES ASSUME Effective(c)', held'[c] = c, ~ OtherCopy(c)'
               PROVE  row'[target'[c]] = want'[c]
    BY DEF CopiedRow
  <1>1. CASE Effective(c)
    <2>1. held[c] = c
      BY <1>1, EffectiveHeld
    <2>2. target'[c] = target[c]
      BY <2>1, CopyKept
    <2>3. ~ OtherCopy(c)
      BY <2>2, CopyKept DEF OtherCopy
    <2>4. QED
      BY <1>1, <2>1, <2>2, <2>3, CopyRowKept DEF CopiedRow
  <1>2. CASE ~ Effective(c)
    <2>1. DecidePersist(c) /\ StoreUp
      BY <1>2, BecomesEffective
    <2>2. held[c] = c /\ target' = target /\ want' = want /\ pc[c] = "persist"
      BY <2>1 DEF DecidePersist
    <2>3. target[c] \in Ids /\ row[target[c]] # "absent" /\ objState[c] = want[c]
      BY <2>2 DEF IInv, CallShape, RequestShape, HeldState, Won
    <2>4. QED
      BY <2>1, <2>2, <2>3 DEF DecidePersist, RowAfterUpdate, IInv, StatesOK
  <1>3. QED
    BY <1>1, <1>2

\* Whatever crashes later, the row of an approval the adapter was told about
\* says what the adapter was told, unless two calls decided the approval on a
\* copy each, loaded outside b.mu (ResolveApproval, Decide).
THEOREM DurableBeforeToldTheorem == Spec => []DurableBeforeTold
  <1> DEFINE DInv == IInv /\ \A c \in Calls : CopiedRow(c)
  <1>1. Init => DInv
    BY InitInv DEF Init, CopiedRow, Effective
  <1>2. DInv /\ [Next]_vars => DInv'
    BY NextInv, CopiedRowStep
  <1>3. DInv => DurableBeforeTold
    <2> SUFFICES ASSUME DInv, NEW c \in told
                 PROVE  row[target[c]] = want[c] \/ (held[c] = c /\ OtherCopy(c))
      BY DEF DurableBeforeTold
    <2>1. c \in Calls /\ Effective(c)
      BY DEF IInv, StatesOK, CallShape, Effective
    <2>2. held[c] = c \/ held[c] \in Ids
      BY <2>1, HeldObject DEF Won, Effective, Objects, IInv, CallShape
    <2>3. QED
      BY <2>1, <2>2 DEF CopiedRow, IInv, PersistedRow
  <1>4. QED
    BY <1>1, <1>2, <1>3, PTL DEF Spec

-----------------------------------------------------------------------------
\* The first outage is counted when it begins, so while none was counted the
\* database is up, before and after a step.
LEMMA NoOutage ==
  ASSUME StoreAgrees, NumbersOK, [Next]_vars, outages' = 0
  PROVE  outages = 0 /\ StoreUp /\ StoreUp'
  <1>1. CASE StoreBreak
    BY <1>1 DEF StoreBreak, NumbersOK
  <1>2. CASE ~ StoreBreak
    <2>1. outages' = outages /\ (database' = database \/ database' = "up")
      BY <1>2
      DEF Next, ResolveApproval, RequestPut, RequestCreate, Cancel, ExtendExpiry,
          DecideLookup, DecideLoad, DecideApply, DecidePersistExpired, DecidePersist,
          ResolveEmit, ResolveTell, CheckExpiry, Tick, StoreHeal, Crash, vars, faultVars
    <2>2. QED
      BY <2>1 DEF StoreAgrees, StoreUp
  <1>3. QED
    BY <1>1, <1>2

\* Every step keeps row and object in agreement while the database works: the
\* operations that hold b.mu write both, and Decide stays accountable for its
\* Update from the moment it unlocks.
LEMMA StoreAgreesStep ==
  ASSUME IInv, NumbersOK, StoreAgrees, [Next]_vars
  PROVE  StoreAgrees'
  <1>1. SUFFICES ASSUME NEW i \in Ids, outages' = 0, approvals'[i] = i,
                        reqPc'[i] = "announced"
                 PROVE  row'[i] = objState'[i] \/ \E c \in Calls : Writing(c, i)'
    BY NoOutage DEF StoreAgrees
  <1>2. outages = 0 /\ StoreUp /\ i \in Objects /\ i \notin Calls
    BY <1>1, NoOutage, ApprovalNames DEF Objects
  <1>3. StatesOK
    BY DEF IInv
  <1>4. ASSUME approvals[i] = i, reqPc[i] = "announced", row'[i] = row[i],
               objState'[i] = objState[i],
               \A c \in Calls : Writing(c, i) => Writing(c, i)'
        PROVE  row'[i] = objState'[i] \/ \E c \in Calls : Writing(c, i)'
    BY <1>2, <1>4 DEF StoreAgrees
  <1> DEFINE Goal == row'[i] = objState'[i] \/ \E c \in Calls : Writing(c, i)'
  <1>5. ASSUME NEW id \in Ids, RequestPut(id) PROVE Goal
    <2>1. id # i
      BY <1>1, <1>3, <1>5 DEF RequestPut, StatesOK
    <2>2. /\ approvals[i] = i /\ reqPc[i] = "announced"
          /\ row'[i] = row[i] /\ objState'[i] = objState[i] /\ UNCHANGED <<pc, target>>
      BY <1>1, <1>2, <1>3, <1>5, <2>1 DEF RequestPut, StatesOK, rowVars, callVars
    <2>3. QED
      BY <1>4, <2>2 DEF Writing
  <1>6. ASSUME NEW id \in Ids, RequestCreate(id) PROVE Goal
    <2>1. CASE id = i
      BY <1>2, <1>3, <1>6, <2>1 DEF RequestCreate, StatesOK, mapVars
    <2>2. CASE id # i
      BY <1>1, <1>2, <1>3, <1>4, <1>6, <2>2 DEF RequestCreate, StatesOK, mapVars, callVars, Writing
    <2>3. QED
      BY <2>1, <2>2
  <1>7. ASSUME NEW id \in Ids, Cancel(id) PROVE Goal
    <2>1. approvals[i] = i /\ reqPc[i] = "announced" /\ row[i] # "absent"
      BY <1>1, <1>7 DEF Cancel, IInv, RequestShape
    <2>2. CASE id = i
      BY <1>2, <1>3, <1>7, <2>1, <2>2 DEF Cancel, RowAfterUpdate, StatesOK
    <2>3. CASE id # i
      <3>1. approvals[id] # i
        BY <2>3, OwnObject
      <3>2. row'[i] = row[i] /\ objState'[i] = objState[i] /\ UNCHANGED <<pc, target>>
        BY <1>2, <1>3, <1>7, <2>3, <3>1 DEF Cancel, RowAfterUpdate, StatesOK, callVars
      <3>3. QED
        BY <1>4, <2>1, <3>2 DEF Writing
    <2>4. QED
      BY <2>2, <2>3
  <1>8. ASSUME NEW id \in Ids, ExtendExpiry(id) PROVE Goal
    <2>1. approvals[i] = i /\ reqPc[i] = "announced" /\ row[i] # "absent"
      BY <1>1, <1>8 DEF ExtendExpiry, IInv, RequestShape
    <2>2. CASE id = i
      BY <1>2, <1>3, <1>8, <2>1, <2>2 DEF ExtendExpiry, PendingInMap, RowAfterUpdate, StatesOK
    <2>3. CASE id # i
      BY <1>3, <1>4, <1>8, <2>1, <2>3 DEF ExtendExpiry, RowAfterUpdate, StatesOK, callVars, Writing
    <2>4. QED
      BY <2>2, <2>3
  <1>9. ASSUME NEW c \in Calls, NEW id \in Ids, NEW w \in {"approved", "denied"},
               DecideLookup(c, id, w)
        PROVE  Goal
    <2>1. pc[c] = "idle" /\ held[c] = NoObject /\ result[c] = "none"
      BY <1>9 DEF IInv, DecideLookup, CallShape
    <2>2. \A d \in Calls : d # c => pc'[d] = pc[d] /\ target'[d] = target[d]
      BY ZenonT(60), <1>3, <1>9 DEF DecideLookup, Conclude, StatesOK
    <2>3. target'[c] = id /\ row' = row /\ reqPc' = reqPc
      BY <1>3, <1>9 DEF DecideLookup, StatesOK, rowVars
    <2>4. approvals' = approvals
      BY <1>9, <2>1, LookupFrame
    <2>5. \A d \in Calls : Writing(d, i) => Writing(d, i)'
      BY <2>1, <2>2 DEF Writing
    <2>6. \/ objState'[i] = objState[i]
          \/ id = i /\ pc'[c] \in {"persist", "persistExpired"}
      BY <1>2, <1>9, <2>1, LookupFrame
    <2>7. QED
      BY <1>1, <1>4, <2>3, <2>4, <2>5, <2>6 DEF Writing
  <1>10. ASSUME NEW c \in Calls, DecideLoad(c) PROVE Goal
    <2>1. \A d \in Calls : Writing(d, i) => Writing(d, i)'
      BY <1>3, <1>10 DEF DecideLoad, StatesOK, Writing
    <2>2. QED
      BY <1>1, <1>2, <1>3, <1>4, <1>10, <2>1 DEF DecideLoad, StatesOK, rowVars
  <1>11. ASSUME NEW c \in Calls, DecideApply(c) PROVE Goal
    <2>1. \A d \in Calls : Writing(d, i) => Writing(d, i)'
      BY <1>3, <1>11 DEF DecideApply, Conclude, StatesOK, Writing
    <2>2. /\ approvals' = approvals \/ approvals' = [approvals EXCEPT ![target[c]] = c]
          /\ \A o \in Objects : o # c => objState'[o] = objState[o]
      BY <1>3, <1>11 DEF DecideApply, Conclude, StatesOK
    <2>3. approvals[i] = i /\ objState'[i] = objState[i]
      BY <1>1, <1>2, <1>3, <2>2 DEF StatesOK
    <2>4. QED
      BY <1>1, <1>4, <1>11, <2>1, <2>3 DEF DecideApply, rowVars
  <1>12. ASSUME NEW c \in Calls, DecidePersistExpired(c) \/ DecidePersist(c) PROVE Goal
    <2>1. /\ pc[c] \in {"persist", "persistExpired"}
          /\ row' = RowAfterUpdate(target[c], objState[held[c]])
          /\ UNCHANGED <<approvals, objState, reqPc, target>>
      BY <1>12 DEF DecidePersistExpired, DecidePersist, mapVars
    <2>2. \A d \in Calls : d # c => pc'[d] = pc[d]
      BY <1>3, <1>12 DEF DecidePersistExpired, DecidePersist, StatesOK
    <2>3. approvals[i] = i /\ reqPc[i] = "announced" /\ row[i] # "absent"
      BY <1>1, <2>1 DEF IInv, RequestShape
    <2>4. CASE target[c] = i
      <3>1. held[c] = i
        BY <2>1, <2>3, <2>4, HeldObject DEF IInv, LiveOriginal, Won
      <3>2. QED
        BY <1>2, <1>3, <2>1, <2>3, <2>4, <3>1 DEF RowAfterUpdate, StatesOK
    <2>5. CASE target[c] # i
      BY <1>3, <1>4, <2>1, <2>2, <2>3, <2>5 DEF RowAfterUpdate, StatesOK, Writing
    <2>6. QED
      BY <2>4, <2>5
  <1>13. ASSUME NEW c \in Calls, ResolveEmit(c) \/ ResolveTell(c) PROVE Goal
    <2>1. \A d \in Calls : Writing(d, i) => Writing(d, i)'
      BY <1>3, <1>13 DEF ResolveEmit, ResolveTell, StatesOK, Writing
    <2>2. QED
      BY <1>1, <1>4, <1>13, <2>1 DEF ResolveEmit, ResolveTell, mapVars, rowVars
  <1>14. CASE CheckExpiry
    <2>1. approvals[i] = i /\ reqPc[i] = "announced" /\ row[i] # "absent"
      BY <1>1, <1>14 DEF CheckExpiry, IInv, RequestShape
    <2>2. CASE PendingInMap(i) /\ Overdue(approvals[i])
      BY <1>2, <1>14, <2>1, <2>2 DEF CheckExpiry
    <2>3. CASE ~ (PendingInMap(i) /\ Overdue(approvals[i]))
      <3>1. row'[i] = row[i] /\ objState'[i] = objState[i]
        BY <1>2, <1>14, <2>3, OwnObject DEF CheckExpiry
      <3>2. QED
        BY <1>4, <1>14, <2>1, <3>1 DEF CheckExpiry, callVars, Writing
    <2>4. QED
      BY <2>2, <2>3
  <1>15. CASE Crash
    BY <1>1, <1>15, ApprovalNames DEF Crash
  <1>16. CASE Tick \/ StoreHeal \/ UNCHANGED vars
    BY <1>1, <1>4, <1>16
    DEF Tick, StoreHeal, vars, mapVars, rowVars, callVars, Writing
  <1>17. CASE StoreBreak
    BY <1>1, <1>17 DEF StoreBreak, NumbersOK
  <1>18. QED
    BY <1>5, <1>6, <1>7, <1>8, <1>9, <1>10, <1>11, <1>12, <1>13, <1>14, <1>15, <1>16, <1>17
    DEF Next, ResolveApproval

\* While the database works, an approval in memory and its row agree whenever no
\* Decide is between its unlock and its Update.
THEOREM MemoryMatchesStoreTheorem == Spec => []MemoryMatchesStore
  <1>1. Init => NumbersOK /\ IInv /\ StoreAgrees
    BY InitInv, ApprovalNames DEF Init, StoreAgrees, StoreUp
  <1>2. NumbersOK /\ IInv /\ StoreAgrees /\ [Next]_vars => (NumbersOK /\ IInv /\ StoreAgrees)'
    BY NumbersStep, NextInv, StoreAgreesStep
  <1>3. StoreAgrees => MemoryMatchesStore
    BY DEF StoreAgrees, MemoryMatchesStore, Writing
  <1>4. QED
    BY <1>1, <1>2, <1>3, PTL DEF Spec

-----------------------------------------------------------------------------
\* Every step keeps the account of journaled outcomes: only the winner of a
\* pending original journals, and afterwards nobody can win it again.
LEMMA ResolvedStep ==
  ASSUME IInv, NumbersOK, [Next]_vars, NEW i \in Ids, ResolvedShape(i)
  PROVE  ResolvedShape(i)'
  <1>1. SUFFICES ASSUME NoCopy(i)'
                 PROVE  /\ resolved'[i] \in {0, 1}
                        /\ resolved'[i] = 1 =>
                              /\ objState'[i] \in Terminal
                              /\ \A c \in Calls : held'[c] = i => pc'[c] \notin {"persist", "emit"}
    BY DEF ResolvedShape
  <1>2. NoCopy(i)
    BY <1>1, CopyKept DEF NoCopy
  <1>3. /\ resolved[i] \in {0, 1} /\ i \in Objects /\ i \notin Calls /\ StatesOK
        /\ resolved[i] = 1 =>
              /\ objState[i] \in Terminal
              /\ \A c \in Calls : held[c] = i => pc[c] \notin {"persist", "emit"}
    BY <1>2, ApprovalNames DEF ResolvedShape, Objects, IInv
  <1>4. objState[i] \in Terminal => objState'[i] \in Terminal
    BY <1>3, TerminalKept
  <1> DEFINE Quiet(c) == held'[c] = i /\ pc'[c] \in {"persist", "emit"} =>
                            held[c] = i /\ pc[c] \in {"persist", "emit"}
             Goal == /\ resolved'[i] \in {0, 1}
                     /\ resolved'[i] = 1 =>
                          /\ objState'[i] \in Terminal
                          /\ \A c \in Calls : held'[c] = i => pc'[c] \notin {"persist", "emit"}
  <1>5. ASSUME resolved'[i] = resolved[i], \A c \in Calls : Quiet(c) PROVE Goal
    BY <1>3, <1>4, <1>5
  <1>6. ASSUME NEW id \in Ids, Cancel(id) PROVE Goal
    <2>1. UNCHANGED <<pc, held>>
      BY <1>6 DEF Cancel, callVars
    <2>2. CASE id = i
      <3>1. approvals[i] = i /\ objState[i] = "pending"
        BY <1>6, <2>2 DEF Cancel, PendingInMap, InMap, IInv, MapShape, Terminal
      <3>2. resolved[i] = 0
        BY <1>3, <3>1 DEF Terminal
      <3>3. resolved'[i] \in {0, 1}
        BY <1>6, <2>2, <3>2 DEF Cancel, NumbersOK
      <3>4. objState'[i] \in Terminal
        BY <1>3, <1>6, <2>2, <3>1 DEF Cancel, StatesOK, Terminal
      <3>5. ASSUME NEW c \in Calls, held[c] = i PROVE pc[c] \notin {"persist", "emit"}
        BY <3>1, <3>5, PendingUnwon DEF Won
      <3>6. QED
        BY <2>1, <3>3, <3>4, <3>5
    <2>3. CASE id # i
      <3>1. resolved'[i] = resolved[i]
        BY <1>6, <2>3 DEF Cancel, NumbersOK
      <3>2. QED
        BY <1>5, <2>1, <3>1
    <2>4. QED
      BY <2>2, <2>3
  <1>7. ASSUME NEW c \in Calls, ResolveEmit(c) PROVE Goal
    <2>1. /\ pc[c] = "emit" /\ pc'[c] = "tell" /\ held' = held
          /\ \A d \in Calls : d # c => pc'[d] = pc[d]
      BY <1>3, <1>7 DEF ResolveEmit, StatesOK
    <2>2. CASE target[c] = i
      <3>1. held[c] = i /\ objState[i] = want[c]
        BY <1>2, <2>1, <2>2, HeldObject DEF NoCopy, Won, IInv, HeldState
      <3>2. resolved[i] = 0
        BY <1>3, <2>1, <3>1
      <3>3. resolved'[i] \in {0, 1}
        BY <1>7, <2>2, <3>2 DEF ResolveEmit, NumbersOK
      <3>4. objState'[i] \in Terminal
        BY <1>3, <1>4, <3>1 DEF StatesOK, Terminal
      <3>5. ASSUME NEW d \in Calls, held'[d] = i PROVE pc'[d] \notin {"persist", "emit"}
        BY <2>1, <3>1, <3>5 DEF IInv, OneWinner, Won
      <3>6. QED
        BY <3>3, <3>4, <3>5
    <2>3. CASE target[c] # i
      <3>1. resolved'[i] = resolved[i]
        BY <1>7, <2>3 DEF ResolveEmit, NumbersOK
      <3>2. \A d \in Calls : Quiet(d)
        BY <2>1
      <3>3. QED
        BY <1>5, <3>1, <3>2
    <2>4. QED
      BY <2>2, <2>3
  <1>8. ASSUME NEW c \in Calls, NEW id \in Ids, NEW w \in {"approved", "denied"},
               DecideLookup(c, id, w)
        PROVE  Goal
    <2>1. pc[c] = "idle" /\ held[c] = NoObject /\ result[c] = "none" /\ resolved' = resolved
      BY <1>8 DEF IInv, DecideLookup, CallShape, traceVars
    <2>2. \A d \in Calls : d # c => pc'[d] = pc[d] /\ held'[d] = held[d]
      BY ZenonT(60), <1>3, <1>8 DEF DecideLookup, Conclude, StatesOK
    <2>3. \/ held'[c] # i \/ pc'[c] \notin {"persist", "emit"}
          \/ objState[i] = "pending"
      BY <1>8, <2>1, LookupFrame, ApprovalNames
    <2>4. CASE objState[i] = "pending"
      BY <1>3, <2>1, <2>4 DEF Terminal
    <2>5. CASE objState[i] # "pending"
      BY <1>5, <2>1, <2>2, <2>3, <2>5
    <2>6. QED
      BY <2>4, <2>5
  <1>9. ASSUME NEW c \in Calls, DecideApply(c) PROVE Goal
    <2>1. \A d \in Calls : d # c => pc'[d] = pc[d] /\ held'[d] = held[d]
      BY ZenonT(60), <1>3, <1>9 DEF DecideApply, Conclude, StatesOK
    <2>2. pc'[c] = "done" \/ held'[c] = c
      BY ZenonT(60), <1>3, <1>9 DEF DecideApply, Conclude, StatesOK
    <2>3. \A d \in Calls : Quiet(d)
      BY <1>3, <2>1, <2>2
    <2>4. QED
      BY <1>5, <1>9, <2>3 DEF DecideApply, traceVars
  <1>10. ASSUME NEW c \in Calls,
                DecideLoad(c) \/ DecidePersistExpired(c) \/ DecidePersist(c) \/ ResolveTell(c)
         PROVE  Goal
    <2>1. /\ held' = held
          /\ \A d \in Calls : d # c => pc'[d] = pc[d]
          /\ pc[c] # "persist" => pc'[c] \notin {"persist", "emit"}
      <3>1. CASE DecideLoad(c)
        BY <1>3, <3>1 DEF DecideLoad, StatesOK
      <3>2. CASE DecidePersistExpired(c) \/ ResolveTell(c)
        BY <1>3, <3>2 DEF DecidePersistExpired, ResolveTell, StatesOK
      <3>3. CASE DecidePersist(c)
        BY <1>3, <3>3 DEF DecidePersist, StatesOK
      <3>4. QED
        BY <1>10, <3>1, <3>2, <3>3
    <2>2. \A d \in Calls : Quiet(d)
      BY <2>1
    <2>3. QED
      BY <1>5, <1>10, <2>2
      DEF DecideLoad, DecidePersistExpired, DecidePersist, ResolveTell, traceVars
  <1>11. ASSUME NEW id \in Ids, RequestPut(id) \/ RequestCreate(id) \/ ExtendExpiry(id)
         PROVE  Goal
    BY <1>5, <1>11 DEF RequestPut, RequestCreate, ExtendExpiry, callVars, traceVars
  <1>12. CASE CheckExpiry \/ Tick \/ StoreBreak \/ StoreHeal \/ UNCHANGED vars
    BY <1>5, <1>12
    DEF CheckExpiry, Tick, StoreBreak, StoreHeal, vars, callVars, traceVars
  <1>13. CASE Crash
    <2>1. \A d \in Calls : Quiet(d)
      BY <1>13 DEF Crash
    <2>2. QED
      BY <1>5, <1>13, <2>1 DEF Crash
  <1>14. QED
    BY <1>6, <1>7, <1>8, <1>9, <1>10, <1>11, <1>12, <1>13 DEF Next, ResolveApproval

\* ResolveApproval and handleCompletion together journal at most one
\* approval.resolved for an approval that was decided through the map.
THEOREM ResolvedOnceTheorem == Spec => []ResolvedOnce
  <1> DEFINE RInv == NumbersOK /\ IInv /\ \A id \in Ids : ResolvedShape(id)
  <1>1. Init => RInv
    BY InitInv DEF Init, ResolvedShape
  <1>2. RInv /\ [Next]_vars => RInv'
    BY NumbersStep, NextInv, ResolvedStep
  <1>3. RInv => ResolvedOnce
    <2>1. ASSUME RInv, NEW id \in Ids
          PROVE  resolved[id] <= 1 \/ \E c \in Calls : target[c] = id /\ held[c] = c
      <3>1. CASE NoCopy(id)
        <4>1. resolved[id] \in {0, 1}
          BY <2>1, <3>1 DEF ResolvedShape
        <4>2. QED
          BY <4>1
      <3>2. CASE ~ NoCopy(id)
        BY <3>2 DEF NoCopy
      <3>3. QED
        BY <3>1, <3>2
    <2>2. QED
      BY <2>1 DEF ResolvedOnce
  <1>4. QED
    BY <1>1, <1>2, <1>3, PTL DEF Spec
=============================================================================
