--------------------------- MODULE ApprovalBridge ---------------------------
(***************************************************************************)
(* The approval bridge (internal/approval) and the application code that   *)
(* drives it: Request from handleApprovalRequest, Decide from              *)
(* ResolveApproval, Cancel from handleCompletion, the expiry sweep.        *)
(*                                                                         *)
(* An approval exists twice: as an object behind a pointer in the map      *)
(* b.approvals, guarded by b.mu, and as a row of the approvals table.      *)
(* Decide touches the table outside the lock, and an approval that is not  *)
(* in the map (after a restart) is decided on a private copy of its row.   *)
(* Objects are named after the operation that allocates them: the Request  *)
(* of an id, or the Decide call that loaded the copy.                      *)
(***************************************************************************)
EXTENDS Naturals

CONSTANTS
    Ids,            \* approval ids; adapters never reuse one
    Calls,          \* ResolveApproval invocations, each made once
    NoObject,       \* the nil pointer
    NoId,           \* the target of a call not made yet
    DefaultExpiry,  \* lifetime of a pending approval (5 minutes)
    Extension,      \* what one ExtendExpiry adds
    DecisionCap,    \* capacity of decisionCh (100)
    MaxTime,        \* bound: last clock value
    MaxCrashes,     \* bound: server crashes
    MaxOutages      \* bound: periods in which the database rejects writes

ASSUME ApprovalNames ==
    /\ \A id \in Ids : id \notin Calls /\ id # NoId /\ id # NoObject
    /\ \A c \in Calls : c # NoObject

ASSUME ApprovalBounds ==
    /\ DefaultExpiry \in Nat /\ Extension \in Nat /\ DecisionCap \in Nat
    /\ MaxTime \in Nat /\ MaxCrashes \in Nat /\ MaxOutages \in Nat

VARIABLES
    clock,
    approvals,   \* b.approvals: id -> object
    objState,    \* object -> approval.State
    objExpires,  \* object -> approval.ExpiresAt
    row,         \* approvals table: id -> state
    rowExpires,  \* approvals table: id -> expires_at
    reqPc,       \* progress of Request(id)
    pc,          \* progress of a ResolveApproval call
    target,      \* the call's approval id
    want,        \* the state its decision asks for
    held,        \* the object Decide is working on
    result,      \* what the call returned
    decisionLen, \* results waiting in decisionCh
    resolved,    \* approval.resolved events journaled for an id
    told,        \* calls that reached the adapter's DecideApproval
    database,    \* "up", or "down" while it rejects reads and writes
    crashes,
    outages

mapVars   == <<approvals, objState, objExpires>>
rowVars   == <<row, rowExpires>>
callVars  == <<pc, target, want, held, result>>
traceVars == <<decisionLen, resolved, told>>
faultVars == <<database, crashes, outages>>
vars == <<clock, mapVars, rowVars, reqPc, callVars, traceVars, faultVars>>

Objects == Ids \cup Calls
Terminal == {"approved", "denied", "expired", "cancelled"}
ApprovalStates == {"pending"} \cup Terminal

StoreUp == database = "up"
InMap(id) == approvals[id] # NoObject
PendingInMap(id) == InMap(id) /\ objState[approvals[id]] = "pending"
OverdueSwapped(o) == objExpires[o] > clock + MaxTime  \* mutant
Overdue(o) == clock > objExpires[o]

\* DBStore.Update: an UPDATE by primary key, which writes the state and not
\* expires_at, and touches nothing when the row does not exist.
RowAfterUpdate(id, s) ==
    IF StoreUp /\ row[id] # "absent" THEN [row EXCEPT ![id] = s] ELSE row

Init ==
    /\ clock = 0
    /\ approvals = [id \in Ids |-> NoObject]
    /\ objState = [o \in Objects |-> "none"]
    /\ objExpires = [o \in Objects |-> 0]
    /\ row = [id \in Ids |-> "absent"]
    /\ rowExpires = [id \in Ids |-> 0]
    /\ reqPc = [id \in Ids |-> "idle"]
    /\ pc = [c \in Calls |-> "idle"]
    /\ target = [c \in Calls |-> NoId]
    /\ want = [c \in Calls |-> "denied"]
    /\ held = [c \in Calls |-> NoObject]
    /\ result = [c \in Calls |-> "none"]
    /\ decisionLen = 0
    /\ resolved = [id \in Ids |-> 0]
    /\ told = {}
    /\ database = "up"
    /\ crashes = 0
    /\ outages = 0

-----------------------------------------------------------------------------
(* Request: the object enters the map under the lock, the row is inserted  *)
(* after the lock is released, and only then is the id announced.          *)

\* Bound: only while the approval can still expire before MaxTime.
RequestPut(id) ==
    /\ reqPc[id] = "idle"
    /\ clock + DefaultExpiry < MaxTime
    /\ reqPc' = [reqPc EXCEPT ![id] = "create"]
    /\ approvals' = [approvals EXCEPT ![id] = id]
    /\ objState' = [objState EXCEPT ![id] = "pending"]
    /\ objExpires' = [objExpires EXCEPT ![id] = clock + DefaultExpiry]
    /\ UNCHANGED <<clock, rowVars, callVars, traceVars, faultVars>>

\* store.Create reads the object as it is now. When it fails Request returns
\* an error, handleApprovalRequest announces nothing, and the object stays in
\* the map.
RequestCreate(id) ==
    /\ reqPc[id] = "create"
    /\ IF StoreUp
         THEN /\ row' = [row EXCEPT ![id] = objState[id]]
              /\ rowExpires' = [rowExpires EXCEPT ![id] = objExpires[id]]
              /\ reqPc' = [reqPc EXCEPT ![id] = "announced"]
         ELSE /\ reqPc' = [reqPc EXCEPT ![id] = "failed"]
              /\ UNCHANGED rowVars
    /\ UNCHANGED <<clock, mapVars, callVars, traceVars, faultVars>>

-----------------------------------------------------------------------------
(* Decide, as called by ResolveApproval.                                   *)

\* Mutant: Decide without the terminal-state check.
ConcludeNoCheck(c, id, o, w) ==
    /\ objState' = [objState EXCEPT ![o] = w]
    /\ approvals' = [approvals EXCEPT ![id] = o]
    /\ held' = [held EXCEPT ![c] = o]
    /\ pc' = [pc EXCEPT ![c] = "persist"]
    /\ UNCHANGED result

\* Mutant: ResolveApproval does not look at AlreadyFinal and goes on to emit.
ConcludeLateEmits(c, id, o, w) ==
    IF objState[o] # "pending"
      THEN /\ pc' = [pc EXCEPT ![c] = "emit"]
           /\ UNCHANGED <<approvals, objState, held, result>>
      ELSE ConcludeNoCheck(c, id, o, w)

\* The part of Decide that runs under b.mu once it has an object: a terminal
\* one is returned as final, an overdue one expires (without entering the
\* map), any other takes the decision and is put in the map.
Conclude(c, id, o, w) ==
    \/ /\ objState[o] # "pending"
       /\ pc' = [pc EXCEPT ![c] = "done"]
       /\ result' = [result EXCEPT ![c] = "final"]
       /\ UNCHANGED <<approvals, objState, held>>
    \/ /\ objState[o] = "pending"
       /\ Overdue(o)
       /\ objState' = [objState EXCEPT ![o] = "expired"]
       /\ held' = [held EXCEPT ![c] = o]
       /\ pc' = [pc EXCEPT ![c] = "persistExpired"]
       /\ UNCHANGED <<approvals, result>>
    \/ /\ objState[o] = "pending"
       /\ ~ Overdue(o)
       /\ objState' = [objState EXCEPT ![o] = w]
       /\ approvals' = [approvals EXCEPT ![id] = o]
       /\ held' = [held EXCEPT ![c] = o]
       /\ pc' = [pc EXCEPT ![c] = "persist"]
       /\ UNCHANGED result

\* A device can only name an approval it was told about.
DecideLookup(c, id, w) ==
    /\ pc[c] = "idle"
    /\ reqPc[id] = "announced"
    /\ target' = [target EXCEPT ![c] = id]
    /\ want' = [want EXCEPT ![c] = w]
    /\ \/ InMap(id) /\ Conclude(c, id, approvals[id], w)
       \/ /\ ~ InMap(id)
          /\ pc' = [pc EXCEPT ![c] = "load"]
          /\ UNCHANGED <<approvals, objState, held, result>>
    /\ UNCHANGED <<clock, objExpires, rowVars, reqPc, traceVars, faultVars>>

\* The lock is released here: GetByID fills a copy nobody else can see.
DecideLoad(c) ==
    /\ pc[c] = "load"
    /\ IF StoreUp /\ row[target[c]] # "absent"
         THEN /\ objState' = [objState EXCEPT ![c] = row[target[c]]]
              /\ objExpires' = [objExpires EXCEPT ![c] = rowExpires[target[c]]]
              /\ pc' = [pc EXCEPT ![c] = "apply"]
              /\ UNCHANGED result
         ELSE /\ pc' = [pc EXCEPT ![c] = "done"]
              /\ result' = [result EXCEPT ![c] = "not found"]
              /\ UNCHANGED <<objState, objExpires>>
    /\ UNCHANGED <<clock, approvals, rowVars, reqPc, target, want, held,
                   traceVars, faultVars>>

DecideApply(c) ==
    /\ pc[c] = "apply"
    /\ Conclude(c, target[c], c, want[c])
    /\ UNCHANGED <<clock, objExpires, rowVars, reqPc, target, want,
                   traceVars, faultVars>>

\* The error of this Update is ignored.
DecidePersistExpired(c) ==
    /\ pc[c] = "persistExpired"
    /\ row' = RowAfterUpdate(target[c], objState[held[c]])
    /\ pc' = [pc EXCEPT ![c] = "done"]
    /\ result' = [result EXCEPT ![c] = "expired"]
    /\ UNCHANGED <<clock, mapVars, rowExpires, reqPc, target, want, held,
                   traceVars, faultVars>>

\* Mutant: the error of the Update is not looked at.
DecidePersistUnchecked(c) ==
    /\ pc[c] = "persist"
    /\ row' = RowAfterUpdate(target[c], objState[held[c]])
    /\ pc' = [pc EXCEPT ![c] = "emit"]
    /\ UNCHANGED <<clock, mapVars, rowExpires, reqPc, target, want, held,
                   result, traceVars, faultVars>>

\* The decision is persisted outside the lock and offered to decisionCh,
\* which nothing in the server drains: a full channel is skipped.
DecidePersist(c) ==
    /\ pc[c] = "persist"
    /\ row' = RowAfterUpdate(target[c], objState[held[c]])
    /\ IF StoreUp
         THEN /\ pc' = [pc EXCEPT ![c] = "emit"]
              /\ decisionLen' = IF decisionLen < DecisionCap
                                  THEN decisionLen + 1 ELSE decisionLen
              /\ UNCHANGED result
         ELSE /\ pc' = [pc EXCEPT ![c] = "done"]
              /\ result' = [result EXCEPT ![c] = "store failed"]
              /\ UNCHANGED decisionLen
    /\ UNCHANGED <<clock, mapVars, rowExpires, reqPc, target, want, held,
                   resolved, told, faultVars>>

\* ResolveApproval journals approval.resolved, then tells the adapter.
ResolveEmit(c) ==
    /\ pc[c] = "emit"
    /\ resolved' = [resolved EXCEPT ![target[c]] = @ + (IF StoreUp THEN 1 ELSE 0)]
    /\ pc' = [pc EXCEPT ![c] = "tell"]
    /\ UNCHANGED <<clock, mapVars, rowVars, reqPc, target, want, held, result,
                   decisionLen, told, faultVars>>

\* The session and its active run are read back first: when the database is
\* down the adapter hears nothing, and the call succeeds all the same.
ResolveTell(c) ==
    /\ pc[c] = "tell"
    /\ told' = IF StoreUp THEN told \cup {c} ELSE told
    /\ pc' = [pc EXCEPT ![c] = "done"]
    /\ result' = [result EXCEPT ![c] = "applied"]
    /\ UNCHANGED <<clock, mapVars, rowVars, reqPc, target, want, held,
                   decisionLen, resolved, faultVars>>

ResolveApproval(c) ==
    \/ \E id \in Ids, w \in {"approved", "denied"} : DecideLookup(c, id, w)
    \/ DecideLoad(c)
    \/ DecideApply(c)
    \/ DecidePersistExpired(c)
    \/ DecidePersist(c)
    \/ ResolveEmit(c)
    \/ ResolveTell(c)

-----------------------------------------------------------------------------
(* The other operations hold b.mu across their database write.             *)

\* Mutant: the sweep forgets to persist.
CheckExpiryMemoryOnly ==
    /\ \E id \in Ids : PendingInMap(id) /\ Overdue(approvals[id])
    /\ objState' = [o \in Objects |->
                       IF \E id \in Ids : /\ approvals[id] = o
                                          /\ PendingInMap(id) /\ Overdue(o)
                         THEN "expired" ELSE objState[o]]
    /\ UNCHANGED <<clock, approvals, objExpires, rowVars, reqPc, callVars,
                   traceVars, faultVars>>

\* checkExpiry: every overdue pending object of the map, and only of the map.
CheckExpiry ==
    LET due == {id \in Ids : PendingInMap(id) /\ Overdue(approvals[id])} IN
    /\ due # {}
    /\ objState' = [o \in Objects |->
                       IF \E id \in due : approvals[id] = o
                         THEN "expired" ELSE objState[o]]
    /\ row' = [id \in Ids |->
                  IF id \in due /\ StoreUp /\ row[id] # "absent"
                    THEN "expired" ELSE row[id]]
    /\ UNCHANGED <<clock, approvals, objExpires, rowExpires, reqPc, callVars,
                   traceVars, faultVars>>

\* handleCompletion cancels what is still pending when the run exits. It runs
\* in the goroutine that runs Request, so never while one is in progress. The
\* event is journaled only if the write succeeded.
Cancel(id) ==
    /\ reqPc[id] # "create"
    /\ PendingInMap(id)
    /\ objState' = [objState EXCEPT ![approvals[id]] = "cancelled"]
    /\ row' = RowAfterUpdate(id, "cancelled")
    /\ resolved' = [resolved EXCEPT ![id] = @ + (IF StoreUp THEN 1 ELSE 0)]
    /\ UNCHANGED <<clock, approvals, objExpires, rowExpires, reqPc, callVars,
                   decisionLen, told, faultVars>>

\* The row keeps its old expires_at. Bound: only while the
\* approval can still expire before MaxTime.
ExtendExpiry(id) ==
    /\ PendingInMap(id)
    /\ objExpires[approvals[id]] + Extension < MaxTime
    /\ objExpires' = [objExpires EXCEPT ![approvals[id]] = @ + Extension]
    /\ row' = RowAfterUpdate(id, "pending")
    /\ UNCHANGED <<clock, approvals, objState, rowExpires, reqPc, callVars,
                   traceVars, faultVars>>

-----------------------------------------------------------------------------
(* Environment.                                                            *)

Tick ==
    /\ clock < MaxTime
    /\ clock' = clock + 1
    /\ UNCHANGED <<mapVars, rowVars, reqPc, callVars, traceVars, faultVars>>

StoreBreak ==
    /\ StoreUp
    /\ outages < MaxOutages
    /\ database' = "down"
    /\ outages' = outages + 1
    /\ UNCHANGED <<clock, mapVars, rowVars, reqPc, callVars, traceVars, crashes>>

StoreHeal ==
    /\ ~ StoreUp
    /\ database' = "up"
    /\ UNCHANGED <<clock, mapVars, rowVars, reqPc, callVars, traceVars,
                   crashes, outages>>

\* The process dies and NewApprovalBridge starts from an empty map; nothing
\* reads the pending rows back. Calls in progress are gone.
Crash ==
    /\ crashes < MaxCrashes
    /\ crashes' = crashes + 1
    /\ approvals' = [id \in Ids |-> NoObject]
    /\ decisionLen' = 0
    /\ reqPc' = [id \in Ids |-> IF reqPc[id] = "create" THEN "failed" ELSE reqPc[id]]
    /\ pc' = [c \in Calls |-> IF pc[c] \in {"idle", "done"} THEN pc[c] ELSE "dead"]
    /\ UNCHANGED <<clock, objState, objExpires, rowVars, target, want, held,
                   result, resolved, told, database, outages>>

Next ==
    \/ \E id \in Ids : \/ RequestPut(id)
                       \/ RequestCreate(id)
                       \/ Cancel(id)
                       \/ ExtendExpiry(id)
    \/ \E c \in Calls : ResolveApproval(c)
    \/ CheckExpiry
    \/ Tick
    \/ StoreBreak
    \/ StoreHeal
    \/ Crash

Spec == Init /\ [][Next]_vars

\* The sweep's ticker, wall-clock time and running goroutines make progress;
\* devices, adapters and faults owe nothing.
Fairness ==
    /\ WF_vars(Tick)
    /\ WF_vars(CheckExpiry)
    /\ WF_vars(StoreHeal)
    /\ \A id \in Ids : WF_vars(RequestCreate(id))
    /\ \A c \in Calls : WF_vars(pc[c] # "idle" /\ ResolveApproval(c))

FairSpec == Spec /\ Fairness

-----------------------------------------------------------------------------
(* Properties.                                                             *)

NumbersOK ==
    /\ clock \in Nat
    /\ objExpires \in [Objects -> Nat]
    /\ rowExpires \in [Ids -> Nat]
    /\ decisionLen \in Nat
    /\ resolved \in [Ids -> Nat]
    /\ crashes \in Nat
    /\ outages \in Nat

StatesOK ==
    /\ approvals \in [Ids -> Objects \cup {NoObject}]
    /\ objState \in [Objects -> ApprovalStates \cup {"none"}]
    /\ row \in [Ids -> ApprovalStates \cup {"absent"}]
    /\ reqPc \in [Ids -> {"idle", "create", "announced", "failed"}]
    /\ pc \in [Calls -> {"idle", "load", "apply", "persist", "persistExpired",
                         "emit", "tell", "done", "dead"}]
    /\ target \in [Calls -> Ids \cup {NoId}]
    /\ want \in [Calls -> {"approved", "denied"}]
    /\ held \in [Calls -> Objects \cup {NoObject}]
    /\ result \in [Calls -> {"none", "not found", "final", "expired",
                             "store failed", "applied"}]
    /\ told \subseteq Calls
    /\ database \in {"up", "down"}

TypeOK == NumbersOK /\ StatesOK

\* The decision of this call was accepted and persisted.
Effective(c) == pc[c] \in {"emit", "tell"} \/ result[c] = "applied"

\* An approval object that has left "pending" never changes again: no race of
\* Decide, Cancel, ExtendExpiry and the sweep revises an outcome
\* (approval.go, the pending checks made under b.mu).
TerminalStays ==
    [][\A o \in Objects : objState[o] \in Terminal => objState'[o] = objState[o]]_vars

\* Two calls can both have decided one approval only if both worked on a copy
\* loaded from the table: an approval decided through the map is decided once,
\* whatever crashes and retries follow (approval.go, Decide).
DecidedOnce ==
    \A c, d \in Calls :
        /\ c # d
        /\ Effective(c) /\ Effective(d)
        /\ target[c] = target[d]
        => held[c] = c /\ held[d] = d

\* Another call decided or expired a copy of its own of the same approval.
OtherCopy(c) == \E d \in Calls : d # c /\ target[d] = target[c] /\ held[d] = d

\* The adapter acts only on a decision that is on disk and stays there: once it
\* was told, the row says what it was told, also after a crash and a restart
\* (session_service.go, ResolveApproval after Decide).  The exception is the
\* unlock around GetByID: when the approval was not in the map and two calls
\* loaded a copy each, the later Update overwrites what the adapter was told.
DurableBeforeTold ==
    \A c \in told :
        row[target[c]] = want[c] \/ (held[c] = c /\ OtherCopy(c))

\* While the database works, the live object and its row agree whenever no call
\* is between its unlock and its Update.
MemoryMatchesStore ==
    outages = 0 =>
        \A id \in Ids :
            /\ approvals[id] = id
            /\ reqPc[id] = "announced"
            /\ \A c \in Calls : pc[c] \in {"persist", "persistExpired"} => target[c] # id
            => row[id] = objState[id]

\* The journal gets at most one approval.resolved per approval, from whichever
\* of ResolveApproval and handleCompletion wins, unless the approval was
\* decided on copies loaded from the table.
ResolvedOnce ==
    \A id \in Ids :
        resolved[id] <= 1 \/ \E c \in Calls : target[c] = id /\ held[c] = c

\* A row that records an outcome never reads "pending" again: no late Update
\* (of Decide, Cancel, ExtendExpiry or the sweep) reopens it.
RowNeverReopens ==
    [][\A id \in Ids : row[id] \in Terminal => row'[id] \in Terminal]_vars

\* Every approval the bridge holds as pending stops being so: it is decided,
\* cancelled, expired by the sweep, or lost with the process.
PendingEnds ==
    \A id \in Ids : PendingInMap(id) ~> ~ PendingInMap(id)
=============================================================================
