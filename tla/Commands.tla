------------------------------ MODULE Commands ------------------------------
(***************************************************************************)
(* Write requests and their idempotency keys: the REST path (withAuth,     *)
(* withIdempotency, the five POST handlers, session.IdempotencyStore) and  *)
(* protocol.Dispatcher, which guards commands the same way in another      *)
(* order.  Requests run concurrently; each looks its key up, runs, and     *)
(* records its answer in three separate steps.                             *)
(*                                                                         *)
(* A key stands for one command: clients draw it at random and repeat it   *)
(* only to retry.  The command itself is one step with three outcomes.     *)
(***************************************************************************)
EXTENDS Naturals, FiniteSets

CONSTANTS
    Requests,   \* 1..n, numbered in the order they arrive
    Keys,       \* well-formed idempotency keys
    NoKey,      \* the header is missing
    NoEntry,
    NoAnswer,
    Expiry,     \* lifetime of an entry (24 hours)
    MaxTime,    \* bound: last clock value
    MaxRestarts \* bound: server restarts

ASSUME CommandNames ==
    /\ Requests \subseteq Nat \ {0}
    /\ NoKey \notin Keys
    /\ NoEntry \notin Nat
ASSUME CommandBounds == Expiry \in Nat /\ MaxTime \in Nat /\ MaxRestarts \in Nat

VARIABLES
    clock,
    restarts,
    front,    \* which of the two paths the requests take: they share nothing
    store,    \* the entries of its store
    key,
    sound,    \* the key has 8 to 200 characters, the body decodes and validates
    pc,
    answer,   \* what the client of a request was sent
    ran,      \* history: requests that ran their command
    addedAt,  \* history: when a request recorded its answer in this server
    prior     \* history: the recordings in force when a request looked up

reqVars  == <<front, key, sound, pc>>
histVars == <<addedAt, prior>>
vars == <<clock, restarts, store, reqVars, answer, ran, histVars>>

Fronts == {"rest", "dispatch"}
Answers == [by : Requests, class : {"ok", "failed", "refused"}]
Entries == [answer : Answers, expires : 0..(MaxTime + Expiry)]

\* A missing entry is told from every entry.
ASSUME EntryNames == NoEntry \notin Entries /\ NoAnswer \notin Answers

TypeOK ==
    /\ clock \in 0..MaxTime /\ restarts \in 0..MaxRestarts
    /\ front \in Fronts
    /\ store \in [Keys -> {NoEntry} \cup Entries]
    /\ key \in [Requests -> Keys \cup {NoKey}]
    /\ sound \in [Requests -> BOOLEAN]
    /\ pc \in [Requests -> {"idle", "lookup", "handle", "add", "done", "lost"}]
    /\ answer \in [Requests -> Answers \cup {NoAnswer}]
    /\ ran \subseteq Requests
    /\ addedAt \in [Requests -> 0..MaxTime \cup {NoEntry}]
    /\ prior \in [Requests -> SUBSET Requests]

Init ==
    /\ clock = 0 /\ restarts = 0
    /\ front \in Fronts
    /\ store = [k \in Keys |-> NoEntry]
    /\ key = [r \in Requests |-> NoKey]
    /\ sound = [r \in Requests |-> FALSE]
    /\ pc = [r \in Requests |-> "idle"]
    /\ answer = [r \in Requests |-> NoAnswer]
    /\ ran = {}
    /\ addedAt = [r \in Requests |-> NoEntry]
    /\ prior = [r \in Requests |-> {}]

Goto(r, where) == pc' = [pc EXCEPT ![r] = where]
Sent(r, class) == answer' = [answer EXCEPT ![r] = [by |-> r, class |-> class]]

-----------------------------------------------------------------------------
(* A request.                                                              *)

NextToArrive(r) == pc[r] = "idle" /\ \A q \in 1..(r - 1) : pc[q] # "idle"

\* withAuth refuses before the key is read, and so does the dispatcher, which
\* also refuses a protocol version it does not know.
Reject(r) ==
    /\ NextToArrive(r)
    /\ Goto(r, "done")
    /\ Sent(r, "refused")
    /\ UNCHANGED <<clock, restarts, store, front, key, sound, ran, histVars>>

\* A request is admitted.  Without a key there is no lookup.
Admit(r, k, valid) ==
    /\ NextToArrive(r)
    /\ key' = [key EXCEPT ![r] = k]
    /\ sound' = [sound EXCEPT ![r] = valid]
    /\ Goto(r, IF k = NoKey THEN "handle" ELSE "lookup")
    /\ UNCHANGED <<clock, restarts, store, front, answer, ran, histVars>>

\* The requests with a key whose recording is not due yet (history).
InForce(k) ==
    {q \in Requests : /\ key[q] = k /\ addedAt[q] # NoEntry
                      /\ front = "rest" => clock <= addedAt[q] + Expiry}

\* Get: an entry that cleanup has not removed is ignored once it expired.
Get(r) ==
    LET e == store[key[r]] IN e # NoEntry /\ clock <= e.expires

\* A hit replays the stored answer; a miss runs the handler.
Lookup(r) ==
    /\ pc[r] = "lookup"
    /\ prior' = [prior EXCEPT ![r] = InForce(key[r])]
    /\ IF Get(r)
         THEN /\ answer' = [answer EXCEPT ![r] = store[key[r]].answer]
              /\ Goto(r, "done")
         ELSE Goto(r, "handle") /\ UNCHANGED answer
    /\ UNCHANGED <<clock, restarts, store, front, key, sound, ran, addedAt>>

\* The key is present where it must be, the body decodes, the payload passes
\* the schema of its command.
Valid(r) == sound[r] /\ (front = "rest" => key[r] # NoKey)

\* requireIdempotencyKey and decodeBody refuse inside the recorded handler;
\* the dispatcher's checks of the type and the payload return before it
\* records anything.
Refuse(r) ==
    /\ pc[r] = "handle" /\ ~Valid(r)
    /\ Sent(r, "refused")
    /\ Goto(r, IF front = "rest" /\ key[r] # NoKey THEN "add" ELSE "done")
    /\ UNCHANGED <<clock, restarts, store, front, key, sound, ran, histVars>>

\* The service call.  One that fails may have taken effect before it did.
Run(r, class) ==
    /\ pc[r] = "handle" /\ Valid(r)
    /\ ran' = ran \cup {r}
    /\ Sent(r, class)
    /\ Goto(r, IF key[r] = NoKey THEN "done" ELSE "add")
    /\ UNCHANGED <<clock, restarts, store, front, key, sound, histVars>>

Entry(r) == [answer |-> answer[r],
             expires |-> IF front = "rest" THEN clock + Expiry ELSE MaxTime]

\* Mutant: failures are not recorded.
AddSuccess(r) ==
    /\ pc[r] = "add"
    /\ store' = IF answer[r].class = "ok"
                  THEN [store EXCEPT ![key[r]] = Entry(r)] ELSE store
    /\ addedAt' = [addedAt EXCEPT ![r] = clock]
    /\ Goto(r, "done")
    /\ UNCHANGED <<clock, restarts, front, key, sound, answer, ran, prior>>

\* Mutant: the status that WriteHeader was given is not kept.
AddWithoutStatus(r) ==
    /\ pc[r] = "add"
    /\ store' = [store EXCEPT ![key[r]] =
                    [Entry(r) EXCEPT !.answer.class = "ok"]]
    /\ addedAt' = [addedAt EXCEPT ![r] = clock]
    /\ Goto(r, "done")
    /\ UNCHANGED <<clock, restarts, front, key, sound, answer, ran, prior>>

\* Add replaces what a concurrent request recorded under the key.
Add(r) ==
    /\ pc[r] = "add"
    /\ store' = [store EXCEPT ![key[r]] = Entry(r)]
    /\ addedAt' = [addedAt EXCEPT ![r] = clock]
    /\ Goto(r, "done")
    /\ UNCHANGED <<clock, restarts, front, key, sound, answer, ran, prior>>

-----------------------------------------------------------------------------
(* The rest of the server.                                                 *)

Overdue(k) == store[k] # NoEntry /\ clock > store[k].expires

\* The minute ticker.
cleanup ==
    /\ \E k \in Keys : Overdue(k)
    /\ store' = [k \in Keys |-> IF Overdue(k) THEN NoEntry ELSE store[k]]
    /\ UNCHANGED <<clock, restarts, reqVars, answer, ran, histVars>>

\* A restart empties the store; what was running is never answered, and
\* what it did stays done.
Restart ==
    /\ restarts < MaxRestarts
    /\ restarts' = restarts + 1
    /\ store' = [k \in Keys |-> NoEntry]
    /\ pc' = [r \in Requests |-> IF pc[r] \in {"lookup", "handle", "add"} THEN "lost" ELSE pc[r]]
    /\ addedAt' = [r \in Requests |-> NoEntry]
    /\ UNCHANGED <<clock, front, key, sound, answer, ran, prior>>

Tick ==
    /\ clock < MaxTime
    /\ clock' = clock + 1
    /\ UNCHANGED <<restarts, store, reqVars, answer, ran, histVars>>

Guarded(r) ==
    Lookup(r) \/ Refuse(r) \/ (\E class \in {"ok", "failed"} : Run(r, class)) \/ Add(r)

\* The two paths.
withIdempotency(r) == front = "rest" /\ Guarded(r)
Dispatch(r) == front = "dispatch" /\ Guarded(r)

Next ==
    \/ \E r \in Requests :
        \/ Reject(r)
        \/ \E k \in Keys \cup {NoKey}, valid \in BOOLEAN : Admit(r, k, valid)
        \/ withIdempotency(r) \/ Dispatch(r)
    \/ cleanup \/ Restart \/ Tick

Spec == Init /\ [][Next]_vars

-----------------------------------------------------------------------------
(* Properties.                                                             *)

\* A retry does not run the command a second time, whether the first attempt
\* succeeded or failed, unless it overlaps it, follows a restart or comes
\* after the entry expired.
RetryDoesNotRunAgain == \A r \in Requests : prior[r] # {} => r \notin ran

\* A retry is sent the answer of the attempt it repeats, status included,
\* unless overlapping attempts have recorded several.
ReplayIsTheAnswer ==
    \A q, r \in Requests : prior[r] = {q} /\ pc[r] = "done" => answer[r] = answer[q]
=============================================================================
