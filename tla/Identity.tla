------------------------------ MODULE Identity ------------------------------
(***************************************************************************)
(* Pairing, access tokens and revocation (internal/identity), with the     *)
(* requests that use them: the pairing endpoints, withAuth, and a          *)
(* WebSocket whose pinger checks the token again on every heartbeat.       *)
(*                                                                         *)
(* Challenges live in a map behind s.mu; devices and tokens live in tables *)
(* that every call reads and writes statement by statement, without a      *)
(* transaction.  public_key is UNIQUE, so a key names its device, and a    *)
(* token is named after the call that issued it.                           *)
(***************************************************************************)
EXTENDS Naturals, FiniteSets

CONSTANTS
    Codes,        \* challenge codes, random, never generated twice
    Keys,         \* device public keys
    Calls,        \* requests, each of one kind and made once
    NoCode, NoKey, NoCall,
    MaxChallenges,\* maxChallenges (1024)
    ChallengeTTL, \* DefaultChallengeTTL (5 minutes)
    AccessExpiry, \* lifetime of a token (15 minutes)
    MaxTime,      \* bound: last clock value
    MaxFaults,    \* bound: statements that fail
    MaxRestarts   \* bound: server restarts

ASSUME IdentityNames ==
    /\ Codes \subseteq Nat \ {0} /\ Calls \subseteq Nat \ {0}
    /\ NoCode \notin Codes /\ NoKey \notin Keys /\ NoCall \notin Calls
ASSUME IdentityBounds ==
    /\ MaxChallenges \in Nat \ {0} /\ ChallengeTTL \in Nat \ {0} /\ AccessExpiry \in Nat
    /\ MaxTime \in Nat /\ MaxFaults \in Nat /\ MaxRestarts \in Nat

VARIABLES
    clock,
    challenge,   \* s.challenges: "none", "open" or "used"
    chExpires,
    device,      \* devices table: key -> state
    tokens,      \* access_tokens table: the calls whose token is stored
    tokExpires,
    pc,          \* progress of a call
    codeOf,      \* the challenge a PairDevice consumed
    keyOf,       \* the device a call works on
    tokenOf,     \* the token an authorization presents
    now,         \* the time a call read at its start
    result,
    socket,      \* the WebSocket opened by an authorized call
    everRevoked, \* history: devices whose revocation was stored
    late,        \* history: authorizations that began after that
    faults,
    restarts

chVars   == <<challenge, chExpires>>
dbVars   == <<device, tokens, tokExpires>>
callVars == <<pc, codeOf, keyOf, tokenOf, now, result>>
envVars  == <<socket, everRevoked, late, faults, restarts>>
vars == <<clock, chVars, dbVars, callVars, envVars>>

TypeOK ==
    /\ clock \in 0..MaxTime
    /\ challenge \in [Codes -> {"none", "open", "used"}]
    /\ chExpires \in [Codes -> 0..(MaxTime + ChallengeTTL)]
    /\ device \in [Keys -> {"absent", "paired", "revoked"}]
    /\ tokens \subseteq Calls
    /\ tokExpires \in [Calls -> 0..(MaxTime + AccessExpiry)]
    /\ pc \in [Calls -> {"idle", "device", "prune", "insert", "authorize", "revoke", "done"}]
    /\ codeOf \in [Calls -> Codes \cup {NoCode}]
    /\ keyOf \in [Calls -> Keys \cup {NoKey}]
    /\ tokenOf \in [Calls -> Calls \cup {NoCall}]
    /\ now \in [Calls -> 0..MaxTime]
    /\ result \in [Calls -> {"none", "token", "authorized", "revoked", "refused", "lost"}]
    /\ socket \in [Calls -> {"none", "open", "closed"}]
    /\ everRevoked \subseteq Keys /\ late \subseteq Calls
    /\ faults \in 0..MaxFaults /\ restarts \in 0..MaxRestarts

Init ==
    /\ clock = 0
    /\ challenge = [k \in Codes |-> "none"]
    /\ chExpires = [k \in Codes |-> 0]
    /\ device = [k \in Keys |-> "absent"]
    /\ tokens = {}
    /\ tokExpires = [c \in Calls |-> 0]
    /\ pc = [c \in Calls |-> "idle"]
    /\ codeOf = [c \in Calls |-> NoCode]
    /\ keyOf = [c \in Calls |-> NoKey]
    /\ tokenOf = [c \in Calls |-> NoCall]
    /\ now = [c \in Calls |-> 0]
    /\ result = [c \in Calls |-> "none"]
    /\ socket = [c \in Calls |-> "none"]
    /\ everRevoked = {} /\ late = {}
    /\ faults = 0 /\ restarts = 0

\* Calls are numbered in the order they arrive, codes in the order they are
\* generated.
Arrives(c) == pc[c] = "idle" /\ \A d \in 1..(c - 1) : pc[d] # "idle"
Unused(k) == chExpires[k] = 0 /\ \A j \in 1..(k - 1) : chExpires[j] > 0

\* A statement that fails.
Fault == faults < MaxFaults /\ faults' = faults + 1

\* The call returns.
Return(c, r) ==
    /\ pc' = [pc EXCEPT ![c] = "done"]
    /\ result' = [result EXCEPT ![c] = r]
Goto(c, where) ==
    /\ pc' = [pc EXCEPT ![c] = where]
    /\ UNCHANGED result

-----------------------------------------------------------------------------
(* Pairing.                                                                *)

Fresh == {k \in Codes : challenge[k] = "open" /\ clock <= chExpires[k]}

\* Mutant: the cap is tested before used and expired challenges are evicted.
CreateChallengeCountFirst(k) ==
    LET kept == IF Cardinality({j \in Codes : challenge[j] # "none"}) >= MaxChallenges
                  THEN {} ELSE Fresh
    IN  /\ Unused(k)
        /\ challenge' = [j \in Codes |-> CASE j = k -> "open"
                                           [] j # k /\ j \in kept -> "open"
                                           [] OTHER -> "none"]
        /\ chExpires' = [chExpires EXCEPT ![k] = clock + ChallengeTTL]
        /\ UNCHANGED <<clock, dbVars, callVars, envVars>>

\* Used and expired challenges are evicted; a map that is still full is
\* dropped as a whole.
CreateChallenge(k) ==
    LET kept == IF Cardinality(Fresh) >= MaxChallenges THEN {} ELSE Fresh
    IN  /\ Unused(k)
        /\ challenge' = [j \in Codes |-> IF j = k \/ j \in kept THEN "open" ELSE "none"]
        /\ chExpires' = [chExpires EXCEPT ![k] = clock + ChallengeTTL]
        /\ UNCHANGED <<clock, dbVars, callVars, envVars>>

\* Mutant: the challenge is marked used only if it has expired.
PairConsumeUnmarked(c, k, key, valid) ==
    /\ Arrives(c)
    /\ keyOf' = [keyOf EXCEPT ![c] = key]
    /\ now' = [now EXCEPT ![c] = clock]
    /\ IF k \in Fresh
         THEN /\ codeOf' = [codeOf EXCEPT ![c] = k]
              /\ IF valid THEN Goto(c, "device") ELSE Return(c, "refused")
              /\ UNCHANGED challenge
         ELSE /\ Return(c, "refused")
              /\ challenge' = IF challenge[k] = "open"
                                THEN [challenge EXCEPT ![k] = "used"] ELSE challenge
              /\ UNCHANGED codeOf
    /\ UNCHANGED <<clock, chExpires, dbVars, tokenOf, envVars>>

\* PairDevice up to the release of s.mu, and the checks of the body that
\* follow: the code is consumed before the body is looked at.
PairConsume(c, k, key, valid) ==
    /\ Arrives(c)
    /\ keyOf' = [keyOf EXCEPT ![c] = key]
    /\ now' = [now EXCEPT ![c] = clock]
    /\ challenge' = IF challenge[k] = "open" THEN [challenge EXCEPT ![k] = "used"] ELSE challenge
    /\ IF k \in Fresh
         THEN /\ codeOf' = [codeOf EXCEPT ![c] = k]
              /\ IF valid THEN Goto(c, "device") ELSE Return(c, "refused")
         ELSE /\ Return(c, "refused")
              /\ UNCHANGED codeOf
    /\ UNCHANGED <<clock, chExpires, dbVars, tokenOf, envVars>>

\* The INSERT fails for a key that was paired before, revoked or not.
persistDevice(c) ==
    /\ pc[c] = "device"
    /\ \/ /\ device[keyOf[c]] = "absent"
          /\ device' = [device EXCEPT ![keyOf[c]] = "paired"]
          /\ Goto(c, "prune")
          /\ UNCHANGED faults
       \/ /\ \/ device[keyOf[c]] # "absent" /\ UNCHANGED faults
             \/ Fault
          /\ Return(c, "refused")
          /\ UNCHANGED device
    /\ UNCHANGED <<clock, chVars, tokens, tokExpires, codeOf, keyOf, tokenOf, now,
                   socket, everRevoked, late, restarts>>

\* RefreshToken reads the device, and the clock after it.
RefreshToken(c, key) ==
    /\ Arrives(c)
    /\ keyOf' = [keyOf EXCEPT ![c] = key]
    /\ now' = [now EXCEPT ![c] = clock]
    /\ IF device[key] = "paired" THEN Goto(c, "prune") ELSE Return(c, "refused")
    /\ UNCHANGED <<clock, chVars, dbVars, codeOf, tokenOf, envVars>>

\* Mutant: the tokens of the last AccessExpiry are pruned too.
deleteExpiredTokensEager(c) ==
    /\ pc[c] = "prune"
    /\ tokens' = {t \in tokens : tokExpires[t] > now[c] + AccessExpiry}
    /\ Goto(c, "insert")
    /\ UNCHANGED <<clock, chVars, device, tokExpires, codeOf, keyOf, tokenOf, now, envVars>>

deleteExpiredTokens(c) ==
    /\ pc[c] = "prune"
    /\ tokens' = {t \in tokens : tokExpires[t] >= now[c]}
    /\ Goto(c, "insert")
    /\ UNCHANGED <<clock, chVars, device, tokExpires, codeOf, keyOf, tokenOf, now, envVars>>

persistToken(c) ==
    /\ pc[c] = "insert"
    /\ \/ /\ tokens' = tokens \cup {c}
          /\ tokExpires' = [tokExpires EXCEPT ![c] = now[c] + AccessExpiry]
          /\ Return(c, "token")
          /\ UNCHANGED faults
       \/ /\ Fault
          /\ Return(c, "refused")
          /\ UNCHANGED <<tokens, tokExpires>>
    /\ UNCHANGED <<clock, chVars, device, codeOf, keyOf, tokenOf, now,
                   socket, everRevoked, late, restarts>>

-----------------------------------------------------------------------------
(* Authorization and revocation.                                           *)

TokenValid(t) == t \in tokens /\ clock <= tokExpires[t]

\* AuthorizeToken reads the token, and then the device.
AuthorizeToken(c, t) ==
    /\ Arrives(c) /\ result[t] = "token"
    /\ tokenOf' = [tokenOf EXCEPT ![c] = t]
    /\ keyOf' = [keyOf EXCEPT ![c] = keyOf[t]]
    /\ now' = [now EXCEPT ![c] = clock]
    /\ IF TokenValid(t) THEN Goto(c, "authorize") ELSE Return(c, "refused")
    /\ late' = IF keyOf[t] \in everRevoked THEN late \cup {c} ELSE late
    /\ UNCHANGED <<clock, chVars, dbVars, codeOf, socket, everRevoked, faults, restarts>>

\* Mutant: any device of the table may act.
AuthorizeDeviceAny(c) ==
    /\ pc[c] = "authorize"
    /\ Return(c, IF device[keyOf[c]] # "absent" THEN "authorized" ELSE "refused")
    /\ UNCHANGED <<clock, chVars, dbVars, codeOf, keyOf, tokenOf, now, envVars>>

AuthorizeDevice(c) ==
    /\ pc[c] = "authorize"
    /\ Return(c, IF device[keyOf[c]] = "paired" THEN "authorized" ELSE "refused")
    /\ UNCHANGED <<clock, chVars, dbVars, codeOf, keyOf, tokenOf, now, envVars>>

\* RevokeDevice by an authenticated request: a read, and then the update.
RevokeRead(c, key) ==
    /\ Arrives(c)
    /\ keyOf' = [keyOf EXCEPT ![c] = key]
    /\ now' = [now EXCEPT ![c] = clock]
    /\ IF device[key] = "absent" THEN Return(c, "refused") ELSE Goto(c, "revoke")
    /\ UNCHANGED <<clock, chVars, dbVars, codeOf, tokenOf, envVars>>

RevokeUpdate(c) ==
    /\ pc[c] = "revoke"
    /\ \/ /\ device' = [device EXCEPT ![keyOf[c]] = "revoked"]
          /\ everRevoked' = everRevoked \cup {keyOf[c]}
          /\ Return(c, "revoked")
          /\ UNCHANGED faults
       \/ /\ Fault
          /\ Return(c, "refused")
          /\ UNCHANGED <<device, everRevoked>>
    /\ UNCHANGED <<clock, chVars, tokens, tokExpires, codeOf, keyOf, tokenOf, now,
                   socket, late, restarts>>

-----------------------------------------------------------------------------
(* The WebSocket of an authorized call, and the outside world.             *)

ServeHTTP(c) ==
    /\ result[c] = "authorized" /\ socket[c] = "none"
    /\ socket' = [socket EXCEPT ![c] = "open"]
    /\ UNCHANGED <<clock, chVars, dbVars, callVars, everRevoked, late, faults, restarts>>

\* Mutant: the heartbeat looks at the token only.
pingerTokenOnly(c) ==
    /\ socket[c] = "open"
    /\ ~TokenValid(tokenOf[c])
    /\ socket' = [socket EXCEPT ![c] = "closed"]
    /\ UNCHANGED <<clock, chVars, dbVars, callVars, everRevoked, late, faults, restarts>>

\* A heartbeat that finds the token invalid or the device revoked.
pinger(c) ==
    /\ socket[c] = "open"
    /\ ~TokenValid(tokenOf[c]) \/ device[keyOf[c]] = "revoked"
    /\ socket' = [socket EXCEPT ![c] = "closed"]
    /\ UNCHANGED <<clock, chVars, dbVars, callVars, everRevoked, late, faults, restarts>>

\* A restart empties the map and ends every call and connection.
Restart ==
    /\ restarts < MaxRestarts
    /\ restarts' = restarts + 1
    /\ challenge' = [k \in Codes |-> "none"]
    /\ pc' = [c \in Calls |-> IF pc[c] = "idle" THEN "idle" ELSE "done"]
    /\ result' = [c \in Calls |-> IF pc[c] \in {"idle", "done"} THEN result[c] ELSE "lost"]
    /\ socket' = [c \in Calls |-> IF socket[c] = "open" THEN "closed" ELSE socket[c]]
    /\ UNCHANGED <<clock, chExpires, dbVars, codeOf, keyOf, tokenOf, now, everRevoked, late, faults>>

Tick ==
    /\ clock < MaxTime
    /\ clock' = clock + 1
    /\ UNCHANGED <<chVars, dbVars, callVars, envVars>>

PairDevice(c) ==
    \/ \E k \in Codes, key \in Keys, valid \in BOOLEAN :
         chExpires[k] > 0 /\ PairConsume(c, k, key, valid)
    \/ persistDevice(c)

RevokeDevice(c) == (\E key \in Keys : RevokeRead(c, key)) \/ RevokeUpdate(c)

Next ==
    \/ \E k \in Codes : CreateChallenge(k)
    \/ \E c \in Calls :
        \/ PairDevice(c) \/ RevokeDevice(c)
        \/ \E key \in Keys : RefreshToken(c, key)
        \/ deleteExpiredTokens(c) \/ persistToken(c)
        \/ \E t \in Calls : AuthorizeToken(c, t)
        \/ AuthorizeDevice(c) \/ ServeHTTP(c) \/ pinger(c)
    \/ Restart \/ Tick

Spec == Init /\ [][Next]_vars
FairSpec == Spec /\ \A c \in Calls : WF_vars(pinger(c))

-----------------------------------------------------------------------------
(* Properties.                                                             *)

\* A challenge pairs one device: no two PairDevice calls consume one code,
\* however they interleave with evictions and restarts.
OneDevicePerCode ==
    \A c, d \in Calls : c # d /\ codeOf[c] # NoCode => codeOf[c] # codeOf[d]

\* An authorization that begins after a revocation was stored fails, whatever
\* pairing, refresh or revocation runs beside it.
NoAccessAfterRevoke == \A c \in late : result[c] # "authorized"

\* A token that was handed out is stored with its device until it expires:
\* pruning by slower calls and restarts do not lose it.
TokenIsDurable ==
    \A c \in Calls :
        result[c] = "token" =>
            /\ device[keyOf[c]] # "absent"
            /\ c \in tokens \/ clock > tokExpires[c]

\* The map of challenges never exceeds the cap, and a challenge that can be used
\* disappears only in a restart, or with all the others: a challenge created while
\* MaxChallenges usable ones are pending drops every one of them, where the
\* comment promises "Hard cap: drop the oldest challenge" (service.go:112).
ChallengeKept ==
    [][/\ Cardinality({k \in Codes : challenge'[k] # "none"}) <= MaxChallenges
       /\ \A k \in Codes :
            k \in Fresh /\ challenge'[k] = "none" /\ restarts' = restarts =>
                /\ Cardinality(Fresh) = MaxChallenges
                /\ \A j \in Fresh : challenge'[j] = "none"]_vars

\* The socket of a revoked device is closed by its next heartbeat.
RevokedSocketCloses ==
    \A c \in Calls :
        (socket[c] = "open" /\ keyOf[c] \in everRevoked) ~> (socket[c] = "closed")
=============================================================================
