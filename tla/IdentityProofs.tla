--------------------------- MODULE IdentityProofs ---------------------------
(***************************************************************************)
(* Pairing, tokens and revocation for any number of codes, keys, calls,    *)
(* faults and restarts, any lifetimes and any cap of the challenge map.    *)
(* No call holds a lock across its statements: every conjunct of the       *)
(* invariant is a fact about the tables that no statement of another call  *)
(* undoes.                                                                 *)
(***************************************************************************)
EXTENDS Identity, FiniteSetTheorems, TLAPS

-----------------------------------------------------------------------------
(* The inductive invariant.                                                *)

\* A call that has not arrived has no result and no token.
IdleShape ==
    \A c \in Calls :
        pc[c] = "idle" => result[c] = "none" /\ c \notin late /\ c \notin tokens

\* A call that has one works on a device, started in the past, and once it
\* issues a token its device is stored.
CallShape ==
    \A c \in Calls :
        /\ now[c] <= clock
        /\ pc[c] \in {"device", "prune", "insert", "authorize", "revoke"} => keyOf[c] \in Keys
        /\ pc[c] \in {"prune", "insert"} => device[keyOf[c]] # "absent"
        /\ result[c] = "token" =>
            pc[c] = "done" /\ keyOf[c] \in Keys /\ device[keyOf[c]] # "absent"

\* A code that was consumed has been generated and cannot be used again.
CodeSpent ==
    /\ \A k \in Codes : challenge[k] # "none" => chExpires[k] > 0
    /\ \A c \in Calls : codeOf[c] # NoCode =>
        chExpires[codeOf[c]] > 0 /\ challenge[codeOf[c]] # "open"

\* The challenges in the map.
Live == {k \in Codes : challenge[k] # "none"}

\* The map is within its cap.
Capped == IsFiniteSet(Live) /\ Cardinality(Live) <= MaxChallenges

\* A revocation that was stored stays.
RevokedStays == \A key \in everRevoked : device[key] = "revoked"

\* An authorization that began after a revocation works on that device.
LateShape == \A c \in late : keyOf[c] \in everRevoked /\ result[c] # "authorized"

\* A token that was handed out is in the table or has expired.
Stored == \A c \in Calls : result[c] = "token" => c \in tokens \/ clock > tokExpires[c]

IInv ==
    /\ TypeOK /\ IdleShape /\ CallShape /\ CodeSpent /\ OneDevicePerCode /\ Capped
    /\ RevokedStays /\ LateShape /\ Stored

-----------------------------------------------------------------------------
(* Frames.                                                                 *)

\* What is said of challenges.
ChallengeInv == CodeSpent /\ OneDevicePerCode /\ Capped

\* A step that leaves the challenges and the consumed codes alone keeps it.
LEMMA ChallengesKept ==
  ASSUME ChallengeInv, UNCHANGED <<challenge, chExpires, codeOf>>
  PROVE  ChallengeInv'
  BY DEF ChallengeInv, CodeSpent, OneDevicePerCode, Capped, Live

\* What is said of calls, tokens and devices.
AccessInv == IdleShape /\ CallShape /\ RevokedStays /\ LateShape /\ Stored

\* The challenges that can be used are among those in the map, so they are
\* finitely many and at most MaxChallenges.
LEMMA FreshBounded ==
  ASSUME TypeOK, Capped
  PROVE  /\ IsFiniteSet(Fresh) /\ Cardinality(Fresh) \in Nat
         /\ Cardinality(Fresh) <= MaxChallenges
  <1>1. Fresh \in SUBSET Live
    BY DEF Fresh, Live
  <1>2. /\ IsFiniteSet(Fresh) /\ Cardinality(Fresh) <= Cardinality(Live)
        /\ Cardinality(Fresh) \in Nat /\ Cardinality(Live) \in Nat
    BY <1>1, FS_Subset, FS_CardinalityType DEF Capped
  <1>3. QED
    BY <1>2, IdentityBounds DEF Capped

-----------------------------------------------------------------------------
(* Challenges.                                                             *)

\* A new challenge has a code that no call has consumed, and the map it is put
\* into has room.
LEMMA CreateChallengeStep ==
  ASSUME IInv, NEW k \in Codes, CreateChallenge(k)
  PROVE  IInv'
  <1> USE IdentityNames, IdentityBounds DEF IInv
  <1> DEFINE kept == IF Cardinality(Fresh) >= MaxChallenges THEN {} ELSE Fresh
  <1>1. /\ chExpires[k] = 0
        /\ challenge' = [j \in Codes |-> IF j = k \/ j \in kept THEN "open" ELSE "none"]
        /\ chExpires' = [chExpires EXCEPT ![k] = clock + ChallengeTTL]
        /\ UNCHANGED <<clock, device, tokens, tokExpires, pc, codeOf, keyOf, tokenOf, now, result,
                       socket, everRevoked, late, faults, restarts>>
    BY DEF CreateChallenge, Unused, dbVars, callVars, envVars
  <1>2. /\ clock \in Nat /\ clock + ChallengeTTL \in 0 .. (MaxTime + ChallengeTTL)
        /\ clock + ChallengeTTL > 0
    BY DEF TypeOK
  <1>3. kept \subseteq Fresh
    OBVIOUS
  <1>4. IsFiniteSet(kept) /\ Cardinality(kept) \in Nat /\ Cardinality(kept) + 1 <= MaxChallenges
    <2>1. CASE Cardinality(Fresh) >= MaxChallenges
      BY <2>1, FS_EmptySet
    <2>2. CASE ~(Cardinality(Fresh) >= MaxChallenges)
      BY <2>2, FreshBounded
    <2>3. QED
      BY <2>1, <2>2
  <1> HIDE DEF kept
  <1>5. Live' = kept \cup {k}
    BY <1>1, <1>3 DEF Live, Fresh
  <1>6. Capped'
    <2>1. /\ IsFiniteSet(kept \cup {k})
          /\ Cardinality(kept \cup {k}) = IF k \in kept THEN Cardinality(kept)
                                                     ELSE Cardinality(kept) + 1
      BY <1>4, FS_AddElement
    <2>2. Cardinality(kept \cup {k}) <= MaxChallenges
      BY <1>4, <2>1
    <2>3. QED
      BY <1>5, <2>1, <2>2 DEF Capped
  <1>7. TypeOK'
    BY <1>1, <1>2 DEF TypeOK
  <1>8. \A j \in kept : challenge[j] = "open"
    BY <1>3 DEF Fresh
  <1>9. CodeSpent'
    <2>1. ASSUME NEW j \in Codes, challenge'[j] # "none"
          PROVE  chExpires'[j] > 0
      BY <1>1, <1>2, <1>8, <2>1 DEF CodeSpent, TypeOK
    <2>2. ASSUME NEW c \in Calls, codeOf[c] # NoCode
          PROVE  chExpires'[codeOf[c]] > 0 /\ challenge'[codeOf[c]] # "open"
      <3>1. codeOf[c] \in Codes /\ chExpires[codeOf[c]] > 0 /\ challenge[codeOf[c]] # "open"
        BY <2>2 DEF TypeOK, CodeSpent
      <3>2. QED
        BY <1>1, <1>8, <3>1 DEF TypeOK
    <2>3. QED
      BY <1>1, <2>1, <2>2 DEF CodeSpent
  <1>10. OneDevicePerCode'
    BY <1>1 DEF OneDevicePerCode
  <1>11. AccessInv'
    BY <1>1 DEF AccessInv, IdleShape, CallShape, RevokedStays, LateShape, Stored
  <1>12. QED
    BY <1>6, <1>7, <1>9, <1>10, <1>11 DEF AccessInv

\* A code is consumed while it is open, hence by nobody before.
LEMMA PairConsumeStep ==
  ASSUME IInv, NEW c \in Calls, NEW k \in Codes, NEW key \in Keys, NEW valid \in BOOLEAN,
         chExpires[k] > 0, PairConsume(c, k, key, valid)
  PROVE  IInv'
  <1> USE IdentityNames, IdentityBounds DEF IInv
  <1>1. /\ pc[c] = "idle" /\ result[c] = "none" /\ c \notin late /\ c \notin tokens
        /\ UNCHANGED <<clock, chExpires, device, tokens, tokExpires, tokenOf,
                       socket, everRevoked, late, faults, restarts>>
        /\ keyOf' = [keyOf EXCEPT ![c] = key]
        /\ now' = [now EXCEPT ![c] = clock]
        /\ challenge' = IF challenge[k] = "open" THEN [challenge EXCEPT ![k] = "used"]
                                                 ELSE challenge
    BY DEF PairConsume, Arrives, IdleShape, dbVars, envVars
  <1>2. \/ k \in Fresh /\ codeOf' = [codeOf EXCEPT ![c] = k]
        \/ codeOf' = codeOf
    BY DEF PairConsume
  <1>3. \/ pc' = [pc EXCEPT ![c] = "device"] /\ result' = result
        \/ pc' = [pc EXCEPT ![c] = "done"] /\ result' = [result EXCEPT ![c] = "refused"]
    BY DEF PairConsume, Goto, Return
  <1>4. TypeOK'
    BY <1>1, <1>2, <1>3 DEF TypeOK
  <1>5. Live' = Live
    BY <1>1 DEF Live, TypeOK
  <1>6. Capped'
    BY <1>5 DEF Capped
  <1>7. challenge'[k] # "open" /\ \A j \in Codes : challenge'[j] = "open" => challenge[j] = "open"
    BY <1>1 DEF TypeOK
  <1>8. \A j \in Codes : challenge'[j] # "none" => challenge[j] # "none"
    BY <1>1 DEF TypeOK
  <1>9. CodeSpent'
    <2>1. ASSUME NEW d \in Calls, codeOf'[d] # NoCode
          PROVE  chExpires[codeOf'[d]] > 0 /\ challenge'[codeOf'[d]] # "open"
      <3>1. CASE codeOf'[d] = codeOf[d]
        <4>1. codeOf[d] \in Codes
          BY <2>1, <3>1 DEF TypeOK
        <4>2. chExpires[codeOf[d]] > 0 /\ challenge[codeOf[d]] # "open"
          BY <2>1, <3>1 DEF CodeSpent
        <4>3. QED
          BY <1>7, <3>1, <4>1, <4>2
      <3>2. CASE codeOf'[d] # codeOf[d]
        BY <1>2, <1>7, <3>2 DEF TypeOK
      <3>3. QED
        BY <3>1, <3>2
    <2>2. QED
      BY <1>1, <1>8, <2>1 DEF CodeSpent
  <1>10. OneDevicePerCode'
    <2>1. CASE codeOf' = codeOf
      BY <2>1 DEF OneDevicePerCode
    <2>2. CASE k \in Fresh /\ codeOf' = [codeOf EXCEPT ![c] = k]
      <3>1. challenge[k] = "open"
        BY <2>2 DEF Fresh
      <3>2. \A d \in Calls : codeOf[d] # k
        BY <3>1 DEF CodeSpent
      <3>3. QED
        BY <2>2, <3>2 DEF OneDevicePerCode, TypeOK
    <2>3. QED
      BY <1>2, <2>1, <2>2
  <1>11. IdleShape' /\ LateShape' /\ RevokedStays' /\ Stored'
    BY <1>1, <1>3 DEF IdleShape, LateShape, RevokedStays, Stored, TypeOK
  <1>12. CallShape'
    BY <1>1, <1>3 DEF CallShape, TypeOK
  <1>13. QED
    BY <1>4, <1>6, <1>9, <1>10, <1>11, <1>12

-----------------------------------------------------------------------------
(* Devices and tokens.                                                     *)

\* A device is inserted only where there was none, so never over a revocation.
LEMMA PersistDeviceStep ==
  ASSUME IInv, NEW c \in Calls, persistDevice(c)
  PROVE  IInv'
  <1> USE IdentityNames, IdentityBounds
          DEF IInv, Goto, Return, Arrives, Fault, chVars, dbVars, callVars, envVars
  <1>1. TypeOK'
    BY DEF persistDevice, TypeOK, CallShape
  <1>2. CodeSpent' /\ OneDevicePerCode' /\ Capped'
    BY ChallengesKept DEF persistDevice, ChallengeInv
  <1>3. IdleShape' /\ LateShape' /\ RevokedStays'
    BY DEF persistDevice, IdleShape, LateShape, RevokedStays, TypeOK, CallShape
  <1>4. CallShape' /\ Stored'
    BY DEF persistDevice, CallShape, Stored, IdleShape, TypeOK
  <1>5. QED
    BY <1>1, <1>2, <1>3, <1>4

\* A refresh starts for a paired device.
LEMMA RefreshTokenStep ==
  ASSUME IInv, NEW c \in Calls, NEW key \in Keys, RefreshToken(c, key)
  PROVE  IInv'
  <1> USE IdentityNames, IdentityBounds
          DEF IInv, Goto, Return, Arrives, Fault, chVars, dbVars, callVars, envVars
  <1>1. TypeOK'
    BY DEF RefreshToken, TypeOK, CallShape
  <1>2. CodeSpent' /\ OneDevicePerCode' /\ Capped'
    BY ChallengesKept DEF RefreshToken, ChallengeInv
  <1>3. IdleShape' /\ LateShape' /\ RevokedStays'
    BY DEF RefreshToken, IdleShape, LateShape, RevokedStays, TypeOK, CallShape
  <1>4. CallShape' /\ Stored'
    BY DEF RefreshToken, CallShape, Stored, IdleShape, TypeOK
  <1>5. QED
    BY <1>1, <1>2, <1>3, <1>4

\* What is pruned had expired when the call began, and so has it now.
LEMMA DeleteExpiredTokensStep ==
  ASSUME IInv, NEW c \in Calls, deleteExpiredTokens(c)
  PROVE  IInv'
  <1> USE IdentityNames, IdentityBounds
          DEF IInv, Goto, Return, Arrives, Fault, chVars, dbVars, callVars, envVars
  <1>1. TypeOK'
    BY DEF deleteExpiredTokens, TypeOK, CallShape
  <1>2. CodeSpent' /\ OneDevicePerCode' /\ Capped'
    BY ChallengesKept DEF deleteExpiredTokens, ChallengeInv
  <1>3. IdleShape' /\ LateShape' /\ RevokedStays'
    BY DEF deleteExpiredTokens, IdleShape, LateShape, RevokedStays, TypeOK, CallShape
  <1>4. CallShape' /\ Stored'
    BY DEF deleteExpiredTokens, CallShape, Stored, IdleShape, TypeOK
  <1>5. QED
    BY <1>1, <1>2, <1>3, <1>4

\* A token is handed out with its row.
LEMMA PersistTokenStep ==
  ASSUME IInv, NEW c \in Calls, persistToken(c)
  PROVE  IInv'
  <1> USE IdentityNames, IdentityBounds
          DEF IInv, Goto, Return, Arrives, Fault, chVars, dbVars, callVars, envVars
  <1>1. TypeOK'
    <2>1. tokExpires' \in [Calls -> 0 .. (MaxTime + AccessExpiry)]
      <3>1. now[c] + AccessExpiry \in 0 .. (MaxTime + AccessExpiry)
        BY DEF TypeOK
      <3>2. \/ tokExpires' = [tokExpires EXCEPT ![c] = now[c] + AccessExpiry]
            \/ tokExpires' = tokExpires
        BY DEF persistToken
      <3>3. tokExpires \in [Calls -> 0 .. (MaxTime + AccessExpiry)]
        BY DEF TypeOK
      <3>4. QED
        BY ONLY <3>1, <3>2, <3>3
    <2>2. tokens' \subseteq Calls
      <3>1. tokens' \in {tokens, tokens \cup {c}}
        BY DEF persistToken
      <3>2. tokens \subseteq Calls
        BY DEF TypeOK
      <3>3. QED
        BY <3>1, <3>2
    <2>3. pc' \in [Calls -> {"idle", "device", "prune", "insert", "authorize", "revoke", "done"}]
      BY DEF persistToken, TypeOK
    <2>4. /\ result' \in [Calls -> {"none", "token", "authorized", "revoked", "refused", "lost"}]
          /\ faults' \in 0 .. MaxFaults
      BY DEF persistToken, TypeOK
    <2>5. QED
      BY <2>1, <2>2, <2>3, <2>4 DEF persistToken, TypeOK
  <1>2. CodeSpent' /\ OneDevicePerCode' /\ Capped'
    BY ChallengesKept DEF persistToken, ChallengeInv
  <1>3. IdleShape' /\ LateShape' /\ RevokedStays'
    BY DEF persistToken, IdleShape, LateShape, RevokedStays, TypeOK, CallShape
  <1>4. CallShape' /\ Stored'
    BY DEF persistToken, CallShape, Stored, IdleShape, TypeOK
  <1>5. QED
    BY <1>1, <1>2, <1>3, <1>4

-----------------------------------------------------------------------------
(* Authorization, revocation and the environment.                          *)

\* A late authorization carries the key of the revoked device.
LEMMA AuthorizeTokenStep ==
  ASSUME IInv, NEW c \in Calls, NEW t \in Calls, AuthorizeToken(c, t)
  PROVE  IInv'
  <1> USE IdentityNames, IdentityBounds
          DEF IInv, Goto, Return, Arrives, Fault, chVars, dbVars, callVars, envVars
  <1>1. TypeOK'
    BY DEF AuthorizeToken, TypeOK, CallShape
  <1>2. CodeSpent' /\ OneDevicePerCode' /\ Capped'
    BY ChallengesKept DEF AuthorizeToken, ChallengeInv
  <1>3. IdleShape' /\ LateShape' /\ RevokedStays'
    BY DEF AuthorizeToken, IdleShape, LateShape, RevokedStays, TypeOK, CallShape
  <1>4. CallShape' /\ Stored'
    BY DEF AuthorizeToken, CallShape, Stored, IdleShape, TypeOK
  <1>5. QED
    BY <1>1, <1>2, <1>3, <1>4

\* A late authorization finds the device revoked.
LEMMA AuthorizeDeviceStep ==
  ASSUME IInv, NEW c \in Calls, AuthorizeDevice(c)
  PROVE  IInv'
  <1> USE IdentityNames, IdentityBounds
          DEF IInv, Goto, Return, Arrives, Fault, chVars, dbVars, callVars, envVars
  <1>1. TypeOK'
    BY DEF AuthorizeDevice, TypeOK, CallShape
  <1>2. CodeSpent' /\ OneDevicePerCode' /\ Capped'
    BY ChallengesKept DEF AuthorizeDevice, ChallengeInv
  <1>3. IdleShape' /\ LateShape' /\ RevokedStays'
    BY DEF AuthorizeDevice, IdleShape, LateShape, RevokedStays, TypeOK, CallShape
  <1>4. CallShape' /\ Stored'
    BY DEF AuthorizeDevice, CallShape, Stored, IdleShape, TypeOK
  <1>5. QED
    BY <1>1, <1>2, <1>3, <1>4

\* The read of a revocation decides nothing.
LEMMA RevokeReadStep ==
  ASSUME IInv, NEW c \in Calls, NEW key \in Keys, RevokeRead(c, key)
  PROVE  IInv'
  <1> USE IdentityNames, IdentityBounds
          DEF IInv, Goto, Return, Arrives, Fault, chVars, dbVars, callVars, envVars
  <1>1. TypeOK'
    BY DEF RevokeRead, TypeOK, CallShape
  <1>2. CodeSpent' /\ OneDevicePerCode' /\ Capped'
    BY ChallengesKept DEF RevokeRead, ChallengeInv
  <1>3. IdleShape' /\ LateShape' /\ RevokedStays'
    BY DEF RevokeRead, IdleShape, LateShape, RevokedStays, TypeOK, CallShape
  <1>4. CallShape' /\ Stored'
    BY DEF RevokeRead, CallShape, Stored, IdleShape, TypeOK
  <1>5. QED
    BY <1>1, <1>2, <1>3, <1>4

\* An update stores the revocation of a device that is in the table.
LEMMA RevokeUpdateStep ==
  ASSUME IInv, NEW c \in Calls, RevokeUpdate(c)
  PROVE  IInv'
  <1> USE IdentityNames, IdentityBounds
          DEF IInv, Goto, Return, Arrives, Fault, chVars, dbVars, callVars, envVars
  <1>1. TypeOK'
    BY DEF RevokeUpdate, TypeOK, CallShape
  <1>2. CodeSpent' /\ OneDevicePerCode' /\ Capped'
    BY ChallengesKept DEF RevokeUpdate, ChallengeInv
  <1>3. IdleShape' /\ LateShape' /\ RevokedStays'
    BY DEF RevokeUpdate, IdleShape, LateShape, RevokedStays, TypeOK, CallShape
  <1>4. CallShape' /\ Stored'
    BY DEF RevokeUpdate, CallShape, Stored, IdleShape, TypeOK
  <1>5. QED
    BY <1>1, <1>2, <1>3, <1>4

\* Opening a socket changes neither calls nor tables.
LEMMA ServeHTTPStep ==
  ASSUME IInv, NEW c \in Calls, ServeHTTP(c)
  PROVE  IInv'
  <1> USE IdentityNames, IdentityBounds
          DEF IInv, Goto, Return, Arrives, Fault, chVars, dbVars, callVars, envVars
  <1>1. TypeOK'
    BY DEF ServeHTTP, TypeOK, CallShape
  <1>2. CodeSpent' /\ OneDevicePerCode' /\ Capped'
    BY ChallengesKept DEF ServeHTTP, ChallengeInv
  <1>3. IdleShape' /\ LateShape' /\ RevokedStays'
    BY DEF ServeHTTP, IdleShape, LateShape, RevokedStays, TypeOK, CallShape
  <1>4. CallShape' /\ Stored'
    BY DEF ServeHTTP, CallShape, Stored, IdleShape, TypeOK
  <1>5. QED
    BY <1>1, <1>2, <1>3, <1>4

\* Neither does closing it.
LEMMA PingerStep ==
  ASSUME IInv, NEW c \in Calls, pinger(c)
  PROVE  IInv'
  <1> USE IdentityNames, IdentityBounds
          DEF IInv, Goto, Return, Arrives, Fault, chVars, dbVars, callVars, envVars
  <1>1. TypeOK'
    BY DEF pinger, TypeOK, CallShape
  <1>2. CodeSpent' /\ OneDevicePerCode' /\ Capped'
    BY ChallengesKept DEF pinger, ChallengeInv
  <1>3. IdleShape' /\ LateShape' /\ RevokedStays'
    BY DEF pinger, IdleShape, LateShape, RevokedStays, TypeOK, CallShape
  <1>4. CallShape' /\ Stored'
    BY DEF pinger, CallShape, Stored, IdleShape, TypeOK
  <1>5. QED
    BY <1>1, <1>2, <1>3, <1>4

\* Time passes: what has expired stays expired.
LEMMA TickStep ==
  ASSUME IInv, Tick
  PROVE  IInv'
  <1> USE IdentityNames, IdentityBounds
          DEF IInv, Goto, Return, Arrives, Fault, chVars, dbVars, callVars, envVars
  <1>1. TypeOK'
    BY DEF Tick, TypeOK, CallShape
  <1>2. CodeSpent' /\ OneDevicePerCode' /\ Capped'
    BY ChallengesKept DEF Tick, ChallengeInv
  <1>3. IdleShape' /\ LateShape' /\ RevokedStays'
    BY DEF Tick, IdleShape, LateShape, RevokedStays, TypeOK, CallShape
  <1>4. CallShape' /\ Stored'
    BY DEF Tick, CallShape, Stored, IdleShape, TypeOK
  <1>5. QED
    BY <1>1, <1>2, <1>3, <1>4

\* A restart empties the map and ends the calls; the tables stay.
LEMMA RestartStep ==
  ASSUME IInv, Restart
  PROVE  IInv'
  <1> USE IdentityNames, IdentityBounds DEF IInv, Restart, dbVars
  <1>1. TypeOK'
    BY DEF TypeOK
  <1>2. Live' = {}
    BY DEF Live
  <1>3. Capped'
    BY <1>2, FS_EmptySet DEF Capped
  <1>4. CodeSpent' /\ OneDevicePerCode'
    BY DEF CodeSpent, OneDevicePerCode, TypeOK
  <1>5. IdleShape' /\ LateShape' /\ RevokedStays' /\ CallShape' /\ Stored'
    BY DEF IdleShape, LateShape, RevokedStays, CallShape, Stored, TypeOK
  <1>6. QED
    BY <1>1, <1>3, <1>4, <1>5

-----------------------------------------------------------------------------
(* Theorems.                                                               *)

\* A server starts with an empty map and empty tables.
LEMMA InitInv == Init => IInv
  <1> SUFFICES ASSUME Init
               PROVE  IInv
    OBVIOUS
  <1> USE IdentityNames, IdentityBounds
  <1>1. Live = {}
    BY DEF Init, Live
  <1>2. Capped
    BY <1>1, FS_EmptySet DEF Capped
  <1>3. QED
    BY <1>2 DEF Init, IInv, TypeOK, IdleShape, CallShape, CodeSpent, OneDevicePerCode, RevokedStays,
                LateShape, Stored

\* Every step keeps the invariant.
LEMMA NextInv == IInv /\ [Next]_vars => IInv'
  <1> SUFFICES ASSUME IInv, [Next]_vars
               PROVE  IInv'
    OBVIOUS
  <1>1. CASE UNCHANGED vars
    BY <1>1 DEF IInv, vars, chVars, dbVars, callVars, envVars, TypeOK, IdleShape, CallShape,
       CodeSpent, OneDevicePerCode, Capped, Live, RevokedStays, LateShape, Stored
  <1>2. ASSUME NEW c \in Calls, PairDevice(c)
        PROVE  IInv'
    BY <1>2, PairConsumeStep, PersistDeviceStep DEF PairDevice
  <1>3. ASSUME NEW c \in Calls, RevokeDevice(c)
        PROVE  IInv'
    BY <1>3, RevokeReadStep, RevokeUpdateStep DEF RevokeDevice
  <1>4. QED
    BY <1>1, <1>2, <1>3, CreateChallengeStep, RefreshTokenStep, DeleteExpiredTokensStep,
       PersistTokenStep, AuthorizeTokenStep, AuthorizeDeviceStep, ServeHTTPStep, PingerStep,
       RestartStep, TickStep DEF Next

\* The invariant holds throughout.
LEMMA Invariance == Spec => []IInv
  BY InitInv, NextInv, PTL DEF Spec

\* The challenge map, the tables and the calls keep their types
\* (internal/identity/service.go).
THEOREM TypeCorrect == Spec => []TypeOK
  BY Invariance, PTL DEF IInv

\* No two PairDevice calls consume one challenge, whatever is evicted,
\* dropped or forgotten between them (PairDevice, CreateChallenge).
THEOREM CodesAreSingleUse == Spec => []OneDevicePerCode
  BY Invariance, PTL DEF IInv

\* An authorization that begins after the revocation of its device was stored
\* does not succeed (AuthorizeToken, RevokeDevice, PairDevice).
THEOREM RevocationHolds == Spec => []NoAccessAfterRevoke
  <1>1. IInv => NoAccessAfterRevoke
    BY DEF IInv, LateShape, NoAccessAfterRevoke
  <1>2. QED
    BY <1>1, Invariance, PTL

\* A token that was handed out stays in the table with its device until it
\* expires (deleteExpiredTokens beside persistToken, restarts).
THEOREM TokensAreDurable == Spec => []TokenIsDurable
  <1>1. IInv => TokenIsDurable
    BY DEF IInv, CallShape, Stored, TokenIsDurable
  <1>2. QED
    BY <1>1, Invariance, PTL

\* The map of challenges stays within its cap, and a usable challenge is lost
\* only in a restart or to a full map of usable ones, which then are all lost
\* and not the oldest alone (CreateChallenge).
THEOREM ChallengesAreKept == Spec => ChallengeKept
  <1> DEFINE Kept == /\ Cardinality({k \in Codes : challenge'[k] # "none"}) <= MaxChallenges
                     /\ \A k \in Codes :
                          k \in Fresh /\ challenge'[k] = "none" /\ restarts' = restarts =>
                              /\ Cardinality(Fresh) = MaxChallenges
                              /\ \A j \in Fresh : challenge'[j] = "none"
  <1>1. IInv /\ IInv' /\ [Next]_vars => [Kept]_vars
    <2> SUFFICES ASSUME IInv, IInv', Next
                 PROVE  Kept
      OBVIOUS
    <2>1. Cardinality({k \in Codes : challenge'[k] # "none"}) <= MaxChallenges
      BY DEF IInv, Capped, Live
    <2>2. ASSUME NEW k \in Codes, k \in Fresh, challenge'[k] = "none", restarts' = restarts
          PROVE  /\ Cardinality(Fresh) = MaxChallenges
                 /\ \A j \in Fresh : challenge'[j] = "none"
      <3>1. challenge[k] = "open" /\ challenge' # challenge
        BY <2>2 DEF Fresh
      <3>2. ~Restart
        BY <2>2 DEF Restart, IInv, TypeOK
      <3>3. ASSUME NEW c \in Calls, NEW j \in Codes, NEW key \in Keys, NEW valid \in BOOLEAN,
                   PairConsume(c, j, key, valid)
            PROVE  FALSE
        BY <2>2, <3>1, <3>3 DEF PairConsume, IInv, TypeOK
      <3>4. ASSUME NEW c \in Calls,
                   \/ persistDevice(c) \/ RevokeUpdate(c) \/ deleteExpiredTokens(c)
                   \/ persistToken(c) \/ AuthorizeDevice(c) \/ ServeHTTP(c) \/ pinger(c)
            PROVE  challenge' = challenge
        BY <3>4 DEF persistDevice, RevokeUpdate, deleteExpiredTokens, persistToken,
                    AuthorizeDevice, ServeHTTP, pinger, chVars
      <3>5. ASSUME NEW c \in Calls,
                   \/ \E key \in Keys : RevokeRead(c, key) \/ RefreshToken(c, key)
                   \/ \E t \in Calls : AuthorizeToken(c, t)
            PROVE  challenge' = challenge
        BY <3>5 DEF RevokeRead, RefreshToken, AuthorizeToken, chVars
      <3>6. Tick => challenge' = challenge
        BY DEF Tick, chVars
      <3>7. PICK n \in Codes : CreateChallenge(n)
        BY <3>1, <3>2, <3>3, <3>4, <3>5, <3>6 DEF Next, PairDevice, RevokeDevice
      <3>8. Cardinality(Fresh) >= MaxChallenges
        BY <2>2, <3>7 DEF CreateChallenge
      <3>9. n \notin Fresh
        BY <3>7 DEF CreateChallenge, Unused, Fresh, IInv, TypeOK, CodeSpent
      <3>10. \A j \in Fresh : challenge'[j] = "none"
        BY <3>7, <3>8, <3>9 DEF CreateChallenge, Fresh
      <3>11. Cardinality(Fresh) = MaxChallenges
        BY <3>8, FreshBounded, IdentityBounds DEF IInv
      <3>12. QED
        BY <3>10, <3>11
    <2>3. QED
      BY <2>1, <2>2
  <1>2. QED
    BY <1>1, Invariance, PTL DEF Spec, ChallengeKept
=============================================================================
