--------------------------- MODULE StorageProofs ----------------------------
(***************************************************************************)
(* What is kept in the data directory and how it is carried away: the      *)
(* workspace registry and carctl's archive of the database.                *)
(*                                                                         *)
(* The registry, for any configurations, paths, links, sessions and        *)
(* restarts: only resolved directories reach the table, so that its UNIQUE *)
(* path is unique up to links as well; what a map holds is in the table,   *)
(* and the table alone answers when the maps are empty.                    *)
(*                                                                         *)
(* The archive, for any number of transactions, backups and restores: a    *)
(* log that is neither restarted nor deleted while backup copies the files *)
(* begins before the oldest page copied and ends after the newest; and     *)
(* restore extracts nothing that is not sealed, which is the last thing a  *)
(* backup does.                                                            *)
(***************************************************************************)
EXTENDS Workspaces, Backup, SequenceTheorems, TLAPS

-----------------------------------------------------------------------------
(* The inductive invariant.                                                *)

\* A directory, and hence a stored path, is its own canonical form.
CanonicalRows ==
    /\ dirs \subseteq Directories
    /\ \A i \in Ids : rows[i] # None => Canonical[rows[i]] = rows[i]

\* The UNIQUE constraint of the path column.
UniquePaths == \A i, j \in Ids : rows[i] # None /\ rows[i] = rows[j] => i = j

\* The maps agree with the table and with each other.
MapsAgree ==
    /\ \A i \in Ids : workspaces[i] # None => rows[i] = workspaces[i]
    /\ \A i \in Ids, p \in Paths : paths[p] = i <=> workspaces[i] = p

\* A session that is being created has no row, and one without a row has not run.
SessionShape ==
    \A s \in Sessions :
        /\ creating[s] # None => session[s] = None
        /\ session[s] = None => ranIn[s] = None

IInv ==
    /\ TypeOK /\ CanonicalRows /\ UniquePaths /\ MapsAgree
    /\ SessionShape /\ SessionKeepsWorkspace

-----------------------------------------------------------------------------
(* Operators of the registry.                                              *)

\* A path that ValidatePath accepts resolves to its canonical form.
LEMMA ResolvedIsCanonical ==
  ASSUME TypeOK, CanonicalRows, NEW p \in Paths, ValidatePath(p)
  PROVE  /\ resolveCanonicalPath(p) \in Paths
         /\ Canonical[resolveCanonicalPath(p)] = resolveCanonicalPath(p)
  <1>1. resolveCanonicalPath(p) \in Directories
    BY DEF ValidatePath, CanonicalRows
  <1>2. PICK q \in Paths : resolveCanonicalPath(p) = Canonical[q]
    BY <1>1 DEF Directories
  <1>3. QED
    BY <1>2, WorkspaceNames

\* GetByID finds the path in the table, whether or not the map has it.
LEMMA LookupIsRow ==
  ASSUME TypeOK, MapsAgree, NEW i \in Ids
  PROVE  Lookup(i) = rows[i]
  BY DEF Lookup, MapsAgree

\* A look-up by path finds the one id whose row is the canonical path.
LEMMA GetByPathIsRow ==
  ASSUME TypeOK, UniquePaths, MapsAgree, NEW p \in Paths, Canonical[p] \in dirs, NEW i \in Ids
  PROVE  GetByPath(p) = i <=> rows[i] = Canonical[p]
  <1> DEFINE c == Canonical[p]
  <1>1. c \in Paths /\ c # None /\ i # None /\ resolveCanonicalPath(p) = c
    BY WorkspaceNames DEF resolveCanonicalPath
  <1>2. GetByPath(p) = IF paths[c] # None THEN paths[c] ELSE Stored(c)
    BY <1>1 DEF GetByPath
  <1> HIDE DEF c
  <1>3. CASE paths[c] # None
    <2>1. PICK j \in Ids : paths[c] = j
      BY <1>1, <1>3 DEF TypeOK
    <2>2. workspaces[j] = c /\ rows[j] = c
      BY <1>1, <2>1 DEF MapsAgree
    <2>3. QED
      BY <1>1, <1>2, <1>3, <2>1, <2>2 DEF UniquePaths, c
  <1>4. CASE paths[c] = None
    <2>1. CASE \E j \in Ids : rows[j] = c
      <3>1. Stored(c) \in Ids /\ rows[Stored(c)] = c
        BY <2>1 DEF Stored
      <3>2. QED
        BY <1>1, <1>2, <1>4, <3>1 DEF UniquePaths, c
    <2>2. CASE ~ \E j \in Ids : rows[j] = c
      BY <1>1, <1>2, <1>4, <2>2 DEF Stored, c
    <2>3. QED
      BY <2>1, <2>2
  <1>5. QED
    BY <1>3, <1>4

-----------------------------------------------------------------------------
(* One lemma per action.                                                   *)

\* A registration adds a directory that neither the maps nor the table have,
\* under an id that no session can be using.
LEMMA RegisterStep ==
  ASSUME IInv, NEW i \in Ids, NEW p \in Paths, Register(i, p),
         UNCHANGED <<dirs, session, creating, home, ranIn, unchecked>>
  PROVE  /\ rows' \in [Ids -> Paths \cup {None}]
         /\ workspaces' \in [Ids -> Paths \cup {None}] /\ paths' \in [Paths -> Ids \cup {None}]
         /\ CanonicalRows' /\ UniquePaths' /\ MapsAgree' /\ SessionKeepsWorkspace'
  <1> USE WorkspaceNames DEF IInv
  <1> DEFINE c == resolveCanonicalPath(p)
  <1>1. /\ workspaces[i] = None /\ rows[i] = None /\ paths[c] = None /\ ValidatePath(p)
        /\ \A j \in Ids : rows[j] # c
        /\ rows' = [rows EXCEPT ![i] = c]
        /\ workspaces' = [workspaces EXCEPT ![i] = c]
        /\ paths' = [paths EXCEPT ![c] = i]
    BY DEF Register, CreateFits
  <1>2. c \in Paths /\ c # None /\ i # None /\ Canonical[c] = c
    BY <1>1, ResolvedIsCanonical
  <1> HIDE DEF c
  <1>3. /\ rows' \in [Ids -> Paths \cup {None}]
        /\ workspaces' \in [Ids -> Paths \cup {None}] /\ paths' \in [Paths -> Ids \cup {None}]
    BY <1>1, <1>2 DEF TypeOK
  <1>4. CanonicalRows' /\ UniquePaths'
    BY <1>1, <1>2 DEF TypeOK, CanonicalRows, UniquePaths
  <1>5. MapsAgree'
    <2>1. \A j \in Ids : workspaces'[j] # None => rows'[j] = workspaces'[j]
      BY <1>1, <1>2 DEF TypeOK, MapsAgree
    <2>2. ASSUME NEW j \in Ids, NEW q \in Paths
          PROVE  paths'[q] = j <=> workspaces'[j] = q
      <3>1. (paths[q] = j <=> workspaces[j] = q) /\ (workspaces[j] = c => paths[c] = j)
        BY <1>2 DEF MapsAgree
      <3>2. QED
        BY <1>1, <1>2, <3>1 DEF TypeOK
    <2>3. QED
      BY <2>1, <2>2 DEF MapsAgree
  <1>6. SessionKeepsWorkspace'
    BY <1>1, <1>2 DEF TypeOK, SessionKeepsWorkspace
  <1>7. QED
    BY <1>3, <1>4, <1>5, <1>6

\* An entry of the configuration is registered, or changes neither the table nor
\* the maps.
LEMMA LoadEntryStep ==
  ASSUME IInv, LoadEntry
  PROVE  IInv'
  <1> USE WorkspaceNames, WorkspaceBounds DEF IInv
  <1> DEFINE e == config[loaded + 1]
  <1>1. /\ UNCHANGED <<up, config, dirs, restarts, session, creating, home, ranIn, unchecked>>
        /\ loaded' = loaded + 1 /\ loaded < Len(config)
    BY DEF LoadEntry, envVars, sessVars
  <1>2. config \in Seq([id : Ids, path : Paths, known : BOOLEAN]) /\ loaded \in 0 .. Len(config)
    BY DEF TypeOK
  <1>3. Len(config) \in Nat /\ loaded + 1 \in 1 .. Len(config)
    BY <1>1, <1>2
  <1>4. e \in [id : Ids, path : Paths, known : BOOLEAN]
    BY <1>2, <1>3, ElementOfSeq
  <1>5. e.id \in Ids /\ e.path \in Paths
    BY <1>4
  <1>6. Register(e.id, e.path) \/ UNCHANGED <<rows, workspaces, paths>>
    BY DEF LoadEntry, mapVars
  <1> HIDE DEF e
  <1>7. CASE Register(e.id, e.path)
    <2>1. /\ rows' \in [Ids -> Paths \cup {None}]
          /\ workspaces' \in [Ids -> Paths \cup {None}] /\ paths' \in [Paths -> Ids \cup {None}]
          /\ CanonicalRows' /\ UniquePaths' /\ MapsAgree' /\ SessionKeepsWorkspace'
      BY <1>1, <1>5, <1>7, RegisterStep
    <2>2. TypeOK' /\ SessionShape'
      BY <1>1, <1>3, <2>1 DEF TypeOK, SessionShape
    <2>3. QED
      BY <2>1, <2>2
  <1>8. CASE UNCHANGED <<rows, workspaces, paths>>
    BY <1>1, <1>3, <1>8 DEF TypeOK, CanonicalRows, UniquePaths, MapsAgree, SessionShape,
       SessionKeepsWorkspace
  <1>9. QED
    BY <1>6, <1>7, <1>8

\* The server starts to serve with what it loaded.
LEMMA ServeStep ==
  ASSUME IInv, Serve
  PROVE  IInv'
  BY DEF IInv, Serve, mapVars, sessVars, TypeOK, CanonicalRows, UniquePaths, MapsAgree,
         SessionShape, SessionKeepsWorkspace

\* A registration by a request.
LEMMA RegisterCallStep ==
  ASSUME IInv, NEW i \in Ids, NEW p \in Paths, RegisterCall(i, p)
  PROVE  IInv'
  <1> USE DEF IInv
  <1>1. /\ Register(i, p)
        /\ UNCHANGED <<up, config, dirs, restarts, loaded, session, creating, home, ranIn, unchecked>>
    BY DEF RegisterCall, envVars, sessVars
  <1>2. /\ rows' \in [Ids -> Paths \cup {None}]
        /\ workspaces' \in [Ids -> Paths \cup {None}] /\ paths' \in [Paths -> Ids \cup {None}]
        /\ CanonicalRows' /\ UniquePaths' /\ MapsAgree' /\ SessionKeepsWorkspace'
    BY <1>1, RegisterStep
  <1>3. TypeOK' /\ SessionShape'
    BY <1>1, <1>2 DEF TypeOK, SessionShape
  <1>4. QED
    BY <1>2, <1>3

\* A removal takes the row, its id and its path together, also when only the table
\* knew it; if a session uses the row the removal is recorded as unchecked.
LEMMA UnregisterStep ==
  ASSUME IInv, NEW i \in Ids, Unregister(i)
  PROVE  IInv'
  <1> USE WorkspaceNames DEF IInv
  <1> DEFINE p == Lookup(i)
  <1>1. /\ p # None /\ p = rows[i] /\ p \in Paths
        /\ rows' = [rows EXCEPT ![i] = None]
        /\ workspaces' = [workspaces EXCEPT ![i] = None]
        /\ paths' = [paths EXCEPT ![p] = None]
        /\ UNCHANGED <<up, config, dirs, restarts, loaded, session, creating, home, ranIn>>
    BY LookupIsRow DEF Unregister, envVars, sessVars, TypeOK
  <1>2. unchecked' = TRUE \/ (unchecked' = unchecked /\ \A s \in Sessions : session[s] # i)
    BY DEF Unregister, InUse
  <1> HIDE DEF p
  <1>3. unchecked' \in BOOLEAN
    BY <1>2 DEF TypeOK
  <1>4. TypeOK'
    BY <1>1, <1>3 DEF TypeOK
  <1>5. CanonicalRows' /\ UniquePaths' /\ SessionShape'
    BY <1>1 DEF TypeOK, CanonicalRows, UniquePaths, SessionShape
  <1>6. MapsAgree'
    <2>1. \A j \in Ids : workspaces'[j] # None => rows'[j] = workspaces'[j]
      BY <1>1 DEF TypeOK, MapsAgree
    <2>2. ASSUME NEW j \in Ids, NEW q \in Paths
          PROVE  paths'[q] = j <=> workspaces'[j] = q
      <3>1. paths[q] = j <=> workspaces[j] = q
        BY DEF MapsAgree
      <3>2. workspaces[j] = q => rows[j] = q
        BY DEF MapsAgree
      <3>3. rows[j] = p => j = i
        BY <1>1 DEF UniquePaths
      <3>4. QED
        BY <1>1, <3>1, <3>2, <3>3 DEF TypeOK
    <2>3. QED
      BY <2>1, <2>2 DEF MapsAgree
  <1>7. SessionKeepsWorkspace'
    BY <1>1, <1>2 DEF TypeOK, SessionKeepsWorkspace
  <1>8. QED
    BY <1>4, <1>5, <1>6, <1>7

\* CreateSession reads the workspace and remembers its id.
LEMMA CreateSessionStep ==
  ASSUME IInv, NEW s \in Sessions, NEW i \in Ids, CreateSession(s, i)
  PROVE  IInv'
  <1> USE DEF IInv, CreateSession, envVars, mapVars
  <1>1. TypeOK' /\ CanonicalRows' /\ UniquePaths' /\ MapsAgree'
    BY DEF TypeOK, CanonicalRows, UniquePaths, MapsAgree
  <1>2. SessionShape' /\ SessionKeepsWorkspace'
    BY DEF TypeOK, SessionShape, SessionKeepsWorkspace
  <1>3. QED
    BY <1>1, <1>2

\* The INSERT stores the session with the workspace that is in the table now, or
\* is recorded as unchecked.
LEMMA InsertStep ==
  ASSUME IInv, NEW s \in Sessions, Insert(s)
  PROVE  IInv'
  <1> USE WorkspaceNames DEF IInv
  <1> DEFINE i == creating[s]
  <1>1. /\ i \in Ids /\ session[s] = None /\ ranIn[s] = None
        /\ creating' = [creating EXCEPT ![s] = None]
        /\ UNCHANGED <<up, config, dirs, restarts, loaded, rows, workspaces, paths, ranIn>>
    BY DEF Insert, envVars, mapVars, TypeOK, SessionShape
  <1>2. \/ /\ session' = [session EXCEPT ![s] = i]
           /\ home' = [home EXCEPT ![s] = rows[i]]
           /\ unchecked' = TRUE \/ (unchecked' = unchecked /\ rows[i] # None)
        \/ UNCHANGED <<session, home, unchecked>>
    BY DEF Insert
  <1>3. unchecked' \in BOOLEAN
    BY <1>2 DEF TypeOK
  <1> HIDE DEF i
  <1>4. session' \in [Sessions -> Ids \cup {None}] /\ home' \in [Sessions -> Paths \cup {None}]
    BY <1>1, <1>2 DEF TypeOK
  <1>5. TypeOK'
    BY <1>1, <1>3, <1>4 DEF TypeOK
  <1>6. CanonicalRows' /\ UniquePaths' /\ MapsAgree'
    BY <1>1 DEF CanonicalRows, UniquePaths, MapsAgree
  <1>7. SessionShape'
    BY <1>1, <1>2 DEF TypeOK, SessionShape
  <1>8. SessionKeepsWorkspace'
    BY <1>1, <1>2 DEF TypeOK, SessionKeepsWorkspace
  <1>9. QED
    BY <1>5, <1>6, <1>7, <1>8

\* A run starts in the path of the row, which is the one the session was created in.
LEMMA StartRunStep ==
  ASSUME IInv, NEW s \in Sessions, StartRun(s)
  PROVE  IInv'
  <1> USE WorkspaceNames DEF IInv
  <1>1. session[s] \in Ids
    BY DEF StartRun, TypeOK
  <1>2. Lookup(session[s]) = rows[session[s]]
    BY <1>1, LookupIsRow
  <1>3. /\ ranIn' = [ranIn EXCEPT ![s] = IF rows[session[s]] = None THEN "." ELSE rows[session[s]]]
        /\ UNCHANGED <<up, config, dirs, restarts, loaded, rows, workspaces, paths, session,
                       creating, home, unchecked>>
    BY <1>2 DEF StartRun, envVars, mapVars
  <1>4. TypeOK' /\ CanonicalRows' /\ UniquePaths' /\ MapsAgree'
    BY <1>1, <1>3 DEF TypeOK, CanonicalRows, UniquePaths, MapsAgree
  <1>5. SessionShape' /\ SessionKeepsWorkspace'
    BY <1>1, <1>3 DEF TypeOK, SessionShape, SessionKeepsWorkspace
  <1>6. QED
    BY <1>4, <1>5

\* A restart empties the maps and forgets the calls; the tables stay.
LEMMA RestartStep ==
  ASSUME IInv, NEW c \in Configs, NEW d \in SUBSET Directories, Restart(c, d)
  PROVE  IInv'
  <1> USE WorkspaceNames, WorkspaceBounds DEF IInv, Restart
  <1>1. d \subseteq Paths /\ Len(c) \in Nat
    BY DEF Directories
  <1>2. TypeOK'
    BY <1>1 DEF TypeOK
  <1>3. CanonicalRows' /\ UniquePaths' /\ MapsAgree'
    BY DEF CanonicalRows, UniquePaths, MapsAgree
  <1>4. SessionShape' /\ SessionKeepsWorkspace'
    BY DEF TypeOK, SessionShape, SessionKeepsWorkspace
  <1>5. QED
    BY <1>2, <1>3, <1>4

-----------------------------------------------------------------------------
(* Theorems.                                                               *)

\* The first server starts with empty tables.
LEMMA InitInv == Init => IInv
  <1> SUFFICES ASSUME Init
               PROVE  IInv
    OBVIOUS
  <1> USE WorkspaceNames, WorkspaceBounds DEF Init
  <1>1. dirs \subseteq Paths /\ Len(config) \in Nat
    BY DEF Directories
  <1>2. TypeOK
    <2>1. up \in {"loading", "serving"} /\ config \in Configs /\ loaded \in 0 .. Len(config)
      BY <1>1
    <2>2. restarts \in 0 .. MaxRestarts
      OBVIOUS
    <2>3. unchecked \in BOOLEAN
      BY Zenon
    <2>4. QED
      BY <1>1, <2>1, <2>2, <2>3 DEF TypeOK
  <1>3. CanonicalRows /\ UniquePaths /\ MapsAgree
    BY DEF CanonicalRows, UniquePaths, MapsAgree
  <1>4. SessionShape /\ SessionKeepsWorkspace
    BY DEF SessionShape, SessionKeepsWorkspace
  <1>5. QED
    BY <1>2, <1>3, <1>4 DEF IInv

\* Every step keeps the invariant.
LEMMA NextInv == IInv /\ [Next]_vars => IInv'
  <1> SUFFICES ASSUME IInv, [Next]_vars
               PROVE  IInv'
    OBVIOUS
  <1>1. CASE UNCHANGED vars
    BY <1>1 DEF vars, envVars, mapVars, sessVars, IInv, TypeOK, CanonicalRows, UniquePaths,
                MapsAgree, SessionShape, SessionKeepsWorkspace
  <1>2. CASE Next
    BY <1>2, LoadEntryStep, ServeStep, RegisterCallStep, UnregisterStep, CreateSessionStep,
       InsertStep, StartRunStep, RestartStep DEF Next
  <1>3. QED
    BY <1>1, <1>2

\* The invariant holds throughout.
LEMMA Invariance == Spec => []IInv
  BY InitInv, NextInv, PTL DEF Spec

\* The registry, the tables and the sessions keep their types
\* (workspace/registry.go, session service).
THEOREM TypeCorrect == Spec => []TypeOK
  BY Invariance, PTL DEF IInv

\* No directory has two ids, under whatever links it was registered and however
\* the configuration changes between restarts (Register, LoadFromConfig).
THEOREM DirectoriesAreUnique == Spec => []OneIdPerDirectory
  <1>1. IInv => OneIdPerDirectory
    BY DEF IInv, CanonicalRows, UniquePaths, OneIdPerDirectory
  <1>2. QED
    BY <1>1, Invariance, PTL

\* The maps agree with the table, and a look-up by any path of a directory finds
\* the id whose look-up by id leads there (GetByID, GetByPath, Unregister).
THEOREM LookupsConsistent == Spec => []LookupsAgree
  <1>1. IInv => LookupsAgree
    <2> SUFFICES ASSUME IInv
                 PROVE  LookupsAgree
      OBVIOUS
    <2>1. ASSUME NEW i \in Ids, NEW p \in Paths, Canonical[p] \in dirs
          PROVE  GetByPath(p) = i <=> Lookup(i) = Canonical[p]
      BY <2>1, GetByPathIsRow, LookupIsRow DEF IInv
    <2>2. QED
      BY <2>1 DEF IInv, MapsAgree, LookupsAgree
  <1>2. QED
    BY <1>1, Invariance, PTL

\* A session keeps the workspace it was created in and runs nowhere else, unless a
\* statement ran without foreign keys (CreateSession, StartRun, Unregister).
THEOREM SessionsStayHome == Spec => []SessionKeepsWorkspace
  BY Invariance, PTL DEF IInv

-----------------------------------------------------------------------------
(* carctl backup and restore, for any number of transactions and attempts. *)

\* A server that runs has a log, and a database without one is checkpointed.
LogShape ==
    /\ server = "up" => hasLog
    /\ ~hasLog => main = top

\* While backup is running, nothing of its archive is sealed; what it has read
\* grows file by file.
BackupShape ==
    /\ bpc \in {"list", "db", "dbCopy", "log", "logCopy"} => gathered.log = Absent
    /\ bpc \in {"dbCopy", "log", "logCopy", "seal"} => gathered.db \in DbFiles
    /\ bpc \in {"list", "db", "dbCopy", "log", "logCopy", "seal"} => ~out.sealed
    /\ out.sealed => out.content \in complete
    /\ bpc = "ok" => out.content = gathered

\* An undisturbed log begins and exists as it did when the backup began: the
\* pages read are no older than it, and the transactions of that time are
\* still there.
Copied ==
    ~disturbed =>
        /\ bpc \in {"list", "db", "dbCopy", "log", "logCopy"} => since <= top
        /\ bpc \in {"db", "dbCopy", "log", "logCopy"} => listed = hasLog
        /\ bpc \in {"log", "logCopy"} => listed
        /\ bpc \in {"dbCopy", "log", "logCopy"} =>
              base <= gathered.db.lo /\ gathered.db.hi <= top
        /\ bpc = "dbCopy" /\ ~hasLog => gathered.db.lo = main
        /\ bpc = "logCopy" => lstat <= size
        /\ bpc \in {"seal", "ok"} => Opens(gathered) /\ Recovered(gathered) >= since

\* restore works on a sealed archive, and writes one file after the other.
RestoreShape ==
    /\ rpc \in {"db", "log"} => plain \in complete
    /\ rpc = "db" => stale = (target.log # Absent)
    /\ rpc = "log" => target.db = plain.db /\ plain.log # Absent
    /\ rpc = "ok" =>
          /\ target.db = plain.db
          /\ plain.log # Absent => target.log = plain.log
          /\ plain.log = Absent /\ ~stale => target.log = Absent

\* Everything the steps of backup, restore and the server keep together.
BackupInv ==
    /\ BackupTypeOK /\ LogShape /\ BackupShape /\ Copied
    /\ RestoreShape /\ OnlyCompleteBackups

-----------------------------------------------------------------------------
\* The new log has room for what a commit adds, and for no more than the bound.
LEMMA CommitNumbers ==
  ASSUME BackupTypeOK, Commit
  PROVE  /\ top' \in Tx /\ top' = top + 1 /\ main' = main /\ base' \in Tx
         /\ base' = base \/ (base' = top /\ main = top)
         /\ main \in base' .. top'
         /\ size' \in Tx /\ top' - base' <= size' /\ size <= size'
  <1>1. /\ top \in Nat /\ top < MaxTx /\ base \in Nat /\ base <= main /\ main <= top
        /\ main \in Nat /\ size \in Nat /\ size <= MaxTx
    BY BackupBounds, BackupNames DEF BackupTypeOK, Tx, Commit
  <1>2. /\ top' = top + 1 /\ main' = main
        /\ base' = base \/ (base' = top /\ main = top)
    BY DEF Commit
  <1>3. base' \in Nat /\ base' <= main /\ base' <= top
    BY <1>1, <1>2
  <1>4. \A a, b \in Nat : Max({a, b}) = IF a >= b THEN a ELSE b
    BY DEF Max
  <1>5. size' = IF size >= (top + 1) - base' THEN size ELSE (top + 1) - base'
    <2>1. size' = Max({size, (top + 1) - base'}) /\ (top + 1) - base' \in Nat
      BY <1>1, <1>3 DEF Commit
    <2>2. QED
      BY <1>1, <1>4, <2>1
  <1>6. \A t, b, m, z, k \in Nat :
           t < k /\ b <= m /\ m <= t /\ z <= k =>
               LET n == IF z >= (t + 1) - b THEN z ELSE (t + 1) - b
               IN  /\ m \in b .. t + 1 /\ t + 1 \in 0..k /\ b \in 0..k
                   /\ n \in 0..k /\ (t + 1) - b <= n /\ z <= n
    OBVIOUS
  <1>7. /\ top \in Nat /\ base' \in Nat /\ main \in Nat /\ size \in Nat /\ MaxTx \in Nat
        /\ top < MaxTx /\ base' <= main /\ main <= top /\ size <= MaxTx
    BY BackupBounds, BackupNames, <1>1, <1>3
  <1>8. /\ main \in base' .. top + 1 /\ top + 1 \in 0..MaxTx /\ base' \in 0..MaxTx
        /\ size' \in 0..MaxTx /\ (top + 1) - base' <= size' /\ size <= size'
    BY <1>5, <1>6, <1>7
  <1>9. main \in base' .. top' /\ top' \in Tx /\ top' - base' <= size'
    BY <1>2, <1>7, <1>8 DEF Tx
  <1>10. base' \in Tx /\ size' \in Tx /\ size <= size'
    BY <1>8 DEF Tx
  <1>11. QED
    BY <1>2, <1>9, <1>10

\* A file with archived content, sealed or not, is of the type of an archive file.
LEMMA ArchiveTyped ==
  ASSUME NEW A, NEW g \in A
  PROVE  /\ [sealed |-> FALSE, content |-> g] \in [sealed : BOOLEAN, content : A]
         /\ [sealed |-> TRUE, content |-> g] \in [sealed : BOOLEAN, content : A]
  OBVIOUS

\* Every step of the server, of backup and of restore keeps the types.
LEMMA BackupTypeStep == BackupInv /\ [BackupNext]_allVars => BackupTypeOK'
  <1> SUFFICES ASSUME BackupInv, [BackupNext]_allVars PROVE BackupTypeOK'
    OBVIOUS
  <1> USE BackupBounds, BackupNames
  <1>1. BackupTypeOK
    BY DEF BackupInv
  <1>2. CASE Commit
    <2>1. disturbed' \in BOOLEAN
      BY <1>1, <1>2 DEF BackupTypeOK, Commit
    <2>2. QED
      BY <1>1, <1>2, <2>1, CommitNumbers DEF BackupTypeOK, Commit, backupVars, restoreVars
  <1>3. CASE Checkpoint \/ Stop \/ Crash
    <2>1. /\ server' \in {"up", "down"} /\ hasLog' \in BOOLEAN /\ disturbed' \in BOOLEAN
          /\ UNCHANGED <<top, backupVars, restoreVars>>
      BY <1>1, <1>3 DEF BackupTypeOK, Checkpoint, Stop, Crash
    <2>2. main' \in base'..top' /\ base' \in Tx /\ size' \in Tx /\ top' - base' <= size'
      BY <1>1, <1>3 DEF BackupTypeOK, Tx, Checkpoint, Stop, Crash
    <2>3. QED
      BY <1>1, <2>1, <2>2 DEF BackupTypeOK, backupVars, restoreVars
  <1>4. CASE Start
    BY <1>1, <1>4 DEF BackupTypeOK, Start, backupVars, restoreVars
  <1>5. CASE BackupOpen
    <2>1. /\ gathered' \in [db : DbFiles \cup {Absent}, log : Logs]
          /\ out' \in [sealed : BOOLEAN, content : Archives \cup {Empty}]
      BY <1>5 DEF BackupOpen, Empty, NoArchive, Logs
    <2>2. backups' \in 0..MaxBackups
      BY <1>1, <1>5 DEF BackupTypeOK, BackupOpen
    <2>3. QED
      BY <1>1, <1>5, <2>1, <2>2 DEF BackupTypeOK, BackupOpen, dbVars, restoreVars
  <1>6. CASE WalkList \/ CopyLogBegin
    BY <1>1, <1>6 DEF BackupTypeOK, WalkList, CopyLogBegin, dbVars, restoreVars
  <1>7. CASE CopyDbBegin
    <2>1. main \in Tx
      BY <1>1 DEF BackupTypeOK, Tx
    <2>2. QED
      BY <1>1, <1>7, <2>1 DEF BackupTypeOK, CopyDbBegin, DbFiles, dbVars, restoreVars
  <1>8. CASE CopyDbEnd
    <2>1. main \in Tx /\ gathered.db \in DbFiles
      BY <1>1, <1>8 DEF BackupTypeOK, Tx, BackupInv, BackupShape, CopyDbEnd
    <2>2. [gathered.db EXCEPT !.hi = main] \in DbFiles
      BY <2>1 DEF DbFiles
    <2>3. gathered' \in [db : DbFiles \cup {Absent}, log : Logs]
      BY <1>1, <1>8, <2>2 DEF BackupTypeOK, CopyDbEnd
    <2>4. QED
      BY <1>1, <1>8, <2>3 DEF BackupTypeOK, CopyDbEnd, dbVars, restoreVars
  <1>9. CASE CopyLogEnd
    <2>1. [from |-> base, to |-> top] \in Logs /\ Cut \in Logs
      BY <1>1 DEF BackupTypeOK, Logs
    <2>2. gathered' \in [db : DbFiles \cup {Absent}, log : Logs]
      BY <1>1, <1>9, <2>1 DEF BackupTypeOK, CopyLogEnd
    <2>3. bpc' \in {"seal", "failed"}
      BY <1>9 DEF CopyLogEnd
    <2>4. QED
      BY <1>1, <1>9, <2>2, <2>3 DEF BackupTypeOK, CopyLogEnd, dbVars, restoreVars
  <1>10. CASE Seal \/ BackupFail
    <2>1. bpc = "seal" => gathered \in Archives
      BY <1>1 DEF BackupTypeOK, Archives, BackupInv, BackupShape
    <2>2. CASE Seal
      BY <1>1, <2>1, <2>2 DEF BackupTypeOK, Seal, dbVars, restoreVars
    <2>3. CASE BackupFail
      <3>1. /\ out' \in [sealed : BOOLEAN, content : Archives \cup {Empty}]
            /\ complete' \subseteq Archives
        <4>1. CASE bpc # "seal"
          BY <1>1, <2>3, <4>1 DEF BackupTypeOK, BackupFail
        <4>2. CASE bpc = "seal"
          <5>1. \/ out' = [sealed |-> FALSE, content |-> gathered]
                \/ out' = [sealed |-> TRUE, content |-> gathered]
            BY <2>3, <4>2 DEF BackupFail
          <5>2. complete' \in {complete, complete \cup {gathered}}
            BY <2>3, <4>2 DEF BackupFail
          <5>3. gathered \in Archives \cup {Empty} /\ gathered \in Archives
            BY <2>1, <4>2
          <5>4. out' \in [sealed : BOOLEAN, content : Archives \cup {Empty}]
            BY <5>1, <5>3, ArchiveTyped
          <5>5. complete' \subseteq Archives
            BY <1>1, <5>2, <5>3 DEF BackupTypeOK
          <5>6. QED
            BY <5>4, <5>5
        <4>3. QED
          BY <4>1, <4>2
      <3>2. QED
        BY <1>1, <2>3, <3>1 DEF BackupTypeOK, BackupFail, dbVars, restoreVars
    <2>4. QED
      BY <1>10, <2>2, <2>3
  <1>11. ASSUME NEW right \in BOOLEAN, RestoreOpen(right) PROVE BackupTypeOK'
    <2>1. plain' \in Archives \cup {Empty} /\ rpc' \in {"db", "failed"}
      BY <1>1, <1>11 DEF BackupTypeOK, RestoreOpen
    <2>2. stale' \in BOOLEAN /\ restores' \in 0..MaxRestores
      BY <1>1, <1>11 DEF BackupTypeOK, RestoreOpen
    <2>3. QED
      BY <1>1, <1>11, <2>1, <2>2 DEF BackupTypeOK, RestoreOpen, dbVars, backupVars
  <1>12. CASE RestoreDb \/ RestoreLog
    <2>1. plain.db \in DbFiles \cup {Absent} /\ plain.log \in Logs
      BY <1>1 DEF BackupTypeOK, Archives, Empty, Logs
    <2>2. QED
      BY <1>1, <1>12, <2>1 DEF BackupTypeOK, RestoreDb, RestoreLog, dbVars, backupVars
  <1>13. CASE RestoreFail
    <2>1. plain.db \in DbFiles \cup {Absent} /\ plain.log \in Logs /\ Cut \in Logs
      BY <1>1 DEF BackupTypeOK, Archives, Empty, Logs
    <2>2. target' \in [db : DbFiles \cup {Absent, Cut}, log : Logs]
      BY <1>1, <1>13, <2>1 DEF BackupTypeOK, RestoreFail
    <2>3. QED
      BY <1>1, <1>13, <2>2 DEF BackupTypeOK, RestoreFail, dbVars, backupVars
  <1>14. CASE UNCHANGED allVars
    BY <1>1, <1>14 DEF BackupTypeOK, allVars, dbVars, backupVars, restoreVars
  <1>15. QED
    BY <1>2, <1>3, <1>4, <1>5, <1>6, <1>7, <1>8, <1>9, <1>10, <1>11, <1>12, <1>13, <1>14
    DEF BackupNext

\* Only a clean stop deletes the log, and it checkpoints first.
LEMMA LogStep == BackupInv /\ [BackupNext]_allVars => LogShape'
  <1> SUFFICES ASSUME BackupInv, [BackupNext]_allVars PROVE LogShape'
    OBVIOUS
  <1>1. CASE Commit \/ Checkpoint \/ Stop \/ Crash \/ Start
    BY <1>1 DEF BackupInv, BackupTypeOK, LogShape, Commit, Checkpoint, Stop, Crash, Start
  <1>2. CASE UNCHANGED dbVars
    BY <1>2 DEF BackupInv, LogShape, dbVars
  <1>3. QED
    BY <1>1, <1>2
    DEF BackupNext, BackupOpen, WalkList, CopyDbBegin, CopyDbEnd, CopyLogBegin,
        CopyLogEnd, Seal, BackupFail, RestoreOpen, RestoreDb, RestoreLog,
        RestoreFail, allVars

\* An archive counts as sealed only once everything is in it.
LEMMA BackupStep == BackupInv /\ [BackupNext]_allVars => BackupShape'
  <1> SUFFICES ASSUME BackupInv, [BackupNext]_allVars PROVE BackupShape'
    OBVIOUS
  <1>1. BackupTypeOK /\ BackupShape
    BY DEF BackupInv
  <1>2. CASE BackupOpen
    BY <1>2 DEF BackupOpen, BackupShape, NoArchive, Empty
  <1>3. CASE WalkList \/ CopyLogBegin
    BY <1>1, <1>3 DEF WalkList, CopyLogBegin, BackupShape
  <1>4. CASE CopyDbBegin
    <2>1. /\ gathered'.db = [lo |-> main, hi |-> main] /\ gathered'.log = gathered.log
          /\ main \in Tx
      BY BackupBounds, BackupNames, <1>1, <1>4 DEF BackupTypeOK, Tx, CopyDbBegin
    <2>2. gathered'.db \in DbFiles
      BY <2>1 DEF DbFiles
    <2>3. QED
      BY <1>1, <1>4, <2>1, <2>2 DEF CopyDbBegin, BackupShape
  <1>5. CASE CopyDbEnd
    <2>1. main \in Tx /\ gathered.db \in DbFiles
      BY BackupBounds, BackupNames, <1>1, <1>5 DEF BackupTypeOK, Tx, BackupShape, CopyDbEnd
    <2>2. /\ gathered'.db = [gathered.db EXCEPT !.hi = main] /\ gathered'.log = gathered.log
      BY <1>1, <1>5 DEF BackupTypeOK, CopyDbEnd
    <2>3. gathered'.db \in DbFiles
      BY <2>1, <2>2 DEF DbFiles
    <2>4. QED
      BY <1>1, <1>5, <2>2, <2>3 DEF CopyDbEnd, BackupShape
  <1>6. CASE CopyLogEnd
    <2>1. gathered'.db = gathered.db /\ bpc' \in {"seal", "failed"}
      BY <1>1, <1>6 DEF BackupTypeOK, CopyLogEnd
    <2>2. QED
      BY <1>1, <1>6, <2>1 DEF CopyLogEnd, BackupShape
  <1>7. CASE Seal
    BY <1>7 DEF Seal, BackupShape
  <1>8. CASE BackupFail
    <2>1. ~out.sealed
      BY <1>1, <1>8 DEF BackupFail, BackupShape
    <2>2. out'.sealed => out'.content \in complete'
      BY <1>8, <2>1 DEF BackupFail
    <2>3. QED
      BY <1>8, <2>2 DEF BackupFail, BackupShape
  <1>9. CASE UNCHANGED backupVars
    BY <1>1, <1>9 DEF BackupShape, backupVars
  <1>10. QED
    BY <1>2, <1>3, <1>4, <1>5, <1>6, <1>7, <1>8, <1>9
    DEF BackupNext, Commit, Checkpoint, Stop, Crash, Start, RestoreOpen,
        RestoreDb, RestoreLog, RestoreFail, allVars

\* A backup that is not disturbed keeps what it needs to open: commits and
\* checkpoints only add to a log whose beginning stays.
LEMMA CopiedStep == BackupInv /\ [BackupNext]_allVars => Copied'
  <1> SUFFICES ASSUME BackupInv, [BackupNext]_allVars, ~disturbed' PROVE Copied'
    BY DEF Copied
  <1> USE BackupBounds, BackupNames
  <1>1. BackupTypeOK /\ LogShape /\ BackupShape /\ Copied
    BY DEF BackupInv
  <1>2. /\ top \in Nat /\ base \in Nat /\ main \in Nat /\ base <= main /\ main <= top
        /\ size \in Nat /\ lstat \in Nat /\ since \in Nat
    BY <1>1 DEF BackupTypeOK, Tx
  <1>3. bpc \in {"dbCopy", "log", "logCopy", "seal"} =>
            gathered.db.lo \in Nat /\ gathered.db.hi \in Nat
    BY <1>1 DEF BackupShape, DbFiles, Tx
  <1>4. CASE Commit
    <2>1. ~disturbed /\ base' = base
      BY Zenon, <1>1, <1>4 DEF Commit, BackupTypeOK
    <2>2. top' = top + 1 /\ size <= size' /\ size' \in Nat
      BY <1>1, <1>4, CommitNumbers DEF Tx
    <2>3. UNCHANGED <<main, hasLog, backupVars>>
      BY <1>4 DEF Commit
    <2>4. hasLog
      BY <1>1, <1>4 DEF Commit, LogShape
    <2>5. since <= top => since <= top'
      BY <1>2, <2>2
    <2>6. bpc \in {"dbCopy", "log", "logCopy"} /\ gathered.db.hi <= top => gathered.db.hi <= top'
      BY <1>2, <1>3, <2>2
    <2>7. lstat <= size => lstat <= size'
      BY <1>2, <2>2
    <2>8. QED
      BY <1>1, <2>1, <2>3, <2>4, <2>5, <2>6, <2>7 DEF Copied, backupVars, Opens, Recovered
  <1>5. CASE Checkpoint
    <2>1. /\ ~disturbed /\ UNCHANGED <<base, top, size, hasLog, backupVars>>
          /\ hasLog
      BY <1>1, <1>5 DEF Checkpoint, LogShape
    <2>2. QED
      BY <1>1, <2>1 DEF Copied, backupVars, Opens, Recovered
  <1>6. CASE Stop
    BY <1>6 DEF Stop
  <1>7. CASE Crash \/ Start
    <2>1. ~disturbed /\ UNCHANGED <<base, top, main, size, hasLog, backupVars>>
      BY <1>1, <1>7 DEF Crash, Start, BackupTypeOK
    <2>2. QED
      BY <1>1, <2>1 DEF Copied, backupVars, Opens, Recovered
  <1>8. CASE BackupOpen
    BY <1>2, <1>8 DEF BackupOpen, Copied, dbVars
  <1>9. CASE WalkList
    BY <1>1, <1>9 DEF WalkList, Copied, dbVars
  <1>10. CASE CopyDbBegin
    <2>1. gathered'.db.lo = main /\ gathered'.db.hi = main
      BY <1>1, <1>10 DEF BackupTypeOK, CopyDbBegin
    <2>2. QED
      BY <1>1, <1>2, <1>10, <2>1 DEF CopyDbBegin, Copied, dbVars
  <1>11. CASE CopyDbEnd
    <2>1. gathered.db \in DbFiles /\ gathered.log = Absent
      BY <1>1, <1>11 DEF BackupShape, CopyDbEnd
    <2>2. /\ gathered'.db.lo = gathered.db.lo /\ gathered'.db.hi = main
          /\ gathered'.log = Absent
      BY <1>1, <1>11, <2>1 DEF BackupTypeOK, CopyDbEnd, DbFiles
    <2>3. CASE listed
      BY <1>1, <1>2, <1>11, <2>2, <2>3 DEF CopyDbEnd, Copied, dbVars
    <2>4. CASE ~listed
      <3>1. ~hasLog /\ main = top /\ gathered.db.lo = main /\ since <= top
        BY <1>1, <1>11, <2>4 DEF CopyDbEnd, Copied, LogShape
      <3>2. Opens(gathered)' /\ (Recovered(gathered) >= since)'
        BY <1>2, <1>11, <2>2, <3>1 DEF CopyDbEnd, Opens, Recovered
      <3>3. QED
        BY <1>11, <2>4, <3>2 DEF CopyDbEnd, Copied
    <2>5. QED
      BY <2>3, <2>4
  <1>12. CASE CopyLogBegin
    BY <1>1, <1>2, <1>12 DEF CopyLogBegin, Copied, dbVars
  <1>13. CASE CopyLogEnd
    <2>1. CASE hasLog /\ size <= lstat
      <3>1. ~(size < lstat) /\ base <= gathered.db.lo /\ gathered.db.hi <= top /\ since <= top
        BY <1>1, <1>2, <1>13 DEF CopyLogEnd, Copied
      <3>2. gathered'.db = gathered.db /\ gathered'.log = [from |-> base, to |-> top]
        BY <1>1, <1>13, <2>1, <3>1 DEF BackupTypeOK, CopyLogEnd
      <3>3. gathered'.log \notin {Absent, Cut}
        BY <1>1, <3>2 DEF BackupTypeOK, Tx
      <3>4. Opens(gathered)' /\ (Recovered(gathered) >= since)'
        BY <1>2, <1>13, <3>1, <3>2, <3>3 DEF CopyLogEnd, Opens, Recovered
      <3>5. QED
        BY <1>13, <2>1, <3>4 DEF CopyLogEnd, Copied
    <2>2. CASE ~(hasLog /\ size <= lstat)
      BY <1>13, <2>2 DEF CopyLogEnd, Copied
    <2>3. QED
      BY <2>1, <2>2
  <1>14. CASE Seal
    BY <1>1, <1>14 DEF Seal, Copied, Opens, Recovered
  <1>15. CASE BackupFail
    BY <1>15 DEF BackupFail, Copied
  <1>16. CASE UNCHANGED <<dbVars, backupVars, disturbed>>
    BY <1>1, <1>16 DEF Copied, dbVars, backupVars, Opens, Recovered
  <1>17. QED
    BY <1>4, <1>5, <1>6, <1>7, <1>8, <1>9, <1>10, <1>11, <1>12, <1>13, <1>14, <1>15, <1>16
    DEF BackupNext, RestoreOpen, RestoreDb, RestoreLog, RestoreFail, allVars

\* restore extracts a sealed archive only, file by file.
LEMMA RestoreStep == BackupInv /\ [BackupNext]_allVars => RestoreShape' /\ OnlyCompleteBackups'
  <1> SUFFICES ASSUME BackupInv, [BackupNext]_allVars PROVE RestoreShape' /\ OnlyCompleteBackups'
    OBVIOUS
  <1>1. BackupTypeOK /\ BackupShape /\ RestoreShape /\ OnlyCompleteBackups
    BY DEF BackupInv
  <1>2. ASSUME NEW right \in BOOLEAN, RestoreOpen(right)
        PROVE  RestoreShape' /\ OnlyCompleteBackups'
    <2>1. UNCHANGED <<target, complete>>
      BY <1>2 DEF RestoreOpen, backupVars
    <2>2. CASE verify(right)
      BY <1>1, <1>2, <2>1, <2>2
      DEF RestoreOpen, verify, BackupShape, RestoreShape, OnlyCompleteBackups
    <2>3. CASE ~verify(right)
      BY <1>1, <1>2, <2>1, <2>3 DEF RestoreOpen, RestoreShape, OnlyCompleteBackups
    <2>4. QED
      BY <2>2, <2>3
  <1>3. CASE RestoreDb
    <2>1. target'.db = plain.db /\ target'.log = target.log /\ plain \in complete
      BY <1>1, <1>3 DEF BackupTypeOK, RestoreDb, RestoreShape
    <2>2. UNCHANGED <<plain, stale, complete>>
      BY <1>3 DEF RestoreDb, backupVars
    <2>3. stale = (target.log # Absent)
      BY <1>1, <1>3 DEF RestoreDb, RestoreShape
    <2>4. QED
      BY <1>1, <1>3, <2>1, <2>2, <2>3 DEF RestoreDb, RestoreShape, OnlyCompleteBackups
  <1>4. CASE RestoreLog
    <2>1. target'.log = plain.log /\ target'.db = target.db /\ plain \in complete
      BY <1>1, <1>4 DEF BackupTypeOK, RestoreLog, RestoreShape
    <2>2. UNCHANGED <<plain, stale, complete>>
      BY <1>4 DEF RestoreLog, backupVars
    <2>3. target.db = plain.db /\ plain.log # Absent
      BY <1>1, <1>4 DEF RestoreLog, RestoreShape
    <2>4. QED
      BY <1>1, <1>4, <2>1, <2>2, <2>3 DEF RestoreLog, RestoreShape, OnlyCompleteBackups
  <1>5. CASE RestoreFail
    <2>1. plain \in complete /\ complete' = complete /\ rpc' = "failed"
      BY <1>1, <1>5 DEF RestoreFail, RestoreShape, backupVars
    <2>2. target'.db \in {target.db, Cut, plain.db} /\ target'.log \in {target.log, Cut, plain.log}
      BY <1>1, <1>5 DEF BackupTypeOK, RestoreFail
    <2>3. QED
      BY <1>1, <2>1, <2>2 DEF RestoreShape, OnlyCompleteBackups
  <1>6. CASE UNCHANGED restoreVars /\ complete \subseteq complete'
    BY <1>1, <1>6 DEF RestoreShape, OnlyCompleteBackups, restoreVars
  <1>7. QED
    BY <1>2, <1>3, <1>4, <1>5, <1>6
    DEF BackupNext, Commit, Checkpoint, Stop, Crash, Start, BackupOpen, WalkList,
        CopyDbBegin, CopyDbEnd, CopyLogBegin, CopyLogEnd, Seal, BackupFail,
        allVars, backupVars, restoreVars

\* The invariant holds throughout.
LEMMA BackupInvariance == BackupSpec => []BackupInv
  <1>1. BackupInit => BackupInv
    <2> SUFFICES ASSUME BackupInit PROVE BackupInv
      OBVIOUS
    <2>1. /\ Empty \in [db : DbFiles \cup {Absent}, log : Logs]
          /\ Empty \in [db : DbFiles \cup {Absent, Cut}, log : Logs]
          /\ NoArchive \in [sealed : BOOLEAN, content : Archives \cup {Empty}]
      BY DEF Empty, NoArchive, Logs
    <2>2. 0 \in Tx /\ 0 \in 0..0 /\ 0 - 0 <= 0 /\ 0 \in 0..MaxBackups /\ 0 \in 0..MaxRestores
      BY BackupBounds, BackupNames DEF Tx
    <2>3. BackupTypeOK
      BY <2>1, <2>2 DEF BackupInit, BackupTypeOK
    <2>4. target.db = Absent /\ target.log = Absent /\ ~out.sealed
      BY DEF BackupInit, Empty, NoArchive
    <2>5. LogShape /\ BackupShape /\ Copied /\ RestoreShape /\ OnlyCompleteBackups
      BY <2>4 DEF BackupInit, LogShape, BackupShape, Copied, RestoreShape, OnlyCompleteBackups
    <2>6. QED
      BY <2>3, <2>5 DEF BackupInv
  <1>2. BackupInv /\ [BackupNext]_allVars => BackupInv'
    BY BackupTypeStep, LogStep, BackupStep, CopiedStep, RestoreStep DEF BackupInv
  <1>3. QED
    BY <1>1, <1>2, PTL DEF BackupSpec

\* Every variable of the archive's model keeps its type.
THEOREM BackupTypeCorrect == BackupSpec => []BackupTypeOK
  <1>1. BackupInv => BackupTypeOK
    BY DEF BackupInv
  <1>2. QED
    BY <1>1, BackupInvariance, PTL

\* Every backup of a running server whose log stays in place opens as a
\* consistent database, with all that was committed when it began.
THEOREM BackupsOpen == BackupSpec => []BackupIsConsistent
  <1>1. BackupInv => BackupIsConsistent
    BY DEF BackupInv, BackupShape, Copied, BackupIsConsistent
  <1>2. QED
    BY <1>1, BackupInvariance, PTL

\* No file is ever extracted as a whole that a backup which had read everything
\* did not seal, also when restores fail half way (backup, restore).
THEOREM RestoresAreComplete == BackupSpec => []OnlyCompleteBackups
  <1>1. BackupInv => OnlyCompleteBackups
    BY DEF BackupInv
  <1>2. QED
    BY <1>1, BackupInvariance, PTL

\* A restore that reports success leaves exactly the archived files, whatever
\* attempts failed half way before it.
THEOREM RestoresAreExact == BackupSpec => []RestoreIsExact
  <1>1. BackupInv => RestoreIsExact
    <2> SUFFICES ASSUME BackupInv, rpc = "ok", stale => plain.log # Absent PROVE target = plain
      BY DEF RestoreIsExact
    <2>1. target.db = plain.db /\ target.log = plain.log
      BY DEF BackupInv, RestoreShape, BackupTypeOK
    <2>2. /\ target \in [db : DbFiles \cup {Absent, Cut}, log : Logs]
          /\ plain \in [db : DbFiles \cup {Absent}, log : Logs]
      BY DEF BackupInv, BackupTypeOK, Archives, Empty, Logs
    <2>3. QED
      BY <2>1, <2>2
  <1>2. QED
    BY <1>1, BackupInvariance, PTL
=============================================================================
