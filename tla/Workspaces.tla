----------------------------- MODULE Workspaces -----------------------------
(***************************************************************************)
(* The workspace registry (internal/workspace) over its table, through     *)
(* restarts with a configuration that may have changed, and the two        *)
(* session operations that depend on it: CreateSession, which reads the    *)
(* workspace and inserts the session in two statements, and StartRun,      *)
(* which takes the directory of the run from it.                           *)
(*                                                                         *)
(* The registry works under its mutex, so each of its operations is one    *)
(* step.  Foreign keys are switched on by a PRAGMA on one connection of    *)
(* the pool: a statement that runs on another one is not checked.          *)
(***************************************************************************)
EXTENDS Naturals, Sequences

CONSTANTS
    Ids,         \* workspace ids
    Paths,       \* paths as they are written in a configuration or request
    Canonical,   \* what EvalSymlinks makes of a path
    Sessions,
    Configs,     \* the workspace lists of possible configurations; known: every
                 \* adapter the entry allows is one of the two the registry knows
    None,
    MaxRestarts  \* bound: server restarts

ASSUME WorkspaceNames ==
    /\ None \notin Ids \cup Paths
    /\ Canonical \in [Paths -> Paths]
    /\ \A p \in Paths : Canonical[Canonical[p]] = Canonical[p]
    /\ \A c \in Configs : c \in Seq([id : Ids, path : Paths, known : BOOLEAN])
ASSUME WorkspaceBounds == MaxRestarts \in Nat

VARIABLES
    up,         \* "loading" while New reads the configuration, then "serving"
    config,
    loaded,     \* entries of it that LoadFromConfig is done with
    dirs,       \* directories that exist
    rows,       \* workspaces table: id -> path
    workspaces, \* r.workspaces: id -> path
    paths,      \* r.paths: path -> id
    session,    \* sessions table: session -> workspace id
    creating,   \* CreateSession calls between their two statements
    home,       \* history: the path of the workspace a session was created in
    ranIn,      \* history: the directory a run was started in, "." for none
    unchecked,  \* history: a constraint was ignored on another connection
    restarts

mapVars  == <<workspaces, paths>>
sessVars == <<session, creating, home, ranIn>>
envVars  == <<up, config, dirs, restarts>>
vars == <<envVars, loaded, rows, mapVars, sessVars, unchecked>>

TypeOK ==
    /\ up \in {"loading", "serving"} /\ config \in Configs /\ loaded \in 0..Len(config)
    /\ dirs \subseteq Paths
    /\ rows \in [Ids -> Paths \cup {None}]
    /\ workspaces \in [Ids -> Paths \cup {None}] /\ paths \in [Paths -> Ids \cup {None}]
    /\ session \in [Sessions -> Ids \cup {None}] /\ creating \in [Sessions -> Ids \cup {None}]
    /\ home \in [Sessions -> Paths \cup {None}]
    /\ ranIn \in [Sessions -> Paths \cup {None, "."}]
    /\ unchecked \in BOOLEAN /\ restarts \in 0..MaxRestarts

Directories == {Canonical[p] : p \in Paths}

Init ==
    /\ up = "loading" /\ config \in Configs /\ loaded = 0
    /\ dirs \in SUBSET Directories
    /\ rows = [i \in Ids |-> None]
    /\ workspaces = [i \in Ids |-> None] /\ paths = [p \in Paths |-> None]
    /\ session = [s \in Sessions |-> None] /\ creating = [s \in Sessions |-> None]
    /\ home = [s \in Sessions |-> None] /\ ranIn = [s \in Sessions |-> None]
    /\ unchecked = FALSE /\ restarts = 0

-----------------------------------------------------------------------------
(* The registry.                                                           *)

\* resolveCanonicalPath: links are followed, unless they lead nowhere.
resolveCanonicalPath(p) == IF Canonical[p] \in dirs THEN Canonical[p] ELSE p

\* GetByID: the map, and then the table.
Lookup(i) == IF workspaces[i] # None THEN workspaces[i] ELSE rows[i]

\* GetByPath and IsPathRegistered: the same, by the resolved path.
Stored(c) == IF \E i \in Ids : rows[i] = c THEN CHOOSE i \in Ids : rows[i] = c ELSE None

\* Mutant: only the map is asked, which is empty after a restart.
GetByPathMapOnly(p) == paths[resolveCanonicalPath(p)]

GetByPath(p) ==
    LET c == resolveCanonicalPath(p) IN IF paths[c] # None THEN paths[c] ELSE Stored(c)

\* ValidatePath: what a path must be, registered or not.
ValidatePath(p) == resolveCanonicalPath(p) \in dirs

validateAllowedAdapters(e) == e.known

\* Create: id is the primary key and path is UNIQUE.
CreateFits(i, p) == rows[i] = None /\ \A j \in Ids : rows[j] # p

\* Mutant: the path is kept as it was given.
RegisterAsGiven(i, p) ==
    /\ workspaces[i] = None /\ rows[i] = None
    /\ paths[p] = None /\ Canonical[p] \in dirs
    /\ CreateFits(i, p)
    /\ rows' = [rows EXCEPT ![i] = p]
    /\ workspaces' = [workspaces EXCEPT ![i] = p]
    /\ paths' = [paths EXCEPT ![p] = i]

\* Register, when nothing refuses: the maps, the path itself and the table.
\* The server gives no confinement root, so validatePathEscape lets every
\* resolved path through.
Register(i, p) ==
    LET c == resolveCanonicalPath(p) IN
    /\ workspaces[i] = None /\ rows[i] = None
    /\ paths[c] = None /\ ValidatePath(p)
    /\ CreateFits(i, c)
    /\ rows' = [rows EXCEPT ![i] = c]
    /\ workspaces' = [workspaces EXCEPT ![i] = c]
    /\ paths' = [paths EXCEPT ![c] = i]

\* LoadFromConfig, one entry: an id that is in the table is passed over,
\* whatever path it has there, and the maps stay empty for it; one that cannot
\* be registered is reported and the others are still loaded.
LoadEntry ==
    /\ up = "loading" /\ loaded < Len(config)
    /\ loaded' = loaded + 1
    /\ LET e == config[loaded + 1] IN
        \/ Lookup(e.id) # None /\ UNCHANGED <<rows, mapVars>>
        \/ Lookup(e.id) = None /\ validateAllowedAdapters(e) /\ Register(e.id, e.path)
        \/ /\ Lookup(e.id) = None
           /\ \/ ~validateAllowedAdapters(e) \/ ~ValidatePath(e.path)
              \/ paths[resolveCanonicalPath(e.path)] # None
              \/ ~CreateFits(e.id, resolveCanonicalPath(e.path))
           /\ UNCHANGED <<rows, mapVars>>
    /\ UNCHANGED <<envVars, sessVars, unchecked>>

Serve ==
    /\ up = "loading" /\ loaded = Len(config)
    /\ up' = "serving"
    /\ UNCHANGED <<config, dirs, restarts, loaded, rows, mapVars, sessVars, unchecked>>

RegisterCall(i, p) ==
    /\ up = "serving"
    /\ Register(i, p)
    /\ UNCHANGED <<envVars, loaded, sessVars, unchecked>>

InUse(i) == \E s \in Sessions : session[s] = i

\* Unregister: the DELETE is refused while a session refers to the row, if
\* its connection checks that.
Unregister(i) ==
    /\ up = "serving" /\ Lookup(i) # None
    /\ IF InUse(i) THEN unchecked' = TRUE ELSE UNCHANGED unchecked
    /\ rows' = [rows EXCEPT ![i] = None]
    /\ workspaces' = [workspaces EXCEPT ![i] = None]
    /\ paths' = [paths EXCEPT ![Lookup(i)] = None]
    /\ UNCHANGED <<envVars, loaded, sessVars>>

-----------------------------------------------------------------------------
(* Sessions.                                                               *)

CreateSession(s, i) ==
    /\ up = "serving" /\ session[s] = None /\ creating[s] = None
    /\ Lookup(i) # None
    /\ creating' = [creating EXCEPT ![s] = i]
    /\ UNCHANGED <<envVars, loaded, rows, mapVars, session, home, ranIn, unchecked>>

\* Mutant: sessions.workspace_id has no reference to the workspace.
InsertUnreferenced(s) ==
    /\ creating[s] # None
    /\ session' = [session EXCEPT ![s] = creating[s]]
    /\ home' = [home EXCEPT ![s] = rows[creating[s]]]
    /\ creating' = [creating EXCEPT ![s] = None]
    /\ UNCHANGED <<envVars, loaded, rows, mapVars, ranIn, unchecked>>

\* The INSERT is refused when the workspace has gone since it was read, if
\* its connection checks that.
Insert(s) ==
    /\ creating[s] # None
    /\ \/ /\ session' = [session EXCEPT ![s] = creating[s]]
          /\ home' = [home EXCEPT ![s] = rows[creating[s]]]
          /\ IF rows[creating[s]] = None THEN unchecked' = TRUE ELSE UNCHANGED unchecked
       \/ /\ rows[creating[s]] = None
          /\ UNCHANGED <<session, home, unchecked>>
    /\ creating' = [creating EXCEPT ![s] = None]
    /\ UNCHANGED <<envVars, loaded, rows, mapVars, ranIn>>

\* StartRun ignores that the workspace is not found: the process is started
\* without a directory, in that of the server.
StartRun(s) ==
    /\ up = "serving" /\ session[s] # None
    /\ ranIn' = [ranIn EXCEPT ![s] = IF Lookup(session[s]) = None THEN "." ELSE Lookup(session[s])]
    /\ UNCHANGED <<envVars, loaded, rows, mapVars, session, creating, home, unchecked>>

\* The server restarts; the configuration and the directories may have
\* changed.
Restart(c, d) ==
    /\ restarts < MaxRestarts
    /\ restarts' = restarts + 1
    /\ up' = "loading" /\ config' = c /\ dirs' = d /\ loaded' = 0
    /\ workspaces' = [i \in Ids |-> None] /\ paths' = [p \in Paths |-> None]
    /\ creating' = [s \in Sessions |-> None]
    /\ UNCHANGED <<rows, session, home, ranIn, unchecked>>

Next ==
    \/ LoadEntry \/ Serve
    \/ \E i \in Ids : Unregister(i) \/ \E p \in Paths : RegisterCall(i, p)
    \/ \E s \in Sessions : \/ \E i \in Ids : CreateSession(s, i)
                           \/ Insert(s) \/ StartRun(s)
    \/ \E c \in Configs, d \in SUBSET Directories : Restart(c, d)

Spec == Init /\ [][Next]_vars

-----------------------------------------------------------------------------
(* Properties.                                                             *)

\* No directory is registered under two ids, through aliases, restarts and
\* changed configurations included.
OneIdPerDirectory ==
    \A i, j \in Ids :
        rows[i] # None /\ rows[j] # None /\ Canonical[rows[i]] = Canonical[rows[j]] => i = j

\* The two maps agree with each other and with the table, although they are
\* empty after a restart; and looking a workspace up by any path of its
\* directory finds the id that a look-up by id leads to, whether the map or
\* only the table knows it.
LookupsAgree ==
    /\ \A i \in Ids : workspaces[i] # None => rows[i] = workspaces[i]
    /\ \A i \in Ids, p \in Paths : paths[p] = i <=> workspaces[i] = p
    /\ \A i \in Ids, p \in Paths :
        Canonical[p] \in dirs => (GetByPath(p) = i <=> Lookup(i) = Canonical[p])

\* A session keeps the workspace it was created in, and its runs start in
\* that directory, whatever is registered, unregistered or reconfigured,
\* unless a statement ran without foreign keys.
SessionKeepsWorkspace ==
    ~unchecked =>
        \A s \in Sessions :
            session[s] # None =>
                /\ home[s] # None /\ rows[session[s]] = home[s]
                /\ ranIn[s] \in {None, home[s]}
=============================================================================
