------------------------------- MODULE Backup -------------------------------
(***************************************************************************)
(* carctl backup, verify and restore (cmd/carctl) against a database that  *)
(* the server may be using.  SQLite in WAL mode keeps the committed        *)
(* transactions 1..top in two files: car.db holds 1..main, car.db-wal the  *)
(* ones after base.  A checkpoint copies the log into car.db; once that is *)
(* complete the next commit starts the log again from its beginning, and   *)
(* closing the database deletes it.  backup walks the directory and copies *)
(* one file after the other, without a lock that the server would respect. *)
(***************************************************************************)
EXTENDS Naturals, FiniteSetsExt

CONSTANTS
    Absent,       \* a file that does not exist
    Cut,          \* a file that is shorter than it should be
    MaxTx,        \* bound: transactions committed
    MaxBackups,   \* bound: backups made, all with the same --out
    MaxRestores   \* bound: restores tried, all with the same --target

ASSUME BackupBounds == MaxTx \in Nat /\ MaxBackups \in Nat /\ MaxRestores \in Nat
ASSUME BackupNames ==
    Absent # Cut /\ {Absent, Cut} \cap [from : 0..MaxTx, to : 0..MaxTx] = {}

VARIABLES
    server,       \* "up" or "down"
    top, main, base,
    size,         \* transactions that car.db-wal has room for; it never shrinks
    hasLog,       \* car.db-wal exists
    bpc,          \* progress of backup
    listed,       \* car.db-wal was in the directory listing
    lstat,        \* its size when the walk reached it
    gathered,     \* what has been read so far
    out,          \* the archive file, and whether its ciphertext is whole
    rpc,          \* progress of restore
    plain,        \* what restore decrypted
    target,       \* the files in the target directory
    stale,        \* history: the target held a log when restore began
    since,        \* history: the transactions committed when backup began
    disturbed,    \* history: the log was restarted, deleted or created since
    complete,     \* history: what backups sealed once they had read everything
    backups, restores

dbVars      == <<server, top, main, base, size, hasLog>>
backupVars  == <<bpc, listed, lstat, gathered, out, since, complete, backups>>
restoreVars == <<rpc, plain, target, stale, restores>>
allVars == <<dbVars, backupVars, restoreVars, disturbed>>

Tx == 0..MaxTx
Logs == [from : Tx, to : Tx] \cup {Absent, Cut}
DbFiles == [lo : Tx, hi : Tx]  \* pages as of lo at the oldest and hi at the newest
Archives == [db : DbFiles, log : Logs]
Empty == [db |-> Absent, log |-> Absent]
NoArchive == [sealed |-> FALSE, content |-> Empty]

BackupTypeOK ==
    /\ server \in {"up", "down"} /\ hasLog \in BOOLEAN
    /\ top \in Tx /\ main \in base..top /\ base \in Tx /\ size \in Tx
    /\ top - base <= size
    /\ bpc \in {"idle", "list", "db", "dbCopy", "log", "logCopy", "seal", "ok", "failed"}
    /\ listed \in BOOLEAN /\ lstat \in Tx
    /\ gathered \in [db : DbFiles \cup {Absent}, log : Logs]
    /\ out \in [sealed : BOOLEAN, content : Archives \cup {Empty}]
    /\ rpc \in {"idle", "db", "log", "ok", "failed"}
    /\ plain \in Archives \cup {Empty}
    /\ target \in [db : DbFiles \cup {Absent, Cut}, log : Logs]
    /\ stale \in BOOLEAN /\ since \in Tx /\ disturbed \in BOOLEAN
    /\ complete \subseteq Archives
    /\ backups \in 0..MaxBackups /\ restores \in 0..MaxRestores

BackupInit ==
    /\ server = "up" /\ top = 0 /\ main = 0 /\ base = 0 /\ size = 0 /\ hasLog = TRUE
    /\ bpc = "idle" /\ listed = FALSE /\ lstat = 0 /\ gathered = Empty /\ out = NoArchive
    /\ rpc = "idle" /\ plain = Empty /\ target = Empty
    /\ stale = FALSE /\ since = 0 /\ disturbed = FALSE /\ complete = {}
    /\ backups = 0 /\ restores = 0

-----------------------------------------------------------------------------
(* SQLite and the server.                                                  *)

Commit ==
    /\ server = "up" /\ top < MaxTx
    /\ top' = top + 1
    /\ base' = IF main = top THEN top ELSE base
    /\ size' = Max({size, (top + 1) - base'})
    /\ disturbed' = (disturbed \/ base' # base)
    /\ UNCHANGED <<server, main, hasLog, backupVars, restoreVars>>

Checkpoint ==
    /\ server = "up" /\ main < top
    /\ main' = top
    /\ UNCHANGED <<server, top, base, size, hasLog, backupVars, restoreVars, disturbed>>

\* Shutdown closes the database.
Stop ==
    /\ server = "up"
    /\ server' = "down"
    /\ main' = top /\ base' = top /\ size' = 0 /\ hasLog' = FALSE
    /\ disturbed' = TRUE
    /\ UNCHANGED <<top, backupVars, restoreVars>>

\* The server dies and leaves the log behind.
Crash ==
    /\ server = "up"
    /\ server' = "down"
    /\ UNCHANGED <<top, main, base, size, hasLog, backupVars, restoreVars, disturbed>>

Start ==
    /\ server = "down"
    /\ server' = "up"
    /\ hasLog' = TRUE
    /\ disturbed' = (disturbed \/ ~hasLog)
    /\ UNCHANGED <<top, main, base, size, backupVars, restoreVars>>

-----------------------------------------------------------------------------
(* backup.                                                                 *)

\* os.Create truncates the previous archive before anything is read.
BackupOpen ==
    /\ bpc \in {"idle", "ok", "failed"} /\ backups < MaxBackups
    /\ backups' = backups + 1
    /\ out' = NoArchive
    /\ gathered' = Empty /\ since' = top /\ disturbed' = FALSE
    /\ bpc' = "list"
    /\ UNCHANGED <<dbVars, listed, lstat, complete, restoreVars>>

\* Walk reads the names of the directory once and visits them in order:
\* artifacts, car.db, car.db-wal.
WalkList ==
    /\ bpc = "list"
    /\ listed' = hasLog
    /\ bpc' = "db"
    /\ UNCHANGED <<dbVars, lstat, gathered, out, since, complete, backups, restoreVars, disturbed>>

\* car.db is copied while checkpoints write to it.
CopyDbBegin ==
    /\ bpc = "db"
    /\ gathered' = [gathered EXCEPT !.db = [lo |-> main, hi |-> main]]
    /\ bpc' = "dbCopy"
    /\ UNCHANGED <<dbVars, listed, lstat, out, since, complete, backups, restoreVars, disturbed>>

\* Mutant: a backup taken while the log is there does not archive it.
CopyDbEndOnly ==
    /\ bpc = "dbCopy"
    /\ gathered' = [gathered EXCEPT !.db.hi = main]
    /\ bpc' = "seal"
    /\ UNCHANGED <<dbVars, listed, lstat, out, since, complete, backups, restoreVars, disturbed>>

CopyDbEnd ==
    /\ bpc = "dbCopy"
    /\ gathered' = [gathered EXCEPT !.db.hi = main]
    /\ bpc' = IF listed THEN "log" ELSE "seal"
    /\ UNCHANGED <<dbVars, listed, lstat, out, since, complete, backups, restoreVars, disturbed>>

\* The tar header takes the size from lstat, which fails for a deleted file.
CopyLogBegin ==
    /\ bpc = "log"
    /\ bpc' = IF hasLog THEN "logCopy" ELSE "failed"
    /\ lstat' = size
    /\ UNCHANGED <<dbVars, listed, gathered, out, since, complete, backups, restoreVars, disturbed>>

\* A file that has grown since is too long for its header, and one that was
\* deleted cannot be opened.  One that has become shorter is the last entry of
\* the archive, where the error of the deferred tw.Close is not looked at.
CopyLogEnd ==
    /\ bpc = "logCopy"
    /\ IF hasLog /\ size <= lstat
         THEN /\ gathered' = [gathered EXCEPT !.log = IF size < lstat THEN Cut
                                                     ELSE [from |-> base, to |-> top]]
              /\ bpc' = "seal"
         ELSE bpc' = "failed" /\ UNCHANGED gathered
    /\ UNCHANGED <<dbVars, listed, lstat, out, since, complete, backups, restoreVars, disturbed>>

\* The archive is sealed in one piece, so that a file cut short does not
\* authenticate.
Seal ==
    /\ bpc = "seal"
    /\ out' = [sealed |-> TRUE, content |-> gathered]
    /\ complete' = complete \cup {gathered}
    /\ bpc' = "ok"
    /\ UNCHANGED <<dbVars, listed, lstat, gathered, since, backups, restoreVars, disturbed>>

\* An error of the walk or of a write, or carctl is killed: the ciphertext may
\* have been written in part, or as a whole by a backup killed after its Write.
BackupFail ==
    /\ bpc \in {"list", "db", "dbCopy", "log", "logCopy", "seal"}
    /\ bpc' = "failed"
    /\ \/ /\ bpc # "seal"
          /\ UNCHANGED <<out, complete>>
       \/ /\ bpc = "seal"
          /\ out' = [sealed |-> FALSE, content |-> gathered]
          /\ UNCHANGED complete
       \/ /\ bpc = "seal"
          /\ out' = [sealed |-> TRUE, content |-> gathered]
          /\ complete' = complete \cup {gathered}
    /\ UNCHANGED <<dbVars, listed, lstat, gathered, since, backups, restoreVars, disturbed>>

-----------------------------------------------------------------------------
(* verify and restore.                                                     *)

\* Mutant: the rest of the archive is not authenticated.
verifyMagic(right) == out.content # Empty

\* What verify checks, and restore before it extracts: the magic, and that
\* the rest opens under the passphrase.
verify(right) == out.sealed /\ right

RestoreOpen(right) ==
    /\ rpc \in {"idle", "ok", "failed"} /\ restores < MaxRestores
    /\ restores' = restores + 1
    /\ stale' = (target.log # Absent)
    /\ IF verify(right)
         THEN plain' = out.content /\ rpc' = "db"
         ELSE plain' = Empty /\ rpc' = "failed"
    /\ UNCHANGED <<dbVars, backupVars, target, disturbed>>

RestoreDb ==
    /\ rpc = "db"
    /\ target' = [target EXCEPT !.db = plain.db]
    /\ rpc' = IF plain.log = Absent THEN "ok" ELSE "log"
    /\ UNCHANGED <<dbVars, backupVars, plain, stale, restores, disturbed>>

\* Mutant: a file that exists is kept.
RestoreLogExclusive ==
    /\ rpc = "log"
    /\ target' = IF target.log = Absent THEN [target EXCEPT !.log = plain.log] ELSE target
    /\ rpc' = "ok"
    /\ UNCHANGED <<dbVars, backupVars, plain, stale, restores, disturbed>>

\* An entry that is cut short is extracted as far as it goes.
RestoreLog ==
    /\ rpc = "log"
    /\ target' = [target EXCEPT !.log = plain.log]
    /\ rpc' = IF plain.log = Cut THEN "failed" ELSE "ok"
    /\ UNCHANGED <<dbVars, backupVars, plain, stale, restores, disturbed>>

\* The archive or a file cannot be read or written, or carctl is killed. The file
\* that was next is as it was, or truncated and written in part, or whole.
RestoreFail ==
    /\ rpc \in {"db", "log"}
    /\ rpc' = "failed"
    /\ \/ UNCHANGED target
       \/ rpc = "db" /\ target' \in {[target EXCEPT !.db = f] : f \in {Cut, plain.db}}
       \/ rpc = "log" /\ target' \in {[target EXCEPT !.log = f] : f \in {Cut, plain.log}}
    /\ UNCHANGED <<dbVars, backupVars, plain, stale, restores, disturbed>>

BackupNext ==
    \/ Commit \/ Checkpoint \/ Stop \/ Crash \/ Start
    \/ BackupOpen \/ WalkList \/ CopyDbBegin \/ CopyDbEnd
    \/ CopyLogBegin \/ CopyLogEnd \/ Seal \/ BackupFail
    \/ \E right \in BOOLEAN : RestoreOpen(right)
    \/ RestoreDb \/ RestoreLog \/ RestoreFail

BackupSpec == BackupInit /\ [][BackupNext]_allVars

-----------------------------------------------------------------------------
(* Properties.                                                             *)

\* Whether a pair of files opens as a consistent database: the log replaces
\* every page that its transactions wrote, so it must begin no later than the
\* oldest page of the database file and end no earlier than the newest.
Opens(a) ==
    \/ a.log = Absent /\ a.db.lo = a.db.hi
    \/ a.log \notin {Absent, Cut} /\ a.log.from <= a.db.lo /\ a.db.hi <= a.log.to
Recovered(a) == IF a.log = Absent THEN a.db.hi ELSE a.log.to

\* A backup taken while the server commits and checkpoints opens as a
\* consistent database with every transaction that was committed when it
\* began, as long as the log is not restarted, deleted or created meanwhile.
BackupIsConsistent ==
    bpc = "ok" /\ ~disturbed => Opens(out.content) /\ Recovered(out.content) >= since

\* A file that restore has extracted as a whole was sealed by a backup that had
\* read everything, and never comes from one that stopped before; a restore that
\* fails may leave a truncated file, and nothing else that no backup sealed.
OnlyCompleteBackups ==
    /\ target.db \notin {Absent, Cut} => \E a \in complete : a.db = target.db
    /\ target.log \notin {Absent, Cut} => \E a \in complete : a.log = target.log

\* A restore that succeeds leaves exactly what was archived, also after
\* attempts that failed half way and left truncated files; only a log that was
\* there before is left beside an archive that has none.
RestoreIsExact == rpc = "ok" /\ (stale => plain.log # Absent) => target = plain
=============================================================================
