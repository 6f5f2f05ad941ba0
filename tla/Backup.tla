------------------------------- MODULE Backup ------------------------------
(***************************************************************************)
(* Backups and their restoration: internal/backup/backup.go and holder.go,  *)
(* and the restart of the process by cmd/server/main.go.  Uploads and       *)
(* deletions of files (FileStore) go on meanwhile.                          *)
(*                                                                          *)
(* SQLite, as the code uses it, commits into a write-ahead log and moves    *)
(* the log into the database file at a checkpoint: now and then by itself,  *)
(* on request, and when the last connection is closed.  A backup copies the *)
(* database file and not the log; a restore overwrites the database file    *)
(* under the open connection, whose log it leaves.                          *)
(*                                                                          *)
(* A database is the set of files that have a live row, or Torn when pages  *)
(* of two databases are mixed in it.  Of a blob only its first part may be  *)
(* there, when a restore has begun to rewrite it: a stump.  Encryption and  *)
(* the archive's format are left out, and so is the end of the server by    *)
(* SIGTERM.                                                                 *)
(* Definitions marked "Fault" are as in FileStore.                          *)
(***************************************************************************)

CONSTANTS
    Files,      \* ids of files
    Reqs,       \* requests the server handles at the same time
    Ops,        \* the kinds of request that clients send
    Supervisor, \* what looks after the process: "none", "onFailure", "always"
    CanFail,    \* whether a restore, or the checkpoint of a backup, may fail half-way
    CanCrash,   \* whether the process may be killed
    None,       \* no log, no archive, no file
    Torn        \* a database whose pages do not belong together

Kinds == {"upload", "delete", "backup", "restore"}

ASSUME BackupAssumption ==
    /\ Ops \subseteq Kinds
    /\ Supervisor \in {"none", "onFailure", "always"}
    /\ CanFail \in BOOLEAN /\ CanCrash \in BOOLEAN
    /\ None \notin Files
    /\ \A S \in SUBSET Files : S # None /\ S # Torn
    /\ None # Torn

VARIABLES
    main,       \* the database file
    wal,        \* the database with what is in its log, None when the log is empty
    blobs,      \* the files whose whole blob is in the store
    stumps,     \* the files of whose blob only a part is there
    archive,    \* the archive the client has, or None
    replaced,   \* the database file was overwritten under the open connection
    svc,        \* the connection the services keep is open
    hld,        \* the connection in the DBHolder is open
    server,     \* what the process does
    signals,    \* restores have asked for a restart
    pc,         \* the next step of each request
    loc         \* its local variables

content == <<blobs, stumps>>
store == <<main, wal, content>>
process == <<replaced, svc, hld, server, signals>>
vars == <<store, archive, process, pc, loc>>

Databases == (SUBSET Files) \cup {Torn}

\* What a connection reads.
Rows == IF wal = None THEN main ELSE wal

\* The last field is not in the code: the copy of a backup may be torn although the
\* database is not, since the file was written to meanwhile.
NoLoc == [file |-> None, rows |-> {}, todo |-> {}, had |-> {}, cut |-> {},
          before |-> {}, mixed |-> FALSE]

Goto(r, step, l) ==
    /\ pc' = [pc EXCEPT ![r] = step]
    /\ loc' = [loc EXCEPT ![r] = l]

Finish(r) == Goto(r, "idle", NoLoc)

Start(r, op) == server = "up" /\ pc[r] = "idle" /\ op \in Ops
At(r, step) == server # "down" /\ pc[r] = step

\* A transaction that leaves the rows S.  Its pages come from the file as it was
\* before, when the file was overwritten.
Commit(S) == wal' = IF replaced THEN Torn ELSE S

\* The log is moved into the file.  Over another database it may write or not.
Checkpoint ==
    /\ IF wal = Torn THEN main' \in {main, Torn}
                     ELSE main' = Rows
    /\ wal' = None

\* A checkpoint that breaks off has moved none or some of the log, and keeps it.
CheckpointBreaks ==
    /\ main' \in {main} \cup (IF wal = None THEN {} ELSE {Torn})
    /\ wal' = wal

Init ==
    /\ main = {} /\ wal = None /\ blobs = {} /\ stumps = {}
    /\ archive = None
    /\ replaced = FALSE /\ svc = TRUE /\ hld = TRUE
    /\ server = "up" /\ signals = FALSE
    /\ pc = [r \in Reqs |-> "idle"]
    /\ loc = [r \in Reqs |-> NoLoc]

----------------------------------------------------------------------------
(* Uploads and deletions of the file service, with the connection it keeps.  The blob of
   an upload is taken as whole before it is: no row has it until then.              *)

Known(db) == IF db \in {None, Torn} THEN {} ELSE db

\* Ids are random and never used again: no database, store or archive has f yet.
Fresh(f) ==
    /\ f \notin Known(main) \cup Known(wal) \cup blobs \cup stumps
    /\ archive # None => f \notin Known(archive.rows) \cup archive.had \cup archive.cut
    /\ \A r \in Reqs : LET l == loc[r] IN
          f \notin {l.file} \cup Known(l.rows) \cup l.todo \cup l.had \cup l.cut \cup l.before

UploadSave(r, f) ==
    /\ Start(r, "upload")
    /\ Fresh(f)
    /\ blobs' = blobs \cup {f}
    /\ Goto(r, "insert", [NoLoc EXCEPT !.file = f])
    /\ UNCHANGED <<main, wal, stumps, archive, process>>

UploadInsert(r) ==
    /\ At(r, "insert")
    /\ svc
    /\ Commit(IF Rows = Torn THEN Torn ELSE Rows \cup {loc[r].file})
    /\ Finish(r)
    /\ UNCHANGED <<main, content, archive, process>>

Remove(f) ==
    /\ blobs' = blobs \ {f}
    /\ stumps' = stumps \ {f}

\* The connection is closed: the blob is removed again.
UploadUnsave(r) ==
    /\ At(r, "insert")
    /\ ~svc
    /\ Remove(loc[r].file)
    /\ Finish(r)
    /\ UNCHANGED <<main, wal, archive, process>>

\* DeleteHandler, its two statements taken as one, which changes nothing here.
DeleteMark(r, f) ==
    /\ Start(r, "delete")
    /\ svc
    /\ Rows # Torn => f \in Rows
    /\ Commit(IF Rows = Torn THEN Torn ELSE Rows \ {f})
    /\ Goto(r, "unlink", [NoLoc EXCEPT !.file = f])
    /\ UNCHANGED <<main, content, archive, process>>

Unlink(r) ==
    /\ At(r, "unlink")
    /\ Remove(loc[r].file)
    /\ Finish(r)
    /\ UNCHANGED <<main, wal, archive, process>>

AutoCheckpoint ==
    /\ server = "up" /\ svc /\ wal # None
    /\ Checkpoint
    /\ UNCHANGED <<content, archive, process, pc, loc>>

----------------------------------------------------------------------------
(* buildZip: the database, then whatever a walk over the store finds. *)

\* Fault: the log is left out of the archive.
BackupBegin_NoCheckpoint(r) ==
    /\ Start(r, "backup")
    /\ Goto(r, "copyOut", [NoLoc EXCEPT !.before = Known(Rows)])
    /\ UNCHANGED <<store, archive, process>>

\* wal_checkpoint(TRUNCATE)
BackupBegin(r) ==
    /\ Start(r, "backup")
    /\ hld
    /\ Checkpoint
    /\ Goto(r, "copyOut", [NoLoc EXCEPT !.before = Known(Rows)])
    /\ UNCHANGED <<content, archive, process>>

\* It fails, on a closed connection or by an error: a warning, and the backup goes on
\* with what the file has.
BackupUnflushed(r) ==
    /\ Start(r, "backup")
    /\ \/ ~hld /\ UNCHANGED <<main, wal>>
       \/ hld /\ CanFail /\ CheckpointBreaks
    /\ Goto(r, "copyOut", [NoLoc EXCEPT !.before = Known(main)])
    /\ UNCHANGED <<content, archive, process>>

\* io.Copy begins to read the database file ...
BackupCopy(r) ==
    /\ At(r, "copyOut")
    /\ Goto(r, "list", [loc[r] EXCEPT !.rows = main, !.mixed = main = Torn /\ Rows # Torn])
    /\ UNCHANGED <<store, archive, process>>

\* ... and reads on when the file has been written to: what was changed lies behind
\* what it has read, or the copy is of pages that do not belong together.
BackupChunk(r) ==
    /\ At(r, "list")
    /\ main # loc[r].rows /\ loc[r].rows # Torn
    /\ \E db \in {main, Torn} :
          Goto(r, "list", [loc[r] EXCEPT !.rows = db, !.mixed = db = Torn])
    /\ UNCHANGED <<store, archive, process>>

\* filepath.Walk reads the names in the directory, then opens one after the other.
BackupList(r) ==
    /\ At(r, "list")
    /\ Goto(r, "walk", [loc[r] EXCEPT !.todo = blobs \cup stumps])
    /\ UNCHANGED <<store, archive, process>>

\* A file that has gone ends the walk, and the backup, with an error.
BackupFile(r, f) ==
    /\ At(r, "walk")
    /\ f \in loc[r].todo
    /\ \/ /\ f \in blobs
          /\ Goto(r, "walk", [loc[r] EXCEPT !.todo = @ \ {f}, !.had = @ \cup {f}])
       \/ /\ f \in stumps
          /\ Goto(r, "walk", [loc[r] EXCEPT !.todo = @ \ {f}, !.cut = @ \cup {f}])
       \/ /\ f \notin blobs \cup stumps
          /\ Finish(r)
    /\ UNCHANGED <<store, archive, process>>

\* Fault: the archive takes its database last.
BackupDone_RowsLast(r) ==
    /\ At(r, "walk")
    /\ loc[r].todo = {}
    /\ archive' = [rows |-> main, had |-> loc[r].had, cut |-> loc[r].cut]
    /\ Finish(r)
    /\ UNCHANGED <<store, process>>

BackupDone(r) ==
    /\ At(r, "walk")
    /\ loc[r].todo = {}
    /\ archive' = [rows |-> loc[r].rows, had |-> loc[r].had, cut |-> loc[r].cut]
    /\ Finish(r)
    /\ UNCHANGED <<store, process>>

----------------------------------------------------------------------------
(* RestoreBackup and Replace, once the archive has been found to be in order: of the
   database only the first 16 bytes are looked at (validateSQLite).                *)

RestoreBegin(r) ==
    /\ Start(r, "restore")
    /\ archive # None
    /\ Goto(r, "copyIn", [NoLoc EXCEPT !.rows = archive.rows, !.had = archive.had,
                                      !.todo = archive.had \cup archive.cut])
    /\ UNCHANGED <<store, archive, process>>

\* copyFile: os.Create truncates the database file, ...
RestoreTruncate(r) ==
    /\ At(r, "copyIn")
    /\ main' = Torn
    /\ wal' = IF wal = None THEN None ELSE Torn
    /\ replaced' = TRUE
    /\ Goto(r, "copying", loc[r])
    /\ UNCHANGED <<content, archive, svc, hld, server, signals>>

\* ... and io.Copy fills it.
RestoreCopy(r) ==
    /\ At(r, "copying")
    /\ main' = loc[r].rows
    /\ Goto(r, "close", [loc[r] EXCEPT !.rows = {}])
    /\ UNCHANGED <<wal, content, archive, process>>

\* Fault: the services have a connection of their own, which is kept.
RestoreClose_HolderOnly(r) ==
    /\ At(r, "close")
    /\ IF hld THEN Checkpoint ELSE UNCHANGED <<main, wal>>
    /\ hld' = FALSE
    /\ Goto(r, "reopen", loc[r])
    /\ UNCHANGED <<content, archive, replaced, svc, server, signals>>

\* Close of the connection in the holder; until the first Replace it is the services' too.
RestoreClose(r) ==
    /\ At(r, "close")
    /\ IF hld THEN Checkpoint ELSE UNCHANGED <<main, wal>>
    /\ svc' = FALSE
    /\ hld' = FALSE
    /\ Goto(r, "reopen", loc[r])
    /\ UNCHANGED <<content, archive, replaced, server, signals>>

RestoreReopen(r) ==
    /\ At(r, "reopen")
    /\ hld' = TRUE
    /\ Goto(r, "blobs", loc[r])
    /\ UNCHANGED <<store, archive, replaced, svc, server, signals>>

\* copyDir removes nothing from the store, but copyFile truncates what it rewrites, ...
RestoreBlob(r, f) ==
    /\ At(r, "blobs")
    /\ f \in loc[r].todo
    /\ blobs' = blobs \ {f}
    /\ stumps' = stumps \cup {f}
    /\ Goto(r, "filling", [loc[r] EXCEPT !.file = f])
    /\ UNCHANGED <<main, wal, archive, process>>

\* ... and then fills it with what the archive has, unless it was unlinked meanwhile.
RestoreFill(r) ==
    /\ At(r, "filling")
    /\ LET whole == {loc[r].file} \cap loc[r].had \cap (blobs \cup stumps)
       IN  blobs' = blobs \cup whole /\ stumps' = stumps \ whole
    /\ Goto(r, "blobs", [loc[r] EXCEPT !.todo = @ \ {loc[r].file}, !.file = None])
    /\ UNCHANGED <<main, wal, archive, process>>

\* The answer 200.
RestoreDone(r) ==
    /\ At(r, "blobs")
    /\ loc[r].todo = {}
    /\ Goto(r, "answered", NoLoc)
    /\ UNCHANGED <<store, archive, process>>

\* Fault: no restart is asked for.
RestoreSignal_None(r) ==
    /\ At(r, "answered")
    /\ Finish(r)
    /\ UNCHANGED <<store, archive, process>>

\* A goroutine sends to RestartCh after half a second.
RestoreSignal(r) ==
    /\ At(r, "answered")
    /\ signals' = TRUE
    /\ Finish(r)
    /\ UNCHANGED <<store, archive, replaced, svc, hld, server>>

\* An error of the disk or of the new connection: the answer 400, and nothing is undone.
RestoreFails(r) ==
    /\ CanFail
    /\ pc[r] \in {"copyIn", "copying", "close", "reopen", "blobs", "filling"}
    /\ server # "down"
    /\ Finish(r)
    /\ UNCHANGED <<store, archive, process>>

----------------------------------------------------------------------------
(* main *)

\* <-restartCh: Shutdown refuses new requests.
ShutdownBegin ==
    /\ server = "up" /\ signals
    /\ server' = "closing"
    /\ UNCHANGED <<store, archive, replaced, svc, hld, signals, pc, loc>>

\* What systemd and Docker do when the process they look after has ended: systemd
\* ends what it has started too, and Docker its whole container.
Supervised(failed) ==
    CASE Supervisor = "none" -> IF failed THEN "down" ELSE "starting"
      [] Supervisor = "onFailure" -> IF failed THEN "starting" ELSE "down"
      [] Supervisor = "always" -> "starting"

Exit(failed) ==
    /\ server' = Supervised(failed)
    /\ signals' = FALSE
    /\ pc' = [r \in Reqs |-> "idle"]
    /\ loc' = [r \in Reqs |-> NoLoc]

\* The requests have ended or five seconds have passed: the connection in the holder
\* is closed, the successor is started, and the process exits with status 0.
Exec ==
    /\ server = "closing"
    /\ IF hld THEN Checkpoint ELSE UNCHANGED <<main, wal>>
    /\ Exit(FALSE)
    /\ UNCHANGED <<content, archive, replaced, svc, hld>>

\* The process is killed, perhaps in a checkpoint: the log stays, and is part of the
\* database it lies beside.
Crash ==
    /\ CanCrash
    /\ server \in {"up", "closing"}
    /\ CheckpointBreaks
    /\ Exit(TRUE)
    /\ UNCHANGED <<content, archive, replaced, svc, hld>>

\* A new process opens the database, ...
Boot ==
    /\ server = "starting"
    /\ server' = "up"
    /\ svc' = TRUE /\ hld' = TRUE /\ replaced' = FALSE
    /\ UNCHANGED <<store, archive, signals, pc, loc>>

\* ... or exits with status 1 when that fails, as it may if the database is malformed.
BootFails ==
    /\ server = "starting"
    /\ Rows = Torn
    /\ server' = Supervised(TRUE)
    /\ UNCHANGED <<store, archive, replaced, svc, hld, signals, pc, loc>>

----------------------------------------------------------------------------

Begin(r) ==
    \/ \E f \in Files : UploadSave(r, f) \/ DeleteMark(r, f)
    \/ BackupBegin(r) \/ BackupUnflushed(r)
    \/ RestoreBegin(r)

Continue(r) ==
    \/ UploadInsert(r) \/ UploadUnsave(r) \/ Unlink(r)
    \/ BackupCopy(r) \/ BackupChunk(r) \/ BackupList(r) \/ BackupDone(r)
    \/ \E f \in Files : BackupFile(r, f) \/ RestoreBlob(r, f)
    \/ RestoreTruncate(r) \/ RestoreCopy(r) \/ RestoreClose(r)
    \/ RestoreReopen(r) \/ RestoreFill(r) \/ RestoreDone(r) \/ RestoreSignal(r)
    \/ RestoreFails(r)

Main == ShutdownBegin \/ Exec \/ Boot \/ BootFails

Next ==
    \/ \E r \in Reqs : Begin(r) \/ Continue(r)
    \/ AutoCheckpoint
    \/ Main
    \/ Crash

Spec == Init /\ [][Next]_vars

\* The Go runtime runs every goroutine that can run, main among them, and a process
\* that has been started boots, if the database is whole.
FairSpec ==
    /\ Spec
    /\ WF_vars(ShutdownBegin \/ Exec) /\ WF_vars(Rows # Torn /\ Boot)
    /\ \A r \in Reqs : WF_vars(Continue(r))

----------------------------------------------------------------------------
(* Correctness *)

Steps == {"idle", "insert", "unlink", "copyOut", "list", "walk", "copyIn",
          "copying", "close", "reopen", "blobs", "filling", "answered"}

LocType == [file : Files \cup {None}, rows : Databases, todo : SUBSET Files,
            had : SUBSET Files, cut : SUBSET Files, before : SUBSET Files,
            mixed : BOOLEAN]
ArchiveType == [rows : Databases, had : SUBSET Files, cut : SUBSET Files]

\* The types of the variables, and that the services' connection is open only if
\* the one in the holder is: Replace closes the connection that both have.
TypeOK ==
    /\ main \in Databases
    /\ wal \in Databases \cup {None}
    /\ blobs \subseteq Files /\ stumps \subseteq Files /\ blobs \cap stumps = {}
    /\ archive \in ArchiveType \cup {None}
    /\ replaced \in BOOLEAN /\ svc \in BOOLEAN /\ hld \in BOOLEAN /\ signals \in BOOLEAN
    /\ server \in {"up", "closing", "starting", "down"}
    /\ pc \in [Reqs -> Steps]
    /\ loc \in [Reqs -> LocType]
    /\ svc => hld
    /\ \A r \in Reqs : pc[r] \in {"insert", "unlink", "filling"} => loc[r].file \in Files
    /\ server \in {"starting", "down"} => \A r \in Reqs : pc[r] = "idle"

\* A backup ends with a new archive, and the database is whole and has not been
\* overwritten since the process began.
Archives(r) ==
    /\ At(r, "walk") /\ loc[r].todo = {} /\ pc'[r] = "idle" /\ server' = server
    /\ ~replaced /\ Rows # Torn

\* A new archive is torn only if the database file was written to while it was copied,
\* or lay half-written from a checkpoint that broke off.  Otherwise, whatever has been
\* written meanwhile, it has every file that had been committed when its backup began,
\* or that the file had if the checkpoint failed, and that has not been deleted since.
NothingForgotten ==
    [][\A r \in Reqs : Archives(r) =>
          IF archive'.rows = Torn THEN loc[r].mixed
                                  ELSE loc[r].before \cap Rows \subseteq archive'.rows]_vars

\* A new archive has the blob of each of its rows, unless one of the two has gone
\* from the server: an upload that overlaps is in it entirely or not at all, and of a
\* deletion that overlaps the row may stay (an earlier restore can have brought such
\* a row back).
ArchivedContent ==
    [][\A r \in Reqs : Archives(r) =>
          Known(archive'.rows) \cap Rows \cap blobs \subseteq archive'.had]_vars

\* The services are without a connection, and nobody is about to ask for the restart
\* that would give them one.
Stranded ==
    /\ server = "up" /\ ~svc /\ ~signals
    /\ \A r \in Reqs : pc[r] \notin {"reopen", "blobs", "filling", "answered"}

\* However restores overlap each other and whatever else is going on, all that leaves
\* the services without a connection for good is an error in a restore that has
\* closed it: the error is answered with 400, and no restart is asked for.
StrandedOnlyByFailure ==
    [][~Stranded /\ Stranded' => \E r \in Reqs : RestoreFails(r)]_vars

\* A restore that has been answered with success is followed by a restart, which
\* gives the services, whose connection the restore has closed, a new one; unless a
\* database that is torn (by another restore, or by the copy in the archive) keeps
\* every new process from starting.
Restarted ==
    \A r \in Reqs : pc[r] = "answered" ~>
       (svc /\ server = "up") \/ [](server = "starting" /\ Rows = Torn)
=============================================================================
