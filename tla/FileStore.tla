----------------------------- MODULE FileStore -----------------------------
(***************************************************************************)
(* The file service of one user: the rows of the tables files and folders   *)
(* (internal/db), the blobs of the local store (internal/storage) and the   *)
(* HTTP handlers of internal/files/files.go that change them.               *)
(*                                                                          *)
(* The pool holds a single SQLite connection, so one statement, or one      *)
(* transaction, is one step and handlers interleave between them.  A        *)
(* handler keeps what it has read in its local variables (loc) and uses it  *)
(* at a later step, however stale it has become.                            *)
(*                                                                          *)
(* A path is the sequence of its components, "/" being <<>>; names compare  *)
(* by equality, so this module stands for names in which LIKE has no        *)
(* wildcard and no letters of two cases, and length counts characters.      *)
(* Upload draws one uuid for the blob and one for the row; both are the     *)
(* file's element of Files.                                                 *)
(*                                                                          *)
(* A definition marked "Fault" is a faulty variant of the one after it that *)
(* begins with the same name; it is here to show which property notices the *)
(* fault, and no specification uses it.                                     *)
(***************************************************************************)
EXTENDS Naturals, Sequences, FiniteSets

CONSTANTS
    Files,      \* the ids uuid.NewString may give to uploaded files
    Folders,    \* the ids it may give to folders
    Names,      \* names of files and of folders
    Reqs,       \* requests the server handles at the same time
    Ops,        \* the kinds of request that clients send
    MaxDepth,   \* bound: no path has more components than this
    CanCrash,   \* whether the server process may be killed
    Ignored,    \* the errors that happen, of those that the handlers pass over
    None        \* no file, folder or name

Kinds == {"upload", "patchFile", "delete", "restore", "emptyTrash",
          "createFolder", "patchFolder", "deleteFolder"}

\* Errors that are logged at most: of a duplicate check, after which the handler
\* writes all the same; of the iteration over the rows of a query, which ends or
\* goes on without them; and of os.Remove, which leaves the blob where it is.
Errors == {"check", "scan", "remove"}

ASSUME StoreAssumption ==
    /\ Ops \subseteq Kinds
    /\ MaxDepth \in Nat
    /\ CanCrash \in BOOLEAN
    /\ Ignored \subseteq Errors
    /\ None \notin Files \cup Folders \cup Names

VARIABLES
    rows,       \* table files: state "none" until inserted, "gone" once deleted
    folders,    \* table folders
    disk,       \* the files whose blob is in the store
    pc,         \* the next step of each request
    loc         \* the local variables of each request

vars == <<rows, folders, disk, pc, loc>>

----------------------------------------------------------------------------
(* Paths *)

Paths == UNION {[1..n -> Names] : n \in 0..MaxDepth}

\* folderFullPath
Full(dir, name) == Append(dir, name)

\* parent_path = full OR parent_path LIKE full || '/%'
Under(dir, full) ==
    /\ Len(full) <= Len(dir)
    /\ \A i \in 1..Len(full) : dir[i] = full[i]

\* newFull || SUBSTR(parent_path, len(oldFull) + 1)
Rebase(dir, old, new) == new \o SubSeq(dir, Len(old) + 1, Len(dir))

----------------------------------------------------------------------------
(* Tables *)

Exists(f) == rows[f].state \in {"live", "trash"}
Live(f) == rows[f].state = "live"
Trashed == {f \in Files : rows[f].state = "trash"}

FilesUnder(full) == {f \in Files : Exists(f) /\ Under(rows[f].dir, full)}
FoldersUnder(full) ==
    {g \in Folders : folders[g].exists /\ Under(folders[g].dir, full)}

\* The duplicate checks of UploadHandler, PatchFileHandler and CreateFolderHandler.
Taken(dir, name, except) ==
    \E f \in Files \ {except} :
        Live(f) /\ rows[f].dir = dir /\ rows[f].name = name
FolderTaken(dir, name) ==
    \E g \in Folders :
        folders[g].exists /\ folders[g].dir = dir /\ folders[g].name = name

\* A new uuid names nothing that exists and nothing a request remembers.
Fresh(f) == rows[f].state = "none" /\ f \notin disk
FreshFolder(g) == ~folders[g].exists /\ \A r \in Reqs : loc[r].folder # g

NoFolder == [exists |-> FALSE, name |-> None, dir |-> <<>>]

----------------------------------------------------------------------------
(* Requests *)

NoLoc == [file |-> None, folder |-> None, name |-> None, dir |-> <<>>,
          full |-> <<>>, paths |-> {}]

Goto(r, step, l) ==
    /\ pc' = [pc EXCEPT ![r] = step]
    /\ loc' = [loc EXCEPT ![r] = l]

Finish(r) == Goto(r, "idle", NoLoc)

\* Fault: no test for having nothing left to unlink.
UnlinkAll_Unchecked(r, S) == Goto(r, "unlink", [NoLoc EXCEPT !.paths = S])

\* Delete the blobs of S one after the other once the database step is done.
UnlinkAll(r, S) ==
    IF S = {} THEN Finish(r) ELSE Goto(r, "unlink", [NoLoc EXCEPT !.paths = S])

Start(r, op) == pc[r] = "idle" /\ op \in Ops
At(r, step) == pc[r] = step

Init ==
    /\ rows = [f \in Files |-> [state |-> "none", name |-> None, dir |-> <<>>]]
    /\ folders = [g \in Folders |-> NoFolder]
    /\ disk = {}
    /\ pc = [r \in Reqs |-> "idle"]
    /\ loc = [r \in Reqs |-> NoLoc]

----------------------------------------------------------------------------
(* UploadHandler *)

\* Fault: the name is used whether it is taken or not.
UploadCheck_Skipped(r, d, n) ==
    /\ Start(r, "upload")
    /\ Goto(r, "save", [NoLoc EXCEPT !.dir = d, !.name = n])
    /\ UNCHANGED <<rows, folders, disk>>

UploadCheck(r, d, n) ==
    /\ Start(r, "upload")
    /\ ~Taken(d, n, None)
    /\ Goto(r, "save", [NoLoc EXCEPT !.dir = d, !.name = n])
    /\ UNCHANGED <<rows, folders, disk>>

\* A check that fails is logged, and the file is stored and inserted.
UploadCheckFails(r, d, n) ==
    /\ Start(r, "upload")
    /\ "check" \in Ignored
    /\ Goto(r, "save", [NoLoc EXCEPT !.dir = d, !.name = n])
    /\ UNCHANGED <<rows, folders, disk>>

UploadSave(r, f) ==
    /\ At(r, "save")
    /\ Fresh(f)
    /\ disk' = disk \cup {f}
    /\ Goto(r, "insert", [loc[r] EXCEPT !.file = f])
    /\ UNCHANGED <<rows, folders>>

\* Save removes the partial blob when the copy fails ...
UploadSaveFails(r) ==
    /\ At(r, "save")
    /\ Finish(r)
    /\ UNCHANGED <<rows, folders, disk>>

\* ... unless that fails, too.
UploadSaveLitters(r, f) ==
    /\ At(r, "save")
    /\ "remove" \in Ignored
    /\ Fresh(f)
    /\ disk' = disk \cup {f}
    /\ Finish(r)
    /\ UNCHANGED <<rows, folders>>

UploadInsert(r) ==
    /\ At(r, "insert")
    /\ rows' = [rows EXCEPT ![loc[r].file] =
                  [state |-> "live", name |-> loc[r].name, dir |-> loc[r].dir]]
    /\ Finish(r)
    /\ UNCHANGED <<folders, disk>>

\* Fault: the blob is not removed when the INSERT fails.
UploadInsertFails_Leak(r) ==
    /\ At(r, "insert")
    /\ Finish(r)
    /\ UNCHANGED <<rows, folders, disk>>

UploadInsertFails(r) ==
    /\ At(r, "insert")
    /\ Goto(r, "unsave", loc[r])
    /\ UNCHANGED <<rows, folders, disk>>

UploadUnsave(r) ==
    /\ At(r, "unsave")
    /\ disk' = disk \ {loc[r].file}
    /\ Finish(r)
    /\ UNCHANGED <<rows, folders>>

UploadUnsaveFails(r) ==
    /\ At(r, "unsave")
    /\ "remove" \in Ignored
    /\ Finish(r)
    /\ UNCHANGED <<rows, folders, disk>>

----------------------------------------------------------------------------
(* PatchFileHandler: a body that leaves a field out asks for the value that *)
(* is read, so d and n range over all paths and names.                      *)

PatchFileRead(r, f, d, n) ==
    /\ Start(r, "patchFile")
    /\ Live(f)
    /\ Goto(r, IF n = rows[f].name /\ d = rows[f].dir
               THEN "updateFile" ELSE "checkMove",
            [NoLoc EXCEPT !.file = f, !.dir = d, !.name = n])
    /\ UNCHANGED <<rows, folders, disk>>

PatchFileCheck(r) ==
    /\ At(r, "checkMove")
    /\ IF Taken(loc[r].dir, loc[r].name, loc[r].file)
       THEN Finish(r)
       ELSE Goto(r, "updateFile", loc[r])
    /\ UNCHANGED <<rows, folders, disk>>

\* A check that fails is logged, and the row is updated.
PatchFileCheckFails(r) ==
    /\ At(r, "checkMove")
    /\ "check" \in Ignored
    /\ Goto(r, "updateFile", loc[r])
    /\ UNCHANGED <<rows, folders, disk>>

\* UPDATE ... WHERE id = ?: a row in the trash is renamed too, one that is gone is not.
PatchFileUpdate(r) ==
    /\ At(r, "updateFile")
    /\ LET f == loc[r].file IN
       rows' = IF Exists(f)
               THEN [rows EXCEPT ![f].name = loc[r].name, ![f].dir = loc[r].dir]
               ELSE rows
    /\ Finish(r)
    /\ UNCHANGED <<folders, disk>>

----------------------------------------------------------------------------
(* DeleteHandler: lookup finds rows in the trash as well. *)

DeleteLookup(r, f) ==
    /\ Start(r, "delete")
    /\ Exists(f)
    /\ Goto(r, "mark", [NoLoc EXCEPT !.file = f])
    /\ UNCHANGED <<rows, folders, disk>>

\* Fault: the blob is left for EmptyTrashHandler, which may have collected already.
DeleteMark_KeepBlob(r) ==
    /\ At(r, "mark")
    /\ LET f == loc[r].file IN
       rows' = IF Exists(f) THEN [rows EXCEPT ![f].state = "trash"] ELSE rows
    /\ Finish(r)
    /\ UNCHANGED <<folders, disk>>

DeleteMark(r) ==
    /\ At(r, "mark")
    /\ LET f == loc[r].file IN
       /\ rows' = IF Exists(f) THEN [rows EXCEPT ![f].state = "trash"] ELSE rows
       /\ UnlinkAll(r, {f})
    /\ UNCHANGED <<folders, disk>>

----------------------------------------------------------------------------
(* RestoreHandler: a single statement. *)

Restore(r, f) ==
    /\ Start(r, "restore")
    /\ rows[f].state = "trash"
    /\ rows' = [rows EXCEPT ![f].state = "live"]
    /\ UNCHANGED <<folders, disk, pc, loc>>

----------------------------------------------------------------------------
(* EmptyTrashHandler: the blobs to unlink are those of the rows it read,    *)
(* the rows it deletes are those in the trash when it deletes.              *)

\* What a query for the rows T may yield: a row that cannot be scanned is skipped,
\* and an error that ends the iteration early is not looked at.
Collected(T) == IF "scan" \in Ignored THEN SUBSET T ELSE {T}

EmptyTrashCollect(r) ==
    /\ Start(r, "emptyTrash")
    /\ \E S \in Collected(Trashed) : Goto(r, "purge", [NoLoc EXCEPT !.paths = S])
    /\ UNCHANGED <<rows, folders, disk>>

\* Fault: DELETE ... WHERE id IN the rows that were collected.
EmptyTrashPurge_Collected(r) ==
    /\ At(r, "purge")
    /\ rows' = [f \in Files |-> IF f \in loc[r].paths
                                THEN [rows[f] EXCEPT !.state = "gone"]
                                ELSE rows[f]]
    /\ UnlinkAll(r, loc[r].paths)
    /\ UNCHANGED <<folders, disk>>

EmptyTrashPurge(r) ==
    /\ At(r, "purge")
    /\ rows' = [f \in Files |-> IF f \in Trashed
                                THEN [state |-> "gone", name |-> None, dir |-> <<>>]
                                ELSE rows[f]]
    /\ UnlinkAll(r, loc[r].paths)
    /\ UNCHANGED <<folders, disk>>

----------------------------------------------------------------------------
(* CreateFolderHandler *)

CreateFolderCheck(r, d, n) ==
    /\ Start(r, "createFolder")
    /\ Full(d, n) \in Paths
    /\ ~FolderTaken(d, n)
    /\ Goto(r, "insertFolder", [NoLoc EXCEPT !.dir = d, !.name = n])
    /\ UNCHANGED <<rows, folders, disk>>

CreateFolderCheckFails(r, d, n) ==
    /\ Start(r, "createFolder")
    /\ "check" \in Ignored
    /\ Full(d, n) \in Paths
    /\ Goto(r, "insertFolder", [NoLoc EXCEPT !.dir = d, !.name = n])
    /\ UNCHANGED <<rows, folders, disk>>

CreateFolderInsert(r, g) ==
    /\ At(r, "insertFolder")
    /\ FreshFolder(g)
    /\ folders' = [folders EXCEPT ![g] =
                     [exists |-> TRUE, name |-> loc[r].name, dir |-> loc[r].dir]]
    /\ Finish(r)
    /\ UNCHANGED <<rows, disk>>

----------------------------------------------------------------------------
(* PatchFolderHandler: the transaction updates the folder's own row and     *)
(* then rewrites the prefix oldFull of every path, the folder's own         *)
(* included when it has just been moved below itself.  Rewriting a prefix   *)
(* by itself changes nothing, so the test oldFull # newFull needs no case.  *)

PatchFolderRead(r, g, d, n) ==
    /\ Start(r, "patchFolder")
    /\ folders[g].exists
    /\ Full(d, n) \in Paths
    /\ Goto(r, "cascade",
            [NoLoc EXCEPT !.folder = g, !.dir = d, !.name = n,
                          !.full = Full(folders[g].dir, folders[g].name)])
    /\ UNCHANGED <<rows, folders, disk>>

\* Fault: only the files directly in the folder are moved along.
CascadeFiles_Direct(old, new) ==
    [f \in Files |-> IF Exists(f) /\ rows[f].dir = old
                     THEN [rows[f] EXCEPT !.dir = new]
                     ELSE rows[f]]

CascadeFiles(old, new) ==
    [f \in Files |-> IF f \in FilesUnder(old)
                     THEN [rows[f] EXCEPT !.dir = Rebase(rows[f].dir, old, new)]
                     ELSE rows[f]]

\* The folders after UPDATE folders SET name, parent_path WHERE id = g.
Renamed(g, d, n) ==
    IF folders[g].exists
    THEN [folders EXCEPT ![g].name = n, ![g].dir = d]
    ELSE folders

CascadeFolders(g, d, n, old) ==
    LET own == Renamed(g, d, n) IN
    [h \in Folders |->
        IF own[h].exists /\ Under(own[h].dir, old)
        THEN [own[h] EXCEPT !.dir = Rebase(own[h].dir, old, Full(d, n))]
        ELSE own[h]]

PatchFolderCascade(r) ==
    LET l == loc[r]
        newRows == CascadeFiles(l.full, Full(l.dir, l.name))
        newFolders == CascadeFolders(l.folder, l.dir, l.name, l.full)
    IN
    /\ At(r, "cascade")
    \* Bound: a cascade that makes a path deeper than MaxDepth is left out.
    /\ \A f \in Files : newRows[f].dir \in Paths
    /\ \A g \in Folders : newFolders[g].exists =>
         newFolders[g].dir \in Paths /\ Full(newFolders[g].dir, newFolders[g].name) \in Paths
    /\ rows' = newRows
    /\ folders' = newFolders
    /\ Finish(r)
    /\ UNCHANGED disk

----------------------------------------------------------------------------
(* DeleteFolderHandler *)

DeleteFolderRead(r, g) ==
    /\ Start(r, "deleteFolder")
    /\ folders[g].exists
    /\ Goto(r, "collect",
            [NoLoc EXCEPT !.folder = g,
                          !.full = Full(folders[g].dir, folders[g].name)])
    /\ UNCHANGED <<rows, folders, disk>>

DeleteFolderCollect(r) ==
    /\ At(r, "collect")
    /\ \E S \in Collected(FilesUnder(loc[r].full)) :
         Goto(r, "sweep", [loc[r] EXCEPT !.paths = S])
    /\ UNCHANGED <<rows, folders, disk>>

SweepFolders(l) ==
    [g \in Folders |-> IF g = l.folder \/ g \in FoldersUnder(l.full)
                       THEN NoFolder ELSE folders[g]]

\* Fault: the files of subfolders are not trashed.
DeleteFolderSweep_Shallow(r) ==
    /\ At(r, "sweep")
    /\ rows' = [f \in Files |-> IF Exists(f) /\ rows[f].dir = loc[r].full
                                THEN [rows[f] EXCEPT !.state = "trash"]
                                ELSE rows[f]]
    /\ folders' = SweepFolders(loc[r])
    /\ UnlinkAll(r, loc[r].paths)
    /\ UNCHANGED disk

\* Fault: the rows are deleted, not trashed.
DeleteFolderSweep_Purge(r) ==
    /\ At(r, "sweep")
    /\ rows' = [f \in Files |-> IF f \in FilesUnder(loc[r].full)
                                THEN [rows[f] EXCEPT !.state = "gone"]
                                ELSE rows[f]]
    /\ folders' = SweepFolders(loc[r])
    /\ UnlinkAll(r, loc[r].paths)
    /\ UNCHANGED disk

DeleteFolderSweep(r) ==
    /\ At(r, "sweep")
    /\ rows' = [f \in Files |-> IF f \in FilesUnder(loc[r].full)
                                THEN [rows[f] EXCEPT !.state = "trash"]
                                ELSE rows[f]]
    /\ folders' = SweepFolders(loc[r])
    /\ UnlinkAll(r, loc[r].paths)
    /\ UNCHANGED disk

----------------------------------------------------------------------------
(* Steps that several handlers share *)

\* store.Delete of one collected path; a blob that is not there is no error.
Unlink(r, f) ==
    /\ At(r, "unlink")
    /\ f \in loc[r].paths
    /\ disk' = disk \ {f}
    /\ UnlinkAll(r, loc[r].paths \ {f})
    /\ UNCHANGED <<rows, folders>>

\* The error of store.Delete is dropped: the blob stays and the handler goes on.
UnlinkFails(r, f) ==
    /\ At(r, "unlink")
    /\ "remove" \in Ignored
    /\ f \in loc[r].paths
    /\ UnlinkAll(r, loc[r].paths \ {f})
    /\ UNCHANGED <<rows, folders, disk>>

\* A statement or transaction fails, with no effect, and ends the request.
StatementFails(r) ==
    /\ pc[r] \in {"updateFile", "mark", "purge", "insertFolder", "cascade",
                  "collect", "sweep"}
    /\ Finish(r)
    /\ UNCHANGED <<rows, folders, disk>>

\* The process is killed: what is in the database and on disk is all that is left.
Crash ==
    /\ CanCrash
    /\ pc' = [r \in Reqs |-> "idle"]
    /\ loc' = [r \in Reqs |-> NoLoc]
    /\ UNCHANGED <<rows, folders, disk>>

----------------------------------------------------------------------------

\* A client sends a request: its first statement.
Begin(r) ==
    \/ \E d \in Paths, n \in Names :
         \/ UploadCheck(r, d, n)
         \/ UploadCheckFails(r, d, n)
         \/ CreateFolderCheck(r, d, n)
         \/ CreateFolderCheckFails(r, d, n)
         \/ \E f \in Files : PatchFileRead(r, f, d, n)
         \/ \E g \in Folders : PatchFolderRead(r, g, d, n)
    \/ \E f \in Files : DeleteLookup(r, f) \/ Restore(r, f)
    \/ EmptyTrashCollect(r)
    \/ \E g \in Folders : DeleteFolderRead(r, g)

\* The handler goes on with a request it has begun.
Continue(r) ==
    \/ \E f \in Files : UploadSave(r, f) \/ UploadSaveLitters(r, f)
    \/ UploadSaveFails(r)
    \/ UploadInsert(r)
    \/ UploadInsertFails(r)
    \/ UploadUnsave(r)
    \/ UploadUnsaveFails(r)
    \/ PatchFileCheck(r)
    \/ PatchFileCheckFails(r)
    \/ PatchFileUpdate(r)
    \/ DeleteMark(r)
    \/ EmptyTrashPurge(r)
    \/ \E g \in Folders : CreateFolderInsert(r, g)
    \/ PatchFolderCascade(r)
    \/ DeleteFolderCollect(r)
    \/ DeleteFolderSweep(r)
    \/ \E f \in Files : Unlink(r, f) \/ UnlinkFails(r, f)
    \/ StatementFails(r)

Next ==
    \/ \E r \in Reqs : Begin(r) \/ Continue(r)
    \/ Crash

Spec == Init /\ [][Next]_vars

\* The Go runtime runs every handler goroutine that can run.
FairSpec == Spec /\ \A r \in Reqs : WF_vars(Continue(r))

----------------------------------------------------------------------------
(* Correctness *)

Steps == {"idle", "save", "insert", "unsave", "checkMove",
          "updateFile", "mark", "purge", "insertFolder", "cascade", "collect",
          "sweep", "unlink"}

RowType == [state : {"none", "live", "trash", "gone"},
            name : Names \cup {None}, dir : Paths]
FolderType == [exists : BOOLEAN, name : Names \cup {None}, dir : Paths]
LocType == [file : Files \cup {None}, folder : Folders \cup {None},
            name : Names \cup {None}, dir : Paths, full : Paths,
            paths : SUBSET Files]

\* What a request at a step may rely on in its local variables.
Fits(step, l) ==
    /\ step = "idle" => l = NoLoc
    /\ step = "unlink" => l.paths # {}
    /\ step \in {"insert", "unsave", "checkMove", "updateFile", "mark"} => l.file \in Files
    /\ step \in {"cascade", "collect", "sweep"} => l.folder \in Folders
    /\ step \in {"save", "insert", "unsave", "checkMove",
                "updateFile", "insertFolder", "cascade"} => l.name \in Names
    /\ step \in {"insertFolder", "cascade"} => Full(l.dir, l.name) \in Paths

\* The types of the variables; that a request that is over has forgotten
\* everything and one that unlinks has something left to unlink; and that every
\* folder has a path within the bound.
TypeOK ==
    /\ rows \in [Files -> RowType]
    /\ folders \in [Folders -> FolderType]
    /\ disk \subseteq Files
    /\ pc \in [Reqs -> Steps]
    /\ loc \in [Reqs -> LocType]
    /\ \A r \in Reqs : Fits(pc[r], loc[r])
    /\ \A g \in Folders : folders[g].exists =>
         folders[g].name \in Names /\ Full(folders[g].dir, folders[g].name) \in Paths

\* Request r will unlink the blob of f or insert the row that names it.
Holds(r, f) ==
    \/ pc[r] \in {"insert", "unsave"} /\ loc[r].file = f
    \/ pc[r] = "unlink" /\ f \in loc[r].paths

\* No blob is leaked: one that no row names is still in the hands of a request
\* (of the upload that is about to insert its row or to clean up after a failed
\* INSERT, or of a deletion that is about to unlink it).  True of the handlers
\* when DeleteFolderHandler is not among them, os.Remove does what it is asked to and
\* the process is not killed.
ContentAccounted ==
    \A f \in disk : Exists(f) \/ \E r \in Reqs : Holds(r, f)

\* A blob that no row names and no request knows.
Leaked(f) == f \in disk /\ ~Exists(f) /\ ~\E r \in Reqs : Holds(r, f)

\* The handler of r gives up the blob of f that it has failed to remove.
RemoveFails(r, f) ==
    \/ UploadSaveLitters(r, f)
    \/ UploadUnsaveFails(r) /\ loc[r].file = f
    \/ UnlinkFails(r, f)

\* Where space gets lost, folder deletions and kills included: a blob is leaked only
\* when the process is killed, when os.Remove fails to remove it, or when the trash
\* is emptied of a row whose path was not collected: it was put there afterwards, or
\* the query did not yield it.  Every other handler, failing or not, hands over what
\* it lets go of.
LeaksExplained ==
    [][\A f \in Files : (~Leaked(f) /\ Leaked(f)') =>
          \/ Crash
          \/ \E r \in Reqs : RemoveFails(r, f)
          \/ \E r \in Reqs : EmptyTrashPurge(r) /\ f \in Trashed \ loc[r].paths]_vars

\* A file that a listing shows can be downloaded: whatever the order of the
\* statements of concurrent uploads and deletions, and wherever the process is
\* killed, a live row has its blob.
LiveHasContent == \A f \in Files : Live(f) => f \in disk

\* The live files with the name of f in the folder of f, f among them.
Twins(f) ==
    {g \in Files : Live(g) /\ rows[g].dir = rows[f].dir /\ rows[g].name = rows[f].name}

\* The duplicate detection.  Its check and the INSERT or UPDATE that follows are
\* separate statements, so requests that overlap can give one name to several files;
\* but however long uploads, moves, deletions and kills go on, a folder never has more
\* live files of one name than the server handles requests at the same time, and with
\* one at a time names are unique.  (A restore does not check, nor does the move of a
\* folder, and a check that fails is passed over.)
TwinsBounded ==
    \A f \in Files : Live(f) => Cardinality(Twins(f)) <= Cardinality(Reqs)

PathOf(g) == Full(folders[g].dir, folders[g].name)

\* Moving or renaming a folder takes along the files that are directly in it and
\* in every folder below it: a file whose parent_path was the path of a folder
\* has the folder's new path as its parent_path once the folder's path changes.
FilesFollowFolder ==
    \A g \in Folders :
        (folders[g].exists /\ folders'[g].exists /\ PathOf(g)' # PathOf(g)) =>
            \A f \in Files :
                Exists(f) /\ rows[f].dir = PathOf(g) => rows'[f].dir = PathOf(g)'

\* What request r has read of the folder that it is about to move is still so.
Current(r) ==
    folders[loc[r].folder].exists /\ loc[r].full = PathOf(loc[r].folder)

SelfMove(r) == Under(loc[r].dir, loc[r].full)

\* Moves to a place outside of the moved folder take the contents along, whatever
\* other requests are doing, as long as the path that PatchFolderHandler has read
\* before its transaction has not changed since.  (A folder that is moved below
\* itself parts from them: the cascade finds the row that the transaction has just
\* set and rewrites it once more.)
ContentsFollowMove ==
    [][\A r \in Reqs :
         (PatchFolderCascade(r) /\ Current(r) /\ ~SelfMove(r)) => FilesFollowFolder]_vars

\* "Permanently deletes all soft-deleted files": once every request is over, no
\* file that emptying the trash has deleted is still on disk.
NothingLeftBehind ==
    (\A r \in Reqs : pc[r] = "idle") => \A f \in Files : rows[f].state = "gone" => f \notin disk

\* Emptying the trash reclaims the space: the blob of a file that is gone is
\* unlinked in the end, by the request that purged the row or by the one that
\* had put it in the trash.
Reclaimed == \A f \in Files : rows[f].state = "gone" ~> f \notin disk

\* The rows as FileCatalog sees them: FileStore implements FileCatalog.
Catalog == INSTANCE FileCatalog WITH status <- [f \in Files |-> rows[f].state]
CatalogSpec == Catalog!Spec
=============================================================================
