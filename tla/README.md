# My Personal Cloud in TLA+

TLA+ specifications of the server under `src/`: a Go program that keeps one
user's files on disk, their metadata in SQLite, and serves them over HTTP to a
React client, to gallery tiles and to the holders of public links. The modules
are translated from the code; TLC checks them on small instances and TLAPS proves
the main results for all values of the constants.

## 1. The system

### Parts, their state and their operations

| part | source | state | operations |
|---|---|---|---|
| database | `internal/db/db.go` | tables `users`, `files`, `folders`, `share_links`; the schema version | open with one connection and foreign keys; migrate in one transaction |
| blob store | `internal/storage/storage.go` | one file per uploaded blob, named by a uuid | `Save` (tries to remove what it wrote when the copy fails), `Open`, `Delete` (a missing blob is no error; its callers drop any other) |
| file service | `internal/files/files.go` | the rows of `files` and `folders`, the blobs | upload, rename/move, delete to trash, restore, empty trash; create, rename/move, delete folder; list, search, download |
| share links | `internal/shares/shares.go` | `share_links` | create, list, revoke; public visits: metadata, content |
| photo gallery | `internal/photos/photos.go` | the cache of thumbnails, the map `inflight` of mutexes | timeline, thumbnail, full image |
| backup, restore | `internal/backup/*.go` | the database file, the holder of the connection | make an archive; put one back and ask for a restart |
| server process | `cmd/server/main.go` | the restart channel, the listening socket | wire up, serve, shut down, start a successor |
| rate limiter | `internal/ratelimit/ratelimit.go` | per address, the times of recent requests | `Allow`, the purge every five minutes |
| authentication | `internal/auth/auth.go`, `web/src/auth.tsx` | `users`; tokens carry their own state; each browser stores one | ensure the admin, login, middleware, refresh; the browser's login, logout and load of a page |
| AI service | `internal/ai/*.go` | none | not constructed by `main.go` |
| MIME detection, configuration | `internal/mime`, `internal/config` | none | pure functions, read once |
| web client | `web/src` | what each page shows | file browser, gallery, shares, search, backup |

### How they interact

Every HTTP handler runs in a goroutine of its own. Handlers share the database, the
store and the thumbnail cache; there is no lock above those. The pool holds one
connection (`db.go:20-22`), so statements and transactions are serialised, but a
handler that uses several of them is interleaved with others between any two, and
what it has read may be stale when it is used. Rows and blobs are changed by
separate steps that no transaction spans. Deleting the row of a file or folder
clears the links to it (`ON DELETE SET NULL`). Restoring a backup replaces the
database under the other services, which keep the closed connection until the
process is replaced.

### What is hard, and what makes each part correct

`PROJECT.json` lists the hazards at their lines. In short:

- **Rows against blobs.** A live row needs its blob; a blob needs a row, or a request
  that knows it, or it is lost space. Uploads save, then insert; deletions mark, then
  unlink; folder deletions collect, then trash, then unlink; emptying the trash
  collects, then purges, then unlinks; any of them may be interrupted, and some of their errors are only logged, or dropped.
- **The tree.** A folder's path is text copied into every descendant; moves rewrite
  prefixes. Contents must follow their folder, and duplicate checks are separate
  from the statements they guard.
- **Links.** A visit is checked and counted by separate statements while the link is
  revoked, expires, is used up or loses its target.
- **Thumbnails.** Concurrent requests for one image, a mutex that is forgotten while
  others wait for it, a temporary file that two of them may share.
- **Backups and their restores.** The archive takes the database and the blobs one after the other while both
  change, and copies a file that SQLite goes on writing to; a restore is several non-atomic replacements under running requests, then a restart,
  of a process that has to open what is there.
- **Paths as text.** Go counts bytes where SQLite counts characters, and `LIKE` finds more than what lies below a folder.
- **The rate limiter.** The time of a request is taken before the mutex, so times come out of order to a list of which
  the purge looks at the last entry only.
- **Sessions.** A token is good until it expires or the server gets another secret; the pages of a browser share one,
  and each may forget it for the others.
- **Answers out of order in the client.**

## 2. The modules

| module | models | kind |
|---|---|---|
| `FileCatalog` | what the file service promises about the existence of files | abstract specification |
| `FileStore` | files, folders, blobs and every handler of `files.go` that changes them | detailed specification; implements `FileCatalog` |
| `MCFileStore` | symmetry sets for its runs | for TLC |
| `FileStore_proofs` | theorems about it | proofs |
| `FileTree_proofs` | theorems about its tree | proofs |
| `ShareLinks` | links, visits, the clock, and the catalogue of the files they point to | detailed specification; composes with `FileCatalog` by `INSTANCE` |
| `MCShareLinks` | the values clients send | for TLC |
| `ShareLinks_proofs` | theorems about it | proofs |
| `Thumbs` | the thumbnail cache and its locking | detailed specification |
| `MCThumbs` | the size of the pools of mutexes and files | for TLC |
| `Thumbs_proofs` | theorems about it | proofs |
| `Backup` | archives, their restoration, the connection, the restart and the supervisor, with uploads and deletions of files beside them | detailed specification |
| `Backup_proofs` | theorems about it | proofs |
| `RateLimiter` | the sliding window, the purge, the clock | detailed specification |
| `RateLimiter_proofs` | theorems about it | proofs |
| `Access` | login, tokens, a browser's session and restarts of the server, with the limiter before the login | detailed specification; extends and implements `RateLimiter` |
| `MCAccess` | the symmetry of the pages, and of the time of day | for TLC |
| `Access_proofs` | theorems about it | proofs |
| `PathCascade` | paths as strings; how folders are created, renamed, moved and deleted by them | detailed specification |
| `MCPathCascade` | an alphabet and names | for TLC |
| `PathCascade_proofs` | theorems about it | proofs |

`ShareLinks` uses `FileCatalog` in place of `FileStore`: its step `FilesChange` is any
step of the catalogue, and `ImplementsCatalog` proves that the file service takes no others.

In each module a request `r` has a program counter `pc[r]` and a record `loc[r]` of what its
handler keeps in local variables. One action stands for one database statement or
transaction, together with the pure code after it, or for one operation on the disk. An
action whose name ends in `_Something` and whose comment begins with "Fault", or whose name begins with `Fault_`, is a
plausible bug in the code it belongs to; no specification uses it, and each of them breaks
a property.

### FileStore and the code

| actions | handler | steps |
|---|---|---|
| `UploadCheck`, `UploadCheckFails`, `UploadSave`, `UploadSaveFails`, `UploadSaveLitters`, `UploadInsert`, `UploadInsertFails`, `UploadUnsave`, `UploadUnsaveFails` | `UploadHandler` | duplicate check, which passes when it fails; `Save`; `INSERT`; on failure remove the blob, if that succeeds |
| `PatchFileRead`, `PatchFileCheck`, `PatchFileCheckFails`, `PatchFileUpdate` | `PatchFileHandler` | read; duplicate check; `UPDATE` |
| `DeleteLookup`, `DeleteMark`, `Unlink`, `UnlinkFails` | `DeleteHandler` | lookup; mark as deleted; unlink |
| `Restore` | `RestoreHandler` | one statement |
| `EmptyTrashCollect`, `EmptyTrashPurge`, `Unlink`, `UnlinkFails` | `EmptyTrashHandler` | collect paths, those that are yielded (`Collected`); delete rows; unlink each |
| `CreateFolderCheck`, `CreateFolderCheckFails`, `CreateFolderInsert` | `CreateFolderHandler` | duplicate check; `INSERT` |
| `PatchFolderRead`, `PatchFolderCascade` | `PatchFolderHandler` | read; one transaction of three updates |
| `DeleteFolderRead`, `DeleteFolderCollect`, `DeleteFolderSweep`, `Unlink`, `UnlinkFails` | `DeleteFolderHandler` | read; collect paths; one transaction; unlink each |
| `StatementFails` | all | an error that ends the request between two steps |
| `Crash` | the process | every request is lost, tables and disk stay |

`rows` is the table `files` (`"live"`: `deleted_at` is null, `"trash"`: it is not, `"gone"`: the row was
deleted, `"none"`: not yet inserted), `folders` the table `folders`, `disk` the blobs.

What is abstracted. A path is the sequence of its names, so names with letters beyond ASCII,
with `%` or `_`, or that differ only in case are outside of this module: there the code
counts bytes where SQLite counts characters, and `LIKE` matches more than a prefix;
`PathCascade` is about those, with handlers that do not interleave. One identifier stands for the row and the blob of an upload, which draw a uuid each. A
statement that fails (in practice because the client has gone and its context is cancelled)
has no effect. There is one user, to whose rows every
statement is restricted. Reads (list, search, download) are left out: they change nothing.

Not every error ends the handler. The code logs a duplicate check that fails and writes all the same (`files.go:289`, `:437`, `:661`: `"check"`),
skips a row it cannot scan and does not ask whether the rows of a query ended early (`:597-603`, `:838-844`: `"scan"`), and drops the error of
`store.Delete` and of the `os.Remove` in `Save` (`:308`, `:483`, `:615`, `:893`, `storage.go:47`: `"remove"`). The constant `Ignored` says which of these
happen in an instance, because some properties hold without some of them only; each occurs in some passing run, and the theorems name those that must not.

### ShareLinks and the code

`CreateCheck` and `CreateInsert` are `CreateShare`; `Revoke` is `RevokeShare`; `VisitMetadata`,
`VisitContent`, `ResolveAgain`, `Lookup` and `Count` are `PublicShareRouter` with the handlers it calls;
`Valid` is the test of `resolveShare`. `FilesChange` and `FolderDeleted` delete what links point to, with the
foreign key's effect; `Tick` is the clock. A folder is a name only: the files a folder link lists are
any files, as `streamSharedFile` looks a file up by its id and nothing else (`shares.go:443-446`).

### Thumbs and the code

`Request` and `Serve` are `ThumbHandler`; `Load`, `Lock`, `Recheck`, `Decode`, `DecodeFails`, `Truncate`, `Write`,
`Rename`, `Unlock` and `Forget` are `generateThumb`, where `os.WriteFile` is its two effects (the file is
truncated, then written) and the deferred function its two statements. Files are inodes: a request
that has a file open writes to it whatever name it has by then. Two requests may generate
thumbnails of one image at once, because the mutex leaves the map while others wait for it: the comment at
`photos.go:47` does not hold, and the properties are about what must hold even so.

### Backup and the code

| actions | code | steps |
|---|---|---|
| `BackupBegin`, `BackupUnflushed`, `BackupCopy`, `BackupChunk`, `BackupList`, `BackupFile`, `BackupDone` | `CreateBackup`, `buildZip` | checkpoint, or a warning that it failed; copy the database; go on when it is written to meanwhile; list the store; copy file by file; seal and send |
| `RestoreBegin`, `RestoreTruncate`, `RestoreCopy`, `RestoreClose`, `RestoreReopen`, `RestoreBlob`, `RestoreFill`, `RestoreDone`, `RestoreSignal`, `RestoreFails` | `RestoreHandler`, `RestoreBackup`, `DBHolder.Replace` | validate; `os.Create` and `io.Copy` over the database; close; reopen; `os.Create` and `io.Copy` over each blob; answer; send to `RestartCh`; any error |
| `ShutdownBegin`, `Exec`, `Boot`, `BootFails`, `Crash` | `main` | `<-restartCh` and `Shutdown`; close, start the successor, exit; open; exit with 1 because a torn database does not open; a kill |
| `UploadSave`, `UploadInsert`, `UploadUnsave`, `DeleteMark`, `Unlink` | `files.go` | the steps of `FileStore` that matter here, one row and one blob at a time |

The database is two variables, `main` and `wal`, because the code touches the file behind SQLite's back: `BackupCopy` and `BackupChunk`
read only `main`, `RestoreTruncate` and `RestoreCopy` write only `main`. SQLite is external: `Commit`
appends to the log, `Checkpoint` moves it, and `CheckpointBreaks` is one that fails or is killed. A log that survives under a replaced file is `Torn`, and its
checkpoint may or may not spoil the file: SQLite does not define the outcome. A copy that is still being read when the file is written to has the new contents in full
(what was changed had not been read yet) or is torn; the field `mixed`, which no code has, remembers that a copy is torn for this reason. Of a blob a restore may have written the first part only: `stumps`.
`svc` is the connection the services were
given at the start, `hld` the one in the holder; they are one until the first `Replace` closes it.
`Supervisor` is what happens after the process: nothing (the successor lives on), systemd with `Restart=on-failure`,
or a supervisor that always restarts, as Docker's `unless-stopped`.

### RateLimiter, Access and the code

| actions | code | steps |
|---|---|---|
| `Arrive`, `Admit`, `Refuse` | `Allow`, `Middleware` | the address and the time; under the mutex: drop what is older than a window, compare, append |
| `Purge` | `loop`, `purge` | under the mutex: delete entries whose last time is two windows old |
| `Submit`, `Turned`, `LetThrough`, `WrongPassword`, `Grant`, `LoggedIn`, `Logout` | `Middleware`, `LoginHandler`, `Login`; `login` and `logout` of `auth.tsx` | the form is sent; 429; past the limiter; 401; the token is issued; it is stored; it is removed |
| `Load`, `Known`, `Unknown`, `Lost`, `Welcome`, `Rejected` | the effect of `AuthProvider`; `Middleware`, `MeHandler` | read the stored token and ask; yes; 401; no answer; `setUser`; `setToken(null)` |
| `Refresh`, `RefreshRefused` | `RefreshHandler` | by scripts: no page calls it |
| `Stop`, `Start`, `Background` | `main`, `config.Load` | the memory of the process is gone; a new secret unless one is set; purge and clock |

An entry of the limiter is a set of positions in `log`, the history of what was let through, because the order in
which times were appended matters to the purge. A token is the number of the secret it was signed with
and its expiry; `clock < exp` is the library's test. The action formulas of `Access` contain those of `RateLimiter`,
so the composition is by conjunction.

### PathCascade and the code

A path is a sequence of letters; `Wide` letters have two bytes, `Twins` differ in case, `Wild` is the underscore.
`Full` is `folderFullPath`, `Bytes` is `len`, `Under` the condition `parent_path = ? OR parent_path LIKE ?`, `Rebase` the
expression `? || SUBSTR(parent_path, ?)`. `Upload`, `CreateFolder`, `PatchFolder` and `DeleteFolder` are the handlers
as one step each, with what they do to the strings; `PatchFolder` sets the folder's own row before it cascades, as the transaction
does. Percent signs in names are left out: they match any string, which only adds to what the underscore shows.
Destinations are the root and the full paths of folders, which is what the web client offers.

## 3. What is checked

| run | bounds | shows |
|---|---|---|
| `lifecycle` | 2 files, 1 name, 3 requests, `"check"` and `"scan"` ignored; fairness | no leaked blob (`ContentAccounted`), implementation of the catalogue, purged blobs unlinked in the end (`Reclaimed`) |
| `sweep` | 3 files, 1 folder, 1 name, depth 2, 2 requests, `"scan"` and `"remove"` ignored, kills | a live row has its blob (`LiveHasContent`), how many live files may share a name (`TwinsBounded`), implementation of the catalogue, how blobs get lost (`LeaksExplained`) |
| `tree` | 1 file, 2 folders, 2 names, depth 2, 2 requests, `"check"` ignored | contents follow a moved folder unless the path that was read is stale (`ContentsFollowMove`) |
| `shares` | 1 file, 1 folder, 1 link, 2 requests, limits -1, 1, 2, two hours; fairness | the bound on views, no dangling link, closed links stay closed, revoked ones fall silent |
| `thumbs` | 1 image, 1 size, 3 requests; fairness | every request is answered, one that waits waits for one that works (`WaitersWaitForWork`), no stump and no temporary file stays |
| `backup` | 1 file, 2 requests, failures and kills, a supervisor that always restarts; fairness | an archive has every committed file, or is torn for a reason that is named (`NothingForgotten`), and has the content of its rows (`ArchivedContent`); only an error in a restore leaves the services without a connection for good (`StrandedOnlyByFailure`); a restore that succeeds ends in a restart, or in a database that no process can open (`Restarted`) |
| `access` | 1 address, 2 pages, 1 script, limit 2, window 3, lag 1, expiry 2, 1 restart with a new secret, time without a bound that is felt | the sliding window (`WindowBounded`), how long a refusal lasts (`RefusedForAWindow`), why a browser forgets a good token (`ForgottenWithReason`) |
| `cascade` | 1 file, 2 folders, 6 names over an alphabet of 5, paths of at most 5 characters | stored paths stay in normal form (`PathsWellFormed`); folders are renamed, moved and deleted with all of their descendants, and with nothing else, as far as the letters of their paths allow (`CascadeExact`, `DeletionExact`) |
| `restored`, `leak`, `no_restart`, `cascade_strings` | as small as the case allows | where the code does not do what its documentation says (`findings` in `PROJECT.json`) |

Why the bounds are enough. The leak needs three requests (an upload, a folder deletion and an
emptying) and one file; that is the run `leak`, and an emptying that has not collected what it purges occurs in `sweep` with two requests as well, beside kills
and blobs that cannot be removed. Two files let a request hold one while another changes the other, and three are one more than two requests may give one name. Depth 2
has a folder within a folder, so a cascade that forgets to recurse is noticed. Two requests are a folder move with another one that makes the path it has read stale. Two requests
suffice to pass a limit of views together, and the theorem covers the rest. Limits below, at
and above zero and lifetimes on both sides of the clamps are given. Three requests for
one thumbnail are a holder, one that waits and a newcomer; that requests for different images do not wait for each other is a matter of the theorem. The properties of `backup` speak of one file at a
time, and another file only makes the log non-empty, which the deletion of the same file does as well; two requests are
a backup with an upload, a deletion, a restore or another backup, and the theorems cover more. `MaxDepth`, `Horizon`, `ViewCap`,
`Mutexes`, `Inodes`, `MaxTime`, `MaxStarts` and `MaxLen` are bounds of the models only. In `access` a token can expire, be replaced and be cut off by a restart. What happens does not depend on
the time of day, so `MCAccess` gives TLC a `VIEW` in which states that differ by a shift of time are one, and what is older than two windows has no age any more. `MaxTime` then only has to be large: the run
finds the same 2,483,004 states for 12, 24 and 60. Entries become stale and are purged, while a client that waits has an older time; `Fault_Stale`, a purge that looks at the
first time of an entry and one window back, is noticed only because of that. A window of three units with a lag of one leaves two units, so that windows slide and overlap;
in `cascade` five characters hold a folder in a folder of each kind of letter with a file below both, and a name that is
a prefix of another. In `tree` a cascade beyond `MaxDepth` is left out, and
`MCThumbs` assumes that its pools never run out.

Scope of properties, where it matters:

- `ContentAccounted` is about the handlers other than folder deletion, without kills and without errors of `os.Remove`. `LeaksExplained` is about all of them: it names the three ways in which the
  code does lose a blob, a kill, an error of `os.Remove` that the handler drops, and an emptying of the trash that purges a row whose path it has not collected (run `leak`). `Reclaimed`, too, is about an
  `os.Remove` that does what it is asked to.
- `TwinsBounded` is what the duplicate checks are good for: they do not keep simultaneous requests from giving one name to several files, but no sequence of requests makes more of them than can be under
  way at a time. It is claimed where no check fails and no restores and folder moves are sent, which do not look for a live file of the name.
- `LiveHasContent` is about uploads, deletions and kills, not about restores (run `restored`) or moves, where a file
  moved out of a folder between the collection and the sweep loses its blob. What is left in the presence of both is `ContentStays` (section 4).
- `NothingForgotten` is weaker than the comment at `backup.go:164` ("so the main db file has all committed data"), since the code is. A backup whose copy is overtaken by an automatic checkpoint, or by that of
  another backup, can give a torn archive of a whole database, and so can one that copies what a broken checkpoint has left half-written; the property says that nothing else does. A backup whose own checkpoint failed goes on, and for it the property claims
  what the file had. A copy that is not torn has everything, whatever was written while it was made.
- `NothingForgotten` and `ArchivedContent` exclude archives that are finished by a server whose database was replaced and that has not restarted yet, or whose
  database is torn. A row may be in an archive without its blob when the two had
  parted on the server before (a stump is no blob: a restore may be rewriting it), or the file was deleted meanwhile.
- `Restarted` is about restores that were answered with success. One that fails after `Close` leaves the services
  without a connection and asks for no restart (hazard at `backup.go:374`); `StrandedOnlyByFailure` says that nothing else does, however restores overlap.
  Its second disjunct is a process that is started again and again on a torn database and exits each time (`main.go:44-48`): a second restore truncates the file while the new process starts, or the archive
  itself was torn. That this alone keeps the services from a new connection is what the property says. SQLite need not notice that a database is torn, so `Boot` may succeed on one.
- `ContentsFollowMove` is about moves to places outside of the moved folder whose path is, at the transaction, still the one that the handler has read
  before (`Current`). If another request has moved an ancestor in between, the folder and its contents do part: the two requests of the run get there, and that the condition suffices for any number of
  requests is a theorem (`MoveCorrect`). With one request at a time the path is never stale (`MoveAloneCorrect`).
- `WindowBounded` is about any `Window - Lag` units of the times that requests carry, `Lag` being the longest wait for the mutex. For a whole window
  it fails: a request with an older time may come after one with a newer time has dropped an entry that would have counted. Since the
  mutex is held for microseconds and the window is a minute, the difference does not matter in practice. It is about one process: a restart empties the limiter.
- `RefusedForAWindow` is what `Retry-After` tells the client. It holds because refused requests are not recorded.
- `ForgottenWithReason` names the reasons the code has, two of which a user would not expect: the page could not reach the server (a
  restart, the network), and the page asked with another token than the one that is stored now.
- `CascadeExact` and `DeletionExact` are about all folders, and say which letters of the folder's own path matter for what; the new path and those of other rows may
  be anything. A cascade loses no descendant if the old path is `Narrow` (letters of one byte), and a deletion loses none of any folder; neither reaches
  anything else if the path is `Literal` (no underscore and no letter that names use in both cases). For other folders the cascade does not keep to the prefix (run
  `cascade_strings`), and by the same condition the deletion of a folder `a_b` trashes, and unlinks the blobs of, what lies below `axb`.

Fairness. `FairSpec` is weak fairness of each request's `Continue`: a handler that can take its next step
takes it, because the Go runtime runs every goroutine that can run. Nothing obliges clients to
send requests. It is weak fairness of the whole handler, so failing is always a permitted way to go on. For a mutex,
weak fairness suffices although it is taken by others in between: those who wait for
one that has left the map are finitely many. `Backup` adds weak fairness of `ShutdownBegin` and `Exec`: the goroutine of `main` runs, and `Shutdown` ends after
five seconds at most; and of `Boot` where the database is whole: a process that was started opens it. On a torn one nothing is assumed. Kills are never obliged to happen or to stop.

## 4. What is proved

All theorems hold for every value of the constants, under the assumptions named in the modules
(`StoreAssumption`, `ShareAssumption`, `ThumbAssumption`, `BackupAssumption`, `LimiterAssumption`, `AccessAssumption`, `PathAssumption`).

- `FileStore_proofs!TypeCorrect` — `TypeOK` is inductive: it has what a request at a step may rely on in its locals (`Fits`).
- `ImplementsCatalog` — every step is a step of the catalogue or a stutter. It needs `PendingInv`: a
  file that an upload is about to insert has no row yet, has its blob, and belongs to that upload alone.
- `ContentStays` — for each file: if it is never restored and its path does not change while it is live (`LeftAlone`), it has its blob whenever it is live, whatever
  requests do to everything else and wherever the process is killed. "A live file has its blob" is not inductive: a request might be about to unlink it. The invariant
  `ContentOf` adds that what a request will unlink is not live, and that what a folder deletion has collected lies under the folder still, so that its sweep will trash it.
  `LiveContent`, the property of the run `sweep`, says it of all files where no restores and no moves are sent (`NoRestoreNoMove`).
- `BlobAccounted` — for each blob: as long as no step lets go of it (`LetsGo`: a kill while a request holds it, an `os.Remove` that fails on it, or a folder deletion that trashes its row without having
  collected its path), it is named by a row or held by a request. `AccountOf` replaces "has a row" by "is live": the blob of a row in the trash must be
  in the hands of a request already, since the row may be purged at any time by one that did not collect it. `NoContentLost` says it of all blobs, assuming no folder
  deletions, no kills and no errors of `os.Remove` (`NoSweepNoCrash`).
- `LeaksAreExplained` — with no such assumption, a blob is lost sight of in the three ways that `LeaksExplained` names: every step of a request that does not fail to remove it hands over what it lets go of (`HandsOver`).
- `TakenIsUnlinked`, `ReclaimedWhenQuiet` — what `Reclaimed` rests on: a request that has taken on a purged file's blob has unlinked it when it ends, and for good, without kills and errors of `os.Remove`.
- `ShareLinks_proofs!TypeCorrect`, `NoDanglingCorrect`, `ClosedCorrect` (a theorem about steps); from the last, `VisitorLeaves` and `ClosedFallsSilent`, what `RevokedFallsSilent`
  rests on: a visitor of a closed link is admitted no more when its request ends, and once all have ended the link counts no view ever again.
- `OverrunCorrect` — a limit is exceeded by at most the number of concurrent requests less one. The invariant `ViewInv` counts the admitted visits
  together with the views: views + admitted <= limit - 1 + requests.
- `Thumbs_proofs!TypeCorrect` — includes mutual exclusion by mutex, although mutexes come and go.
- `StumpsCorrect`, `NoLitterCorrect` — the invariant has to say of temporary files what it says of thumbnails, because two requests may share one.
- `WaitersCorrect` — `HolderInv` says that a locked mutex has a holder at work, `ImageInv` that whoever knows a mutex works on the image it was made for, also
  after it has left the map. Nobody who holds a mutex waits for another, so there is no deadlock.
- `Backup_proofs!TypeCorrect`, `NothingForgottenCorrect`, `ArchivedContentCorrect` — theorems about steps, from three invariants. `PendingInv`: no database,
  archive or request knows a file before its row is inserted, and a restore that is under way has replaced the file or closed the connection. `BackupInv`: what was committed
  when a backup began is deleted or in its copy, unless that is torn, and a row it copied lacks its blob, is done, or is still on its list. It holds at the
  listing for free, because the list is the whole store: that is why the code must copy the database first.
  `DamageInv`: if a copy is torn and not because the file was written to, the database file itself is torn, and its log does not make up for it, for as long as this process runs on a file that nobody has replaced;
  so an archive that is finished over a whole database is not torn, or torn for the reason that is named.
- `StrandedCorrect` — a theorem about steps: whoever closes the connection still has the restart to ask for, and only an error takes that from it.

- `RateLimiter_proofs!LimiterTypeCorrect`, `WindowCorrect`, `RefusedCorrect`. The invariant `LimiterInv` says of each entry what the purge and the dropping of old times
  may have taken from it: a time that was let through and is no longer in the entry is so old that no request that waits, or will come, can have it in its window
  less the lag; it also ties the time of the first refusal to the entry.
- `Access_proofs!LimiterImplemented` — every step of `Access` is a step of the limiter or a stutter, so `LoginsBounded` and `LoginsRetried` follow from the
  limiter's theorems. `AccessTypeCorrect` and `ForgottenCorrect` rest on `AccessInv`: no token carries a secret that is yet to come, and a page that was
  told that its token is not good holds one that will not become good again.
- `PathCascade_proofs!WellFormedCorrect`, `CascadeCorrect`, `DeletionCorrect` — whatever `Rebase` cuts off always leaves a path in normal form. Whatever descends from a folder lies
  `Under` it (`DescendsUnder`), for a literal path nothing else does (`LiteralUnder`), and for a narrow one `Bytes` is the length (`NarrowBytes`), so that
  `Rebase` replaces the prefix. `PlainNames`: where all letters are narrow and literal, the code's comment holds without reservation.
  That is the reach of `FileStore`, whose paths are sequences of names.

- `FileTree_proofs!MoveCorrect` — with any number of requests and kills, for trees of any depth. It is about sequences:
  rewriting the prefix of a path commutes with appending a name (`RebaseBelow`), so what is at any depth below a folder is rewritten as the folder is.
- `MoveAloneCorrect` — assuming that requests come one at a time (`OneAtATime`), contents follow every move to a place outside of the folder: the path that was read is still so (`CurrentInv`).
- `TwinsCorrect` — for any finite number of requests, with kills, where checks do not fail and nobody sends restores and folder moves (`ChecksPass`). A bound on the live files of a name is not inductive: requests that
  have passed their check are on their way to make more. `RoomInv` counts the files that have the name, or are being given it, and keeps one more request for each upload that comes: an upload that inserts its
  row trades itself for a file, and one whose check passes finds no live file of the name, so that only other requests have taken any room.

Every safety property of a passing run is stated by a theorem. Only model-checked: liveness from fairness (`Reclaimed`, `RevokedFallsSilent`, `Answered`, `Restarted`),
for which the prover would need `ENABLED`. `TakenIsUnlinked`, `ReclaimedWhenQuiet`, `VisitorLeaves` and `ClosedFallsSilent` take what fairness is there to give as a hypothesis,
that a request ends, or the server is quiet, again and again, and prove the rest for all values of the constants. `Answered` and `Restarted` have no such part: that the request ends
is what they say.

## 5. Not modelled

- The file browser (`FilesPage.tsx`) and the gallery's paging: they show what the server answered, possibly late or of another folder; the server
  checks again whatever they send. The hazard of answers out of order is listed at its line without a property. Whether the gallery loads its second page depends on
  when React draws the element its observer watches (`GalleryPage.tsx:44`), and the models have no rendering.
- The migrations: one transaction, before the server listens.
- `EnsureUser`: once, before the server listens; `Access` begins after it.
- The AI service: `main.go` does not construct it, and the table `file_embeddings` and the column `ai_indexed` its statements use are in none of the migrations.
- What concurrent edits of the same row give (two moves, a move and a rename): the code lets the last one win, with what it had read; nothing says what should happen.
- `FileStore` and `Backup` composed, so that a restored snapshot contains folders and links.
- Encryption, MIME sniffing and rendering, which compute and keep no state; Caddy, Docker and systemd except as the environment of `Backup`.
