-------------------------- MODULE FileStore_proofs -------------------------
(***************************************************************************)
(* What holds of FileStore for all files, folders, names and requests.      *)
(***************************************************************************)
EXTENDS FileStore, TLAPS

----------------------------------------------------------------------------
(* What the steps leave alone                                               *)

\* Beginning a request, only a restore writes.
LEMMA BeginEffect ==
  ASSUME NEW r \in Reqs, Begin(r)
  PROVE  /\ disk' = disk /\ folders' = folders
         /\ rows' = rows \/ \E f \in Files : Restore(r, f)
  BY DEF Begin, UploadCheck, UploadCheckFails, CreateFolderCheck, CreateFolderCheckFails,
         PatchFileRead, PatchFolderRead, DeleteLookup, Restore, EmptyTrashCollect,
         DeleteFolderRead

\* The later steps that write to the table files.
LEMMA ContinueEffect ==
  ASSUME NEW r \in Reqs, Continue(r)
  PROVE  \/ rows' = rows
         \/ UploadInsert(r) \/ PatchFileUpdate(r) \/ DeleteMark(r) \/ EmptyTrashPurge(r)
         \/ PatchFolderCascade(r) \/ DeleteFolderSweep(r)
  BY DEF Continue, UploadSave, UploadSaveLitters, UploadSaveFails, UploadInsertFails,
         UploadUnsave, UploadUnsaveFails, PatchFileCheck, PatchFileCheckFails,
         CreateFolderInsert, DeleteFolderCollect, Unlink, UnlinkFails, StatementFails

\* A blob appears under an id that is new.
LEMMA BlobEffect ==
  ASSUME NEW r \in Reqs, Continue(r)
  PROVE  disk' \subseteq disk \/ \E f \in Files : Fresh(f) /\ disk' = disk \cup {f}
  BY DEF Continue, UploadSave, UploadSaveLitters, UploadSaveFails, UploadInsert,
         UploadInsertFails, UploadUnsave, UploadUnsaveFails, PatchFileCheck,
         PatchFileCheckFails, PatchFileUpdate, DeleteMark, EmptyTrashPurge,
         CreateFolderInsert, PatchFolderCascade, DeleteFolderCollect, DeleteFolderSweep,
         Unlink, UnlinkFails, StatementFails

\* Steps that end the request and touch neither rows nor blobs.
LEMMA Enders ==
  ASSUME NEW r \in Reqs,
         UploadSaveFails(r) \/ UploadUnsaveFails(r) \/ StatementFails(r)
           \/ \E g \in Folders : CreateFolderInsert(r, g)
  PROVE  Finish(r) /\ rows' = rows /\ disk' = disk
  BY DEF UploadSaveFails, UploadUnsaveFails, StatementFails, CreateFolderInsert

----------------------------------------------------------------------------
(* Type correctness.  TypeOK is inductive; its half about the requests is   *)
(* kept by every step that sends a request to a step its locals fit.        *)

LocalOK ==
    /\ pc \in [Reqs -> Steps]
    /\ loc \in [Reqs -> LocType]
    /\ \A r \in Reqs : Fits(pc[r], loc[r])

StoreOK ==
    /\ rows \in [Files -> RowType]
    /\ folders \in [Folders -> FolderType]
    /\ disk \subseteq Files
    /\ \A g \in Folders : folders[g].exists =>
         folders[g].name \in Names /\ Full(folders[g].dir, folders[g].name) \in Paths

LEMMA TypeSplit ==
  /\ TypeOK <=> StoreOK /\ LocalOK
  /\ TypeOK' <=> StoreOK' /\ LocalOK'
  BY DEF TypeOK, StoreOK, LocalOK

LEMMA EmptyPath == <<>> \in Paths
  BY StoreAssumption DEF Paths

LEMMA GotoType ==
  ASSUME LocalOK, NEW r \in Reqs, NEW step \in Steps, NEW l \in LocType,
         Fits(step, l), Goto(r, step, l)
  PROVE  LocalOK'
  BY DEF LocalOK, Goto

LEMMA FinishType ==
  ASSUME LocalOK, NEW r \in Reqs, Finish(r)
  PROVE  LocalOK'
  <1>1. NoLoc \in LocType /\ Fits("idle", NoLoc)
    BY EmptyPath DEF NoLoc, LocType, Fits
  <1> QED
    BY <1>1, GotoType DEF Finish, Steps

LEMMA UnlinkAllType ==
  ASSUME LocalOK, NEW r \in Reqs, NEW S \in SUBSET Files, UnlinkAll(r, S)
  PROVE  LocalOK'
  <1>1. CASE S = {}
    BY <1>1, FinishType DEF UnlinkAll
  <1>2. CASE S # {}
    <2> DEFINE l == [NoLoc EXCEPT !.paths = S]
    <2>1. l \in LocType /\ Fits("unlink", l)
      BY <1>2, EmptyPath DEF NoLoc, LocType, Fits
    <2>2. Goto(r, "unlink", l)
      BY <1>2 DEF UnlinkAll
    <2> QED
      BY <2>1, <2>2, GotoType DEF Steps
  <1> QED
    BY <1>1, <1>2

\* The first statement of each request.
LEMMA BeginType ==
  ASSUME TypeOK, NEW r \in Reqs, Begin(r)
  PROVE  TypeOK'
  <1> USE TypeSplit
  <1>1. ASSUME NEW d \in Paths, NEW n \in Names,
               UploadCheck(r, d, n) \/ UploadCheckFails(r, d, n)
        PROVE  TypeOK'
    <2> DEFINE l == [NoLoc EXCEPT !.dir = d, !.name = n]
    <2>1. l \in LocType /\ Fits("save", l)
      BY EmptyPath DEF NoLoc, LocType, Fits
    <2>2. LocalOK'
      BY <1>1, <2>1, GotoType DEF UploadCheck, UploadCheckFails, Steps
    <2>3. StoreOK'
      BY <1>1 DEF UploadCheck, UploadCheckFails, StoreOK
    <2> QED
      BY <2>2, <2>3
  <1>2. ASSUME NEW d \in Paths, NEW n \in Names,
               CreateFolderCheck(r, d, n) \/ CreateFolderCheckFails(r, d, n)
        PROVE  TypeOK'
    <2> DEFINE l == [NoLoc EXCEPT !.dir = d, !.name = n]
    <2>1. l \in LocType /\ Fits("insertFolder", l)
      BY <1>2, EmptyPath DEF NoLoc, LocType, Fits, CreateFolderCheck, CreateFolderCheckFails
    <2>2. LocalOK'
      BY <1>2, <2>1, GotoType DEF CreateFolderCheck, CreateFolderCheckFails, Steps
    <2>3. StoreOK'
      BY <1>2 DEF CreateFolderCheck, CreateFolderCheckFails, StoreOK
    <2> QED
      BY <2>2, <2>3
  <1>3. ASSUME NEW d \in Paths, NEW n \in Names, NEW f \in Files, PatchFileRead(r, f, d, n)
        PROVE  TypeOK'
    <2> DEFINE l == [NoLoc EXCEPT !.file = f, !.dir = d, !.name = n]
    <2>1. l \in LocType /\ Fits("updateFile", l) /\ Fits("checkMove", l)
      BY EmptyPath DEF NoLoc, LocType, Fits
    <2>2. LocalOK'
      BY <1>3, <2>1, GotoType DEF PatchFileRead, Steps
    <2>3. StoreOK'
      BY <1>3 DEF PatchFileRead, StoreOK
    <2> QED
      BY <2>2, <2>3
  <1>4. ASSUME NEW d \in Paths, NEW n \in Names, NEW g \in Folders,
               PatchFolderRead(r, g, d, n)
        PROVE  TypeOK'
    <2> DEFINE l == [NoLoc EXCEPT !.folder = g, !.dir = d, !.name = n,
                                  !.full = Full(folders[g].dir, folders[g].name)]
    <2>1. l \in LocType /\ Fits("cascade", l)
      BY <1>4, EmptyPath DEF NoLoc, LocType, Fits, PatchFolderRead, StoreOK
    <2>2. LocalOK'
      BY <1>4, <2>1, GotoType DEF PatchFolderRead, Steps
    <2>3. StoreOK'
      BY <1>4 DEF PatchFolderRead, StoreOK
    <2> QED
      BY <2>2, <2>3
  <1>5. ASSUME NEW f \in Files, DeleteLookup(r, f)
        PROVE  TypeOK'
    <2> DEFINE l == [NoLoc EXCEPT !.file = f]
    <2>1. l \in LocType /\ Fits("mark", l)
      BY EmptyPath DEF NoLoc, LocType, Fits
    <2>2. LocalOK'
      BY <1>5, <2>1, GotoType DEF DeleteLookup, Steps
    <2>3. StoreOK'
      BY <1>5 DEF DeleteLookup, StoreOK
    <2> QED
      BY <2>2, <2>3
  <1>6. ASSUME NEW f \in Files, Restore(r, f)
        PROVE  TypeOK'
    <2>1. LocalOK'
      BY <1>6 DEF Restore, LocalOK
    <2>2. StoreOK'
      BY <1>6 DEF Restore, StoreOK, RowType
    <2> QED
      BY <2>1, <2>2
  <1>7. ASSUME EmptyTrashCollect(r)
        PROVE  TypeOK'
    <2>1. PICK S \in SUBSET Files : Goto(r, "purge", [NoLoc EXCEPT !.paths = S])
      BY <1>7 DEF EmptyTrashCollect, Collected, Trashed
    <2> DEFINE l == [NoLoc EXCEPT !.paths = S]
    <2>2. LocalOK'
      <3>1. l \in LocType /\ Fits("purge", l)
        BY EmptyPath DEF NoLoc, LocType, Fits
      <3> QED
        BY <2>1, <3>1, GotoType DEF Steps
    <2>3. StoreOK'
      BY <1>7 DEF EmptyTrashCollect, StoreOK
    <2> QED
      BY <2>2, <2>3
  <1>8. ASSUME NEW g \in Folders, DeleteFolderRead(r, g)
        PROVE  TypeOK'
    <2> DEFINE l == [NoLoc EXCEPT !.folder = g,
                                  !.full = Full(folders[g].dir, folders[g].name)]
    <2>1. l \in LocType /\ Fits("collect", l)
      BY <1>8, EmptyPath DEF NoLoc, LocType, Fits, DeleteFolderRead, StoreOK
    <2>2. LocalOK'
      BY <1>8, <2>1, GotoType DEF DeleteFolderRead, Steps
    <2>3. StoreOK'
      BY <1>8 DEF DeleteFolderRead, StoreOK
    <2> QED
      BY <2>2, <2>3
  <1> QED
    BY <1>1, <1>2, <1>3, <1>4, <1>5, <1>6, <1>7, <1>8 DEF Begin

\* The transaction of PatchFolderHandler.
LEMMA CascadeType ==
  ASSUME TypeOK, NEW r \in Reqs, PatchFolderCascade(r)
  PROVE  TypeOK'
  <1> USE TypeSplit
  <1> DEFINE l == loc[r]
             own == Renamed(l.folder, l.dir, l.name)
             new == CascadeFolders(l.folder, l.dir, l.name, l.full)
  <1>1. /\ l.folder \in Folders /\ l.name \in Names /\ l.dir \in Paths
        /\ \A f \in Files : rows'[f].dir \in Paths
        /\ \A g \in Folders : new[g].exists =>
             new[g].dir \in Paths /\ Full(new[g].dir, new[g].name) \in Paths
        /\ rows' = CascadeFiles(l.full, Full(l.dir, l.name))
        /\ folders' = new
        /\ Finish(r) /\ disk' = disk
    BY DEF PatchFolderCascade, LocalOK, Fits, LocType, At
  <1>2. rows' \in [Files -> RowType]
    <2>1. \A f \in Files : rows'[f] = [rows[f] EXCEPT !.dir = rows'[f].dir]
      BY <1>1 DEF CascadeFiles, StoreOK, RowType
    <2>2. rows' = [f \in Files |-> [rows[f] EXCEPT !.dir = rows'[f].dir]]
      BY <1>1, <2>1 DEF CascadeFiles
    <2> QED
      BY <1>1, <2>1, <2>2 DEF StoreOK, RowType
  <1>3. /\ own \in [Folders -> FolderType]
        /\ \A g \in Folders : own[g].exists => own[g].name \in Names
    <2>1. CASE own = folders
      BY <2>1 DEF StoreOK
    <2>2. CASE own # folders
      <3>1. own = [folders EXCEPT ![l.folder] = [folders[l.folder] EXCEPT !.name = l.name, !.dir = l.dir]]
        BY <2>2 DEF Renamed
      <3>2. folders[l.folder].exists
        BY <2>2 DEF Renamed
      <3>3. /\ [folders[l.folder] EXCEPT !.name = l.name, !.dir = l.dir] \in FolderType
            /\ [folders[l.folder] EXCEPT !.name = l.name, !.dir = l.dir].name = l.name
        BY <1>1 DEF StoreOK, FolderType
      <3> QED
        BY <1>1, <3>1, <3>3 DEF StoreOK
    <2> QED
      BY <2>1, <2>2
  <1>4. /\ new = [g \in Folders |-> new[g]]
        /\ \A g \in Folders : new[g] = [own[g] EXCEPT !.dir = new[g].dir]
        /\ \A g \in Folders : ~own[g].exists => new[g] = own[g]
    BY <1>3 DEF CascadeFolders, FolderType
  <1>5. \A g \in Folders : new[g] \in FolderType
    <2> TAKE g \in Folders
    <2>1. CASE own[g].exists
      <3>1. new[g].exists
        BY <1>3, <1>4, <2>1 DEF FolderType
      <3> QED
        BY <1>1, <1>3, <1>4, <3>1 DEF FolderType
    <2>2. CASE ~own[g].exists
      BY <1>3, <1>4, <2>2
    <2> QED
      BY <2>1, <2>2
  <1>6. \A g \in Folders : folders'[g].exists =>
          folders'[g].name \in Names /\ Full(folders'[g].dir, folders'[g].name) \in Paths
    BY <1>1, <1>3, <1>4 DEF FolderType
  <1>7. StoreOK'
    BY <1>1, <1>2, <1>4, <1>5, <1>6 DEF StoreOK
  <1> QED
    BY <1>1, <1>7, FinishType

\* The later steps of each request.
LEMMA ContinueType ==
  ASSUME TypeOK, NEW r \in Reqs, Continue(r)
  PROVE  TypeOK'
  <1> USE TypeSplit
  <1>1. ASSUME NEW f \in Files, UploadSave(r, f)
        PROVE  TypeOK'
    <2> DEFINE l == [loc[r] EXCEPT !.file = f]
    <2>1. l \in LocType /\ Fits("insert", l)
      BY <1>1 DEF UploadSave, At, LocalOK, LocType, Fits
    <2>2. LocalOK'
      BY <1>1, <2>1, GotoType DEF UploadSave, Steps
    <2>3. StoreOK'
      BY <1>1 DEF UploadSave, StoreOK
    <2> QED
      BY <2>2, <2>3
  <1>2. ASSUME NEW f \in Files, Unlink(r, f) \/ UnlinkFails(r, f)
        PROVE  TypeOK'
    <2>1. loc[r].paths \ {f} \in SUBSET Files
      BY DEF LocalOK, LocType
    <2>2. LocalOK'
      BY <1>2, <2>1, UnlinkAllType DEF Unlink, UnlinkFails
    <2>3. StoreOK'
      BY <1>2 DEF Unlink, UnlinkFails, StoreOK
    <2> QED
      BY <2>2, <2>3
  <1>3. ASSUME \/ UploadSaveFails(r) \/ UploadUnsaveFails(r) \/ StatementFails(r)
               \/ \E f \in Files : UploadSaveLitters(r, f)
        PROVE  TypeOK'
    <2> USE DEF UploadSaveFails, UploadUnsaveFails, StatementFails, UploadSaveLitters
    <2>1. LocalOK'
      BY <1>3, FinishType
    <2>2. StoreOK'
      BY <1>3 DEF StoreOK
    <2> QED
      BY <2>1, <2>2
  <1>4. ASSUME UploadInsert(r)
        PROVE  TypeOK'
    <2>1. LocalOK'
      BY <1>4, FinishType DEF UploadInsert
    <2>2. loc[r].file \in Files /\ loc[r].name \in Names /\ loc[r].dir \in Paths
      BY <1>4 DEF UploadInsert, At, LocalOK, LocType, Fits
    <2>3. StoreOK'
      BY <1>4, <2>2 DEF UploadInsert, StoreOK, RowType
    <2> QED
      BY <2>1, <2>3
  <1>5. ASSUME UploadInsertFails(r)
        PROVE  TypeOK'
    <2>1. loc[r] \in LocType /\ Fits("unsave", loc[r])
      BY <1>5 DEF UploadInsertFails, At, LocalOK, Fits
    <2>2. LocalOK'
      BY <1>5, <2>1, GotoType DEF UploadInsertFails, Steps
    <2>3. StoreOK'
      BY <1>5 DEF UploadInsertFails, StoreOK
    <2> QED
      BY <2>2, <2>3
  <1>6. ASSUME UploadUnsave(r)
        PROVE  TypeOK'
    <2>1. LocalOK'
      BY <1>6, FinishType DEF UploadUnsave
    <2>2. StoreOK'
      BY <1>6 DEF UploadUnsave, StoreOK
    <2> QED
      BY <2>1, <2>2
  <1>7. ASSUME PatchFileCheck(r) \/ PatchFileCheckFails(r)
        PROVE  TypeOK'
    <2> USE DEF PatchFileCheck, PatchFileCheckFails
    <2>1. loc[r] \in LocType /\ Fits("updateFile", loc[r])
      BY <1>7 DEF At, LocalOK, Fits
    <2>2. LocalOK'
      BY <1>7, <2>1, GotoType, FinishType DEF Steps
    <2>3. StoreOK'
      BY <1>7 DEF StoreOK
    <2> QED
      BY <2>2, <2>3
  <1>8. ASSUME PatchFileUpdate(r)
        PROVE  TypeOK'
    <2>1. LocalOK'
      BY <1>8, FinishType DEF PatchFileUpdate
    <2>2. loc[r].file \in Files /\ loc[r].name \in Names /\ loc[r].dir \in Paths
      BY <1>8 DEF PatchFileUpdate, At, LocalOK, LocType, Fits
    <2>3. StoreOK'
      BY <1>8, <2>2 DEF PatchFileUpdate, StoreOK, RowType
    <2> QED
      BY <2>1, <2>3
  <1>9. ASSUME DeleteMark(r)
        PROVE  TypeOK'
    <2>1. loc[r].file \in Files
      BY <1>9 DEF DeleteMark, At, LocalOK, Fits
    <2>2. LocalOK'
      BY <1>9, <2>1, UnlinkAllType DEF DeleteMark
    <2>3. StoreOK'
      BY <1>9, <2>1 DEF DeleteMark, StoreOK, RowType
    <2> QED
      BY <2>2, <2>3
  <1>10. ASSUME EmptyTrashPurge(r)
         PROVE  TypeOK'
    <2>1. loc[r].paths \in SUBSET Files
      BY DEF LocalOK, LocType
    <2>2. LocalOK'
      BY <1>10, <2>1, UnlinkAllType DEF EmptyTrashPurge
    <2>3. StoreOK'
      BY <1>10, EmptyPath DEF EmptyTrashPurge, StoreOK, RowType
    <2> QED
      BY <2>2, <2>3
  <1>11. ASSUME NEW g \in Folders, CreateFolderInsert(r, g)
         PROVE  TypeOK'
    <2>1. LocalOK'
      BY <1>11, FinishType DEF CreateFolderInsert
    <2>2. /\ loc[r].name \in Names /\ loc[r].dir \in Paths
          /\ Full(loc[r].dir, loc[r].name) \in Paths
      BY <1>11 DEF CreateFolderInsert, At, LocalOK, LocType, Fits
    <2>3. StoreOK'
      BY <1>11, <2>2 DEF CreateFolderInsert, StoreOK, FolderType
    <2> QED
      BY <2>1, <2>3
  <1>12. ASSUME PatchFolderCascade(r)
         PROVE  TypeOK'
    BY <1>12, CascadeType
  <1>13. ASSUME DeleteFolderCollect(r)
         PROVE  TypeOK'
    <2>1. PICK S \in SUBSET Files : Goto(r, "sweep", [loc[r] EXCEPT !.paths = S])
      BY <1>13 DEF DeleteFolderCollect, Collected, FilesUnder
    <2> DEFINE l == [loc[r] EXCEPT !.paths = S]
    <2>2. LocalOK'
      <3>1. l \in LocType /\ Fits("sweep", l)
        BY <1>13 DEF DeleteFolderCollect, At, LocalOK, LocType, Fits
      <3> QED
        BY <2>1, <3>1, GotoType DEF Steps
    <2>3. StoreOK'
      BY <1>13 DEF DeleteFolderCollect, StoreOK
    <2> QED
      BY <2>2, <2>3
  <1>14. ASSUME DeleteFolderSweep(r)
         PROVE  TypeOK'
    <2>1. loc[r].paths \in SUBSET Files
      BY DEF LocalOK, LocType
    <2>2. LocalOK'
      BY <1>14, <2>1, UnlinkAllType DEF DeleteFolderSweep
    <2>3. rows' \in [Files -> RowType]
      BY <1>14 DEF DeleteFolderSweep, StoreOK, RowType
    <2>4. folders' \in [Folders -> FolderType]
      BY <1>14, EmptyPath DEF DeleteFolderSweep, SweepFolders, StoreOK, FolderType, NoFolder
    <2>5. \A g \in Folders : folders'[g].exists => folders'[g] = folders[g]
      BY <1>14 DEF DeleteFolderSweep, SweepFolders, NoFolder
    <2>6. StoreOK'
      BY <1>14, <2>3, <2>4, <2>5 DEF DeleteFolderSweep, StoreOK
    <2> QED
      BY <2>2, <2>6
  <1> QED
    BY <1>1, <1>2, <1>3, <1>4, <1>5, <1>6, <1>7, <1>8, <1>9, <1>10, <1>11,
       <1>12, <1>13, <1>14 DEF Continue

LEMMA InitType == Init => TypeOK
  <1>1. NoLoc \in LocType /\ Fits("idle", NoLoc)
    BY EmptyPath DEF NoLoc, LocType, Fits
  <1>2. ASSUME Init
        PROVE  TypeOK
    BY <1>1, <1>2, EmptyPath DEF Init, TypeOK, RowType, FolderType, NoFolder, Steps
  <1> QED
    BY <1>2

LEMMA NextType == TypeOK /\ [Next]_vars => TypeOK'
  <1> SUFFICES ASSUME TypeOK, [Next]_vars
               PROVE  TypeOK'
    OBVIOUS
  <1>1. ASSUME NEW r \in Reqs, Begin(r)
        PROVE  TypeOK'
    BY <1>1, BeginType
  <1>2. ASSUME NEW r \in Reqs, Continue(r)
        PROVE  TypeOK'
    BY <1>2, ContinueType
  <1>3. CASE Crash
    <2>1. NoLoc \in LocType /\ Fits("idle", NoLoc)
      BY EmptyPath DEF NoLoc, LocType, Fits
    <2> QED
      BY <1>3, <2>1 DEF Crash, TypeOK, Steps
  <1>4. CASE UNCHANGED vars
    BY <1>4 DEF vars, TypeOK
  <1> QED
    BY <1>1, <1>2, <1>3, <1>4 DEF Next

\* The variables are well typed, every request that unlinks has something left to
\* unlink, and no folder's path exceeds the bound, whatever clients ask for.
THEOREM TypeCorrect == Spec => []TypeOK
  <1>1. Init => TypeOK
    BY InitType
  <1>2. TypeOK /\ [Next]_vars => TypeOK'
    BY NextType
  <1> QED
    BY <1>1, <1>2, PTL DEF Spec

----------------------------------------------------------------------------
(* What a step does to the requests *)

LEMMA GotoLocals ==
  ASSUME TypeOK, NEW r \in Reqs, NEW step, NEW l, Goto(r, step, l)
  PROVE  /\ pc'[r] = step /\ loc'[r] = l
         /\ \A q \in Reqs \ {r} : pc'[q] = pc[q] /\ loc'[q] = loc[q]
  BY DEF TypeOK, Goto

LEMMA FinishLocals ==
  ASSUME TypeOK, NEW r \in Reqs, Finish(r)
  PROVE  /\ pc'[r] = "idle" /\ loc'[r] = NoLoc /\ loc'[r].paths = {}
         /\ \A q \in Reqs \ {r} : pc'[q] = pc[q] /\ loc'[q] = loc[q]
  <1>1. pc'[r] = "idle" /\ loc'[r] = NoLoc
        /\ \A q \in Reqs \ {r} : pc'[q] = pc[q] /\ loc'[q] = loc[q]
    BY GotoLocals DEF Finish
  <1> QED
    BY <1>1 DEF NoLoc

LEMMA UnlinkAllLocals ==
  ASSUME TypeOK, NEW r \in Reqs, NEW S, UnlinkAll(r, S)
  PROVE  /\ loc'[r].paths = S
         /\ pc'[r] = IF S = {} THEN "idle" ELSE "unlink"
         /\ \A q \in Reqs \ {r} : pc'[q] = pc[q] /\ loc'[q] = loc[q]
  <1>1. CASE S = {}
    BY <1>1, FinishLocals DEF UnlinkAll
  <1>2. CASE S # {}
    <2>1. Goto(r, "unlink", [NoLoc EXCEPT !.paths = S])
      BY <1>2 DEF UnlinkAll
    <2> QED
      BY <1>2, <2>1, GotoLocals DEF NoLoc
  <1> QED
    BY <1>1, <1>2

\* A request that has begun holds no blob yet.
LEMMA BeginLocals ==
  ASSUME TypeOK, NEW r \in Reqs, Begin(r)
  PROVE  /\ pc[r] = "idle"
         /\ pc'[r] \in {"idle", "save", "insertFolder", "checkMove", "updateFile", "mark",
                        "cascade", "collect", "purge"}
         /\ pc'[r] = "idle" => loc'[r] = loc[r]
         /\ pc'[r] = "mark" => \E f \in Files : loc'[r].file = f /\ Exists(f) /\ rows' = rows
         /\ IF pc'[r] = "purge" THEN rows' = rows /\ loc'[r].paths \subseteq Trashed
                                ELSE loc'[r].paths = {}
         /\ \A q \in Reqs \ {r} : pc'[q] = pc[q] /\ loc'[q] = loc[q]
  <1> DEFINE Plain == /\ pc[r] = "idle"
                      /\ pc'[r] \in {"save", "insertFolder", "checkMove", "updateFile",
                                     "cascade", "collect"}
                      /\ loc'[r].paths = {}
                      /\ \A q \in Reqs \ {r} : pc'[q] = pc[q] /\ loc'[q] = loc[q]
  <1>1. ASSUME NEW step \in {"save", "insertFolder", "checkMove", "updateFile", "cascade",
                             "collect"},
               NEW l, l.paths = {}, pc[r] = "idle", Goto(r, step, l)
        PROVE  Plain
    BY <1>1, GotoLocals
  <1> HIDE DEF Plain
  <1>2. ASSUME NEW d \in Paths, NEW n \in Names,
               \/ UploadCheck(r, d, n) \/ UploadCheckFails(r, d, n)
               \/ CreateFolderCheck(r, d, n) \/ CreateFolderCheckFails(r, d, n)
        PROVE  Plain
    <2> DEFINE l == [NoLoc EXCEPT !.dir = d, !.name = n]
    <2>1. \E step \in {"save", "insertFolder"} : pc[r] = "idle" /\ Goto(r, step, l)
      BY <1>2 DEF UploadCheck, UploadCheckFails, CreateFolderCheck, CreateFolderCheckFails,
                  Start
    <2>2. l.paths = {}
      BY DEF NoLoc
    <2> HIDE DEF l
    <2> QED
      BY <1>1, <2>1, <2>2
  <1>3. ASSUME NEW d \in Paths, NEW n \in Names, NEW f \in Files, PatchFileRead(r, f, d, n)
        PROVE  Plain
    <2> DEFINE l == [NoLoc EXCEPT !.file = f, !.dir = d, !.name = n]
    <2>1. \E step \in {"updateFile", "checkMove"} : pc[r] = "idle" /\ Goto(r, step, l)
      BY <1>3 DEF PatchFileRead, Start
    <2>2. l.paths = {}
      BY DEF NoLoc
    <2> HIDE DEF l
    <2> QED
      BY <1>1, <2>1, <2>2
  <1>4. ASSUME NEW d \in Paths, NEW n \in Names, NEW g \in Folders, PatchFolderRead(r, g, d, n)
        PROVE  Plain
    <2> DEFINE l == [NoLoc EXCEPT !.folder = g, !.dir = d, !.name = n,
                                  !.full = Full(folders[g].dir, folders[g].name)]
    <2>1. pc[r] = "idle" /\ Goto(r, "cascade", l)
      BY <1>4 DEF PatchFolderRead, Start
    <2>2. l.paths = {}
      BY DEF NoLoc
    <2> HIDE DEF l
    <2> QED
      BY <1>1, <2>1, <2>2
  <1>5. ASSUME NEW g \in Folders, DeleteFolderRead(r, g)
        PROVE  Plain
    <2> DEFINE l == [NoLoc EXCEPT !.folder = g,
                                  !.full = Full(folders[g].dir, folders[g].name)]
    <2>1. pc[r] = "idle" /\ Goto(r, "collect", l)
      BY <1>5 DEF DeleteFolderRead, Start
    <2>2. l.paths = {}
      BY DEF NoLoc
    <2> HIDE DEF l
    <2> QED
      BY <1>1, <2>1, <2>2
  <1>6. ASSUME NEW f \in Files, DeleteLookup(r, f)
        PROVE  /\ pc[r] = "idle" /\ pc'[r] = "mark" /\ Exists(f) /\ rows' = rows
               /\ loc'[r].file = f /\ loc'[r].paths = {}
               /\ \A q \in Reqs \ {r} : pc'[q] = pc[q] /\ loc'[q] = loc[q]
    BY <1>6, GotoLocals DEF DeleteLookup, Start, NoLoc
  <1>7. ASSUME EmptyTrashCollect(r)
        PROVE  /\ pc[r] = "idle" /\ pc'[r] = "purge" /\ rows' = rows
               /\ loc'[r].paths \subseteq Trashed
               /\ \A q \in Reqs \ {r} : pc'[q] = pc[q] /\ loc'[q] = loc[q]
    <2>1. PICK S \in SUBSET Trashed : Goto(r, "purge", [NoLoc EXCEPT !.paths = S])
      BY <1>7 DEF EmptyTrashCollect, Collected
    <2> QED
      BY <1>7, <2>1, GotoLocals DEF EmptyTrashCollect, Start, NoLoc
  <1>8. ASSUME NEW f \in Files, Restore(r, f)
        PROVE  /\ pc[r] = "idle" /\ pc' = pc /\ loc' = loc /\ loc[r].paths = {}
    BY <1>8 DEF Restore, Start, TypeOK, Fits, NoLoc
  <1>9. \/ Plain \/ EmptyTrashCollect(r)
        \/ \E f \in Files : DeleteLookup(r, f) \/ Restore(r, f)
    BY <1>2, <1>3, <1>4, <1>5 DEF Begin
  <1> QED
    BY <1>6, <1>7, <1>8, <1>9 DEF Plain

----------------------------------------------------------------------------
(* The ids of uploads that are under way are nobody else's.                 *)

Pending(r) == pc[r] \in {"insert", "unsave"}

\* An upload that has saved its blob and not yet inserted its row owns an id
\* that no row has had, no other upload owns and no deletion has collected.
PendingInv ==
    /\ \A r \in Reqs : Pending(r) =>
         rows[loc[r].file].state = "none" /\ loc[r].file \in disk
    /\ \A r, q \in Reqs :
         Pending(r) /\ Pending(q) /\ r # q => loc[r].file # loc[q].file
    /\ \A r \in Reqs : \A f \in loc[r].paths : rows[f].state # "none"
    /\ \A r \in Reqs : pc[r] = "mark" => rows[loc[r].file].state # "none"

\* A row is inserted once: no statement makes a row be as if it had never been.
LEMMA InsertedStays ==
  ASSUME TypeOK, Next, NEW f \in Files, rows[f].state # "none"
  PROVE  rows'[f].state # "none"
  <1>1. ASSUME NEW r \in Reqs, Begin(r)
        PROVE  rows'[f].state # "none"
    <2>1. rows' = rows \/ \E g \in Files : rows' = [rows EXCEPT ![g].state = "live"]
      BY <1>1, BeginEffect DEF Restore
    <2> QED
      BY <2>1 DEF TypeOK, RowType
  <1>2. ASSUME NEW r \in Reqs, Continue(r)
        PROVE  rows'[f].state # "none"
    <2>1. CASE rows' = rows
      BY <2>1
    <2>2. CASE UploadInsert(r)
      BY <2>2 DEF UploadInsert, TypeOK, RowType
    <2>3. CASE PatchFileUpdate(r)
      BY <2>3 DEF PatchFileUpdate, TypeOK, RowType
    <2>4. CASE DeleteMark(r)
      BY <2>4 DEF DeleteMark, TypeOK, RowType
    <2>5. CASE EmptyTrashPurge(r)
      BY <2>5 DEF EmptyTrashPurge, TypeOK, RowType
    <2>6. CASE PatchFolderCascade(r)
      BY <2>6 DEF PatchFolderCascade, CascadeFiles, TypeOK, RowType
    <2>7. CASE DeleteFolderSweep(r)
      BY <2>7 DEF DeleteFolderSweep, TypeOK, RowType
    <2> QED
      BY <1>2, <2>1, <2>2, <2>3, <2>4, <2>5, <2>6, <2>7, ContinueEffect
  <1>3. CASE Crash
    BY <1>3 DEF Crash
  <1> QED
    BY <1>1, <1>2, <1>3 DEF Next

\* A request begins with an id of its own at most in "mark", and with paths of
\* rows that are there.
LEMMA BeginPending ==
  ASSUME TypeOK, PendingInv, NEW r \in Reqs, Begin(r)
  PROVE  PendingInv'
  <1>1. /\ disk' = disk
        /\ \A f \in Files : rows[f].state = "none" <=> rows'[f].state = "none"
    BY BeginEffect DEF Restore, TypeOK, RowType
  <1>2. \A q \in Reqs \ {r} : pc'[q] = pc[q] /\ loc'[q] = loc[q]
    BY BeginLocals
  <1>3. /\ pc'[r] \notin {"insert", "unsave"}
        /\ pc'[r] = "mark" => rows[loc'[r].file].state # "none"
        /\ \A f \in loc'[r].paths : rows[f].state # "none"
    BY BeginLocals DEF Exists, Trashed
  <1>4. \A q \in Reqs :
          /\ Pending(q)' => q # r /\ Pending(q)
          /\ loc'[q].paths \subseteq Files
          /\ pc'[q] = "mark" => loc'[q].file \in Files
          /\ Pending(q) => loc[q].file \in Files
    BY <1>2, <1>3, BeginType DEF Pending, TypeOK, Fits, LocType
  <1> QED
    BY <1>1, <1>2, <1>3, <1>4 DEF PendingInv, Pending

\* What a step of r that does not make it pending has to respect.
LEMMA PendingKept ==
  ASSUME TypeOK, TypeOK', PendingInv, NEW r \in Reqs,
         \A q \in Reqs \ {r} : pc'[q] = pc[q] /\ loc'[q] = loc[q],
         \A f \in Files : rows[f].state # "none" => rows'[f].state # "none",
         Pending(r)' => Pending(r) /\ loc'[r].file = loc[r].file,
         \A f \in loc'[r].paths : rows'[f].state # "none",
         pc'[r] # "mark",
         \A q \in Reqs : Pending(q)' =>
           rows'[loc[q].file].state = "none" /\ loc[q].file \in disk'
  PROVE  PendingInv'
  <1>1. \A q \in Reqs : Pending(q)' => Pending(q) /\ loc'[q].file = loc[q].file
    BY DEF Pending
  <1>2. \A q \in Reqs : loc[q].paths \subseteq Files /\ (pc[q] = "mark" => loc[q].file \in Files)
    BY DEF TypeOK, LocType, Fits
  <1>3. \A q \in Reqs : \A f \in loc'[q].paths : rows'[f].state # "none"
    BY <1>2 DEF PendingInv
  <1>4. \A q \in Reqs : pc'[q] = "mark" => rows'[loc'[q].file].state # "none"
    BY <1>2 DEF PendingInv
  <1> QED
    BY <1>1, <1>3, <1>4 DEF PendingInv, Pending

LEMMA ContinuePending ==
  ASSUME TypeOK, PendingInv, NEW r \in Reqs, Continue(r)
  PROVE  PendingInv'
  <1>1. TypeOK'
    BY ContinueType
  <1>2. \A f \in Files : rows[f].state # "none" => rows'[f].state # "none"
    BY InsertedStays DEF Next
  <1>3. \A q \in Reqs : Pending(q) => loc[q].file \in Files
    BY DEF TypeOK, Fits, Pending
  <1>4. \A q \in Reqs : loc[q].paths \subseteq Files
    BY DEF TypeOK, LocType
  <1>5. \A q, p \in Reqs : Pending(q) => loc[q].file \notin loc[p].paths
    BY DEF PendingInv
  <1>6. ASSUME NEW f \in Files, UploadSave(r, f)
        PROVE  PendingInv'
    <2> DEFINE l == [loc[r] EXCEPT !.file = f]
    <2>1. /\ l.file = f /\ l.paths = loc[r].paths
          /\ Goto(r, "insert", l)
          /\ rows' = rows /\ disk' = disk \cup {f} /\ Fresh(f)
      BY <1>6 DEF UploadSave, TypeOK, LocType
    <2> HIDE DEF l
    <2>2. /\ pc'[r] = "insert" /\ loc'[r] = l
          /\ \A q \in Reqs \ {r} : pc'[q] = pc[q] /\ loc'[q] = loc[q]
      BY <2>1, GotoLocals
    <2>3. \A q \in Reqs : Pending(q) => loc[q].file # f
      BY <2>1 DEF Fresh, PendingInv
    <2>4. \A q \in Reqs \ {r} : Pending(q)' => Pending(q)
      BY <2>2 DEF Pending
    <2>5. \A q \in Reqs : Pending(q)' =>
            rows'[loc'[q].file].state = "none" /\ loc'[q].file \in disk'
      BY <2>1, <2>2, <2>4 DEF PendingInv, Fresh
    <2>6. \A q, p \in Reqs :
            Pending(q)' /\ Pending(p)' /\ q # p => loc'[q].file # loc'[p].file
      BY <2>1, <2>2, <2>3, <2>4 DEF PendingInv
    <2>7. \A q \in Reqs : \A e \in loc'[q].paths : rows'[e].state # "none"
      BY <2>1, <2>2 DEF PendingInv
    <2>8. \A q \in Reqs : pc'[q] = "mark" => rows'[loc'[q].file].state # "none"
      BY <2>1, <2>2 DEF PendingInv
    <2> QED
      BY <2>5, <2>6, <2>7, <2>8 DEF PendingInv, Pending
  <1>7. ASSUME NEW f \in Files, Unlink(r, f) \/ UnlinkFails(r, f)
        PROVE  PendingInv'
    <2>1. /\ loc'[r].paths = loc[r].paths \ {f}
          /\ pc'[r] \in {"idle", "unlink"}
          /\ \A q \in Reqs \ {r} : pc'[q] = pc[q] /\ loc'[q] = loc[q]
      BY <1>7, UnlinkAllLocals DEF Unlink, UnlinkFails
    <2>2. rows' = rows /\ disk \ {f} \subseteq disk' /\ f \in loc[r].paths
      BY <1>7 DEF Unlink, UnlinkFails
    <2>3. \A q \in Reqs : Pending(q)' => Pending(q)
      BY <2>1 DEF Pending
    <2>4. \A q \in Reqs : Pending(q)' =>
            rows'[loc[q].file].state = "none" /\ loc[q].file \in disk'
      BY <1>5, <2>2, <2>3 DEF PendingInv
    <2>5. \A e \in loc'[r].paths : rows'[e].state # "none"
      BY <2>1, <2>2 DEF PendingInv
    <2>6. ~Pending(r)'
      BY <2>1 DEF Pending
    <2> QED
      BY <1>1, <1>2, <2>1, <2>4, <2>5, <2>6, PendingKept
  <1>8. ASSUME Finish(r), disk \subseteq disk', rows' = rows
        PROVE  PendingInv'
    <2>1. /\ loc'[r].paths = {} /\ pc'[r] = "idle"
          /\ \A q \in Reqs \ {r} : pc'[q] = pc[q] /\ loc'[q] = loc[q]
      BY <1>8, FinishLocals
    <2>2. \A q \in Reqs : Pending(q)' => Pending(q)
      BY <2>1 DEF Pending
    <2>3. ~Pending(r)'
      BY <2>1 DEF Pending
    <2>4. \A q \in Reqs : Pending(q)' =>
            rows'[loc[q].file].state = "none" /\ loc[q].file \in disk'
      BY <1>8, <2>2 DEF PendingInv
    <2> QED
      BY <1>1, <1>2, <2>1, <2>3, <2>4, PendingKept
  <1>9. CASE UploadInsert(r) \/ UploadUnsave(r)
    <2>1. /\ loc'[r].paths = {} /\ pc'[r] = "idle"
          /\ \A q \in Reqs \ {r} : pc'[q] = pc[q] /\ loc'[q] = loc[q]
      BY <1>9, FinishLocals DEF UploadInsert, UploadUnsave
    <2>2. \A q \in Reqs : Pending(q)' => q # r /\ Pending(q)
      BY <2>1 DEF Pending
    <2>3. Pending(r)
      BY <1>9 DEF UploadInsert, UploadUnsave, At, Pending
    <2>4. \A f \in Files \ {loc[r].file} :
            rows'[f] = rows[f] /\ (f \in disk => f \in disk')
      BY <1>9 DEF UploadInsert, UploadUnsave, TypeOK
    <2>5. \A q \in Reqs : Pending(q)' =>
            rows'[loc[q].file].state = "none" /\ loc[q].file \in disk'
      BY <1>3, <2>2, <2>3, <2>4 DEF PendingInv
    <2>6. ~Pending(r)'
      BY <2>1 DEF Pending
    <2> QED
      BY <1>1, <1>2, <2>1, <2>5, <2>6, PendingKept
  <1>10. CASE UploadInsertFails(r)
    <2>1. /\ pc'[r] = "unsave" /\ loc'[r] = loc[r]
          /\ \A q \in Reqs \ {r} : pc'[q] = pc[q] /\ loc'[q] = loc[q]
      BY <1>10, GotoLocals DEF UploadInsertFails
    <2>2. pc[r] = "insert" /\ rows' = rows /\ disk' = disk
      BY <1>10 DEF UploadInsertFails, At
    <2>3. \A q \in Reqs : Pending(q)' => Pending(q)
      BY <2>1, <2>2 DEF Pending
    <2> QED
      BY <1>1, <1>2, <2>1, <2>2, <2>3, PendingKept DEF PendingInv
  <1>11. CASE (PatchFileCheck(r) \/ PatchFileCheckFails(r)) /\ ~Finish(r)
    <2>1. /\ pc'[r] = "updateFile" /\ loc'[r] = loc[r]
          /\ \A q \in Reqs \ {r} : pc'[q] = pc[q] /\ loc'[q] = loc[q]
      BY <1>11, GotoLocals DEF PatchFileCheck, PatchFileCheckFails
    <2>2. rows' = rows /\ disk' = disk
      BY <1>11 DEF PatchFileCheck, PatchFileCheckFails
    <2>3. \A q \in Reqs : Pending(q)' => q # r /\ Pending(q)
      BY <2>1 DEF Pending
    <2>4. ~Pending(r)'
      BY <2>1 DEF Pending
    <2> QED
      BY <1>1, <1>2, <2>1, <2>2, <2>3, <2>4, PendingKept DEF PendingInv
  <1>12. ASSUME Finish(r), disk' = disk,
                \A f \in Files : rows[f].state = "none" => rows'[f].state = "none"
         PROVE  PendingInv'
    <2>1. /\ loc'[r].paths = {} /\ pc'[r] = "idle"
          /\ \A q \in Reqs \ {r} : pc'[q] = pc[q] /\ loc'[q] = loc[q]
      BY <1>12, FinishLocals
    <2>2. \A q \in Reqs : Pending(q)' => Pending(q)
      BY <2>1 DEF Pending
    <2>3. ~Pending(r)'
      BY <2>1 DEF Pending
    <2>4. \A q \in Reqs : Pending(q)' =>
            rows'[loc[q].file].state = "none" /\ loc[q].file \in disk'
      BY <1>3, <1>12, <2>2 DEF PendingInv
    <2> QED
      BY <1>1, <1>2, <2>1, <2>3, <2>4, PendingKept
  <1>13. ASSUME NEW S \in SUBSET Files, UnlinkAll(r, S), disk' = disk,
                \A f \in S : rows'[f].state # "none",
                \A f \in Files : rows[f].state = "none" => rows'[f].state = "none"
         PROVE  PendingInv'
    <2>1. /\ loc'[r].paths = S /\ pc'[r] \in {"idle", "unlink"}
          /\ \A q \in Reqs \ {r} : pc'[q] = pc[q] /\ loc'[q] = loc[q]
      BY <1>13, UnlinkAllLocals
    <2>2. \A q \in Reqs : Pending(q)' => Pending(q)
      BY <2>1 DEF Pending
    <2>3. ~Pending(r)'
      BY <2>1 DEF Pending
    <2>4. \A q \in Reqs : Pending(q)' =>
            rows'[loc[q].file].state = "none" /\ loc[q].file \in disk'
      BY <1>3, <1>13, <2>2 DEF PendingInv
    <2> QED
      BY <1>1, <1>2, <1>13, <2>1, <2>3, <2>4, PendingKept
  <1>14. CASE PatchFileUpdate(r)
    <2>1. \A f \in Files : rows[f].state = "none" => rows'[f].state = "none"
      BY <1>14 DEF PatchFileUpdate, TypeOK, RowType
    <2> QED
      BY <1>12, <1>14, <2>1 DEF PatchFileUpdate
  <1>15. CASE PatchFolderCascade(r)
    <2>1. \A f \in Files : rows[f].state = "none" => rows'[f].state = "none"
      BY <1>15 DEF PatchFolderCascade, CascadeFiles, TypeOK, RowType
    <2> QED
      BY <1>12, <1>15, <2>1 DEF PatchFolderCascade
  <1>16. CASE DeleteMark(r)
    <2>1. loc[r].file \in Files /\ rows[loc[r].file].state # "none"
      BY <1>16 DEF DeleteMark, At, TypeOK, Fits, PendingInv
    <2>2. \A f \in Files : rows[f].state = "none" => rows'[f].state = "none"
      BY <1>16, <2>1 DEF DeleteMark, TypeOK, RowType
    <2> QED
      BY <1>2, <1>13, <1>16, <2>1, <2>2 DEF DeleteMark
  <1>17. CASE EmptyTrashPurge(r)
    <2>1. \A f \in Files : rows[f].state = "none" => rows'[f].state = "none"
      BY <1>17 DEF EmptyTrashPurge, Trashed, TypeOK, RowType
    <2>2. \A f \in loc[r].paths : rows'[f].state # "none"
      BY <1>2, <1>4 DEF PendingInv
    <2> QED
      BY <1>4, <1>13, <1>17, <2>1, <2>2 DEF EmptyTrashPurge
  <1>18. CASE DeleteFolderCollect(r)
    <2>1. PICK S \in SUBSET FilesUnder(loc[r].full) :
            Goto(r, "sweep", [loc[r] EXCEPT !.paths = S])
      BY <1>18 DEF DeleteFolderCollect, Collected
    <2>2. /\ pc'[r] = "sweep" /\ loc'[r].paths \subseteq FilesUnder(loc[r].full)
          /\ \A q \in Reqs \ {r} : pc'[q] = pc[q] /\ loc'[q] = loc[q]
      <3> DEFINE l == [loc[r] EXCEPT !.paths = S]
      <3>1. l.paths = S /\ Goto(r, "sweep", l)
        BY <2>1 DEF TypeOK, LocType
      <3> HIDE DEF l
      <3> QED
        BY <3>1, GotoLocals
    <2>3. rows' = rows /\ disk' = disk
      BY <1>18 DEF DeleteFolderCollect
    <2>4. \A q \in Reqs : Pending(q)' => q # r /\ Pending(q)
      BY <2>2 DEF Pending
    <2>5. \A f \in loc'[r].paths : rows'[f].state # "none"
      BY <2>2, <2>3 DEF FilesUnder, Exists
    <2>6. ~Pending(r)'
      BY <2>2 DEF Pending
    <2> QED
      BY <1>1, <1>2, <2>2, <2>3, <2>4, <2>5, <2>6, PendingKept DEF PendingInv
  <1>19. CASE DeleteFolderSweep(r)
    <2>1. \A f \in Files : rows[f].state = "none" => rows'[f].state = "none"
      BY <1>19 DEF DeleteFolderSweep, FilesUnder, Exists, TypeOK, RowType
    <2>2. \A f \in loc[r].paths : rows'[f].state # "none"
      BY <1>2, <1>4 DEF PendingInv
    <2> QED
      BY <1>4, <1>13, <1>19, <2>1, <2>2 DEF DeleteFolderSweep
  <1> QED
    BY <1>6, <1>7, <1>8, <1>9, <1>10, <1>11, <1>14, <1>15, <1>16, <1>17, <1>18, <1>19,
       Enders
       DEF Continue, UploadSaveLitters, PatchFileCheck, PatchFileCheckFails

LEMMA NextPending ==
  ASSUME TypeOK, PendingInv, [Next]_vars
  PROVE  PendingInv'
  <1>1. CASE Crash
    BY <1>1 DEF Crash, PendingInv, Pending, NoLoc
  <1>2. CASE UNCHANGED vars
    BY <1>2 DEF vars, PendingInv, Pending
  <1> QED
    BY <1>1, <1>2, BeginPending, ContinuePending DEF Next

LEMMA InitPending == Init => PendingInv
  BY DEF Init, PendingInv, Pending, NoLoc

LEMMA PendingCorrect == Spec => [](TypeOK /\ PendingInv)
  <1>1. Init => TypeOK /\ PendingInv
    BY InitType, InitPending
  <1>2. TypeOK /\ PendingInv /\ [Next]_vars => (TypeOK /\ PendingInv)'
    BY NextType, NextPending
  <1> QED
    BY <1>1, <1>2, PTL DEF Spec

----------------------------------------------------------------------------
(* FileStore implements FileCatalog                                         *)

Status == [f \in Files |-> rows[f].state]

LEMMA StatusUnchanged ==
  ASSUME \A f \in Files : rows'[f].state = rows[f].state
  PROVE  Status' = Status
  BY DEF Status

\* Every step of FileStore is a step of FileCatalog or leaves the status of all
\* files alone.
LEMMA CatalogStep ==
  ASSUME TypeOK, PendingInv, [Next]_vars
  PROVE  [Catalog!Next]_Status
  <1> USE DEF Catalog!Move, Catalog!In, Status
  <1>1. ASSUME NEW r \in Reqs, NEW f \in Files, Restore(r, f)
        PROVE  Catalog!Next
    <2>1. Status[f] = "trash" /\ Status' = [g \in Files |-> IF g \in {f} THEN "live" ELSE Status[g]]
      BY <1>1 DEF Restore, TypeOK, RowType
    <2>2. Catalog!Restore(f)
      BY <2>1 DEF Catalog!Restore
    <2> QED
      BY <2>2 DEF Catalog!Next
  <1>2. ASSUME NEW r \in Reqs, UploadInsert(r)
        PROVE  Catalog!Next
    <2>1. PICK f \in Files : f = loc[r].file /\ Status[f] = "none"
      BY <1>2 DEF UploadInsert, At, TypeOK, Fits, PendingInv, Pending
    <2>2. Status' = [g \in Files |-> IF g \in {f} THEN "live" ELSE Status[g]]
      BY <1>2, <2>1 DEF UploadInsert, TypeOK, RowType
    <2>3. Catalog!Upload(f)
      BY <2>1, <2>2 DEF Catalog!Upload
    <2> QED
      BY <2>3 DEF Catalog!Next
  <1>3. ASSUME NEW r \in Reqs, EmptyTrashPurge(r)
        PROVE  Catalog!Next
    <2>1. Status' = [g \in Files |-> IF Status[g] = "trash" THEN "gone" ELSE Status[g]]
      BY <1>3 DEF EmptyTrashPurge, Trashed
    <2>2. Catalog!EmptyTrash
      BY <2>1 DEF Catalog!EmptyTrash
    <2> QED
      BY <2>2 DEF Catalog!Next
  <1>4. ASSUME NEW S \in SUBSET Files, \A f \in S : Exists(f),
               Status' = [g \in Files |-> IF g \in S THEN "trash" ELSE Status[g]]
        PROVE  Catalog!Next
    <2>1. S \in SUBSET (Catalog!In("live") \cup Catalog!In("trash"))
      BY <1>4 DEF Exists
    <2>2. Catalog!Trash(S)
      BY <1>4 DEF Catalog!Trash
    <2> QED
      BY <2>1, <2>2 DEF Catalog!Next
  <1>5. ASSUME NEW r \in Reqs, DeleteMark(r)
        PROVE  [Catalog!Next]_Status
    <2> DEFINE f == loc[r].file
    <2>1. f \in Files
      BY <1>5 DEF DeleteMark, At, TypeOK, Fits
    <2>2. CASE Exists(f)
      <3>1. Status' = [g \in Files |-> IF g \in {f} THEN "trash" ELSE Status[g]]
        BY <1>5, <2>1, <2>2 DEF DeleteMark, TypeOK, RowType
      <3> QED
        BY <1>4, <2>1, <2>2, <3>1
    <2>3. CASE ~Exists(f)
      BY <1>5, <2>3 DEF DeleteMark
    <2> QED
      BY <2>2, <2>3
  <1>6. ASSUME NEW r \in Reqs, DeleteFolderSweep(r)
        PROVE  Catalog!Next
    <2>1. Status' = [g \in Files |-> IF g \in FilesUnder(loc[r].full) THEN "trash" ELSE Status[g]]
      BY <1>6 DEF DeleteFolderSweep, TypeOK, RowType
    <2> QED
      BY <1>4, <2>1 DEF FilesUnder
  <1>7. ASSUME NEW r \in Reqs, PatchFileUpdate(r) \/ PatchFolderCascade(r)
        PROVE  Status' = Status
    <2>1. ASSUME NEW f \in Files
          PROVE  rows'[f].state = rows[f].state
      BY <1>7 DEF PatchFileUpdate, PatchFolderCascade, CascadeFiles, TypeOK, RowType
    <2> QED
      BY <2>1, StatusUnchanged
  <1>8. CASE rows' = rows
    BY <1>8
  <1>9. ASSUME NEW r \in Reqs, Begin(r)
        PROVE  [Catalog!Next]_Status
    BY <1>1, <1>8, <1>9, BeginEffect DEF Restore
  <1>10. ASSUME NEW r \in Reqs, Continue(r)
         PROVE  [Catalog!Next]_Status
    BY <1>2, <1>3, <1>5, <1>6, <1>7, <1>8, <1>10, ContinueEffect
  <1> QED
    BY <1>8, <1>9, <1>10 DEF Next, Crash, vars

\* The file service keeps the promises of the catalogue for any number of files and
\* concurrent requests, killed at any point or not: a file appears once, is purged
\* only out of the trash and together with everything in it, and never comes back.
THEOREM ImplementsCatalog == Spec => CatalogSpec
  <1>1. Init => Catalog!Init
    BY DEF Init, Catalog!Init
  <1>2. TypeOK /\ PendingInv /\ [Next]_vars => [Catalog!Next]_Status
    BY CatalogStep
  <1> QED
    BY <1>1, <1>2, PendingCorrect, PTL DEF Spec, CatalogSpec, Catalog!Spec, Status

----------------------------------------------------------------------------
(* Requests of kinds that are not sent are not under way *)

OpsInv ==
    \A r \in Reqs :
        /\ pc[r] \in {"checkMove", "updateFile"} => "patchFile" \in Ops
        /\ pc[r] = "cascade" => "patchFolder" \in Ops
        /\ pc[r] \in {"collect", "sweep"} => "deleteFolder" \in Ops

LEMMA NextOps ==
  ASSUME TypeOK, OpsInv, [Next]_vars
  PROVE  OpsInv'
  <1>1. ASSUME NEW r \in Reqs, Begin(r) \/ Continue(r), NEW q \in Reqs
        PROVE  /\ pc'[q] \in {"checkMove", "updateFile"} => "patchFile" \in Ops
               /\ pc'[q] = "cascade" => "patchFolder" \in Ops
               /\ pc'[q] \in {"collect", "sweep"} => "deleteFolder" \in Ops
    <2>1. CASE Begin(r)
      <3> DEFINE Sent == /\ pc'[q] \in {"checkMove", "updateFile"} => "patchFile" \in Ops
                         /\ pc'[q] = "cascade" => "patchFolder" \in Ops
                         /\ pc'[q] \in {"collect", "sweep"} => "deleteFolder" \in Ops
      <3>1. ASSUME NEW step, NEW l, Goto(r, step, l),
                   step \in {"checkMove", "updateFile"} => "patchFile" \in Ops,
                   step = "cascade" => "patchFolder" \in Ops,
                   step \in {"collect", "sweep"} => "deleteFolder" \in Ops
            PROVE  Sent
        BY <3>1, GotoLocals DEF OpsInv
      <3> HIDE DEF Sent
      <3>2. ASSUME NEW d \in Paths, NEW n \in Names,
                   \/ UploadCheck(r, d, n) \/ UploadCheckFails(r, d, n)
                   \/ CreateFolderCheck(r, d, n) \/ CreateFolderCheckFails(r, d, n)
            PROVE  Sent
        BY <3>1, <3>2 DEF UploadCheck, UploadCheckFails, CreateFolderCheck,
                          CreateFolderCheckFails
      <3>3. ASSUME NEW d \in Paths, NEW n \in Names, NEW f \in Files, PatchFileRead(r, f, d, n)
            PROVE  Sent
        BY <3>1, <3>3 DEF PatchFileRead, Start
      <3>4. ASSUME NEW d \in Paths, NEW n \in Names, NEW g \in Folders, PatchFolderRead(r, g, d, n)
            PROVE  Sent
        BY <3>1, <3>4 DEF PatchFolderRead, Start
      <3>5. ASSUME NEW f \in Files, DeleteLookup(r, f) PROVE Sent
        BY <3>1, <3>5 DEF DeleteLookup
      <3>6. ASSUME NEW f \in Files, Restore(r, f) PROVE Sent
        BY <3>6 DEF Restore, OpsInv, Sent
      <3>7. ASSUME EmptyTrashCollect(r) PROVE Sent
        BY <3>1, <3>7 DEF EmptyTrashCollect
      <3>8. ASSUME NEW g \in Folders, DeleteFolderRead(r, g) PROVE Sent
        BY <3>1, <3>8 DEF DeleteFolderRead, Start
      <3>9. Sent
        BY <2>1, <3>2, <3>3, <3>4, <3>5, <3>6, <3>7, <3>8 DEF Begin
      <3> QED
        BY <3>9 DEF Sent
    <2> USE DEF OpsInv, TypeOK, Goto, At, Start
    <2>2. CASE \E f \in Files : UploadSave(r, f)
      BY <2>2 DEF UploadSave
    <2>3. CASE \/ UploadInsertFails(r) \/ PatchFileCheck(r) \/ PatchFileCheckFails(r)
               \/ DeleteFolderCollect(r)
      BY <2>3 DEF UploadInsertFails, PatchFileCheck, PatchFileCheckFails, DeleteFolderCollect,
                  Finish
    <2>4. CASE Finish(r)
      BY <2>4 DEF Finish
    <2>5. CASE \E S \in SUBSET Files : UnlinkAll(r, S)
      BY <2>5 DEF UnlinkAll, Finish
    <2>6. loc[r].paths \in SUBSET Files
      BY DEF LocType
    <2>7. CASE DeleteMark(r)
      <3>1. {loc[r].file} \in SUBSET Files
        BY <2>7 DEF DeleteMark, Fits
      <3> QED
        BY <2>5, <2>7, <3>1 DEF DeleteMark
    <2>8. CASE Continue(r)
      BY <2>2, <2>3, <2>4, <2>5, <2>6, <2>7, <2>8
         DEF Continue, Unlink, UnlinkFails, UploadSaveFails, UploadSaveLitters, UploadInsert,
             UploadUnsave, UploadUnsaveFails, PatchFileUpdate, EmptyTrashPurge,
             CreateFolderInsert, PatchFolderCascade, DeleteFolderSweep, StatementFails
    <2> QED
      BY <1>1, <2>1, <2>8
  <1>2. CASE Crash
    BY <1>2 DEF Crash, OpsInv
  <1>3. CASE UNCHANGED vars
    BY <1>3 DEF vars, OpsInv
  <1> QED
    BY <1>1, <1>2, <1>3 DEF Next, OpsInv

----------------------------------------------------------------------------
(* Live rows have their blobs                                               *)

\* A step that neither takes f out of the trash nor gives its live row another path.
LeftAlone(f) ==
    Live(f)' => rows[f].state = "none" \/ (Live(f) /\ rows'[f].dir = rows[f].dir)

\* While f is live it has its blob.  What a deletion will unlink is dead already, or
\* will be dead before it is unlinked since it is still in the folder that is being
\* deleted.
ContentOf(f) ==
    Live(f) =>
        /\ f \in disk
        /\ \A r \in Reqs : pc[r] \in {"purge", "unlink"} => f \notin loc[r].paths
        /\ \A r \in Reqs : pc[r] = "sweep" /\ f \in loc[r].paths =>
             Under(rows[f].dir, loc[r].full)

\* Only the INSERT of its upload brings a row to life that was not there.
LEMMA NewRow ==
  ASSUME TypeOK, NEW r \in Reqs, Begin(r) \/ Continue(r), NEW f \in Files,
         rows[f].state = "none", rows'[f].state = "live"
  PROVE  UploadInsert(r) /\ loc[r].file = f
  <1>1. rows'[f].state # rows[f].state
    OBVIOUS
  <1>2. ~Begin(r)
    BY <1>1, BeginEffect DEF Restore, TypeOK
  <1>3. ~DeleteMark(r)
    BY DEF DeleteMark, TypeOK, RowType
  <1>4. ~EmptyTrashPurge(r)
    BY DEF EmptyTrashPurge
  <1>5. ~DeleteFolderSweep(r)
    BY DEF DeleteFolderSweep, TypeOK, RowType
  <1>6. ~PatchFileUpdate(r) /\ ~PatchFolderCascade(r)
    BY DEF PatchFileUpdate, PatchFolderCascade, CascadeFiles, TypeOK, RowType
  <1>7. UploadInsert(r)
    BY <1>1, <1>2, <1>3, <1>4, <1>5, <1>6, ContinueEffect
  <1>8. loc[r].file = f
    BY <1>1, <1>7 DEF UploadInsert, TypeOK
  <1> QED
    BY <1>7, <1>8

\* What a step of r other than the insertion of f has to respect.
LEMMA ContentKept ==
  ASSUME NEW f \in Files, ContentOf(f), NEW r \in Reqs,
         \A q \in Reqs \ {r} : pc'[q] = pc[q] /\ loc'[q] = loc[q],
         rows'[f].state = "live" =>
           /\ rows[f].state = "live" /\ rows'[f].dir = rows[f].dir
           /\ f \in disk => f \in disk'
           /\ pc'[r] \in {"purge", "unlink"} => f \notin loc'[r].paths
           /\ pc'[r] = "sweep" /\ f \in loc'[r].paths => Under(rows'[f].dir, loc'[r].full)
  PROVE  ContentOf(f)'
  <1> SUFFICES ASSUME rows'[f].state = "live"
               PROVE  /\ f \in disk'
                      /\ \A q \in Reqs : pc'[q] \in {"purge", "unlink"} => f \notin loc'[q].paths
                      /\ \A q \in Reqs : pc'[q] = "sweep" /\ f \in loc'[q].paths =>
                           Under(rows'[f].dir, loc'[q].full)
    BY DEF ContentOf, Live, Under
  <1>1. f \in disk'
    BY DEF ContentOf, Live
  <1>2. ASSUME NEW q \in Reqs, pc'[q] \in {"purge", "unlink"}
        PROVE  f \notin loc'[q].paths
    BY <1>2 DEF ContentOf, Live
  <1>3. ASSUME NEW q \in Reqs, pc'[q] = "sweep", f \in loc'[q].paths
        PROVE  Under(rows'[f].dir, loc'[q].full)
    <2>1. CASE q = r
      BY <1>3, <2>1
    <2>2. CASE q # r
      <3>1. loc'[q] = loc[q] /\ pc[q] = "sweep" /\ rows'[f].dir = rows[f].dir
        BY <1>3, <2>2
      <3>2. Under(rows[f].dir, loc[q].full)
        BY <1>3, <3>1 DEF ContentOf, Live
      <3> QED
        BY <3>1, <3>2
    <2> QED
      BY <2>1, <2>2
  <1> QED
    BY <1>1, <1>2, <1>3

LEMMA BeginContent ==
  ASSUME TypeOK, NEW f \in Files, LeftAlone(f), ContentOf(f), NEW r \in Reqs, Begin(r)
  PROVE  ContentOf(f)'
  <1>1. rows'[f].state = "live" => rows[f].state = "live" /\ rows'[f].dir = rows[f].dir
    BY NewRow, BeginLocals DEF LeftAlone, Live, UploadInsert, At
  <1>2. Trashed \subseteq Files /\ \A g \in Trashed : rows[g].state # "live"
    BY DEF Trashed
  <1>3. disk' = disk
    BY BeginEffect
  <1> QED
    BY <1>1, <1>2, <1>3, BeginLocals, ContentKept

LEMMA ContinueContent ==
  ASSUME TypeOK, PendingInv, NEW f \in Files, LeftAlone(f), ContentOf(f),
         NEW r \in Reqs, Continue(r)
  PROVE  ContentOf(f)'
  <1> DEFINE Stays == rows'[f].state = "live" =>
                        rows[f].state = "live" /\ rows'[f].dir = rows[f].dir
  <1>1. /\ \A q \in Reqs : loc[q] \in LocType /\ loc[q].paths \subseteq Files
        /\ \A q \in Reqs : Fits(pc[q], loc[q])
    BY DEF TypeOK, LocType
  <1>2. ~(UploadInsert(r) /\ loc[r].file = f) => Stays
    BY NewRow DEF LeftAlone, Live
  <1> HIDE DEF Stays
  <1>3. CASE UploadInsert(r) /\ loc[r].file = f
    <2>1. rows[f].state = "none" /\ f \in disk
      BY <1>3 DEF UploadInsert, At, PendingInv, Pending
    <2>2. /\ disk' = disk
          /\ pc'[r] = "idle"
          /\ \A q \in Reqs \ {r} : pc'[q] = pc[q] /\ loc'[q] = loc[q]
      BY <1>3, FinishLocals DEF UploadInsert
    <2>3. \A q \in Reqs : f \notin loc[q].paths
      BY <2>1 DEF PendingInv
    <2>4. \A q \in Reqs : pc'[q] \in {"purge", "unlink", "sweep"} => f \notin loc'[q].paths
      BY <2>2, <2>3
    <2> QED
      BY <2>1, <2>2, <2>4 DEF ContentOf
  <1>4. ASSUME Stays, Finish(r), rows'[f].state = "live" => (f \in disk => f \in disk')
        PROVE  ContentOf(f)'
    BY <1>4, FinishLocals, ContentKept DEF Stays
  <1>5. ASSUME NEW g \in Files, UploadSave(r, g)
        PROVE  ContentOf(f)'
    <2>1. /\ disk' = disk \cup {g}
          /\ pc'[r] \in {"insert", "unsave"}
          /\ \A q \in Reqs \ {r} : pc'[q] = pc[q] /\ loc'[q] = loc[q]
      BY <1>5, GotoLocals DEF UploadSave
    <2>2. Stays
      BY <1>2, <1>5 DEF UploadSave, UploadInsert, At
    <2> QED
      BY <2>1, <2>2, ContentKept DEF Stays
  <1>6. ASSUME NEW g \in Files, Unlink(r, g) \/ UnlinkFails(r, g)
        PROVE  ContentOf(f)'
    <2>1. loc[r].paths \ {g} \in SUBSET Files
      BY <1>1
    <2>2. /\ disk \ {g} \subseteq disk' /\ rows' = rows
          /\ pc[r] = "unlink" /\ g \in loc[r].paths
          /\ loc'[r].paths = loc[r].paths \ {g}
          /\ pc'[r] \in {"idle", "unlink"}
          /\ \A q \in Reqs \ {r} : pc'[q] = pc[q] /\ loc'[q] = loc[q]
      BY <1>6, <2>1, UnlinkAllLocals DEF Unlink, UnlinkFails, At
    <2>3. rows[f].state = "live" => f \notin loc[r].paths
      BY <2>2 DEF ContentOf, Live
    <2> QED
      BY <2>2, <2>3, ContentKept
  <1>7. CASE UploadUnsave(r)
    <2>1. rows' = rows /\ disk' = disk \ {loc[r].file} /\ rows[loc[r].file].state = "none" /\ Finish(r)
      BY <1>7 DEF UploadUnsave, At, PendingInv, Pending
    <2> QED
      BY <1>4, <2>1 DEF Stays
  <1>8. CASE UploadInsertFails(r)
    <2>1. rows' = rows /\ disk' = disk
      BY <1>8 DEF UploadInsertFails
    <2> QED
      BY <1>8, <2>1, GotoLocals, ContentKept DEF UploadInsertFails
  <1>9. CASE PatchFileCheck(r) \/ PatchFileCheckFails(r)
    <2>1. /\ pc'[r] \in {"idle", "updateFile"} /\ rows' = rows /\ disk' = disk
          /\ \A q \in Reqs \ {r} : pc'[q] = pc[q] /\ loc'[q] = loc[q]
      BY <1>9, FinishLocals, GotoLocals DEF PatchFileCheck, PatchFileCheckFails
    <2> QED
      BY <2>1, ContentKept
  <1>10. CASE DeleteFolderCollect(r)
    <2>3. PICK S \in SUBSET FilesUnder(loc[r].full) :
            Goto(r, "sweep", [loc[r] EXCEPT !.paths = S])
      BY <1>10 DEF DeleteFolderCollect, Collected
    <2> DEFINE l == [loc[r] EXCEPT !.paths = S]
    <2>1. /\ l.paths = S /\ l.full = loc[r].full
          /\ Goto(r, "sweep", l) /\ rows' = rows /\ disk' = disk
      BY <1>1, <1>10, <2>3 DEF DeleteFolderCollect, LocType
    <2> HIDE DEF l
    <2>2. /\ pc'[r] = "sweep" /\ loc'[r] = l
          /\ \A q \in Reqs \ {r} : pc'[q] = pc[q] /\ loc'[q] = loc[q]
      BY <2>1, GotoLocals
    <2>4. f \in l.paths => Under(rows[f].dir, l.full)
      BY <2>1 DEF FilesUnder
    <2> QED
      BY <2>1, <2>2, <2>4, ContentKept
  <1>11. ASSUME NEW S \in SUBSET Files, UnlinkAll(r, S), disk' = disk, Stays,
                f \in S => rows'[f].state # "live"
         PROVE  ContentOf(f)'
    <2>1. /\ loc'[r].paths = S /\ pc'[r] \in {"idle", "unlink"}
          /\ \A q \in Reqs \ {r} : pc'[q] = pc[q] /\ loc'[q] = loc[q]
      BY <1>11, UnlinkAllLocals
    <2> QED
      BY <1>11, <2>1, ContentKept DEF Stays
  <1>12. CASE DeleteMark(r)
    <2>1. PICK g \in Files : g = loc[r].file /\ UnlinkAll(r, {g})
      BY <1>1, <1>12 DEF DeleteMark, At, Fits
    <2>2. rows'[g].state # "live"
      BY <1>12, <2>1 DEF DeleteMark, Exists, TypeOK, RowType
    <2>3. Stays /\ disk' = disk
      BY <1>2, <1>12 DEF DeleteMark, UploadInsert, At
    <2> QED
      BY <1>11, <2>1, <2>2, <2>3
  <1>13. CASE EmptyTrashPurge(r)
    <2>1. f \in loc[r].paths => rows[f].state # "live"
      BY <1>13 DEF EmptyTrashPurge, At, ContentOf, Live
    <2>2. f \in loc[r].paths => rows'[f].state # "live"
      BY <1>13, <2>1 DEF EmptyTrashPurge
    <2>3. Stays /\ disk' = disk /\ UnlinkAll(r, loc[r].paths)
      BY <1>2, <1>13 DEF EmptyTrashPurge, UploadInsert, At
    <2> QED
      BY <1>1, <1>11, <2>2, <2>3
  <1>14. CASE DeleteFolderSweep(r)
    <2>1. f \in loc[r].paths /\ Live(f) => f \in FilesUnder(loc[r].full)
      BY <1>14 DEF DeleteFolderSweep, At, ContentOf, FilesUnder, Live, Exists
    <2>2. f \in loc[r].paths => rows'[f].state # "live"
      BY <1>14, <2>1 DEF DeleteFolderSweep, Live, TypeOK, RowType
    <2>3. Stays /\ disk' = disk /\ UnlinkAll(r, loc[r].paths)
      BY <1>2, <1>14 DEF DeleteFolderSweep, UploadInsert, At
    <2> QED
      BY <1>1, <1>11, <2>2, <2>3
  <1>15. ASSUME \/ PatchFileUpdate(r) \/ PatchFolderCascade(r)
                \/ UploadSaveFails(r) \/ UploadUnsaveFails(r) \/ StatementFails(r)
                \/ \E g \in Folders : CreateFolderInsert(r, g)
                \/ \E g \in Files : UploadSaveLitters(r, g)
         PROVE  ContentOf(f)'
    <2>1. Finish(r) /\ disk \subseteq disk' /\ ~UploadInsert(r)
      BY <1>15 DEF PatchFileUpdate, PatchFolderCascade, UploadSaveFails, UploadUnsaveFails,
                   StatementFails, CreateFolderInsert, UploadSaveLitters, UploadInsert, At
    <2> QED
      BY <1>2, <1>4, <2>1
  <1>16. CASE UploadInsert(r) /\ loc[r].file # f
    BY <1>2, <1>4, <1>16 DEF UploadInsert
  <1> QED
    BY <1>3, <1>5, <1>6, <1>7, <1>8, <1>9, <1>10, <1>12, <1>13, <1>14, <1>15, <1>16
       DEF Continue

LEMMA NextContent ==
  ASSUME TypeOK, PendingInv, NEW f \in Files, LeftAlone(f), ContentOf(f), [Next]_vars
  PROVE  ContentOf(f)'
  <1>1. CASE Crash
    BY <1>1 DEF Crash, ContentOf, Live, NoLoc
  <1>2. CASE UNCHANGED vars
    BY <1>2 DEF vars, ContentOf, Live, Under
  <1> QED
    BY <1>1, <1>2, BeginContent, ContinueContent DEF Next

\* A file that is never taken out of the trash and whose path does not change while
\* it is live can be downloaded as long as it is live, whatever is done to all
\* other files and folders by any number of concurrent requests, and wherever the
\* process is killed.  A deletion reads what it will unlink from rows that can come
\* back to life, or leave the folder that is being deleted, by no other means.
THEOREM ContentStays ==
  ASSUME NEW f \in Files
  PROVE  Spec /\ [][LeftAlone(f)]_vars => [](Live(f) => f \in disk)
  <1>1. Init => ContentOf(f)
    BY DEF Init, ContentOf, Live
  <1>2. TypeOK /\ PendingInv /\ ContentOf(f) /\ [Next]_vars /\ [LeftAlone(f)]_vars
          => ContentOf(f)'
    <2>1. UNCHANGED vars => (Live(f)' => Live(f) /\ rows'[f].dir = rows[f].dir)
      BY DEF vars, Live
    <2> QED
      BY <2>1, NextContent DEF LeftAlone
  <1>3. ContentOf(f) => (Live(f) => f \in disk)
    BY DEF ContentOf
  <1> QED
    BY <1>1, <1>2, <1>3, PendingCorrect, PTL DEF Spec

NoRestoreNoMove == Ops \cap {"restore", "patchFile", "patchFolder"} = {}

\* Without moves and restores every file is left alone by every step.
LEMMA AllLeftAlone ==
  ASSUME NoRestoreNoMove, TypeOK, PendingInv, OpsInv, [Next]_vars, NEW f \in Files
  PROVE  LeftAlone(f)
  <1> SUFFICES ASSUME rows[f].state # "none", rows'[f].state = "live"
               PROVE  rows'[f] = rows[f]
    BY DEF LeftAlone, Live
  <1>1. ASSUME NEW r \in Reqs, Begin(r)
        PROVE  rows'[f] = rows[f]
    BY <1>1, BeginEffect DEF Restore, NoRestoreNoMove, Start
  <1>2. ASSUME NEW r \in Reqs, Continue(r)
        PROVE  rows'[f] = rows[f]
    <2>1. CASE DeleteMark(r)
      BY <2>1 DEF DeleteMark, TypeOK, RowType
    <2>2. CASE EmptyTrashPurge(r)
      BY <2>2 DEF EmptyTrashPurge
    <2>3. CASE DeleteFolderSweep(r)
      BY <2>3 DEF DeleteFolderSweep, TypeOK, RowType
    <2>4. ~PatchFileUpdate(r) /\ ~PatchFolderCascade(r)
      BY DEF PatchFileUpdate, PatchFolderCascade, At, OpsInv, NoRestoreNoMove
    <2>5. CASE UploadInsert(r)
      <3>1. rows[loc[r].file].state = "none"
        BY <2>5 DEF UploadInsert, At, PendingInv, Pending
      <3> QED
        BY <2>5, <3>1 DEF UploadInsert, TypeOK
    <2> QED
      BY <1>2, <2>1, <2>2, <2>3, <2>4, <2>5, ContinueEffect
  <1> QED
    BY <1>1, <1>2 DEF Next, Crash, vars

\* Unless clients restore or move, a file that a listing shows can be downloaded,
\* for any number of concurrent uploads, deletions and folder deletions, and
\* wherever the process is killed.
THEOREM LiveContent ==
  ASSUME NoRestoreNoMove
  PROVE  Spec => []LiveHasContent
  <1> DEFINE I == TypeOK /\ PendingInv /\ OpsInv /\ \A f \in Files : ContentOf(f)
  <1>1. Init => I
    BY InitType, InitPending DEF Init, OpsInv, ContentOf, Live
  <1>2. I /\ [Next]_vars => I'
    <2> SUFFICES ASSUME I, [Next]_vars PROVE I'
      OBVIOUS
    <2>1. ASSUME NEW f \in Files
          PROVE  ContentOf(f)'
      BY AllLeftAlone, NextContent
    <2> QED
      BY <2>1, NextType, NextPending, NextOps
  <1>3. I => LiveHasContent
    BY DEF ContentOf, LiveHasContent
  <1> QED
    BY <1>1, <1>2, <1>3, PTL DEF Spec

----------------------------------------------------------------------------
(* Every blob is accounted for                                              *)

\* A step lets go of the blob of f when the process is killed while a request is
\* about to unlink it or to insert its row, when a request fails to remove it, and
\* when a folder deletion puts the row in the trash without having collected its path.
LetsGo(f) ==
    \/ Crash /\ \E r \in Reqs : Holds(r, f)
    \/ \E r \in Reqs : RemoveFails(r, f)
    \/ \E r \in Reqs :
         DeleteFolderSweep(r) /\ Live(f) /\ f \in FilesUnder(loc[r].full) \ loc[r].paths

\* A row in the trash does not account for its blob, since it may be purged by a
\* request that has not collected it: the one that trashed it still has to unlink it.
AccountOf(f) == f \in disk => Live(f) \/ \E r \in Reqs : Holds(r, f)

\* What r holds before a step of its own that does not fail to remove it it still
\* holds afterwards, unless the row is now live or the blob has been unlinked; so it
\* is with a blob that is new.
HandsOver(r, f) ==
    /\ \A q \in Reqs \ {r} : pc'[q] = pc[q] /\ loc'[q] = loc[q]
    /\ f \in disk' => (f \in disk /\ ~Holds(r, f)) \/ Live(f)' \/ Holds(r, f)'

LEMMA IdleHandsOver ==
  ASSUME NEW f \in Files, NEW r \in Reqs,
         \A q \in Reqs \ {r} : pc'[q] = pc[q] /\ loc'[q] = loc[q],
         pc[r] \notin {"insert", "unsave", "unlink"}, disk' = disk
  PROVE  HandsOver(r, f)
  BY DEF HandsOver, Holds

LEMMA ContinueHandsOver ==
  ASSUME TypeOK, NEW f \in Files, NEW r \in Reqs, Continue(r), ~RemoveFails(r, f)
  PROVE  HandsOver(r, f)
  <1>1. /\ loc[r] \in LocType /\ loc[r].paths \subseteq Files /\ Fits(pc[r], loc[r])
    BY DEF TypeOK, LocType
  <1>2. CASE UploadInsert(r)
    <2>1. loc[r].file = f => Live(f)'
      BY <1>2 DEF UploadInsert, Live, TypeOK
    <2>2. loc[r].file # f => ~Holds(r, f)
      BY <1>2 DEF UploadInsert, At, Holds
    <2>3. disk' = disk /\ \A q \in Reqs \ {r} : pc'[q] = pc[q] /\ loc'[q] = loc[q]
      BY <1>2, FinishLocals DEF UploadInsert
    <2> QED
      BY <2>1, <2>2, <2>3 DEF HandsOver
  <1>3. ASSUME NEW g \in Files, UploadSave(r, g)
        PROVE  HandsOver(r, f)
    <2> DEFINE l == [loc[r] EXCEPT !.file = g]
    <2>1. l.file = g /\ Goto(r, "insert", l)
      BY <1>1, <1>3 DEF UploadSave, LocType
    <2> HIDE DEF l
    <2>2. /\ pc'[r] = "insert" /\ loc'[r].file = g
          /\ \A q \in Reqs \ {r} : pc'[q] = pc[q] /\ loc'[q] = loc[q]
      BY <2>1, GotoLocals
    <2>3. Holds(r, g)' /\ ~Holds(r, f)
      BY <1>3, <2>2 DEF Holds, UploadSave, At
    <2>4. disk' = disk \cup {g} /\ rows' = rows
      BY <1>3 DEF UploadSave
    <2> QED
      BY <2>2, <2>3, <2>4 DEF HandsOver
  <1>4. ASSUME NEW g \in Files, Unlink(r, g) \/ UnlinkFails(r, g)
        PROVE  HandsOver(r, f)
    <2>1. /\ loc'[r].paths = loc[r].paths \ {g}
          /\ pc'[r] = IF loc[r].paths \ {g} = {} THEN "idle" ELSE "unlink"
          /\ \A q \in Reqs \ {r} : pc'[q] = pc[q] /\ loc'[q] = loc[q]
      BY <1>1, <1>4, UnlinkAllLocals DEF Unlink, UnlinkFails
    <2>2. /\ disk' \subseteq disk /\ rows' = rows /\ pc[r] = "unlink"
          /\ f = g => f \notin disk'
      BY <1>4 DEF Unlink, UnlinkFails, At, RemoveFails
    <2>3. Holds(r, f) /\ f # g => Holds(r, f)'
      BY <2>1, <2>2 DEF Holds
    <2> QED
      BY <2>1, <2>2, <2>3 DEF HandsOver
  <1>5. CASE UploadInsertFails(r)
    <2>1. /\ pc[r] = "insert" /\ pc'[r] = "unsave" /\ loc'[r] = loc[r] /\ disk' = disk
          /\ \A q \in Reqs \ {r} : pc'[q] = pc[q] /\ loc'[q] = loc[q]
      BY <1>5, GotoLocals DEF UploadInsertFails, At
    <2>2. Holds(r, f) => Holds(r, f)'
      BY <2>1 DEF Holds
    <2> QED
      BY <2>1, <2>2 DEF HandsOver
  <1>6. CASE UploadUnsave(r) \/ UploadUnsaveFails(r)
    <2>1. /\ pc[r] = "unsave" /\ disk' \subseteq disk
          /\ f = loc[r].file => f \notin disk'
          /\ \A q \in Reqs \ {r} : pc'[q] = pc[q] /\ loc'[q] = loc[q]
      BY <1>6, FinishLocals DEF UploadUnsave, UploadUnsaveFails, At, RemoveFails
    <2>2. f \in disk' => ~Holds(r, f)
      BY <2>1 DEF Holds
    <2> QED
      BY <2>1, <2>2 DEF HandsOver
  <1>7. ASSUME \/ UploadSaveFails(r) \/ StatementFails(r)
               \/ PatchFileUpdate(r) \/ PatchFolderCascade(r)
               \/ \E g \in Folders : CreateFolderInsert(r, g)
        PROVE  HandsOver(r, f)
    <2>1. Finish(r) /\ disk' = disk /\ pc[r] \notin {"insert", "unsave", "unlink"}
      BY <1>7 DEF UploadSaveFails, StatementFails, PatchFileUpdate, PatchFolderCascade,
                  CreateFolderInsert, At
    <2> QED
      BY <2>1, FinishLocals, IdleHandsOver
  <1>8. CASE PatchFileCheck(r) \/ PatchFileCheckFails(r) \/ DeleteFolderCollect(r)
    <2> USE DEF PatchFileCheck, PatchFileCheckFails, DeleteFolderCollect
    <2>1. \A q \in Reqs \ {r} : pc'[q] = pc[q] /\ loc'[q] = loc[q]
      BY <1>8, FinishLocals, GotoLocals
    <2> QED
      BY <1>8, <2>1, IdleHandsOver DEF At
  <1>9. ASSUME DeleteMark(r) \/ EmptyTrashPurge(r) \/ DeleteFolderSweep(r)
        PROVE  HandsOver(r, f)
    <2>1. /\ disk' = disk /\ pc[r] \notin {"insert", "unsave", "unlink"}
          /\ \E S \in SUBSET Files : UnlinkAll(r, S)
      BY <1>1, <1>9 DEF DeleteMark, EmptyTrashPurge, DeleteFolderSweep, At, Fits
    <2> QED
      BY <2>1, UnlinkAllLocals, IdleHandsOver
  <1>10. ASSUME NEW g \in Files, UploadSaveLitters(r, g)
         PROVE  HandsOver(r, f)
    <2>1. /\ pc[r] = "save" /\ disk' = disk \cup {g} /\ g # f
          /\ \A q \in Reqs \ {r} : pc'[q] = pc[q] /\ loc'[q] = loc[q]
      BY <1>10, FinishLocals DEF UploadSaveLitters, At, RemoveFails
    <2> QED
      BY <2>1 DEF HandsOver, Holds
  <1> QED
    BY <1>2, <1>3, <1>4, <1>5, <1>6, <1>7, <1>8, <1>9, <1>10 DEF Continue

LEMMA StepHandsOver ==
  ASSUME TypeOK, NEW f \in Files, NEW r \in Reqs, Begin(r) \/ Continue(r),
         ~RemoveFails(r, f)
  PROVE  HandsOver(r, f)
  <1>1. CASE Begin(r)
    BY <1>1, BeginLocals, BeginEffect, IdleHandsOver
  <1>2. CASE Continue(r)
    BY <1>2, ContinueHandsOver
  <1> QED
    BY <1>1, <1>2

\* Who takes a live row away unlinks its blob, but for the folder deletion that has
\* not collected it.
LEMMA LiveTaken ==
  ASSUME TypeOK, NEW f \in Files, NEW r \in Reqs, Begin(r) \/ Continue(r),
         Live(f), ~Live(f)', ~Holds(r, f)'
  PROVE  DeleteFolderSweep(r) /\ f \in FilesUnder(loc[r].full) \ loc[r].paths
  <1>1. loc[r].paths \in SUBSET Files /\ (pc[r] = "mark" => loc[r].file \in Files)
    BY DEF TypeOK, LocType, Fits
  <1>2. CASE DeleteMark(r)
    <2>1. f = loc[r].file
      BY <1>2 DEF DeleteMark, Live, TypeOK
    <2>2. UnlinkAll(r, {f})
      BY <1>2, <2>1 DEF DeleteMark
    <2> QED
      BY <2>2, UnlinkAllLocals DEF Holds
  <1>3. CASE DeleteFolderSweep(r)
    <2>1. f \in FilesUnder(loc[r].full)
      BY <1>3 DEF DeleteFolderSweep, Live
    <2>2. UnlinkAll(r, loc[r].paths)
      BY <1>3 DEF DeleteFolderSweep
    <2>3. f \notin loc[r].paths
      BY <1>1, <2>2, UnlinkAllLocals DEF Holds
    <2> QED
      BY <1>3, <2>1, <2>3
  <1>4. ~EmptyTrashPurge(r)
    BY DEF EmptyTrashPurge, Trashed, Live
  <1>5. ~PatchFolderCascade(r)
    BY DEF PatchFolderCascade, CascadeFiles, Live, TypeOK, RowType
  <1>6. ~Begin(r)
    BY BeginEffect DEF Restore, TypeOK, RowType, Live
  <1>7. ~UploadInsert(r) /\ ~PatchFileUpdate(r)
    BY DEF UploadInsert, PatchFileUpdate, TypeOK, RowType, Live
  <1> QED
    BY <1>2, <1>3, <1>4, <1>5, <1>6, <1>7, ContinueEffect DEF Live

\* A row is deleted from the trash only, with its blob if the path was collected.
LEMMA RowTaken ==
  ASSUME TypeOK, NEW f \in Files, NEW r \in Reqs, Begin(r) \/ Continue(r),
         Exists(f), ~Exists(f)', ~Holds(r, f)'
  PROVE  EmptyTrashPurge(r) /\ f \in Trashed \ loc[r].paths
  <1>1. loc[r].paths \in SUBSET Files
    BY DEF TypeOK, LocType
  <1>2. CASE EmptyTrashPurge(r)
    <2>1. f \in Trashed
      BY <1>2 DEF EmptyTrashPurge, Exists
    <2>2. UnlinkAll(r, loc[r].paths)
      BY <1>2 DEF EmptyTrashPurge
    <2>3. f \notin loc[r].paths
      BY <1>1, <2>2, UnlinkAllLocals DEF Holds
    <2> QED
      BY <1>2, <2>1, <2>3
  <1>3. ~DeleteMark(r) /\ ~DeleteFolderSweep(r)
    BY DEF DeleteMark, DeleteFolderSweep, Exists, TypeOK, RowType
  <1>4. ~PatchFolderCascade(r)
    BY DEF PatchFolderCascade, CascadeFiles, Exists, TypeOK, RowType
  <1>5. ~Begin(r)
    BY BeginEffect DEF Restore, TypeOK, RowType, Exists
  <1>6. ~UploadInsert(r) /\ ~PatchFileUpdate(r)
    BY DEF UploadInsert, PatchFileUpdate, TypeOK, RowType, Exists
  <1> QED
    BY <1>2, <1>3, <1>4, <1>5, <1>6, ContinueEffect DEF Exists

LEMMA NextAccount ==
  ASSUME TypeOK, NEW f \in Files, ~LetsGo(f), AccountOf(f), [Next]_vars
  PROVE  AccountOf(f)'
  <1>1. CASE Crash
    BY <1>1 DEF Crash, LetsGo, AccountOf, Live
  <1>2. CASE UNCHANGED vars
    BY <1>2 DEF vars, AccountOf, Holds, Live
  <1>3. ASSUME NEW r \in Reqs, Begin(r) \/ Continue(r)
        PROVE  AccountOf(f)'
    <2>1. HandsOver(r, f)
      BY <1>3, StepHandsOver DEF LetsGo
    <2>2. Live(f) => Live(f)' \/ Holds(r, f)'
      BY <1>3, LiveTaken DEF LetsGo
    <2>3. \A q \in Reqs \ {r} : Holds(q, f) => Holds(q, f)'
      BY <2>1 DEF HandsOver, Holds
    <2> QED
      BY <2>1, <2>2, <2>3 DEF AccountOf, HandsOver
  <1> QED
    BY <1>1, <1>2, <1>3 DEF Next

\* However uploads, moves, deletions, folder deletions, restores and emptyings of
\* the trash interleave, and whichever of their statements fail, the blob of a file
\* that no row names is about to be unlinked or named, as long as no step lets go of
\* it: no kill comes while it is in the hands of a request, no removal of it fails,
\* and no folder deletion trashes the row without the path.
THEOREM BlobAccounted ==
  ASSUME NEW f \in Files
  PROVE  Spec /\ [][~LetsGo(f)]_vars
           => [](f \in disk => Exists(f) \/ \E r \in Reqs : Holds(r, f))
  <1>1. Init => AccountOf(f)
    BY DEF Init, AccountOf
  <1>2. TypeOK /\ AccountOf(f) /\ [Next]_vars /\ [~LetsGo(f)]_vars => AccountOf(f)'
    <2>1. UNCHANGED vars /\ AccountOf(f) => AccountOf(f)'
      BY DEF vars, AccountOf, Holds, Live
    <2> QED
      BY <2>1, NextAccount
  <1>3. AccountOf(f) => (f \in disk => Exists(f) \/ \E r \in Reqs : Holds(r, f))
    BY DEF AccountOf, Exists, Live
  <1> QED
    BY <1>1, <1>2, <1>3, TypeCorrect, PTL DEF Spec

\* A blob is lost sight of only by a kill, by a removal that fails, or when the trash
\* is emptied of a row whose path was not collected: for any number of requests of
\* all kinds, folder deletions included, and whichever statements, checks, removals
\* and iterations over rows fail.
THEOREM LeaksAreExplained == Spec => LeaksExplained
  <1>1. ASSUME TypeOK, Next, NEW f \in Files, ~Leaked(f), Leaked(f)', ~Crash,
               ~\E r \in Reqs : RemoveFails(r, f)
        PROVE  \E r \in Reqs : EmptyTrashPurge(r) /\ f \in Trashed \ loc[r].paths
    <2>1. PICK r \in Reqs : Begin(r) \/ Continue(r)
      BY <1>1 DEF Next
    <2>2. HandsOver(r, f)
      BY <1>1, <2>1, StepHandsOver
    <2>3. f \in disk' /\ ~Exists(f)' /\ ~Live(f)' /\ \A q \in Reqs : ~Holds(q, f)'
      BY <1>1 DEF Leaked, Exists, Live
    <2>4. \A q \in Reqs : ~Holds(q, f)
      BY <2>2, <2>3 DEF HandsOver, Holds
    <2>5. f \in disk /\ Exists(f)
      BY <1>1, <2>2, <2>3, <2>4 DEF HandsOver, Leaked
    <2> QED
      BY <1>1, <2>1, <2>3, <2>5, RowTaken
  <1>2. TypeOK /\ [Next]_vars
          => [\A f \in Files : (~Leaked(f) /\ Leaked(f)') =>
                \/ Crash
                \/ \E r \in Reqs : RemoveFails(r, f)
                \/ \E r \in Reqs : EmptyTrashPurge(r) /\ f \in Trashed \ loc[r].paths]_vars
    BY <1>1
  <1> QED
    BY <1>2, TypeCorrect, PTL DEF Spec, LeaksExplained

NoSweepNoCrash == "deleteFolder" \notin Ops /\ ~CanCrash /\ "remove" \notin Ignored

\* While no folder is deleted, the process is not killed and os.Remove removes what it
\* is asked to, no order of concurrent uploads, moves, deletions, restores and
\* emptyings of the trash, whichever of their statements fail, leaks a blob: one that
\* no row names is about to be unlinked or named.
THEOREM NoContentLost ==
  ASSUME NoSweepNoCrash
  PROVE  Spec => []ContentAccounted
  <1> DEFINE I == TypeOK /\ OpsInv /\ \A f \in Files : AccountOf(f)
  <1>1. Init => I
    BY InitType DEF Init, OpsInv, AccountOf
  <1>2. I /\ [Next]_vars => I'
    <2> SUFFICES ASSUME I, [Next]_vars PROVE I'
      OBVIOUS
    <2>1. ASSUME NEW f \in Files
          PROVE  AccountOf(f)'
      <3>1. CASE UNCHANGED vars
        BY <3>1 DEF vars, AccountOf, Holds, Live
      <3>2. ~LetsGo(f)
        BY DEF LetsGo, Crash, DeleteFolderSweep, At, OpsInv, NoSweepNoCrash,
               RemoveFails, UploadSaveLitters, UploadUnsaveFails, UnlinkFails
      <3> QED
        BY <3>1, <3>2, NextAccount
    <2> QED
      BY <2>1, NextType, NextOps
  <1>3. I => ContentAccounted
    BY DEF AccountOf, ContentAccounted, Exists, Live, TypeOK
  <1> QED
    BY <1>1, <1>2, <1>3, PTL DEF Spec
----------------------------------------------------------------------------
(* What a purged file needs to be reclaimed.  That every request ends is     *)
(* what fairness gives (TLC checks Reclaimed under FairSpec); here it is a   *)
(* hypothesis, and what follows from it is proved.                           *)

Gone(f) == rows[f].state = "gone"

\* A row that has been purged is never there again.
LEMMA GoneStays ==
  ASSUME TypeOK, PendingInv, NEW f \in Files, Gone(f), [Next]_vars
  PROVE  Gone(f)'
  <1>1. ASSUME NEW r \in Reqs, Begin(r)
        PROVE  Gone(f)'
    BY <1>1, BeginEffect DEF Restore, TypeOK, RowType, Gone
  <1>2. ASSUME NEW r \in Reqs, Continue(r)
        PROVE  Gone(f)'
    <2>1. CASE UploadInsert(r)
      BY <2>1 DEF UploadInsert, At, PendingInv, Pending, Gone, TypeOK
    <2>2. CASE PatchFileUpdate(r) \/ DeleteMark(r)
      BY <2>2 DEF PatchFileUpdate, DeleteMark, Exists, Gone, TypeOK, RowType
    <2>3. CASE PatchFolderCascade(r)
      BY <2>3 DEF PatchFolderCascade, CascadeFiles, FilesUnder, Exists, Gone
    <2>4. CASE EmptyTrashPurge(r) \/ DeleteFolderSweep(r)
      BY <2>4 DEF EmptyTrashPurge, DeleteFolderSweep, FilesUnder, Exists, Trashed, Gone
    <2> QED
      BY <1>2, <2>1, <2>2, <2>3, <2>4, ContinueEffect DEF Gone
  <1> QED
    BY <1>1, <1>2 DEF Next, Crash, vars, Gone

\* Nor is its blob: an upload saves under an id that no row has had.
LEMMA GoneBlobStays ==
  ASSUME TypeOK, NEW f \in Files, Gone(f), f \notin disk, [Next]_vars
  PROVE  f \notin disk'
  <1>1. ASSUME NEW r \in Reqs, Continue(r), f \in disk'
        PROVE  FALSE
    BY <1>1, BlobEffect DEF Fresh, Gone
  <1> QED
    BY <1>1, BeginEffect DEF Next, Crash, vars

\* A request that has taken on the blob of a purged file and that is over at some
\* time has unlinked it by then, if os.Remove removes what it is asked to, and the
\* blob never comes back, whatever the other requests do.
THEOREM TakenIsUnlinked ==
  ASSUME ~CanCrash, "remove" \notin Ignored, NEW f \in Files, NEW r \in Reqs
  PROVE  Spec /\ []<>(pc[r] = "idle")
           => ((Gone(f) /\ Holds(r, f)) ~> [](f \notin disk))
  <1> DEFINE I == TypeOK /\ PendingInv
             Kept == Gone(f) /\ Holds(r, f)
             Done == Gone(f) /\ f \notin disk
  <1>1. I /\ [Next]_vars /\ Kept => Kept' \/ Done'
    <2> SUFFICES ASSUME I, [Next]_vars, Kept PROVE Kept' \/ Done'
      OBVIOUS
    <2>1. Gone(f)'
      BY GoneStays
    <2>2. CASE UNCHANGED vars
      BY <2>1, <2>2 DEF vars, Holds
    <2>3. ASSUME NEW q \in Reqs, Begin(q) \/ Continue(q)
          PROVE  Holds(r, f)' \/ f \notin disk'
      <3>1. HandsOver(q, f) /\ ~Live(f)'
        BY <2>1, <2>3, StepHandsOver
           DEF Live, Gone, RemoveFails, UploadSaveLitters, UploadUnsaveFails, UnlinkFails
      <3> QED
        BY <3>1 DEF HandsOver, Holds
    <2> QED
      BY <2>1, <2>2, <2>3 DEF Next, Crash
  <1>2. I /\ [Next]_vars /\ Done => Done'
    BY GoneStays, GoneBlobStays
  <1>3. ~(Kept /\ pc[r] = "idle")
    BY DEF Holds
  <1>4. Done => f \notin disk
    OBVIOUS
  <1> HIDE DEF I, Kept, Done
  <1>5. Spec => []I
    BY PendingCorrect DEF I
  <1>6. Spec /\ []<>(pc[r] = "idle") => (Kept ~> [](f \notin disk))
    BY <1>1, <1>2, <1>3, <1>4, <1>5, PTL DEF Spec
  <1> QED
    BY <1>6 DEF Kept

\* If the server is quiet again and again, the blob of every purged file is on disk
\* no more from some time on, as long as no step lets go of it.
THEOREM ReclaimedWhenQuiet ==
  ASSUME NEW f \in Files
  PROVE  Spec /\ [][~LetsGo(f)]_vars /\ []<>(\A r \in Reqs : pc[r] = "idle")
           => (Gone(f) ~> [](f \notin disk))
  <1> DEFINE I == TypeOK /\ PendingInv /\ AccountOf(f)
             Quiet == \A r \in Reqs : pc[r] = "idle"
             Done == Gone(f) /\ f \notin disk
  <1>1. Init => AccountOf(f)
    BY DEF Init, AccountOf
  <1>2. TypeOK /\ PendingInv /\ AccountOf(f) /\ [Next]_vars /\ [~LetsGo(f)]_vars
          => AccountOf(f)'
    <2>1. UNCHANGED vars /\ AccountOf(f) => AccountOf(f)'
      BY DEF vars, AccountOf, Holds, Live
    <2> QED
      BY <2>1, NextAccount
  <1>3. Spec /\ [][~LetsGo(f)]_vars => []I
    BY <1>1, <1>2, PendingCorrect, PTL DEF Spec
  <1>4. I /\ [Next]_vars /\ Gone(f) => Gone(f)'
    BY GoneStays
  <1>5. I /\ [Next]_vars /\ Done => Done'
    BY GoneStays, GoneBlobStays
  <1>6. I /\ Gone(f) /\ Quiet => Done
    BY DEF AccountOf, Holds, Live, Gone
  <1>7. Done => f \notin disk
    OBVIOUS
  <1> HIDE DEF I, Quiet, Done
  <1>8. Spec /\ [][~LetsGo(f)]_vars /\ []<>Quiet => (Gone(f) ~> [](f \notin disk))
    BY <1>3, <1>4, <1>5, <1>6, <1>7, PTL DEF Spec
  <1> QED
    BY <1>8 DEF Quiet
=============================================================================
