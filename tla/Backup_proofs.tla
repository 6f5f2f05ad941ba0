--------------------------- MODULE Backup_proofs ---------------------------
(***************************************************************************)
(* Proofs about Backup: its types, and that an archive is complete whatever *)
(* goes on while it is made.                                                *)
(***************************************************************************)
EXTENDS Backup, TLAPS

(* Databases *)

LEMMA KnownType ==
    ASSUME NEW db \in Databases \cup {None}
    PROVE  /\ Known(db) \in SUBSET Files
           /\ db \notin {None, Torn} => Known(db) = db
BY DEF Known, Databases

LEMMA NoneIsNoDatabase == None \notin Databases
BY BackupAssumption DEF Databases

LEMMA RowsType == TypeOK => Rows \in Databases
BY DEF TypeOK, Rows

LEMMA CheckpointType ==
    ASSUME TypeOK, Checkpoint
    PROVE  main' \in Databases /\ wal' = None
BY RowsType DEF Checkpoint, TypeOK, Databases

LEMMA BreaksType ==
    ASSUME TypeOK, CheckpointBreaks
    PROVE  main' \in Databases /\ wal' = wal
BY DEF CheckpointBreaks, TypeOK, Databases

LEMMA CommitType ==
    ASSUME NEW S \in Databases, Commit(S)
    PROVE  wal' \in Databases
BY DEF Commit, Databases

----------------------------------------------------------------------------
(* The types *)

LEMMA NoLocType == NoLoc \in LocType
BY DEF NoLoc, LocType, Databases

LEMMA TypeInit == Init => TypeOK
BY NoLocType DEF Init, TypeOK, Databases, Steps

\* A step of a request, from what it does to the request.
LEMMA GotoType ==
    ASSUME TypeOK,
           NEW r \in Reqs, NEW step \in Steps, NEW l \in LocType,
           Goto(r, step, l),
           server' = server, server \notin {"starting", "down"},
           step \in {"insert", "unlink", "filling"} => l.file \in Files
    PROVE  /\ pc' \in [Reqs -> Steps]
           /\ loc' \in [Reqs -> LocType]
           /\ \A q \in Reqs : pc'[q] \in {"insert", "unlink", "filling"} => loc'[q].file \in Files
           /\ server' \in {"starting", "down"} => \A q \in Reqs : pc'[q] = "idle"
           /\ server' \in {"up", "closing", "starting", "down"}
BY DEF TypeOK, Goto

\* The end of the process.
LEMMA ExitType ==
    ASSUME TypeOK, NEW failed \in BOOLEAN, Exit(failed)
    PROVE  /\ pc' \in [Reqs -> Steps]
           /\ loc' \in [Reqs -> LocType]
           /\ \A q \in Reqs : pc'[q] = "idle"
           /\ server' \in {"starting", "down"}
           /\ signals' = FALSE
<1>1. server' \in {"starting", "down"}
  BY BackupAssumption DEF Exit, Supervised
<1>2. loc' \in [Reqs -> LocType]
  BY NoLocType DEF Exit
<1> QED  BY <1>1, <1>2 DEF Exit, Steps

LEMMA TypeStep == TypeOK /\ [Next]_vars => TypeOK'
<1> SUFFICES ASSUME TypeOK, [Next]_vars PROVE TypeOK'
  OBVIOUS
<1> USE NoLocType, RowsType, KnownType, NoneIsNoDatabase
<1>1. ASSUME NEW r \in Reqs, NEW f \in Files, UploadSave(r, f) PROVE TypeOK'
  <2>1. [NoLoc EXCEPT !.file = f] \in LocType /\ [NoLoc EXCEPT !.file = f].file = f
    BY DEF LocType
  <2> QED
    BY <1>1, <2>1, GotoType DEF UploadSave, Start, Fresh, TypeOK, process, Steps
<1>2. ASSUME NEW r \in Reqs, UploadInsert(r) PROVE TypeOK'
  <2>1. (IF Rows = Torn THEN Torn ELSE Rows \cup {loc[r].file}) \in Databases
    BY <1>2 DEF UploadInsert, At, TypeOK, Databases
  <2>2. wal' \in Databases
    BY <1>2, <2>1, CommitType DEF UploadInsert
  <2> QED
    BY <1>2, <2>2, GotoType DEF UploadInsert, At, Finish, TypeOK, content, process, Steps
<1>3. ASSUME NEW r \in Reqs, UploadUnsave(r) PROVE TypeOK'
  BY <1>3, GotoType DEF UploadUnsave, Remove, At, Finish, TypeOK, process, Steps
<1>4. ASSUME NEW r \in Reqs, NEW f \in Files, DeleteMark(r, f) PROVE TypeOK'
  <2>1. [NoLoc EXCEPT !.file = f] \in LocType /\ [NoLoc EXCEPT !.file = f].file = f
    BY DEF LocType
  <2>2. (IF Rows = Torn THEN Torn ELSE Rows \ {f}) \in Databases
    BY DEF TypeOK, Databases
  <2>3. wal' \in Databases
    BY <1>4, <2>2, CommitType DEF DeleteMark
  <2> QED
    BY <1>4, <2>1, <2>3, GotoType DEF DeleteMark, Start, TypeOK, content, process, Steps
<1>5. ASSUME NEW r \in Reqs, Unlink(r) PROVE TypeOK'
  BY <1>5, GotoType DEF Unlink, Remove, At, Finish, TypeOK, process, Steps
<1>6. ASSUME AutoCheckpoint PROVE TypeOK'
  BY <1>6, CheckpointType DEF AutoCheckpoint, TypeOK, content, process
<1>7. ASSUME NEW r \in Reqs, BackupBegin(r) PROVE TypeOK'
  <2>1. [NoLoc EXCEPT !.before = Known(Rows)] \in LocType
    BY DEF LocType
  <2>2. main' \in Databases /\ wal' \in Databases \cup {None}
    BY <1>7, CheckpointType DEF BackupBegin, TypeOK
  <2> QED
    BY <1>7, <2>1, <2>2, GotoType DEF BackupBegin, Start, TypeOK, content, process, Steps
<1>8. ASSUME NEW r \in Reqs, BackupUnflushed(r) PROVE TypeOK'
  <2>1. [NoLoc EXCEPT !.before = Known(main)] \in LocType
    BY DEF LocType, TypeOK
  <2>2. main' \in Databases /\ wal' \in Databases \cup {None}
    BY <1>8, BreaksType DEF BackupUnflushed, TypeOK
  <2> QED
    BY <1>8, <2>1, <2>2, GotoType DEF BackupUnflushed, Start, TypeOK, content, process, Steps
<1>9. ASSUME NEW r \in Reqs, BackupCopy(r) PROVE TypeOK'
  <2>1. [loc[r] EXCEPT !.rows = main, !.mixed = main = Torn /\ Rows # Torn] \in LocType
    BY DEF TypeOK, LocType
  <2> QED
    BY <1>9, <2>1, GotoType DEF BackupCopy, At, TypeOK, store, content, process, Steps
<1>10. ASSUME NEW r \in Reqs, BackupChunk(r) PROVE TypeOK'
  <2>1. PICK db \in {main, Torn} : Goto(r, "list", [loc[r] EXCEPT !.rows = db, !.mixed = db = Torn])
    BY <1>10 DEF BackupChunk
  <2>2. loc[r] \in LocType /\ db \in Databases /\ (db = Torn) \in BOOLEAN
    BY DEF TypeOK, Databases
  <2>3. [loc[r] EXCEPT !.rows = db, !.mixed = db = Torn] \in LocType
    BY <2>2 DEF LocType
  <2> QED
    BY <1>10, <2>1, <2>3, GotoType DEF BackupChunk, At, TypeOK, store, content, process, Steps
<1>11. ASSUME NEW r \in Reqs, BackupList(r) PROVE TypeOK'
  <2>1. [loc[r] EXCEPT !.todo = blobs \cup stumps] \in LocType
    BY DEF TypeOK, LocType
  <2> QED
    BY <1>11, <2>1, GotoType DEF BackupList, At, TypeOK, store, content, process, Steps
<1>12. ASSUME NEW r \in Reqs, NEW f \in Files, BackupFile(r, f) PROVE TypeOK'
  <2>1. /\ [loc[r] EXCEPT !.todo = @ \ {f}, !.had = @ \cup {f}] \in LocType
        /\ [loc[r] EXCEPT !.todo = @ \ {f}, !.cut = @ \cup {f}] \in LocType
    BY DEF TypeOK, LocType
  <2> QED
    BY <1>12, <2>1, GotoType DEF BackupFile, Finish, At, TypeOK, store, content, process, Steps
<1>13. ASSUME NEW r \in Reqs, BackupDone(r) PROVE TypeOK'
  <2>1. archive' \in ArchiveType
    BY <1>13 DEF BackupDone, TypeOK, LocType, ArchiveType
  <2> QED
    BY <1>13, <2>1, GotoType DEF BackupDone, Finish, At, TypeOK, store, content, process, Steps
<1>14. ASSUME NEW r \in Reqs, RestoreBegin(r) PROVE TypeOK'
  <2>1. [NoLoc EXCEPT !.rows = archive.rows, !.had = archive.had,
                      !.todo = archive.had \cup archive.cut] \in LocType
    BY <1>14 DEF RestoreBegin, TypeOK, ArchiveType, LocType
  <2> QED
    BY <1>14, <2>1, GotoType DEF RestoreBegin, Start, TypeOK, store, content, process, Steps
<1>15. ASSUME NEW r \in Reqs, RestoreTruncate(r) PROVE TypeOK'
  <2>1. loc[r] \in LocType
    BY DEF TypeOK
  <2>2. main' \in Databases /\ wal' \in Databases \cup {None}
    BY <1>15 DEF RestoreTruncate, TypeOK, Databases
  <2> QED
    BY <1>15, <2>1, <2>2, GotoType DEF RestoreTruncate, At, TypeOK, content, Steps
<1>16. ASSUME NEW r \in Reqs, RestoreCopy(r) PROVE TypeOK'
  <2>1. [loc[r] EXCEPT !.rows = {}] \in LocType /\ loc[r].rows \in Databases
    BY DEF TypeOK, LocType, Databases
  <2> QED
    BY <1>16, <2>1, GotoType DEF RestoreCopy, At, TypeOK, content, process, Steps
<1>17. ASSUME NEW r \in Reqs, RestoreClose(r) PROVE TypeOK'
  <2>1. loc[r] \in LocType
    BY DEF TypeOK
  <2>2. main' \in Databases /\ wal' \in Databases \cup {None}
    BY <1>17, CheckpointType DEF RestoreClose, TypeOK
  <2> QED
    BY <1>17, <2>1, <2>2, GotoType DEF RestoreClose, At, TypeOK, content, Steps
<1>18. ASSUME NEW r \in Reqs, RestoreReopen(r) PROVE TypeOK'
  <2>1. loc[r] \in LocType
    BY DEF TypeOK
  <2> QED
    BY <1>18, <2>1, GotoType DEF RestoreReopen, At, TypeOK, store, content, Steps
<1>19. ASSUME NEW r \in Reqs, NEW f \in Files, RestoreBlob(r, f) PROVE TypeOK'
  <2>1. [loc[r] EXCEPT !.file = f] \in LocType /\ [loc[r] EXCEPT !.file = f].file = f
    BY DEF TypeOK, LocType
  <2> QED
    BY <1>19, <2>1, GotoType DEF RestoreBlob, At, TypeOK, process, Steps
<1>20. ASSUME NEW r \in Reqs, RestoreFill(r) PROVE TypeOK'
  <2>1. [loc[r] EXCEPT !.todo = @ \ {loc[r].file}, !.file = None] \in LocType
    BY DEF TypeOK, LocType
  <2>2. blobs' \subseteq Files /\ stumps' \subseteq Files /\ blobs' \cap stumps' = {}
    BY <1>20 DEF RestoreFill, TypeOK
  <2> QED
    BY <1>20, <2>1, <2>2, GotoType DEF RestoreFill, At, TypeOK, process, Steps
<1>21. ASSUME NEW r \in Reqs, RestoreDone(r) PROVE TypeOK'
  BY <1>21, GotoType DEF RestoreDone, At, TypeOK, store, content, process, Steps
<1>22. ASSUME NEW r \in Reqs, RestoreSignal(r) PROVE TypeOK'
  BY <1>22, GotoType DEF RestoreSignal, Finish, At, TypeOK, store, content, Steps
<1>23. ASSUME NEW r \in Reqs, RestoreFails(r) PROVE TypeOK'
  <2>1. server \notin {"starting", "down"}
    BY <1>23 DEF RestoreFails, TypeOK
  <2> QED
    BY <1>23, <2>1, GotoType DEF RestoreFails, Finish, TypeOK, store, content, process, Steps
<1>24. ASSUME ShutdownBegin PROVE TypeOK'
  BY <1>24 DEF ShutdownBegin, TypeOK, store, content
<1>25. ASSUME Exec PROVE TypeOK'
  <2>1. main' \in Databases /\ wal' \in Databases \cup {None}
    BY <1>25, CheckpointType DEF Exec, TypeOK
  <2> QED
    BY <1>25, <2>1, ExitType DEF Exec, TypeOK, content
<1>26. ASSUME Crash PROVE TypeOK'
  <2>1. main' \in Databases /\ wal' = wal
    BY <1>26, BreaksType DEF Crash
  <2> QED
    BY <1>26, <2>1, ExitType DEF Crash, TypeOK, content
<1>27. ASSUME Boot PROVE TypeOK'
  BY <1>27 DEF Boot, TypeOK, store, content
<1>28. ASSUME BootFails PROVE TypeOK'
  <2>1. server' \in {"starting", "down"}
    BY <1>28, BackupAssumption DEF BootFails, Supervised
  <2> QED
    BY <1>28, <2>1 DEF BootFails, TypeOK, store, content
<1>29. CASE UNCHANGED vars
  BY <1>29 DEF vars, store, content, process, TypeOK
<1> QED
  BY <1>1, <1>2, <1>3, <1>4, <1>5, <1>6, <1>7, <1>8, <1>9, <1>10, <1>11, <1>12, <1>13, <1>14,
     <1>15, <1>16, <1>17, <1>18, <1>19, <1>20, <1>21, <1>22, <1>23, <1>24, <1>25, <1>26,
     <1>27, <1>28, <1>29
  DEF Next, Begin, Continue, Main

\* The types of everything, with what a request at a step may rely on.
THEOREM TypeCorrect == Spec => []TypeOK
BY TypeInit, TypeStep, PTL DEF Spec

----------------------------------------------------------------------------
(* Files that are being uploaded are new, and restores are kept apart *)

\* No database, archive or other request knows a file before its row is inserted.
Unknown(r) ==
    /\ loc[r].file \notin Known(main) \cup Known(wal)
    /\ archive # None => loc[r].file \notin Known(archive.rows)
    /\ \A q \in Reqs : loc[r].file \notin Known(loc[q].rows) \cup loc[q].before
    /\ \A q \in Reqs \ {r} : pc[q] = "insert" => loc[q].file # loc[r].file

PendingInv ==
    /\ \A r \in Reqs : pc[r] = "insert" => Unknown(r)
    /\ \A r \in Reqs : pc[r] \in {"copying", "close"} => replaced
    /\ \A r \in Reqs : pc[r] \in {"reopen", "blobs", "filling", "answered"} => ~svc

LEMMA NoLocFields ==
    /\ NoLoc.file = None /\ NoLoc.rows = {} /\ NoLoc.todo = {}
    /\ NoLoc.had = {} /\ NoLoc.before = {}
    /\ NoLoc.cut = {} /\ NoLoc.mixed = FALSE
BY DEF NoLoc

\* A request's step, record by record.
LEMMA GotoFields ==
    ASSUME TypeOK, NEW r \in Reqs, NEW step, NEW l, Goto(r, step, l)
    PROVE  /\ pc'[r] = step /\ loc'[r] = l
           /\ \A q \in Reqs \ {r} : pc'[q] = pc[q] /\ loc'[q] = loc[q]
BY DEF TypeOK, Goto

LEMMA RequestGoto ==
    ASSUME NEW r \in Reqs, Begin(r) \/ Continue(r)
    PROVE  \E step, l : Goto(r, step, l)
BY DEF Begin, Continue, UploadSave, DeleteMark, BackupBegin, BackupUnflushed, RestoreBegin,
       UploadInsert, UploadUnsave, Unlink, BackupCopy, BackupChunk, BackupList, BackupDone,
       BackupFile, RestoreBlob, RestoreFill, RestoreTruncate, RestoreCopy, RestoreClose, RestoreReopen, RestoreDone,
       RestoreSignal, RestoreFails, Finish

LEMMA KnownNothing == Known({}) = {} /\ Known(None) = {} /\ Known(Torn) = {}
BY BackupAssumption DEF Known

\* What a checkpoint leaves was there before.
LEMMA CheckpointKnown ==
    ASSUME Checkpoint
    PROVE  /\ Known(wal') = {}
           /\ Known(main') \subseteq Known(main) \cup Known(wal)
BY KnownNothing DEF Checkpoint, Rows

LEMMA BreaksKnown ==
    ASSUME CheckpointBreaks
    PROVE  Known(main') \subseteq Known(main) /\ wal' = wal
BY KnownNothing DEF CheckpointBreaks

\* What a transaction leaves is what was there, or what it inserts.
LEMMA CommitKnown ==
    ASSUME TypeOK, NEW f \in Files, NEW S \in {Rows \cup {f}, Rows \ {f}},
           Commit(IF Rows = Torn THEN Torn ELSE S)
    PROVE  Known(wal') \subseteq Known(main) \cup Known(wal) \cup (IF S = Rows \cup {f} THEN {f} ELSE {})
<1>1. Rows \in Databases /\ (Rows # Torn => Known(Rows) = Rows)
  BY RowsType, KnownType, NoneIsNoDatabase
<1>2. Known(Rows) \subseteq Known(main) \cup Known(wal)
  BY DEF Rows
<1>3. CASE Rows = Torn \/ replaced
  BY <1>3, KnownNothing DEF Commit
<1>4. CASE Rows # Torn /\ ~replaced
  <2>1. wal' = S
    BY <1>4 DEF Commit
  <2>2. S \in SUBSET Files
    BY <1>1, <1>4 DEF Databases
  <2>3. Known(S) = S
    BY <2>2, BackupAssumption DEF Known
  <2> QED
    BY <1>1, <1>2, <1>4, <2>1, <2>3
<1> QED
  BY <1>3, <1>4

LEMMA PendingInit == Init => PendingInv
BY DEF Init, PendingInv

\* A step of another kind than those that begin uploads keeps their files unknown
\* if whatever it leaves was known before, or is the file it inserts.
LEMMA PendingGoto ==
    ASSUME TypeOK, PendingInv,
           NEW r \in Reqs, NEW step \in Steps \ {"insert"}, NEW l \in LocType,
           Goto(r, step, l),
           Known(main') \cup Known(wal') \cup Known(l.rows) \cup l.before
              \subseteq (IF pc[r] = "insert" THEN {loc[r].file} ELSE {})
                          \cup Known(main) \cup Known(wal)
                          \cup (IF archive = None THEN {} ELSE Known(archive.rows))
                          \cup Known(loc[r].rows) \cup loc[r].before,
           archive' = archive \/ archive'.rows = loc[r].rows
    PROVE  (\A q \in Reqs : pc[q] = "insert" => Unknown(q))'
<1> SUFFICES ASSUME NEW q \in Reqs, pc'[q] = "insert" PROVE Unknown(q)'
  OBVIOUS
<1>1. q # r /\ pc[q] = "insert" /\ loc'[q] = loc[q]
  BY GotoFields
<1>2. Unknown(q)
  BY <1>1 DEF PendingInv
<1>3. loc[q].file \notin (IF pc[r] = "insert" THEN {loc[r].file} ELSE {})
  BY <1>1, <1>2 DEF Unknown
<1>4. loc[q].file \notin Known(main') \cup Known(wal') \cup Known(l.rows) \cup l.before
  BY <1>2, <1>3 DEF Unknown
<1>5. archive' # None => loc[q].file \notin Known(archive'.rows)
  BY <1>2 DEF Unknown
<1>6. ASSUME NEW p \in Reqs PROVE loc[q].file \notin Known(loc'[p].rows) \cup loc'[p].before
  <2>1. CASE p = r
    BY <1>4, <2>1, GotoFields
  <2>2. CASE p # r
    BY <1>2, <2>2, GotoFields DEF Unknown
  <2> QED
    BY <2>1, <2>2
<1>7. ASSUME NEW p \in Reqs \ {q}, pc'[p] = "insert" PROVE loc'[p].file # loc[q].file
  BY <1>2, <1>7, GotoFields DEF Unknown
<1> QED
  BY <1>1, <1>4, <1>5, <1>6, <1>7 DEF Unknown

LEMMA PendingStep == TypeOK /\ PendingInv /\ [Next]_vars => PendingInv'
<1> SUFFICES ASSUME TypeOK, PendingInv, [Next]_vars PROVE PendingInv'
  OBVIOUS
<1> DEFINE News == \A q \in Reqs : pc[q] = "insert" => Unknown(q)
           Apart == /\ \A q \in Reqs : pc[q] \in {"copying", "close"} => replaced
                    /\ \A q \in Reqs : pc[q] \in {"reopen", "blobs", "filling", "answered"} => ~svc
<1>1. News' /\ Apart' => PendingInv'
  BY DEF PendingInv
<1>a. \A r \in Reqs : loc[r] \in LocType
  BY DEF TypeOK
<1>2. ASSUME NEW r \in Reqs, NEW f \in Files, UploadSave(r, f) PROVE PendingInv'
  <2>1. Goto(r, "insert", [NoLoc EXCEPT !.file = f])
    BY <1>2 DEF UploadSave
  <2>2. /\ loc'[r].file = f /\ loc'[r].rows = {} /\ loc'[r].before = {}
        /\ pc'[r] = "insert"
        /\ \A q \in Reqs \ {r} : pc'[q] = pc[q] /\ loc'[q] = loc[q]
    BY <2>1, GotoFields, NoLocFields, NoLocType DEF LocType
  <2>3. Unknown(r)'
    BY <1>2, <2>2, KnownNothing DEF UploadSave, Fresh, Unknown
  <2>4. ASSUME NEW q \in Reqs \ {r}, pc'[q] = "insert" PROVE Unknown(q)'
    <3>1. Unknown(q) /\ loc'[q] = loc[q] /\ loc[q].file # f
      BY <1>2, <2>2, <2>4 DEF PendingInv, UploadSave, Fresh
    <3> QED
      BY <1>2, <2>2, <3>1, KnownNothing DEF UploadSave, Unknown
  <2>5. Apart'
    BY <1>2, <2>2 DEF UploadSave, process, PendingInv
  <2> QED
    BY <1>1, <2>3, <2>4, <2>5
<1>3. ASSUME NEW r \in Reqs, UploadInsert(r) PROVE PendingInv'
  <2>1. Known(wal') \subseteq Known(main) \cup Known(wal) \cup {loc[r].file}
    BY <1>3, CommitKnown DEF UploadInsert, At, TypeOK
  <2>2. loc[r].file \in Files /\ pc[r] = "insert"
    BY <1>3 DEF UploadInsert, At, TypeOK
  <2>3. News'
    BY <1>3, <2>1, <2>2, PendingGoto, NoLocType, NoLocFields, KnownNothing
    DEF UploadInsert, Finish, Steps
  <2>4. Apart'
    BY <1>3, GotoFields DEF UploadInsert, Finish, process, PendingInv
  <2> QED
    BY <1>1, <2>3, <2>4
<1>4. ASSUME NEW r \in Reqs, UploadUnsave(r) \/ Unlink(r) PROVE PendingInv'
  <2>1. Finish(r) /\ UNCHANGED <<main, wal, archive, process>>
    BY <1>4 DEF UploadUnsave, Unlink
  <2>2. News'
    BY <2>1, PendingGoto, NoLocType, NoLocFields, KnownNothing DEF Finish, Steps
  <2>3. Apart'
    BY <2>1, GotoFields DEF Finish, process, PendingInv
  <2> QED
    BY <1>1, <2>2, <2>3
<1>5. ASSUME NEW r \in Reqs, NEW f \in Files, DeleteMark(r, f) PROVE PendingInv'
  <2>1. Known(wal') \subseteq Known(main) \cup Known(wal)
    <3>1. Known(wal') \subseteq Known(main) \cup Known(wal)
             \cup (IF Rows \ {f} = Rows \cup {f} THEN {f} ELSE {})
      BY <1>5, CommitKnown DEF DeleteMark
    <3>2. Rows \ {f} # Rows \cup {f}
      OBVIOUS
    <3> QED
      BY <3>1, <3>2
  <2> DEFINE l == [NoLoc EXCEPT !.file = f]
  <2>2. l \in LocType /\ l.rows = {} /\ l.before = {}
    BY NoLocType, NoLocFields DEF LocType
  <2>3. Goto(r, "unlink", l) /\ UNCHANGED <<main, content, archive, process>>
    BY <1>5 DEF DeleteMark
  <2> HIDE DEF l
  <2>4. News'
    BY <2>1, <2>2, <2>3, PendingGoto, KnownNothing DEF Steps
  <2>5. Apart'
    BY <2>3, GotoFields DEF process, PendingInv
  <2> QED
    BY <1>1, <2>4, <2>5
<1>6. ASSUME Checkpoint, UNCHANGED <<archive, pc, loc>> PROVE News'
  BY <1>6, CheckpointKnown DEF PendingInv, Unknown
<1>7. ASSUME AutoCheckpoint PROVE PendingInv'
  BY <1>1, <1>6, <1>7 DEF AutoCheckpoint, process, PendingInv
<1>8. ASSUME NEW r \in Reqs, BackupBegin(r) PROVE PendingInv'
  <2> DEFINE l == [NoLoc EXCEPT !.before = Known(Rows)]
  <2>1. l \in LocType /\ l.rows = {} /\ l.before = Known(Rows)
    BY RowsType, KnownType, NoLocType, NoLocFields DEF LocType
  <2>2. Known(main') \cup Known(wal') \subseteq Known(main) \cup Known(wal)
    BY <1>8, CheckpointKnown DEF BackupBegin
  <2>3. Known(Rows) \subseteq Known(main) \cup Known(wal)
    BY DEF Rows
  <2>4. Goto(r, "copyOut", l) /\ UNCHANGED <<content, archive, process>>
    BY <1>8 DEF BackupBegin
  <2> HIDE DEF l
  <2>5. News'
    BY <2>1, <2>2, <2>3, <2>4, PendingGoto, KnownNothing DEF Steps
  <2>6. Apart'
    BY <2>4, GotoFields DEF process, PendingInv
  <2> QED
    BY <1>1, <2>5, <2>6
<1>9. ASSUME NEW r \in Reqs, BackupUnflushed(r) PROVE PendingInv'
  <2> DEFINE l == [NoLoc EXCEPT !.before = Known(main)]
  <2>1. l \in LocType /\ l.rows = {} /\ l.before = Known(main)
    BY KnownType, NoLocType, NoLocFields DEF LocType, TypeOK
  <2>2. Known(main') \cup Known(wal') \subseteq Known(main) \cup Known(wal)
    BY <1>9, BreaksKnown DEF BackupUnflushed
  <2>4. Goto(r, "copyOut", l) /\ UNCHANGED <<content, archive, process>>
    BY <1>9 DEF BackupUnflushed
  <2> HIDE DEF l
  <2>5. News'
    BY <2>1, <2>2, <2>4, PendingGoto, KnownNothing DEF Steps
  <2>6. Apart'
    BY <2>4, GotoFields DEF process, PendingInv
  <2> QED
    BY <1>1, <2>5, <2>6
<1>10. ASSUME NEW r \in Reqs,
             BackupCopy(r) \/ BackupChunk(r) \/ BackupList(r) \/ \E f \in Files : BackupFile(r, f)
      PROVE  PendingInv'
  <2>1. PICK step \in {"list", "walk", "idle"}, l \in LocType :
           /\ Goto(r, step, l)
           /\ Known(l.rows) \cup l.before \subseteq Known(main) \cup Known(loc[r].rows) \cup loc[r].before
    <3>1. CASE BackupCopy(r)
      <4> DEFINE l == [loc[r] EXCEPT !.rows = main, !.mixed = main = Torn /\ Rows # Torn]
      <4>1. l \in LocType /\ l.rows = main /\ l.before = loc[r].before
        BY <1>a DEF LocType, TypeOK
      <4>2. Goto(r, "list", l)
        BY <3>1 DEF BackupCopy
      <4> HIDE DEF l
      <4> QED
        BY <4>1, <4>2
    <3>4. CASE BackupChunk(r)
      <4>1. PICK db \in {main, Torn} :
               Goto(r, "list", [loc[r] EXCEPT !.rows = db, !.mixed = db = Torn])
        BY <3>4 DEF BackupChunk
      <4> DEFINE l == [loc[r] EXCEPT !.rows = db, !.mixed = db = Torn]
      <4>2. l \in LocType /\ l.rows = db /\ l.before = loc[r].before
        BY <1>a DEF LocType, TypeOK, Databases
      <4> HIDE DEF l
      <4> QED
        BY <4>1, <4>2, KnownNothing DEF l
    <3>2. CASE BackupList(r)
      <4> DEFINE l == [loc[r] EXCEPT !.todo = blobs \cup stumps]
      <4>1. l \in LocType /\ l.rows = loc[r].rows /\ l.before = loc[r].before
        BY <1>a DEF LocType, TypeOK
      <4>2. Goto(r, "walk", l)
        BY <3>2 DEF BackupList
      <4> HIDE DEF l
      <4> QED
        BY <4>1, <4>2
    <3>3. ASSUME NEW f \in Files, BackupFile(r, f)
          PROVE  \E step \in {"list", "walk", "idle"}, l \in LocType :
                   /\ Goto(r, step, l)
                   /\ Known(l.rows) \cup l.before \subseteq Known(loc[r].rows) \cup loc[r].before
      <4> DEFINE l == [loc[r] EXCEPT !.todo = @ \ {f}, !.had = @ \cup {f}]
                 m == [loc[r] EXCEPT !.todo = @ \ {f}, !.cut = @ \cup {f}]
      <4>1. /\ l \in LocType /\ l.rows = loc[r].rows /\ l.before = loc[r].before
            /\ m \in LocType /\ m.rows = loc[r].rows /\ m.before = loc[r].before
        BY <1>a DEF LocType
      <4>2. Goto(r, "walk", l) \/ Goto(r, "walk", m) \/ Goto(r, "idle", NoLoc)
        BY <3>3 DEF BackupFile, Finish
      <4> HIDE DEF l, m
      <4> QED
        BY <4>1, <4>2, NoLocType, NoLocFields, KnownNothing
    <3> QED
      BY <1>10, <3>1, <3>2, <3>3, <3>4
  <2>2. UNCHANGED <<store, archive, process>>
    BY <1>10 DEF BackupCopy, BackupChunk, BackupList, BackupFile
  <2>3. News'
    BY <2>1, <2>2, PendingGoto DEF store, Steps
  <2>4. Apart'
    BY <2>1, <2>2, GotoFields DEF process, PendingInv
  <2> QED
    BY <1>1, <2>3, <2>4
<1>11. ASSUME NEW r \in Reqs, BackupDone(r) PROVE PendingInv'
  <2>1. /\ Goto(r, "idle", NoLoc) /\ UNCHANGED <<store, process>>
        /\ archive'.rows = loc[r].rows /\ archive' \in ArchiveType
    BY <1>11, <1>a DEF BackupDone, Finish, LocType, ArchiveType
  <2>2. News'
    BY <2>1, PendingGoto, NoLocType, NoLocFields, KnownNothing DEF store, Steps
  <2>3. Apart'
    BY <2>1, GotoFields DEF process, PendingInv
  <2> QED
    BY <1>1, <2>2, <2>3
<1>12. ASSUME NEW r \in Reqs, RestoreBegin(r) PROVE PendingInv'
  <2> DEFINE l == [NoLoc EXCEPT !.rows = archive.rows, !.had = archive.had,
                                !.todo = archive.had \cup archive.cut]
  <2>1. l \in LocType /\ l.rows = archive.rows /\ l.before = {}
    BY <1>12, NoLocType, NoLocFields DEF RestoreBegin, TypeOK, ArchiveType, LocType
  <2>2. Goto(r, "copyIn", l) /\ archive # None /\ UNCHANGED <<store, archive, process>>
    BY <1>12 DEF RestoreBegin
  <2> HIDE DEF l
  <2>3. News'
    BY <2>1, <2>2, PendingGoto DEF store, Steps
  <2>4. Apart'
    BY <2>2, GotoFields DEF process, PendingInv
  <2> QED
    BY <1>1, <2>3, <2>4
<1>13. ASSUME NEW r \in Reqs, RestoreTruncate(r) PROVE PendingInv'
  <2>1. Goto(r, "copying", loc[r]) /\ Known(main') = {} /\ Known(wal') = {}
    BY <1>13, KnownNothing DEF RestoreTruncate
  <2>2. News'
    BY <1>13, <2>1, <1>a, PendingGoto DEF RestoreTruncate, Steps
  <2>3. Apart'
    BY <1>13, <2>1, GotoFields DEF RestoreTruncate, PendingInv
  <2> QED
    BY <1>1, <2>2, <2>3
<1>14. ASSUME NEW r \in Reqs, RestoreCopy(r) PROVE PendingInv'
  <2> DEFINE l == [loc[r] EXCEPT !.rows = {}]
  <2>1. l \in LocType /\ l.rows = {} /\ l.before = loc[r].before
    BY <1>a DEF LocType, Databases
  <2>2. /\ pc[r] = "copying" /\ Goto(r, "close", l) /\ main' = loc[r].rows
        /\ UNCHANGED <<wal, content, archive, process>>
    BY <1>14 DEF RestoreCopy, At
  <2> HIDE DEF l
  <2>3. News'
    BY <2>1, <2>2, PendingGoto, KnownNothing DEF Steps
  <2>4. Apart'
    BY <2>2, GotoFields DEF process, PendingInv
  <2> QED
    BY <1>1, <2>3, <2>4
<1>15. ASSUME NEW r \in Reqs, RestoreClose(r) PROVE PendingInv'
  <2>1. Known(main') \cup Known(wal') \subseteq Known(main) \cup Known(wal)
    BY <1>15, CheckpointKnown DEF RestoreClose
  <2>2. News'
    BY <1>15, <2>1, <1>a, PendingGoto DEF RestoreClose, Steps
  <2>3. Apart'
    BY <1>15, GotoFields DEF RestoreClose, PendingInv
  <2> QED
    BY <1>1, <2>2, <2>3
<1>16. ASSUME NEW r \in Reqs, RestoreReopen(r) PROVE PendingInv'
  <2>1. News'
    BY <1>16, <1>a, PendingGoto DEF RestoreReopen, store, Steps
  <2>2. Apart'
    BY <1>16, GotoFields DEF RestoreReopen, At, PendingInv
  <2> QED
    BY <1>1, <2>1, <2>2
<1>17. ASSUME NEW r \in Reqs, RestoreFill(r) \/ \E f \in Files : RestoreBlob(r, f)
       PROVE  PendingInv'
  <2>1. PICK step \in {"blobs", "filling"}, l \in LocType :
           Goto(r, step, l) /\ l.rows = loc[r].rows /\ l.before = loc[r].before
    <3>1. CASE RestoreFill(r)
      <4> DEFINE l == [loc[r] EXCEPT !.todo = @ \ {loc[r].file}, !.file = None]
      <4>1. l \in LocType /\ l.rows = loc[r].rows /\ l.before = loc[r].before
        BY <1>a DEF LocType
      <4>2. Goto(r, "blobs", l)
        BY <3>1 DEF RestoreFill
      <4> HIDE DEF l
      <4> QED
        BY <4>1, <4>2
    <3>2. ASSUME NEW f \in Files, RestoreBlob(r, f)
          PROVE  \E l \in LocType : Goto(r, "filling", l) /\ l.rows = loc[r].rows
                                                       /\ l.before = loc[r].before
      <4> DEFINE l == [loc[r] EXCEPT !.file = f]
      <4>1. l \in LocType /\ l.rows = loc[r].rows /\ l.before = loc[r].before
        BY <1>a DEF LocType
      <4>2. Goto(r, "filling", l)
        BY <3>2 DEF RestoreBlob
      <4> HIDE DEF l
      <4> QED
        BY <4>1, <4>2
    <3> QED
      BY <1>17, <3>1, <3>2
  <2>2. pc[r] \in {"blobs", "filling"} /\ UNCHANGED <<main, wal, archive, process>>
    BY <1>17 DEF RestoreBlob, RestoreFill, At
  <2>3. News'
    BY <2>1, <2>2, PendingGoto DEF Steps
  <2>4. Apart'
    BY <2>1, <2>2, GotoFields DEF process, PendingInv
  <2> QED
    BY <1>1, <2>3, <2>4
<1>18. ASSUME NEW r \in Reqs, RestoreDone(r) \/ RestoreSignal(r) \/ RestoreFails(r)
       PROVE  PendingInv'
  <2>1. PICK step \in {"answered", "idle"} :
           Goto(r, step, NoLoc) /\ (step = "answered" => pc[r] = "blobs")
    BY <1>18 DEF RestoreDone, RestoreSignal, RestoreFails, Finish, At
  <2>2. UNCHANGED <<store, archive, replaced, svc>>
    BY <1>18 DEF RestoreDone, RestoreSignal, RestoreFails, process
  <2>3. News'
    BY <2>1, <2>2, PendingGoto, NoLocType, NoLocFields, KnownNothing DEF store, Steps
  <2>4. Apart'
    BY <2>1, <2>2, GotoFields DEF PendingInv
  <2> QED
    BY <1>1, <2>3, <2>4
<1>19. ASSUME Exec \/ Crash PROVE PendingInv'
  BY <1>1, <1>19, ExitType DEF Exec, Crash
<1>20. ASSUME Boot PROVE PendingInv'
  <2>1. \A q \in Reqs : pc'[q] = "idle"
    BY <1>20 DEF Boot, TypeOK
  <2> QED
    BY <1>1, <2>1
<1>21. ASSUME ShutdownBegin \/ BootFails \/ UNCHANGED vars PROVE PendingInv'
  <2>1. UNCHANGED <<main, wal, archive, replaced, svc, pc, loc>>
    BY <1>21 DEF ShutdownBegin, BootFails, vars, store, process
  <2> QED
    BY <2>1 DEF PendingInv, Unknown
<1> QED
  BY <1>2, <1>3, <1>4, <1>5, <1>7, <1>8, <1>9, <1>10, <1>11, <1>12, <1>13, <1>14, <1>15,
     <1>16, <1>17, <1>18, <1>19, <1>20, <1>21
  DEF Next, Begin, Continue, Main

LEMMA PendingCorrect == Spec => []PendingInv
<1>1. TypeOK /\ PendingInv /\ [Next]_vars => PendingInv'
  BY PendingStep
<1> QED
  BY PendingInit, <1>1, TypeCorrect, PTL DEF Spec

----------------------------------------------------------------------------
(* Backups under way *)

Current == Known(main) \cup Known(wal)

\* As long as no restore interferes: what the backup of r found when it began is
\* deleted by now or is in what r copies and in what it has copied, if they are not
\* torn; and a row that r has copied lacks its whole blob by now or r has it or will
\* look for it.
BackupOf(r) ==
    svc /\ ~replaced =>
       /\ pc[r] \in {"copyOut", "list"} =>
             main = Torn \/ loc[r].before \cap Current \subseteq Known(main)
       /\ pc[r] \in {"list", "walk"} =>
             loc[r].rows = Torn \/ loc[r].before \cap Current \subseteq Known(loc[r].rows)
       /\ pc[r] = "walk" =>
             Known(loc[r].rows) \cap Current \cap blobs \subseteq loc[r].had \cup loc[r].todo

BackupInv == \A r \in Reqs : BackupOf(r)

\* A backup does not notice the steps of others.
LEMMA OthersBackup ==
    ASSUME NEW q \in Reqs, BackupOf(q),
           pc'[q] = pc[q], loc'[q] = loc[q],
           svc' /\ ~replaced' => svc /\ ~replaced
              /\ (main' \in {main, Torn} \/ Known(wal') = {})
              /\ Current' \cap (Known(loc[q].rows) \cup loc[q].before) \subseteq Current
              /\ blobs' \cap Known(loc[q].rows) \subseteq blobs
    PROVE  BackupOf(q)'
<1> SUFFICES ASSUME svc', ~replaced' PROVE BackupOf(q)'
  BY DEF BackupOf
<1>1. pc[q] \in {"copyOut", "list"} =>
         main' = Torn \/ loc[q].before \cap Current' \subseteq Known(main')
  BY DEF BackupOf, Current
<1>2. pc[q] \in {"list", "walk"} =>
         loc[q].rows = Torn \/ loc[q].before \cap Current' \subseteq Known(loc[q].rows)
  BY DEF BackupOf
<1>3. pc[q] = "walk" =>
         Known(loc[q].rows) \cap Current' \cap blobs' \subseteq loc[q].had \cup loc[q].todo
  BY DEF BackupOf
<1> QED
  BY <1>1, <1>2, <1>3 DEF BackupOf

LEMMA NoBackup ==
    ASSUME NEW r \in Reqs, pc'[r] \notin {"copyOut", "list", "walk"}
    PROVE  BackupOf(r)'
BY DEF BackupOf

LEMMA BackupInit == Init => BackupInv
BY DEF Init, BackupInv, BackupOf

LEMMA BackupStep == TypeOK /\ PendingInv /\ BackupInv /\ [Next]_vars => BackupInv'
<1> SUFFICES ASSUME TypeOK, PendingInv, BackupInv, [Next]_vars PROVE BackupInv'
  OBVIOUS
<1>a. \A r \in Reqs : loc[r] \in LocType
  BY DEF TypeOK
<1>b. Checkpoint => Known(wal') = {} /\ Current' \subseteq Current
  BY CheckpointKnown DEF Current
<1>c. CheckpointBreaks => main' \in {main, Torn} /\ Current' \subseteq Current
  BY BreaksKnown DEF Current, CheckpointBreaks
<1>1. ASSUME NEW r \in Reqs, NEW f \in Files, UploadSave(r, f) PROVE BackupInv'
  <2>1. Goto(r, "insert", [NoLoc EXCEPT !.file = f])
        /\ UNCHANGED <<main, wal, archive, process>> /\ blobs' = blobs \cup {f}
    BY <1>1 DEF UploadSave
  <2>2. ASSUME NEW q \in Reqs \ {r} PROVE BackupOf(q)'
    <3>1. f \notin Known(loc[q].rows)
      BY <1>1 DEF UploadSave, Fresh
    <3> QED
      BY <2>1, <3>1, GotoFields, OthersBackup DEF BackupInv, process, Current, Steps
  <2> QED
    BY <2>1, <2>2, GotoFields, NoBackup DEF BackupInv, Steps
<1>2. ASSUME NEW r \in Reqs, UploadInsert(r) PROVE BackupInv'
  <2>1. /\ pc[r] = "insert" /\ loc[r].file \in Files
        /\ Goto(r, "idle", NoLoc) /\ UNCHANGED <<main, content, archive, process>>
    BY <1>2 DEF UploadInsert, At, Finish, TypeOK
  <2>2. Current' \subseteq Current \cup {loc[r].file}
    BY <1>2, <2>1, CommitKnown DEF UploadInsert, Current
  <2>3. ASSUME NEW q \in Reqs \ {r} PROVE BackupOf(q)'
    <3>1. loc[r].file \notin Known(loc[q].rows) \cup loc[q].before
      BY <2>1 DEF PendingInv, Unknown
    <3> QED
      BY <2>1, <2>2, <3>1, GotoFields, OthersBackup DEF BackupInv, content, process
  <2> QED
    BY <2>1, <2>3, GotoFields, NoBackup DEF BackupInv
<1>3. ASSUME NEW r \in Reqs, UploadUnsave(r) \/ Unlink(r) PROVE BackupInv'
  <2>1. Goto(r, "idle", NoLoc) /\ UNCHANGED <<main, wal, archive, process>> /\ blobs' \subseteq blobs
    BY <1>3 DEF UploadUnsave, Unlink, Remove, Finish
  <2> QED
    BY <2>1, GotoFields, NoBackup, OthersBackup DEF BackupInv, process, Current
<1>4. ASSUME NEW r \in Reqs, NEW f \in Files, DeleteMark(r, f) PROVE BackupInv'
  <2>1. Current' \subseteq Current
    <3>1. Known(wal') \subseteq Known(main) \cup Known(wal)
             \cup (IF Rows \ {f} = Rows \cup {f} THEN {f} ELSE {})
      BY <1>4, CommitKnown DEF DeleteMark
    <3>2. Rows \ {f} # Rows \cup {f}
      OBVIOUS
    <3> QED
      BY <1>4, <3>1, <3>2 DEF DeleteMark, Current
  <2>2. Goto(r, "unlink", [NoLoc EXCEPT !.file = f]) /\ UNCHANGED <<main, content, archive, process>>
    BY <1>4 DEF DeleteMark
  <2> QED
    BY <2>1, <2>2, GotoFields, NoBackup, OthersBackup DEF BackupInv, content, process
<1>5. ASSUME AutoCheckpoint PROVE BackupInv'
  BY <1>5, <1>b, OthersBackup DEF AutoCheckpoint, BackupInv, content, process
<1>6. ASSUME NEW r \in Reqs, BackupBegin(r) \/ BackupUnflushed(r) PROVE BackupInv'
  <2>1. PICK l : Goto(r, "copyOut", l)
    BY <1>6 DEF BackupBegin, BackupUnflushed
  <2>2. UNCHANGED <<content, archive, process>>
    BY <1>6 DEF BackupBegin, BackupUnflushed
  <2>3. /\ Current' \subseteq Current
        /\ main' \in {main, Torn} \/ Known(wal') = {}
    BY <1>6, <1>b, <1>c DEF BackupBegin, BackupUnflushed, Current
  <2>4. BackupOf(r)'
    <3>1. CASE BackupBegin(r)
      <4>1. Known(wal') = {} /\ pc'[r] = "copyOut"
        BY <1>b, <2>1, <3>1, GotoFields DEF BackupBegin
      <4> QED
        BY <4>1 DEF BackupOf, Current
    <3>2. CASE BackupUnflushed(r)
      <4> DEFINE m == [NoLoc EXCEPT !.before = Known(main)]
      <4>1. m.before = Known(main)
        BY NoLocType DEF LocType
      <4>2. Goto(r, "copyOut", m) /\ main' \in {main, Torn}
        BY <1>c, <3>2 DEF BackupUnflushed
      <4> HIDE DEF m
      <4> QED
        BY <4>1, <4>2, GotoFields DEF BackupOf
    <3> QED
      BY <1>6, <3>1, <3>2
  <2> QED
    BY <2>1, <2>2, <2>3, <2>4, GotoFields, OthersBackup DEF BackupInv, content, process
<1>7. ASSUME NEW r \in Reqs, BackupCopy(r) \/ BackupChunk(r) PROVE BackupInv'
  <2>1. PICK db \in {main, Torn}, mixed \in BOOLEAN :
           Goto(r, "list", [loc[r] EXCEPT !.rows = db, !.mixed = mixed])
    BY <1>7 DEF BackupCopy, BackupChunk
  <2> DEFINE l == [loc[r] EXCEPT !.rows = db, !.mixed = mixed]
  <2>2. l.rows = db /\ l.before = loc[r].before /\ Goto(r, "list", l)
    BY <1>a, <2>1 DEF LocType
  <2> HIDE DEF l
  <2>3. /\ pc'[r] = "list" /\ loc'[r].rows = db /\ loc'[r].before = loc[r].before
        /\ \A q \in Reqs \ {r} : pc'[q] = pc[q] /\ loc'[q] = loc[q]
        /\ pc[r] \in {"copyOut", "list"} /\ UNCHANGED <<store, archive, process>>
    BY <1>7, <2>2, GotoFields DEF BackupCopy, BackupChunk, At
  <2>4. BackupOf(r)'
    BY <2>3 DEF BackupInv, BackupOf, Current, store, process
  <2> QED
    BY <2>3, <2>4, OthersBackup DEF BackupInv, store, content, process, Current
<1>8. ASSUME NEW r \in Reqs, BackupList(r) PROVE BackupInv'
  <2>1. /\ pc'[r] = "walk" /\ loc'[r].rows = loc[r].rows
        /\ loc'[r].before = loc[r].before /\ loc'[r].todo = blobs \cup stumps
        /\ \A q \in Reqs \ {r} : pc'[q] = pc[q] /\ loc'[q] = loc[q]
        /\ pc[r] = "list" /\ UNCHANGED <<store, archive, process>>
    BY <1>8, <1>a, GotoFields DEF BackupList, At, LocType
  <2>2. BackupOf(r)'
    BY <2>1 DEF BackupInv, BackupOf, Current, store, content, process
  <2> QED
    BY <2>1, <2>2, OthersBackup DEF BackupInv, store, content, process, Current
<1>9. ASSUME NEW r \in Reqs, NEW f \in Files, BackupFile(r, f) PROVE BackupInv'
  <2>1. /\ \A q \in Reqs \ {r} : pc'[q] = pc[q] /\ loc'[q] = loc[q]
        /\ pc[r] = "walk" /\ UNCHANGED <<store, archive, process>>
    BY <1>9, GotoFields DEF BackupFile, Finish, At
  <2>2. CASE f \in blobs
    <3>1. /\ pc'[r] = "walk" /\ loc'[r].rows = loc[r].rows /\ loc'[r].before = loc[r].before
          /\ loc'[r].todo = loc[r].todo \ {f} /\ loc'[r].had = loc[r].had \cup {f}
      <4> DEFINE l == [loc[r] EXCEPT !.todo = @ \ {f}, !.had = @ \cup {f}]
      <4>1. /\ l.rows = loc[r].rows /\ l.before = loc[r].before
            /\ l.todo = loc[r].todo \ {f} /\ l.had = loc[r].had \cup {f}
        BY <1>a DEF LocType
      <4>2. f \notin stumps
        BY <2>2 DEF TypeOK
      <4>3. Goto(r, "walk", l)
        BY <1>9, <2>2, <4>2 DEF BackupFile
      <4> HIDE DEF l
      <4> QED
        BY <4>1, <4>3, GotoFields
    <3>2. BackupOf(r)'
      BY <2>1, <3>1 DEF BackupInv, BackupOf, Current, store, content, process
    <3> QED
      BY <2>1, <3>2, OthersBackup DEF BackupInv, store, content, process, Current
  <2>3. CASE f \in stumps
    <3>1. f \notin blobs
      BY <2>3 DEF TypeOK
    <3>2. /\ pc'[r] = "walk" /\ loc'[r].rows = loc[r].rows /\ loc'[r].before = loc[r].before
          /\ loc'[r].todo = loc[r].todo \ {f} /\ loc'[r].had = loc[r].had
      <4> DEFINE l == [loc[r] EXCEPT !.todo = @ \ {f}, !.cut = @ \cup {f}]
      <4>1. /\ l.rows = loc[r].rows /\ l.before = loc[r].before
            /\ l.todo = loc[r].todo \ {f} /\ l.had = loc[r].had
        BY <1>a DEF LocType
      <4>2. Goto(r, "walk", l)
        BY <1>9, <2>3, <3>1 DEF BackupFile
      <4> HIDE DEF l
      <4> QED
        BY <4>1, <4>2, GotoFields
    <3>3. BackupOf(r)'
      BY <2>1, <3>1, <3>2 DEF BackupInv, BackupOf, Current, store, content, process
    <3> QED
      BY <2>1, <3>3, OthersBackup DEF BackupInv, store, content, process, Current
  <2>4. CASE f \notin blobs \cup stumps
    <3>1. pc'[r] = "idle"
      BY <1>9, <2>4, GotoFields DEF BackupFile, Finish
    <3> QED
      BY <2>1, <3>1, NoBackup, OthersBackup DEF BackupInv, store, content, process, Current
  <2> QED
    BY <2>2, <2>3, <2>4
<1>10. ASSUME NEW r \in Reqs,
              BackupDone(r) \/ RestoreBegin(r) \/ RestoreReopen(r) \/ RestoreDone(r)
                \/ RestoreSignal(r) \/ RestoreFails(r)
       PROVE  BackupInv'
  <2>1. PICK step, l : step \in {"idle", "copyIn", "blobs", "answered"} /\ Goto(r, step, l)
    BY <1>10 DEF BackupDone, RestoreBegin, RestoreReopen, RestoreDone, RestoreSignal,
                 RestoreFails, Finish
  <2>2. UNCHANGED <<store, replaced, svc>>
    BY <1>10 DEF BackupDone, RestoreBegin, RestoreReopen, RestoreDone, RestoreSignal,
                 RestoreFails, process
  <2> QED
    BY <2>1, <2>2, GotoFields, NoBackup, OthersBackup DEF BackupInv, store, content, Current
<1>11. ASSUME NEW r \in Reqs,
              RestoreTruncate(r) \/ RestoreCopy(r) \/ RestoreClose(r) \/ RestoreFill(r)
                \/ \E f \in Files : RestoreBlob(r, f)
       PROVE  BackupInv'
  <2>1. replaced' \/ ~svc'
    <3>1. CASE RestoreTruncate(r) \/ RestoreClose(r)
      BY <3>1 DEF RestoreTruncate, RestoreClose
    <3>2. CASE RestoreCopy(r)
      BY <3>2 DEF RestoreCopy, At, process, PendingInv
    <3>3. CASE RestoreFill(r) \/ \E f \in Files : RestoreBlob(r, f)
      BY <3>3 DEF RestoreBlob, RestoreFill, At, process, PendingInv
    <3> QED
      BY <1>11, <3>1, <3>2, <3>3
  <2> QED
    BY <2>1 DEF BackupInv, BackupOf
<1>12. ASSUME Exec \/ Crash \/ Boot \/ BootFails PROVE BackupInv'
  <2>1. \A q \in Reqs : pc'[q] = "idle"
    BY <1>12, ExitType DEF Exec, Crash, Boot, BootFails, TypeOK
  <2> QED
    BY <2>1, NoBackup DEF BackupInv
<1>13. ASSUME ShutdownBegin \/ UNCHANGED vars PROVE BackupInv'
  BY <1>13, OthersBackup DEF ShutdownBegin, vars, store, content, process, BackupInv, Current
<1> QED
  BY <1>1, <1>2, <1>3, <1>4, <1>5, <1>6, <1>7, <1>8, <1>9, <1>10, <1>11, <1>12, <1>13
  DEF Next, Begin, Continue, Main

LEMMA BackupCorrect == Spec => []BackupInv
<1>1. TypeOK /\ PendingInv /\ BackupInv /\ [Next]_vars => BackupInv'
  BY BackupStep
<1> QED
  BY BackupInit, <1>1, TypeCorrect, PendingCorrect, PTL DEF Spec

----------------------------------------------------------------------------
(* Damage comes from restores only *)

\* A database file that has been overwritten has no log but a damaged one; until a
\* restore overwrites the file the services keep their connection; and a backup has a
\* torn copy, though the file was not written to meanwhile, only if the database is
\* torn, log and all, and stays so.
DamageInv ==
    /\ replaced => wal \in {None, Torn}
    /\ ~replaced => svc
    /\ \A r \in Reqs :
         ~replaced /\ pc[r] \in {"list", "walk"} /\ loc[r].rows = Torn /\ ~loc[r].mixed
            => main = Torn /\ wal \in {None, Torn}

\* What a step does to the database.
StoreStep ==
    \/ UNCHANGED <<main, wal, replaced>> /\ (svc' = svc \/ replaced)
    \/ Checkpoint /\ replaced' = replaced /\ (svc' = svc \/ replaced)
    \/ CheckpointBreaks /\ replaced' = replaced /\ svc' = svc
    \/ /\ \E S : Commit(S) /\ (Rows = Torn => S = Torn)
       /\ UNCHANGED <<main, replaced, svc>>
    \/ replaced' /\ (wal' \in {None, Torn} \/ (replaced /\ wal' = wal))
    \/ Boot

LEMMA StoreSteps ==
    ASSUME TypeOK, PendingInv, [Next]_vars
    PROVE  StoreStep
<1>1. ASSUME NEW r \in Reqs, NEW f \in Files,
             UploadSave(r, f) \/ BackupFile(r, f) \/ RestoreBlob(r, f)
      PROVE  StoreStep
  BY <1>1 DEF StoreStep, UploadSave, BackupFile, RestoreBlob, store, process
<1>2. ASSUME NEW r \in Reqs, NEW f \in Files, DeleteMark(r, f) PROVE StoreStep
  BY <1>2 DEF StoreStep, DeleteMark, process
<1>3. ASSUME NEW r \in Reqs, UploadInsert(r) PROVE StoreStep
  BY <1>3 DEF StoreStep, UploadInsert, process
<1>4. ASSUME NEW r \in Reqs, RestoreTruncate(r) \/ RestoreCopy(r) PROVE StoreStep
  BY <1>4 DEF StoreStep, RestoreTruncate, RestoreCopy, At, process, PendingInv
<1>5. ASSUME NEW r \in Reqs, RestoreClose(r) PROVE StoreStep
  BY <1>5 DEF StoreStep, RestoreClose, At, PendingInv
<1>6. ASSUME NEW r \in Reqs, BackupBegin(r) \/ BackupUnflushed(r) PROVE StoreStep
  BY <1>6 DEF StoreStep, BackupBegin, BackupUnflushed, process
<1>7. ASSUME NEW r \in Reqs,
             \/ UploadUnsave(r) \/ Unlink(r) \/ BackupCopy(r) \/ BackupChunk(r) \/ BackupList(r)
             \/ BackupDone(r) \/ RestoreBegin(r) \/ RestoreReopen(r) \/ RestoreFill(r)
             \/ RestoreDone(r) \/ RestoreSignal(r) \/ RestoreFails(r)
      PROVE  StoreStep
  BY <1>7 DEF StoreStep, UploadUnsave, Unlink, BackupCopy, BackupChunk, BackupList, BackupDone,
              RestoreBegin, RestoreReopen, RestoreFill, RestoreDone, RestoreSignal,
              RestoreFails, store, process
<1>8. ASSUME AutoCheckpoint \/ ShutdownBegin \/ Exec \/ Crash \/ BootFails \/ UNCHANGED vars
      PROVE  StoreStep
  BY <1>8 DEF StoreStep, AutoCheckpoint, ShutdownBegin, Exec, Crash, BootFails, vars, store,
              process
<1> QED
  BY <1>1, <1>2, <1>3, <1>4, <1>5, <1>6, <1>7, <1>8
  DEF Next, Begin, Continue, Main, StoreStep

\* The copy of a backup is torn, without a write to the file, only if it was before or
\* the database is.
LEMMA CopiedRows ==
    ASSUME TypeOK, [Next]_vars, NEW r \in Reqs,
           pc'[r] \in {"list", "walk"}, loc'[r].rows = Torn, ~loc'[r].mixed
    PROVE  \/ pc[r] \in {"list", "walk"} /\ loc[r].rows = Torn /\ ~loc[r].mixed
           \/ main = Torn /\ Rows = Torn /\ UNCHANGED <<main, wal>>
<1> DEFINE Same == pc[r] \in {"list", "walk"} /\ loc[r].rows = Torn /\ ~loc[r].mixed
<1>a. loc[r] \in LocType
  BY DEF TypeOK
<1>1. CASE UNCHANGED <<pc, loc>>
  BY <1>1
<1>2. CASE Exec \/ Crash
  BY <1>2, ExitType DEF Exec, Crash
<1>3. ASSUME NEW q \in Reqs, NEW step, NEW l, Goto(q, step, l),
             q # r \/ step \notin {"list", "walk"}
      PROVE  Same
  BY <1>3, GotoFields
<1>4. CASE BackupCopy(r)
  <2> DEFINE l == [loc[r] EXCEPT !.rows = main, !.mixed = main = Torn /\ Rows # Torn]
  <2>1. l.rows = main /\ l.mixed = (main = Torn /\ Rows # Torn)
    BY <1>a DEF LocType
  <2>2. Goto(r, "list", l) /\ UNCHANGED <<main, wal>>
    BY <1>4 DEF BackupCopy, store
  <2> HIDE DEF l
  <2> QED
    BY <2>1, <2>2, GotoFields
<1>5. ~BackupChunk(r)
  <2> SUFFICES ASSUME NEW db \in {main, Torn},
                      Goto(r, "list", [loc[r] EXCEPT !.rows = db, !.mixed = db = Torn])
               PROVE  FALSE
    BY DEF BackupChunk
  <2> DEFINE l == [loc[r] EXCEPT !.rows = db, !.mixed = db = Torn]
  <2>1. l.rows = db /\ l.mixed = (db = Torn)
    BY <1>a DEF LocType
  <2>2. Goto(r, "list", l)
    OBVIOUS
  <2> HIDE DEF l
  <2> QED
    BY <2>1, <2>2, GotoFields
<1>6. CASE BackupList(r)
  <2> DEFINE l == [loc[r] EXCEPT !.todo = blobs \cup stumps]
  <2>1. l.rows = loc[r].rows /\ l.mixed = loc[r].mixed
    BY <1>a DEF LocType
  <2>2. pc[r] = "list" /\ Goto(r, "walk", l)
    BY <1>6 DEF BackupList, At
  <2> HIDE DEF l
  <2> QED
    BY <2>1, <2>2, GotoFields
<1>7. ASSUME NEW f \in Files, BackupFile(r, f) PROVE Same
  <2> DEFINE l == [loc[r] EXCEPT !.todo = @ \ {f}, !.had = @ \cup {f}]
             m == [loc[r] EXCEPT !.todo = @ \ {f}, !.cut = @ \cup {f}]
  <2>1. /\ l.rows = loc[r].rows /\ l.mixed = loc[r].mixed
        /\ m.rows = loc[r].rows /\ m.mixed = loc[r].mixed
    BY <1>a DEF LocType
  <2>2. /\ pc[r] = "walk"
        /\ Goto(r, "walk", l) \/ Goto(r, "walk", m) \/ Goto(r, "idle", NoLoc)
    BY <1>7 DEF BackupFile, At, Finish
  <2> HIDE DEF l, m
  <2> QED
    BY <2>1, <2>2, GotoFields
<1>8. ASSUME NEW q \in Reqs, Begin(q) \/ Continue(q), q # r PROVE Same
  BY <1>3, <1>8, RequestGoto
<1>9. ASSUME Begin(r) PROVE Same
  <2>1. ASSUME NEW f \in Files, UploadSave(r, f) \/ DeleteMark(r, f)
        PROVE  \E step \in {"insert", "unlink"} : \E l : Goto(r, step, l)
    BY <2>1 DEF UploadSave, DeleteMark
  <2>2. ASSUME BackupBegin(r) \/ BackupUnflushed(r) \/ RestoreBegin(r)
        PROVE  \E step \in {"copyOut", "copyIn"} : \E l : Goto(r, step, l)
    BY <2>2 DEF BackupBegin, BackupUnflushed, RestoreBegin
  <2> QED
    BY <1>3, <1>9, <2>1, <2>2 DEF Begin
<1>10. ASSUME \/ UploadInsert(r) \/ UploadUnsave(r) \/ Unlink(r) \/ BackupDone(r)
              \/ RestoreTruncate(r) \/ RestoreCopy(r) \/ RestoreClose(r) \/ RestoreReopen(r)
              \/ RestoreFill(r) \/ RestoreDone(r) \/ RestoreSignal(r) \/ RestoreFails(r)
              \/ \E f \in Files : RestoreBlob(r, f)
       PROVE  Same
  <2>1. \E step \in Steps \ {"list", "walk"} : \E l : Goto(r, step, l)
    BY <1>10 DEF Steps, UploadInsert, UploadUnsave, Unlink, BackupDone, RestoreTruncate, RestoreCopy,
                 RestoreClose, RestoreReopen, RestoreFill, RestoreDone, RestoreSignal,
                 RestoreFails, RestoreBlob, Finish
  <2> QED
    BY <1>3, <2>1
<1> QED
  BY <1>1, <1>2, <1>4, <1>5, <1>6, <1>7, <1>8, <1>9, <1>10
  DEF Next, Continue, Main, AutoCheckpoint, ShutdownBegin, Boot, BootFails, vars

LEMMA DamageStep == TypeOK /\ PendingInv /\ DamageInv /\ [Next]_vars => DamageInv'
<1> SUFFICES ASSUME TypeOK, PendingInv, DamageInv, [Next]_vars PROVE DamageInv'
  OBVIOUS
<1>1. CASE Boot
  <2>1. \A r \in Reqs : pc'[r] = "idle"
    BY <1>1 DEF Boot, TypeOK
  <2> QED
    BY <1>1, <2>1 DEF Boot, store, DamageInv
<1>2. CASE ~Boot
  <2>1. /\ replaced' => wal' \in {None, Torn}
        /\ ~replaced' => svc' /\ ~replaced
    BY <1>2, StoreSteps DEF StoreStep, DamageInv, Checkpoint, CheckpointBreaks, Commit
  <2>2. ~replaced' /\ main = Torn /\ wal \in {None, Torn} => main' = Torn /\ wal' \in {None, Torn}
    BY <1>2, StoreSteps DEF StoreStep, Checkpoint, CheckpointBreaks, Commit, Rows
  <2>3. ASSUME NEW r \in Reqs, ~replaced', pc'[r] \in {"list", "walk"}, loc'[r].rows = Torn,
               ~loc'[r].mixed
        PROVE  main' = Torn /\ wal' \in {None, Torn}
    <3>1. CASE pc[r] \in {"list", "walk"} /\ loc[r].rows = Torn /\ ~loc[r].mixed
      BY <2>1, <2>2, <2>3, <3>1 DEF DamageInv
    <3>2. CASE main = Torn /\ Rows = Torn /\ UNCHANGED <<main, wal>>
      BY <3>2 DEF Rows
    <3> QED
      BY <2>3, <3>1, <3>2, CopiedRows
  <2> QED
    BY <2>1, <2>3 DEF DamageInv
<1> QED
  BY <1>1, <1>2

LEMMA DamageCorrect == Spec => []DamageInv
<1>1. Init => DamageInv
  BY DEF Init, DamageInv
<1> QED
  BY <1>1, DamageStep, TypeCorrect, PendingCorrect, PTL DEF Spec

----------------------------------------------------------------------------
(* Archives *)

\* Only BackupDone makes an archive.
LEMMA ArchiveStep ==
    ASSUME TypeOK, [Next]_vars, NEW r \in Reqs, Archives(r)
    PROVE  archive' = [rows |-> loc[r].rows, had |-> loc[r].had, cut |-> loc[r].cut]
<1>1. pc[r] = "walk" /\ pc'[r] = "idle" /\ loc[r].todo = {} /\ server' = server
  BY DEF Archives, At
<1>2. CASE UNCHANGED vars
  BY <1>1, <1>2 DEF vars
<1>3. CASE AutoCheckpoint \/ Main \/ Crash
  <2>1. UNCHANGED pc \/ server' # server
    BY <1>3, ExitType DEF AutoCheckpoint, Main, ShutdownBegin, Boot, BootFails, Exec, Crash
  <2> QED
    BY <1>1, <2>1
<1>4. ASSUME NEW q \in Reqs, Begin(q) \/ Continue(q)
      PROVE  archive' = [rows |-> loc[r].rows, had |-> loc[r].had, cut |-> loc[r].cut]
  <2>1. PICK step, l : Goto(q, step, l)
    BY <1>4, RequestGoto
  <2>2. q = r
    BY <1>1, <2>1, GotoFields
  <2> QED
    BY <1>1, <1>4, <2>2 DEF Begin, Continue, UploadSave, DeleteMark, BackupBegin,
       BackupUnflushed, RestoreBegin, UploadInsert, UploadUnsave, Unlink, BackupCopy,
       BackupChunk, BackupList, BackupDone, BackupFile, RestoreBlob, RestoreFill, RestoreTruncate, RestoreCopy, RestoreClose, RestoreReopen, RestoreDone,
       RestoreSignal, RestoreFails, Start, At
<1> QED
  BY <1>2, <1>3, <1>4 DEF Next

LEMMA ArchiveOf ==
    ASSUME TypeOK, BackupInv, DamageInv, [Next]_vars, NEW r \in Reqs, Archives(r)
    PROVE  /\ IF archive'.rows = Torn THEN loc[r].mixed
              ELSE loc[r].before \cap Rows \subseteq archive'.rows
           /\ Known(archive'.rows) \cap Rows \cap blobs \subseteq archive'.had
<1>1. archive'.rows = loc[r].rows /\ archive'.had = loc[r].had
  BY ArchiveStep
<1>2. pc[r] = "walk" /\ loc[r].todo = {} /\ svc /\ ~replaced /\ Rows # Torn
  BY DEF Archives, At, DamageInv
<1>3. loc[r].rows = Torn => loc[r].mixed
  BY <1>2 DEF DamageInv, Rows
<1>4. Rows \subseteq Current
  BY <1>2, RowsType, KnownType, NoneIsNoDatabase DEF Rows, Current
<1>5. loc[r].rows # Torn => Known(loc[r].rows) = loc[r].rows
  BY KnownType, NoneIsNoDatabase DEF TypeOK, LocType
<1> QED
  BY <1>1, <1>2, <1>3, <1>4, <1>5 DEF BackupInv, BackupOf

\* Every archive of a database that is whole and has not been overwritten has what was
\* committed when its backup began, or what the file had if its checkpoint failed, unless
\* deleted since; or it is torn by a write to the file while it was copied, and by nothing
\* else.  For any number of files and requests, failing checkpoints and kills.
THEOREM NothingForgottenCorrect == Spec => NothingForgotten
<1>1. TypeOK /\ BackupInv /\ DamageInv /\ [Next]_vars
         => [\A r \in Reqs : Archives(r) =>
               IF archive'.rows = Torn THEN loc[r].mixed
                  ELSE loc[r].before \cap Rows \subseteq archive'.rows]_vars
  BY ArchiveOf
<1> QED
  BY <1>1, TypeCorrect, BackupCorrect, DamageCorrect, PTL DEF Spec, NothingForgotten

\* Every such archive has the blobs of its rows, unless one of the two has gone.
THEOREM ArchivedContentCorrect == Spec => ArchivedContent
<1>1. TypeOK /\ BackupInv /\ DamageInv /\ [Next]_vars
         => [\A r \in Reqs : Archives(r) =>
               Known(archive'.rows) \cap Rows \cap blobs \subseteq archive'.had]_vars
  BY ArchiveOf
<1> QED
  BY <1>1, TypeCorrect, BackupCorrect, DamageCorrect, PTL DEF Spec, ArchivedContent

----------------------------------------------------------------------------
(* Restores and the restart *)

\* A request that closes the connection is the one that will ask for the restart, and
\* only an error keeps it from doing so: for any number of restores at once.
THEOREM StrandedCorrect == Spec => StrandedOnlyByFailure
<1>1. ASSUME TypeOK, Next, ~Stranded, Stranded'
      PROVE  \E r \in Reqs : RestoreFails(r)
  <2>1. /\ server' = "up" /\ ~svc' /\ ~signals'
        /\ \A r \in Reqs : pc'[r] \notin {"reopen", "blobs", "filling", "answered"}
    BY <1>1 DEF Stranded
  <2>2. ~Main /\ ~Crash
    <3>1. ~BootFails
      BY <2>1, BackupAssumption DEF BootFails, Supervised
    <3> QED
      BY <1>1, <2>1, <3>1, ExitType DEF Main, ShutdownBegin, Exec, Boot, Crash
  <2>3. ~AutoCheckpoint
    BY <1>1 DEF AutoCheckpoint, process, Stranded
  <2>4. PICK r \in Reqs : Begin(r) \/ Continue(r)
    BY <1>1, <2>2, <2>3 DEF Next
  <2>5. server' = server
    BY <2>4 DEF Begin, Continue, UploadSave, DeleteMark, BackupBegin, BackupUnflushed, RestoreBegin,
       UploadInsert, UploadUnsave, Unlink, BackupCopy, BackupChunk, BackupList, BackupDone, BackupFile,
       RestoreBlob, RestoreFill, RestoreTruncate, RestoreCopy, RestoreClose, RestoreReopen, RestoreDone,
       RestoreSignal, RestoreFails, process
  <2>6. /\ ~RestoreClose(r) /\ ~RestoreReopen(r) /\ ~RestoreDone(r) /\ ~RestoreSignal(r)
        /\ ~RestoreFill(r) /\ \A f \in Files : ~RestoreBlob(r, f)
    BY <1>1, <2>1, GotoFields DEF RestoreClose, RestoreReopen, RestoreDone, RestoreSignal,
                                      RestoreFill, RestoreBlob
  <2>7. SUFFICES ASSUME ~RestoreFails(r) PROVE FALSE
    OBVIOUS
  <2>8. svc' = svc /\ signals' = signals
    BY <2>4, <2>6, <2>7 DEF Begin, Continue, UploadSave, DeleteMark, BackupBegin, BackupUnflushed, RestoreBegin,
       UploadInsert, UploadUnsave, Unlink, BackupCopy, BackupChunk, BackupList, BackupDone, BackupFile,
       RestoreTruncate, RestoreCopy, process
  <2>9. PICK q \in Reqs : pc[q] \in {"reopen", "blobs", "filling", "answered"}
    BY <1>1, <2>1, <2>5, <2>8 DEF Stranded
  <2>10. q = r
    BY <1>1, <2>1, <2>4, <2>9, RequestGoto, GotoFields
  <2> QED
    BY <2>4, <2>6, <2>7, <2>9, <2>10
    DEF Begin, Continue, UploadSave, DeleteMark, BackupBegin, BackupUnflushed, RestoreBegin, UploadInsert,
        UploadUnsave, Unlink, BackupCopy, BackupChunk, BackupList, BackupDone, BackupFile,
        RestoreFill, RestoreTruncate, RestoreCopy, Start, At
<1>2. TypeOK /\ [Next]_vars => [~Stranded /\ Stranded' => \E r \in Reqs : RestoreFails(r)]_vars
  BY <1>1
<1> QED
  BY <1>2, TypeCorrect, PTL DEF Spec, StrandedOnlyByFailure
=============================================================================
