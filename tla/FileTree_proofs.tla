-------------------------- MODULE FileTree_proofs --------------------------
(***************************************************************************)
(* What holds of the tree of FileStore: moved folders take their contents   *)
(* along as long as what the handler has read is still so when it uses it,  *)
(* which it is when requests come one at a time; and what the duplicate     *)
(* checks are good for when requests overlap.                               *)
(***************************************************************************)
EXTENDS FileStore_proofs, SequenceTheorems, FiniteSetTheorems

OneAtATime == \A r, q \in Reqs : r = q

\* The path of the folder that a request is about to move is the one it has read.
CurrentInv == \A r \in Reqs : pc[r] = "cascade" => Current(r)

----------------------------------------------------------------------------
(* The invariant *)

LEMMA BeginCurrent ==
  ASSUME TypeOK, NEW r \in Reqs, Begin(r), pc'[r] = "cascade"
  PROVE  Current(r)'
  <1>1. PICK d \in Paths, n \in Names, g \in Folders : PatchFolderRead(r, g, d, n)
    <2>1. ASSUME NEW step, NEW l, Goto(r, step, l), step # "cascade"
          PROVE  FALSE
      BY <2>1, GotoLocals
    <2>2. ASSUME NEW d \in Paths, NEW n \in Names,
                 \/ UploadCheck(r, d, n) \/ UploadCheckFails(r, d, n)
                 \/ CreateFolderCheck(r, d, n) \/ CreateFolderCheckFails(r, d, n)
          PROVE  FALSE
      BY <2>1, <2>2 DEF UploadCheck, UploadCheckFails, CreateFolderCheck,
                        CreateFolderCheckFails
    <2>3. ASSUME NEW d \in Paths, NEW n \in Names, NEW f \in Files, PatchFileRead(r, f, d, n)
          PROVE  FALSE
      BY <2>1, <2>3 DEF PatchFileRead
    <2>4. ASSUME NEW f \in Files, DeleteLookup(r, f) \/ Restore(r, f)
          PROVE  FALSE
      BY <2>1, <2>4 DEF DeleteLookup, Restore, Start
    <2>5. ~EmptyTrashCollect(r)
      BY <2>1 DEF EmptyTrashCollect
    <2>6. ASSUME NEW g \in Folders, DeleteFolderRead(r, g)
          PROVE  FALSE
      BY <2>1, <2>6 DEF DeleteFolderRead
    <2> QED
      BY <2>2, <2>3, <2>4, <2>5, <2>6 DEF Begin
  <1> DEFINE l == [NoLoc EXCEPT !.folder = g, !.dir = d, !.name = n,
                                !.full = Full(folders[g].dir, folders[g].name)]
  <1>2. l.folder = g /\ l.full = PathOf(g)
    BY DEF NoLoc, PathOf
  <1>3. Goto(r, "cascade", l) /\ folders[g].exists /\ folders' = folders
    BY <1>1 DEF PatchFolderRead
  <1> HIDE DEF l
  <1>4. loc'[r] = l
    BY <1>3, GotoLocals
  <1> QED
    BY <1>2, <1>3, <1>4 DEF Current, PathOf

\* No later step of a request leads to the cascade.
LEMMA ContinueElsewhere ==
  ASSUME TypeOK, NEW r \in Reqs, Continue(r)
  PROVE  pc'[r] # "cascade"
  <1>1. ASSUME NEW step, NEW l, Goto(r, step, l), step # "cascade"
        PROVE  pc'[r] # "cascade"
    BY <1>1, GotoLocals
  <1>2. ASSUME NEW S, UnlinkAll(r, S)
        PROVE  pc'[r] # "cascade"
    BY <1>2, UnlinkAllLocals
  <1>3. CASE Finish(r)
    BY <1>1, <1>3 DEF Finish
  <1>4. ASSUME NEW f \in Files, UploadSave(r, f)
        PROVE  pc'[r] # "cascade"
    BY <1>1, <1>4 DEF UploadSave
  <1>5. ASSUME NEW f \in Files, Unlink(r, f) \/ UnlinkFails(r, f)
        PROVE  pc'[r] # "cascade"
    BY <1>2, <1>5 DEF Unlink, UnlinkFails
  <1>6. CASE \/ UploadInsertFails(r) \/ DeleteFolderCollect(r)
             \/ PatchFileCheck(r) \/ PatchFileCheckFails(r)
    BY <1>1, <1>3, <1>6
       DEF UploadInsertFails, DeleteFolderCollect, PatchFileCheck, PatchFileCheckFails
  <1>7. CASE DeleteMark(r) \/ EmptyTrashPurge(r) \/ DeleteFolderSweep(r)
    BY <1>2, <1>7 DEF DeleteMark, EmptyTrashPurge, DeleteFolderSweep
  <1> QED
    BY <1>3, <1>4, <1>5, <1>6, <1>7, Enders
       DEF Continue, UploadSaveLitters, UploadInsert, UploadUnsave, PatchFileUpdate,
           PatchFolderCascade

LEMMA NextCurrent ==
  ASSUME OneAtATime, TypeOK, CurrentInv, [Next]_vars
  PROVE  CurrentInv'
  <1>1. ASSUME NEW r \in Reqs, Begin(r) \/ Continue(r)
        PROVE  CurrentInv'
    <2>1. pc'[r] = "cascade" => Current(r)'
      BY <1>1, BeginCurrent, ContinueElsewhere
    <2> QED
      BY <2>1 DEF OneAtATime, CurrentInv
  <1>2. CASE Crash
    BY <1>2 DEF Crash, CurrentInv
  <1>3. CASE UNCHANGED vars
    BY <1>3 DEF vars, CurrentInv, Current, PathOf
  <1> QED
    BY <1>1, <1>2, <1>3 DEF Next

LEMMA CurrentCorrect ==
  ASSUME OneAtATime
  PROVE  Spec => [](TypeOK /\ CurrentInv)
  <1>1. Init => TypeOK /\ CurrentInv
    BY InitType DEF Init, CurrentInv
  <1>2. TypeOK /\ CurrentInv /\ [Next]_vars => (TypeOK /\ CurrentInv)'
    BY NextType, NextCurrent
  <1> QED
    BY <1>1, <1>2, PTL DEF Spec

----------------------------------------------------------------------------
(* Paths *)

LEMMA PathIsSeq ==
  ASSUME NEW p \in Paths
  PROVE  p \in Seq(Names)
  <1>1. PICK n \in 0..MaxDepth : p \in [1..n -> Names]
    BY DEF Paths
  <1>2. n \in Nat
    BY StoreAssumption
  <1> QED
    BY <1>1, <1>2, SeqDef

\* A path of two parts, each name of which is one of a part.
LEMMA Joined ==
  ASSUME NEW p \in Seq(Names), NEW q \in Seq(Names)
  PROVE  /\ p \o q \in Seq(Names)
         /\ Len(p \o q) = Len(p) + Len(q)
         /\ \A i \in 1..Len(p) : (p \o q)[i] = p[i]
         /\ \A i \in (Len(p) + 1)..(Len(p) + Len(q)) : (p \o q)[i] = q[i - Len(p)]
  OBVIOUS

\* What SUBSTR leaves of a path.
LEMMA Rest ==
  ASSUME NEW p \in Seq(Names), NEW k \in 0..Len(p)
  PROVE  /\ SubSeq(p, k + 1, Len(p)) \in Seq(Names)
         /\ Len(SubSeq(p, k + 1, Len(p))) = Len(p) - k
         /\ \A i \in 1..(Len(p) - k) : SubSeq(p, k + 1, Len(p))[i] = p[k + i]
  OBVIOUS

\* What Rebase makes of a path, name by name.
LEMMA RebaseShape ==
  ASSUME NEW dir \in Seq(Names), NEW old \in Seq(Names), NEW new \in Seq(Names),
         Len(old) <= Len(dir)
  PROVE  /\ Rebase(dir, old, new) \in Seq(Names)
         /\ Len(Rebase(dir, old, new)) = Len(new) + (Len(dir) - Len(old))
         /\ \A i \in 1..Len(new) : Rebase(dir, old, new)[i] = new[i]
         /\ \A i \in (Len(new) + 1)..(Len(new) + (Len(dir) - Len(old))) :
              Rebase(dir, old, new)[i] = dir[Len(old) + (i - Len(new))]
  <1> DEFINE rest == SubSeq(dir, Len(old) + 1, Len(dir))
  <1>0. Len(old) \in Nat /\ Len(new) \in Nat /\ Len(dir) \in Nat /\ Len(old) \in 0..Len(dir)
    OBVIOUS
  <1>1. /\ rest \in Seq(Names) /\ Len(rest) = Len(dir) - Len(old)
        /\ \A i \in 1..(Len(dir) - Len(old)) : rest[i] = dir[Len(old) + i]
    BY <1>0, Rest
  <1>2. Rebase(dir, old, new) = new \o rest
    BY DEF Rebase
  <1> HIDE DEF rest
  <1>3. /\ new \o rest \in Seq(Names)
        /\ Len(new \o rest) = Len(new) + Len(rest)
        /\ \A i \in 1..Len(new) : (new \o rest)[i] = new[i]
        /\ \A i \in (Len(new) + 1)..(Len(new) + Len(rest)) :
             (new \o rest)[i] = rest[i - Len(new)]
    BY <1>1, Joined
  <1>4. ASSUME NEW i \in (Len(new) + 1)..(Len(new) + (Len(dir) - Len(old)))
        PROVE  (new \o rest)[i] = dir[Len(old) + (i - Len(new))]
    <2>1. i - Len(new) \in 1..(Len(dir) - Len(old))
      BY <1>0, <1>4
    <2> QED
      BY <1>0, <1>1, <1>3, <2>1
  <1> QED
    BY <1>0, <1>1, <1>2, <1>3, <1>4

\* The folder's own path becomes the new one.
LEMMA RebaseItself ==
  ASSUME NEW old \in Seq(Names), NEW new \in Seq(Names)
  PROVE  Under(old, old) /\ Rebase(old, old, new) = new
  <1> DEFINE q == Rebase(old, old, new)
  <1>1. Len(old) \in Nat /\ Len(new) \in Nat /\ Under(old, old)
    BY DEF Under
  <1>2. Len(old) <= Len(old)
    BY <1>1
  <1>3. /\ q \in Seq(Names) /\ Len(q) = Len(new) + (Len(old) - Len(old))
        /\ \A i \in 1..Len(new) : q[i] = new[i]
    BY <1>2, RebaseShape
  <1> HIDE DEF q
  <1>4. Len(q) = Len(new)
    BY <1>1, <1>3
  <1>5. q = new
    BY <1>3, <1>4, SeqEqual
  <1> QED
    BY <1>1, <1>5 DEF q

LEMMA Appended ==
  ASSUME NEW p \in Seq(Names), NEW n \in Names
  PROVE  /\ Append(p, n) \in Seq(Names)
         /\ Len(Append(p, n)) = Len(p) + 1
         /\ Append(p, n)[Len(p) + 1] = n
         /\ \A i \in 1..Len(p) : Append(p, n)[i] = p[i]
  OBVIOUS

\* What is below a folder that is below another is rewritten as the folder is.
LEMMA RebaseBelow ==
  ASSUME NEW dir \in Seq(Names), NEW old \in Seq(Names), NEW new \in Seq(Names),
         NEW n \in Names, Under(dir, old)
  PROVE  /\ Under(Append(dir, n), old)
         /\ Rebase(Append(dir, n), old, new) = Append(Rebase(dir, old, new), n)
  <1> DEFINE sub == Append(dir, n)
             p == Rebase(sub, old, new)
             base == Rebase(dir, old, new)
             q == Append(base, n)
  <1>1. /\ Len(old) \in Nat /\ Len(dir) \in Nat /\ Len(new) \in Nat /\ Len(old) <= Len(dir)
        /\ \A i \in 1..Len(old) : dir[i] = old[i]
    BY DEF Under
  <1>2. /\ sub \in Seq(Names) /\ Len(sub) = Len(dir) + 1 /\ sub[Len(dir) + 1] = n
        /\ \A i \in 1..Len(dir) : sub[i] = dir[i]
    BY Appended
  <1>3. /\ base \in Seq(Names) /\ Len(base) = Len(new) + (Len(dir) - Len(old))
        /\ \A i \in 1..Len(new) : base[i] = new[i]
        /\ \A i \in (Len(new) + 1)..(Len(new) + (Len(dir) - Len(old))) :
             base[i] = dir[Len(old) + (i - Len(new))]
    BY <1>1, RebaseShape
  <1> HIDE DEF sub, base
  <1>4. Len(old) <= Len(sub) /\ Under(sub, old)
    BY <1>1, <1>2 DEF Under
  <1>5. /\ p \in Seq(Names) /\ Len(p) = Len(new) + (Len(sub) - Len(old))
        /\ \A i \in 1..Len(new) : p[i] = new[i]
        /\ \A i \in (Len(new) + 1)..(Len(new) + (Len(sub) - Len(old))) :
             p[i] = sub[Len(old) + (i - Len(new))]
    <2>1. sub \in Seq(Names) /\ Len(old) <= Len(sub)
      BY <1>2, <1>4
    <2>2. p \in Seq(Names) /\ Len(p) = Len(new) + (Len(sub) - Len(old))
      BY <2>1, RebaseShape
    <2>3. \A i \in 1..Len(new) : p[i] = new[i]
      BY <2>1, RebaseShape
    <2>4. \A i \in (Len(new) + 1)..(Len(new) + (Len(sub) - Len(old))) :
            p[i] = sub[Len(old) + (i - Len(new))]
      BY <2>1, RebaseShape
    <2> QED
      BY <2>2, <2>3, <2>4
  <1>6. /\ q \in Seq(Names) /\ Len(q) = Len(base) + 1 /\ q[Len(base) + 1] = n
        /\ \A i \in 1..Len(base) : q[i] = base[i]
    BY <1>3, Appended
  <1> HIDE DEF p, q
  <1>7. Len(p) = Len(q)
    BY <1>1, <1>2, <1>3, <1>5, <1>6
  <1>8. ASSUME NEW i \in 1..Len(p)
        PROVE  p[i] = q[i]
    <2>1. CASE i \in 1..Len(new)
      <3>1. i \in 1..Len(base)
        BY <1>1, <1>3, <2>1
      <3> QED
        BY <1>3, <1>5, <1>6, <2>1, <3>1
    <2>2. CASE i \notin 1..Len(new)
      <3> DEFINE k == Len(old) + (i - Len(new))
      <3>1. /\ i \in (Len(new) + 1)..(Len(new) + (Len(sub) - Len(old)))
            /\ k \in 1..(Len(dir) + 1)
        BY <1>1, <1>2, <1>5, <2>2
      <3>2. p[i] = sub[k]
        BY <1>5, <3>1
      <3>3. CASE i = Len(base) + 1
        <4>1. k = Len(dir) + 1
          BY <1>1, <1>3, <3>3
        <4> QED
          BY <1>2, <1>6, <3>2, <3>3, <4>1
      <3>4. CASE i # Len(base) + 1
        <4> DEFINE top == Len(new) + (Len(dir) - Len(old))
        <4>0. /\ Len(base) = top /\ top \in Nat /\ i \in Nat
              /\ i >= Len(new) + 1 /\ i <= Len(new) + (Len(dir) + 1 - Len(old)) /\ i # top + 1
          BY <1>1, <1>2, <1>3, <3>1, <3>4
        <4>1. /\ i \in (Len(new) + 1)..top
              /\ i \in 1..Len(base)
              /\ k \in 1..Len(dir)
          BY <1>1, <4>0
        <4>2. q[i] = dir[k]
          BY <1>3, <1>6, <4>1
        <4>3. sub[k] = dir[k]
          BY <1>2, <4>1
        <4> QED
          BY <3>2, <4>2, <4>3
      <3> QED
        BY <3>3, <3>4
    <2> QED
      BY <2>1, <2>2
  <1>9. p = q
    BY <1>5, <1>6, <1>7, <1>8, SeqEqual
  <1> QED
    BY <1>4, <1>9 DEF p, q, sub, base

----------------------------------------------------------------------------
(* Contents follow their folder *)

\* What the transaction of a move or renaming is about to do.
LEMMA CascadeFacts ==
  ASSUME TypeOK, NEW r \in Reqs, PatchFolderCascade(r), Current(r)
  PROVE  /\ loc[r].folder \in Folders /\ folders[loc[r].folder].exists
         /\ loc[r].full = PathOf(loc[r].folder) /\ loc[r].full \in Seq(Names)
         /\ loc[r].name \in Names /\ loc[r].dir \in Seq(Names)
         /\ Full(loc[r].dir, loc[r].name) \in Seq(Names)
         /\ \A g \in Folders : folders[g].exists =>
              folders[g].name \in Names /\ folders[g].dir \in Seq(Names)
         /\ \A f \in Files : rows[f].dir \in Seq(Names)
  <1>1. loc[r] \in LocType /\ Fits("cascade", loc[r])
    BY DEF TypeOK, PatchFolderCascade, At
  <1>2. /\ loc[r].folder \in Folders /\ loc[r].name \in Names /\ loc[r].dir \in Paths
        /\ Full(loc[r].dir, loc[r].name) \in Paths /\ loc[r].full \in Paths
        /\ folders[loc[r].folder].exists /\ loc[r].full = PathOf(loc[r].folder)
    BY <1>1 DEF LocType, Fits, Current
  <1>3. \A g \in Folders : folders[g].exists => folders[g].name \in Names /\ folders[g].dir \in Paths
    BY DEF TypeOK, FolderType
  <1>4. \A f \in Files : rows[f].dir \in Paths
    BY DEF TypeOK, RowType
  <1> QED
    BY <1>2, <1>3, <1>4, PathIsSeq

LEMMA CascadeFollows ==
  ASSUME TypeOK, NEW r \in Reqs, PatchFolderCascade(r), Current(r), ~SelfMove(r)
  PROVE  FilesFollowFolder
  <1> DEFINE h == loc[r].folder
             d == loc[r].dir
             n == loc[r].name
             old == loc[r].full
             new == Full(d, n)
  <1>1. /\ h \in Folders /\ folders[h].exists /\ old = PathOf(h)
        /\ old \in Seq(Names) /\ new \in Seq(Names)
        /\ \A g \in Folders : folders[g].exists =>
             folders[g].name \in Names /\ folders[g].dir \in Seq(Names)
    BY CascadeFacts
  <1>2. /\ rows' = CascadeFiles(old, new) /\ folders' = CascadeFolders(h, d, n, old)
        /\ ~Under(d, old)
    BY DEF PatchFolderCascade, SelfMove
  <1> SUFFICES ASSUME NEW g \in Folders, folders[g].exists, folders'[g].exists,
                      PathOf(g)' # PathOf(g),
                      NEW f \in Files, Exists(f), rows[f].dir = PathOf(g)
               PROVE  rows'[f].dir = PathOf(g)'
    BY DEF FilesFollowFolder
  <1> HIDE DEF h, d, n, old, new
  <1>3. ASSUME Under(PathOf(g), old)
        PROVE  rows'[f].dir = Rebase(PathOf(g), old, new)
    <2>1. f \in FilesUnder(old)
      BY <1>3 DEF FilesUnder
    <2>2. rows'[f] = [rows[f] EXCEPT !.dir = Rebase(rows[f].dir, old, new)]
      BY <1>2, <2>1 DEF CascadeFiles
    <2> QED
      BY <2>2 DEF TypeOK, RowType
  <1>4. new = Full(d, n)
    BY DEF new
  <1>5. CASE g = h
    <2>1. Renamed(h, d, n)[g].dir = d /\ Renamed(h, d, n)[g].name = n
      BY <1>1, <1>5 DEF Renamed, TypeOK, FolderType
    <2>2. folders'[g] = Renamed(h, d, n)[g]
      BY <1>2, <2>1 DEF CascadeFolders
    <2>3. PathOf(g)' = new
      BY <1>4, <2>1, <2>2 DEF PathOf, Full
    <2>4. Under(PathOf(g), old) /\ Rebase(PathOf(g), old, new) = new
      BY <1>1, <1>5, RebaseItself
    <2> QED
      BY <1>3, <2>3, <2>4
  <1>6. CASE g # h
    <2>1. Renamed(h, d, n)[g] = folders[g]
      BY <1>1, <1>6 DEF Renamed, TypeOK, FolderType
    <2>2. CASE ~Under(folders[g].dir, old)
      <3>1. folders'[g] = folders[g]
        BY <1>2, <2>1, <2>2 DEF CascadeFolders
      <3> QED
        BY <3>1 DEF PathOf, Full
    <2>3. CASE Under(folders[g].dir, old)
      <3>1. folders'[g] = [folders[g] EXCEPT !.dir = Rebase(folders[g].dir, old, new)]
        BY <1>2, <1>4, <2>1, <2>3 DEF CascadeFolders
      <3>2. /\ folders'[g].dir = Rebase(folders[g].dir, old, new)
            /\ folders'[g].name = folders[g].name
        BY <3>1 DEF TypeOK, FolderType
      <3>3. PathOf(g)' = Append(Rebase(folders[g].dir, old, new), folders[g].name)
        BY <3>2 DEF PathOf, Full
      <3>4. folders[g].name \in Names /\ folders[g].dir \in Seq(Names)
        BY <1>1
      <3>5. LET p == Append(folders[g].dir, folders[g].name)
            IN  /\ Under(p, old)
                /\ Rebase(p, old, new) = Append(Rebase(folders[g].dir, old, new), folders[g].name)
        BY <1>1, <2>3, <3>4, RebaseBelow
      <3>6. PathOf(g) = Append(folders[g].dir, folders[g].name)
        BY DEF PathOf, Full
      <3> QED
        BY <1>3, <3>3, <3>5, <3>6
    <2> QED
      BY <2>2, <2>3
  <1> QED
    BY <1>5, <1>6

\* Whatever other requests do in the meantime, and wherever the process is killed,
\* the files that are in a folder or in one below it are taken along when the folder
\* is moved to a place outside of itself or renamed, for any tree of any depth, if
\* its path is still the one that was read: the cascade of PatchFolderHandler.
THEOREM MoveCorrect == Spec => ContentsFollowMove
  <1> DEFINE Follows == \A r \in Reqs :
               (PatchFolderCascade(r) /\ Current(r) /\ ~SelfMove(r)) => FilesFollowFolder
  <1>1. TypeOK /\ [Next]_vars => [Follows]_vars
    BY CascadeFollows
  <1>2. Spec => [][Next]_vars
    BY PTL DEF Spec
  <1>3. [][Follows]_vars => ContentsFollowMove
    BY DEF ContentsFollowMove
  <1> QED
    BY <1>1, <1>2, <1>3, TypeCorrect, PTL

\* With one request at a time the path is always the one that was read, so moves to
\* a place outside of the moved folder need no such condition.
THEOREM MoveAloneCorrect ==
  ASSUME OneAtATime
  PROVE  Spec => [][\A r \in Reqs :
                      PatchFolderCascade(r) /\ ~SelfMove(r) => FilesFollowFolder]_vars
  <1> DEFINE Follows == \A r \in Reqs :
               PatchFolderCascade(r) /\ ~SelfMove(r) => FilesFollowFolder
  <1>1. TypeOK /\ CurrentInv /\ [Next]_vars => [Follows]_vars
    <2> SUFFICES ASSUME TypeOK, CurrentInv, NEW r \in Reqs,
                        PatchFolderCascade(r), ~SelfMove(r)
                 PROVE  FilesFollowFolder
      OBVIOUS
    <2>1. Current(r)
      BY DEF CurrentInv, PatchFolderCascade, At
    <2> QED
      BY <2>1, CascadeFollows
  <1>2. Spec => [](TypeOK /\ CurrentInv)
    BY CurrentCorrect
  <1>3. Spec => [][Next]_vars
    BY PTL DEF Spec
  <1> QED
    BY <1>1, <1>2, <1>3, PTL

----------------------------------------------------------------------------
(* Twins *)

\* The files that have the name n in the folder d, or will have it when the requests
\* that are past their checks have updated their rows.
Bearers(d, n) ==
    {f \in Files : Live(f) /\ rows[f].dir = d /\ rows[f].name = n}
      \cup {loc[r].file : r \in {q \in Reqs : pc[q] = "updateFile"
                                              /\ loc[q].dir = d /\ loc[q].name = n}}

\* The uploads that are going to insert that name.
Comers(d, n) ==
    {r \in Reqs : pc[r] \in {"save", "insert"} /\ loc[r].dir = d /\ loc[r].name = n}

\* There is a request for every file that has the name, and another one for each
\* that comes: an upload that inserts its row trades itself for a file.
RoomFor(d, n) ==
    /\ IsFiniteSet(Bearers(d, n))
    /\ Cardinality(Bearers(d, n)) <= Cardinality(Reqs \ Comers(d, n))

RoomInv == \A d \in Paths, n \in Names \cup {None} : RoomFor(d, n)

\* A name that fewer files bear and for which fewer uploads come.
LEMMA RoomKept ==
  ASSUME IsFiniteSet(Reqs), NEW d, NEW n, RoomFor(d, n),
         Bearers(d, n)' \subseteq Bearers(d, n), Comers(d, n)' \subseteq Comers(d, n)
  PROVE  RoomFor(d, n)'
  <1> DEFINE B == Bearers(d, n)
             C == Bearers(d, n)'
             S == Reqs \ Comers(d, n)
             T == Reqs \ Comers(d, n)'
  <1>1. IsFiniteSet(B) /\ Cardinality(B) <= Cardinality(S)
    BY DEF RoomFor
  <1>2. S \subseteq T /\ T \subseteq Reqs /\ C \subseteq B
    OBVIOUS
  <1> SUFFICES IsFiniteSet(C) /\ Cardinality(C) <= Cardinality(T)
    BY DEF RoomFor
  <1> HIDE DEF B, C, S, T
  <1>3. IsFiniteSet(T) /\ IsFiniteSet(S)
    BY <1>2, FS_Subset
  <1>4. IsFiniteSet(C) /\ Cardinality(C) <= Cardinality(B)
    BY <1>1, <1>2, FS_Subset
  <1>5. Cardinality(S) <= Cardinality(T)
    BY <1>2, <1>3, FS_Subset
  <1>6. /\ Cardinality(B) \in Nat /\ Cardinality(C) \in Nat
        /\ Cardinality(S) \in Nat /\ Cardinality(T) \in Nat
    BY <1>1, <1>3, <1>4, FS_CardinalityType
  <1> QED
    BY <1>1, <1>4, <1>5, <1>6

\* A name that only those bear that are going to be given it: the check has passed.
LEMMA RoomFree ==
  ASSUME IsFiniteSet(Reqs), NEW d, NEW n,
         Bearers(d, n)' \subseteq
           {loc'[r].file : r \in {q \in Reqs : pc'[q] = "updateFile"
                                              /\ loc'[q].dir = d /\ loc'[q].name = n}}
  PROVE  RoomFor(d, n)'
  <1> DEFINE U == {q \in Reqs : pc'[q] = "updateFile" /\ loc'[q].dir = d /\ loc'[q].name = n}
             file == [q \in U |-> loc'[q].file]
             I == {loc'[q].file : q \in U}
             C == Bearers(d, n)'
             T == Reqs \ Comers(d, n)'
  <1>1. U \subseteq T /\ T \subseteq Reqs /\ C \subseteq I
    BY DEF Comers
  <1>2. file \in Surjection(U, I)
    BY DEF Surjection
  <1> SUFFICES IsFiniteSet(C) /\ Cardinality(C) <= Cardinality(T)
    BY DEF RoomFor
  <1> HIDE DEF U, file, I, C, T
  <1>3. IsFiniteSet(T) /\ IsFiniteSet(U) /\ Cardinality(U) <= Cardinality(T)
    BY <1>1, FS_Subset
  <1>4. IsFiniteSet(I) /\ Cardinality(I) <= Cardinality(U)
    BY <1>2, <1>3, FS_Surjection
  <1>5. IsFiniteSet(C) /\ Cardinality(C) <= Cardinality(I)
    BY <1>1, <1>4, FS_Subset
  <1>6. /\ Cardinality(U) \in Nat /\ Cardinality(C) \in Nat
        /\ Cardinality(I) \in Nat /\ Cardinality(T) \in Nat
    BY <1>3, <1>4, <1>5, FS_CardinalityType
  <1> QED
    BY <1>3, <1>4, <1>5, <1>6

\* What a step of r has to respect.
LEMMA StepKeepsRoom ==
  ASSUME IsFiniteSet(Reqs), NEW d, NEW n, RoomFor(d, n), NEW r \in Reqs,
         \A q \in Reqs \ {r} : pc'[q] = pc[q] /\ loc'[q] = loc[q],
         \A f \in Files : Live(f)' /\ rows'[f].dir = d /\ rows'[f].name = n
                            => f \in Bearers(d, n),
         pc'[r] = "updateFile" /\ loc'[r].dir = d /\ loc'[r].name = n
           => loc'[r].file \in Bearers(d, n),
         pc'[r] \in {"save", "insert"} /\ loc'[r].dir = d /\ loc'[r].name = n
           => r \in Comers(d, n)
  PROVE  RoomFor(d, n)'
  <1>1. \A q \in Reqs : pc'[q] = "updateFile" /\ loc'[q].dir = d /\ loc'[q].name = n
          => loc'[q].file \in Bearers(d, n)
    BY DEF Bearers
  <1>2. Bearers(d, n)' \subseteq Bearers(d, n)
    BY <1>1 DEF Bearers
  <1>3. Comers(d, n)' \subseteq Comers(d, n)
    BY DEF Comers
  <1> QED
    BY <1>2, <1>3, RoomKept

ChecksPass == "check" \notin Ignored /\ Ops \cap {"restore", "patchFolder"} = {}

LEMMA BeginRoom ==
  ASSUME IsFiniteSet(Reqs), ChecksPass, TypeOK, RoomInv, NEW r \in Reqs, Begin(r),
         NEW d \in Paths, NEW n \in Names \cup {None}
  PROVE  RoomFor(d, n)'
  <1>1. rows' = rows /\ \A q \in Reqs \ {r} : pc'[q] = pc[q] /\ loc'[q] = loc[q]
    BY BeginEffect, BeginLocals DEF Restore, Start, ChecksPass
  <1>2. \A f \in Files : Live(f)' /\ rows'[f].dir = d /\ rows'[f].name = n
                           => f \in Bearers(d, n)
    BY <1>1 DEF Live, Bearers
  <1>3. RoomFor(d, n)
    BY DEF RoomInv
  <1>4. ASSUME NEW e \in Paths, NEW m \in Names, UploadCheck(r, e, m)
        PROVE  RoomFor(d, n)'
    <2> DEFINE l == [NoLoc EXCEPT !.dir = e, !.name = m]
    <2>1. l.dir = e /\ l.name = m /\ Goto(r, "save", l) /\ ~Taken(e, m, None)
      BY <1>4 DEF UploadCheck, NoLoc
    <2> HIDE DEF l
    <2>2. pc'[r] = "save" /\ loc'[r].dir = e /\ loc'[r].name = m
      BY <2>1, GotoLocals
    <2>3. CASE e = d /\ m = n
      <3>1. ~\E f \in Files : Live(f)' /\ rows'[f].dir = d /\ rows'[f].name = n
        BY <1>1, <2>1, <2>3, StoreAssumption DEF Taken, Live
      <3> QED
        BY <3>1, RoomFree DEF Bearers
    <2>4. CASE ~(e = d /\ m = n)
      BY <1>1, <1>2, <1>3, <2>2, <2>4, StepKeepsRoom
    <2> QED
      BY <2>3, <2>4
  <1>5. ASSUME NEW e \in Paths, NEW m \in Names, NEW f \in Files, PatchFileRead(r, f, e, m)
        PROVE  RoomFor(d, n)'
    <2> DEFINE l == [NoLoc EXCEPT !.file = f, !.dir = e, !.name = m]
               same == m = rows[f].name /\ e = rows[f].dir
    <2>1. /\ l.file = f /\ l.dir = e /\ l.name = m /\ Live(f)
          /\ Goto(r, IF same THEN "updateFile" ELSE "checkMove", l)
      BY <1>5 DEF PatchFileRead, NoLoc
    <2> HIDE DEF l
    <2>2. /\ pc'[r] = IF same THEN "updateFile" ELSE "checkMove"
          /\ loc'[r].file = f /\ loc'[r].dir = e /\ loc'[r].name = m
      BY <2>1, GotoLocals
    <2>3. pc'[r] = "updateFile" /\ e = d /\ m = n => f \in Bearers(d, n)
      BY <2>1, <2>2 DEF Bearers
    <2> QED
      BY <1>1, <1>2, <1>3, <2>2, <2>3, StepKeepsRoom
  <1>6. ASSUME pc'[r] \notin {"updateFile", "save", "insert"}
        PROVE  RoomFor(d, n)'
    BY <1>1, <1>2, <1>3, <1>6, StepKeepsRoom
  <1>8. ASSUME NEW e \in Paths, NEW m \in Names,
               \/ UploadCheckFails(r, e, m)
               \/ CreateFolderCheck(r, e, m) \/ CreateFolderCheckFails(r, e, m)
               \/ \E g \in Folders : PatchFolderRead(r, g, e, m)
        PROVE  RoomFor(d, n)'
    <2>1. pc'[r] \in {"insertFolder", "cascade"}
      BY <1>8, GotoLocals DEF UploadCheckFails, CreateFolderCheck, CreateFolderCheckFails,
                  PatchFolderRead, ChecksPass
    <2> QED
      BY <1>6, <2>1
  <1>9. ASSUME \/ \E f \in Files : DeleteLookup(r, f) \/ Restore(r, f)
               \/ EmptyTrashCollect(r) \/ \E g \in Folders : DeleteFolderRead(r, g)
        PROVE  RoomFor(d, n)'
    <2>1. ~\E f \in Files : Restore(r, f)
      BY DEF Restore, Start, ChecksPass
    <2>2. pc'[r] \in {"mark", "purge", "collect"}
      BY <1>9, <2>1, GotoLocals DEF DeleteLookup, EmptyTrashCollect, DeleteFolderRead
    <2> QED
      BY <1>6, <2>2
  <1> QED
    BY <1>4, <1>5, <1>8, <1>9 DEF Begin

LEMMA ContinueRoom ==
  ASSUME IsFiniteSet(Reqs), ChecksPass, TypeOK, OpsInv, RoomInv, NEW r \in Reqs, Continue(r),
         NEW d \in Paths, NEW n \in Names \cup {None}
  PROVE  RoomFor(d, n)'
  <1>1. RoomFor(d, n) /\ loc[r] \in LocType /\ Fits(pc[r], loc[r])
    BY DEF RoomInv, TypeOK
  <1> DEFINE Mine == loc[r].dir = d /\ loc[r].name = n
             Stays == \A f \in Files : Live(f)' /\ rows'[f].dir = d /\ rows'[f].name = n
                                         => f \in Bearers(d, n)
  <1>2. ASSUME NEW h \in Files, \A f \in Files \ {h} : rows'[f] = rows[f]
        PROVE  \A f \in Files \ {h} : Live(f)' /\ rows'[f].dir = d /\ rows'[f].name = n
                                        => f \in Bearers(d, n)
    BY <1>2 DEF Live, Bearers
  <1>3. ASSUME \A f \in Files : Live(f)' => rows'[f] = rows[f]
        PROVE  Stays
    BY <1>3 DEF Live, Bearers
  <1>4. ASSUME Stays, Finish(r)
        PROVE  RoomFor(d, n)'
    BY <1>1, <1>4, FinishLocals, StepKeepsRoom
  <1>5. ASSUME Stays, NEW S, UnlinkAll(r, S)
        PROVE  RoomFor(d, n)'
    BY <1>1, <1>5, UnlinkAllLocals, StepKeepsRoom
  <1>6. ASSUME NEW f \in Files, UploadSave(r, f)
        PROVE  RoomFor(d, n)'
    <2> DEFINE l == [loc[r] EXCEPT !.file = f]
    <2>1. /\ l.dir = loc[r].dir /\ l.name = loc[r].name
          /\ pc[r] = "save" /\ Goto(r, "insert", l) /\ rows' = rows
      BY <1>1, <1>6 DEF UploadSave, At, LocType
    <2> HIDE DEF l
    <2>2. /\ pc'[r] = "insert" /\ loc'[r].dir = loc[r].dir /\ loc'[r].name = loc[r].name
          /\ \A q \in Reqs \ {r} : pc'[q] = pc[q] /\ loc'[q] = loc[q]
      BY <2>1, GotoLocals
    <2>3. Mine => r \in Comers(d, n)
      BY <2>1 DEF Comers
    <2> QED
      BY <1>1, <1>3, <2>1, <2>2, <2>3, StepKeepsRoom
  <1>7. CASE UploadInsert(r)
    <2> DEFINE h == loc[r].file
    <2>1. /\ h \in Files /\ pc[r] = "insert"
          /\ rows'[h].dir = loc[r].dir /\ rows'[h].name = loc[r].name
          /\ \A f \in Files \ {h} : rows'[f] = rows[f]
      BY <1>1, <1>7 DEF UploadInsert, At, Fits, TypeOK
    <2>2. /\ pc'[r] = "idle"
          /\ \A q \in Reqs \ {r} : pc'[q] = pc[q] /\ loc'[q] = loc[q]
      BY <1>7, FinishLocals DEF UploadInsert
    <2>3. CASE ~Mine
      BY <1>2, <1>4, <1>7, <2>1, <2>3 DEF UploadInsert
    <2>4. CASE Mine
      <3> DEFINE B == Bearers(d, n)
                 C == Bearers(d, n)'
                 S == Reqs \ Comers(d, n)
                 T == Reqs \ Comers(d, n)'
      <3>1. C \subseteq B \cup {h}
        <4>1. \A q \in Reqs : pc'[q] = "updateFile" => pc[q] = "updateFile" /\ loc'[q] = loc[q]
          BY <2>2
        <4>2. \A f \in Files : Live(f)' /\ rows'[f].dir = d /\ rows'[f].name = n
                                 => f \in B \cup {h}
          BY <1>2, <2>1
        <4> QED
          BY <4>1, <4>2 DEF Bearers
      <3>2. T = S \cup {r} /\ r \notin S /\ S \subseteq Reqs
        BY <2>1, <2>2, <2>4 DEF Comers
      <3>3. IsFiniteSet(B) /\ Cardinality(B) <= Cardinality(S)
        BY <1>1 DEF RoomFor
      <3> SUFFICES IsFiniteSet(C) /\ Cardinality(C) <= Cardinality(T)
        BY DEF RoomFor
      <3> HIDE DEF B, C, S, T
      <3>4. IsFiniteSet(S)
        BY <3>2, FS_Subset
      <3>5. Cardinality(T) = Cardinality(S) + 1
        BY <3>2, <3>4, FS_AddElement
      <3>6. /\ IsFiniteSet(B \cup {h})
            /\ Cardinality(B \cup {h}) = Cardinality(B)
                 \/ Cardinality(B \cup {h}) = Cardinality(B) + 1
        BY <3>3, FS_AddElement
      <3>7. IsFiniteSet(C) /\ Cardinality(C) <= Cardinality(B \cup {h})
        BY <3>1, <3>6, FS_Subset
      <3>8. /\ Cardinality(B) \in Nat /\ Cardinality(S) \in Nat /\ Cardinality(C) \in Nat
        BY <3>3, <3>4, <3>7, FS_CardinalityType
      <3> QED
        BY <3>3, <3>5, <3>6, <3>7, <3>8
    <2> QED
      BY <2>3, <2>4
  <1>8. CASE PatchFileUpdate(r)
    <2> DEFINE h == loc[r].file
    <2>1. h \in Files /\ pc[r] = "updateFile"
      BY <1>1, <1>8 DEF PatchFileUpdate, At, Fits
    <2>2. Finish(r) /\ \A f \in Files \ {h} : rows'[f] = rows[f]
      BY <1>8, <2>1 DEF PatchFileUpdate, TypeOK
    <2>3. rows'[h].state = "live" => rows'[h].dir = loc[r].dir /\ rows'[h].name = loc[r].name
      <3>1. CASE Exists(h)
        <4>1. rows'[h] = [rows[h] EXCEPT !.name = loc[r].name, !.dir = loc[r].dir]
          BY <1>8, <2>1, <3>1 DEF PatchFileUpdate, TypeOK
        <4>2. rows[h] \in RowType
          BY <2>1 DEF TypeOK
        <4> QED
          BY <4>1, <4>2 DEF RowType
      <3>2. CASE ~Exists(h)
        <4>1. rows' = rows
          BY <1>8, <3>2 DEF PatchFileUpdate
        <4>2. ~Live(h)
          BY <3>2 DEF Exists, Live
        <4> QED
          BY <4>1, <4>2 DEF Live
      <3> QED
        BY <3>1, <3>2
    <2>4. Mine => h \in Bearers(d, n)
      BY <2>1 DEF Bearers
    <2>5. Stays
      <3>1. \A f \in Files \ {h} : Live(f)' /\ rows'[f].dir = d /\ rows'[f].name = n
                                     => f \in Bearers(d, n)
        BY <1>2, <2>1, <2>2
      <3>2. rows'[h].state = "live" /\ rows'[h].dir = d /\ rows'[h].name = n => h \in Bearers(d, n)
        BY <2>3, <2>4
      <3> QED
        BY <3>1, <3>2 DEF Live
    <2> QED
      BY <1>4, <2>2, <2>5
  <1>9. CASE PatchFileCheck(r) /\ ~Finish(r)
    <2> DEFINE h == loc[r].file
    <2>1. /\ h \in Files /\ pc[r] = "checkMove" /\ rows' = rows
          /\ ~Taken(loc[r].dir, loc[r].name, h)
          /\ Goto(r, "updateFile", loc[r])
      BY <1>1, <1>9 DEF PatchFileCheck, At, Fits
    <2>2. /\ pc'[r] = "updateFile" /\ loc'[r] = loc[r]
          /\ \A q \in Reqs \ {r} : pc'[q] = pc[q] /\ loc'[q] = loc[q]
      BY <2>1, GotoLocals
    <2>3. CASE Mine
      <3>1. \A f \in Files : Live(f)' /\ rows'[f].dir = d /\ rows'[f].name = n => f = h
        BY <2>1, <2>3 DEF Taken, Live
      <3>2. h \in {loc'[q].file : q \in {q \in Reqs : pc'[q] = "updateFile"
                                              /\ loc'[q].dir = d /\ loc'[q].name = n}}
        BY <2>2, <2>3
      <3> QED
        BY <3>1, <3>2, RoomFree DEF Bearers
    <2>4. CASE ~Mine
      BY <1>1, <1>3, <2>1, <2>2, <2>4, StepKeepsRoom
    <2> QED
      BY <2>3, <2>4
  <1>10. CASE DeleteMark(r) \/ EmptyTrashPurge(r) \/ DeleteFolderSweep(r)
    <2>1. \A f \in Files : Live(f)' => rows'[f] = rows[f]
      BY <1>10 DEF DeleteMark, EmptyTrashPurge, DeleteFolderSweep, Live, TypeOK, RowType
    <2> QED
      BY <1>3, <1>5, <1>10, <2>1 DEF DeleteMark, EmptyTrashPurge, DeleteFolderSweep
  <1>11. ASSUME NEW step, NEW l, Goto(r, step, l), step \notin {"updateFile", "save", "insert"},
                rows' = rows
         PROVE  RoomFor(d, n)'
    BY <1>1, <1>3, <1>11, GotoLocals, StepKeepsRoom
  <1>12. CASE UploadInsertFails(r) \/ DeleteFolderCollect(r)
    <2>1. rows' = rows
      BY <1>12 DEF UploadInsertFails, DeleteFolderCollect
    <2>2. \E step \in {"unsave", "sweep"} : \E l : Goto(r, step, l)
      BY <1>12 DEF UploadInsertFails, DeleteFolderCollect
    <2> HIDE DEF Mine, Stays
    <2> QED
      BY <1>11, <2>1, <2>2
  <1>13. CASE rows' = rows /\ Finish(r)
    BY <1>3, <1>4, <1>13
  <1>14. ASSUME NEW f \in Files, Unlink(r, f) \/ UnlinkFails(r, f)
         PROVE  RoomFor(d, n)'
    BY <1>3, <1>5, <1>14 DEF Unlink, UnlinkFails
  <1>15. ~PatchFolderCascade(r) /\ ~PatchFileCheckFails(r)
    BY DEF PatchFolderCascade, PatchFileCheckFails, At, OpsInv, ChecksPass
  <1> QED
    BY <1>6, <1>7, <1>8, <1>9, <1>10, <1>12, <1>13, <1>14, <1>15, Enders
       DEF Continue, UploadSaveLitters, UploadUnsave, PatchFileCheck

LEMMA NextRoom ==
  ASSUME IsFiniteSet(Reqs), ChecksPass, TypeOK, OpsInv, RoomInv, [Next]_vars
  PROVE  RoomInv'
  <1> SUFFICES ASSUME NEW d \in Paths, NEW n \in Names \cup {None}
               PROVE  RoomFor(d, n)'
    BY DEF RoomInv
  <1>1. RoomFor(d, n)
    BY DEF RoomInv
  <1>2. CASE Crash
    <2>1. Bearers(d, n)' \subseteq Bearers(d, n) /\ Comers(d, n)' = {}
      BY <1>2 DEF Crash, Bearers, Comers, Live
    <2> QED
      BY <1>1, <2>1, RoomKept
  <1>3. CASE UNCHANGED vars
    <2>1. Bearers(d, n)' = Bearers(d, n) /\ Comers(d, n)' = Comers(d, n)
      BY <1>3 DEF vars, Bearers, Comers, Live
    <2> QED
      BY <1>1, <2>1, RoomKept
  <1> QED
    BY <1>2, <1>3, BeginRoom, ContinueRoom DEF Next

\* However many requests are handled, as long as they are finitely many: unless
\* clients restore files or move folders, and if no duplicate check fails, a folder
\* never has more live files of one name than there are requests at the same time,
\* however long uploads, moves of files, deletions and kills go on.  With one request
\* at a time no two live files have the same name in the same folder.
THEOREM TwinsCorrect ==
  ASSUME IsFiniteSet(Reqs), ChecksPass
  PROVE  Spec => []TwinsBounded
  <1> DEFINE I == TypeOK /\ OpsInv /\ RoomInv
  <1>1. Init => I
    <2> SUFFICES ASSUME Init PROVE RoomInv
      BY InitType DEF Init, OpsInv
    <2>1. \A d \in Paths, n \in Names \cup {None} : Bearers(d, n) = {}
      BY DEF Init, Bearers, Live
    <2>2. \A d \in Paths, n \in Names \cup {None} : IsFiniteSet(Reqs \ Comers(d, n))
      BY FS_Subset
    <2>3. \A d \in Paths, n \in Names \cup {None} : Cardinality(Reqs \ Comers(d, n)) \in Nat
      BY <2>2, FS_CardinalityType
    <2> QED
      BY <2>1, <2>3, FS_EmptySet DEF RoomInv, RoomFor
  <1>2. I /\ [Next]_vars => I'
    BY NextType, NextOps, NextRoom
  <1>3. I => TwinsBounded
    <2> SUFFICES ASSUME I, NEW f \in Files, Live(f)
                 PROVE  Cardinality(Twins(f)) <= Cardinality(Reqs)
      BY DEF TwinsBounded
    <2> DEFINE B == Bearers(rows[f].dir, rows[f].name)
               S == Reqs \ Comers(rows[f].dir, rows[f].name)
    <2>1. RoomFor(rows[f].dir, rows[f].name)
      BY DEF TypeOK, RowType, RoomInv
    <2>2. /\ Twins(f) \subseteq B /\ S \subseteq Reqs
          /\ IsFiniteSet(B) /\ Cardinality(B) <= Cardinality(S)
      BY <2>1 DEF Twins, Bearers, RoomFor
    <2> HIDE DEF B, S
    <2>3. IsFiniteSet(Twins(f)) /\ Cardinality(Twins(f)) <= Cardinality(B)
      BY <2>2, FS_Subset
    <2>4. IsFiniteSet(S) /\ Cardinality(S) <= Cardinality(Reqs)
      BY <2>2, FS_Subset
    <2>5. /\ Cardinality(Twins(f)) \in Nat /\ Cardinality(B) \in Nat
          /\ Cardinality(S) \in Nat /\ Cardinality(Reqs) \in Nat
      BY <2>2, <2>3, <2>4, FS_CardinalityType
    <2> QED
      BY <2>2, <2>3, <2>4, <2>5
  <1> QED
    BY <1>1, <1>2, <1>3, PTL DEF Spec
=============================================================================
