---------------------------- MODULE PathCascade ----------------------------
(***************************************************************************)
(* Paths as the strings they are: what internal/files/files.go makes of     *)
(* them in Go (normalised parents, full paths, lengths in bytes) and in     *)
(* SQLite (LIKE, SUBSTR), when a folder is renamed, moved or deleted.       *)
(*                                                                          *)
(* Two things make strings differ from the lists of names of FileStore.     *)
(* len counts bytes where SUBSTR counts characters.  And LIKE, which is to  *)
(* find what lies below a folder, ignores the case of ASCII letters and     *)
(* takes an underscore in the folder's path for any character (a percent    *)
(* sign, which it takes for any string, is left out of the names here).     *)
(*                                                                          *)
(* Handlers run one at a time and succeed; how they interleave and fail is  *)
(* the matter of FileStore.  Fault_X is a faulty variant of X.              *)
(***************************************************************************)
EXTENDS Naturals, Sequences, FiniteSets

CONSTANTS
    Letters,    \* the characters of names
    Slash,      \* the one that separates them
    Wide,       \* letters of two bytes; the others have one
    Wild,       \* the underscore
    Twins,      \* pairs of letters that differ in case only
    Names,      \* names that sanitizeFilename lets through
    Files, Folders,     \* the ids of rows
    MaxLen,     \* bound: no path has more characters
    None        \* no name

ASSUME PathAssumption ==
    /\ Names \subseteq Seq(Letters) \ {<<>>}
    /\ Slash \notin Letters
    /\ MaxLen \in Nat

VARIABLES
    state,      \* state[f] is "none", "live" or "trash"
    parent,     \* parent[f]: parent_path of a file
    folders     \* table folders

vars == <<state, parent, folders>>

Path == Seq(Letters \cup {Slash})

----------------------------------------------------------------------------
(* Go *)

Root == <<Slash>>

\* folderFullPath
Fault_Full(dir, name) == dir \o <<Slash>> \o name
Full(dir, name) ==
    IF dir = Root THEN <<Slash>> \o name ELSE dir \o <<Slash>> \o name

FullOf(g) == Full(folders[g].dir, folders[g].name)

\* len
Bytes(p) == Len(p) + Cardinality({i \in DOMAIN p : p[i] \in Wide})

----------------------------------------------------------------------------
(* SQLite *)

\* A character of a pattern of LIKE matches one of the value.
Matches(p, c) == p = Wild \/ p = c \/ {p, c} \in Twins

\* parent_path = full OR parent_path LIKE full || '/%'
Fault_Under(dir, full) ==
    /\ Len(full) <= Len(dir)
    /\ \A i \in 1..Len(full) : Matches(full[i], dir[i])
Under(dir, full) ==
    \/ dir = full
    \/ /\ Len(full) < Len(dir)
       /\ \A i \in 1..Len(full) : Matches(full[i], dir[i])
       /\ dir[Len(full) + 1] = Slash

\* new || SUBSTR(parent_path, len(old) + 1)
Fault_Rebase(dir, old, new) == new \o SubSeq(dir, Bytes(old) + 2, Len(dir))
Rebase(dir, old, new) == new \o SubSeq(dir, Bytes(old) + 1, Len(dir))

\* The cascade of PatchFolderHandler, for one row.
Cascaded(dir, old, new) ==
    IF old # new /\ Under(dir, old) THEN Rebase(dir, old, new) ELSE dir

----------------------------------------------------------------------------
(* Handlers *)

Exists(f) == state[f] # "none"
NoFolder == [exists |-> FALSE, name |-> None, dir |-> Root]

\* Where the web client may put something: the root and every folder.
Places == {Root} \cup {FullOf(g) : g \in {h \in Folders : folders[h].exists}}

Init ==
    /\ state = [f \in Files |-> "none"]
    /\ parent = [f \in Files |-> Root]
    /\ folders = [g \in Folders |-> NoFolder]

Upload(f, d) ==
    /\ state[f] = "none"
    /\ d \in Places
    /\ state' = [state EXCEPT ![f] = "live"]
    /\ parent' = [parent EXCEPT ![f] = d]
    /\ UNCHANGED folders

CreateFolder(g, n, d) ==
    /\ ~folders[g].exists
    /\ d \in Places
    /\ Len(Full(d, n)) <= MaxLen
    /\ \A h \in Folders : folders[h].exists => folders[h].dir # d \/ folders[h].name # n
    /\ folders' = [folders EXCEPT ![g] = [exists |-> TRUE, name |-> n, dir |-> d]]
    /\ UNCHANGED <<state, parent>>

\* The transaction sets the row of the folder first and then rewrites whatever
\* lies under the old path, which may be that row once more.  No row is so
\* rewritten that it gets longer than MaxLen.
PatchFolder(g, n, d) ==
    LET old == FullOf(g)
        new == Full(d, n)
        row(h) == IF h = g THEN [exists |-> TRUE, name |-> n, dir |-> d]
                           ELSE folders[h]
    IN  /\ folders[g].exists
        /\ d \in Places
        /\ parent' = [f \in Files |->
                        IF Exists(f) THEN Cascaded(parent[f], old, new)
                                     ELSE parent[f]]
        /\ folders' = [h \in Folders |->
                        IF folders[h].exists
                        THEN [row(h) EXCEPT !.dir = Cascaded(@, old, new)]
                        ELSE folders[h]]
        /\ \A f \in Files : Len(parent'[f]) <= MaxLen
        /\ \A h \in Folders : folders'[h].exists =>
             Len(Full(folders'[h].dir, folders'[h].name)) <= MaxLen
        /\ UNCHANGED state

\* The transaction trashes the files under the folder, and deletes the folders
\* under it and itself.
DeleteFolder(g) ==
    LET full == FullOf(g)
    IN  /\ folders[g].exists
        /\ state' = [f \in Files |->
                        IF Exists(f) /\ Under(parent[f], full) THEN "trash"
                                                               ELSE state[f]]
        /\ folders' = [h \in Folders |->
                        IF h = g \/ Under(folders[h].dir, full) THEN NoFolder
                                                                ELSE folders[h]]
        /\ UNCHANGED parent

Next ==
    \/ \E f \in Files, d \in Places : Upload(f, d)
    \/ \E g \in Folders, n \in Names, d \in Places : CreateFolder(g, n, d)
    \/ \E g \in Folders, n \in Names, d \in Places : PatchFolder(g, n, d)
    \/ \E g \in Folders : DeleteFolder(g)

CascadeSpec == Init /\ [][Next]_vars

----------------------------------------------------------------------------
(* Correctness *)

PathTypeOK ==
    /\ state \in [Files -> {"none", "live", "trash"}]
    /\ parent \in [Files -> Path]
    /\ folders \in [Folders ->
         [exists : BOOLEAN, name : Names \cup {None}, dir : Path]]
    /\ \A g \in Folders : folders[g].exists => folders[g].name \in Names

\* What path.Clean makes: absolute, no empty component, no slash at the end.
WellFormed(p) ==
    /\ p # <<>>
    /\ p[1] = Slash
    /\ p = Root \/ p[Len(p)] # Slash
    /\ \A i \in 1..(Len(p) - 1) : p[i] = Slash => p[i + 1] # Slash

\* Every stored path is one that normalizeParent could have returned, whatever
\* the cascade has cut off and put before it: listings compare paths with what
\* normalizeParent returns, so others would never be found again.
PathsWellFormed ==
    /\ PathTypeOK
    /\ \A f \in Files : Exists(f) => WellFormed(parent[f])
    /\ \A g \in Folders : folders[g].exists => WellFormed(folders[g].dir)

\* What "below the folder" means.
Descends(dir, full) ==
    \/ dir = full
    \/ /\ Len(full) < Len(dir)
       /\ SubSeq(dir, 1, Len(full)) = full
       /\ dir[Len(full) + 1] = Slash

\* The descendants of a folder have the old prefix of their path replaced by
\* the new one.
DescendantsFollow(g, n, d) ==
    LET old == FullOf(g)
        moved(dir) == Full(d, n) \o SubSeq(dir, Len(old) + 1, Len(dir))
    IN  /\ \A f \in Files : Exists(f) /\ Descends(parent[f], old) =>
             parent'[f] = moved(parent[f])
        /\ \A h \in Folders \ {g} : folders[h].exists /\ Descends(folders[h].dir, old) =>
             folders'[h] = [folders[h] EXCEPT !.dir = moved(@)]

\* Nothing else is touched, and the folder is where it was to go, unless that
\* is below itself.
OthersStay(g, n, d) ==
    LET old == FullOf(g)
    IN  /\ \A f \in Files : Exists(f) /\ ~Descends(parent[f], old) =>
             parent'[f] = parent[f]
        /\ \A h \in Folders \ {g} : folders[h].exists /\ ~Descends(folders[h].dir, old) =>
             folders'[h] = folders[h]
        /\ ~Descends(d, old) =>
             folders'[g] = [exists |-> TRUE, name |-> n, dir |-> d]

\* PatchFolderHandler: moving cascades the path update to all descendant files
\* and folders by replacing the old full path prefix with the new one.
CascadeReplacesPrefix ==
    [][\A g \in Folders, n \in Names, d \in Places :
         PatchFolder(g, n, d) =>
             DescendantsFollow(g, n, d) /\ OthersStay(g, n, d)]_vars

\* A path of letters of one byte.
Narrow(p) == \A i \in DOMAIN p : p[i] \notin Wide

\* A path of letters that LIKE takes for nothing but themselves.
Literal(p) ==
    \A i \in DOMAIN p : p[i] # Wild /\ \A pair \in Twins : p[i] \notin pair

\* PatchFolderHandler: what its cascade promises and what of the path of the
\* folder each half of the promise rests on.  No descendant is lost when each
\* letter of it has one byte, and nothing else is dragged along when LIKE takes
\* it literally; the new path and the paths of the other rows do not matter.
CascadeExact ==
    [][\A g \in Folders, n \in Names, d \in Places :
         PatchFolder(g, n, d) =>
             /\ Narrow(FullOf(g)) => DescendantsFollow(g, n, d)
             /\ Literal(FullOf(g)) => OthersStay(g, n, d)]_vars

\* Every file that descends from a folder is in the trash, and every folder
\* that does is gone.
SubtreeGone(g) ==
    /\ \A f \in Files : Exists(f) /\ Descends(parent[f], FullOf(g)) =>
         state'[f] = "trash"
    /\ \A h \in Folders : Descends(folders[h].dir, FullOf(g)) => ~folders'[h].exists

\* What does not descend from it is as it was.
RestSpared(g) ==
    /\ \A f \in Files : Exists(f) /\ ~Descends(parent[f], FullOf(g)) =>
         state'[f] = state[f]
    /\ \A h \in Folders \ {g} : ~Descends(folders[h].dir, FullOf(g)) =>
         folders'[h] = folders[h]

\* DeleteFolderHandler: the deletion of a folder always takes all that descends
\* from it along, whatever its letters, and nothing else when LIKE takes its
\* path literally.
DeletionExact ==
    [][\A g \in Folders :
         DeleteFolder(g) =>
             SubtreeGone(g) /\ (Literal(FullOf(g)) => RestSpared(g))]_vars
=============================================================================
