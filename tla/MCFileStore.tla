---------------------------- MODULE MCFileStore ----------------------------
(***************************************************************************)
(* FileStore for TLC: the symmetry of the runs that check safety only.      *)
(***************************************************************************)
EXTENDS FileStore, TLC

\* Ids, names and requests are only ever compared for equality.
Symmetry ==
    Permutations(Files) \cup Permutations(Folders)
        \cup Permutations(Names) \cup Permutations(Reqs)
=============================================================================
