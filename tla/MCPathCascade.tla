--------------------------- MODULE MCPathCascade ---------------------------
(***************************************************************************)
(* PathCascade for TLC.  b is a plain letter, c and d are one in lower and  *)
(* in upper case, e is one of two bytes, and wild is the underscore, which  *)
(* matches each of them.  One name is a prefix of another.                  *)
(***************************************************************************)
EXTENDS PathCascade, TLC

CONSTANTS b, c, d, e

MCLetters == {b, c, d, e, Wild}
MCTwins == {{c, d}}
MCNames == {<<b>>, <<b, b>>, <<c>>, <<d>>, <<e>>, <<Wild>>}
FolderSymmetry == Permutations(Folders)
=============================================================================
