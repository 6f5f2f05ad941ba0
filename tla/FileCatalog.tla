---------------------------- MODULE FileCatalog ----------------------------
(***************************************************************************)
(* What the file service promises about the existence of files, and nothing *)
(* about how it keeps the promise.  A file is uploaded once, is moved to    *)
(* the trash and taken back out of it any number of times, and is purged    *)
(* only by emptying the trash: a purge removes everything that is in the    *)
(* trash at that instant, nothing that is not, and for good.                *)
(* FileStore implements this specification.                                 *)
(***************************************************************************)

CONSTANT Files

VARIABLE status         \* what a user would say has become of each file

States == {"none", "live", "trash", "gone"}

In(s) == {f \in Files : status[f] = s}

Move(S, s) == status' = [f \in Files |-> IF f \in S THEN s ELSE status[f]]

Init == status = [f \in Files |-> "none"]

Upload(f) == status[f] = "none" /\ Move({f}, "live")

Trash(S) == Move(S, "trash")

Restore(f) == status[f] = "trash" /\ Move({f}, "live")

EmptyTrash == Move(In("trash"), "gone")

Next ==
    \/ \E f \in Files : Upload(f) \/ Restore(f)
    \/ \E S \in SUBSET (In("live") \cup In("trash")) : Trash(S)
    \/ EmptyTrash

Spec == Init /\ [][Next]_status
=============================================================================
