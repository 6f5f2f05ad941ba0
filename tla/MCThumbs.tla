------------------------------ MODULE MCThumbs -----------------------------
(***************************************************************************)
(* Thumbs for TLC.  A mutex is referred to by the map and by the requests   *)
(* and a file by its names and by the requests, so one of each more than    *)
(* the references there can be is always enough.                            *)
(***************************************************************************)
EXTENDS Thumbs, Integers, FiniteSets

ASSUME PoolsSuffice ==
    /\ Cardinality(Mutexes) > Cardinality(Images) + Cardinality(Reqs) - 1
    /\ Cardinality(Inodes) > 2 * Cardinality(Keys) + Cardinality(Reqs) - 1
=============================================================================
