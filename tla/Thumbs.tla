------------------------------- MODULE Thumbs ------------------------------
(***************************************************************************)
(* The thumbnail cache of internal/photos/photos.go.  A request for an      *)
(* image at a size is served from the cache directory; when the thumbnail   *)
(* is not there the request generates it, holding a mutex that it finds or  *)
(* puts in the map inflight under the image's id, in a file of a fixed name *)
(* (.tmp) that it renames.  The mutex is taken out of the map when it is    *)
(* unlocked, whoever still waits for it.                                    *)
(*                                                                          *)
(* os.WriteFile truncates the file that has the name, or creates one, and   *)
(* then writes all of it by one system call; a file goes on existing for    *)
(* the request that has it open when its name is taken by another.  The     *)
(* disk is not full and the process is not killed.                          *)
(*                                                                          *)
(* Definitions marked "Fault" are as in FileStore.                          *)
(***************************************************************************)

CONSTANTS
    Images,     \* ids of image files
    Sizes,      \* values of the parameter size
    Reqs,       \* requests the server handles at the same time
    Mutexes,    \* bound: mutexes referred to at a time
    Inodes,     \* bound: files referred to at a time
    None        \* no mutex, no file, no request

ASSUME ThumbAssumption == None \notin Mutexes \cup Inodes \cup Reqs

VARIABLES
    inflight,   \* the mutex of each image in the map, or None
    holder,     \* the request that holds each mutex, or None
    thumb,      \* the file that has each thumbnail's name, or None
    tmp,        \* the file that has its temporary name, or None
    whole,      \* whether each file holds an entire image
    pc,         \* the next step of each request
    loc         \* its local variables

vars == <<inflight, holder, thumb, tmp, whole, pc, loc>>

Keys == Images \X Sizes

NoLoc == [key |-> None, mutex |-> None, file |-> None, ok |-> FALSE]

At(r, step) == pc[r] = step

Goto(r, step, l) ==
    /\ pc' = [pc EXCEPT ![r] = step]
    /\ loc' = [loc EXCEPT ![r] = l]

Finish(r) == Goto(r, "idle", NoLoc)

\* A mutex and a file that nothing refers to.
FreshMutex(m) ==
    /\ \A i \in Images : inflight[i] # m
    /\ \A r \in Reqs : loc[r].mutex # m
FreshFile(n) ==
    /\ \A k \in Keys : thumb[k] # n /\ tmp[k] # n
    /\ \A r \in Reqs : loc[r].file # n

\* &sync.Mutex{}, and the file that os.WriteFile creates or truncates.
MutexOf(i) == IF inflight[i] # None THEN inflight[i]
              ELSE CHOOSE m \in Mutexes : FreshMutex(m)
TmpOf(k) == IF tmp[k] # None THEN tmp[k]
            ELSE CHOOSE n \in Inodes : FreshFile(n)

Init ==
    /\ inflight = [i \in Images |-> None]
    /\ holder = [m \in Mutexes |-> None]
    /\ thumb = [k \in Keys |-> None]
    /\ tmp = [k \in Keys |-> None]
    /\ whole = [n \in Inodes |-> FALSE]
    /\ pc = [r \in Reqs |-> "idle"]
    /\ loc = [r \in Reqs |-> NoLoc]

----------------------------------------------------------------------------
(* ThumbHandler *)

Request(r, k) ==
    /\ At(r, "idle")
    /\ IF thumb[k] = None THEN Goto(r, "load", [NoLoc EXCEPT !.key = k])
                          ELSE Goto(r, "serve", NoLoc)
    /\ UNCHANGED <<inflight, holder, thumb, tmp, whole>>

Serve(r) ==
    /\ At(r, "serve")
    /\ Finish(r)
    /\ UNCHANGED <<inflight, holder, thumb, tmp, whole>>

----------------------------------------------------------------------------
(* generateThumb *)

\* inflight.LoadOrStore(id, &sync.Mutex{})
Load(r) ==
    /\ At(r, "load")
    /\ LET i == loc[r].key[1]
           m == MutexOf(i)
       IN /\ inflight[i] = None => \E x \in Mutexes : FreshMutex(x)
          /\ inflight' = [inflight EXCEPT ![i] = m]
          /\ Goto(r, "lock", [loc[r] EXCEPT !.mutex = m])
    /\ UNCHANGED <<holder, thumb, tmp, whole>>

\* Fault: nobody waits for the mutex.
Lock_NoWait(r) ==
    /\ At(r, "lock")
    /\ holder' = [holder EXCEPT ![loc[r].mutex] = r]
    /\ Goto(r, "recheck", loc[r])
    /\ UNCHANGED <<inflight, thumb, tmp, whole>>

Lock(r) ==
    /\ At(r, "lock")
    /\ holder[loc[r].mutex] = None
    /\ holder' = [holder EXCEPT ![loc[r].mutex] = r]
    /\ Goto(r, "recheck", loc[r])
    /\ UNCHANGED <<inflight, thumb, tmp, whole>>

\* Fault: the thumbnail is there, and the mutex is not released.
Recheck_NoUnlock(r) ==
    /\ At(r, "recheck")
    /\ IF thumb[loc[r].key] # None
       THEN Goto(r, "serve", NoLoc)
       ELSE Goto(r, "decode", loc[r])
    /\ UNCHANGED <<inflight, holder, thumb, tmp, whole>>

\* Another request may have made the thumbnail in the meantime.
Recheck(r) ==
    /\ At(r, "recheck")
    /\ IF thumb[loc[r].key] # None
       THEN Goto(r, "unlock", [loc[r] EXCEPT !.ok = TRUE])
       ELSE Goto(r, "decode", loc[r])
    /\ UNCHANGED <<inflight, holder, thumb, tmp, whole>>

Decode(r) ==
    /\ At(r, "decode")
    /\ Goto(r, "truncate", loc[r])
    /\ UNCHANGED <<inflight, holder, thumb, tmp, whole>>

\* The blob is gone, or is not an image that can be decoded.
DecodeFails(r) ==
    /\ At(r, "decode")
    /\ Goto(r, "unlock", loc[r])
    /\ UNCHANGED <<inflight, holder, thumb, tmp, whole>>

\* Fault: the file is renamed before it is written.
Truncate_NoWrite(r) ==
    /\ At(r, "truncate")
    /\ LET k == loc[r].key
           n == TmpOf(k)
       IN /\ tmp[k] = None => \E x \in Inodes : FreshFile(x)
          /\ tmp' = [tmp EXCEPT ![k] = n]
          /\ whole' = [whole EXCEPT ![n] = FALSE]
          /\ Goto(r, "rename", loc[r])
    /\ UNCHANGED <<inflight, holder, thumb>>

\* The two halves of os.WriteFile(tmp, ...).
Truncate(r) ==
    /\ At(r, "truncate")
    /\ LET k == loc[r].key
           n == TmpOf(k)
       IN /\ tmp[k] = None => \E x \in Inodes : FreshFile(x)
          /\ tmp' = [tmp EXCEPT ![k] = n]
          /\ whole' = [whole EXCEPT ![n] = FALSE]
          /\ Goto(r, "write", [loc[r] EXCEPT !.file = n])
    /\ UNCHANGED <<inflight, holder, thumb>>

Write(r) ==
    /\ At(r, "write")
    /\ whole' = [whole EXCEPT ![loc[r].file] = TRUE]
    /\ Goto(r, "rename", [loc[r] EXCEPT !.file = None])
    /\ UNCHANGED <<inflight, holder, thumb, tmp>>

\* Fault: the file keeps its temporary name as well.
Rename_Link(r) ==
    /\ At(r, "rename")
    /\ LET k == loc[r].key IN
       /\ thumb' = [thumb EXCEPT ![k] = tmp[k]]
       /\ Goto(r, "unlock", [loc[r] EXCEPT !.ok = TRUE])
    /\ UNCHANGED <<inflight, holder, tmp, whole>>

\* It fails when another request has renamed the file already.
Rename(r) ==
    /\ At(r, "rename")
    /\ LET k == loc[r].key IN
       IF tmp[k] # None
       THEN /\ thumb' = [thumb EXCEPT ![k] = tmp[k]]
            /\ tmp' = [tmp EXCEPT ![k] = None]
            /\ Goto(r, "unlock", [loc[r] EXCEPT !.ok = TRUE])
       ELSE /\ Goto(r, "unlock", loc[r])
            /\ UNCHANGED <<thumb, tmp>>
    /\ UNCHANGED <<inflight, holder, whole>>

\* The two halves of the deferred function.
Unlock(r) ==
    /\ At(r, "unlock")
    /\ holder' = [holder EXCEPT ![loc[r].mutex] = None]
    /\ Goto(r, "forget", [loc[r] EXCEPT !.mutex = None])
    /\ UNCHANGED <<inflight, thumb, tmp, whole>>

\* inflight.Delete(id) removes whatever mutex the image has by now.
Forget(r) ==
    /\ At(r, "forget")
    /\ inflight' = [inflight EXCEPT ![loc[r].key[1]] = None]
    /\ IF loc[r].ok THEN Goto(r, "serve", NoLoc) ELSE Finish(r)
    /\ UNCHANGED <<holder, thumb, tmp, whole>>

----------------------------------------------------------------------------

Continue(r) ==
    \/ Load(r) \/ Lock(r) \/ Recheck(r) \/ Decode(r) \/ DecodeFails(r)
    \/ Truncate(r) \/ Write(r) \/ Rename(r) \/ Unlock(r) \/ Forget(r)
    \/ Serve(r)

Next == \E r \in Reqs : Continue(r) \/ \E k \in Keys : Request(r, k)

Spec == Init /\ [][Next]_vars

\* The Go runtime runs every handler goroutine that can run.
FairSpec == Spec /\ \A r \in Reqs : WF_vars(Continue(r))

----------------------------------------------------------------------------
(* Correctness *)

\* The steps between Lock and Unlock.
Critical == {"recheck", "decode", "truncate", "write", "rename", "unlock"}

LocType == [key : Keys \cup {None}, mutex : Mutexes \cup {None},
            file : Inodes \cup {None}, ok : BOOLEAN]

\* The types of the variables; that a request between Lock and Unlock holds the
\* mutex it has locked, which makes mutexes exclude; and that one that writes
\* has a file open.
TypeOK ==
    /\ inflight \in [Images -> Mutexes \cup {None}]
    /\ holder \in [Mutexes -> Reqs \cup {None}]
    /\ thumb \in [Keys -> Inodes \cup {None}]
    /\ tmp \in [Keys -> Inodes \cup {None}]
    /\ whole \in [Inodes -> BOOLEAN]
    /\ pc \in [Reqs -> Critical \cup {"idle", "load", "lock", "forget", "serve"}]
    /\ loc \in [Reqs -> LocType]
    /\ \A r \in Reqs :
         /\ pc[r] \notin {"idle", "serve"} => loc[r].key \in Keys
         /\ At(r, "lock") \/ pc[r] \in Critical => loc[r].mutex \in Mutexes
         /\ pc[r] \in Critical => holder[loc[r].mutex] = r
         /\ At(r, "write") => loc[r].file \in Inodes

\* A thumbnail in the cache that is not a whole image is one that a request, which
\* was generating it when another had finished, has truncated and is about to write:
\* a reader may be sent a stump, but no stump stays.
StumpsAreBeingWritten ==
    \A k \in Keys : thumb[k] # None /\ ~whole[thumb[k]] =>
        \E r \in Reqs : At(r, "write") /\ loc[r].file = thumb[k]

\* Every temporary file belongs to a request that will rename it.
NoLitter ==
    \A k \in Keys : tmp[k] # None =>
        \E r \in Reqs : loc[r].key = k /\ pc[r] \in {"write", "rename"}

\* A request that waits for a mutex waits for one that generates a thumbnail of the
\* same image and does not wait itself, although an image may have several mutexes
\* by then: no mutex is left locked, and images do not hold each other up.
WaitersWaitForWork ==
    \A r \in Reqs : At(r, "lock") /\ holder[loc[r].mutex] # None =>
        \E h \in Reqs : /\ holder[loc[r].mutex] = h /\ loc[h].mutex = loc[r].mutex
                       /\ pc[h] \in Critical
                       /\ loc[h].key[1] = loc[r].key[1]

\* Every request is answered, although mutexes leave the map while others wait for
\* them: no waiter is forgotten and none waits for ever.
Answered == \A r \in Reqs : ~At(r, "idle") ~> At(r, "idle")
=============================================================================
