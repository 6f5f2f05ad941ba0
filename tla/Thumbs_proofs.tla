--------------------------- MODULE Thumbs_proofs ---------------------------
(***************************************************************************)
(* Proofs about Thumbs: mutexes exclude and are released, and no unfinished *)
(* file stays.                                                              *)
(***************************************************************************)
EXTENDS Thumbs, TLAPS

\* What is allocated has the type it is to have.
LEMMA MutexOfType ==
    ASSUME TypeOK, NEW i \in Images,
           inflight[i] = None => \E m \in Mutexes : FreshMutex(m)
    PROVE  MutexOf(i) \in Mutexes
<1>1. CASE inflight[i] # None
  BY <1>1 DEF MutexOf, TypeOK
<1>2. CASE inflight[i] = None
  BY <1>2 DEF MutexOf
<1> QED  BY <1>1, <1>2

LEMMA TmpOfType ==
    ASSUME TypeOK, NEW k \in Keys,
           tmp[k] = None => \E n \in Inodes : FreshFile(n)
    PROVE  /\ TmpOf(k) \in Inodes
           /\ tmp[k] = None => FreshFile(TmpOf(k))
<1>1. CASE tmp[k] # None
  BY <1>1 DEF TmpOf, TypeOK
<1>2. CASE tmp[k] = None
  BY <1>2 DEF TmpOf
<1> QED  BY <1>1, <1>2

----------------------------------------------------------------------------
(* The types *)

LEMMA TypeInit == Init => TypeOK
BY ThumbAssumption DEF Init, TypeOK, LocType, NoLoc, At, Critical

Steps == Critical \cup {"idle", "load", "lock", "forget", "serve"}

\* A step of a request, from what it does to the request and to the rest.
LEMMA GotoType ==
    ASSUME TypeOK,
           NEW r \in Reqs, NEW step \in Steps, NEW l \in LocType,
           Goto(r, step, l),
           inflight' \in [Images -> Mutexes \cup {None}],
           holder' \in [Mutexes -> Reqs \cup {None}],
           thumb' \in [Keys -> Inodes \cup {None}],
           tmp' \in [Keys -> Inodes \cup {None}],
           whole' \in [Inodes -> BOOLEAN],
           \A q \in Reqs \ {r} : pc[q] \in Critical => holder'[loc[q].mutex] = q,
           step \notin {"idle", "serve"} => l.key \in Keys,
           step = "lock" \/ step \in Critical => l.mutex \in Mutexes,
           step \in Critical => holder'[l.mutex] = r,
           step = "write" => l.file \in Inodes
    PROVE  TypeOK'
<1>1. /\ pc' \in [Reqs -> Steps]
      /\ loc' \in [Reqs -> LocType]
      /\ pc'[r] = step /\ loc'[r] = l
      /\ \A q \in Reqs \ {r} : pc'[q] = pc[q] /\ loc'[q] = loc[q]
  BY DEF TypeOK, Goto, Steps
<1>2. ASSUME NEW q \in Reqs
      PROVE  /\ pc'[q] \notin {"idle", "serve"} => loc'[q].key \in Keys
             /\ pc'[q] = "lock" \/ pc'[q] \in Critical => loc'[q].mutex \in Mutexes
             /\ pc'[q] \in Critical => holder'[loc'[q].mutex] = q
             /\ pc'[q] = "write" => loc'[q].file \in Inodes
  <2>1. CASE q = r
    BY <1>1, <2>1
  <2>2. CASE q # r
    BY <1>1, <2>2 DEF TypeOK, At
  <2> QED  BY <2>1, <2>2
<1> QED  BY <1>1, <1>2 DEF TypeOK, At, Steps

LEMMA TypeStep == TypeOK /\ [Next]_vars => TypeOK'
<1> SUFFICES ASSUME TypeOK, [Next]_vars PROVE TypeOK'
  OBVIOUS
<1> USE ThumbAssumption DEF TypeOK, At, Critical
<1>1. NoLoc \in LocType
  BY DEF NoLoc, LocType
<1>2. ASSUME NEW r \in Reqs, NEW k \in Keys, Request(r, k) PROVE TypeOK'
  <2>1. CASE thumb[k] = None
    <3>1. [NoLoc EXCEPT !.key = k] \in LocType
      BY <1>1 DEF LocType
    <3>2. Goto(r, "load", [NoLoc EXCEPT !.key = k])
      BY <1>2, <2>1 DEF Request, Finish
    <3> QED
      BY <1>2, <2>1, <3>1, <3>2, GotoType DEF Request, Steps, LocType, NoLoc
  <2>2. CASE thumb[k] # None
    <3>1. NoLoc \in LocType
      BY <1>1 DEF LocType
    <3>2. Goto(r, "serve", NoLoc)
      BY <1>2, <2>2 DEF Request, Finish
    <3> QED
      BY <1>2, <2>2, <3>1, <3>2, GotoType DEF Request, Steps, LocType, NoLoc
  <2> QED  BY <2>1, <2>2
<1>3. ASSUME NEW r \in Reqs, Load(r) PROVE TypeOK'
  <2>1. loc[r].key[1] \in Images
    BY <1>3 DEF Load, Keys
  <2>2. MutexOf(loc[r].key[1]) \in Mutexes
    BY <1>3, <2>1, MutexOfType DEF Load
  <2>3. [loc[r] EXCEPT !.mutex = MutexOf(loc[r].key[1])] \in LocType
    BY <1>1, <2>1, <2>2 DEF LocType
  <2>4. Goto(r, "lock", [loc[r] EXCEPT !.mutex = MutexOf(loc[r].key[1])])
    BY <1>3 DEF Load, Finish
  <2> QED
    BY <1>3, <2>1, <2>2, <2>3, <2>4, GotoType DEF Load, Steps, LocType, NoLoc
<1>4. ASSUME NEW r \in Reqs, Lock(r) PROVE TypeOK'
  <2>1. loc[r] \in LocType
    BY <1>1 DEF LocType
  <2>2. Goto(r, "recheck", loc[r])
    BY <1>4 DEF Lock, Finish
  <2> QED
    BY <1>4, <2>1, <2>2, GotoType DEF Lock, Steps, LocType, NoLoc
<1>5. ASSUME NEW r \in Reqs, Recheck(r) PROVE TypeOK'
  <2>1. CASE thumb[loc[r].key] # None
    <3>1. [loc[r] EXCEPT !.ok = TRUE] \in LocType
      BY <1>1 DEF LocType
    <3>2. Goto(r, "unlock", [loc[r] EXCEPT !.ok = TRUE])
      BY <1>5, <2>1 DEF Recheck, Finish
    <3> QED
      BY <1>5, <2>1, <3>1, <3>2, GotoType DEF Recheck, Steps, LocType, NoLoc
  <2>2. CASE thumb[loc[r].key] = None
    <3>1. loc[r] \in LocType
      BY <1>1 DEF LocType
    <3>2. Goto(r, "decode", loc[r])
      BY <1>5, <2>2 DEF Recheck, Finish
    <3> QED
      BY <1>5, <2>2, <3>1, <3>2, GotoType DEF Recheck, Steps, LocType, NoLoc
  <2> QED  BY <2>1, <2>2
<1>6. ASSUME NEW r \in Reqs, Decode(r) PROVE TypeOK'
  <2>1. loc[r] \in LocType
    BY <1>1 DEF LocType
  <2>2. Goto(r, "truncate", loc[r])
    BY <1>6 DEF Decode, Finish
  <2> QED
    BY <1>6, <2>1, <2>2, GotoType DEF Decode, Steps, LocType, NoLoc
<1>7. ASSUME NEW r \in Reqs, DecodeFails(r) PROVE TypeOK'
  <2>1. loc[r] \in LocType
    BY <1>1 DEF LocType
  <2>2. Goto(r, "unlock", loc[r])
    BY <1>7 DEF DecodeFails, Finish
  <2> QED
    BY <1>7, <2>1, <2>2, GotoType DEF DecodeFails, Steps, LocType, NoLoc
<1>8. ASSUME NEW r \in Reqs, Truncate(r) PROVE TypeOK'
  <2>1. TmpOf(loc[r].key) \in Inodes
    BY <1>8, TmpOfType DEF Truncate
  <2>2. [loc[r] EXCEPT !.file = TmpOf(loc[r].key)] \in LocType
    BY <1>1, <2>1 DEF LocType
  <2>3. Goto(r, "write", [loc[r] EXCEPT !.file = TmpOf(loc[r].key)])
    BY <1>8 DEF Truncate, Finish
  <2> QED
    BY <1>8, <2>1, <2>2, <2>3, GotoType DEF Truncate, Steps, LocType, NoLoc
<1>9. ASSUME NEW r \in Reqs, Write(r) PROVE TypeOK'
  <2>1. [loc[r] EXCEPT !.file = None] \in LocType
    BY <1>1 DEF LocType
  <2>2. Goto(r, "rename", [loc[r] EXCEPT !.file = None])
    BY <1>9 DEF Write, Finish
  <2> QED
    BY <1>9, <2>1, <2>2, GotoType DEF Write, Steps, LocType, NoLoc
<1>10. ASSUME NEW r \in Reqs, Rename(r) PROVE TypeOK'
  <2>1. CASE tmp[loc[r].key] # None
    <3>1. [loc[r] EXCEPT !.ok = TRUE] \in LocType
      BY <1>1 DEF LocType
    <3>2. Goto(r, "unlock", [loc[r] EXCEPT !.ok = TRUE])
      BY <1>10, <2>1 DEF Rename, Finish
    <3>3. loc[r].key \in Keys /\ tmp[loc[r].key] \in Inodes
      BY <1>10, <2>1 DEF Rename
    <3>4. /\ thumb' \in [Keys -> Inodes \cup {None}]
          /\ tmp' \in [Keys -> Inodes \cup {None}]
          /\ UNCHANGED <<inflight, holder, whole>>
      BY <1>10, <2>1, <3>3 DEF Rename
    <3> QED
      BY <1>10, <3>1, <3>2, <3>4, GotoType DEF Rename, Steps, LocType
  <2>2. CASE tmp[loc[r].key] = None
    <3>1. loc[r] \in LocType
      BY <1>1 DEF LocType
    <3>2. Goto(r, "unlock", loc[r])
      BY <1>10, <2>2 DEF Rename, Finish
    <3> QED
      BY <1>10, <2>2, <3>1, <3>2, GotoType DEF Rename, Steps, LocType, NoLoc
  <2> QED  BY <2>1, <2>2
<1>11. ASSUME NEW r \in Reqs, Unlock(r) PROVE TypeOK'
  <2>1. [loc[r] EXCEPT !.mutex = None] \in LocType
    BY <1>1 DEF LocType
  <2>2. Goto(r, "forget", [loc[r] EXCEPT !.mutex = None])
    BY <1>11 DEF Unlock, Finish
  <2> DEFINE l == [loc[r] EXCEPT !.mutex = None]
  <2>3. /\ loc[r].mutex \in Mutexes /\ holder[loc[r].mutex] = r
        /\ loc[r].key \in Keys /\ l.key = loc[r].key
    BY <1>11, <1>1 DEF Unlock, LocType
  <2>4. /\ holder' \in [Mutexes -> Reqs \cup {None}]
        /\ UNCHANGED <<inflight, thumb, tmp, whole>>
    BY <1>11, <2>3 DEF Unlock
  <2>5. \A q \in Reqs \ {r} : pc[q] \in Critical => holder'[loc[q].mutex] = q
    BY <1>11, <2>3 DEF Unlock
  <2> HIDE DEF l
  <2> QED
    BY <2>1, <2>2, <2>3, <2>4, <2>5, GotoType DEF Steps, l
<1>12. ASSUME NEW r \in Reqs, Forget(r) PROVE TypeOK'
  <2>1. CASE loc[r].ok
    <3>1. NoLoc \in LocType
      BY <1>1 DEF LocType
    <3>2. Goto(r, "serve", NoLoc)
      BY <1>12, <2>1 DEF Forget, Finish
    <3> QED
      BY <1>12, <2>1, <3>1, <3>2, GotoType DEF Forget, Steps, LocType, NoLoc
  <2>2. CASE ~loc[r].ok
    <3>1. NoLoc \in LocType
      BY <1>1 DEF LocType
    <3>2. Goto(r, "idle", NoLoc)
      BY <1>12, <2>2 DEF Forget, Finish
    <3> QED
      BY <1>12, <2>2, <3>1, <3>2, GotoType DEF Forget, Steps, LocType, NoLoc
  <2> QED  BY <2>1, <2>2
<1>13. ASSUME NEW r \in Reqs, Serve(r) PROVE TypeOK'
  <2>1. NoLoc \in LocType
    BY <1>1 DEF LocType
  <2>2. Goto(r, "idle", NoLoc)
    BY <1>13 DEF Serve, Finish
  <2> QED
    BY <1>13, <2>1, <2>2, GotoType DEF Serve, Steps, LocType, NoLoc
<1>14. CASE UNCHANGED vars
  BY <1>14 DEF vars
<1> QED  BY <1>2, <1>3, <1>4, <1>5, <1>6, <1>7, <1>8, <1>9, <1>10, <1>11, <1>12, <1>13, <1>14 DEF Next, Continue

\* Mutexes exclude: between Lock and Unlock a request holds the mutex it has
\* locked, with any number of requests, images and sizes.
THEOREM TypeCorrect == Spec => []TypeOK
<1> QED  BY TypeInit, TypeStep, PTL DEF Spec

----------------------------------------------------------------------------
(* Unfinished files *)

\* A request is about to write the file n.
BeingWritten(n) == \E r \in Reqs : At(r, "write") /\ loc[r].file = n

\* StumpsAreBeingWritten says too little of a file that is to be renamed: the
\* request that truncates it may do so before or after another renames it, so that
\* the same has to hold of temporary files.
StumpInv ==
    \A k \in Keys : \A n \in {thumb[k], tmp[k]} :
        n # None /\ ~whole[n] => BeingWritten(n)

\* Only the request that writes a file ends its being written.
LEMMA StillWritten ==
    ASSUME TypeOK, NEW r \in Reqs, ~At(r, "write"), NEW n,
           NEW step, NEW l, Goto(r, step, l), BeingWritten(n)
    PROVE  BeingWritten(n)'
<1>1. PICK q \in Reqs : At(q, "write") /\ loc[q].file = n
  BY DEF BeingWritten
<1>2. pc'[q] = "write" /\ loc'[q].file = n
  BY <1>1 DEF TypeOK, Goto, At
<1> QED  BY <1>2 DEF BeingWritten, At

LEMMA StumpStep == TypeOK /\ StumpInv /\ [Next]_vars => StumpInv'
<1> SUFFICES ASSUME TypeOK, StumpInv, [Next]_vars PROVE StumpInv'
  OBVIOUS
\* A step that leaves the files alone.
<1>1. ASSUME NEW r \in Reqs, ~At(r, "write"), NEW step, NEW l, Goto(r, step, l),
             UNCHANGED <<thumb, tmp, whole>>
      PROVE  StumpInv'
  <2> SUFFICES ASSUME NEW k \in Keys, NEW n \in {thumb[k], tmp[k]}, n # None, ~whole[n]
               PROVE  BeingWritten(n)'
    BY <1>1 DEF StumpInv
  <2>1. BeingWritten(n)
    BY DEF StumpInv
  <2> QED  BY <1>1, <2>1, StillWritten
<1>2. ASSUME NEW r \in Reqs, NEW k \in Keys, Request(r, k) PROVE StumpInv'
  BY <1>1, <1>2 DEF Request, At
<1>3. ASSUME NEW r \in Reqs,
             \/ Load(r) \/ Lock(r) \/ Decode(r) \/ DecodeFails(r) \/ Unlock(r) \/ Serve(r)
      PROVE  StumpInv'
  BY <1>1, <1>3 DEF Load, Lock, Decode, DecodeFails, Unlock, Serve, Finish, At
<1>4. ASSUME NEW r \in Reqs, Recheck(r) PROVE StumpInv'
  BY <1>1, <1>4 DEF Recheck, At
<1>5. ASSUME NEW r \in Reqs, Forget(r) PROVE StumpInv'
  BY <1>1, <1>5 DEF Forget, Finish, At
<1>6. ASSUME NEW r \in Reqs, Truncate(r) PROVE StumpInv'
  <2>1. /\ loc[r].key \in Keys
        /\ \E t \in Inodes : t = TmpOf(loc[r].key)
    BY <1>6, TmpOfType DEF Truncate, TypeOK, At
  <2> PICK t \in Inodes : t = TmpOf(loc[r].key)
    BY <2>1
  <2>2. /\ pc' = [pc EXCEPT ![r] = "write"]
        /\ loc' = [loc EXCEPT ![r] = [loc[r] EXCEPT !.file = t]]
        /\ tmp' = [tmp EXCEPT ![loc[r].key] = t]
        /\ whole' = [whole EXCEPT ![t] = FALSE]
        /\ thumb' = thumb
    BY <1>6 DEF Truncate, Goto
  <2>3. BeingWritten(t)'
    <3>1. loc[r] \in LocType
      BY DEF TypeOK
    <3>2. pc'[r] = "write" /\ loc'[r].file = t
      BY <2>2, <3>1 DEF TypeOK, LocType
    <3> QED  BY <3>2 DEF BeingWritten, At
  <2> SUFFICES ASSUME NEW k \in Keys, NEW n \in {thumb'[k], tmp'[k]}, n # None, ~whole'[n],
                      n # t
               PROVE  BeingWritten(n)'
    BY <2>3 DEF StumpInv
  <2>4. n \in {thumb[k], tmp[k]} /\ n \in Inodes /\ ~whole[n]
    BY <2>1, <2>2 DEF TypeOK
  <2>5. BeingWritten(n)
    BY <2>4 DEF StumpInv
  <2> QED  BY <1>6, <2>2, <2>5, StillWritten DEF Truncate, At
<1>7. ASSUME NEW r \in Reqs, Write(r) PROVE StumpInv'
  <2> SUFFICES ASSUME NEW k \in Keys, NEW n \in {thumb[k], tmp[k]}, n # None, ~whole'[n]
               PROVE  BeingWritten(n)'
    BY <1>7 DEF Write, StumpInv
  <2>1. n \in Inodes /\ ~whole[n] /\ n # loc[r].file
    BY <1>7 DEF Write, TypeOK
  <2>2. PICK q \in Reqs : At(q, "write") /\ loc[q].file = n
    BY <2>1 DEF StumpInv, BeingWritten
  <2>3. pc'[q] = "write" /\ loc'[q].file = n
    BY <1>7, <2>1, <2>2 DEF Write, Goto, At, TypeOK
  <2> QED  BY <2>3 DEF BeingWritten, At
<1>8. ASSUME NEW r \in Reqs, Rename(r) PROVE StumpInv'
  <2>1. CASE tmp[loc[r].key] = None
    BY <1>1, <1>8, <2>1 DEF Rename, At
  <2>2. CASE tmp[loc[r].key] # None
    <3> SUFFICES ASSUME NEW k \in Keys, NEW n \in {thumb'[k], tmp'[k]}, n # None, ~whole'[n]
                 PROVE  BeingWritten(n)'
      BY DEF StumpInv
    <3>1. (n = thumb[k] \/ n = tmp[k]) /\ ~whole[n]
      BY <1>8, <2>2 DEF Rename, TypeOK, At
    <3>2. BeingWritten(n)
      BY <3>1 DEF StumpInv
    <3>3. PICK step, l : Goto(r, step, l)
      BY <1>8, <2>2 DEF Rename
    <3> QED  BY <1>8, <3>2, <3>3, StillWritten DEF Rename, At
  <2> QED  BY <2>1, <2>2
<1>9. CASE UNCHANGED vars
  BY <1>9 DEF vars, StumpInv, BeingWritten, At
<1> QED
  BY <1>2, <1>3, <1>4, <1>5, <1>6, <1>7, <1>8, <1>9 DEF Next, Continue

\* A thumbnail that is cut short is about to be written, whatever requests are
\* served together: no reader is sent a stump once they have finished.
THEOREM StumpsCorrect == Spec => []StumpsAreBeingWritten
<1>1. Init => StumpInv
  BY DEF Init, StumpInv
<1>2. StumpInv => StumpsAreBeingWritten
  BY DEF StumpInv, BeingWritten, StumpsAreBeingWritten
<1> QED  BY <1>1, <1>2, TypeInit, TypeStep, StumpStep, PTL DEF Spec

----------------------------------------------------------------------------
(* Temporary files *)

LEMMA LitterStep == TypeOK /\ NoLitter /\ [Next]_vars => NoLitter'
<1> SUFFICES ASSUME TypeOK, NoLitter, [Next]_vars,
                    NEW k \in Keys, tmp'[k] # None
             PROVE  \E q \in Reqs : loc'[q].key = k /\ pc'[q] \in {"write", "rename"}
  BY DEF NoLitter, At
<1> DEFINE Owner(q) == q \in Reqs /\ loc[q].key = k /\ pc[q] \in {"write", "rename"}
<1> DEFINE OwnerAfter == \E q \in Reqs : loc'[q].key = k /\ pc'[q] \in {"write", "rename"}
\* A step of a request that owns no temporary file.
<1>1. ASSUME NEW r \in Reqs, pc[r] \notin {"write", "rename"},
             NEW step, NEW l, Goto(r, step, l), tmp'[k] = tmp[k]
      PROVE  OwnerAfter
  <2>1. PICK q : Owner(q)
    BY <1>1 DEF NoLitter
  <2> QED  BY <1>1, <2>1 DEF Goto, TypeOK
<1>2. ASSUME NEW r \in Reqs, NEW i \in Keys, Request(r, i) PROVE OwnerAfter
  BY <1>1, <1>2 DEF Request, At
<1>3. ASSUME NEW r \in Reqs,
             \/ Load(r) \/ Lock(r) \/ Decode(r) \/ DecodeFails(r) \/ Unlock(r) \/ Serve(r)
      PROVE  OwnerAfter
  BY <1>1, <1>3 DEF Load, Lock, Decode, DecodeFails, Unlock, Serve, Finish, At
<1>4. ASSUME NEW r \in Reqs, Recheck(r) PROVE OwnerAfter
  BY <1>1, <1>4 DEF Recheck, At
<1>5. ASSUME NEW r \in Reqs, Forget(r) PROVE OwnerAfter
  BY <1>1, <1>5 DEF Forget, Finish, At
<1>6. ASSUME NEW r \in Reqs, Truncate(r) PROVE OwnerAfter
  <2>1. CASE loc[r].key = k
    <3>1. loc[r] \in LocType
      BY DEF TypeOK
    <3> QED  BY <1>6, <2>1, <3>1 DEF Truncate, Goto, TypeOK, LocType
  <2>2. CASE loc[r].key # k
    BY <1>1, <1>6, <2>2 DEF Truncate, At, TypeOK
  <2> QED  BY <2>1, <2>2
<1>7. ASSUME NEW r \in Reqs, Write(r) PROVE OwnerAfter
  <2>1. PICK q : Owner(q)
    BY <1>7 DEF NoLitter, Write
  <2>2. loc[r] \in LocType
    BY DEF TypeOK
  <2> QED  BY <1>7, <2>1, <2>2 DEF Write, Goto, TypeOK, LocType
<1>8. ASSUME NEW r \in Reqs, Rename(r) PROVE OwnerAfter
  <2>1. loc[r].key # k /\ tmp[k] # None
    BY <1>8 DEF Rename, TypeOK
  <2>2. PICK q : Owner(q)
    BY <2>1 DEF NoLitter
  <2>3. PICK step, l : Goto(r, step, l)
    BY <1>8 DEF Rename
  <2> QED  BY <2>1, <2>2, <2>3 DEF Goto, TypeOK
<1>9. CASE UNCHANGED vars
  BY <1>9 DEF vars, NoLitter, At
<1> QED
  BY <1>2, <1>3, <1>4, <1>5, <1>6, <1>7, <1>8, <1>9 DEF Next, Continue

\* No temporary file is left behind by requests that run to their end, although two
\* of them may use the same one.
THEOREM NoLitterCorrect == Spec => []NoLitter
<1>1. Init => NoLitter
  BY DEF Init, NoLitter
<1> QED  BY <1>1, TypeInit, TypeStep, LitterStep, PTL DEF Spec

----------------------------------------------------------------------------
(* Mutexes *)

\* Whoever holds a mutex is working.
HolderInv ==
    \A m \in Mutexes : holder[m] # None =>
        \E h \in Reqs : holder[m] = h /\ pc[h] \in Critical /\ loc[h].mutex = m

\* A mutex is one image's, in the map and among the requests.
ImageInv ==
    /\ \A r, q \in Reqs : loc[r].mutex # None /\ loc[r].mutex = loc[q].mutex =>
         loc[r].key[1] = loc[q].key[1]
    /\ \A i \in Images, r \in Reqs : inflight[i] # None /\ loc[r].mutex = inflight[i] =>
         loc[r].key[1] = i
    /\ \A i, j \in Images : inflight[i] # None /\ inflight[i] = inflight[j] => i = j

LEMMA GotoFields ==
    ASSUME TypeOK, NEW r \in Reqs, NEW step, NEW l, Goto(r, step, l)
    PROVE  /\ pc'[r] = step /\ loc'[r] = l
           /\ \A q \in Reqs \ {r} : pc'[q] = pc[q] /\ loc'[q] = loc[q]
BY DEF TypeOK, Goto

\* A step that leaves the holders alone, of a request that holds nothing or goes on.
LEMMA HolderKept ==
    ASSUME TypeOK, HolderInv, NEW r \in Reqs, NEW step, NEW l, Goto(r, step, l),
           holder' = holder,
           pc[r] \notin Critical \/ (step \in Critical /\ l.mutex = loc[r].mutex)
    PROVE  HolderInv'
<1> SUFFICES ASSUME NEW m \in Mutexes, holder[m] # None
             PROVE  \E h \in Reqs : holder[m] = h /\ pc'[h] \in Critical /\ loc'[h].mutex = m
  BY DEF HolderInv
<1>1. PICK h \in Reqs : holder[m] = h /\ pc[h] \in Critical /\ loc[h].mutex = m
  BY DEF HolderInv
<1>2. pc'[h] \in Critical /\ loc'[h].mutex = m
  BY <1>1, GotoFields
<1> QED  BY <1>1, <1>2

\* A step by which a request learns of no mutex and the map gets none.
LEMMA ImageKept ==
    ASSUME TypeOK, ImageInv, NEW r \in Reqs, NEW step, NEW l, Goto(r, step, l),
           l.mutex = None \/ (l.mutex = loc[r].mutex /\ l.key = loc[r].key),
           \A i \in Images : inflight'[i] \in {inflight[i], None}
    PROVE  ImageInv'
<1>1. \A q \in Reqs : loc'[q].mutex = None
                       \/ (loc'[q].mutex = loc[q].mutex /\ loc'[q].key = loc[q].key)
  BY GotoFields
<1> QED  BY <1>1 DEF ImageInv

\* A request finds its image's mutex in the map or makes one that is nobody's.
LEMMA LoadImage ==
    ASSUME TypeOK, ImageInv, NEW r \in Reqs, Load(r)
    PROVE  ImageInv'
<1>1. loc[r] \in LocType /\ loc[r].key \in Keys /\ loc[r].key[1] \in Images
  BY DEF Load, At, TypeOK, Keys
<1> DEFINE i == loc[r].key[1]
           m == MutexOf(i)
           l == [loc[r] EXCEPT !.mutex = m]
<1>2. l.mutex = m /\ l.key = loc[r].key
  BY <1>1 DEF LocType
<1>3. m \in Mutexes /\ (inflight[i] # m => FreshMutex(m))
  BY <1>1, MutexOfType DEF Load, MutexOf
<1>4. inflight' = [inflight EXCEPT ![i] = m] /\ Goto(r, "lock", l)
  BY DEF Load
<1> HIDE DEF i, m, l
<1>5. /\ loc'[r].mutex = m /\ loc'[r].key[1] = i
      /\ \A q \in Reqs \ {r} : loc'[q] = loc[q]
      /\ inflight'[i] = m
      /\ \A j \in Images \ {i} : inflight'[j] = inflight[j]
  BY <1>1, <1>2, <1>4, GotoFields DEF TypeOK, i
<1>6. i \in Images /\ m # None
  BY <1>1, <1>3, ThumbAssumption DEF i
<1>7. \A q \in Reqs \ {r} : loc[q].mutex = m => loc[q].key[1] = i
  BY <1>3, <1>6 DEF ImageInv, FreshMutex
<1>8. \A j \in Images \ {i} : inflight[j] # m
  BY <1>3, <1>6 DEF ImageInv, FreshMutex
<1>9. \A q, p \in Reqs : loc'[q].mutex # None /\ loc'[q].mutex = loc'[p].mutex =>
         loc'[q].key[1] = loc'[p].key[1]
  BY <1>5, <1>7 DEF ImageInv
<1>10. \A j \in Images, q \in Reqs : inflight'[j] # None /\ loc'[q].mutex = inflight'[j] =>
         loc'[q].key[1] = j
  BY <1>5, <1>7, <1>8 DEF ImageInv
<1>11. \A j, k \in Images : inflight'[j] # None /\ inflight'[j] = inflight'[k] => j = k
  BY <1>5, <1>8 DEF ImageInv
<1> QED  BY <1>9, <1>10, <1>11 DEF ImageInv

LEMMA MutexStep == TypeOK /\ HolderInv /\ ImageInv /\ [Next]_vars => HolderInv' /\ ImageInv'
<1> SUFFICES ASSUME TypeOK, HolderInv, ImageInv, [Next]_vars PROVE HolderInv' /\ ImageInv'
  OBVIOUS
<1>a. \A r \in Reqs : loc[r] \in LocType
  BY DEF TypeOK
<1>b. NoLoc.mutex = None
  BY DEF NoLoc
<1>1. ASSUME NEW r \in Reqs, NEW k \in Keys, Request(r, k) PROVE HolderInv' /\ ImageInv'
  <2> DEFINE l == [NoLoc EXCEPT !.key = k]
  <2>1. l.mutex = None
    BY DEF NoLoc
  <2>2. Goto(r, "load", l) \/ Goto(r, "serve", NoLoc)
    BY <1>1 DEF Request
  <2>3. pc[r] \notin Critical /\ holder' = holder /\ inflight' = inflight
    BY <1>1 DEF Request, At, Critical
  <2> HIDE DEF l
  <2> QED  BY <1>b, <2>1, <2>2, <2>3, HolderKept, ImageKept
<1>2. ASSUME NEW r \in Reqs, Load(r) PROVE HolderInv' /\ ImageInv'
  <2>1. pc[r] \notin Critical /\ holder' = holder /\ \E l : Goto(r, "lock", l)
    BY <1>2 DEF Load, At, Critical
  <2> QED  BY <1>2, <2>1, HolderKept, LoadImage
<1>3. ASSUME NEW r \in Reqs, Lock(r) PROVE HolderInv' /\ ImageInv'
  <2>1. Goto(r, "recheck", loc[r]) /\ inflight' = inflight
    BY <1>3 DEF Lock
  <2>2. loc[r].mutex \in Mutexes /\ holder' = [holder EXCEPT ![loc[r].mutex] = r]
        /\ holder[loc[r].mutex] = None /\ pc[r] \notin Critical
    BY <1>3 DEF Lock, At, TypeOK, Critical
  <2>3. HolderInv'
    <3> SUFFICES ASSUME NEW m \in Mutexes, holder'[m] # None
                 PROVE  \E h \in Reqs : holder'[m] = h /\ pc'[h] \in Critical /\ loc'[h].mutex = m
      BY DEF HolderInv
    <3>1. CASE m = loc[r].mutex
      BY <2>1, <2>2, <3>1, GotoFields DEF TypeOK, Critical
    <3>2. CASE m # loc[r].mutex
      <4>1. PICK h \in Reqs : holder[m] = h /\ pc[h] \in Critical /\ loc[h].mutex = m
        BY <2>2, <3>2 DEF HolderInv, TypeOK
      <4> QED  BY <2>1, <2>2, <3>2, <4>1, GotoFields DEF TypeOK
    <3> QED  BY <3>1, <3>2
  <2> QED  BY <2>1, <2>3, ImageKept
<1>4. ASSUME NEW r \in Reqs,
             \/ Recheck(r) \/ Decode(r) \/ DecodeFails(r) \/ Truncate(r) \/ Write(r) \/ Rename(r)
      PROVE  HolderInv' /\ ImageInv'
  <2>1. PICK step \in Critical, l \in {loc[r], [loc[r] EXCEPT !.ok = TRUE], [loc[r] EXCEPT !.file = None],
                                       [loc[r] EXCEPT !.file = TmpOf(loc[r].key)]} :
           Goto(r, step, l)
    BY <1>4 DEF Recheck, Decode, DecodeFails, Truncate, Write, Rename, Critical
  <2>2. l.mutex = loc[r].mutex /\ l.key = loc[r].key
    BY <1>a, <2>1 DEF LocType
  <2>3. holder' = holder /\ inflight' = inflight
    BY <1>4 DEF Recheck, Decode, DecodeFails, Truncate, Write, Rename
  <2> QED  BY <2>1, <2>2, <2>3, HolderKept, ImageKept
<1>5. ASSUME NEW r \in Reqs, Unlock(r) PROVE HolderInv' /\ ImageInv'
  <2> DEFINE l == [loc[r] EXCEPT !.mutex = None]
  <2>1. l.mutex = None /\ Goto(r, "forget", l) /\ inflight' = inflight
    BY <1>5, <1>a DEF Unlock, LocType
  <2> HIDE DEF l
  <2>2. /\ loc[r].mutex \in Mutexes /\ holder[loc[r].mutex] = r
        /\ holder' = [holder EXCEPT ![loc[r].mutex] = None]
    BY <1>5 DEF Unlock, At, TypeOK, Critical
  <2>3. HolderInv'
    <3> SUFFICES ASSUME NEW m \in Mutexes, holder'[m] # None
                 PROVE  \E h \in Reqs : holder'[m] = h /\ pc'[h] \in Critical /\ loc'[h].mutex = m
      BY DEF HolderInv
    <3>1. m # loc[r].mutex /\ holder'[m] = holder[m]
      BY <2>2 DEF TypeOK
    <3>2. PICK h \in Reqs : holder[m] = h /\ pc[h] \in Critical /\ loc[h].mutex = m
      BY <3>1 DEF HolderInv
    <3> QED  BY <2>1, <3>1, <3>2, GotoFields
  <2> QED  BY <2>1, <2>3, ImageKept
<1>6. ASSUME NEW r \in Reqs, Forget(r) \/ Serve(r) PROVE HolderInv' /\ ImageInv'
  <2>1. \E step : Goto(r, step, NoLoc)
    BY <1>6 DEF Forget, Serve, Finish
  <2>2. pc[r] \notin Critical /\ holder' = holder
    BY <1>6 DEF Forget, Serve, At, Critical
  <2>3. \A i \in Images : inflight'[i] \in {inflight[i], None}
    BY <1>6 DEF Forget, Serve, TypeOK
  <2> QED  BY <1>b, <2>1, <2>2, <2>3, HolderKept, ImageKept
<1>7. CASE UNCHANGED vars
  BY <1>7 DEF vars, HolderInv, ImageInv
<1> QED
  BY <1>1, <1>2, <1>3, <1>4, <1>5, <1>6, <1>7 DEF Next, Continue

\* Nobody waits for a mutex that nobody will unlock, or for the work on another image,
\* for any number of requests, images, sizes and mutexes.
THEOREM WaitersCorrect == Spec => []WaitersWaitForWork
<1>1. Init => HolderInv /\ ImageInv
  BY DEF Init, HolderInv, ImageInv, NoLoc
<1>2. TypeOK /\ HolderInv /\ ImageInv => WaitersWaitForWork
  BY ThumbAssumption DEF TypeOK, HolderInv, ImageInv, WaitersWaitForWork
<1> QED  BY <1>1, <1>2, TypeInit, TypeStep, MutexStep, PTL DEF Spec
=============================================================================
