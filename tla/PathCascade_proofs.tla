------------------------ MODULE PathCascade_proofs -------------------------
(***************************************************************************)
(* Proofs about PathCascade, for any letters and names: paths stay          *)
(* normalised whatever LIKE finds and SUBSTR cuts off, and below a folder   *)
(* whose path is plain the cascade and the deletion do what they are for.   *)
(***************************************************************************)
EXTENDS PathCascade, FiniteSetTheorems, SequenceTheorems, TLAPS

----------------------------------------------------------------------------
(* Strings *)

\* A string of two parts, each character of which is one of a part.
LEMMA Joined ==
    ASSUME NEW S, NEW p \in Seq(S), NEW q \in Seq(S)
    PROVE  /\ p \o q \in Seq(S)
           /\ Len(p \o q) = Len(p) + Len(q)
           /\ \A i \in 1..Len(p) : (p \o q)[i] = p[i]
           /\ \A i \in (Len(p) + 1)..(Len(p) + Len(q)) : (p \o q)[i] = q[i - Len(p)]
OBVIOUS

\* What SUBSTR leaves of a string.
LEMMA Suffix ==
    ASSUME NEW S, NEW p \in Seq(S), NEW k \in Nat \ {0}
    PROVE  /\ SubSeq(p, k, Len(p)) \in Seq(S)
           /\ k > Len(p) => SubSeq(p, k, Len(p)) = <<>>
           /\ k <= Len(p) => Len(SubSeq(p, k, Len(p))) = Len(p) - k + 1
           /\ \A i \in 1..Len(SubSeq(p, k, Len(p))) :
                SubSeq(p, k, Len(p))[i] = p[k + i - 1]
OBVIOUS

\* A string is what lies before a place and what lies after it.
LEMMA CutAndPaste ==
    ASSUME NEW S, NEW p \in Seq(S), NEW k \in 0..Len(p)
    PROVE  SubSeq(p, 1, k) \o SubSeq(p, k + 1, Len(p)) = p
<1> DEFINE front == SubSeq(p, 1, k)
           back == SubSeq(p, k + 1, Len(p))
<1>1. /\ front \in Seq(S) /\ Len(front) = k
      /\ \A i \in 1..k : front[i] = p[i]
  OBVIOUS
<1>2. /\ back \in Seq(S) /\ Len(back) = Len(p) - k
      /\ \A i \in 1..(Len(p) - k) : back[i] = p[k + i]
  OBVIOUS
<1> HIDE DEF front, back
<1>3. /\ front \o back \in Seq(S)
      /\ Len(front \o back) = Len(p)
      /\ \A i \in 1..k : (front \o back)[i] = front[i]
      /\ \A i \in (k + 1)..Len(p) : (front \o back)[i] = back[i - k]
  <2>1. k + (Len(p) - k) = Len(p)
    OBVIOUS
  <2> QED  BY <1>1, <1>2, <2>1, Joined
<1>4. \A i \in 1..Len(p) : (front \o back)[i] = p[i]
  BY <1>1, <1>2, <1>3
<1>5. front \o back = p
  BY <1>3, <1>4, SeqEqual
<1> QED  BY <1>5 DEF front, back

\* Strings with the same characters up to a place.
LEMMA SamePrefix ==
    ASSUME NEW S, NEW p \in Seq(S), NEW q \in Seq(S), Len(p) <= Len(q)
    PROVE  (SubSeq(q, 1, Len(p)) = p) <=> (\A i \in 1..Len(p) : p[i] = q[i])
<1> DEFINE front == SubSeq(q, 1, Len(p))
<1>1. /\ front \in Seq(S) /\ Len(front) = Len(p)
      /\ \A i \in 1..Len(p) : front[i] = q[i]
  OBVIOUS
<1> HIDE DEF front
<1>2. ASSUME \A i \in 1..Len(p) : p[i] = q[i]
      PROVE  front = p
  BY <1>1, <1>2, SeqEqual
<1> QED  BY <1>1, <1>2 DEF front

----------------------------------------------------------------------------
(* Normalised paths *)

LEMMA NameType ==
    ASSUME NEW n \in Names
    PROVE  /\ n \in Path
           /\ Len(n) \in Nat \ {0}
           /\ \A i \in 1..Len(n) : n[i] # Slash
<1>1. n \in Seq(Letters) /\ n # <<>>
  BY PathAssumption
<1>2. \A i \in 1..Len(n) : n[i] \in Letters
  BY <1>1
<1>3. n \in Seq(Letters \cup {Slash})
  BY <1>1, SeqMonotonic
<1> QED  BY <1>1, <1>2, <1>3, PathAssumption DEF Path

LEMMA RootType == Root \in Path /\ Len(Root) = 1 /\ WellFormed(Root)
BY DEF Root, Path, WellFormed

\* Something that is put behind a normalised path, with a slash in between if
\* that is not the root.
LEMMA FullShape ==
    ASSUME NEW d \in Path, NEW n \in Names, WellFormed(d)
    PROVE  /\ Full(d, n) \in Path
           /\ Full(d, n) # Root
           /\ WellFormed(Full(d, n))
<1> DEFINE L == Letters \cup {Slash}
<1>1. /\ n \in Seq(L) /\ d \in Seq(L)
      /\ Len(n) \in Nat \ {0} /\ Len(d) \in Nat \ {0}
      /\ \A i \in 1..Len(n) : n[i] # Slash
  BY NameType DEF Path, WellFormed
<1> DEFINE stem == IF d = Root THEN <<Slash>> ELSE d \o <<Slash>>
<1>2. /\ stem \in Seq(L)
      /\ Len(stem) \in Nat \ {0}
      /\ stem[1] = Slash
      /\ \A i \in 1..(Len(stem) - 1) : stem[i] = Slash => stem[i + 1] # Slash
  <2>1. CASE d = Root
    BY <2>1
  <2>2. CASE d # Root
    <3>1. /\ stem \in Seq(L)
          /\ Len(stem) = Len(d) + 1
          /\ \A i \in 1..Len(d) : stem[i] = d[i]
      BY <1>1, <2>2
    <3> QED  BY <1>1, <2>2, <3>1 DEF WellFormed
  <2> QED  BY <2>1, <2>2
<1>3. Full(d, n) = stem \o n
  BY <1>1 DEF Full
<1> HIDE DEF stem, L
<1>4. /\ stem \o n \in Seq(L)
      /\ Len(stem \o n) = Len(stem) + Len(n)
      /\ \A i \in 1..Len(stem) : (stem \o n)[i] = stem[i]
      /\ \A i \in (Len(stem) + 1)..(Len(stem) + Len(n)) :
            (stem \o n)[i] = n[i - Len(stem)]
  BY <1>1, <1>2, Joined
<1>5. \A i \in (Len(stem) + 1)..(Len(stem) + Len(n)) : (stem \o n)[i] # Slash
  BY <1>1, <1>2, <1>4
<1>6. /\ stem \o n # <<>> /\ (stem \o n)[1] = Slash
      /\ (stem \o n)[Len(stem \o n)] # Slash
  BY <1>1, <1>2, <1>4, <1>5
<1>7. ASSUME NEW i \in 1..(Len(stem \o n) - 1), (stem \o n)[i] = Slash
      PROVE  (stem \o n)[i + 1] # Slash
  BY <1>1, <1>2, <1>4, <1>5, <1>7
<1>8. stem \o n # Root
  BY <1>1, <1>2, <1>4, RootType
<1> QED  BY <1>3, <1>4, <1>6, <1>7, <1>8 DEF WellFormed, Path, L

\* A string that may be put behind a path as it is.
Appendable(p) ==
    /\ p \in Path
    /\ p # <<>>
    /\ p[Len(p)] # Slash
    /\ \A i \in 1..(Len(p) - 1) : p[i] = Slash => p[i + 1] # Slash

LEMMA Pasted ==
    ASSUME NEW new \in Path, WellFormed(new), new # Root,
           NEW rest, Appendable(rest)
    PROVE  /\ new \o rest \in Path
           /\ WellFormed(new \o rest)
           /\ new \o rest # Root
<1>1. PICK L : L = Letters \cup {Slash}
  OBVIOUS
<1>2. PICK k, m \in Nat \ {0} : k = Len(new) /\ m = Len(rest)
  BY DEF Appendable, WellFormed, Path
<1>3. /\ new \in Seq(L) /\ rest \in Seq(L)
      /\ new[k] # Slash /\ new[1] = Slash /\ rest[m] # Slash
      /\ \A i \in 1..(k - 1) : new[i] = Slash => new[i + 1] # Slash
      /\ \A i \in 1..(m - 1) : rest[i] = Slash => rest[i + 1] # Slash
  BY <1>1, <1>2 DEF Appendable, WellFormed, Path
<1>4. PICK res : res = new \o rest
  OBVIOUS
<1>5. /\ res \in Seq(L)
      /\ Len(res) = k + m
      /\ \A i \in 1..k : res[i] = new[i]
      /\ \A i \in (k + 1)..(k + m) : res[i] = rest[i - k]
  BY <1>2, <1>3, <1>4, Joined
<1>6. res[k + m] # Slash
  <2>1. (k + m) - k = m
    BY <1>2
  <2> QED  BY <1>2, <1>3, <1>5, <2>1
<1>7. ASSUME NEW i \in 1..(k + m - 1), res[i] = Slash
      PROVE  res[i + 1] # Slash
  <2>1. CASE i < k
    <3>1. i \in 1..k /\ i + 1 \in 1..k /\ i \in 1..(k - 1)
      BY <1>2, <2>1
    <3>2. new[i] = Slash
      BY <1>5, <1>7, <3>1
    <3> QED  BY <1>3, <1>5, <3>1, <3>2
  <2>2. CASE i = k
    BY <1>2, <1>3, <1>5, <1>7, <2>2
  <2>3. CASE i > k
    <3>1. PICK j \in 1..(m - 1) : i = k + j
      <4>1. i - k \in 1..(m - 1) /\ i = k + (i - k)
        BY <1>2, <2>3
      <4> QED  BY <4>1
    <3>2. res[i] = rest[j] /\ res[i + 1] = rest[j + 1]
      <4>1. i - k = j /\ (i + 1) - k = j + 1 /\ i + 1 \in (k + 1)..(k + m) /\ i \in (k + 1)..(k + m)
        BY <1>2, <2>3, <3>1
      <4> QED  BY <1>5, <4>1
    <3> QED  BY <1>3, <1>7, <3>1, <3>2
  <2> QED  BY <1>2, <2>1, <2>2, <2>3
<1>8. res # <<>> /\ res[1] = Slash /\ res # Root
  BY <1>2, <1>3, <1>5, RootType
<1>9. Len(res) - 1 = k + m - 1 /\ res[Len(res)] # Slash
  BY <1>2, <1>5, <1>6
<1>10. WellFormed(res)
  BY <1>5, <1>7, <1>8, <1>9 DEF WellFormed
<1> QED  BY <1>1, <1>4, <1>5, <1>8, <1>10 DEF Path

\* What is cut out of a path, wherever, may be put behind another.
LEMMA RebaseShape ==
    ASSUME NEW dir \in Path, WellFormed(dir), dir # Root,
           NEW new \in Path, WellFormed(new), new # Root,
           NEW k \in Nat \ {0}
    PROVE  /\ new \o SubSeq(dir, k, Len(dir)) \in Path
           /\ WellFormed(new \o SubSeq(dir, k, Len(dir)))
           /\ new \o SubSeq(dir, k, Len(dir)) # Root
<1>1. PICK rest : rest = SubSeq(dir, k, Len(dir))
  OBVIOUS
<1>2. CASE k > Len(dir)
  <2>1. rest = <<>>
    BY <1>1, <1>2, Suffix DEF Path
  <2>2. new \o rest = new
    BY <2>1, ConcatEmptySeq DEF Path
  <2> QED  BY <1>1, <2>2
<1>3. CASE k <= Len(dir)
  <2>1. PICK m \in Nat \ {0} : Len(dir) = k + m - 1
    <3>1. Len(dir) \in Nat /\ Len(dir) - k + 1 \in Nat \ {0}
          /\ Len(dir) = k + (Len(dir) - k + 1) - 1
      BY <1>3 DEF Path
    <3> QED  BY <3>1
  <2>2. /\ rest \in Path /\ Len(rest) = m
        /\ \A i \in 1..m : rest[i] = dir[k + i - 1]
    BY <1>1, <1>3, <2>1, Suffix DEF Path
  <2>3. rest[m] = dir[Len(dir)]
    BY <2>1, <2>2
  <2>4. ASSUME NEW i \in 1..(m - 1), rest[i] = Slash
        PROVE  rest[i + 1] # Slash
    <3>1. PICK j \in 1..(Len(dir) - 1) : j = k + i - 1
      BY <2>1, <2>4
    <3>2. rest[i] = dir[j] /\ rest[i + 1] = dir[j + 1]
      BY <2>1, <2>2, <2>4, <3>1
    <3> QED  BY <2>4, <3>1, <3>2 DEF WellFormed
  <2>5. Appendable(rest)
    BY <2>1, <2>2, <2>3, <2>4 DEF Appendable, WellFormed
  <2> QED  BY <1>1, <2>5, Pasted
<1>4. Len(dir) \in Nat
  BY DEF Path
<1> QED  BY <1>2, <1>3, <1>4

----------------------------------------------------------------------------
(* Every stored path is normalised *)

\* The root lies under no folder.
LEMMA UnderIsNotRoot ==
    ASSUME NEW dir \in Path, NEW old \in Path, WellFormed(old), old # Root,
           Under(dir, old)
    PROVE  dir # Root
<1>1. Len(old) \in Nat /\ Len(old) > 1
  BY DEF WellFormed, Path
<1> QED  BY <1>1, RootType DEF Under

LEMMA BytesPositive ==
    ASSUME NEW p \in Path
    PROVE  Bytes(p) \in Nat /\ Bytes(p) + 1 \in Nat \ {0}
<1>1. Len(p) \in Nat /\ DOMAIN p = 1..Len(p)
  BY DEF Path
<1>2. IsFiniteSet({i \in DOMAIN p : p[i] \in Wide})
  <2>1. IsFiniteSet(1..Len(p))
    BY <1>1, FS_Interval
  <2>2. {i \in DOMAIN p : p[i] \in Wide} \subseteq 1..Len(p)
    BY <1>1
  <2> QED  BY <2>1, <2>2, FS_Subset
<1>3. Cardinality({i \in DOMAIN p : p[i] \in Wide}) \in Nat
  BY <1>2, FS_CardinalityType
<1> QED  BY <1>1, <1>3 DEF Bytes

\* Whatever the cascade does to a path, it makes a path.
LEMMA CascadedShape ==
    ASSUME NEW dir \in Path, WellFormed(dir),
           NEW old \in Path, WellFormed(old), old # Root,
           NEW new \in Path, WellFormed(new), new # Root
    PROVE  Cascaded(dir, old, new) \in Path /\ WellFormed(Cascaded(dir, old, new))
<1>1. CASE old # new /\ Under(dir, old)
  <2>1. dir # Root
    BY <1>1, UnderIsNotRoot
  <2> QED  BY <1>1, <2>1, BytesPositive, RebaseShape DEF Cascaded, Rebase
<1>2. CASE ~(old # new /\ Under(dir, old))
  BY <1>2 DEF Cascaded
<1> QED  BY <1>1, <1>2

LEMMA FolderShape ==
    ASSUME PathsWellFormed, NEW g \in Folders, folders[g].exists
    PROVE  FullOf(g) \in Path /\ WellFormed(FullOf(g)) /\ FullOf(g) # Root
BY FullShape DEF PathsWellFormed, PathTypeOK, FullOf

LEMMA PlaceShape ==
    ASSUME PathsWellFormed, NEW d \in Places
    PROVE  d \in Path /\ WellFormed(d)
BY FolderShape, RootType DEF Places

LEMMA CascadeInit == Init => PathsWellFormed
BY RootType DEF Init, PathsWellFormed, PathTypeOK, NoFolder, Exists

LEMMA UploadStep ==
    ASSUME PathsWellFormed, NEW f \in Files, NEW d \in Places, Upload(f, d)
    PROVE  PathsWellFormed'
BY PlaceShape DEF Upload, PathsWellFormed, PathTypeOK, Exists

LEMMA CreateStep ==
    ASSUME PathsWellFormed, NEW g \in Folders, NEW n \in Names, NEW d \in Places,
           CreateFolder(g, n, d)
    PROVE  PathsWellFormed'
BY PlaceShape DEF CreateFolder, PathsWellFormed, PathTypeOK, Exists

LEMMA DeleteStep ==
    ASSUME PathsWellFormed, NEW g \in Folders, DeleteFolder(g)
    PROVE  PathsWellFormed'
BY RootType DEF DeleteFolder, PathsWellFormed, PathTypeOK, Exists, NoFolder

LEMMA PatchStep ==
    ASSUME PathsWellFormed, NEW g \in Folders, NEW n \in Names, NEW d \in Places,
           PatchFolder(g, n, d)
    PROVE  PathsWellFormed'
<1>1. PICK old, new : old = FullOf(g) /\ new = Full(d, n)
  OBVIOUS
<1>2. /\ folders[g].exists
      /\ parent' = [f \in Files |->
                      IF Exists(f) THEN Cascaded(parent[f], old, new) ELSE parent[f]]
      /\ folders' = [h \in Folders |->
                      IF folders[h].exists
                      THEN [(IF h = g THEN [exists |-> TRUE, name |-> n, dir |-> d]
                                      ELSE folders[h])
                              EXCEPT !.dir = Cascaded(@, old, new)]
                      ELSE folders[h]]
      /\ state' = state
  BY <1>1 DEF PatchFolder
<1>3. /\ old \in Path /\ WellFormed(old) /\ old # Root
      /\ new \in Path /\ WellFormed(new) /\ new # Root
      /\ d \in Path /\ WellFormed(d)
  BY <1>1, <1>2, FolderShape, PlaceShape, FullShape
<1>4. ASSUME NEW f \in Files
      PROVE  parent'[f] \in Path /\ (Exists(f) => WellFormed(parent'[f]))
  BY <1>2, <1>3, CascadedShape DEF PathsWellFormed, PathTypeOK
<1>5. ASSUME NEW h \in Folders, folders[h].exists
      PROVE  /\ folders'[h] \in [exists : BOOLEAN, name : Names \cup {None}, dir : Path]
             /\ folders'[h].name \in Names
             /\ WellFormed(folders'[h].dir)
  <2>1. PICK dir \in Path, name \in Names :
          /\ WellFormed(dir)
          /\ folders'[h] = [exists |-> TRUE, name |-> name, dir |-> Cascaded(dir, old, new)]
    <3>1. CASE h = g
      BY <1>2, <1>3, <1>5, <3>1
    <3>2. CASE h # g
      <4>1. /\ folders[h] \in [exists : BOOLEAN, name : Names \cup {None}, dir : Path]
            /\ folders[h].name \in Names /\ folders[h].dir \in Path
            /\ WellFormed(folders[h].dir)
        BY <1>5 DEF PathsWellFormed, PathTypeOK
      <4>2. folders'[h] = [folders[h] EXCEPT !.dir = Cascaded(@, old, new)]
        BY <1>2, <1>5, <3>2
      <4> QED  BY <1>5, <4>1, <4>2
    <3> QED  BY <3>1, <3>2
  <2>2. Cascaded(dir, old, new) \in Path /\ WellFormed(Cascaded(dir, old, new))
    BY <1>3, <2>1, CascadedShape
  <2> QED  BY <2>1, <2>2
<1>6. ASSUME NEW h \in Folders, ~folders[h].exists
      PROVE  folders'[h] = folders[h]
  BY <1>2, <1>6
<1>7. PathTypeOK'
  <2>1. parent' \in [Files -> Path]
    BY <1>2, <1>4
  <2>2. ASSUME NEW h \in Folders
        PROVE  folders'[h] \in [exists : BOOLEAN, name : Names \cup {None}, dir : Path]
    BY <1>5, <1>6 DEF PathsWellFormed, PathTypeOK
  <2>3. folders' \in [Folders -> [exists : BOOLEAN, name : Names \cup {None}, dir : Path]]
    BY <1>2, <2>2
  <2> QED  BY <1>2, <1>5, <1>6, <2>1, <2>3 DEF PathsWellFormed, PathTypeOK
<1> QED  BY <1>2, <1>4, <1>5, <1>6, <1>7 DEF PathsWellFormed, Exists

LEMMA CascadeNext == PathsWellFormed /\ [Next]_vars => PathsWellFormed'
<1>1. PathsWellFormed /\ UNCHANGED vars => PathsWellFormed'
  BY DEF PathsWellFormed, PathTypeOK, Exists, vars
<1> QED  BY <1>1, UploadStep, CreateStep, PatchStep, DeleteStep DEF Next

\* Every stored path is normalised, for any names.
THEOREM WellFormedCorrect == CascadeSpec => []PathsWellFormed
<1> QED  BY CascadeInit, CascadeNext, PTL DEF CascadeSpec

----------------------------------------------------------------------------
(* What LIKE finds, and what len counts *)

\* Whatever descends from a folder lies under it, as LIKE sees it.
LEMMA DescendsUnder ==
    ASSUME NEW dir \in Path, NEW full \in Path, Descends(dir, full)
    PROVE  Under(dir, full)
<1>1. CASE dir = full
  BY <1>1 DEF Under
<1>2. CASE dir # full
  <2>1. Len(full) < Len(dir) /\ SubSeq(dir, 1, Len(full)) = full
        /\ dir[Len(full) + 1] = Slash
    BY <1>2 DEF Descends
  <2>2. \A i \in 1..Len(full) : full[i] = dir[i]
    <3>1. Len(full) \in Nat /\ Len(dir) \in Nat
      BY DEF Path
    <3> QED  BY <2>1, <3>1, SamePrefix DEF Path
  <2> QED  BY <2>1, <2>2 DEF Under, Matches
<1> QED  BY <1>1, <1>2

\* For a path that LIKE takes literally, nothing else does.
LEMMA LiteralUnder ==
    ASSUME NEW dir \in Path, NEW full \in Path, Literal(full), Under(dir, full)
    PROVE  Descends(dir, full)
<1>1. /\ Len(full) \in Nat /\ Len(dir) \in Nat
      /\ DOMAIN full = 1..Len(full)
  BY DEF Path
<1>2. ASSUME NEW i \in 1..Len(full), NEW ch, Matches(full[i], ch)
      PROVE  full[i] = ch
  <2>1. {full[i], ch} \notin Twins /\ full[i] # Wild
    BY <1>1 DEF Literal
  <2> QED  BY <1>2, <2>1 DEF Matches
<1>3. Len(full) < Len(dir) =>
        ((SubSeq(dir, 1, Len(full)) = full) <=> \A i \in 1..Len(full) : full[i] = dir[i])
  BY <1>1, SamePrefix DEF Path
<1> QED  BY <1>2, <1>3 DEF Under, Descends

\* The length of a path of narrow letters is that in bytes.
LEMMA NarrowBytes ==
    ASSUME NEW p \in Path, Narrow(p)
    PROVE  Bytes(p) = Len(p)
<1>1. {i \in DOMAIN p : p[i] \in Wide} = {}
  BY DEF Narrow
<1>2. Cardinality({i \in DOMAIN p : p[i] \in Wide}) = 0
  <2>1. Cardinality({}) = 0
    BY FS_EmptySet
  <2> QED  BY <1>1, <2>1
<1>3. Len(p) \in Nat
  BY DEF Path
<1> QED  BY <1>2, <1>3 DEF Bytes

----------------------------------------------------------------------------
(* The cascade *)

\* Of a descendant of a folder with a narrow path it replaces the prefix.
LEMMA CascadedBelow ==
    ASSUME NEW dir \in Path, NEW old \in Path, NEW new \in Path,
           Narrow(old), Descends(dir, old)
    PROVE  Cascaded(dir, old, new) = new \o SubSeq(dir, Len(old) + 1, Len(dir))
<1>1. Under(dir, old) /\ Bytes(old) = Len(old)
  BY DescendsUnder, NarrowBytes
<1>2. CASE old # new
  BY <1>1, <1>2 DEF Cascaded, Rebase
<1>3. CASE old = new
  <2>1. Len(old) \in 0..Len(dir) /\ SubSeq(dir, 1, Len(old)) = old
    BY DEF Descends, Path
  <2>2. old \o SubSeq(dir, Len(old) + 1, Len(dir)) = dir
    BY <2>1, CutAndPaste DEF Path
  <2> QED  BY <1>3, <2>2 DEF Cascaded
<1> QED  BY <1>2, <1>3

\* A path that does not descend from a folder with a literal path it leaves.
LEMMA CascadedAside ==
    ASSUME NEW dir \in Path, NEW old \in Path, NEW new,
           Literal(old), ~Descends(dir, old)
    PROVE  Cascaded(dir, old, new) = dir
BY LiteralUnder DEF Cascaded

\* What a patch writes: the row of the folder, and every path as the cascade
\* makes it.
Written(g, n, d, old, new) ==
    /\ old \in Path /\ new \in Path /\ d \in Path
    /\ \A f \in Files : parent[f] \in Path
    /\ \A h \in Folders : folders[h].dir \in Path
    /\ \A f \in Files : Exists(f) => parent'[f] = Cascaded(parent[f], old, new)
    /\ \A h \in Folders \ {g} : folders[h].exists =>
         folders'[h] = [folders[h] EXCEPT !.dir = Cascaded(folders[h].dir, old, new)]
    /\ folders'[g] = [exists |-> TRUE, name |-> n, dir |-> Cascaded(d, old, new)]

LEMMA PatchWrites ==
    ASSUME PathsWellFormed, NEW g \in Folders, NEW n \in Names, NEW d \in Places,
           PatchFolder(g, n, d)
    PROVE  Written(g, n, d, FullOf(g), Full(d, n))
<1>1. /\ FullOf(g) \in Path /\ Full(d, n) \in Path /\ d \in Path
      /\ \A f \in Files : parent[f] \in Path
      /\ \A h \in Folders : folders[h].dir \in Path
  BY FolderShape, PlaceShape, FullShape DEF PatchFolder, PathsWellFormed, PathTypeOK
<1>2. ASSUME NEW f \in Files, Exists(f)
      PROVE  parent'[f] = Cascaded(parent[f], FullOf(g), Full(d, n))
  BY <1>2 DEF PatchFolder
<1>3. ASSUME NEW h \in Folders \ {g}, folders[h].exists
      PROVE  folders'[h] =
               [folders[h] EXCEPT !.dir = Cascaded(folders[h].dir, FullOf(g), Full(d, n))]
  BY <1>3 DEF PatchFolder
<1>4. folders'[g] = [exists |-> TRUE, name |-> n,
                     dir |-> Cascaded(d, FullOf(g), Full(d, n))]
  BY DEF PatchFolder
<1> QED  BY <1>1, <1>2, <1>3, <1>4 DEF Written

LEMMA NarrowPatch ==
    ASSUME PathsWellFormed, NEW g \in Folders, NEW n \in Names, NEW d \in Places,
           PatchFolder(g, n, d), Narrow(FullOf(g))
    PROVE  DescendantsFollow(g, n, d)
<1>1. PICK old, new : old = FullOf(g) /\ new = Full(d, n)
  OBVIOUS
<1>2. Written(g, n, d, old, new)
  BY <1>1, PatchWrites
<1>3. \A dir \in Path : Descends(dir, old) =>
        Cascaded(dir, old, new) = new \o SubSeq(dir, Len(old) + 1, Len(dir))
  BY <1>1, <1>2, CascadedBelow DEF Written
<1>4. ASSUME NEW h \in Folders \ {g}, folders[h].exists, Descends(folders[h].dir, old)
      PROVE  folders'[h] = [folders[h] EXCEPT !.dir =
               new \o SubSeq(folders[h].dir, Len(old) + 1, Len(folders[h].dir))]
  BY <1>2, <1>3, <1>4 DEF Written
<1> QED  BY <1>1, <1>2, <1>3, <1>4 DEF Written, DescendantsFollow

LEMMA LiteralPatch ==
    ASSUME PathsWellFormed, NEW g \in Folders, NEW n \in Names, NEW d \in Places,
           PatchFolder(g, n, d), Literal(FullOf(g))
    PROVE  OthersStay(g, n, d)
<1>1. PICK old, new : old = FullOf(g) /\ new = Full(d, n)
  OBVIOUS
<1>2. Written(g, n, d, old, new)
  BY <1>1, PatchWrites
<1>3. \A dir \in Path : ~Descends(dir, old) => Cascaded(dir, old, new) = dir
  BY <1>1, <1>2, CascadedAside DEF Written
<1>4. ASSUME NEW h \in Folders \ {g}, folders[h].exists, ~Descends(folders[h].dir, old)
      PROVE  folders'[h] = folders[h]
  <2>1. folders[h] \in [exists : BOOLEAN, name : Names \cup {None}, dir : Path]
    BY DEF PathsWellFormed, PathTypeOK
  <2>2. folders'[h] = [folders[h] EXCEPT !.dir = folders[h].dir]
    BY <1>2, <1>3, <1>4 DEF Written
  <2> QED  BY <2>1, <2>2
<1> QED  BY <1>1, <1>2, <1>3, <1>4 DEF Written, OthersStay

\* The cascade of a folder loses no descendant when its path is narrow, and
\* drags nothing else along when it is literal, for any letters, names and
\* other rows.
THEOREM CascadeCorrect == CascadeSpec => CascadeExact
<1>1. PathsWellFormed =>
        [\A g \in Folders, n \in Names, d \in Places :
           PatchFolder(g, n, d) =>
             /\ Narrow(FullOf(g)) => DescendantsFollow(g, n, d)
             /\ Literal(FullOf(g)) => OthersStay(g, n, d)]_vars
  BY NarrowPatch, LiteralPatch
<1> QED  BY <1>1, WellFormedCorrect, PTL DEF CascadeExact

\* Where all letters are narrow and literal it replaces exactly the prefix, for
\* every folder: what the comment on the handler says holds for such names.
THEOREM PlainNames ==
    ASSUME Wide = {}, Twins = {}, Wild \notin Letters \cup {Slash}
    PROVE  CascadeSpec => CascadeReplacesPrefix
<1>1. \A p \in Path : Narrow(p) /\ Literal(p)
  BY DEF Narrow, Literal, Path
<1>2. PathsWellFormed =>
        [\A g \in Folders, n \in Names, d \in Places :
           PatchFolder(g, n, d) =>
             DescendantsFollow(g, n, d) /\ OthersStay(g, n, d)]_vars
  <2> SUFFICES ASSUME PathsWellFormed, NEW g \in Folders, NEW n \in Names,
                      NEW d \in Places, PatchFolder(g, n, d)
               PROVE  DescendantsFollow(g, n, d) /\ OthersStay(g, n, d)
    OBVIOUS
  <2>1. Narrow(FullOf(g)) /\ Literal(FullOf(g))
    BY <1>1, PatchWrites DEF Written
  <2> QED  BY <2>1, NarrowPatch, LiteralPatch
<1> QED  BY <1>2, WellFormedCorrect, PTL DEF CascadeReplacesPrefix

----------------------------------------------------------------------------
(* Deletion *)

\* Nothing below a folder that is deleted is left, for any letters; and what is
\* not below it is spared if its path is literal.
THEOREM DeletionCorrect == CascadeSpec => DeletionExact
<1>1. ASSUME PathsWellFormed, NEW g \in Folders, DeleteFolder(g)
      PROVE  SubtreeGone(g) /\ (Literal(FullOf(g)) => RestSpared(g))
  <2>1. /\ FullOf(g) \in Path
        /\ \A f \in Files : parent[f] \in Path
        /\ \A h \in Folders : folders[h].dir \in Path
    BY <1>1, FolderShape DEF DeleteFolder, PathsWellFormed, PathTypeOK
  <2>2. SubtreeGone(g)
    <3>1. \A dir \in Path : Descends(dir, FullOf(g)) => Under(dir, FullOf(g))
      BY <2>1, DescendsUnder
    <3> QED  BY <1>1, <2>1, <3>1 DEF DeleteFolder, NoFolder, SubtreeGone
  <2>3. ASSUME Literal(FullOf(g))
        PROVE  RestSpared(g)
    <3>1. \A dir \in Path : Under(dir, FullOf(g)) => Descends(dir, FullOf(g))
      BY <2>1, <2>3, LiteralUnder
    <3> QED  BY <1>1, <2>1, <3>1 DEF DeleteFolder, RestSpared
  <2> QED  BY <2>2, <2>3
<1>2. PathsWellFormed =>
        [\A g \in Folders :
           DeleteFolder(g) =>
             SubtreeGone(g) /\ (Literal(FullOf(g)) => RestSpared(g))]_vars
  BY <1>1
<1> QED  BY <1>2, WellFormedCorrect, PTL DEF DeletionExact
=============================================================================
