------------------------ MODULE ShareLinks_proofs --------------------------
(***************************************************************************)
(* What holds of ShareLinks for all files, folders, links, requests and     *)
(* values that clients send.                                                *)
(***************************************************************************)
EXTENDS ShareLinks, FiniteSetTheorems, TLAPS

----------------------------------------------------------------------------
(* Type correctness *)

\* A request in the middle of its handling knows what the next step needs.
Knows(r) ==
    /\ pc[r] \in {"resolveAgain", "lookup", "count"} =>
         loc[r].link \in Links /\ links[loc[r].link].exists
    /\ pc[r] \in {"insert", "lookup", "count"} => loc[r].item # None

LocalOK ==
    /\ pc \in [Reqs -> {"idle", "insert", "resolveAgain", "lookup", "count"}]
    /\ loc \in [Reqs -> LocType]
    /\ \A r \in Reqs : Knows(r)

TableOK ==
    /\ status \in [Files -> Catalog!States]
    /\ folders \subseteq Folders
    /\ now \in Nat
    /\ links \in [Links -> LinkType]

LEMMA TypeSplit ==
  /\ TypeOK <=> TableOK /\ LocalOK
  /\ TypeOK' <=> TableOK' /\ LocalOK'
  BY DEF TypeOK, TableOK, LocalOK, Knows

\* No link that a request is visiting disappears.
LinksStay == \A s \in Links : links[s].exists => links'[s].exists

LEMMA GotoType ==
  ASSUME LocalOK, LinksStay, NEW r \in Reqs, NEW l \in LocType,
         NEW step \in {"idle", "insert", "resolveAgain", "lookup", "count"},
         Goto(r, step, l),
         step \in {"resolveAgain", "lookup", "count"} =>
           l.link \in Links /\ links'[l.link].exists,
         step \in {"insert", "lookup", "count"} => l.item # None
  PROVE  LocalOK'
  BY DEF LocalOK, Knows, LinksStay, Goto

LEMMA FinishType ==
  ASSUME LocalOK, LinksStay, NEW r \in Reqs, Finish(r)
  PROVE  LocalOK'
  <1>1. NoLoc \in LocType
    BY DEF NoLoc, LocType
  <1> QED
    BY <1>1, GotoType DEF Finish

\* What is left of LocalOK when no request moves.
LEMMA RestType ==
  ASSUME LocalOK, LinksStay, pc' = pc, loc' = loc
  PROVE  LocalOK'
  BY DEF LocalOK, Knows, LinksStay

LEMMA BeginType ==
  ASSUME TypeOK, NEW r \in Reqs, Begin(r)
  PROVE  TypeOK'
  <1> USE TypeSplit
  <1>1. UNCHANGED <<status, folders, now, links>>
    BY DEF Begin, CreateCheck, VisitMetadata, VisitContent
  <1>2. TableOK' /\ LinksStay
    BY <1>1 DEF TableOK, LinksStay
  <1>3. ASSUME NEW i \in Files \cup Folders, NEW h \in Hours, NEW m \in Limits,
               CreateCheck(r, i, h, m)
        PROVE  LocalOK'
    <2> DEFINE l == [NoLoc EXCEPT !.item = i, !.expires = now + Lifetime(h),
                                  !.max = IF m < 0 THEN 0 ELSE m]
    <2>1. now + Lifetime(h) \in Nat /\ (IF m < 0 THEN 0 ELSE m) \in Nat
      <3>1. h \in Int /\ m \in Int /\ MaxHours \in Nat /\ now \in Nat
        BY ShareAssumption DEF TableOK
      <3>2. Lifetime(h) \in Nat
        BY <3>1 DEF Lifetime
      <3> QED
        BY <3>1, <3>2
    <2>2. l \in LocType
      BY <2>1 DEF LocType, NoLoc
    <2>4. l.item = i /\ i # None
      BY ShareAssumption DEF NoLoc
    <2>3. Goto(r, "insert", l)
      BY <1>3 DEF CreateCheck
    <2> QED
      BY <1>2, <2>2, <2>3, <2>4, GotoType
  <1>4. ASSUME NEW s \in Links, VisitMetadata(r, s)
        PROVE  LocalOK'
    <2> DEFINE l == [NoLoc EXCEPT !.link = s]
    <2>1. l \in LocType /\ l.link = s /\ links'[s].exists
      BY <1>1, <1>4 DEF LocType, NoLoc, VisitMetadata, Visitable, Valid
    <2>2. Goto(r, "resolveAgain", l)
      BY <1>4 DEF VisitMetadata
    <2> QED
      BY <1>2, <2>1, <2>2, GotoType
  <1>5. ASSUME NEW s \in Links, NEW i \in Files, VisitContent(r, s, i)
        PROVE  LocalOK'
    <2> DEFINE l == [NoLoc EXCEPT !.link = s, !.item = i]
    <2>1. l \in LocType /\ l.link = s /\ l.item # None /\ links'[s].exists
      BY <1>1, <1>5, ShareAssumption DEF LocType, NoLoc, VisitContent, Visitable, Valid
    <2>2. Goto(r, "lookup", l)
      BY <1>5 DEF VisitContent
    <2> QED
      BY <1>2, <2>1, <2>2, GotoType
  <1> QED
    BY <1>2, <1>3, <1>4, <1>5 DEF Begin

LEMMA ContinueType ==
  ASSUME TypeOK, NEW r \in Reqs, Continue(r)
  PROVE  TypeOK'
  <1> USE TypeSplit
  <1>1. loc[r] \in LocType /\ Knows(r)
    BY DEF LocalOK
  <1>2. ASSUME NEW s \in Links, CreateInsert(r, s)
        PROVE  TypeOK'
    <2>1. LinkOf(loc[r]) \in LinkType /\ LinkOf(loc[r]).exists
      BY <1>1 DEF LinkOf, LinkType, LocType
    <2>2. TableOK' /\ LinksStay
      BY <1>2, <2>1 DEF CreateInsert, TableOK, LinksStay
    <2> QED
      BY <1>2, <2>2, FinishType DEF CreateInsert
  <1>3. CASE UNCHANGED <<status, folders, now, links>>
    <2>1. TableOK' /\ LinksStay
      BY <1>3 DEF TableOK, LinksStay
    <2>2. CASE Finish(r)
      BY <2>1, <2>2, FinishType
    <2>3. CASE ResolveAgain(r)
      <3> DEFINE l == [loc[r] EXCEPT !.item = links[loc[r].link].target]
      <3>1. CASE Goto(r, "lookup", l) /\ links[loc[r].link].target # None
        <4>1. loc[r].link \in Links /\ links'[loc[r].link].exists
          BY <1>1, <1>3, <2>3 DEF ResolveAgain, Knows
        <4>2. l \in LocType /\ l.item # None /\ l.link = loc[r].link
          BY <1>1, <3>1, <4>1 DEF LocType, LinkType, TableOK
        <4> QED
          BY <2>1, <3>1, <4>1, <4>2, GotoType
      <3> QED
        BY <2>2, <2>3, <3>1 DEF ResolveAgain
    <2>4. CASE Lookup(r)
      <3>1. CASE Goto(r, "count", loc[r])
        BY <1>1, <1>3, <2>1, <2>4, <3>1, GotoType DEF Lookup, Knows
      <3> QED
        BY <2>2, <2>4, <3>1 DEF Lookup
    <2>5. ~Count(r) /\ \A s \in Links : ~CreateInsert(r, s) \/ Finish(r)
      BY <1>1, <1>3 DEF Count, CreateInsert, Knows, TableOK, LinkType
    <2> QED
      BY <2>2, <2>3, <2>4, <2>5 DEF Continue, StatementFails
  <1>4. CASE Count(r)
    <2> DEFINE s == loc[r].link
    <2>1. s \in Links /\ links[s] \in LinkType /\ links[s].views + 1 \in Nat
      BY <1>1, <1>4 DEF Count, Knows, TableOK, LinkType
    <2>2. links' = [links EXCEPT ![s] = [links[s] EXCEPT !.views = links[s].views + 1]]
      BY <1>4 DEF Count
    <2>3. [links[s] EXCEPT !.views = links[s].views + 1] \in LinkType
      BY <2>1 DEF LinkType
    <2>4. TableOK' /\ LinksStay
      BY <1>4, <2>1, <2>2, <2>3 DEF Count, TableOK, LinksStay, LinkType
    <2> QED
      BY <1>4, <2>4, FinishType DEF Count
  <1> QED
    BY <1>2, <1>3, <1>4 DEF Continue, ResolveAgain, Lookup, StatementFails

LEMMA UnlinkedType ==
  ASSUME TableOK, NEW S
  PROVE  /\ Unlinked(S) \in [Links -> LinkType]
         /\ \A s \in Links :
              /\ Unlinked(S)[s].exists = links[s].exists
              /\ Unlinked(S)[s].max = links[s].max
              /\ Unlinked(S)[s].views = links[s].views
              /\ Unlinked(S)[s].active = links[s].active
              /\ Unlinked(S)[s].expires = links[s].expires
              /\ Unlinked(S)[s].target = IF links[s].target \in S THEN None ELSE links[s].target
  BY DEF TableOK, Unlinked, LinkType

LEMMA CatalogType ==
  ASSUME status \in [Files -> Catalog!States], Catalog!Next
  PROVE  status' \in [Files -> Catalog!States]
  BY DEF Catalog!Next, Catalog!Upload, Catalog!Restore, Catalog!Trash, Catalog!EmptyTrash,
         Catalog!Move, Catalog!States

\* The steps that are not a visitor's.
LEMMA OtherType ==
  ASSUME TypeOK,
         \/ \E s \in Links : Revoke(s)
         \/ FilesChange
         \/ \E g \in Folders : FolderDeleted(g)
         \/ Tick
         \/ UNCHANGED vars
  PROVE  TypeOK' /\ LinksStay /\ UNCHANGED <<pc, loc>>
  <1> USE TypeSplit
  <1>1. TableOK' /\ LinksStay
    <2>1. CASE \E s \in Links : Revoke(s)
      <3>1. PICK s \in Links : Revoke(s)
        BY <2>1
      <3>2. links' = [links EXCEPT ![s] = [links[s] EXCEPT !.active = FALSE]]
        BY <3>1 DEF Revoke
      <3>3. /\ [links[s] EXCEPT !.active = FALSE] \in LinkType
            /\ [links[s] EXCEPT !.active = FALSE].exists = links[s].exists
        BY DEF TableOK, LinkType
      <3> QED
        BY <3>1, <3>2, <3>3 DEF Revoke, TableOK, LinksStay
    <2>2. CASE FilesChange
      <3>1. \E S : links' = Unlinked(S)
        BY <2>2 DEF FilesChange
      <3> QED
        BY <2>2, <3>1, CatalogType, UnlinkedType DEF FilesChange, TableOK, LinksStay
    <2>3. CASE \E g \in Folders : FolderDeleted(g)
      <3>1. \E S : links' = Unlinked(S)
        BY <2>3 DEF FolderDeleted
      <3> QED
        BY <2>3, <3>1, UnlinkedType DEF FolderDeleted, TableOK, LinksStay
    <2>4. CASE Tick
      BY <2>4 DEF Tick, TableOK, LinksStay
    <2>5. CASE UNCHANGED vars
      BY <2>5 DEF vars, TableOK, LinksStay
    <2> QED
      BY <2>1, <2>2, <2>3, <2>4, <2>5
  <1>2. UNCHANGED <<pc, loc>>
    BY DEF Revoke, FilesChange, FolderDeleted, Tick, vars
  <1> QED
    BY <1>1, <1>2, RestType

LEMMA InitType == Init => TypeOK
  <1>1. NoLoc \in LocType /\ NoLink \in LinkType
    BY DEF NoLoc, LocType, NoLink, LinkType
  <1> QED
    BY <1>1 DEF Init, TypeOK, Catalog!Init, Catalog!States

LEMMA NextType == TypeOK /\ [Next]_vars => TypeOK'
  BY BeginType, ContinueType, OtherType DEF Next

\* The variables are well typed, and every request in the middle of a visit is at a
\* link that exists, and looks for something.
THEOREM TypeCorrect == Spec => []TypeOK
  BY InitType, NextType, PTL DEF Spec

----------------------------------------------------------------------------
(* What a step does to a link and to the visits that are admitted to it     *)

LEMMA GotoLocals ==
  ASSUME TypeOK, NEW r \in Reqs, NEW step, NEW l, Goto(r, step, l)
  PROVE  /\ pc'[r] = step /\ loc'[r] = l
         /\ \A q \in Reqs \ {r} : pc'[q] = pc[q] /\ loc'[q] = loc[q]
  BY DEF TypeOK, Goto

LEMMA FinishAdmitted ==
  ASSUME TypeOK, NEW r \in Reqs, Finish(r), NEW s
  PROVE  Admitted(s)' = Admitted(s) \ {r}
  <1>1. /\ pc'[r] = "idle"
        /\ \A q \in Reqs \ {r} : pc'[q] = pc[q] /\ loc'[q] = loc[q]
    BY GotoLocals DEF Finish
  <1> QED
    BY <1>1 DEF Admitted

\* A step that does not admit a request to s admits none.
LEMMA GotoAdmitted ==
  ASSUME TypeOK, NEW r \in Reqs, NEW step, NEW l, Goto(r, step, l), NEW s,
         step \in {"lookup", "count"} /\ l.link = s => r \in Admitted(s)
  PROVE  Admitted(s)' \subseteq Admitted(s)
  <1>1. /\ pc'[r] = step /\ loc'[r] = l
        /\ \A q \in Reqs \ {r} : pc'[q] = pc[q] /\ loc'[q] = loc[q]
    BY GotoLocals
  <1> QED
    BY <1>1 DEF Admitted

SameCounts(s) ==
    /\ links'[s].exists = links[s].exists
    /\ links'[s].expires = links[s].expires
    /\ links'[s].max = links[s].max
    /\ links'[s].views = links[s].views
    /\ links'[s].active => links[s].active

\* Nobody is admitted and nothing is counted.
Quiet(s) == SameCounts(s) /\ Admitted(s)' \subseteq Admitted(s)

\* Somebody may be admitted, and s is valid.
Admits(s) == Valid(s) /\ UNCHANGED <<links, now>>

\* One of those admitted is counted.
Counts(s) ==
    /\ \E r \in Admitted(s) : Admitted(s)' = Admitted(s) \ {r}
    /\ links'[s] = [links[s] EXCEPT !.views = links[s].views + 1]

Creates(s) == ~links[s].exists /\ links'[s].views = 0

LEMMA BeginVisit ==
  ASSUME TypeOK, NEW r \in Reqs, Begin(r), NEW s \in Links
  PROVE  Quiet(s) \/ Admits(s)
  <1>1. UNCHANGED <<status, folders, now, links>>
    BY DEF Begin, CreateCheck, VisitMetadata, VisitContent
  <1>2. ASSUME NEW i \in Files, VisitContent(r, s, i)
        PROVE  Admits(s)
    BY <1>1, <1>2 DEF Admits, VisitContent, Visitable
  <1>3. ASSUME NEW t \in Links, NEW i \in Files, VisitContent(r, t, i), t # s
        PROVE  Admitted(s)' \subseteq Admitted(s)
    <2> DEFINE l == [NoLoc EXCEPT !.link = t, !.item = i]
    <2>1. Goto(r, "lookup", l) /\ l.link = t
      BY <1>3 DEF VisitContent, NoLoc
    <2> HIDE DEF l
    <2> QED
      BY <1>3, <2>1, GotoAdmitted
  <1>4. ASSUME NEW step \in {"insert", "resolveAgain"}, NEW l, Goto(r, step, l)
        PROVE  Admitted(s)' \subseteq Admitted(s)
    BY <1>4, GotoAdmitted
  <1>5. Admits(s) \/ Admitted(s)' \subseteq Admitted(s)
    BY <1>2, <1>3, <1>4 DEF Begin, CreateCheck, VisitMetadata
  <1> QED
    BY <1>1, <1>5 DEF Quiet, SameCounts

LEMMA ContinueVisit ==
  ASSUME TypeOK, NEW r \in Reqs, Continue(r), NEW s \in Links
  PROVE  Quiet(s) \/ Admits(s) \/ Counts(s) \/ Creates(s)
  <1>1. loc[r] \in LocType /\ links \in [Links -> LinkType]
        /\ (pc[r] \in {"resolveAgain", "lookup", "count"} => loc[r].link \in Links)
    BY DEF TypeOK
  <1>2. CASE Finish(r) /\ UNCHANGED <<status, folders, now, links>>
    BY <1>2, FinishAdmitted DEF Quiet, SameCounts
  <1>3. CASE Lookup(r)
    <2>1. CASE Goto(r, "count", loc[r])
      <3>1. loc[r].link = s => r \in Admitted(s)
        BY <1>3 DEF Lookup, Admitted
      <3> QED
        BY <1>3, <2>1, <3>1, GotoAdmitted DEF Lookup, Quiet, SameCounts
    <2> QED
      BY <1>2, <1>3, <2>1 DEF Lookup
  <1>4. CASE ResolveAgain(r)
    <2> DEFINE l == [loc[r] EXCEPT !.item = links[loc[r].link].target]
    <2>1. CASE Valid(loc[r].link) /\ Goto(r, "lookup", l)
      <3>1. CASE loc[r].link = s
        BY <1>4, <2>1, <3>1 DEF ResolveAgain, Admits
      <3>2. CASE loc[r].link # s
        <4>1. l.link # s
          BY <1>1, <3>2 DEF LocType
        <4> HIDE DEF l
        <4>2. Admitted(s)' \subseteq Admitted(s)
          BY <2>1, <4>1, GotoAdmitted
        <4> QED
          BY <1>4, <4>2 DEF ResolveAgain, Quiet, SameCounts
      <3> QED
        BY <3>1, <3>2
    <2> QED
      BY <1>2, <1>4, <2>1 DEF ResolveAgain
  <1>5. ASSUME NEW t \in Links, CreateInsert(r, t)
        PROVE  Quiet(s) \/ Creates(s)
    <2>1. CASE t = s
      <3>1. links'[s] = LinkOf(loc[r]) /\ LinkOf(loc[r]).views = 0
        BY <1>1, <1>5, <2>1 DEF CreateInsert, LinkOf
      <3> QED
        BY <1>5, <2>1, <3>1 DEF CreateInsert, Creates
    <2>2. CASE t # s
      <3>1. links'[s] = links[s]
        BY <1>1, <1>5, <2>2 DEF CreateInsert
      <3> QED
        BY <1>5, <3>1, FinishAdmitted DEF CreateInsert, Quiet, SameCounts
    <2> QED
      BY <2>1, <2>2
  <1>6. CASE Count(r)
    <2>1. CASE loc[r].link = s
      <3>1. r \in Admitted(s)
        BY <1>6, <2>1 DEF Count, Admitted
      <3>2. links'[s] = [links[s] EXCEPT !.views = links[s].views + 1]
        BY <1>1, <1>6, <2>1 DEF Count
      <3> QED
        BY <1>6, <3>1, <3>2, FinishAdmitted DEF Count, Counts
    <2>2. CASE loc[r].link # s
      <3>1. links'[s] = links[s]
        BY <1>1, <1>6, <2>2 DEF Count
      <3> QED
        BY <1>6, <3>1, FinishAdmitted DEF Count, Quiet, SameCounts
    <2> QED
      BY <2>1, <2>2
  <1> QED
    BY <1>2, <1>3, <1>4, <1>5, <1>6 DEF Continue, StatementFails

LEMMA OtherVisit ==
  ASSUME TypeOK, NEW s \in Links,
         \/ \E t \in Links : Revoke(t)
         \/ FilesChange
         \/ \E g \in Folders : FolderDeleted(g)
         \/ Tick
         \/ UNCHANGED vars
  PROVE  Quiet(s)
  <1>1. Admitted(s)' = Admitted(s)
    BY DEF Revoke, FilesChange, FolderDeleted, Tick, vars, Admitted
  <1>2. CASE \E t \in Links : Revoke(t)
    BY <1>1, <1>2 DEF Revoke, Quiet, SameCounts, TypeOK, LinkType
  <1>3. CASE links' = links
    BY <1>1, <1>3 DEF Quiet, SameCounts
  <1>4. CASE \E S : links' = Unlinked(S)
    BY <1>1, <1>4, TypeSplit, UnlinkedType DEF Quiet, SameCounts
  <1> QED
    BY <1>2, <1>3, <1>4 DEF FilesChange, FolderDeleted, Tick, vars

LEMMA VisitStep ==
  ASSUME TypeOK, [Next]_vars, NEW s \in Links
  PROVE  Quiet(s) \/ Admits(s) \/ Counts(s) \/ Creates(s)
  BY BeginVisit, ContinueVisit, OtherVisit DEF Next

----------------------------------------------------------------------------
(* The limit of views is overrun by at most the other requests in flight    *)

\* The views, and those that can still be counted without another check.
ViewInv ==
    \A s \in Links :
        links[s].max > 0 =>
            links[s].views + Cardinality(Admitted(s)) <= links[s].max - 1 + Cardinality(Reqs)

LEMMA AdmittedFinite ==
  ASSUME NEW s
  PROVE  /\ IsFiniteSet(Admitted(s)) /\ Cardinality(Admitted(s)) \in Nat
         /\ IsFiniteSet(Admitted(s)') /\ Cardinality(Admitted(s)') \in Nat
         /\ Cardinality(Reqs) \in Nat
         /\ Cardinality(Admitted(s)) <= Cardinality(Reqs)
         /\ Cardinality(Admitted(s)') <= Cardinality(Reqs)
  <1>1. Admitted(s) \in SUBSET Reqs /\ Admitted(s)' \in SUBSET Reqs
    BY DEF Admitted
  <1>2. IsFiniteSet(Reqs)
    BY ShareAssumption
  <1> HIDE DEF Admitted
  <1>3. /\ IsFiniteSet(Admitted(s)) /\ Cardinality(Admitted(s)) <= Cardinality(Reqs)
        /\ IsFiniteSet(Admitted(s)') /\ Cardinality(Admitted(s)') <= Cardinality(Reqs)
    BY <1>1, <1>2, FS_Subset
  <1> QED
    BY <1>2, <1>3, FS_CardinalityType

LEMMA NextView ==
  ASSUME TypeOK, ViewInv, [Next]_vars
  PROVE  ViewInv'
  <1>1. ASSUME NEW s \in Links, links'[s].max > 0
        PROVE  links'[s].views + Cardinality(Admitted(s)')
                 <= links'[s].max - 1 + Cardinality(Reqs)
    <2> DEFINE A == Cardinality(Admitted(s))
               B == Cardinality(Admitted(s)')
               N == Cardinality(Reqs)
    <2>1. A \in Nat /\ B \in Nat /\ N \in Nat /\ B <= N
      BY AdmittedFinite
    <2>2. links[s] \in LinkType /\ links'[s] \in LinkType
      BY NextType DEF TypeOK
    <2>3. links[s].views \in Nat /\ links[s].max \in Nat /\ links'[s].max \in Nat
      BY <2>2 DEF LinkType
    <2>4. links[s].max > 0 => links[s].views + A <= links[s].max - 1 + N
      BY DEF ViewInv
    <2>5. CASE Quiet(s)
      <3>1. B <= A
        BY <2>5, AdmittedFinite, FS_Subset DEF Quiet
      <3>2. links'[s].max = links[s].max /\ links'[s].views = links[s].views
        BY <2>5 DEF Quiet, SameCounts
      <3> HIDE DEF A, B, N
      <3>3. links[s].views + B <= links[s].max - 1 + N
        BY <1>1, <2>1, <2>3, <2>4, <3>1, <3>2
      <3> QED
        BY <3>2, <3>3 DEF B, N
    <2>6. CASE Admits(s)
      <3>1. links' = links /\ links[s].max > 0 /\ links[s].views < links[s].max
        BY <1>1, <2>6 DEF Admits, Valid
      <3> HIDE DEF A, B, N
      <3>2. links[s].views + B <= links[s].max - 1 + N
        BY <2>1, <2>3, <3>1
      <3> QED
        BY <3>1, <3>2 DEF B, N
    <2>7. CASE Counts(s)
      <3>1. B = A - 1
        <4>1. PICK r \in Admitted(s) : Admitted(s)' = Admitted(s) \ {r}
          BY <2>7 DEF Counts
        <4> QED
          BY <4>1, AdmittedFinite, FS_RemoveElement
      <3>2. links'[s].max = links[s].max /\ links'[s].views = links[s].views + 1
        BY <2>2, <2>7 DEF Counts, LinkType
      <3> HIDE DEF A, B, N
      <3>3. links[s].views + 1 + B <= links[s].max - 1 + N
        BY <1>1, <2>1, <2>3, <2>4, <3>1, <3>2
      <3> QED
        BY <3>2, <3>3 DEF B, N
    <2>8. CASE Creates(s)
      <3>1. links'[s].views = 0
        BY <2>8 DEF Creates
      <3> HIDE DEF A, B, N
      <3>2. 0 + B <= links'[s].max - 1 + N
        BY <1>1, <2>1, <2>3
      <3> QED
        BY <3>1, <3>2 DEF B, N
    <2> QED
      BY <2>5, <2>6, <2>7, <2>8, VisitStep
  <1> QED
    BY <1>1 DEF ViewInv

\* However many visits interleave, and for every limit, a link is viewed at most
\* limit + requests - 1 times: the check of a visit sees every view but those of the
\* visits that were admitted and not counted yet.
THEOREM OverrunCorrect == Spec => []OverrunBounded
  <1>1. Init => ViewInv
    BY DEF Init, ViewInv, NoLink
  <1>2. TypeOK /\ ViewInv => OverrunBounded
    <2> SUFFICES ASSUME TypeOK, ViewInv, NEW s \in Links, links[s].max > 0
                 PROVE  links[s].views <= links[s].max + Cardinality(Reqs) - 1
      BY DEF OverrunBounded
    <2>1. links[s].views \in Nat /\ links[s].max \in Nat
      BY DEF TypeOK, LinkType
    <2>2. links[s].views + Cardinality(Admitted(s)) <= links[s].max - 1 + Cardinality(Reqs)
      BY DEF ViewInv
    <2> QED
      BY <2>1, <2>2, AdmittedFinite
  <1>3. TypeOK /\ ViewInv /\ [Next]_vars => ViewInv'
    BY NextView
  <1> QED
    BY <1>1, <1>2, <1>3, TypeCorrect, PTL DEF Spec

----------------------------------------------------------------------------
(* Links never dangle                                                       *)

\* A file whose row is there is there until it is purged.
LEMMA RowsStay ==
  ASSUME TypeOK, Catalog!Next, NEW f \in Files, status[f] \in {"live", "trash"},
         status'[f] # "gone"
  PROVE  status'[f] \in {"live", "trash"}
  BY DEF Catalog!Next, Catalog!Upload, Catalog!Restore, Catalog!Trash, Catalog!EmptyTrash,
         Catalog!Move

\* HasRow in the next state, of an item of the next state.
RowNext(i) == IF i \in Files THEN status'[i] \in {"live", "trash"} ELSE i \in folders'

LEMMA NextDangling ==
  ASSUME TypeOK, NoDanglingLink, [Next]_vars
  PROVE  NoDanglingLink'
  <1>1. links \in [Links -> LinkType] /\ TableOK
    BY TypeSplit DEF TypeOK
  <1>2. CASE FilesChange
    <2> DEFINE S == {f \in Files : status'[f] = "gone"}
    <2>1. links' = Unlinked(S) /\ folders' = folders
      BY <1>2 DEF FilesChange
    <2> SUFFICES ASSUME NEW s \in Links, links'[s].target # None
                 PROVE  RowNext(links'[s].target)
      BY DEF NoDanglingLink, HasRow, RowNext
    <2>2. links'[s].target = links[s].target /\ links[s].target \notin S
      BY <1>1, <2>1, UnlinkedType
    <2>3. HasRow(links[s].target)
      BY <2>2 DEF NoDanglingLink
    <2> QED
      BY <1>2, <2>1, <2>2, <2>3, RowsStay DEF FilesChange, HasRow, RowNext
  <1>3. ASSUME NEW g \in Folders, FolderDeleted(g)
        PROVE  NoDanglingLink'
    <2> SUFFICES ASSUME NEW s \in Links, links'[s].target # None
                 PROVE  RowNext(links'[s].target)
      BY DEF NoDanglingLink, HasRow, RowNext
    <2>1. links'[s].target = links[s].target /\ links[s].target # g
      BY <1>1, <1>3, UnlinkedType DEF FolderDeleted
    <2>2. HasRow(links[s].target)
      BY <2>1 DEF NoDanglingLink
    <2> QED
      BY <1>3, <2>1, <2>2 DEF FolderDeleted, HasRow, RowNext
  <1>4. ASSUME UNCHANGED <<status, folders>>,
               \A s \in Links : links'[s].target = links[s].target \/ HasRow(links'[s].target)
        PROVE  NoDanglingLink'
    BY <1>4 DEF NoDanglingLink, HasRow
  <1>5. ASSUME NEW r \in Reqs, NEW s \in Links, CreateInsert(r, s)
        PROVE  NoDanglingLink'
    <2>1. links'[s].target = loc[r].item /\ HasRow(loc[r].item)
      BY <1>1, <1>5 DEF CreateInsert, LinkOf
    <2>2. \A t \in Links \ {s} : links'[t] = links[t]
      BY <1>1, <1>5 DEF CreateInsert
    <2> QED
      BY <1>4, <1>5, <2>1, <2>2 DEF CreateInsert
  <1>6. ASSUME NEW r \in Reqs, Count(r)
        PROVE  NoDanglingLink'
    <2>1. \A s \in Links : links'[s].target = links[s].target
      BY <1>1, <1>6 DEF Count, LinkType
    <2> QED
      BY <1>4, <1>6, <2>1 DEF Count
  <1>7. ASSUME NEW s \in Links, Revoke(s)
        PROVE  NoDanglingLink'
    <2>1. \A t \in Links : links'[t].target = links[t].target
      BY <1>1, <1>7 DEF Revoke, LinkType
    <2> QED
      BY <1>4, <1>7, <2>1 DEF Revoke
  <1>8. CASE UNCHANGED <<status, folders, links>>
    BY <1>4, <1>8
  <1> QED
    BY <1>2, <1>3, <1>5, <1>6, <1>7, <1>8
       DEF Next, Begin, Continue, CreateCheck, VisitMetadata, VisitContent, ResolveAgain,
           Lookup, StatementFails, Tick, vars

\* No order of creations of links, purges of files and deletions of folders leaves a
\* link to something that is not there any more.
THEOREM NoDanglingCorrect == Spec => []NoDanglingLink
  <1>1. Init => NoDanglingLink
    BY DEF Init, NoDanglingLink, NoLink
  <1>2. TypeOK /\ NoDanglingLink /\ [Next]_vars => NoDanglingLink'
    BY NextDangling
  <1> QED
    BY <1>1, <1>2, TypeCorrect, PTL DEF Spec

----------------------------------------------------------------------------
(* A closed link stays closed                                               *)

LEMMA TimePasses ==
  ASSUME TypeOK, [Next]_vars
  PROVE  now \in Nat /\ now' \in Nat /\ now <= now'
  <1>1. now \in Nat /\ now' \in Nat
    BY NextType DEF TypeOK
  <1>2. now' = now \/ now' = now + 1
    BY DEF Next, Begin, Continue, CreateCheck, VisitMetadata, VisitContent, CreateInsert,
           ResolveAgain, Lookup, Count, StatementFails, Revoke, FilesChange, FolderDeleted,
           Tick, vars
  <1> QED
    BY <1>1, <1>2

ClosedKept(s) ==
    /\ Closed(s)'
    /\ Admitted(s)' \subseteq Admitted(s)
    /\ links'[s].views - links[s].views <= Cardinality(Admitted(s) \ Admitted(s)')

LEMMA ClosedStep ==
  ASSUME TypeOK, [Next]_vars, NEW s \in Links, Closed(s)
  PROVE  ClosedKept(s)
  <1>1. links[s] \in LinkType /\ links'[s] \in LinkType
    BY NextType DEF TypeOK
  <1>2. /\ links[s].views \in Nat /\ links[s].max \in Nat /\ links[s].expires \in Nat
        /\ links'[s].views \in Nat
    BY <1>1 DEF LinkType
  <1>3. ASSUME links'[s].exists, links'[s].max = links[s].max,
               links'[s].expires = links[s].expires,
               links'[s].active => links[s].active,
               links[s].views <= links'[s].views
        PROVE  Closed(s)'
    BY <1>2, <1>3, TimePasses DEF Closed, Valid
  <1>4. IsFiniteSet(Admitted(s))
    BY AdmittedFinite
  <1>5. CASE Quiet(s)
    <2>1. Closed(s)'
      BY <1>2, <1>3, <1>5 DEF Quiet, SameCounts, Closed
    <2>2. Cardinality(Admitted(s) \ Admitted(s)') \in Nat
      BY <1>4, FS_Subset, FS_CardinalityType
    <2>3. links'[s].views - links[s].views = 0
      BY <1>2, <1>5 DEF Quiet, SameCounts
    <2> QED
      BY <1>5, <2>1, <2>2, <2>3 DEF Quiet, ClosedKept
  <1>6. CASE Counts(s)
    <2>1. PICK r \in Admitted(s) : Admitted(s)' = Admitted(s) \ {r}
      BY <1>6 DEF Counts
    <2>2. Admitted(s) \ Admitted(s)' = {r} /\ Admitted(s)' \subseteq Admitted(s)
      BY <2>1
    <2>3. Cardinality(Admitted(s) \ Admitted(s)') = 1
      BY <2>2, FS_Singleton
    <2>4. /\ links'[s].views = links[s].views + 1
          /\ links'[s].exists = links[s].exists /\ links'[s].max = links[s].max
          /\ links'[s].expires = links[s].expires /\ links'[s].active = links[s].active
      BY <1>1, <1>6 DEF Counts, LinkType
    <2>5. links'[s].views - links[s].views = 1
      BY <1>2, <2>4
    <2>6. Closed(s)'
      BY <1>2, <1>3, <2>4 DEF Closed
    <2> QED
      BY <2>2, <2>3, <2>5, <2>6 DEF ClosedKept
  <1>7. ~Admits(s) /\ ~Creates(s)
    BY DEF Admits, Creates, Closed
  <1> QED
    BY <1>5, <1>6, <1>7, VisitStep

\* A link that was revoked, has expired or is used up never opens again and admits
\* nobody, whatever requests were in flight; those admitted before count once each.
THEOREM ClosedCorrect == Spec => ClosedStaysClosed
  <1> DEFINE Kept == \A s \in Links : Closed(s) =>
                        /\ Closed(s)'
                        /\ Admitted(s)' \subseteq Admitted(s)
                        /\ links'[s].views - links[s].views
                             <= Cardinality(Admitted(s) \ Admitted(s)')
  <1>1. TypeOK /\ [Next]_vars => [Kept]_vars
    BY ClosedStep DEF ClosedKept
  <1> QED
    BY <1>1, TypeCorrect, PTL DEF Spec, ClosedStaysClosed

----------------------------------------------------------------------------
(* The visits that had been admitted.  That a request ends is what fairness *)
(* gives; here it is a hypothesis.                                          *)

\* A visitor of a closed link whose request is over at some time is not admitted by
\* then, and never again, whatever the other requests do.
THEOREM VisitorLeaves ==
  ASSUME NEW s \in Links, NEW r \in Reqs
  PROVE  Spec /\ []<>(pc[r] = "idle") => (Closed(s) ~> [](r \notin Admitted(s)))
  <1> DEFINE Shut == Closed(s)
             Done == Closed(s) /\ r \notin Admitted(s)
  <1>1. TypeOK /\ [Next]_vars /\ Shut => Shut'
    BY ClosedStep DEF ClosedKept
  <1>2. TypeOK /\ [Next]_vars /\ Done => Done'
    BY ClosedStep DEF ClosedKept
  <1>3. Shut /\ pc[r] = "idle" => Done
    BY DEF Admitted
  <1>4. Done => r \notin Admitted(s)
    OBVIOUS
  <1> HIDE DEF Shut, Done
  <1>5. Spec /\ []<>(pc[r] = "idle") => (Shut ~> [](r \notin Admitted(s)))
    BY <1>1, <1>2, <1>3, <1>4, TypeCorrect, PTL DEF Spec
  <1> QED
    BY <1>5 DEF Shut

\* If the server is quiet again and again, a closed link admits nobody and counts
\* no view any more from some time on.
THEOREM ClosedFallsSilent ==
  ASSUME NEW s \in Links
  PROVE  Spec /\ []<>(\A r \in Reqs : pc[r] = "idle")
           => (Closed(s) ~> ([](Admitted(s) = {}) /\ [][links'[s].views = links[s].views]_vars))
  <1> DEFINE Shut == Closed(s)
             Idle == \A r \in Reqs : pc[r] = "idle"
             Nobody == Admitted(s) = {}
             Same == links'[s].views = links[s].views
             Done == Closed(s) /\ Admitted(s) = {}
  <1>1. TypeOK /\ [Next]_vars /\ Shut => Shut'
    BY ClosedStep DEF ClosedKept
  <1>2. TypeOK /\ [Next]_vars /\ Done => Done' /\ Same
    <2> SUFFICES ASSUME TypeOK, [Next]_vars, Done PROVE Done' /\ Same
      OBVIOUS
    <2>1. Done'
      BY ClosedStep DEF ClosedKept
    <2>2. ~Counts(s) /\ ~Admits(s) /\ ~Creates(s)
      BY DEF Counts, Admits, Creates, Closed
    <2>3. Quiet(s)
      BY <2>2, VisitStep
    <2> QED
      BY <2>1, <2>3 DEF Quiet, SameCounts
  <1>3. Shut /\ Idle => Done
    BY DEF Admitted
  <1>4. Done => Nobody
    OBVIOUS
  <1> HIDE DEF Shut, Idle, Nobody, Same, Done
  <1>5. Spec /\ []<>Idle => (Shut ~> ([]Nobody /\ [][Same]_vars))
    BY <1>1, <1>2, <1>3, <1>4, TypeCorrect, PTL DEF Spec
  <1> QED
    BY <1>5 DEF Shut, Idle, Nobody, Same
=============================================================================
