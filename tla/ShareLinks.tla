---------------------------- MODULE ShareLinks -----------------------------
(***************************************************************************)
(* Public links to files and folders: table share_links and the handlers    *)
(* of internal/shares/shares.go.  A visit checks the link by one statement  *)
(* (resolveShare) and counts the view by a later one (incrementViews); the  *)
(* owner revokes the link, its time runs out, other visits count and the    *)
(* file it points to is deleted in between.                                 *)
(*                                                                          *)
(* The files are those of FileCatalog, which FileStore implements; deleting *)
(* the row of a file or folder clears the links to it (ON DELETE SET NULL). *)
(* A token is a link's element of Links.  Definitions marked "Fault" are as *)
(* in FileStore.                                                            *)
(***************************************************************************)
EXTENDS Integers, FiniteSets

CONSTANTS
    Files,      \* ids of files
    Folders,    \* ids of the folders there are at the start
    Links,      \* the links that may be created
    Reqs,       \* requests the server handles at the same time
    Hours,      \* values clients give for expires_in_hours
    Limits,     \* values clients give for max_views
    MaxHours,   \* the longest life of a link (168 in the code)
    Horizon,    \* bound: the clock stops here
    ViewCap,    \* bound: views of a link without a limit
    None        \* no link, file or folder

ASSUME ShareAssumption ==
    /\ Hours \subseteq Int
    /\ Limits \subseteq Int
    /\ MaxHours \in Nat \ {0}
    /\ Horizon \in Nat
    /\ ViewCap \in Nat
    /\ IsFiniteSet(Reqs)
    /\ Files \cap Folders = {}
    /\ None \notin Files \cup Folders \cup Links

VARIABLES
    status,     \* what has become of each file
    folders,    \* the folders that still exist
    now,        \* the clock, in hours
    links,      \* table share_links
    pc,         \* the next step of each request
    loc         \* its local variables

vars == <<status, folders, now, links, pc, loc>>

Catalog == INSTANCE FileCatalog

----------------------------------------------------------------------------

HasRow(i) == IF i \in Files THEN status[i] \in {"live", "trash"} ELSE i \in folders

NoLink == [exists |-> FALSE, target |-> None, expires |-> 0, max |-> 0,
           views |-> 0, active |-> FALSE]

NoLoc == [link |-> None, item |-> None, expires |-> 0, max |-> 0]

\* Fault: a revoked link is accepted.
Valid_IgnoresRevocation(s) ==
    /\ links[s].exists
    /\ now <= links[s].expires
    /\ links[s].max > 0 => links[s].views < links[s].max

\* Fault: off by one.
Valid_OffByOne(s) ==
    /\ links[s].exists
    /\ links[s].active
    /\ now <= links[s].expires
    /\ links[s].max > 0 => links[s].views <= links[s].max

\* resolveShare accepts the link.
Valid(s) ==
    /\ links[s].exists
    /\ links[s].active
    /\ now <= links[s].expires
    /\ links[s].max > 0 => links[s].views < links[s].max

Goto(r, step, l) ==
    /\ pc' = [pc EXCEPT ![r] = step]
    /\ loc' = [loc EXCEPT ![r] = l]

Finish(r) == Goto(r, "idle", NoLoc)

Init ==
    /\ Catalog!Init
    /\ folders = Folders
    /\ now = 0
    /\ links = [s \in Links |-> NoLink]
    /\ pc = [r \in Reqs |-> "idle"]
    /\ loc = [r \in Reqs |-> NoLoc]

----------------------------------------------------------------------------
(* CreateShare *)

Lifetime(h) == IF h <= 0 THEN 1 ELSE IF h > MaxHours THEN MaxHours ELSE h

CreateCheck(r, i, h, m) ==
    /\ pc[r] = "idle"
    /\ HasRow(i)
    /\ Goto(r, "insert", [NoLoc EXCEPT !.item = i, !.expires = now + Lifetime(h),
                                       !.max = IF m < 0 THEN 0 ELSE m])
    /\ UNCHANGED <<status, folders, now, links>>

LinkOf(l) == [exists |-> TRUE, target |-> l.item, expires |-> l.expires,
              max |-> l.max, views |-> 0, active |-> TRUE]

\* Fault: the reference to the file or folder is not checked.
CreateInsert_NoForeignKey(r, s) ==
    /\ pc[r] = "insert"
    /\ ~links[s].exists
    /\ links' = [links EXCEPT ![s] = LinkOf(loc[r])]
    /\ Finish(r)
    /\ UNCHANGED <<status, folders, now>>

\* The foreign key refuses an item that was deleted since the check.
CreateInsert(r, s) ==
    /\ pc[r] = "insert"
    /\ ~links[s].exists
    /\ HasRow(loc[r].item)
    /\ links' = [links EXCEPT ![s] = LinkOf(loc[r])]
    /\ Finish(r)
    /\ UNCHANGED <<status, folders, now>>

\* RevokeShare: a single statement.
Revoke(s) ==
    /\ links[s].exists
    /\ links' = [links EXCEPT ![s].active = FALSE]
    /\ UNCHANGED <<status, folders, now, pc, loc>>

----------------------------------------------------------------------------
(* PublicShareRouter and the handlers it calls *)

\* Bound: a link without a limit is not visited more than ViewCap times.
Visitable(s) == Valid(s) /\ (links[s].max = 0 => links[s].views < ViewCap)

\* Without ?content or ?file_id the router hands over to PublicFileHandler or
\* PublicFolderHandler, which resolve the token once more.
VisitMetadata(r, s) ==
    /\ pc[r] = "idle"
    /\ Visitable(s)
    /\ links[s].target # None
    /\ Goto(r, "resolveAgain", [NoLoc EXCEPT !.link = s])
    /\ UNCHANGED <<status, folders, now, links>>

\* ?content=1 streams the file of a file link, ?file_id=i the file i, looked up by its id,
\* by way of a folder link.
VisitContent(r, s, i) ==
    /\ pc[r] = "idle"
    /\ Visitable(s)
    /\ links[s].target \in {i} \cup Folders
    /\ Goto(r, "lookup", [NoLoc EXCEPT !.link = s, !.item = i])
    /\ UNCHANGED <<status, folders, now, links>>

\* Fault: the handler goes by what the router resolved.
ResolveAgain_Stale(r) ==
    /\ pc[r] = "resolveAgain"
    /\ IF links[loc[r].link].target # None
       THEN Goto(r, "lookup", [loc[r] EXCEPT !.item = links[loc[r].link].target])
       ELSE Finish(r)
    /\ UNCHANGED <<status, folders, now, links>>

\* Fault: a link whose file or folder is gone is not told from others.
ResolveAgain_Null(r) ==
    /\ pc[r] = "resolveAgain"
    /\ LET s == loc[r].link IN
       IF Valid(s)
       THEN Goto(r, "lookup", [loc[r] EXCEPT !.item = links[s].target])
       ELSE Finish(r)
    /\ UNCHANGED <<status, folders, now, links>>

ResolveAgain(r) ==
    /\ pc[r] = "resolveAgain"
    /\ LET s == loc[r].link IN
       IF Valid(s) /\ links[s].target # None
       THEN Goto(r, "lookup", [loc[r] EXCEPT !.item = links[s].target])
       ELSE Finish(r)
    /\ UNCHANGED <<status, folders, now, links>>

\* The row of the file or folder, in the trash or not; else 404.
Lookup(r) ==
    /\ pc[r] = "lookup"
    /\ IF HasRow(loc[r].item) THEN Goto(r, "count", loc[r]) ELSE Finish(r)
    /\ UNCHANGED <<status, folders, now, links>>

\* incrementViews.  What follows it, opening the blob, changes no state.
Count(r) ==
    /\ pc[r] = "count"
    /\ links' = [links EXCEPT ![loc[r].link].views = @ + 1]
    /\ Finish(r)
    /\ UNCHANGED <<status, folders, now>>

\* A statement fails: the request ends with an error, except that a failing
\* incrementViews is ignored, which makes no difference here.
StatementFails(r) ==
    /\ pc[r] # "idle"
    /\ Finish(r)
    /\ UNCHANGED <<status, folders, now, links>>

----------------------------------------------------------------------------
(* The rest of the system *)

\* ON DELETE SET NULL for the rows in S.
Unlinked(S) ==
    [s \in Links |-> IF links[s].target \in S
                     THEN [links[s] EXCEPT !.target = None]
                     ELSE links[s]]

FilesChange ==
    /\ Catalog!Next
    /\ links' = Unlinked({f \in Files : status'[f] = "gone"})
    /\ UNCHANGED <<folders, now, pc, loc>>

FolderDeleted(g) ==
    /\ g \in folders
    /\ folders' = folders \ {g}
    /\ links' = Unlinked({g})
    /\ UNCHANGED <<status, now, pc, loc>>

Tick ==
    /\ now < Horizon
    /\ now' = now + 1
    /\ UNCHANGED <<status, folders, links, pc, loc>>

----------------------------------------------------------------------------

Begin(r) ==
    \/ \E i \in Files \cup Folders, h \in Hours, m \in Limits : CreateCheck(r, i, h, m)
    \/ \E s \in Links : VisitMetadata(r, s)
    \/ \E s \in Links, i \in Files : VisitContent(r, s, i)

Continue(r) ==
    \/ \E s \in Links : CreateInsert(r, s)
    \/ ResolveAgain(r)
    \/ Lookup(r)
    \/ Count(r)
    \/ StatementFails(r)

Next ==
    \/ \E r \in Reqs : Begin(r) \/ Continue(r)
    \/ \E s \in Links : Revoke(s)
    \/ FilesChange
    \/ \E g \in Folders : FolderDeleted(g)
    \/ Tick

Spec == Init /\ [][Next]_vars

\* The Go runtime runs every handler goroutine that can run.
FairSpec == Spec /\ \A r \in Reqs : WF_vars(Continue(r))

----------------------------------------------------------------------------
(* Correctness *)

LinkType == [exists : BOOLEAN, target : Files \cup Folders \cup {None},
             expires : Nat, max : Nat, views : Nat, active : BOOLEAN]
LocType == [link : Links \cup {None}, item : Files \cup Folders \cup {None},
            expires : Nat, max : Nat]

\* The types of the variables, and that a request in the middle of a visit or of
\* a creation knows its link or its item.
TypeOK ==
    /\ status \in [Files -> Catalog!States]
    /\ folders \subseteq Folders
    /\ now \in Nat
    /\ links \in [Links -> LinkType]
    /\ pc \in [Reqs -> {"idle", "insert", "resolveAgain", "lookup", "count"}]
    /\ loc \in [Reqs -> LocType]
    /\ \A r \in Reqs :
         /\ pc[r] \in {"resolveAgain", "lookup", "count"} =>
              loc[r].link \in Links /\ links[loc[r].link].exists
         /\ pc[r] \in {"insert", "lookup", "count"} => loc[r].item # None

\* The visits of s that no check stands in the way of any more.
Admitted(s) == {r \in Reqs : pc[r] \in {"lookup", "count"} /\ loc[r].link = s}

\* What checking and counting in two statements costs: visits that are admitted
\* together may all count, so a limit is exceeded by at most one less than the
\* number of requests the server handles at the same time.
OverrunBounded ==
    \A s \in Links :
        links[s].max > 0 => links[s].views <= links[s].max + Cardinality(Reqs) - 1

\* No link points to a file or folder that has been deleted for good, even one
\* that is deleted while a link to it is being created.
NoDanglingLink ==
    \A s \in Links : links[s].target # None => HasRow(links[s].target)

Closed(s) == links[s].exists /\ ~Valid(s)

\* A link that is revoked, expired or used up stays so, and admits nobody: its
\* views grow only by visits that had been admitted before.
ClosedStaysClosed ==
    [][\A s \in Links : Closed(s) =>
          /\ Closed(s)'
          /\ Admitted(s)' \subseteq Admitted(s)
          /\ links'[s].views - links[s].views
               <= Cardinality(Admitted(s) \ Admitted(s)')]_vars

\* Once a link is revoked, the visits that had been admitted come to an end, and
\* from then on nobody is served by it.
RevokedFallsSilent ==
    \A s \in Links : (links[s].exists /\ ~links[s].active) ~> [](Admitted(s) = {})
=============================================================================
