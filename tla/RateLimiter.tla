---------------------------- MODULE RateLimiter ----------------------------
(***************************************************************************)
(* The sliding-window limiter of internal/ratelimit/ratelimit.go, which     *)
(* main.go puts before the login (5 a minute), the uploads and the other    *)
(* calls that change something.  For each client address the limiter keeps  *)
(* the times of the requests it let through.  Allow reads the clock before  *)
(* it takes the mutex, so requests get it in another order than that of     *)
(* their times; the purge reads the clock under the mutex.                  *)
(*                                                                          *)
(* Time is a number that Tick advances.  A request waits for the mutex for  *)
(* at most Lag units: the mutex is held for a loop over at most Limit times *)
(* or over the map.  The entry of a client is a set of positions in log, the *)
(* history of what was let through, because e.times keeps the order in       *)
(* which times were appended.                                               *)
(*                                                                          *)
(* Fault_X is a faulty variant of X, for the same purpose as in FileStore.  *)
(***************************************************************************)
EXTENDS Naturals, Sequences, FiniteSets

CONSTANTS
    Clients,    \* client addresses (RealIP)
    Reqs,       \* requests the server handles at the same time
    Limit,      \* requests a client may make in a window
    Window,     \* length of the window
    Lag,        \* longest wait for the mutex
    MaxTime,    \* bound: the time at which the clock stops
    None        \* no request, no refusal

ASSUME LimiterAssumption ==
    /\ Limit \in Nat \ {0}
    /\ Window \in Nat \ {0}
    /\ Lag \in Nat
    /\ Lag < Window
    /\ MaxTime \in Nat
    /\ None \notin Nat
    /\ None \notin [client : Clients, now : Nat]

VARIABLES
    clock,      \* the time
    log,        \* log[c]: times of the requests let through since the start
    times,      \* times[c]: positions in log[c] that entries[c].times holds
    waiting,    \* the client and the time of a request that waits for the
                \* mutex, or None
    refused     \* when c was first refused since it was last let through, or
                \* None (history)

limiter == <<clock, log, times, waiting, refused>>

Init ==
    /\ clock = 0
    /\ log = [c \in Clients |-> <<>>]
    /\ times = [c \in Clients |-> {}]
    /\ waiting = [r \in Reqs |-> None]
    /\ refused = [c \in Clients |-> None]

----------------------------------------------------------------------------
(* Allow *)

\* The times that are After(windowStart) for a request at time now: those that
\* Allow keeps.
Valid(c, now) == {i \in times[c] : log[c][i] + Window > now}

\* RealIP and time.Now.
Arrive(r, c) ==
    /\ waiting[r] = None
    /\ waiting' = [waiting EXCEPT ![r] = [client |-> c, now |-> clock]]
    /\ UNCHANGED <<clock, log, times, refused>>

\* The request has the mutex and is within the limit: its time is appended.
Admit(r) ==
    LET c == waiting[r].client
        now == waiting[r].now
    IN  /\ waiting[r] # None
        /\ Cardinality(Valid(c, now)) < Limit
        /\ log' = [log EXCEPT ![c] = Append(@, now)]
        /\ times' = [times EXCEPT ![c] = Valid(c, now) \cup {Len(log[c]) + 1}]
        /\ waiting' = [waiting EXCEPT ![r] = None]
        /\ refused' = [refused EXCEPT ![c] = None]
        /\ UNCHANGED clock

\* It is over the limit: 429.  Its time is not kept.
Fault_Refuse(r) ==
    LET c == waiting[r].client
        now == waiting[r].now
    IN  /\ waiting[r] # None
        /\ Cardinality(Valid(c, now)) >= Limit
        /\ log' = [log EXCEPT ![c] = Append(@, now)]
        /\ times' = [times EXCEPT ![c] = Valid(c, now) \cup {Len(log[c]) + 1}]
        /\ waiting' = [waiting EXCEPT ![r] = None]
        /\ refused' = [refused EXCEPT ![c] = IF @ = None THEN clock ELSE @]
        /\ UNCHANGED clock

Refuse(r) ==
    LET c == waiting[r].client
        now == waiting[r].now
    IN  /\ waiting[r] # None
        /\ Cardinality(Valid(c, now)) >= Limit
        /\ times' = [times EXCEPT ![c] = Valid(c, now)]
        /\ waiting' = [waiting EXCEPT ![r] = None]
        /\ refused' = [refused EXCEPT ![c] = IF @ = None THEN clock ELSE @]
        /\ UNCHANGED <<clock, log>>

----------------------------------------------------------------------------
(* The purge, time and the process *)

\* The time that was appended first is more than one window old.
Fault_Stale(c) ==
    \E i \in times[c] :
        /\ \A j \in times[c] : i <= j
        /\ log[c][i] + Window < clock

\* The time that was appended last is more than two windows old.
Stale(c) ==
    \E i \in times[c] :
        /\ \A j \in times[c] : j <= i
        /\ log[c][i] + 2 * Window < clock

\* The ticker of loop, every five minutes: entries that are stale, or empty,
\* are deleted from the map.
Purge ==
    /\ times' = [c \in Clients |-> IF Stale(c) THEN {} ELSE times[c]]
    /\ UNCHANGED <<clock, log, waiting, refused>>

\* Time passes; a request that waits for the mutex gets it within Lag.
Tick ==
    /\ clock < MaxTime
    /\ \A r \in Reqs : waiting[r] # None => clock < waiting[r].now + Lag
    /\ clock' = clock + 1
    /\ UNCHANGED <<log, times, waiting, refused>>

\* The process ends: the entries are in its memory only.
Forget ==
    /\ log' = [c \in Clients |-> <<>>]
    /\ times' = [c \in Clients |-> {}]
    /\ waiting' = [r \in Reqs |-> None]
    /\ refused' = [c \in Clients |-> None]
    /\ UNCHANGED clock

Next ==
    \/ \E r \in Reqs :
         \/ \E c \in Clients : Arrive(r, c)
         \/ Admit(r)
         \/ Refuse(r)
    \/ Purge
    \/ Tick
    \/ Forget

LimiterSpec == Init /\ [][Next]_limiter

----------------------------------------------------------------------------
(* Correctness *)

\* The types; that the entries hold requests that were let through; and that no
\* request has waited for longer than Lag.
LimiterTypeOK ==
    /\ clock \in Nat
    /\ log \in [Clients -> Seq(Nat)]
    /\ times \in [Clients -> SUBSET Nat]
    /\ \A c \in Clients : times[c] \subseteq DOMAIN log[c]
    /\ waiting \in [Reqs -> [client : Clients, now : Nat] \cup {None}]
    /\ \A r \in Reqs : waiting[r] # None =>
         waiting[r].now <= clock /\ clock <= waiting[r].now + Lag
    /\ refused \in [Clients -> Nat \cup {None}]

\* The requests of c that were let through with a time in the Window - Lag units
\* up to T.
InWindow(c, T) ==
    {i \in DOMAIN log[c] : log[c][i] <= T /\ T + Lag < log[c][i] + Window}

\* The sliding window: of the requests of a client that carry a time in any
\* Window - Lag units at most Limit are let through, in whatever order requests
\* get the mutex and whenever the purge runs.  (For a whole window this is not
\* so: a request with an older time may come after one with a newer time has
\* dropped what would have counted.)
WindowBounded ==
    \A c \in Clients : \A T \in 0..clock : Cardinality(InWindow(c, T)) <= Limit

\* Retry-After: a client that is refused, and of whose requests none is let
\* through, is not refused once a window has passed, however often it has
\* tried in the meantime.
RefusedForAWindow ==
    [][\A r \in Reqs, c \in Clients :
         (Refuse(r) /\ waiting[r].client = c /\ refused[c] # None) =>
             waiting[r].now < refused[c] + Window]_limiter
=============================================================================
