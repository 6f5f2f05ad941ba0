------------------------ MODULE RateLimiter_proofs -------------------------
(***************************************************************************)
(* Proofs about RateLimiter: what counts is kept, so the window is bounded, *)
(* and refusals end after a window.                                         *)
(***************************************************************************)
EXTENDS RateLimiter, FiniteSetTheorems, TLAPS

\* What was let through carries a time that has passed.
Past == \A c \in Clients : \A i \in DOMAIN log[c] : log[c][i] <= clock

\* A request that got the mutex earlier has a time that is at most Lag later.
Ordered ==
    \A c \in Clients : \A i, j \in DOMAIN log[c] :
        i < j => log[c][i] <= log[c][j] + Lag

\* The entry still holds whatever counts for a request that comes now.
CountingKept ==
    \A c \in Clients : \A i \in DOMAIN log[c] :
        log[c][i] + Window > clock => i \in times[c]

\* Nothing was let through since a refusal that is remembered.
RefusedLast ==
    \A c \in Clients : refused[c] # None =>
        /\ refused[c] <= clock
        /\ \A i \in DOMAIN log[c] : log[c][i] <= refused[c]

\* The inductive invariant.
LimiterInv ==
    /\ LimiterTypeOK
    /\ Past
    /\ Ordered
    /\ CountingKept
    /\ WindowBounded
    /\ RefusedLast

----------------------------------------------------------------------------
(* Sets of positions *)

LEMMA WindowFinite ==
    ASSUME LimiterTypeOK, NEW c \in Clients, NEW T \in Nat
    PROVE  /\ IsFiniteSet(InWindow(c, T))
           /\ Cardinality(InWindow(c, T)) \in Nat
<1>1. /\ Len(log[c]) \in Nat
      /\ DOMAIN log[c] = 1..Len(log[c])
  BY DEF LimiterTypeOK
<1>2. IsFiniteSet(1..Len(log[c]))
  BY <1>1, FS_Interval
<1>3. InWindow(c, T) \subseteq 1..Len(log[c])
  BY <1>1 DEF InWindow
<1>4. IsFiniteSet(InWindow(c, T))
  BY <1>2, <1>3, FS_Subset
<1> QED  BY <1>4, FS_CardinalityType

LEMMA ValidFinite ==
    ASSUME LimiterTypeOK, NEW c \in Clients, NEW now \in Nat
    PROVE  /\ IsFiniteSet(Valid(c, now))
           /\ Cardinality(Valid(c, now)) \in Nat
<1>1. /\ Len(log[c]) \in Nat
      /\ DOMAIN log[c] = 1..Len(log[c])
      /\ times[c] \subseteq DOMAIN log[c]
  BY DEF LimiterTypeOK
<1>2. IsFiniteSet(1..Len(log[c]))
  BY <1>1, FS_Interval
<1>3. Valid(c, now) \subseteq 1..Len(log[c])
  BY <1>1 DEF Valid
<1>4. IsFiniteSet(Valid(c, now))
  BY <1>2, <1>3, FS_Subset
<1> QED  BY <1>4, FS_CardinalityType

\* What is appended to the history of a client.
LEMMA Appended ==
    ASSUME NEW s \in Seq(Nat), NEW t \in Nat
    PROVE  /\ Append(s, t) \in Seq(Nat)
           /\ Len(s) \in Nat
           /\ DOMAIN s = 1..Len(s)
           /\ DOMAIN Append(s, t) = 1..(Len(s) + 1)
           /\ \A i \in 1..Len(s) : Append(s, t)[i] = s[i]
           /\ Append(s, t)[Len(s) + 1] = t
OBVIOUS

----------------------------------------------------------------------------
(* The invariant holds initially and after the actions that let nothing through *)

LEMMA LimiterInit == Init => LimiterInv
<1> SUFFICES ASSUME Init  PROVE LimiterInv
  OBVIOUS
<1>1. LimiterTypeOK
  BY LimiterAssumption DEF Init, LimiterTypeOK
<1>2. \A c \in Clients : log[c] = <<>> /\ DOMAIN log[c] = {}
  BY DEF Init
<1>3. Past /\ Ordered /\ CountingKept
  BY <1>2 DEF Past, Ordered, CountingKept
<1>4. \A c \in Clients, T \in 0..clock : InWindow(c, T) = {}
  BY <1>2 DEF InWindow
<1>5. WindowBounded
  BY <1>4, FS_EmptySet, LimiterAssumption DEF WindowBounded
<1>6. RefusedLast
  BY DEF Init, RefusedLast
<1> QED  BY <1>1, <1>3, <1>5, <1>6 DEF LimiterInv

\* Steps that leave the histories and the clock alone and forget nothing that
\* counts: arrivals, refusals, purges.
LEMMA QuietStep ==
    ASSUME LimiterInv, LimiterTypeOK', UNCHANGED <<clock, log>>, CountingKept',
           RefusedLast'
    PROVE  LimiterInv'
<1>1. Past' /\ Ordered'
  BY DEF LimiterInv, Past, Ordered
<1>2. WindowBounded'
  BY DEF LimiterInv, WindowBounded, InWindow
<1> QED  BY <1>1, <1>2 DEF LimiterInv

LEMMA ArriveStep ==
    ASSUME LimiterInv, NEW r \in Reqs, NEW c \in Clients, Arrive(r, c)
    PROVE  LimiterInv'
<1>1. LimiterTypeOK'
  BY LimiterAssumption DEF LimiterInv, LimiterTypeOK, Arrive
<1>2. CountingKept' /\ RefusedLast'
  BY DEF LimiterInv, CountingKept, RefusedLast, Arrive
<1> QED  BY <1>1, <1>2, QuietStep DEF Arrive

\* A request that waits has a client and a time, and Allow keeps what counts.
LEMMA WaitingType ==
    ASSUME LimiterInv, NEW r \in Reqs, waiting[r] # None
    PROVE  /\ waiting[r].client \in Clients
           /\ waiting[r].now \in Nat
           /\ waiting[r].now <= clock
           /\ clock <= waiting[r].now + Lag
           /\ \A i \in DOMAIN log[waiting[r].client] :
                log[waiting[r].client][i] + Window > clock =>
                    i \in Valid(waiting[r].client, waiting[r].now)
<1>1. /\ waiting[r].client \in Clients
      /\ waiting[r].now \in Nat
      /\ waiting[r].now <= clock
      /\ clock <= waiting[r].now + Lag
  BY DEF LimiterInv, LimiterTypeOK
<1>2. ASSUME NEW i \in DOMAIN log[waiting[r].client],
             log[waiting[r].client][i] + Window > clock
      PROVE  i \in Valid(waiting[r].client, waiting[r].now)
  <2>1. log[waiting[r].client][i] \in Nat
    BY <1>1 DEF LimiterInv, LimiterTypeOK
  <2>2. i \in times[waiting[r].client]
    BY <1>1, <1>2 DEF LimiterInv, CountingKept
  <2> QED  BY <1>1, <1>2, <2>1, <2>2, LimiterAssumption
           DEF Valid, LimiterInv, LimiterTypeOK
<1> QED  BY <1>1, <1>2

LEMMA RefuseStep ==
    ASSUME LimiterInv, NEW r \in Reqs, Refuse(r)
    PROVE  LimiterInv'
<1> DEFINE c == waiting[r].client
           now == waiting[r].now
<1>1. /\ waiting[r] # None
      /\ times' = [times EXCEPT ![c] = Valid(c, now)]
      /\ waiting' = [waiting EXCEPT ![r] = None]
      /\ refused' = [refused EXCEPT ![c] = IF @ = None THEN clock ELSE @]
      /\ UNCHANGED <<clock, log>>
  BY DEF Refuse
<1>2. c \in Clients
  BY <1>1, WaitingType
<1>3. Valid(c, now) \subseteq times[c]
  BY DEF Valid
<1>4. LimiterTypeOK'
  BY <1>1, <1>2, <1>3 DEF LimiterInv, LimiterTypeOK
<1>5. CountingKept'
  <2> SUFFICES ASSUME NEW d \in Clients, NEW i \in DOMAIN log[d],
                      log[d][i] + Window > clock
               PROVE  i \in times'[d]
    BY <1>1 DEF CountingKept
  <2>1. CASE d = c
    BY <1>1, <1>2, <2>1, WaitingType DEF LimiterInv, LimiterTypeOK
  <2>2. CASE d # c
    BY <1>1, <2>2 DEF LimiterInv, CountingKept, LimiterTypeOK
  <2> QED  BY <2>1, <2>2
<1>6. RefusedLast'
  <2> SUFFICES ASSUME NEW d \in Clients, refused'[d] # None
               PROVE  /\ refused'[d] <= clock
                      /\ \A i \in DOMAIN log[d] : log[d][i] <= refused'[d]
    BY <1>1 DEF RefusedLast
  <2>1. CASE refused[d] # None
    BY <1>1, <1>2, <2>1 DEF LimiterInv, LimiterTypeOK, RefusedLast
  <2>2. CASE refused[d] = None
    <3>1. refused'[d] = clock
      BY <1>1, <1>2, <2>2 DEF LimiterInv, LimiterTypeOK
    <3> QED  BY <3>1 DEF LimiterInv, LimiterTypeOK, Past
  <2> QED  BY <2>1, <2>2
<1> QED  BY <1>1, <1>4, <1>5, <1>6, QuietStep

\* The purge deletes an entry for its last time: no other time in it counts,
\* because none is more than Lag later.
LEMMA StaleCountsNothing ==
    ASSUME LimiterInv, NEW c \in Clients, Stale(c),
           NEW j \in DOMAIN log[c]
    PROVE  log[c][j] + Window <= clock
<1>1. PICK i \in times[c] :
        /\ \A k \in times[c] : k <= i
        /\ log[c][i] + 2 * Window < clock
  BY DEF Stale
<1>2. i \in DOMAIN log[c] /\ i \in Nat /\ j \in Nat
  BY <1>1 DEF LimiterInv, LimiterTypeOK
<1>3. log[c][i] \in Nat /\ log[c][j] \in Nat /\ clock \in Nat
  BY <1>2 DEF LimiterInv, LimiterTypeOK
<1>4. CASE j \in times[c]
  <2>1. j < i => log[c][j] <= log[c][i] + Lag
    BY <1>2 DEF LimiterInv, Ordered
  <2>2. j <= i
    BY <1>1, <1>4
  <2> QED  BY <1>1, <1>2, <1>3, <2>1, <2>2, LimiterAssumption
<1>5. CASE j \notin times[c]
  BY <1>3, <1>5, LimiterAssumption DEF LimiterInv, CountingKept
<1> QED  BY <1>4, <1>5

LEMMA PurgeStep ==
    ASSUME LimiterInv, Purge
    PROVE  LimiterInv'
<1>1. LimiterTypeOK'
  BY DEF LimiterInv, LimiterTypeOK, Purge
<1>2. CountingKept'
  <2> SUFFICES ASSUME NEW c \in Clients, NEW i \in DOMAIN log[c],
                      log[c][i] + Window > clock
               PROVE  i \in times'[c]
    BY DEF CountingKept, Purge
  <2>1. log[c][i] \in Nat /\ clock \in Nat
    BY DEF LimiterInv, LimiterTypeOK
  <2>2. ~Stale(c)
    BY <2>1, StaleCountsNothing, LimiterAssumption
  <2>3. i \in times[c]
    BY DEF LimiterInv, CountingKept
  <2> QED  BY <2>2, <2>3 DEF Purge
<1>3. RefusedLast'
  BY DEF LimiterInv, RefusedLast, Purge
<1> QED  BY <1>1, <1>2, <1>3, QuietStep DEF Purge

LEMMA TickStep ==
    ASSUME LimiterInv, Tick
    PROVE  LimiterInv'
<1>1. /\ clock' = clock + 1
      /\ UNCHANGED <<log, times, waiting, refused>>
      /\ \A r \in Reqs : waiting[r] # None => clock < waiting[r].now + Lag
      /\ clock \in Nat
  BY DEF Tick, LimiterInv, LimiterTypeOK
<1>2. LimiterTypeOK'
  BY <1>1, LimiterAssumption DEF LimiterInv, LimiterTypeOK
<1>3. \A c \in Clients : \A i \in DOMAIN log[c] : log[c][i] \in Nat
  BY DEF LimiterInv, LimiterTypeOK
<1>4. Past' /\ Ordered' /\ CountingKept' /\ RefusedLast'
  <2>1. Past'
    BY <1>1, <1>3 DEF LimiterInv, Past
  <2>2. Ordered'
    BY <1>1 DEF LimiterInv, Ordered
  <2>3. CountingKept'
    BY <1>1, <1>3, LimiterAssumption DEF LimiterInv, CountingKept
  <2>4. RefusedLast'
    BY <1>1, LimiterAssumption DEF LimiterInv, LimiterTypeOK, RefusedLast
  <2> QED  BY <2>1, <2>2, <2>3, <2>4
<1>5. WindowBounded'
  <2> SUFFICES ASSUME NEW c \in Clients, NEW T \in 0..(clock + 1)
               PROVE  Cardinality(InWindow(c, T)) <= Limit
    BY <1>1 DEF WindowBounded, InWindow
  <2>1. CASE T <= clock
    BY <1>1, <2>1 DEF LimiterInv, WindowBounded
  <2>2. CASE T = clock + 1
    <3>1. InWindow(c, T) \subseteq InWindow(c, clock)
      <4> SUFFICES ASSUME NEW i \in InWindow(c, T)
                   PROVE  i \in InWindow(c, clock)
        OBVIOUS
      <4>1. i \in DOMAIN log[c] /\ T + Lag < log[c][i] + Window
        BY DEF InWindow
      <4>2. log[c][i] <= clock
        BY <4>1 DEF LimiterInv, Past
      <4> QED  BY <1>1, <1>3, <2>2, <4>1, <4>2, LimiterAssumption DEF InWindow
    <3>2. LimiterTypeOK
      BY DEF LimiterInv
    <3>3. IsFiniteSet(InWindow(c, clock)) /\ Cardinality(InWindow(c, clock)) \in Nat
      BY <1>1, <3>2, WindowFinite
    <3>4. /\ Cardinality(InWindow(c, T)) <= Cardinality(InWindow(c, clock))
          /\ Cardinality(InWindow(c, T)) \in Nat
      BY <1>1, <3>1, <3>2, <3>3, FS_Subset, WindowFinite
    <3>5. Cardinality(InWindow(c, clock)) <= Limit
      BY <1>1 DEF LimiterInv, WindowBounded
    <3> QED  BY <3>3, <3>4, <3>5, LimiterAssumption
  <2> QED  BY <1>1, <2>1, <2>2
<1> QED  BY <1>2, <1>4, <1>5 DEF LimiterInv

LEMMA ForgetStep ==
    ASSUME LimiterInv, Forget
    PROVE  LimiterInv'
<1>1. LimiterTypeOK'
  BY LimiterAssumption DEF LimiterInv, LimiterTypeOK, Forget
<1>2. \A c \in Clients : log'[c] = <<>> /\ DOMAIN log'[c] = {}
  BY DEF Forget
<1>3. Past' /\ Ordered' /\ CountingKept'
  BY <1>2 DEF Past, Ordered, CountingKept
<1>4. \A c \in Clients, T \in 0..clock' : InWindow(c, T)' = {}
  BY <1>2 DEF InWindow
<1>5. WindowBounded'
  BY <1>4, FS_EmptySet, LimiterAssumption DEF WindowBounded
<1>6. RefusedLast'
  BY DEF Forget, RefusedLast
<1> QED  BY <1>1, <1>3, <1>5, <1>6 DEF LimiterInv

----------------------------------------------------------------------------
(* A request is let through *)

LEMMA AdmitStep ==
    ASSUME LimiterInv, NEW r \in Reqs, Admit(r)
    PROVE  LimiterInv'
<1>1. PICK c \in Clients, now \in Nat, n \in Nat :
        /\ waiting[r].client = c
        /\ waiting[r].now = now
        /\ n = Len(log[c]) + 1
  BY WaitingType DEF Admit, LimiterInv, LimiterTypeOK
<1>2. /\ waiting[r] # None
      /\ Cardinality(Valid(c, now)) < Limit
      /\ log' = [log EXCEPT ![c] = Append(@, now)]
      /\ times' = [times EXCEPT ![c] = Valid(c, now) \cup {n}]
      /\ waiting' = [waiting EXCEPT ![r] = None]
      /\ refused' = [refused EXCEPT ![c] = None]
      /\ clock' = clock
  BY <1>1 DEF Admit
<1>3. /\ now <= clock /\ clock <= now + Lag
      /\ \A i \in DOMAIN log[c] :
            log[c][i] + Window > clock => i \in Valid(c, now)
  BY <1>1, <1>2, WaitingType
<1>4. /\ log \in [Clients -> Seq(Nat)] /\ clock \in Nat
      /\ Len(log[c]) \in Nat /\ DOMAIN log[c] = 1..Len(log[c])
      /\ \A i \in DOMAIN log[c] : log[c][i] \in Nat /\ i \in Nat /\ i < n
  BY <1>1 DEF LimiterInv, LimiterTypeOK
<1>5. /\ log'[c] \in Seq(Nat)
      /\ DOMAIN log'[c] = DOMAIN log[c] \cup {n}
      /\ \A i \in DOMAIN log[c] : log'[c][i] = log[c][i]
      /\ log'[c][n] = now
      /\ \A d \in Clients \ {c} : log'[d] = log[d]
  <2>1. log'[c] = Append(log[c], now)
    BY <1>2, <1>4
  <2>2. log[c] \in Seq(Nat)
    BY <1>4
  <2> QED  BY <1>1, <1>2, <1>4, <2>1, <2>2, Appended
<1>6. Valid(c, now) \subseteq DOMAIN log[c]
  BY DEF Valid, LimiterInv, LimiterTypeOK
<1>7. times'[c] = Valid(c, now) \cup {n} /\ \A d \in Clients \ {c} : times'[d] = times[d]
  BY <1>2 DEF LimiterInv, LimiterTypeOK
<1>8. LimiterTypeOK'
  <2>1. log' \in [Clients -> Seq(Nat)]
    BY <1>2, <1>4, <1>5
  <2>2. times' \in [Clients -> SUBSET Nat]
    BY <1>2, <1>4, <1>6 DEF LimiterInv, LimiterTypeOK
  <2>3. \A d \in Clients : times'[d] \subseteq DOMAIN log'[d]
    BY <1>5, <1>6, <1>7 DEF LimiterInv, LimiterTypeOK
  <2>4. /\ waiting' \in [Reqs -> [client : Clients, now : Nat] \cup {None}]
        /\ \A q \in Reqs : waiting'[q] # None =>
             waiting'[q].now <= clock' /\ clock' <= waiting'[q].now + Lag
        /\ refused' \in [Clients -> Nat \cup {None}]
    BY <1>2 DEF LimiterInv, LimiterTypeOK
  <2> QED  BY <1>2, <1>4, <2>1, <2>2, <2>3, <2>4 DEF LimiterTypeOK
<1>9. Past'
  BY <1>2, <1>3, <1>5 DEF LimiterInv, Past
<1>10. Ordered'
  <2> SUFFICES ASSUME NEW d \in Clients, NEW i \in DOMAIN log'[d], NEW j \in DOMAIN log'[d],
                      i < j
               PROVE  log'[d][i] <= log'[d][j] + Lag
    BY DEF Ordered
  <2>1. CASE d # c
    BY <1>5, <2>1 DEF LimiterInv, Ordered
  <2>2. CASE d = c /\ j # n
    <3>1. i \in DOMAIN log[c] /\ j \in DOMAIN log[c]
      BY <1>1, <1>4, <1>5, <2>2
    <3>2. log[c][i] <= log[c][j] + Lag
      BY <3>1 DEF LimiterInv, Ordered
    <3> QED  BY <1>5, <2>2, <3>1, <3>2
  <2>3. CASE d = c /\ j = n
    <3>1. i \in DOMAIN log[c]
      BY <1>1, <1>5, <2>3
    <3>2. log[c][i] <= clock /\ log[c][i] \in Nat
      BY <1>4, <3>1 DEF LimiterInv, Past
    <3>3. log[c][i] <= now + Lag
      BY <1>3, <1>4, <3>2, LimiterAssumption
    <3> QED  BY <1>5, <2>3, <3>1, <3>3
  <2> QED  BY <2>1, <2>2, <2>3
<1>11. CountingKept'
  <2> SUFFICES ASSUME NEW d \in Clients, NEW i \in DOMAIN log'[d],
                      log'[d][i] + Window > clock
               PROVE  i \in times'[d]
    BY <1>2 DEF CountingKept
  <2>1. CASE d # c
    BY <1>5, <1>7, <2>1 DEF LimiterInv, CountingKept
  <2>2. CASE d = c /\ i = n
    BY <1>7, <2>2
  <2>3. CASE d = c /\ i # n
    <3>1. i \in DOMAIN log[c]
      BY <1>5, <2>3
    <3>2. log[c][i] + Window > clock
      BY <1>5, <2>3, <3>1
    <3> QED  BY <1>3, <1>7, <2>3, <3>1, <3>2
  <2> QED  BY <2>1, <2>2, <2>3
<1>12. RefusedLast'
  BY <1>2, <1>5 DEF LimiterInv, RefusedLast, LimiterTypeOK
<1>13. WindowBounded'
  <2> SUFFICES ASSUME NEW d \in Clients, NEW T \in 0..clock
               PROVE  Cardinality(InWindow(d, T)') <= Limit
    BY <1>2 DEF WindowBounded
  <2>1. CASE d # c
    BY <1>5, <2>1 DEF LimiterInv, WindowBounded, InWindow
  <2>2. CASE d = c
    <3> HIDE DEF LimiterInv
    <3>1. LimiterTypeOK /\ T \in Nat
      BY <1>4 DEF LimiterInv
    <3>2. IsFiniteSet(InWindow(c, T)) /\ Cardinality(InWindow(c, T)) \in Nat
      BY <3>1, WindowFinite
    <3>3. Cardinality(InWindow(c, T)) <= Limit
      BY DEF LimiterInv, WindowBounded
    <3>4. CASE ~(now <= T /\ T + Lag < now + Window)
      <4>1. InWindow(c, T)' = InWindow(c, T)
        BY <1>5, <3>4 DEF InWindow
      <4> QED  BY <2>2, <3>3, <4>1
    <3>5. CASE now <= T /\ T + Lag < now + Window
      <4>1. InWindow(c, T)' = InWindow(c, T) \cup {n}
        BY <1>5, <3>5 DEF InWindow
      <4>2. InWindow(c, T) \subseteq Valid(c, now)
        <5> SUFFICES ASSUME NEW i \in InWindow(c, T)
                     PROVE  i \in Valid(c, now)
          OBVIOUS
        <5>1. i \in DOMAIN log[c] /\ T + Lag < log[c][i] + Window
          BY DEF InWindow
        <5>2. log[c][i] + Window > clock
          BY <1>3, <1>4, <3>1, <3>5, <5>1, LimiterAssumption
        <5> QED  BY <1>3, <5>1, <5>2
      <4>3. IsFiniteSet(Valid(c, now)) /\ Cardinality(Valid(c, now)) \in Nat
        BY <3>1, ValidFinite
      <4>4. Cardinality(InWindow(c, T)) <= Cardinality(Valid(c, now))
        BY <4>2, <4>3, FS_Subset
      <4>5. n \notin InWindow(c, T)
        BY <1>1, <1>4 DEF InWindow
      <4>6. Cardinality(InWindow(c, T) \cup {n}) = Cardinality(InWindow(c, T)) + 1
        BY <3>2, <4>5, FS_AddElement
      <4>7. Cardinality(InWindow(c, T)') = Cardinality(InWindow(c, T)) + 1
        BY <4>1, <4>6
      <4> QED  BY <1>2, <2>2, <3>2, <4>3, <4>4, <4>7, LimiterAssumption
    <3> QED  BY <3>4, <3>5
  <2> QED  BY <2>1, <2>2
<1> QED  BY <1>8, <1>9, <1>10, <1>11, <1>12, <1>13 DEF LimiterInv

----------------------------------------------------------------------------
(* The theorems *)

LEMMA LimiterNext == LimiterInv /\ [Next]_limiter => LimiterInv'
<1> SUFFICES ASSUME LimiterInv, [Next]_limiter  PROVE LimiterInv'
  OBVIOUS
<1>1. ASSUME NEW r \in Reqs, NEW c \in Clients, Arrive(r, c)  PROVE LimiterInv'
  BY <1>1, ArriveStep
<1>2. ASSUME NEW r \in Reqs, Admit(r)  PROVE LimiterInv'
  BY <1>2, AdmitStep
<1>3. ASSUME NEW r \in Reqs, Refuse(r)  PROVE LimiterInv'
  BY <1>3, RefuseStep
<1>4. CASE Purge
  BY <1>4, PurgeStep
<1>5. CASE Tick
  BY <1>5, TickStep
<1>6. CASE Forget
  BY <1>6, ForgetStep
<1>7. CASE UNCHANGED limiter
  <2>1. LimiterTypeOK'
    BY <1>7 DEF LimiterInv, LimiterTypeOK, limiter
  <2>2. CountingKept' /\ RefusedLast'
    BY <1>7 DEF LimiterInv, CountingKept, RefusedLast, limiter
  <2> QED  BY <1>7, <2>1, <2>2, QuietStep DEF limiter
<1> QED  BY <1>1, <1>2, <1>3, <1>4, <1>5, <1>6, <1>7 DEF Next

LEMMA LimiterInvariant == LimiterSpec => []LimiterInv
<1> QED  BY LimiterInit, LimiterNext, PTL DEF LimiterSpec

\* The types of the limiter's state, for any number of clients and requests,
\* any limit, window and lag.
THEOREM LimiterTypeCorrect == LimiterSpec => []LimiterTypeOK
<1>1. LimiterInv => LimiterTypeOK
  BY DEF LimiterInv
<1> QED  BY <1>1, LimiterInvariant, PTL

\* At most Limit requests of a client in any Window - Lag units of time are let
\* through.
THEOREM WindowCorrect == LimiterSpec => []WindowBounded
<1>1. LimiterInv => WindowBounded
  BY DEF LimiterInv
<1> QED  BY <1>1, LimiterInvariant, PTL

\* Refusals of a client end after a window: what is refused a window after the
\* first refusal would have to find, in the entry, requests let through since.
LEMMA RefusalStep ==
    ASSUME LimiterInv, NEW r \in Reqs, NEW c \in Clients,
           Refuse(r), waiting[r].client = c, refused[c] # None
    PROVE  waiting[r].now < refused[c] + Window
<1>1. waiting[r] # None /\ Cardinality(Valid(c, waiting[r].now)) >= Limit
  BY DEF Refuse
<1>2. waiting[r].now \in Nat
  BY <1>1, WaitingType
<1>3. refused[c] \in Nat /\ \A i \in DOMAIN log[c] : log[c][i] <= refused[c] /\ log[c][i] \in Nat
  BY DEF LimiterInv, LimiterTypeOK, RefusedLast
<1>4. Valid(c, waiting[r].now) # {}
  BY <1>1, FS_EmptySet, LimiterAssumption
<1>5. PICK i \in DOMAIN log[c] : log[c][i] + Window > waiting[r].now
  BY <1>4 DEF Valid, LimiterInv, LimiterTypeOK
<1> QED  BY <1>2, <1>3, <1>5, LimiterAssumption

THEOREM RefusedCorrect == LimiterSpec => RefusedForAWindow
<1>1. ASSUME LimiterInv
      PROVE  \A r \in Reqs, c \in Clients :
               (Refuse(r) /\ waiting[r].client = c /\ refused[c] # None) =>
                   waiting[r].now < refused[c] + Window
  BY <1>1, RefusalStep
<1>2. LimiterInv => [\A r \in Reqs, c \in Clients :
               (Refuse(r) /\ waiting[r].client = c /\ refused[c] # None) =>
                   waiting[r].now < refused[c] + Window]_limiter
  BY <1>1
<1> QED  BY <1>2, LimiterInvariant, PTL DEF RefusedForAWindow
=============================================================================
