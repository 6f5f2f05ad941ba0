------------------------------ MODULE MCAccess ------------------------------
(***************************************************************************)
(* Access for TLC: the pages of the browser are alike, and so are states    *)
(* that differ in the time of day only.                                     *)
(***************************************************************************)
EXTENDS Access, TLC

TabSymmetry == Permutations(Tabs)

\* How long ago t was, up to where it makes no difference any more: Stale looks the
\* furthest back.
Age(t) == IF t + 2 * Window < clock THEN 2 * Window + 1 ELSE clock - t

AgeOf(t) == IF t = None THEN None ELSE Age(t)

\* Whether there is a token and how long it will be good: one that has expired, or of
\* another secret, is never good again.
Left(tok) == <<tok # None, IF Usable(tok) THEN tok.exp - clock ELSE 0>>

\* The requests of c that were let through, counted from the last, and whether the
\* entry holds them; without those that neither it nor any window has.
Recent(c) ==
    LET last == Len(log[c])
        kept == {i \in 1..last : i \in times[c] \/ Age(log[c][i]) <= 2 * Window}
    IN  [n \in {last - i : i \in kept} |->
            <<Age(log[c][last - n]), last - n \in times[c]>>]

\* Everything an action or a property depends on.
Shifted ==
    <<[c \in Clients |-> Recent(c)],
      [r \in Reqs |-> IF waiting[r] = None THEN None
                      ELSE <<waiting[r].client, Age(waiting[r].now)>>],
      [c \in Clients |-> AgeOf(refused[c])],
      up, starts, Left(store), pc, [t \in Reqs |-> Left(token[t])]>>
=============================================================================
