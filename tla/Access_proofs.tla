---------------------------- MODULE Access_proofs ---------------------------
(***************************************************************************)
(* Proofs about Access: the login keeps the limiter's promises across       *)
(* restarts, and a usable token is forgotten for the known reasons only.    *)
(***************************************************************************)
EXTENDS Access, RateLimiter_proofs

\* No token was signed with a secret that is yet to come.
KeysPast ==
    /\ store # None => store.key <= key
    /\ \A t \in Reqs : token[t] # None => token[t].key <= key

\* What was refused stays refused.
RefusedForGood == \A t \in Reqs : At(t, "unknown") => ~Usable(token[t])

\* The inductive invariant, beside that of the limiter.
AccessInv == SessionTypeOK /\ KeysPast /\ RefusedForGood

----------------------------------------------------------------------------
(* The limiter behind the login *)

\* Whatever happens is a step of the limiter, or none of its business.
LEMMA LimiterAct == ASSUME [AccessNext]_vars  PROVE [Next]_limiter
<1>1. ASSUME NEW t \in Reqs, Submit(t)  PROVE Next
  BY <1>1 DEF Submit, Next
<1>2. ASSUME NEW t \in Reqs, Turned(t)  PROVE Next
  BY <1>2 DEF Turned, Next
<1>3. ASSUME NEW t \in Reqs, LetThrough(t)  PROVE Next
  BY <1>3 DEF LetThrough, Next
<1>4. ASSUME NEW t \in Reqs,
             \/ WrongPassword(t) \/ Grant(t) \/ LoggedIn(t) \/ Logout(t)
             \/ Load(t) \/ Known(t) \/ Unknown(t) \/ Lost(t)
             \/ Welcome(t) \/ Rejected(t) \/ Refresh(t) \/ RefreshRefused(t)
      PROVE  UNCHANGED limiter
  BY <1>4 DEF WrongPassword, Grant, LoggedIn, Logout, Load, Known, Unknown, Lost,
              Welcome, Rejected, Refresh, RefreshRefused
<1>5. CASE Stop
  BY <1>5 DEF Stop, Next
<1>6. CASE Start
  BY <1>6 DEF Start
<1>7. CASE Background
  BY <1>7 DEF Background, Next
<1>8. CASE UNCHANGED vars
  BY <1>8 DEF vars
<1> QED  BY <1>1, <1>2, <1>3, <1>4, <1>5, <1>6, <1>7, <1>8 DEF AccessNext

\* The login with its clients and restarts implements the limiter.
THEOREM LimiterImplemented == AccessSpec => LimiterSpec
<1>1. AccessInit => Init
  BY DEF AccessInit
<1>2. [AccessNext]_vars => [Next]_limiter
  BY LimiterAct
<1> QED  BY <1>1, <1>2, PTL DEF AccessSpec, LimiterSpec

\* So logins keep within the limit ...
THEOREM LoginsBounded == AccessSpec => []WindowBounded
<1> QED  BY LimiterImplemented, WindowCorrect, PTL

\* ... and who is turned away may try again after a window.
THEOREM LoginsRetried == AccessSpec => RefusedForAWindow
<1> QED  BY LimiterImplemented, RefusedCorrect, PTL

----------------------------------------------------------------------------
(* Tokens *)

LEMMA AccessInitially == AccessInit => AccessInv
<1> QED  BY DEF AccessInit, Init, AccessInv, SessionTypeOK, KeysPast,
               RefusedForGood, At, Usable, Token, Scripts

\* A token that is refused is refused by every later secret and time.
LEMMA UnusableForGood ==
    ASSUME NEW tok \in Token, tok.key <= key, ~Usable(tok), SessionTypeOK,
           LimiterTypeOK,
           \/ UNCHANGED <<key, clock>>
           \/ key' = key + 1 /\ clock' = clock
           \/ key' = key /\ clock' = clock + 1
    PROVE  ~Usable(tok)'
<1>1. key \in Nat /\ clock \in Nat /\ tok.key \in Nat /\ tok.exp \in Nat /\ tok # None
  BY AccessAssumption DEF SessionTypeOK, LimiterTypeOK, Token
<1> QED  BY <1>1 DEF Usable

\* The new token.
LEMMA NewTokenType ==
    ASSUME SessionTypeOK, LimiterTypeOK
    PROVE  NewToken \in Token /\ NewToken # None /\ NewToken.key <= key
<1>1. key \in Nat /\ clock + Expiry \in Nat
  BY AccessAssumption DEF SessionTypeOK, LimiterTypeOK
<1> QED  BY <1>1, AccessAssumption DEF NewToken, Token

\* One client goes on: what it has is typed and of a known secret, and the
\* others are where they were.
LEMMA ClientStep ==
    ASSUME AccessInv, LimiterTypeOK, LimiterTypeOK',
           NEW t \in Reqs, NEW step, NEW tok \in Token \cup {None},
           Goto(t, step, tok),
           UNCHANGED <<clock, up, starts, key>>,
           store' \in Token \cup {None},
           store' # None => store'.key <= key,
           tok # None => tok.key <= key,
           step \in {"form", "waiting", "checking", "granted", "in", "asking",
                     "known", "unknown", "lost"},
           step \in {"granted", "asking", "unknown"} => tok # None,
           t \in Scripts => step \in {"form", "waiting", "checking", "granted", "in"},
           t \in Scripts /\ step = "in" => tok # None,
           step = "unknown" => ~Usable(tok),
           step = "waiting" <=> waiting'[t] # None,
           \A u \in Reqs \ {t} : waiting'[u] = waiting[u]
    PROVE  AccessInv'
<1>1. /\ pc \in [Reqs -> {"form", "waiting", "checking", "granted", "in", "asking",
                          "known", "unknown", "lost"}]
      /\ token \in [Reqs -> Token \cup {None}]
  BY DEF AccessInv, SessionTypeOK
<1>2. /\ pc'[t] = step /\ token'[t] = tok
      /\ \A u \in Reqs \ {t} : pc'[u] = pc[u] /\ token'[u] = token[u]
      /\ pc' \in [Reqs -> {"form", "waiting", "checking", "granted", "in", "asking",
                           "known", "unknown", "lost"}]
      /\ token' \in [Reqs -> Token \cup {None}]
  BY <1>1 DEF Goto
<1>3. \A u \in Reqs : At(u, "waiting")' <=> waiting'[u] # None
  BY <1>2 DEF AccessInv, SessionTypeOK, At
<1>4. \A u \in Reqs :
        (At(u, "granted") \/ At(u, "asking") \/ At(u, "unknown"))' => token'[u] # None
  BY <1>2 DEF AccessInv, SessionTypeOK, At
<1>5. \A s \in Scripts :
        /\ pc'[s] \in {"form", "waiting", "checking", "granted", "in"}
        /\ At(s, "in")' => token'[s] # None
  BY <1>2 DEF AccessInv, SessionTypeOK, At, Scripts
<1>6. SessionTypeOK'
  BY <1>2, <1>3, <1>4, <1>5 DEF AccessInv, SessionTypeOK
<1>7. KeysPast'
  BY <1>2 DEF AccessInv, KeysPast
<1>8. RefusedForGood'
  BY <1>2 DEF AccessInv, RefusedForGood, At, Usable
<1> QED  BY <1>6, <1>7, <1>8 DEF AccessInv

\* The types of what a client has.
LEMMA ClientType ==
    ASSUME AccessInv, NEW t \in Reqs
    PROVE  /\ token[t] \in Token \cup {None}
           /\ token[t] # None => token[t].key <= key
           /\ store \in Token \cup {None}
           /\ store # None => store.key <= key
           /\ At(t, "waiting") <=> waiting[t] # None
           /\ t \in Scripts =>
                pc[t] \in {"form", "waiting", "checking", "granted", "in"}
BY DEF AccessInv, SessionTypeOK, KeysPast

\* Login, as the limiter sees it and as its handler does.
LEMMA LoginStep ==
    ASSUME AccessInv, LimiterTypeOK, LimiterTypeOK', NEW t \in Reqs,
           \/ Submit(t) \/ Turned(t) \/ LetThrough(t)
           \/ WrongPassword(t) \/ Grant(t) \/ LoggedIn(t) \/ Logout(t)
    PROVE  AccessInv'
<1>1. NewToken \in Token /\ NewToken # None /\ NewToken.key <= key
  BY NewTokenType DEF AccessInv
<1>2. waiting \in [Reqs -> [client : Clients, now : Nat] \cup {None}] /\ clock \in Nat
  BY DEF LimiterTypeOK
<1>3. CASE Submit(t)
  <2>1. PICK c \in Clients : Arrive(t, c)
    BY <1>3 DEF Submit
  <2>2. waiting'[t] # None /\ \A u \in Reqs \ {t} : waiting'[u] = waiting[u]
    BY <1>2, <2>1, LimiterAssumption DEF Arrive
  <2> QED  BY <1>3, <2>1, <2>2, ClientStep, ClientType DEF Submit, Arrive
<1>4. CASE Turned(t)
  <2>1. waiting'[t] = None /\ \A u \in Reqs \ {t} : waiting'[u] = waiting[u]
    BY <1>2, <1>4 DEF Turned, Refuse
  <2> QED  BY <1>4, <2>1, ClientStep, ClientType DEF Turned, Refuse
<1>5. CASE LetThrough(t)
  <2>1. waiting'[t] = None /\ \A u \in Reqs \ {t} : waiting'[u] = waiting[u]
    BY <1>2, <1>5 DEF LetThrough, Admit
  <2> QED  BY <1>5, <2>1, ClientStep, ClientType DEF LetThrough, Admit
<1>6. CASE WrongPassword(t)
  BY <1>6, ClientStep, ClientType DEF WrongPassword, limiter, At
<1>7. CASE Grant(t)
  BY <1>1, <1>7, ClientStep, ClientType DEF Grant, limiter, At
<1>8. CASE LoggedIn(t)
  <2>1. token[t] # None
    BY <1>8 DEF LoggedIn, AccessInv, SessionTypeOK
  <2> QED  BY <1>8, <2>1, ClientStep, ClientType DEF LoggedIn, limiter, At, Scripts
<1>9. CASE Logout(t)
  BY <1>9, ClientStep, ClientType DEF Logout, limiter, At
<1> QED  BY <1>3, <1>4, <1>5, <1>6, <1>7, <1>8, <1>9

\* Loading a page, and refreshing.
LEMMA TokenStep ==
    ASSUME AccessInv, LimiterTypeOK, LimiterTypeOK', NEW t \in Reqs,
           \/ Load(t) \/ Known(t) \/ Unknown(t) \/ Lost(t)
           \/ Welcome(t) \/ Rejected(t) \/ Refresh(t) \/ RefreshRefused(t)
    PROVE  AccessInv'
<1>1. NewToken \in Token /\ NewToken # None /\ NewToken.key <= key
  BY NewTokenType DEF AccessInv
<1>2. CASE Load(t)
  BY <1>2, ClientStep, ClientType DEF Load, limiter, At, Scripts
<1>3. CASE Known(t) \/ Welcome(t) \/ RefreshRefused(t)
  BY <1>3, ClientStep, ClientType DEF Known, Welcome, RefreshRefused, limiter, At
<1>4. CASE Unknown(t)
  <2>1. token[t] # None
    BY <1>4 DEF Unknown, AccessInv, SessionTypeOK
  <2> QED  BY <1>4, <2>1, ClientStep, ClientType DEF Unknown, limiter, At
<1>5. CASE Lost(t)
  BY <1>5, ClientStep, ClientType DEF Lost, limiter, At
<1>6. CASE Rejected(t)
  BY <1>6, ClientStep, ClientType DEF Rejected, limiter, At
<1>7. CASE Refresh(t)
  BY <1>1, <1>7, ClientStep, ClientType DEF Refresh, limiter, At
<1> QED  BY <1>2, <1>3, <1>4, <1>5, <1>6, <1>7

\* The process ends: whoever waits for it has nothing left to wait for.
LEMMA StopStep ==
    ASSUME AccessInv, Stop
    PROVE  AccessInv'
<1>1. /\ up' = FALSE
      /\ \A t \in Reqs : waiting'[t] = None
      /\ pc' = [t \in Reqs |->
                  CASE pc[t] \in {"waiting", "checking"} -> "form"
                    [] pc[t] = "asking" -> "lost"
                    [] OTHER -> pc[t]]
      /\ UNCHANGED <<clock, starts, key, store, token>>
  BY DEF Stop, Forget
<1>2. pc \in [Reqs -> {"form", "waiting", "checking", "granted", "in", "asking",
                       "known", "unknown", "lost"}]
  BY DEF AccessInv, SessionTypeOK
<1>3. \A t \in Reqs :
        /\ pc'[t] \in {"form", "granted", "in", "known", "unknown", "lost"}
        /\ pc'[t] \in {"granted", "in", "known", "unknown"} => pc[t] = pc'[t]
        /\ pc'[t] = "lost" => pc[t] \in {"asking", "lost"}
  BY <1>1, <1>2
<1>4. pc' \in [Reqs -> {"form", "waiting", "checking", "granted", "in", "asking",
                        "known", "unknown", "lost"}]
  BY <1>1, <1>3
<1>5. \A s \in Scripts :
        /\ pc'[s] \in {"form", "waiting", "checking", "granted", "in"}
        /\ At(s, "in")' => token[s] # None
  BY <1>3 DEF AccessInv, SessionTypeOK, At, Scripts
<1>6. SessionTypeOK'
  BY <1>1, <1>3, <1>4, <1>5 DEF AccessInv, SessionTypeOK, At
<1>7. KeysPast' /\ RefusedForGood'
  BY <1>1, <1>3 DEF AccessInv, KeysPast, RefusedForGood, At, Usable
<1> QED  BY <1>6, <1>7 DEF AccessInv

\* A new secret or a later time: what was refused stays refused.
LEMMA ServerStep ==
    ASSUME AccessInv, LimiterTypeOK, Start \/ Background
    PROVE  AccessInv'
<1>1. /\ UNCHANGED <<store, pc, token, waiting>>
      /\ up' \in BOOLEAN /\ starts' \in Nat
      /\ \/ UNCHANGED <<key, clock>>
         \/ key' = key + 1 /\ clock' = clock
         \/ key' = key /\ clock' = clock + 1
      /\ key \in Nat
  <2>1. up \in BOOLEAN /\ starts \in Nat /\ key \in Nat
    BY DEF AccessInv, SessionTypeOK
  <2>2. CASE Start
    BY <2>1, <2>2 DEF Start, limiter
  <2>3. CASE Background /\ Purge
    BY <2>1, <2>3 DEF Background, Purge, session
  <2>4. CASE Background /\ Tick
    BY <2>1, <2>4 DEF Background, Tick, session
  <2> QED  BY <2>2, <2>3, <2>4 DEF Background
<1>2. key' \in Nat /\ key <= key'
  BY <1>1
<1>3. SessionTypeOK'
  BY <1>1, <1>2 DEF AccessInv, SessionTypeOK, At
<1>4. \A tok \in Token : tok.key <= key => tok.key <= key'
  BY <1>1, <1>2 DEF Token
<1>5. KeysPast'
  BY <1>1, <1>4, ClientType DEF AccessInv, KeysPast, SessionTypeOK
<1>6. RefusedForGood'
  <2> SUFFICES ASSUME NEW t \in Reqs, At(t, "unknown")
               PROVE  ~Usable(token[t])'
    BY <1>1 DEF RefusedForGood, At
  <2>1. token[t] \in Token /\ token[t].key <= key /\ ~Usable(token[t])
    BY ClientType DEF AccessInv, SessionTypeOK, RefusedForGood
  <2>2. PICK tok \in Token : tok = token[t]
    BY <2>1
  <2>3. ~Usable(tok)'
    BY <1>1, <2>1, <2>2, UnusableForGood DEF AccessInv
  <2> QED  BY <1>1, <2>2, <2>3 DEF Usable
<1> QED  BY <1>3, <1>5, <1>6 DEF AccessInv

LEMMA AccessInductive ==
    ASSUME AccessInv, LimiterTypeOK, LimiterTypeOK', [AccessNext]_vars
    PROVE  AccessInv'
<1>1. CASE Stop
  BY <1>1, StopStep
<1>2. CASE Start \/ Background
  BY <1>2, ServerStep
<1>3. CASE UNCHANGED vars
  BY <1>3 DEF vars, session, limiter, AccessInv, SessionTypeOK, KeysPast,
              RefusedForGood, At, Usable
<1> QED  BY <1>1, <1>2, <1>3, LoginStep, TokenStep DEF AccessNext

LEMMA AccessInvariant == AccessSpec => [](AccessInv /\ LimiterTypeOK)
<1>1. AccessInv /\ LimiterTypeOK /\ LimiterTypeOK' /\ [AccessNext]_vars => AccessInv'
  BY AccessInductive
<1> QED  BY <1>1, AccessInitially, LimiterImplemented, LimiterTypeCorrect, PTL DEF AccessSpec

----------------------------------------------------------------------------
(* The theorems *)

\* The types, for any clients, limits, times of expiry and restarts.
THEOREM AccessTypeCorrect == AccessSpec => []AccessTypeOK
<1>1. AccessInv /\ LimiterTypeOK => AccessTypeOK
  BY DEF AccessInv, AccessTypeOK
<1> QED  BY <1>1, AccessInvariant, PTL

\* What makes a browser forget a token that the server accepts.
LEMMA ForgettingStep ==
    ASSUME AccessInv, LimiterTypeOK, [AccessNext]_vars, Usable(store), store' = None
    PROVE  \E t \in Tabs :
             \/ Logout(t)
             \/ At(t, "lost")
             \/ At(t, "unknown") /\ token[t] # store
<1>1. store # None
  BY DEF Usable
<1>2. CASE \E t \in Reqs : Logout(t)
  BY <1>2 DEF Logout
<1>3. ASSUME NEW t \in Reqs, Rejected(t)
      PROVE  \E u \in Tabs : At(u, "lost") \/ (At(u, "unknown") /\ token[u] # store)
  <2>1. pc[t] \in {"unknown", "lost"}
    BY <1>3 DEF Rejected
  <2>2. t \in Tabs
    BY <2>1, ClientType DEF Scripts
  <2>3. At(t, "unknown") => token[t] # store
    BY DEF AccessInv, RefusedForGood
  <2>4. At(t, "lost") \/ At(t, "unknown")
    BY <2>1 DEF At
  <2> QED  BY <2>2, <2>3, <2>4
<1>4. ASSUME NEW t \in Reqs, LoggedIn(t)  PROVE FALSE
  <2>1. token[t] # None
    BY <1>4 DEF LoggedIn, AccessInv, SessionTypeOK
  <2> QED  BY <1>1, <1>4, <2>1 DEF LoggedIn
<1>5. \/ \E t \in Reqs : Logout(t) \/ Rejected(t) \/ LoggedIn(t)
      \/ store' = store
  BY DEF AccessNext, Submit, Turned, LetThrough, WrongPassword, Grant, Load, Known,
         Unknown, Lost, Welcome, Refresh, RefreshRefused, Stop, Start, Background,
         session, vars
<1> QED  BY <1>1, <1>2, <1>3, <1>4, <1>5

THEOREM ForgottenCorrect == AccessSpec => ForgottenWithReason
<1>1. AccessInv /\ LimiterTypeOK /\ [AccessNext]_vars =>
        [(Usable(store) /\ store' = None) =>
            \E t \in Tabs :
               \/ Logout(t)
               \/ At(t, "lost")
               \/ At(t, "unknown") /\ token[t] # store]_vars
  BY ForgettingStep
<1> QED  BY <1>1, AccessInvariant, PTL DEF AccessSpec, ForgottenWithReason
=============================================================================
