------------------------------- MODULE Access ------------------------------
(***************************************************************************)
(* Who gets in: internal/auth/auth.go behind the login limiter, with the    *)
(* pages of one browser (web/src/auth.tsx) and with scripts as its clients, *)
(* across restarts of the server.  The limiter is RateLimiter, whose actions *)
(* are parts of the actions here.                                           *)
(*                                                                          *)
(* The server keeps nothing of a session: a token carries the time of its   *)
(* expiry and is signed with the secret of the process that issued it.  The *)
(* pages of the browser share the token in localStorage; a page that is     *)
(* loaded asks /api/auth/me whether the token is good, and forgets the one   *)
(* that is stored if the answer is anything but yes.  Scripts keep their     *)
(* token to themselves and may have it refreshed.                           *)
(*                                                                          *)
(* There is one account, which the first start creates (EnsureUser), and    *)
(* whether its password is given right is left open.                        *)
(*                                                                          *)
(* Fault_X is a faulty variant of X, for the same purpose as in FileStore.  *)
(***************************************************************************)
EXTENDS RateLimiter

CONSTANTS
    Tabs,           \* pages of the browser; the other Reqs are scripts
    Home,           \* the address of the browser
    Expiry,         \* JWTExpiry
    FixedSecret,    \* whether CLOUD_JWT_SECRET is set
    MaxStarts       \* bound: restarts of the server

ASSUME AccessAssumption ==
    /\ Tabs \subseteq Reqs
    /\ Home \in Clients
    /\ Expiry \in Nat \ {0}
    /\ FixedSecret \in BOOLEAN
    /\ MaxStarts \in Nat
    /\ None \notin [key : Nat, exp : Nat]

VARIABLES
    up,         \* whether the server serves
    starts,     \* how often it was restarted
    key,        \* the secret, numbered
    store,      \* the token in localStorage, or None
    pc,         \* what each page or script is at
    token       \* the token that its request presented or was given

session == <<up, starts, key, store, pc, token>>
vars == <<limiter, session>>

Scripts == Reqs \ Tabs

At(t, step) == pc[t] = step

Goto(t, step, tok) ==
    /\ pc' = [pc EXCEPT ![t] = step]
    /\ token' = [token EXCEPT ![t] = tok]

AccessInit ==
    /\ Init
    /\ up = TRUE
    /\ starts = 0
    /\ key = 0
    /\ store = None
    /\ pc = [t \in Reqs |-> "form"]
    /\ token = [t \in Reqs |-> None]

----------------------------------------------------------------------------
(* Tokens *)

\* issueToken.
NewToken == [key |-> key, exp |-> clock + Expiry]

\* parseToken: the signature is right and the expiry lies ahead.
Usable(tok) ==
    /\ tok # None
    /\ tok.key = key
    /\ clock < tok.exp

----------------------------------------------------------------------------
(* Logging in *)

\* The login form is sent: Middleware of the login limiter begins Allow.
Submit(t) ==
    /\ At(t, "form")
    /\ up
    /\ \E c \in Clients : (t \in Tabs => c = Home) /\ Arrive(t, c)
    /\ Goto(t, "waiting", None)
    /\ UNCHANGED <<up, starts, key, store>>

\* 429: the form shows an error.
Turned(t) ==
    /\ At(t, "waiting")
    /\ Refuse(t)
    /\ Goto(t, "form", None)
    /\ UNCHANGED <<up, starts, key, store>>

\* LoginHandler is called.
LetThrough(t) ==
    /\ At(t, "waiting")
    /\ Admit(t)
    /\ Goto(t, "checking", None)
    /\ UNCHANGED <<up, starts, key, store>>

\* Login: the password is wrong, or the lookup fails.
WrongPassword(t) ==
    /\ At(t, "checking")
    /\ Goto(t, "form", None)
    /\ UNCHANGED <<limiter, up, starts, key, store>>

\* Login: the password is right.
Grant(t) ==
    /\ At(t, "checking")
    /\ Goto(t, "granted", NewToken)
    /\ UNCHANGED <<limiter, up, starts, key, store>>

\* login of auth.tsx: setToken, setUser.  A script keeps the token.
LoggedIn(t) ==
    /\ At(t, "granted")
    /\ store' = IF t \in Tabs THEN token[t] ELSE store
    /\ Goto(t, "in", IF t \in Tabs THEN None ELSE token[t])
    /\ UNCHANGED <<limiter, up, starts, key>>

Logout(t) ==
    /\ t \in Tabs
    /\ At(t, "in")
    /\ store' = None
    /\ Goto(t, "form", None)
    /\ UNCHANGED <<limiter, up, starts, key>>

----------------------------------------------------------------------------
(* Loading a page *)

\* The effect of AuthProvider: without a token the login form, else api.me().
\* A page that waits for no answer is loaded anew.
Load(t) ==
    /\ t \in Tabs
    /\ pc[t] \in {"form", "in"}
    /\ IF store = None THEN Goto(t, "form", None) ELSE Goto(t, "asking", store)
    /\ UNCHANGED <<limiter, up, starts, key, store>>

\* Middleware and MeHandler.
Known(t) ==
    /\ At(t, "asking")
    /\ up
    /\ Usable(token[t])
    /\ Goto(t, "known", None)
    /\ UNCHANGED <<limiter, up, starts, key, store>>

Fault_Unknown(t) ==
    /\ At(t, "asking")
    /\ up
    /\ token[t].key = key => token[t].exp <= clock + 1
    /\ Goto(t, "unknown", token[t])
    /\ UNCHANGED <<limiter, up, starts, key, store>>
Unknown(t) ==
    /\ At(t, "asking")
    /\ up
    /\ ~Usable(token[t])
    /\ Goto(t, "unknown", token[t])
    /\ UNCHANGED <<limiter, up, starts, key, store>>

\* The network fails, or the server cannot be reached.
Lost(t) ==
    /\ At(t, "asking")
    /\ Goto(t, "lost", token[t])
    /\ UNCHANGED <<limiter, up, starts, key, store>>

\* .then(setUser)
Welcome(t) ==
    /\ At(t, "known")
    /\ Goto(t, "in", None)
    /\ UNCHANGED <<limiter, up, starts, key, store>>

\* .catch(() => setToken(null)), whatever is stored by now.
Rejected(t) ==
    /\ pc[t] \in {"unknown", "lost"}
    /\ store' = None
    /\ Goto(t, "form", None)
    /\ UNCHANGED <<limiter, up, starts, key>>

----------------------------------------------------------------------------
(* Scripts, the server and time *)

\* Middleware and RefreshHandler: a good token is exchanged for a new one.
Refresh(s) ==
    /\ s \in Scripts
    /\ At(s, "in")
    /\ up
    /\ Usable(token[s])
    /\ Goto(s, "in", NewToken)
    /\ UNCHANGED <<limiter, up, starts, key, store>>

\* They refuse it: the script has to log in again.
RefreshRefused(s) ==
    /\ s \in Scripts
    /\ At(s, "in")
    /\ up
    /\ ~Usable(token[s])
    /\ Goto(s, "form", None)
    /\ UNCHANGED <<limiter, up, starts, key, store>>

\* The process ends, by a signal or after a restore; requests it has not
\* answered fail at their clients.
Fault_Stop ==
    /\ up
    /\ up' = FALSE
    /\ Forget
    /\ pc' = [t \in Reqs |-> IF At(t, "asking") THEN "lost" ELSE pc[t]]
    /\ UNCHANGED <<starts, key, store, token>>
Stop ==
    /\ up
    /\ up' = FALSE
    /\ Forget
    /\ pc' = [t \in Reqs |->
                CASE pc[t] \in {"waiting", "checking"} -> "form"
                  [] pc[t] = "asking" -> "lost"
                  [] OTHER -> pc[t]]
    /\ UNCHANGED <<starts, key, store, token>>

\* main: Load of the configuration makes a secret up if none is set.
Start ==
    /\ ~up
    /\ starts < MaxStarts
    /\ up' = TRUE
    /\ starts' = starts + 1
    /\ key' = IF FixedSecret THEN key ELSE key + 1
    /\ UNCHANGED <<limiter, store, pc, token>>

Background == (Purge \/ Tick) /\ UNCHANGED session

AccessNext ==
    \/ \E t \in Reqs :
         \/ Submit(t) \/ Turned(t) \/ LetThrough(t)
         \/ WrongPassword(t) \/ Grant(t) \/ LoggedIn(t) \/ Logout(t)
         \/ Load(t) \/ Known(t) \/ Unknown(t) \/ Lost(t)
         \/ Welcome(t) \/ Rejected(t)
         \/ Refresh(t) \/ RefreshRefused(t)
    \/ Stop
    \/ Start
    \/ Background

AccessSpec == AccessInit /\ [][AccessNext]_vars

----------------------------------------------------------------------------
(* Correctness *)

Token == [key : Nat, exp : Nat]

SessionTypeOK ==
    /\ up \in BOOLEAN
    /\ starts \in Nat
    /\ key \in Nat
    /\ store \in Token \cup {None}
    /\ pc \in [Reqs -> {"form", "waiting", "checking", "granted", "in", "asking",
                        "known", "unknown", "lost"}]
    /\ token \in [Reqs -> Token \cup {None}]
    /\ \A t \in Reqs : At(t, "waiting") <=> waiting[t] # None
    /\ \A t \in Reqs :
         At(t, "granted") \/ At(t, "asking") \/ At(t, "unknown") => token[t] # None
    /\ \A s \in Scripts :
         /\ pc[s] \in {"form", "waiting", "checking", "granted", "in"}
         /\ At(s, "in") => token[s] # None

\* The types; that a request waits for the limiter exactly while its client
\* does; that a page that asks, or a script that is in, has a token; and that
\* only pages ask.
AccessTypeOK == LimiterTypeOK /\ SessionTypeOK

\* A browser forgets a token that the server would accept only when its user
\* logs out, or when a page was loaded and could not reach the server, or when
\* a page was loaded with another token, since replaced, that was refused.
ForgottenWithReason ==
    [][(Usable(store) /\ store' = None) =>
          \E t \in Tabs :
             \/ Logout(t)
             \/ At(t, "lost")
             \/ At(t, "unknown") /\ token[t] # store]_vars
=============================================================================
