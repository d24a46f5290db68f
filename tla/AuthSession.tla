---------------------------- MODULE AuthSession ----------------------------
(***************************************************************************)
(* The session of the web console (features/auth/auth-context.tsx) with    *)
(* the guard, the login page and the page of the forced password change.   *)
(* The tokens are in sessionStorage and survive a reload; the rest is the  *)
(* state of AuthProvider.  Each async function of the provider is a small  *)
(* process that awaits the server; their continuations interleave.         *)
(***************************************************************************)
EXTENDS Naturals

CONSTANTS
    Users,      \* accounts
    Tokens,     \* names of token pairs
    None,       \* null
    MaxOps      \* bound: what the user starts in a behaviour

ASSUME AuthAssumption ==
    /\ None \notin Users /\ None \notin Tokens
    /\ MaxOps \in Nat

VARIABLES
    store,      \* sessionStorage: None or a token pair with its remaining life
    access,     \* accessToken
    user,       \* None or the answer of /me
    loading,    \* isLoading
    timer,      \* refreshTimerRef: a refresh is scheduled
    route,      \* the page
    init, tick, sign, out, avatar,  \* what each async function awaits
    must,       \* the server's must_change_password, by account
    ops,        \* counter for the bound
    overlap,    \* one async function was started while another was waiting
    stranded    \* /me failed after the tokens of a login had been stored

vars == <<store, access, user, loading, timer, route, init, tick, sign, out, avatar, must, ops, overlap, stranded>>

Idle == [pc |-> "idle", t |-> None]
At(pc, t) == [pc |-> pc, t |-> t]

\* A pair of tokens: whose it is, its name, and how long it has to live: more
\* than the minute the timer leaves ("fresh"), 10 s to a minute, or less.
Pairs == [u : Users, n : Tokens, life : {"fresh", "ending", "dead"}]
Account == [u : Users, must : BOOLEAN]

ASSUME NullAssumption == None \notin Pairs /\ None \notin Account

Issued(u) == {[u |-> u, n |-> n, life |-> "fresh"] : n \in {n \in Tokens : \A p \in {store, access} : p # None => p.n # n}}

Me(u) == [u |-> u, must |-> must[u]]

Waiting == {p \in {init, tick, sign, out, avatar} : p # Idle}
Begins  == overlap' = (overlap \/ Waiting # {})

----------------------------------------------------------------------------
(* The provider is mounted by every full page load.                        *)

Init ==
    /\ access = None /\ user = None /\ loading = TRUE /\ timer = FALSE
    /\ init = At("start", None) /\ tick = Idle /\ sign = Idle /\ out = Idle /\ avatar = Idle
    /\ overlap = FALSE /\ stranded = FALSE
    /\ store = None
    /\ route \in {"home", "login", "dash", "change"}
    /\ must \in [Users -> BOOLEAN]
    /\ ops = 0

\* A reload, or authFetch leaving for /login (401) or for the password page (403).
Reload ==
    /\ ops < MaxOps /\ ops' = ops + 1
    /\ route' \in {route, "login", "change"}
    /\ access' = None /\ user' = None /\ loading' = TRUE /\ timer' = FALSE
    /\ init' = At("start", None) /\ tick' = Idle /\ sign' = Idle /\ out' = Idle /\ avatar' = Idle
    /\ overlap' = FALSE /\ stranded' = FALSE
    /\ UNCHANGED <<store, must>>

\* scheduleRefresh: the old timer is cleared; a new one is set only for tokens
\* with more than a minute to live.
ScheduleRefresh(t) == t.life = "fresh"

----------------------------------------------------------------------------
(* init()                                                                  *)

InitStart ==
    /\ init.pc = "start"
    /\ init' = CASE store = None        -> Idle
                 [] store # None /\ store.life = "dead" -> At("refresh", store)
                 [] OTHER               -> At("me", store)
    /\ loading' = (store # None)
    /\ UNCHANGED <<store, access, user, timer, route, tick, sign, out, avatar, must, ops, overlap, stranded>>

\* Mutant: isLoading is lowered on success only.
InitFailsLoading ==
    /\ store' = None
    /\ init' = Idle
    /\ UNCHANGED <<access, user, loading, timer, route, tick, sign, out, avatar, must, ops, overlap, stranded>>

InitFails ==
    /\ store' = None
    /\ init' = Idle
    /\ loading' = FALSE
    /\ UNCHANGED <<access, user, timer, route, tick, sign, out, avatar, must, ops, overlap, stranded>>

InitRefreshed ==
    /\ init.pc = "refresh"
    /\ \/ \E t \in Issued(init.t.u) :
            /\ store' = t
            /\ init' = At("me", t)
            /\ UNCHANGED <<access, user, loading, timer, route, tick, sign, out, avatar, must, ops, overlap, stranded>>
       \/ InitFails

InitMe ==
    /\ init.pc = "me"
    /\ \/ /\ access' = init.t
          /\ user' = Me(init.t.u)
          /\ timer' = ScheduleRefresh(init.t)
          /\ init' = Idle
          /\ loading' = FALSE
          /\ UNCHANGED <<store, route, tick, sign, out, avatar, must, ops, overlap, stranded>>
       \/ InitFails

----------------------------------------------------------------------------
(* The refresh timer.  (Bound: one refresh is out at a time.)              *)

\* Mutant: a callback that finds no tokens goes on.
TimerFiresBlind ==
    /\ timer /\ tick = Idle
    /\ timer' = FALSE
    /\ tick' = At("refresh", store) /\ Begins
    /\ UNCHANGED <<store, access, user, loading, route, init, sign, out, avatar, must, ops, stranded>>

TimerFires ==
    /\ timer /\ tick = Idle
    /\ timer' = FALSE
    /\ IF store = None
       THEN UNCHANGED <<tick, overlap>>
       ELSE tick' = At("refresh", store) /\ Begins
    /\ UNCHANGED <<store, access, user, loading, route, init, sign, out, avatar, must, ops, stranded>>

TimerAnswered ==
    /\ tick.pc = "refresh"
    /\ tick' = Idle
    /\ \/ \E t \in Issued(tick.t.u) :
            /\ store' = t /\ access' = t
            /\ timer' = ScheduleRefresh(t)
            /\ UNCHANGED user
       \/ store' = None /\ access' = None /\ user' = None /\ UNCHANGED timer
    /\ UNCHANGED <<loading, route, init, sign, out, avatar, must, ops, overlap, stranded>>

----------------------------------------------------------------------------
(* login() and the password change, both through establishSession().       *)

\* The login page does not wait for init().
Login(u) ==
    /\ route = "login" /\ sign = Idle
    /\ ops < MaxOps /\ ops' = ops + 1
    /\ sign' = At("login", [u |-> u, n |-> None, life |-> "fresh"])
    /\ Begins
    /\ UNCHANGED <<store, access, user, loading, timer, route, init, tick, out, avatar, must, stranded>>

ChangePassword ==
    /\ route = "change" /\ sign = Idle /\ access # None
    /\ ops < MaxOps /\ ops' = ops + 1
    /\ sign' = At("change", access)
    /\ Begins
    /\ UNCHANGED <<store, access, user, loading, timer, route, init, tick, out, avatar, must, stranded>>

\* saveTokens, then /me is asked.
SignTokens ==
    /\ sign.pc \in {"login", "change"}
    /\ \/ \E t \in Issued(sign.t.u) :
            /\ store' = t
            /\ sign' = At(IF sign.pc = "login" THEN "me" ELSE "changed", t)
            /\ must' = IF sign.pc = "login" THEN must ELSE [must EXCEPT ![t.u] = FALSE]
       \/ sign' = Idle /\ UNCHANGED <<store, must>>
    /\ UNCHANGED <<access, user, loading, timer, route, init, tick, out, avatar, ops, overlap, stranded>>

SignMe ==
    /\ sign.pc \in {"me", "changed"}
    /\ sign' = Idle
    /\ \/ /\ access' = sign.t
          /\ user' = Me(sign.t.u)
          /\ timer' = ScheduleRefresh(sign.t)
          /\ route' = IF sign.pc = "me" /\ must[sign.t.u] THEN "change" ELSE "dash"
          /\ UNCHANGED stranded
       \/ stranded' = TRUE /\ UNCHANGED <<access, user, timer, route>>
    /\ UNCHANGED <<store, loading, init, tick, out, avatar, must, ops, overlap>>

----------------------------------------------------------------------------
(* The menu of the user, which only a page behind the guard shows.         *)

Protected == route = "dash" /\ ~loading /\ user # None /\ ~user.must

\* Mutant: the user stays.
CloseKeepingUser == store' = None /\ access' = None /\ UNCHANGED user

\* clearTokens, setUser(null), setAccessToken(null), clearTimeout.
CloseSession == store' = None /\ access' = None /\ user' = None

Logout ==
    /\ Protected /\ out = Idle
    /\ ops < MaxOps /\ ops' = ops + 1
    /\ Begins
    /\ out' = At("logout", store)
    /\ UNCHANGED <<store, access, user, loading, timer, route, init, tick, sign, avatar, must, stranded>>

\* Whatever the server says, and at once when no tokens were stored.
LogoutAnswered ==
    /\ out.pc = "logout"
    /\ out' = Idle
    /\ CloseSession
    /\ timer' = FALSE
    /\ route' = "login"
    /\ UNCHANGED <<loading, init, tick, sign, avatar, must, ops, overlap, stranded>>

SetAvatar ==
    /\ Protected /\ avatar = Idle /\ access # None
    /\ ops < MaxOps /\ ops' = ops + 1
    /\ Begins
    /\ avatar' = At("avatar", access)
    /\ UNCHANGED <<store, access, user, loading, timer, route, init, tick, sign, out, must, stranded>>

AvatarAnswered ==
    /\ avatar.pc = "avatar"
    /\ avatar' = Idle
    /\ \/ user' = Me(avatar.t.u)
       \/ UNCHANGED user
    /\ UNCHANGED <<store, access, loading, timer, route, init, tick, sign, out, must, ops, overlap, stranded>>

----------------------------------------------------------------------------
(* The redirects of the pages, and time.                                   *)

Landing == IF user = None THEN "login" ELSE IF user.must THEN "change" ELSE "dash"

\* Mutant: a logged-in user is left on the login page.
AwayFromDash == IF ~loading /\ route = "dash" THEN Landing ELSE route

Destination ==
    CASE route = "home" /\ ~loading   -> IF user = None THEN "login" ELSE "dash"
      [] route = "dash" /\ ~loading   -> Landing
      [] route = "login"              -> Landing
      [] route = "change" /\ ~loading -> IF user = None THEN "login" ELSE "change"
      [] OTHER                        -> route

Redirect ==
    /\ route' = Destination /\ route' # route
    /\ UNCHANGED <<store, access, user, loading, timer, init, tick, sign, out, avatar, must, ops, overlap, stranded>>

Older(p) ==
    IF p = None THEN None
    ELSE [p EXCEPT !.life = CASE @ = "fresh" -> "ending" [] OTHER -> "dead"]

\* expires_at comes closer; init() holds a copy of the stored pair.
TimePasses ==
    /\ store # None
    /\ store' = Older(store)
    /\ init' = IF init = Idle THEN Idle ELSE [init EXCEPT !.t = Older(@)]
    /\ UNCHANGED <<access, user, loading, timer, route, tick, sign, out, avatar, must, ops, overlap, stranded>>

Next ==
    \/ Reload
    \/ InitStart \/ InitRefreshed \/ InitMe
    \/ TimerFires \/ TimerAnswered
    \/ \E u \in Users : Login(u)
    \/ ChangePassword \/ SignTokens \/ SignMe
    \/ Logout \/ LogoutAnswered \/ SetAvatar \/ AvatarAnswered
    \/ Redirect \/ TimePasses

\* Requests are answered or fail, and React runs the effects of a page.
Fairness ==
    /\ WF_vars(InitStart) /\ WF_vars(InitRefreshed) /\ WF_vars(InitMe)
    /\ WF_vars(TimerAnswered) /\ WF_vars(SignTokens) /\ WF_vars(SignMe)
    /\ WF_vars(LogoutAnswered) /\ WF_vars(AvatarAnswered)
    /\ WF_vars(Redirect)

Spec == Init /\ [][Next]_vars
FairSpec == Spec /\ Fairness

----------------------------------------------------------------------------
(* Properties.                                                             *)

Process(P) == {Idle} \cup [pc : P, t : Pairs]

InitStates   == Process({"refresh", "me"}) \cup {At("start", None)}
TickStates   == Process({"refresh"})
SignStates   == Process({"me", "changed", "change"}) \cup
                [pc : {"login"}, t : [u : Users, n : {None}, life : {"fresh"}]]
OutStates    == {Idle} \cup [pc : {"logout"}, t : Pairs \cup {None}]
AvatarStates == Process({"avatar"})
Routes       == {"home", "login", "dash", "change"}

\* Types of the provider's state.
AuthTypeOK ==
    /\ store \in Pairs \cup {None}
    /\ access \in Pairs \cup {None}
    /\ user \in Account \cup {None}
    /\ loading \in BOOLEAN /\ timer \in BOOLEAN
    /\ route \in Routes
    /\ init \in InitStates /\ tick \in TickStates /\ sign \in SignStates
    /\ out \in OutStates /\ avatar \in AvatarStates
    /\ must \in [Users -> BOOLEAN]
    /\ ops \in 0..MaxOps
    /\ overlap \in BOOLEAN /\ stranded \in BOOLEAN

\* When no request of the provider is out, none overlapped with another since
\* the page was loaded and no login failed half way, the stored tokens, the
\* access token and the user on display belong together: all three are there,
\* of one account and one pair of tokens, or none is.
OneSession ==
    (Waiting = {} /\ ~loading /\ ~overlap /\ ~stranded) =>
        /\ (user = None) <=> (store = None)
        /\ (user = None) <=> (access = None)
        /\ user # None => user.u = store.u /\ access.u = store.u /\ access.n = store.n

\* A loaded session is refreshed: while a user is logged in, a refresh is scheduled
\* or under way.  auth-context.tsx:2 promises it and the code does not keep it, as
\* tokens with less than a minute to live are not scheduled.
KeptAlive ==
    (Waiting = {} /\ ~loading /\ ~overlap /\ ~stranded /\ user # None) => timer

\* A page load always gets past "Loading...".
LoadingEnds == loading ~> ~loading

\* The redirects settle: once the user does nothing more, the page is for good
\* one that the session may see, and nobody stays on a blank one.
RouteFits ==
    CASE route = "dash"   -> user # None /\ ~user.must
      [] route = "login"  -> user = None
      [] route = "change" -> user # None
      [] OTHER -> FALSE
RoutesSettle == <>[]RouteFits
=============================================================================
