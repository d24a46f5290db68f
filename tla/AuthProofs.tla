----------------------------- MODULE AuthProofs -----------------------------
(***************************************************************************)
(* The session is one session: AuthTypeOK and OneSession of AuthSession,   *)
(* for any accounts, any supply of tokens and any number of user actions.  *)
(***************************************************************************)
EXTENDS AuthSession, TLAPS

\* Everything of AuthProvider is at rest, except the function named.
AllIdle    == init = Idle /\ tick = Idle /\ sign = Idle /\ out = Idle /\ avatar = Idle
OnlyInit   == tick = Idle /\ sign = Idle /\ out = Idle /\ avatar = Idle
OnlyTick   == init = Idle /\ sign = Idle /\ out = Idle /\ avatar = Idle
OnlySign   == init = Idle /\ tick = Idle /\ out = Idle /\ avatar = Idle
OnlyOut    == init = Idle /\ tick = Idle /\ sign = Idle /\ avatar = Idle
OnlyAvatar == init = Idle /\ tick = Idle /\ sign = Idle /\ out = Idle

\* Tokens, access token and user belong together.
Together ==
    /\ (user = None) <=> (store = None)
    /\ (user = None) <=> (access = None)
    /\ user # None => user.u = store.u /\ access.u = store.u /\ access.n = store.n

\* The provider holds no session yet.
Empty == access = None /\ user = None

\* The stored tokens are the ones that p is about.
Stores(p) == store # None /\ store.u = p.t.u /\ store.n = p.t.n

\* What holds while one function at a time is under way, by its progress.
Phase ==
    \/ AllIdle /\ ~loading /\ Together
    \/ OnlyInit /\ init.pc = "start" /\ Empty
    \/ OnlyInit /\ init.pc \in {"refresh", "me"} /\ loading /\ Empty /\ Stores(init)
    \/ OnlyTick /\ tick.pc = "refresh" /\ ~loading /\ Together /\ store # None /\ tick.t.u = store.u
    \/ OnlySign /\ sign.pc \in {"login", "change"} /\ ~loading /\ Together
    \/ OnlySign /\ sign.pc \in {"me", "changed"} /\ ~loading /\ Stores(sign)
    \/ OnlyOut /\ out.pc = "logout" /\ ~loading /\ Together
    \/ OnlyAvatar /\ avatar.pc = "avatar" /\ ~loading /\ Together /\ user # None /\ avatar.t.u = user.u

\* The inductive invariant.
SessionInv == AuthTypeOK /\ (~overlap /\ ~stranded => Phase)

----------------------------------------------------------------------------

\* Nothing waits exactly when every function is at rest.
LEMMA WaitingEmpty == (Waiting = {}) <=> AllIdle
  BY DEF Waiting, AllIdle

\* A token pair just issued is a pair, of the account it was asked for.
LEMMA IssuedPairs ==
  ASSUME NEW u \in Users, NEW t \in Issued(u)
  PROVE  t \in Pairs /\ t.u = u /\ t # None
<1>1. t \in Pairs /\ t.u = u
  BY DEF Issued, Pairs
<1> QED
  BY <1>1, NullAssumption

\* A pair that has aged is a pair of the same account and name.
LEMMA OlderPair ==
  ASSUME NEW p \in Pairs, p # None
  PROVE  Older(p) \in Pairs /\ Older(p).u = p.u /\ Older(p).n = p.n
  BY DEF Older, Pairs

\* The states a function can be put into.
LEMMA StatesMade ==
  /\ Idle \in InitStates /\ Idle \in TickStates /\ Idle \in SignStates /\ Idle \in OutStates /\ Idle \in AvatarStates
  /\ At("start", None) \in InitStates
  /\ \A t \in Pairs : /\ At("refresh", t) \in InitStates /\ At("me", t) \in InitStates
                      /\ At("refresh", t) \in TickStates /\ At("avatar", t) \in AvatarStates
                      /\ At("me", t) \in SignStates /\ At("changed", t) \in SignStates /\ At("change", t) \in SignStates
  /\ \A t \in Pairs \cup {None} : At("logout", t) \in OutStates
  /\ \A u \in Users : At("login", [u |-> u, n |-> None, life |-> "fresh"]) \in SignStates
  BY DEF InitStates, TickStates, SignStates, OutStates, AvatarStates, Process, At

\* What each function awaits, by its progress.
LEMMA Progress ==
  ASSUME AuthTypeOK
  PROVE  /\ init.pc \in {"refresh", "me"} => init.t \in Pairs
         /\ tick.pc = "refresh" => tick.t \in Pairs
         /\ sign.pc \in {"me", "changed", "change"} => sign.t \in Pairs
         /\ sign.pc = "login" => sign.t.u \in Users
         /\ avatar.pc = "avatar" => avatar.t \in Pairs
<1>1. init.pc \in {"refresh", "me"} => init.t \in Pairs
  BY DEF AuthTypeOK, InitStates, Process, Idle, At
<1>2. tick.pc = "refresh" => tick.t \in Pairs
  BY DEF AuthTypeOK, TickStates, Process, Idle
<1>3. sign.pc \in {"me", "changed", "change"} => sign.t \in Pairs
  BY DEF AuthTypeOK, SignStates, Process, Idle
<1>4. sign.pc = "login" => sign.t.u \in Users
  BY DEF AuthTypeOK, SignStates, Process, Idle
<1>5. avatar.pc = "avatar" => avatar.t \in Pairs
  BY DEF AuthTypeOK, AvatarStates, Process, Idle
<1> QED
  BY <1>1, <1>2, <1>3, <1>4, <1>5

\* A page load starts with the invariant.
LEMMA SessionInit == Init => SessionInv
<1> SUFFICES ASSUME Init PROVE SessionInv
  OBVIOUS
<1>1. AuthTypeOK
  <2>1. store = None /\ access = None /\ user = None /\ loading = TRUE /\ timer = FALSE /\ overlap = FALSE /\ stranded = FALSE
    BY DEF Init
  <2>2. init = At("start", None) /\ tick = Idle /\ sign = Idle /\ out = Idle /\ avatar = Idle
    BY DEF Init
  <2>3. ops \in 0..MaxOps
    BY AuthAssumption DEF Init
  <2> QED
    BY <2>1, <2>2, <2>3, StatesMade, Zenon DEF Init, AuthTypeOK, Routes
<1>2. Phase
  BY DEF Init, Phase, OnlyInit, Empty, At
<1> QED
  BY <1>1, <1>2 DEF SessionInv

----------------------------------------------------------------------------
(* Types are preserved.                                                    *)

\* Every step of the provider keeps the types.
LEMMA TypeStep ==
  ASSUME AuthTypeOK, [Next]_vars
  PROVE  AuthTypeOK'
<1>a. \A t \in Pairs : t.u \in Users
  BY DEF Pairs
<1>b. /\ init.pc \in {"refresh", "me"} => init.t \in Pairs
      /\ tick.pc = "refresh" => tick.t \in Pairs
      /\ sign.pc \in {"me", "changed", "change"} => sign.t \in Pairs
      /\ sign.pc = "login" => sign.t.u \in Users
      /\ avatar.pc = "avatar" => avatar.t \in Pairs
  BY Progress
<1>c. \A u \in Users : \A t \in Issued(u) : t \in Pairs
  BY IssuedPairs
<1>d. \A u \in Users : Me(u) \in Account
  BY DEF AuthTypeOK, Me, Account
<1>e. ops < MaxOps => ops + 1 \in 0..MaxOps
  BY AuthAssumption DEF AuthTypeOK
<1>f. \A p \in Pairs : Older(p) \in Pairs
  BY OlderPair, NullAssumption
<1>g. \A b \in BOOLEAN : (b \/ Waiting # {}) \in BOOLEAN
  OBVIOUS
<1>h. \A t \in Pairs : ScheduleRefresh(t) \in BOOLEAN
  BY DEF ScheduleRefresh
<1> USE StatesMade DEF AuthTypeOK
<1>1. CASE Reload
  BY <1>e, <1>1 DEF Reload, Routes
<1>2. CASE InitStart
  BY <1>2 DEF InitStart
<1>3. CASE InitRefreshed
  BY <1>a, <1>b, <1>c, <1>3 DEF InitRefreshed, InitFails
<1>4. CASE InitMe
  BY <1>a, <1>b, <1>d, <1>h, <1>4 DEF InitMe, InitFails
<1>5. CASE TimerFires
  BY <1>g, <1>5 DEF TimerFires, Begins
<1>6. CASE TimerAnswered
  BY <1>a, <1>b, <1>c, <1>h, <1>6 DEF TimerAnswered
<1>7. ASSUME NEW u \in Users, Login(u) PROVE AuthTypeOK'
  BY <1>e, <1>g, <1>7 DEF Login, Begins
<1>8. CASE ChangePassword
  BY <1>e, <1>g, <1>8 DEF ChangePassword, Begins
<1>9. CASE SignTokens
  BY <1>a, <1>b, <1>c, <1>9 DEF SignTokens
<1>10. CASE SignMe
  BY <1>a, <1>b, <1>d, <1>h, <1>10 DEF SignMe, Routes
<1>11. CASE Logout
  BY <1>e, <1>g, <1>11 DEF Logout, Begins
<1>12. CASE LogoutAnswered
  BY <1>12 DEF LogoutAnswered, CloseSession, Routes
<1>13. CASE SetAvatar
  BY <1>e, <1>g, <1>13 DEF SetAvatar, Begins
<1>14. CASE AvatarAnswered
  BY <1>a, <1>b, <1>d, <1>14 DEF AvatarAnswered
<1>15. CASE Redirect
  BY <1>15 DEF Redirect, Destination, Landing, Routes
<1>16. CASE TimePasses
  <2>1. store' \in Pairs
    BY <1>f, <1>16 DEF TimePasses
  <2>2. CASE init = Idle
    BY <2>1, <2>2, <1>16 DEF TimePasses
  <2>3. CASE init # Idle /\ init = At("start", None)
    <3>1. Older(None) = None
      BY DEF Older
    <3>2. init' = At("start", None)
      BY <2>3, <3>1, <1>16 DEF TimePasses, At
    <3> QED
      BY <2>1, <3>2, <1>16 DEF TimePasses
  <2>4. CASE init # Idle /\ init \in [pc : {"refresh", "me"}, t : Pairs]
    <3>1. init' \in [pc : {"refresh", "me"}, t : Pairs]
      BY <2>4, <1>f, <1>16 DEF TimePasses
    <3>2. init' \in InitStates
      BY <3>1 DEF InitStates, Process
    <3> QED
      BY <2>1, <3>2, <1>16 DEF TimePasses
  <2> QED
    BY <2>2, <2>3, <2>4 DEF InitStates, Process
<1>17. CASE UNCHANGED vars
  BY <1>17 DEF vars
<1> QED
  BY <1>1, <1>2, <1>3, <1>4, <1>5, <1>6, <1>7, <1>8, <1>9, <1>10, <1>11, <1>12, <1>13, <1>14, <1>15, <1>16, <1>17 DEF Next

----------------------------------------------------------------------------
(* The phases are preserved.                                               *)

\* The parts of a waiting function's record.
LEMMA AtParts ==
  /\ \A pc, t : At(pc, t).pc = pc /\ At(pc, t).t = t
  /\ Idle.pc = "idle"
  BY DEF At, Idle

\* Every step that overlaps with no other leads from phase to phase.
LEMMA PhaseStep ==
  ASSUME AuthTypeOK, [Next]_vars, ~overlap /\ ~stranded => Phase
  PROVE  ~overlap' /\ ~stranded' => Phase'
<1> SUFFICES ASSUME ~overlap', ~stranded' PROVE Phase'
  OBVIOUS
<1> USE AtParts
<1>a. \A u \in Users : \A t \in Issued(u) : t \in Pairs /\ t.u = u /\ t # None
  BY IssuedPairs
<1>b. \A t \in Pairs : t.u \in Users /\ t # None
  BY NullAssumption DEF Pairs
<1>c. \A u \in Users : Me(u).u = u /\ Me(u) # None
  BY NullAssumption DEF Me, Account, AuthTypeOK
<1>d. /\ init.pc \in {"refresh", "me"} => init.t \in Pairs
      /\ tick.pc = "refresh" => tick.t \in Pairs
      /\ sign.pc \in {"me", "changed", "change"} => sign.t \in Pairs
      /\ sign.pc = "login" => sign.t.u \in Users
      /\ avatar.pc = "avatar" => avatar.t \in Pairs
  BY Progress
<1>e. /\ store # None => store \in Pairs
      /\ access # None => access \in Pairs
  BY DEF AuthTypeOK
<1>1. CASE Reload
  BY <1>1 DEF Reload, Phase, OnlyInit, Empty
<1>2. CASE InitStart
  <2>1. OnlyInit /\ Empty
    BY <1>2 DEF InitStart, Phase, AllIdle, OnlyTick, OnlySign, OnlyOut, OnlyAvatar
  <2>2. CASE store = None
    <3>1. init' = Idle /\ loading' = FALSE /\ store' = None
      BY <1>2, <2>2 DEF InitStart
    <3>2. AllIdle' /\ ~loading' /\ Together'
      BY <1>2, <2>1, <3>1 DEF InitStart, OnlyInit, AllIdle, Empty, Together
    <3> QED
      BY <3>2 DEF Phase
  <2>3. CASE store # None
    <3>1. init'.pc \in {"refresh", "me"} /\ init'.t = store
      BY <1>2, <2>3 DEF InitStart
    <3>2. OnlyInit' /\ Empty' /\ loading' /\ store' = store
      BY <1>2, <2>1, <2>3 DEF InitStart, OnlyInit, Empty
    <3>3. Stores(init)'
      BY <2>3, <3>1, <3>2 DEF Stores
    <3> QED
      BY <3>1, <3>2, <3>3 DEF Phase
  <2> QED
    BY <2>2, <2>3
<1>3. CASE InitRefreshed
  <2>1. OnlyInit /\ Empty /\ Stores(init) /\ loading
    BY <1>3 DEF InitRefreshed, InitFails, Phase, AllIdle, OnlyTick, OnlySign, OnlyOut, OnlyAvatar
  <2>2. CASE InitFails
    BY <2>1, <2>2 DEF InitFails, Phase, OnlyInit, AllIdle, Empty, Together
  <2>3. ASSUME NEW t \in Issued(init.t.u), store' = t, init' = At("me", t),
               UNCHANGED <<access, user, loading, tick, sign, out, avatar>>
        PROVE  Phase'
    <3>1. init.t.u \in Users
      BY <1>3, <1>b, <1>d DEF InitRefreshed
    <3> QED
      BY <2>1, <2>3, <3>1, <1>a DEF Phase, OnlyInit, Empty, Stores
  <2> QED
    BY <1>3, <2>2, <2>3 DEF InitRefreshed
<1>4. CASE InitMe
  <2>1. OnlyInit /\ Empty /\ Stores(init)
    BY <1>4 DEF InitMe, InitFails, Phase, AllIdle, OnlyTick, OnlySign, OnlyOut, OnlyAvatar
  <2>2. CASE InitFails
    BY <2>1, <2>2 DEF InitFails, Phase, OnlyInit, AllIdle, Empty, Together
  <2>3. CASE ~InitFails
    BY <1>4, <2>1, <2>3, <1>b, <1>c, <1>d DEF InitMe, Phase, OnlyInit, AllIdle, Stores, Together
  <2> QED
    BY <2>2, <2>3
<1>5. CASE TimerFires
  <2>1. CASE store = None
    BY <1>5, <2>1 DEF TimerFires, Phase, AllIdle, OnlyInit, OnlyTick, OnlySign, OnlyOut, OnlyAvatar, Together, Empty, Stores
  <2>2. CASE store # None
    <3>1. AllIdle /\ ~overlap /\ tick' = At("refresh", store)
      BY <1>5, <2>2, WaitingEmpty DEF TimerFires, Begins
    <3>2. ~loading /\ Together
      BY <1>5, <3>1 DEF TimerFires, Phase, AllIdle
    <3> QED
      BY <1>5, <2>2, <3>1, <3>2 DEF TimerFires, Phase, AllIdle, OnlyTick, Together
  <2> QED
    BY <2>1, <2>2
<1>6. CASE TimerAnswered
  <2>1. OnlyTick /\ ~loading /\ Together /\ store # None /\ tick.t.u = store.u
    BY <1>6 DEF TimerAnswered, Phase, AllIdle, OnlyInit, OnlySign, OnlyOut, OnlyAvatar
  <2> QED
    BY <1>6, <2>1, <1>a, <1>b, <1>d DEF TimerAnswered, Phase, OnlyTick, AllIdle, Together
<1>7. ASSUME NEW u \in Users, Login(u) PROVE Phase'
  BY <1>7, WaitingEmpty DEF Login, Begins, Phase, AllIdle, OnlyInit, OnlyTick, OnlySign, OnlyOut, OnlyAvatar, Together
<1>8. CASE ChangePassword
  BY <1>8, WaitingEmpty DEF ChangePassword, Begins, Phase, AllIdle, OnlyInit, OnlyTick, OnlySign, OnlyOut, OnlyAvatar, Together
<1>9. CASE SignTokens
  <2>1. OnlySign /\ ~loading /\ Together
    BY <1>9 DEF SignTokens, Phase, AllIdle, OnlyInit, OnlyTick, OnlyOut, OnlyAvatar
  <2> QED
    BY <1>9, <2>1, <1>a, <1>b, <1>d DEF SignTokens, Phase, OnlySign, AllIdle, Together, Stores
<1>10. CASE SignMe
  <2>1. OnlySign /\ ~loading /\ Stores(sign)
    BY <1>10 DEF SignMe, Phase, AllIdle, OnlyInit, OnlyTick, OnlyOut, OnlyAvatar
  <2> QED
    BY <1>10, <2>1, <1>b, <1>c, <1>d DEF SignMe, Phase, OnlySign, AllIdle, Together, Stores
<1>11. CASE Logout
  BY <1>11, WaitingEmpty DEF Logout, Begins, Phase, AllIdle, OnlyInit, OnlyTick, OnlySign, OnlyOut, OnlyAvatar, Together
<1>12. CASE LogoutAnswered
  <2>1. OnlyOut /\ ~loading
    BY <1>12 DEF LogoutAnswered, Phase, AllIdle, OnlyInit, OnlyTick, OnlySign, OnlyAvatar
  <2> QED
    BY <1>12, <2>1 DEF LogoutAnswered, CloseSession, Phase, OnlyOut, AllIdle, Together
<1>13. CASE SetAvatar
  <2>1. AllIdle /\ ~overlap /\ ~stranded /\ access # None /\ avatar' = At("avatar", access)
    BY <1>13, WaitingEmpty DEF SetAvatar, Begins
  <2>2. ~loading /\ Together
    BY <2>1 DEF Phase, AllIdle
  <2> QED
    BY <1>13, <2>1, <2>2 DEF SetAvatar, Phase, AllIdle, OnlyAvatar, Together
<1>14. CASE AvatarAnswered
  <2>1. OnlyAvatar /\ ~loading /\ Together /\ user # None /\ avatar.t.u = user.u
    BY <1>14 DEF AvatarAnswered, Phase, AllIdle, OnlyInit, OnlyTick, OnlySign, OnlyOut
  <2> QED
    BY <1>14, <2>1, <1>b, <1>c, <1>d DEF AvatarAnswered, Phase, OnlyAvatar, AllIdle, Together
<1>15. CASE Redirect
  BY <1>15 DEF Redirect, Phase, AllIdle, OnlyInit, OnlyTick, OnlySign, OnlyOut, OnlyAvatar, Together, Empty, Stores
<1>16. CASE TimePasses
  <2>1. store' # None /\ store'.u = store.u /\ store'.n = store.n
    BY <1>16, <1>b, <1>e, OlderPair DEF TimePasses
  <2>2. init.pc \in {"refresh", "me"} =>
          init'.pc = init.pc /\ init'.t.u = init.t.u /\ init'.t.n = init.t.n
    BY <1>16, <1>b, <1>d, OlderPair DEF TimePasses, AuthTypeOK, InitStates, Process
  <2>3. init = Idle => init' = Idle
    BY <1>16 DEF TimePasses
  <2>4. init.pc = "start" => init'.pc = "start"
    BY <1>16 DEF TimePasses, AuthTypeOK, InitStates, Process
  <2> QED
    BY <1>16, <2>1, <2>2, <2>3, <2>4 DEF TimePasses, Phase, AllIdle, OnlyInit, OnlyTick, OnlySign, OnlyOut, OnlyAvatar, Together, Empty, Stores
<1>17. CASE UNCHANGED vars
  BY <1>17 DEF vars, Phase, AllIdle, OnlyInit, OnlyTick, OnlySign, OnlyOut, OnlyAvatar, Together, Empty, Stores
<1> QED
  BY <1>1, <1>2, <1>3, <1>4, <1>5, <1>6, <1>7, <1>8, <1>9, <1>10, <1>11, <1>12, <1>13, <1>14, <1>15, <1>16, <1>17 DEF Next

----------------------------------------------------------------------------
(* The theorems.                                                           *)

\* The invariant is inductive.
THEOREM SessionInvariance == Spec => []SessionInv
<1>1. SessionInv /\ [Next]_vars => SessionInv'
  BY TypeStep, PhaseStep DEF SessionInv
<1> QED
  BY SessionInit, <1>1, PTL DEF Spec

\* The state of AuthProvider has its types: in particular the timer and the
\* functions it starts never work with tokens that are not there.
THEOREM SessionTypes == Spec => []AuthTypeOK
<1>1. SessionInv => AuthTypeOK
  BY DEF SessionInv
<1> QED
  BY SessionInvariance, <1>1, PTL

\* Stored tokens, access token and user belong together whenever the provider
\* is at rest, through reloads, refreshes, logins, password changes and logouts.
THEOREM SessionIsOne == Spec => []OneSession
<1>1. SessionInv => OneSession
  <2> SUFFICES ASSUME SessionInv, Waiting = {}, ~overlap, ~stranded PROVE Together
    BY DEF OneSession, Together
  <2>1. AllIdle
    BY WaitingEmpty
  <2> QED
    BY <2>1, AtParts DEF SessionInv, Phase, AllIdle
<1> QED
  BY SessionInvariance, <1>1, PTL
=============================================================================
