-------------------------- MODULE WebSession_proofs --------------------------
(***************************************************************************)
(* Proofs about WebSession, for every set of users and calls and every     *)
(* number of navigations, submissions and faults.                          *)
(*                                                                         *)
(* WInv is the inductive invariant: besides types and the two properties   *)
(* it says that a page the proxy is asked for has room among the           *)
(* navigations (Room), without which a new page would have no number.      *)
(***************************************************************************)
EXTENDS WebSession, TLAPS

Room == target # "none" => nav < MaxNav

WInv == TypeOK /\ Room /\ TokensOfOneUser /\ ReadyMeansLoaded

-----------------------------------------------------------------------------
(* The steps that several actions share.                                      *)

PlaceOK ==
  /\ page \in {"public", "protected", "login", "signup", "none"} /\ nav \in Navs
  /\ target \in {"none", "protected", "login"}

ContextOK ==
  /\ ready \in BOOLEAN /\ isLoggedIn \in BOOLEAN
  /\ load \in [Navs -> {"none", "due", "read", "ask", "wait", "reread"}]

\* A page that is shown has a number, and a load that is due if it has AuthContext.
LEMMA ShowsKeeps ==
  ASSUME PlaceOK, ContextOK, nav < MaxNav,
         NEW p \in {"public", "protected", "login", "signup"}, Shows(p)
  PROVE  PlaceOK' /\ ContextOK' /\ Room' /\ ReadyMeansLoaded' /\ filled' \in BOOLEAN
<1>1. nav + 1 \in Navs
  BY WebSessionAssumption DEF PlaceOK, Navs
<1>2. load' \in [Navs -> {"none", "due", "read", "ask", "wait", "reread"}]
  BY <1>1 DEF Shows, ContextOK, NoLoad
<1> QED
  BY <1>1, <1>2 DEF Shows, PlaceOK, ContextOK, Room, ReadyMeansLoaded

\* The requests that the proxy has sent are renamed, and stay requests.
LEMMA GoesKeeps ==
  ASSUME PlaceOK, ContextOK, asked \subseteq Request, Room, ReadyMeansLoaded, filled \in BOOLEAN,
         NEW p \in {"public", "protected", "login", "signup"}, Goes(p)
  PROVE  /\ PlaceOK' /\ ContextOK' /\ asked' \subseteq Request /\ Room' /\ ReadyMeansLoaded'
         /\ filled' \in BOOLEAN
<1>1. asked' \subseteq Request
  BY DEF Goes, Request, By
<1>2. CASE p \in {"public", "signup"}
  BY <1>1, <1>2, ShowsKeeps DEF Goes
<1>3. CASE p \notin {"public", "signup"}
  BY <1>1, <1>3 DEF Goes, PlaceOK, ContextOK, Room, ReadyMeansLoaded, context
<1> QED
  BY <1>2, <1>3

\* A load that is applied makes the page of its own navigation ready, and another only before
\* the effect of that one has run.
LEMMA ApplyKeeps ==
  ASSUME PlaceOK, ContextOK, ReadyMeansLoaded, NEW n \in Navs, NEW token, Apply(n, token),
         UNCHANGED place
  PROVE  ContextOK' /\ ReadyMeansLoaded'
<1>1. load' \in [Navs -> {"none", "due", "read", "ask", "wait", "reread"}]
  BY DEF Apply, ContextOK, NoLoad
<1>2. ready' \in BOOLEAN /\ isLoggedIn' \in BOOLEAN
  BY DEF Apply, ContextOK
<1>3. ReadyMeansLoaded'
  BY DEF Apply, ContextOK, PlaceOK, ReadyMeansLoaded, Cancelled, place
<1> QED
  BY <1>1, <1>2, <1>3 DEF ContextOK

\* A refresh that is asked for is one of the holder of the cookie.
LEMMA AskKeeps ==
  ASSUME {access, refresh} \subseteq OrNobody, asked \subseteq Request,
         NEW by \in {"client", "api"}, Ask(by)
  PROVE  asked' \subseteq Request
BY DEF Ask, OrNobody, Request, By

\* Leaving the document leaves nothing of it.
LEMMA LeavesKeeps ==
  ASSUME PlaceOK, nav < MaxNav, Leaves
  PROVE  PlaceOK' /\ ContextOK' /\ Room' /\ ReadyMeansLoaded' /\ sent' = {} /\ filled' \in BOOLEAN
         /\ call' = NoCalls
BY DEF Leaves, PlaceOK, ContextOK, Room, ReadyMeansLoaded, NoLoads, NoLoad, Navs

-----------------------------------------------------------------------------
LEMMA WInvInit == Init => WInv
<1> SUFFICES ASSUME Init PROVE WInv
  OBVIOUS
<1>1. 1 \in Navs
  BY WebSessionAssumption DEF Navs
<1>2. load \in [Navs -> {"none", "due", "read", "ask", "wait", "reread"}]
  BY <1>1 DEF Init, NoLoads, NoLoad
<1> QED
  BY <1>1, <1>2 DEF Init, WInv, TypeOK, Room, TokensOfOneUser, ReadyMeansLoaded, NoCalls, OrNobody

\* The parts of WInv, so that a step names only those it disturbs.
CallsOK == call \in [Calls -> {"idle", "sent", "refused", "waiting", "again", "done"}]
CookiesOK == {access, refresh} \subseteq OrNobody /\ TokensOfOneUser
RestOK == asked \subseteq Request /\ refused \subseteq Users /\ faults \in Nat
FormOK == filled \in BOOLEAN /\ sent \subseteq Submission

LEMMA Parts ==
  WInv <=> /\ CookiesOK /\ RestOK /\ PlaceOK /\ ContextOK /\ FormOK /\ CallsOK
           /\ Room /\ ReadyMeansLoaded
BY DEF WInv, TypeOK, CookiesOK, RestOK, PlaceOK, ContextOK, FormOK, CallsOK

-----------------------------------------------------------------------------
(* The actions.                                                               *)

LEMMA CookieSteps ==
  ASSUME WInv, \/ \E u \in Users : SignIn(u) \/ Register(u)
               \/ SignOut \/ AccessExpires
  PROVE  WInv'
<1> USE DEF OnlyCookies, place, form, context
<1>1. CookiesOK'
  BY DEF WInv, TypeOK, CookiesOK, SignIn, Register, SignOut, AccessExpires, NewTokens, OrNobody,
         TokensOfOneUser
<1>2. refused' \subseteq Users
  BY DEF WInv, TypeOK, SignIn, Register, SignOut, AccessExpires, NewTokens
<1>3. UNCHANGED <<asked, page, nav, target, filled, sent, ready, isLoggedIn, load, call,
                  faults>>
  BY DEF SignIn, Register, SignOut, AccessExpires
<1>4. (RestOK /\ PlaceOK /\ ContextOK /\ FormOK /\ CallsOK /\ Room /\ ReadyMeansLoaded)'
  BY <1>2, <1>3, Parts DEF RestOK, PlaceOK, ContextOK, FormOK, CallsOK, Room, ReadyMeansLoaded
<1> QED
  BY <1>1, <1>4, Parts, PTL

LEMMA RefuseStep ==
  ASSUME WInv, NEW u \in Users, Refuse(u)
  PROVE  WInv'
<1>1. RestOK'
  BY DEF WInv, TypeOK, RestOK, Refuse, Fault
<1>2. (CookiesOK /\ PlaceOK /\ ContextOK /\ FormOK /\ CallsOK /\ Room /\ ReadyMeansLoaded)'
  BY Parts DEF Refuse, CookiesOK, PlaceOK, ContextOK, FormOK, CallsOK, Room, ReadyMeansLoaded,
               TokensOfOneUser, cookies, place, form, context
<1> QED
  BY <1>1, <1>2, Parts, PTL

\* The tab goes somewhere, the proxy decides or asks.
LEMMA PlaceSteps ==
  ASSUME WInv, Navigate \/ ProxyDecides \/ ProxyAsks
  PROVE  WInv'
<1>1. CASE Navigate
  <2>1. PlaceOK' /\ ContextOK' /\ asked' \subseteq Request /\ Room' /\ ReadyMeansLoaded' /\ filled' \in BOOLEAN
    BY <1>1, Parts, GoesKeeps DEF Navigate, RestOK, FormOK
  <2>2. CookiesOK' /\ RestOK' /\ FormOK' /\ CallsOK'
    BY <1>1, <2>1, Parts DEF Navigate, CookiesOK, RestOK, FormOK, CallsOK, TokensOfOneUser, cookies
  <2> QED
    BY <2>1, <2>2, Parts, PTL
<1>2. CASE ProxyDecides
  <2>1. nav < MaxNav
    BY <1>2 DEF WInv, Room, ProxyDecides
  <2>2. PlaceOK' /\ ContextOK' /\ Room' /\ ReadyMeansLoaded' /\ filled' \in BOOLEAN
    <3>1. CASE access # Nobody \/ target = "login"
      BY <1>2, <2>1, <3>1, Parts, ShowsKeeps DEF ProxyDecides
    <3>2. CASE access = Nobody /\ target # "login"
      BY <1>2, <2>1, <3>2, Parts DEF ProxyDecides, PlaceOK, ContextOK, Room, ReadyMeansLoaded, FormOK, context
    <3> QED
      BY <3>1, <3>2
  <2>3. CookiesOK' /\ RestOK' /\ FormOK' /\ CallsOK'
    BY <1>2, <2>2, Parts DEF ProxyDecides, CookiesOK, RestOK, FormOK, CallsOK, TokensOfOneUser, cookies
  <2> QED
    BY <2>2, <2>3, Parts, PTL
<1>3. CASE ProxyAsks
  <2>1. RestOK'
    BY <1>3, Parts DEF ProxyAsks, RestOK, CookiesOK, OrNobody, Request, By
  <2>2. (CookiesOK /\ PlaceOK /\ ContextOK /\ FormOK /\ CallsOK /\ Room /\ ReadyMeansLoaded)'
    BY <1>3, Parts DEF ProxyAsks, CookiesOK, PlaceOK, ContextOK, FormOK, CallsOK, Room, ReadyMeansLoaded,
                       TokensOfOneUser, cookies, place, form, context
  <2> QED
    BY <2>1, <2>2, Parts, PTL
<1> QED
  BY <1>1, <1>2, <1>3

\* The forms and the header, until a submission is answered.
LEMMA FormSteps ==
  ASSUME WInv, \/ FillsLogin \/ FillsSignup \/ LogsIn \/ SignsUp \/ logout
               \/ \E s \in Submission : FormRefused(s)
  PROVE  WInv'
<1>1. FormOK'
  <2>1. CASE FillsLogin \/ FillsSignup
    <3>1. filled' \in BOOLEAN
      BY <2>1, Zenon DEF FillsLogin, FillsSignup
    <3> QED
      BY <2>1, <3>1, Parts DEF FormOK, FillsLogin, FillsSignup
  <2>2. CASE LogsIn \/ SignsUp \/ logout
    BY <2>2, Parts DEF FormOK, PlaceOK, LogsIn, SignsUp, logout, Submits, Submission
  <2>3. CASE \E s \in Submission : FormRefused(s)
    BY <2>3, Parts DEF FormOK, FormRefused
  <2> QED
    BY <2>1, <2>2, <2>3
<1>2. UNCHANGED <<access, refresh, asked, refused, page, nav, target, ready, isLoggedIn, load, call,
                  faults>>
  BY DEF FillsLogin, FillsSignup, LogsIn, SignsUp, logout, Submits, FormRefused, OnlyForm, cookies,
         place, context
<1>3. (CookiesOK /\ RestOK /\ PlaceOK /\ ContextOK /\ CallsOK /\ Room /\ ReadyMeansLoaded)'
  BY <1>2, Parts DEF CookiesOK, RestOK, PlaceOK, ContextOK, CallsOK, Room, ReadyMeansLoaded,
                     TokensOfOneUser
<1> QED
  BY <1>1, <1>3, Parts, PTL

\* Both cookies are set to one user, or both go.
LEMMA FormAnsweredStep ==
  ASSUME WInv, NEW s \in Submission, FormAnswered(s)
  PROVE  WInv'
<1>1. CookiesOK' /\ refused' \subseteq Users
  BY Parts DEF FormAnswered, NewTokens, CookiesOK, RestOK, OrNobody, TokensOfOneUser
<1>2. PICK p \in {"public", "signup", "protected", "login"} : Goes(p)
  BY DEF FormAnswered, After, Submission
<1>3. PlaceOK' /\ ContextOK' /\ asked' \subseteq Request /\ Room' /\ ReadyMeansLoaded' /\ filled' \in BOOLEAN
  BY <1>2, Parts, GoesKeeps DEF RestOK, FormOK
<1>4. RestOK' /\ FormOK' /\ CallsOK'
  BY <1>1, <1>3, Parts DEF FormAnswered, RestOK, FormOK, CallsOK
<1> QED
  BY <1>1, <1>3, <1>4, Parts, PTL

\* loadSession.
LEMMA LoadSteps ==
  ASSUME WInv, NEW n \in Navs, LoadBegins(n) \/ LoadReads(n) \/ LoadAsks(n) \/ LoadRereads(n)
  PROVE  WInv'
<1>1. RestOK'
  BY Parts, AskKeeps DEF LoadBegins, LoadReads, LoadAsks, LoadRereads, OnlyLoad, RestOK, CookiesOK
<1>2. ContextOK' /\ ReadyMeansLoaded'
  <2>0. UNCHANGED place
    BY DEF LoadBegins, LoadReads, LoadAsks, LoadRereads, OnlyLoad
  <2>1. CASE \E token : Apply(n, token)
    BY <2>0, <2>1, Parts, ApplyKeeps
  <2>2. CASE /\ load[n] \in {"read", "ask"}
             /\ load' = [load EXCEPT ![n] = "ask"] \/ load' = [load EXCEPT ![n] = "wait"]
             /\ UNCHANGED <<ready, isLoggedIn>>
    BY <2>0, <2>2, Parts DEF ContextOK, PlaceOK, ReadyMeansLoaded, NoLoad, place
  <2>3. CASE LoadBegins(n)
    BY <2>0, <2>3, Parts DEF LoadBegins, ContextOK, ReadyMeansLoaded
  <2> QED
    BY <2>1, <2>2, <2>3 DEF LoadReads, LoadAsks, LoadRereads
<1>3. (CookiesOK /\ PlaceOK /\ FormOK /\ CallsOK /\ Room)'
  BY Parts DEF LoadBegins, LoadReads, LoadAsks, LoadRereads, OnlyLoad, CookiesOK, PlaceOK, FormOK, CallsOK, Room,
               TokensOfOneUser, cookies, place, form
<1> QED
  BY <1>1, <1>2, <1>3, Parts, PTL

\* apiFetch.
LEMMA CallSteps ==
  ASSUME WInv, NEW c \in Calls, Send(c) \/ Answered(c) \/ CallRefreshes(c)
  PROVE  WInv'
<1>1. CASE \/ Send(c) \/ Answered(c)
           \/ CallRefreshes(c) /\ (~Refused("api") \/ ~(nav < MaxNav))
  <2>1. CallsOK' /\ UNCHANGED <<place, form, context, cookies, refused, faults>>
    BY <1>1, Parts DEF Send, Answered, CallRefreshes, CallsOK, OnlyCalls
  <2>2. RestOK'
    BY <1>1, <2>1, Parts, AskKeeps DEF Send, Answered, CallRefreshes, OnlyCalls, RestOK, CookiesOK
  <2>3. (CookiesOK /\ PlaceOK /\ ContextOK /\ FormOK /\ Room /\ ReadyMeansLoaded)'
    BY <2>1, Parts DEF CookiesOK, PlaceOK, ContextOK, FormOK, Room, ReadyMeansLoaded, TokensOfOneUser,
                       cookies, place, form, context
  <2> QED
    BY <2>1, <2>2, <2>3, Parts, PTL
<1>2. CASE CallRefreshes(c) /\ Refused("api") /\ nav < MaxNav
  <2>1. asked' = {} /\ Leaves /\ UNCHANGED <<cookies, refused, faults>>
    BY <1>2 DEF CallRefreshes
  <2>2. PlaceOK' /\ ContextOK' /\ Room' /\ ReadyMeansLoaded' /\ FormOK' /\ CallsOK'
    BY <1>2, <2>1, Parts, LeavesKeeps DEF FormOK, CallsOK, NoCalls
  <2>3. CookiesOK' /\ RestOK'
    BY <2>1, Parts DEF CookiesOK, RestOK, TokensOfOneUser, cookies
  <2> QED
    BY <2>2, <2>3, Parts, PTL
<1> QED
  BY <1>1, <1>2

-----------------------------------------------------------------------------
(* The proxy waits for one refresh at most, and only while it is asked for a page: so   *)
(* there is room for the page that it shows when the refresh is answered.               *)
ProxyAwaited ==
  \A r \in asked : r.by = "proxy" => /\ target # "none"
                                     /\ \A q \in asked : q.by = "proxy" => q = r

LEMMA ProxyAwaitedStep ==
  ASSUME WInv, ProxyAwaited, [Next]_vars
  PROVE  ProxyAwaited'
<1> USE DEF ProxyAwaited
<1>1. CASE UNCHANGED <<asked, target>>
  BY <1>1
<1>2. ASSUME NEW p, Goes(p) PROVE ProxyAwaited'
  <2>1. asked \subseteq Request
    BY DEF WInv, TypeOK
  <2>2. \A r \in asked : [r EXCEPT !.by = IF @ = "proxy" THEN "left" ELSE @].by # "proxy"
    BY <2>1 DEF Request
  <2>3. \A r \in asked' : r.by # "proxy"
    BY <1>2, <2>2 DEF Goes
  <2> QED
    BY <2>3
<1>3. ASSUME NEW by \in {"client", "api"}, Ask(by), UNCHANGED target PROVE ProxyAwaited'
  BY <1>3 DEF Ask
<1>4. CASE asked' = {}
  BY <1>4
<1>5. CASE ProxyDecides
  BY <1>5 DEF ProxyDecides, InFlight
<1>6. CASE ProxyAsks
  BY <1>6 DEF ProxyAsks, InFlight, place
<1>7. ASSUME NEW r \in Request, RefreshAnswered(r) PROVE ProxyAwaited'
  <2>1. asked' = {} \/ asked' = asked \ {r}
    BY <1>7 DEF RefreshAnswered
  <2>2. CASE r.by = "proxy"
    BY <1>7, <2>1, <2>2 DEF RefreshAnswered
  <2>3. CASE r.by # "proxy"
    <3>1. target' = target \/ target' = "login"
      BY <1>7, <2>3 DEF RefreshAnswered, LoadsWake, CallsWake, Leaves, place
    <3> QED
      BY <2>1, <3>1
  <2> QED
    BY <2>2, <2>3
<1>8. ASSUME NEW n \in Navs, LoadBegins(n) \/ LoadReads(n) \/ LoadAsks(n) \/ LoadRereads(n) PROVE ProxyAwaited'
  BY <1>8, <1>1, <1>3 DEF LoadBegins, LoadReads, LoadAsks, LoadRereads, OnlyLoad, place
<1>9. ASSUME NEW c \in Calls, Send(c) \/ Answered(c) \/ CallRefreshes(c) PROVE ProxyAwaited'
  BY <1>9, <1>1, <1>3, <1>4 DEF Send, Answered, CallRefreshes, OnlyCalls, place
<1>10. CASE Navigate
  BY <1>10, <1>2 DEF Navigate
<1>11. ASSUME NEW s \in Submission, FormAnswered(s) \/ FormRefused(s) PROVE ProxyAwaited'
  BY <1>11, <1>1, <1>2 DEF FormAnswered, FormRefused, place
<1>12. CASE \/ \E u \in Users : SignIn(u) \/ Register(u) \/ Refuse(u)
            \/ SignOut \/ AccessExpires \/ FillsLogin \/ FillsSignup \/ LogsIn \/ SignsUp \/ logout
            \/ UNCHANGED vars
  BY <1>12, <1>1 DEF SignIn, Register, Refuse, SignOut, AccessExpires, OnlyCookies, FillsLogin, FillsSignup,
                     LogsIn, SignsUp, Submits, logout, OnlyForm, place, vars
<1> QED
  BY <1>5, <1>6, <1>7, <1>8, <1>9, <1>10, <1>11, <1>12 DEF Next

\* The answer to a refresh sets both cookies to the user who asked, and wakes whoever waits.
LEMMA RefreshStep ==
  ASSUME WInv, ProxyAwaited, NEW r \in Request, RefreshAnswered(r)
  PROVE  WInv'
<1>1. CookiesOK'
  BY Parts DEF RefreshAnswered, CookiesOK, SetsTokens, OrNobody, Request, TokensOfOneUser, cookies
<1>2. RestOK'
  BY Parts DEF RefreshAnswered, RestOK, Fault
<1>3. PICK ok \in BOOLEAN :
           \/ r.by = "proxy" /\ ProxyGoesOn(ok)
           \/ r.by = "client" /\ LoadsWake(ok)
           \/ r.by = "api" /\ CallsWake(ok)
           \/ r.by = "left" /\ UNCHANGED <<place, form, context, call>>
  BY DEF RefreshAnswered
<1>4. PlaceOK' /\ ContextOK' /\ FormOK' /\ CallsOK' /\ Room' /\ ReadyMeansLoaded'
  <2>1. CASE r.by = "proxy" /\ ProxyGoesOn(ok)
    <3>1. nav < MaxNav
      BY <2>1, Parts DEF ProxyAwaited, Room, RefreshAnswered
    <3>2. CASE ok
      BY <2>1, <3>1, <3>2, Parts, ShowsKeeps DEF ProxyGoesOn, FormOK, CallsOK
    <3>3. CASE ~ok
      BY <2>1, <3>1, <3>3, Parts DEF ProxyGoesOn, PlaceOK, ContextOK, FormOK, CallsOK, Room,
                                     ReadyMeansLoaded, context
    <3> QED
      BY <3>2, <3>3
  <2>2. CASE r.by = "client" /\ LoadsWake(ok)
    <3>1. ContextOK' /\ ReadyMeansLoaded'
      BY <2>2, Parts DEF LoadsWake, Cancelled, ContextOK, PlaceOK, ReadyMeansLoaded, NoLoad, place
    <3> QED
      BY <2>2, <3>1, Parts DEF LoadsWake, PlaceOK, FormOK, CallsOK, Room, place, form
  <2>3. CASE r.by = "api" /\ CallsWake(ok) /\ ~ok /\ nav < MaxNav
    BY <2>3, Parts, LeavesKeeps DEF CallsWake, FormOK, CallsOK, NoCalls
  <2>4. CASE r.by = "api" /\ CallsWake(ok) /\ ~(~ok /\ nav < MaxNav)
    BY <2>4, Parts DEF CallsWake, PlaceOK, ContextOK, FormOK, CallsOK, Room, ReadyMeansLoaded, place, form,
                       context
  <2>5. CASE UNCHANGED <<place, form, context, call>>
    BY <2>5, Parts DEF PlaceOK, ContextOK, FormOK, CallsOK, Room, ReadyMeansLoaded, place, form, context
  <2> QED
    BY <1>3, <2>1, <2>2, <2>3, <2>4, <2>5
<1> QED
  BY <1>1, <1>2, <1>4, Parts, PTL

-----------------------------------------------------------------------------
LEMMA WInvStep ==
  ASSUME WInv, ProxyAwaited, [Next]_vars
  PROVE  WInv'
<1>1. CASE Next
  BY <1>1, CookieSteps, RefuseStep, PlaceSteps, FormSteps, FormAnsweredStep, LoadSteps, CallSteps,
     RefreshStep DEF Next
<1>2. CASE UNCHANGED vars
  <2>1. UNCHANGED <<access, refresh, asked, refused, page, nav, target, filled, sent, ready, isLoggedIn,
                    load, call, faults>>
    BY <1>2 DEF vars, cookies, place, form, context
  <2> QED
    BY <2>1, Parts DEF CookiesOK, RestOK, PlaceOK, ContextOK, FormOK, CallsOK, Room, ReadyMeansLoaded,
                       TokensOfOneUser, WInv, TypeOK
<1> QED
  BY <1>1, <1>2

LEMMA WInvAlways == Spec => [](WInv /\ ProxyAwaited)
<1>1. Init => WInv /\ ProxyAwaited
  BY WInvInit DEF Init, ProxyAwaited
<1>2. WInv /\ ProxyAwaited /\ [Next]_vars => (WInv /\ ProxyAwaited)'
  BY WInvStep, ProxyAwaitedStep
<1> QED
  BY <1>1, <1>2, PTL DEF Spec

\* Type correctness, and a number for every page that is shown.
THEOREM WebSessionTyped == Spec => []TypeOK
<1>1. WInv => TypeOK
  BY DEF WInv
<1> QED
  BY <1>1, WInvAlways, PTL

\* However sign-ins, sign-outs, refreshes and navigations interleave (setTokenCookies,
\* clearAuthCookies), the token cookies never belong to two users.
THEOREM CookiesOfOneUser == Spec => []TokensOfOneUser
<1>1. WInv => TokensOfOneUser
  BY DEF WInv
<1> QED
  BY <1>1, WInvAlways, PTL

\* AuthContext: once the effect of the page that is shown has run, it is made ready by its own
\* load only, never by the one of a page that has been left.
THEOREM ReadyIsLoaded == Spec => []ReadyMeansLoaded
<1>1. WInv => ReadyMeansLoaded
  BY DEF WInv
<1> QED
  BY <1>1, WInvAlways, PTL
=============================================================================
