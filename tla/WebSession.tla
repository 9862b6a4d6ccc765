------------------------------ MODULE WebSession ------------------------------
(***************************************************************************)
(* The session of a browser in web-user and web-admin: the cookies, the    *)
(* /api/auth routes that set them, the proxy in front of every page, and   *)
(* in one tab the forms to sign in and up, AuthContext with the header it  *)
(* is for, and the calls of lib/api.ts.                                    *)
(*                                                                         *)
(* The cookies belong to all tabs, so they change under the feet of this   *)
(* one.  A refresh takes the refresh cookie when it is sent and sets both  *)
(* token cookies when it is answered, whatever has happened in between.    *)
(*                                                                         *)
(* Abstractions: a token is the user it names; expiry is a cookie that     *)
(* goes, and a call that is refused.  The uid cookie is left out: of the   *)
(* context there is whether it is ready and has a session.  Of a form      *)
(* there is whether what it asks for is filled in.                         *)
(***************************************************************************)
EXTENDS Naturals, FiniteSets

CONSTANTS
  Users,     \* who signs in, in any tab
  Calls,     \* calls of the gateway that the page makes
  MaxNav,    \* bound: navigations of the tab
  MaxSent,   \* bound: submissions and sign-outs of the tab in flight
  MaxFaults  \* bound: refreshes that fail, and users whose token comes to be refused

ASSUME WebSessionAssumption == MaxNav \in Nat \ {0}

Nobody == "nobody"
OrNobody == Users \cup {Nobody}
Navs == 1..MaxNav

VARIABLES
  access, refresh,        \* the token cookies; Nobody when absent or expired
  asked,                  \* refresh requests in flight: by which module, on whose cookie
  refused,                \* users whose refresh token user-service no longer accepts
  page, nav, target,      \* the page, its number, and the page the proxy is asked for
  filled, sent,           \* of a form; submissions and sign-outs of this tab in flight
  ready, isLoggedIn, load, \* of AuthContext, and loadSession() by the navigation that began it
  call,                   \* the calls of the page
  faults

cookies == <<access, refresh>>
context == <<ready, isLoggedIn, load>>
place == <<page, nav, target>>
form == <<filled, sent>>
vars == <<cookies, asked, refused, place, form, context, call, faults>>

By == {"api", "client", "proxy", "left"}   \* left: of a navigation that another has replaced
Request == [by : By, user : Users]

Submission == [to : {"login", "signup", "logout"}, nav : Navs]

NoLoad == "none"

TypeOK ==
  /\ {access, refresh} \subseteq OrNobody /\ asked \subseteq Request
  /\ refused \subseteq Users
  /\ page \in {"public", "protected", "login", "signup", "none"} /\ nav \in Navs
  /\ target \in {"none", "protected", "login"}
  /\ filled \in BOOLEAN /\ sent \subseteq Submission
  /\ ready \in BOOLEAN /\ isLoggedIn \in BOOLEAN /\ load \in [Navs -> {"none", "due", "read", "ask", "wait", "reread"}]
  /\ call \in [Calls -> {"idle", "sent", "refused", "waiting", "again", "done"}]
  /\ faults \in Nat

NoLoads == [n \in Navs |-> NoLoad]
NoCalls == [c \in Calls |-> "idle"]

Init ==
  /\ access = Nobody /\ refresh = Nobody /\ asked = {} /\ refused = {}
  /\ page = "public" /\ nav = 1 /\ target = "none" /\ filled = FALSE /\ sent = {}
  /\ ready = FALSE /\ isLoggedIn = FALSE /\ load = [NoLoads EXCEPT ![1] = "due"] /\ call = NoCalls /\ faults = 0

(***************************************************************************)
(* The cookies, from any tab                                               *)
(***************************************************************************)
OnlyCookies == UNCHANGED <<asked, place, form, context, call, faults>>

\* Both cookies hold tokens that user-service has just given.
NewTokens(u) == access' = u /\ refresh' = u /\ refused' = refused \ {u}

\* /api/auth/login, for the form of another tab.
SignIn(u) == NewTokens(u) /\ OnlyCookies

\* A new account is signed in at once, by /api/auth/register.
Register(u) == refresh = Nobody /\ SignIn(u)

\* /api/auth/logout tells nobody else; and the expiry of the refresh token.
SignOut ==
  /\ refresh # Nobody
  /\ access' = Nobody /\ refresh' = Nobody /\ UNCHANGED refused /\ OnlyCookies

AccessExpires ==
  /\ access # Nobody /\ access' = Nobody /\ UNCHANGED <<refresh, refused>> /\ OnlyCookies

Fault == faults < MaxFaults /\ faults' = faults + 1

\* The refresh token does not verify any more: another client's sign-out has it blacklisted.
Refuse(u) ==
  /\ refused' = refused \cup {u} /\ u \notin refused /\ Fault
  /\ UNCHANGED <<cookies, asked, place, form, context, call>>

\* Slip: the answer renews the access token only.
SetsAccessOnly(u) == access' = u /\ UNCHANGED refresh

\* user-service gives both tokens back, and setTokenCookies sets both cookies.
SetsTokens(u) == access' = u /\ refresh' = u

InFlight(by) == \E r \in asked : r.by = by

(***************************************************************************)
(* Navigation                                                              *)
(***************************************************************************)
Forms == {"login", "signup"}

\* A page of the same document.  The effect of AuthContext is due: it runs after the effects of
\* the page, which is its child, and until then the context is the one of the page before.  The
\* pages of the forms have no AuthContext, nor a header.
Shows(p) ==
  /\ load[nav] # "due"   \* effects run before the tree is rendered again
  /\ page' = p /\ nav' = nav + 1 /\ target' = "none" /\ filled' = FALSE
  /\ ready' = (p \notin Forms /\ ready) /\ isLoggedIn' = (p \notin Forms /\ isLoggedIn)
  /\ load' = [load EXCEPT ![nav + 1] = IF p \in Forms THEN NoLoad ELSE "due"]

\* A public page is shown at once; for the others the proxy looks at the cookies.  It is not
\* asked any more for the page that was under way.
Goes(p) ==
  /\ nav < MaxNav
  /\ asked' = {[r EXCEPT !.by = IF @ = "proxy" THEN "left" ELSE @] : r \in asked}
  /\ IF p \in {"public", "signup"} THEN Shows(p)
     ELSE target' = p /\ UNCHANGED <<page, nav, filled, context>>

Navigate ==
  /\ target = "none" /\ \E p \in {"public", "signup", "protected", "login"} : Goes(p)
  /\ UNCHANGED <<cookies, refused, sent, call, faults>>

ProxyDecides ==
  /\ target # "none" /\ ~InFlight("proxy") /\ (access # Nobody \/ refresh = Nobody)
  /\ IF access # Nobody THEN Shows(IF target = "login" THEN "public" ELSE "protected")
     ELSE IF target = "login" THEN Shows("login")
     ELSE target' = "login" /\ UNCHANGED <<page, nav, filled, context>>
  /\ UNCHANGED <<cookies, asked, refused, sent, call, faults>>

\* Without an access cookie it asks for one first, also on the way to the login page.
ProxyAsks ==
  /\ target # "none" /\ ~InFlight("proxy") /\ access = Nobody /\ refresh # Nobody
  /\ asked' = asked \cup {[by |-> "proxy", user |-> refresh]}
  /\ UNCHANGED <<cookies, refused, place, form, context, call, faults>>

\* Refused, it redirects to the login page: another request to the proxy.
ProxyGoesOn(ok) ==
  /\ IF ok THEN Shows(IF target = "login" THEN "public" ELSE "protected")
     ELSE target' = "login" /\ UNCHANGED <<page, nav, filled, context>>
  /\ UNCHANGED <<call, sent>>

\* redirectToLogin leaves the document: nothing of it goes on.
Leaves ==
  /\ target' = "login" /\ page' = "none" /\ ready' = FALSE /\ isLoggedIn' = FALSE /\ load' = NoLoads
  /\ call' = NoCalls /\ filled' = FALSE /\ sent' = {} /\ UNCHANGED nav

(***************************************************************************)
(* The forms, and the header                                               *)
(***************************************************************************)
OnlyForm == UNCHANGED <<cookies, asked, refused, place, context, call, faults>>

\* Two fields to sign in, and four of five to sign up.
FillsLogin == page = "login" /\ filled' = ~filled /\ UNCHANGED sent /\ OnlyForm
FillsSignup == page = "signup" /\ filled' = ~filled /\ UNCHANGED sent /\ OnlyForm

\* The buttons are off while a field is empty, and while the form's own submission goes on.
CanSubmit == page \in Forms /\ filled /\ \A s \in sent : s.nav # nav

Submits(f) ==
  /\ page = f /\ CanSubmit /\ Cardinality(sent) < MaxSent
  /\ sent' = sent \cup {[to |-> f, nav |-> nav]}
  /\ UNCHANGED filled /\ OnlyForm

LogsIn == Submits("login")
SignsUp == Submits("signup")

\* Of the header; in web-admin the button is always there.
CanSignOut == page \in {"public", "protected"} /\ ready /\ isLoggedIn

logout ==
  /\ CanSignOut /\ Cardinality(sent) < MaxSent
  /\ sent' = sent \cup {[to |-> "logout", nav |-> nav]}
  /\ UNCHANGED filled /\ OnlyForm

\* Where the router goes then: to the page the visitor came for, home, or to the login page.
After(to) ==
  CASE to = "login" -> {"public", "protected"}
    [] to = "signup" -> {"public"}
    [] to = "logout" -> {"login"}

\* The cookies are set, and the router goes on whatever page the tab shows by now.
FormAnswered(s) ==
  /\ s \in sent
  /\ IF s.to = "logout" THEN access' = Nobody /\ refresh' = Nobody /\ UNCHANGED refused
     ELSE \E u \in Users : NewTokens(u)
  /\ \E p \in After(s.to) : Goes(p)
  /\ sent' = sent \ {s} /\ UNCHANGED <<call, faults>>

\* The form shows an error, and can be sent again; a sign-out that fails shows nothing.
FormRefused(s) ==
  /\ s \in sent /\ sent' = sent \ {s}
  /\ UNCHANGED <<cookies, asked, refused, place, filled, context, call, faults>>

(***************************************************************************)
(* silentRefresh: each module shares one promise among its callers         *)
(***************************************************************************)
Ask(by) ==
  asked' = IF InFlight(by) \/ refresh = Nobody THEN asked
           ELSE asked \cup {[by |-> by, user |-> refresh]}

\* The route refuses at once when there is no refresh cookie.
Refused(by) == ~InFlight(by) /\ refresh = Nobody

(***************************************************************************)
(* loadSession                                                             *)
(***************************************************************************)
\* Slip: a load of a page that is gone is applied as well.
CancelledNever(n) == FALSE

\* By the clean-up of its effect, which runs with the effect that is due.
Cancelled(n) == n # nav /\ ~(load[nav] = "due" /\ n = nav - 1)

Apply(n, token) ==
  /\ ready' = (ready \/ ~Cancelled(n)) /\ isLoggedIn' = (IF Cancelled(n) THEN isLoggedIn ELSE token # Nobody)
  /\ load' = [load EXCEPT ![n] = NoLoad]

OnlyLoad == UNCHANGED <<cookies, refused, place, form, call, faults>>

\* The effect: it cancels the load before it and the context is not ready any more.
LoadBegins(n) ==
  /\ load[n] = "due" /\ load' = [load EXCEPT ![n] = "read"]
  /\ ready' = FALSE /\ UNCHANGED <<isLoggedIn, asked>> /\ OnlyLoad

LoadReads(n) ==
  /\ load[n] = "read"
  /\ IF access # Nobody THEN Apply(n, access)
     ELSE load' = [load EXCEPT ![n] = "ask"] /\ UNCHANGED <<ready, isLoggedIn>>
  /\ UNCHANGED asked /\ OnlyLoad

LoadAsks(n) ==
  /\ load[n] = "ask" /\ Ask("client")
  /\ IF Refused("client") THEN Apply(n, Nobody)
     ELSE load' = [load EXCEPT ![n] = "wait"] /\ UNCHANGED <<ready, isLoggedIn>>
  /\ OnlyLoad

\* The cookies once more, or the token of the answer if they have none.
LoadRereads(n) == load[n] = "reread" /\ Apply(n, access) /\ UNCHANGED asked /\ OnlyLoad

(***************************************************************************)
(* apiFetch                                                                *)
(***************************************************************************)
OnlyCalls == UNCHANGED <<cookies, refused, place, form, context, faults>>

\* A page of web-user calls once the context is ready, be it the context of the page before;
\* one of web-admin when it has read the cookie.
Send(c) ==
  /\ call[c] = "idle" /\ ready /\ call' = [call EXCEPT ![c] = "sent"]
  /\ UNCHANGED asked /\ OnlyCalls

\* A token may have expired since it was read; the second time a 401 is an error.
Answered(c) ==
  /\ \/ call[c] \in {"sent", "again"} /\ call' = [call EXCEPT ![c] = "done"]
     \/ call[c] = "sent" /\ call' = [call EXCEPT ![c] = "refused"]
  /\ UNCHANGED asked /\ OnlyCalls

\* The call waits for the refresh, its own or one in flight.
CallRefreshes(c) ==
  /\ call[c] = "refused"
  /\ IF ~Refused("api")
     THEN Ask("api") /\ call' = [call EXCEPT ![c] = "waiting"] /\ UNCHANGED <<place, form, context>>
     ELSE IF nav < MaxNav THEN asked' = {} /\ Leaves
     ELSE call' = [call EXCEPT ![c] = "done"] /\ UNCHANGED <<asked, place, form, context>>
  /\ UNCHANGED <<cookies, refused, faults>>

(***************************************************************************)
(* The answer to a refresh                                                 *)
(***************************************************************************)
\* The loads that wait read the cookies again, or are done without a token.
LoadsWake(ok) ==
  /\ load' = [n \in Navs |-> IF load[n] # "wait" THEN load[n] ELSE IF ok THEN "reread" ELSE NoLoad]
  /\ LET failed == ~ok /\ \E n \in Navs : load[n] = "wait" /\ ~Cancelled(n)
     IN  ready' = (ready \/ failed) /\ isLoggedIn' = (isLoggedIn /\ ~failed)
  /\ UNCHANGED <<call, place, form>>

\* Slip: a refresh that fails is not caught, and settles no promise.
CallsWakeOnTokens(ok) ==
  /\ call' = [c \in Calls |-> IF call[c] = "waiting" /\ ok THEN "again" ELSE call[c]]
  /\ UNCHANGED <<place, form, context>>

\* The calls that wait are sent again, or the first of them leaves for the login page.
CallsWake(ok) ==
  IF ~ok /\ nav < MaxNav THEN Leaves
  ELSE /\ call' = [c \in Calls |-> IF call[c] # "waiting" THEN call[c]
                                   ELSE IF ok THEN "again" ELSE "done"]
       /\ UNCHANGED <<place, form, context>>

\* The cookies are set when the answer comes, also if they have changed since.
RefreshAnswered(r) ==
  /\ r \in asked
  /\ \E ok \in BOOLEAN :
       /\ ok => r.user \notin refused
       /\ IF ok THEN SetsTokens(r.user) ELSE UNCHANGED cookies
       /\ IF ok \/ r.user \in refused THEN UNCHANGED faults
          ELSE Fault
       /\ asked' = IF r.by = "api" /\ ~ok /\ nav < MaxNav THEN {} ELSE asked \ {r}
       /\ \/ r.by = "proxy" /\ ProxyGoesOn(ok)
          \/ r.by = "client" /\ LoadsWake(ok)
          \/ r.by = "api" /\ CallsWake(ok)
          \/ r.by = "left" /\ UNCHANGED <<place, form, context, call>>
  /\ UNCHANGED refused

Next ==
  \/ \E u \in Users : SignIn(u) \/ Register(u) \/ Refuse(u)
  \/ SignOut \/ AccessExpires \/ Navigate \/ ProxyDecides \/ ProxyAsks
  \/ FillsLogin \/ FillsSignup \/ LogsIn \/ SignsUp \/ logout
  \/ \E s \in Submission : FormAnswered(s) \/ FormRefused(s)
  \/ \E n \in Navs : LoadBegins(n) \/ LoadReads(n) \/ LoadAsks(n) \/ LoadRereads(n)
  \/ \E c \in Calls : Send(c) \/ Answered(c) \/ CallRefreshes(c)
  \/ \E r \in Request : RefreshAnswered(r)

\* Requests are answered (the proxy and the routes give up by themselves after a while) and
\* promises that are settled are continued.
Fairness ==
  /\ WF_vars(ProxyDecides \/ ProxyAsks)
  /\ \A n \in Navs : WF_vars(LoadBegins(n) \/ LoadReads(n) \/ LoadAsks(n) \/ LoadRereads(n))
  /\ \A c \in Calls : WF_vars(Answered(c) \/ CallRefreshes(c))
  /\ \A by \in By : WF_vars(\E r \in Request : r.by = by /\ RefreshAnswered(r))

Spec == Init /\ [][Next]_vars /\ Fairness

(***************************************************************************)
(* Properties                                                              *)
(***************************************************************************)
\* Whatever sign-ins, sign-outs and late answers interleave, the two token cookies never
\* belong to different users: the next refresh keeps the session of the access token.
TokensOfOneUser == access # Nobody /\ refresh # Nobody => access = refresh

\* Once the effect of AuthContext has run for the page that is shown, the context says it is ready
\* only when that page's own load has been applied, not when one of an earlier page comes in
\* late.  Before, while the effect is due, the page does see the context of the one before it.
ReadyMeansLoaded == ready => load[nav] \in {NoLoad, "due"}

\* A call that is sent ends, refused or not, and however the refresh it waits for ends; or
\* the page is left for the login page.
CallsEnd == \A c \in Calls : call[c] = "sent" ~> call[c] \in {"idle", "done"}
=============================================================================
