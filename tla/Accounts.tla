------------------------------- MODULE Accounts -------------------------------
(***************************************************************************)
(* user-service: accounts, their roles, the claims that are cached in      *)
(* Redis and embedded in tokens, and the workers that serve the requests.  *)
(*                                                                         *)
(* There is no transaction around a request: between any two statements of *)
(* one worker, another one runs.  Only registration by password is atomic. *)
(*                                                                         *)
(* Abstractions: an e-mail address, its user and its Google identity are   *)
(* one; a role grants one permission or does not; admin and superadmin are *)
(* one role; of the sessions of a user there is the newest.  A request     *)
(* names one role.  Passwords, lockouts and profile fields are left out.   *)
(***************************************************************************)
EXTENDS Naturals, FiniteSets

CONSTANTS
  Users,        \* addresses
  Seeds,        \* those with an account, a profile and the admin role from the start
  Workers,      \* requests served at once
  MaxRequests,  \* bound: requests that are begun
  MaxCrashes    \* bound: workers that die in a request

ASSUME AccountsAssumption == Seeds \subseteq Users /\ {MaxRequests, MaxCrashes} \subseteq Nat

Admin == "admin"
Trial == "free_trial"
Roles == {Admin, Trial}

VARIABLES
  rows, profiles, conns,  \* users, user_profiles, oauth_connections
  held, until,            \* user_roles: for good, and with an expires_at
  grants,                 \* roles that grant the permission
  cache,                  \* rbac:{user}, at most a minute old
  refresh, access,        \* the claims of the newest tokens of a user
  announced,              \* how often user.registered was published
  work,                   \* what each worker does
  ever,                   \* history: the roles a user has ever held for good
  requests, crashes

db == <<rows, profiles, conns>>
rbac == <<held, until, grants, ever>>
tokens == <<refresh, access>>
vars == <<db, rbac, cache, tokens, announced, work, requests, crashes>>

Claims == [roles : SUBSET Roles, granted : BOOLEAN]
NoClaims == [roles |-> {}, granted |-> TRUE]   \* no claims of anybody: nobody grants it

Idle == [pc |-> "idle", job |-> "none", user |-> "nobody", claims |-> NoClaims, role |-> Trial, drop |-> {}]

TypeOK ==
  /\ rows \subseteq Users /\ profiles \subseteq rows /\ conns \subseteq rows
  /\ held \in [Users -> SUBSET Roles] /\ until \in [Users -> SUBSET Roles]
  /\ \A u \in Users : held[u] \cap until[u] = {} /\ (held[u] # {} => u \in rows)
  /\ grants \subseteq Roles /\ ever \in [Users -> SUBSET Roles]
  /\ {cache, refresh, access} \subseteq [Users -> Claims]
  /\ announced \in [Users -> Nat]
  /\ \A w \in Workers :
       \/ work[w] = Idle
       \/ /\ work[w].pc \in {"get", "roles", "perms", "set", "have", "user", "conn", "profile",
                             "publish", "holders", "drop"}
          /\ work[w].job \in {"login", "register", "google", "assign", "grant"}
          /\ work[w].user \in Users /\ work[w].claims \in Claims
          /\ work[w].role \in Roles /\ work[w].drop \subseteq Users
  /\ requests \in 0..MaxRequests /\ crashes \in 0..MaxCrashes

NewRoles(u) == IF u \in Seeds THEN {Admin} ELSE {}

Init ==
  /\ rows = Seeds /\ profiles = Seeds /\ conns = {}
  /\ held = [u \in Users |-> NewRoles(u)] /\ until = [u \in Users |-> {}]
  /\ grants = Roles /\ ever = held
  /\ cache = [u \in Users |-> NoClaims] /\ refresh = cache /\ access = cache
  /\ announced = [u \in Users |-> 0]
  /\ work = [w \in Workers |-> Idle] /\ requests = 0 /\ crashes = 0

Goes(w, pc) == work' = [work EXCEPT ![w].pc = pc]
Ends(w) == work' = [work EXCEPT ![w] = Idle]

(***************************************************************************)
(* Requests                                                                *)
(***************************************************************************)
Begins(w, u, job, pc) ==
  /\ work[w] = Idle /\ requests < MaxRequests /\ requests' = requests + 1
  /\ work' = [work EXCEPT ![w] = [Idle EXCEPT !.pc = pc, !.job = job, !.user = u]]

\* The password is right, and the address has an account.
Login(w, u) ==
  /\ u \in rows /\ Begins(w, u, "login", "get")
  /\ UNCHANGED <<db, rbac, cache, tokens, announced, crashes>>

\* The user, the profile and the trial role, in one transaction.
Register(w, u) ==
  /\ u \notin rows /\ Begins(w, u, "register", "get")
  /\ rows' = rows \cup {u} /\ profiles' = profiles \cup {u} /\ UNCHANGED conns
  /\ held' = [held EXCEPT ![u] = @ \cup {Trial}] /\ ever' = [ever EXCEPT ![u] = @ \cup {Trial}]
  /\ UNCHANGED <<until, grants, cache, tokens, announced, crashes>>

\* The callback of Google: who has a connection signs in.
Google(w, u) ==
  /\ Begins(w, u, "google", IF u \in conns THEN "get" ELSE "user")
  /\ UNCHANGED <<db, rbac, cache, tokens, announced, crashes>>

\* A request of somebody with an access token: claims are looked up, not taken from it.
Administer(w, u) ==
  /\ u \in rows
  /\ \E job \in {"assign", "grant"} : Begins(w, u, job, "get")
  /\ UNCHANGED <<db, rbac, cache, tokens, announced, crashes>>

(***************************************************************************)
(* The rest of a Google callback: _get_or_create_oauth_user                *)
(***************************************************************************)
\* Slip: every callback takes the account for a new one.
CreatedAlways(u) == TRUE

Created(u) == u \notin rows

\* Whether the account is new is remembered until the connection is made.
GoogleUser(w) ==
  LET u == work[w].user IN
  /\ work[w].pc = "user" /\ rows' = rows \cup {u}
  /\ work' = [work EXCEPT ![w].pc = "conn", ![w].drop = IF Created(u) THEN {u} ELSE {}]
  /\ UNCHANGED <<profiles, conns, rbac, cache, tokens, announced, requests, crashes>>

\* The second connection of one identity violates the constraint: the callback fails.
GoogleConnects(w) ==
  LET u == work[w].user IN
  /\ work[w].pc = "conn"
  /\ IF u \in conns THEN Ends(w) /\ UNCHANGED conns
     ELSE /\ conns' = conns \cup {u}
          /\ IF u \in work[w].drop THEN Goes(w, "profile") ELSE Goes(w, "get")
  /\ UNCHANGED <<rows, profiles, rbac, cache, tokens, announced, requests, crashes>>

GoogleProfile(w) ==
  /\ work[w].pc = "profile" /\ profiles' = profiles \cup {work[w].user}
  /\ work' = [work EXCEPT ![w].pc = "publish", ![w].drop = {}]
  /\ UNCHANGED <<rows, conns, rbac, cache, tokens, announced, requests, crashes>>

(***************************************************************************)
(* get_user_permissions                                                    *)
(***************************************************************************)
CacheGet(w) ==
  LET u == work[w].user IN
  /\ work[w].pc = "get"
  /\ IF cache[u] = NoClaims THEN Goes(w, "roles")
     ELSE work' = [work EXCEPT ![w].pc = "have", ![w].claims = cache[u]]
  /\ UNCHANGED <<db, rbac, cache, tokens, announced, requests, crashes>>

\* Slip: a role that ends some day counts as well.
CountsAll(u) == held[u] \cup until[u]

Counts(u) == held[u]

ReadRoles(w) ==
  /\ work[w].pc = "roles"
  /\ work' = [work EXCEPT ![w].pc = "perms",
                          ![w].claims = [roles |-> Counts(work[w].user), granted |-> FALSE]]
  /\ UNCHANGED <<db, rbac, cache, tokens, announced, requests, crashes>>

\* The prefetch: another query.
ReadPermissions(w) ==
  /\ work[w].pc = "perms"
  /\ work' = [work EXCEPT ![w].pc = "set",
                          ![w].claims.granted = work[w].claims.roles \cap grants # {}]
  /\ UNCHANGED <<db, rbac, cache, tokens, announced, requests, crashes>>

CacheSet(w) ==
  /\ work[w].pc = "set" /\ Goes(w, "have")
  /\ cache' = [cache EXCEPT ![work[w].user] = work[w].claims]
  /\ UNCHANGED <<db, rbac, tokens, announced, requests, crashes>>

\* Slip: the entry is set without a timeout.
NeverExpires(u) == FALSE

Expires(u) == cache[u] # NoClaims

CacheExpires(u) ==
  /\ Expires(u) /\ cache' = [cache EXCEPT ![u] = NoClaims]
  /\ UNCHANGED <<db, rbac, tokens, announced, work, requests, crashes>>

(***************************************************************************)
(* Tokens                                                                  *)
(***************************************************************************)
\* UserRefreshToken.for_user: both tokens carry the claims.
Issues(w) ==
  /\ refresh' = [refresh EXCEPT ![work[w].user] = work[w].claims]
  /\ access' = [access EXCEPT ![work[w].user] = work[w].claims]

Issue(w) ==
  /\ work[w].pc = "have" /\ work[w].job \in {"login", "google"} /\ Issues(w) /\ Ends(w)
  /\ UNCHANGED <<db, rbac, cache, announced, requests, crashes>>

\* A registration has its tokens before the event, a Google callback after it.
Publish(w) ==
  LET u == work[w].user IN
  /\ announced' = [announced EXCEPT ![u] = @ + 1]
  /\ \/ work[w].pc = "have" /\ work[w].job = "register" /\ Issues(w) /\ Ends(w)
     \/ work[w].pc = "publish" /\ Goes(w, "get") /\ UNCHANGED tokens
  /\ UNCHANGED <<db, rbac, cache, requests, crashes>>

\* The claims of the refresh token, not those of the database; and the same refresh token.
Refresh(u) ==
  /\ refresh[u] # NoClaims /\ access' = [access EXCEPT ![u] = refresh[u]]
  /\ UNCHANGED <<db, rbac, cache, refresh, announced, work, requests, crashes>>

\* The refresh token is blacklisted; the access token is good until it expires (see WebSession).
Logout(u) ==
  /\ access[u] # NoClaims /\ refresh' = [refresh EXCEPT ![u] = NoClaims]
  /\ UNCHANGED <<db, rbac, cache, access, announced, work, requests, crashes>>

(***************************************************************************)
(* Admins                                                                  *)
(***************************************************************************)
IsAdminRole(w) == Admin \in work[w].claims.roles

Deny(w) ==
  /\ work[w].pc = "have" /\ work[w].job \in {"assign", "grant"} /\ ~IsAdminRole(w) /\ Ends(w)
  /\ UNCHANGED <<db, rbac, cache, tokens, announced, requests, crashes>>

Writes(w) ==
  /\ work[w].pc = "have" /\ IsAdminRole(w)
  /\ UNCHANGED <<db, cache, tokens, announced, requests, crashes>>

\* AdminUserRolesView: a user holds a role once, with an end or without.
AssignRole(w, u, r) ==
  /\ work[w].job = "assign" /\ u \in rows /\ Writes(w)
  /\ \/ /\ held' = [held EXCEPT ![u] = @ \cup {r}] /\ until' = [until EXCEPT ![u] = @ \ {r}]
        /\ ever' = [ever EXCEPT ![u] = @ \cup {r}]
     \/ /\ held' = [held EXCEPT ![u] = @ \ {r}]
        /\ until' \in {[until EXCEPT ![u] = @ \cup {r}], [until EXCEPT ![u] = @ \ {r}]}
        /\ UNCHANGED ever
  /\ work' = [work EXCEPT ![w].pc = "drop", ![w].drop = {u}]
  /\ UNCHANGED grants

\* RolePermissionUpdateView.
UpdatePermissions(w, r) ==
  /\ work[w].job = "grant" /\ Writes(w)
  /\ grants' \in {grants \cup {r}, grants \ {r}}
  /\ work' = [work EXCEPT ![w].pc = "holders", ![w].role = r]
  /\ UNCHANGED <<held, until, ever>>

Holders(w) ==
  /\ work[w].pc = "holders"
  /\ work' = [work EXCEPT ![w].pc = "drop",
                          ![w].drop = {u \in Users : work[w].role \in held[u] \cup until[u]}]
  /\ UNCHANGED <<db, rbac, cache, tokens, announced, requests, crashes>>

\* invalidate_user_rbac_cache, one user after the other.
Invalidate(w) ==
  /\ work[w].pc = "drop"
  /\ \/ work[w].drop = {} /\ Ends(w) /\ UNCHANGED cache
     \/ \E u \in work[w].drop :
          /\ cache' = [cache EXCEPT ![u] = NoClaims]
          /\ work' = [work EXCEPT ![w].drop = @ \ {u}]
  /\ UNCHANGED <<db, rbac, tokens, announced, requests, crashes>>

Crash(w) ==
  /\ work[w] # Idle /\ crashes < MaxCrashes /\ crashes' = crashes + 1 /\ Ends(w)
  /\ UNCHANGED <<db, rbac, cache, tokens, announced, requests>>

GoesOn(w) ==
  \/ GoogleUser(w) \/ GoogleConnects(w) \/ GoogleProfile(w)
  \/ CacheGet(w) \/ ReadRoles(w) \/ ReadPermissions(w) \/ CacheSet(w)
  \/ Issue(w) \/ Publish(w) \/ Deny(w) \/ Holders(w) \/ Invalidate(w)
  \/ \E r \in Roles : UpdatePermissions(w, r) \/ \E u \in Users : AssignRole(w, u, r)

Next ==
  \/ \E w \in Workers :
       \/ GoesOn(w) \/ Crash(w)
       \/ \E u \in Users : Login(w, u) \/ Register(w, u) \/ Google(w, u) \/ Administer(w, u)
  \/ \E u \in Users : CacheExpires(u) \/ Refresh(u) \/ Logout(u)

Spec == Init /\ [][Next]_vars

\* A request that a worker serves goes on, and Redis drops what has timed out.
FairSpec ==
  /\ Spec /\ \A w \in Workers : WF_vars(GoesOn(w))
  /\ \A u \in Users : WF_vars(CacheExpires(u))

(***************************************************************************)
(* Properties                                                              *)
(***************************************************************************)
\* However registrations and callbacks for one address interleave and die, billing is told of
\* the account once at most.
AnnouncedOnce == \A u \in Users : announced[u] <= 1

\* No role that was given with an end, and none that was never given, gets into the cache,
\* into a token or into the decision about a request.
OnlyGranted ==
  /\ \A u \in Users : cache[u].roles \cup refresh[u].roles \cup access[u].roles \subseteq ever[u]
  /\ \A w \in Workers : work[w] # Idle => work[w].claims.roles \subseteq ever[work[w].user]

\* A reader that has read the database before a change and fills the cache after it has been
\* invalidated leaves old claims there, and so does an admin's request that dies in between:
\* once the changes are over, they are gone for good all the same.
StaleCacheEnds ==
  <>[](\A u \in Users :
         cache[u] \in {NoClaims, [roles |-> held[u], granted |-> held[u] \cap grants # {}]})
=============================================================================
