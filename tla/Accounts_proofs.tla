---------------------------- MODULE Accounts_proofs ----------------------------
(***************************************************************************)
(* Proofs about Accounts, for every set of users, of seeded ones and of    *)
(* workers, and every number of requests and of workers that die.          *)
(*                                                                         *)
(* The first invariant says that the claims that are on their way, in the  *)
(* hands of a worker, name nothing that their user has not held (Claimed), *)
(* and that the database does not either (Recorded).  The second one says  *)
(* which worker will announce an account: there is one at most, it has     *)
(* made the account, and it has not announced it yet (Announcers).  The    *)
(* types need that the tables fit together (Tables), and that a worker     *)
(* that is busy serves somebody (Busy).                                    *)
(***************************************************************************)
EXTENDS Accounts, TLAPS

Places == {"idle", "get", "roles", "perms", "set", "have", "user", "conn", "profile", "publish", "holders",
           "drop"}
Kinds == {"none", "login", "register", "google", "assign", "grant"}
Job == [pc : Places, job : Kinds, user : Users \cup {"nobody"}, claims : Claims, role : Roles,
        drop : SUBSET Users]

Typed ==
  /\ work \in [Workers -> Job] /\ {held, until, ever} \subseteq [Users -> SUBSET Roles]
  /\ {cache, refresh, access} \subseteq [Users -> Claims]
  /\ \A w \in Workers : work[w].pc # "idle" => work[w].user \in Users

Recorded == \A u \in Users : held[u] \subseteq ever[u]

Tokens == \A u \in Users : cache[u].roles \cup refresh[u].roles \cup access[u].roles \subseteq ever[u]

Claimed == \A w \in Workers : \A r \in work[w].claims.roles :
             work[w].user \in Users /\ r \in ever[work[w].user]

AInv == Typed /\ Recorded /\ Tokens /\ Claimed

-----------------------------------------------------------------------------
LEMMA IdleIsJob == Idle \in Job /\ Idle.pc = "idle" /\ Idle.claims.roles = {}
BY DEF Idle, Job, NoClaims, Claims, Roles, Places, Kinds

LEMMA AInvInit == Init => AInv
<1> SUFFICES ASSUME Init PROVE AInv
  OBVIOUS
<1>1. \A u \in Users : NewRoles(u) \subseteq Roles
  BY DEF NewRoles, Roles
<1>2. NoClaims \in Claims /\ NoClaims.roles = {}
  BY DEF NoClaims, Claims
<1>3. Typed
  BY <1>1, <1>2, IdleIsJob DEF Init, Typed
<1>4. Recorded /\ Tokens /\ Claimed
  BY <1>2, IdleIsJob DEF Init, Recorded, Tokens, Claimed
<1> QED
  BY <1>3, <1>4 DEF AInv

\* A step of one worker that changes neither roles nor tokens.
LEMMA WorkStep ==
  ASSUME AInv, NEW w \in Workers, NEW x \in Job, work' = [work EXCEPT ![w] = x],
         UNCHANGED <<rbac, cache, tokens>>,
         x.pc # "idle" => x.user \in Users,
         \A r \in x.claims.roles : x.user \in Users /\ r \in ever[x.user]
  PROVE  AInv'
<1>1. work' \in [Workers -> Job] /\ \A v \in Workers : work'[v] = IF v = w THEN x ELSE work[v]
  BY DEF AInv, Typed
<1> QED
  BY <1>1 DEF AInv, Typed, Recorded, Tokens, Claimed, rbac, tokens

\* What a worker has in its hands.
LEMMA InWork ==
  ASSUME AInv, NEW w \in Workers
  PROVE  /\ work \in [Workers -> Job] /\ work[w] \in Job
         /\ work[w].pc # "idle" => work[w].user \in Users
         /\ \A r \in work[w].claims.roles : work[w].user \in Users /\ r \in ever[work[w].user]
BY DEF AInv, Typed, Claimed

-----------------------------------------------------------------------------
LEMMA BeginSteps ==
  ASSUME AInv, NEW w \in Workers, NEW u \in Users, Login(w, u) \/ Google(w, u) \/ Administer(w, u)
  PROVE  AInv'
<1>1. PICK job \in Kinds, pc \in Places : Begins(w, u, job, pc)
  BY DEF Login, Google, Administer, Kinds, Places
<1> DEFINE x == [Idle EXCEPT !.pc = pc, !.job = job, !.user = u]
<1>2. work' = [work EXCEPT ![w] = x]
  BY <1>1 DEF Begins
<1>3. x \in Job /\ x.user = u /\ x.claims.roles = {}
  BY IdleIsJob DEF Job
<1>4. UNCHANGED <<rbac, cache, tokens>>
  BY DEF Login, Google, Administer
<1> HIDE DEF x
<1> QED
  BY <1>2, <1>3, <1>4, WorkStep

\* Roles that are given are recorded; nobody's claims grow.
LEMMA RegisterStep ==
  ASSUME AInv, NEW w \in Workers, NEW u \in Users, Register(w, u)
  PROVE  AInv'
<1> DEFINE x == [Idle EXCEPT !.pc = "get", !.job = "register", !.user = u]
<1>1. work' = [work EXCEPT ![w] = x]
  BY DEF Register, Begins
<1>2. x \in Job /\ x.user = u /\ x.claims.roles = {}
  BY IdleIsJob DEF Job, Places, Kinds
<1> HIDE DEF x
<1>3. work' \in [Workers -> Job] /\ \A v \in Workers : work'[v] = IF v = w THEN x ELSE work[v]
  BY <1>1, <1>2 DEF AInv, Typed
<1>4. {held', ever'} \subseteq [Users -> SUBSET Roles] /\ UNCHANGED <<until, cache, refresh, access>>
  BY DEF AInv, Typed, Register, Roles, tokens
<1>5. \A v \in Users : ever[v] \subseteq ever'[v] /\ held'[v] \subseteq ever'[v]
  BY DEF AInv, Typed, Recorded, Register
<1>6. Typed'
  BY <1>2, <1>3, <1>4 DEF AInv, Typed
<1>7. Recorded' /\ Tokens'
  BY <1>4, <1>5 DEF AInv, Recorded, Tokens
<1>8. Claimed'
  BY <1>2, <1>3, <1>5 DEF AInv, Claimed
<1> QED
  BY <1>6, <1>7, <1>8 DEF AInv

\* A worker that goes on with what it has, or is free again.
LEMMA MoveStep ==
  ASSUME AInv, NEW w \in Workers, UNCHANGED <<rbac, cache, tokens>>,
         \/ Ends(w)
         \/ work[w].pc # "idle" /\ \E pc \in Places : Goes(w, pc)
         \/ work[w].pc # "idle" /\ \E pc \in Places, d \in SUBSET Users :
              work' = [work EXCEPT ![w].pc = pc, ![w].drop = d]
  PROVE  AInv'
<1>1. CASE Ends(w)
  BY <1>1, IdleIsJob, WorkStep DEF Ends
<1>2. CASE work[w].pc # "idle" /\ \E pc \in Places : Goes(w, pc)
  <2>1. PICK pc \in Places : Goes(w, pc)
    BY <1>2
  <2> DEFINE x == [work[w] EXCEPT !.pc = pc]
  <2>2. work' = [work EXCEPT ![w] = x]
    BY <2>1, InWork DEF Goes
  <2>3. x \in Job /\ x.user = work[w].user /\ x.claims = work[w].claims
    BY InWork DEF Job
  <2> HIDE DEF x
  <2> QED
    BY <1>2, <2>2, <2>3, InWork, WorkStep
<1>3. CASE work[w].pc # "idle" /\ \E pc \in Places, d \in SUBSET Users :
              work' = [work EXCEPT ![w].pc = pc, ![w].drop = d]
  <2>1. PICK pc \in Places, d \in SUBSET Users : work' = [work EXCEPT ![w].pc = pc, ![w].drop = d]
    BY <1>3
  <2> DEFINE x == [work[w] EXCEPT !.pc = pc, !.drop = d]
  <2>2. work' = [work EXCEPT ![w] = x]
    BY <2>1, InWork
  <2>3. x \in Job /\ x.user = work[w].user /\ x.claims = work[w].claims
    BY InWork DEF Job
  <2> HIDE DEF x
  <2> QED
    BY <1>3, <2>2, <2>3, InWork, WorkStep
<1> QED
  BY <1>1, <1>2, <1>3

\* A Google callback, a denial, the holders of a role, and a worker that dies.
LEMMA OtherSteps ==
  ASSUME AInv, NEW w \in Workers,
         \/ GoogleUser(w) \/ GoogleConnects(w) \/ GoogleProfile(w) \/ Deny(w) \/ Holders(w) \/ Crash(w)
  PROVE  AInv'
<1>1. UNCHANGED <<rbac, cache, tokens>>
  BY DEF GoogleUser, GoogleConnects, GoogleProfile, Deny, Holders, Crash
<1>2. \/ Ends(w)
      \/ work[w].pc # "idle" /\ \E pc \in Places : Goes(w, pc)
      \/ work[w].pc # "idle" /\ \E pc \in Places, d \in SUBSET Users :
           work' = [work EXCEPT ![w].pc = pc, ![w].drop = d]
  <2>1. CASE GoogleUser(w)
    BY <2>1, InWork DEF GoogleUser, Places
  <2>2. CASE GoogleConnects(w)
    BY <2>2 DEF GoogleConnects, Places
  <2>3. CASE GoogleProfile(w)
    BY <2>3 DEF GoogleProfile, Places
  <2>4. CASE Holders(w)
    BY <2>4 DEF Holders, Places
  <2> QED
    BY <2>1, <2>2, <2>3, <2>4 DEF Deny, Crash
<1> QED
  BY <1>1, <1>2, MoveStep

-----------------------------------------------------------------------------
(* The claims: from the database, or from the cache, to the cache and the tokens.       *)

LEMMA ReadSteps ==
  ASSUME AInv, NEW w \in Workers, CacheGet(w) \/ ReadRoles(w) \/ ReadPermissions(w)
  PROVE  AInv'
<1>1. UNCHANGED <<rbac, cache, tokens>>
  BY DEF CacheGet, ReadRoles, ReadPermissions
<1>2. CASE CacheGet(w) /\ cache[work[w].user] = NoClaims
  BY <1>1, <1>2, MoveStep DEF CacheGet, Places
<1>3. ASSUME NEW pc \in Places, NEW c \in Claims, work[w].pc # "idle", c.roles \subseteq ever[work[w].user],
             work' = [work EXCEPT ![w] = [work[w] EXCEPT !.pc = pc, !.claims = c]]
      PROVE  AInv'
  <2> DEFINE x == [work[w] EXCEPT !.pc = pc, !.claims = c]
  <2>1. x \in Job /\ x.user = work[w].user /\ x.claims = c
    BY InWork DEF Job
  <2>2. work' = [work EXCEPT ![w] = x]
    BY <1>3
  <2> HIDE DEF x
  <2> QED
    BY <1>1, <1>3, <2>1, <2>2, InWork, WorkStep
<1>4. CASE CacheGet(w) /\ cache[work[w].user] # NoClaims
  <2>1. work[w].pc # "idle" /\ work[w].user \in Users
    BY <1>4, InWork DEF CacheGet
  <2>2. cache[work[w].user] \in Claims /\ cache[work[w].user].roles \subseteq ever[work[w].user]
    BY <2>1 DEF AInv, Typed, Tokens
  <2>3. work' = [work EXCEPT ![w] = [work[w] EXCEPT !.pc = "have", !.claims = cache[work[w].user]]]
    BY <1>4, InWork DEF CacheGet
  <2> QED
    BY <1>3, <2>1, <2>2, <2>3 DEF Places
<1>5. CASE ReadRoles(w)
  <2> DEFINE c == [roles |-> Counts(work[w].user), granted |-> FALSE]
  <2>1. work[w].pc # "idle" /\ work[w].user \in Users
    BY <1>5, InWork DEF ReadRoles
  <2>2. c \in Claims /\ c.roles \subseteq ever[work[w].user]
    BY <2>1 DEF AInv, Typed, Recorded, Counts, Claims
  <2>3. work' = [work EXCEPT ![w] = [work[w] EXCEPT !.pc = "perms", !.claims = c]]
    BY <1>5, InWork DEF ReadRoles
  <2> QED
    BY <1>3, <2>1, <2>2, <2>3 DEF Places
<1>6. CASE ReadPermissions(w)
  <2> DEFINE g == work[w].claims.roles \cap grants # {}
  <2> DEFINE c == [work[w].claims EXCEPT !.granted = g]
  <2>1. work[w].pc # "idle" /\ work[w].user \in Users
    BY <1>6, InWork DEF ReadPermissions
  <2>2. c \in Claims /\ c.roles \subseteq ever[work[w].user]
    <3>1. work[w].claims \in Claims /\ work[w].claims.roles \subseteq ever[work[w].user]
      BY InWork DEF Job
    <3>2. g \in BOOLEAN
      OBVIOUS
    <3> HIDE DEF g
    <3> QED
      BY <3>1, <3>2 DEF Claims
  <2>3. work' = [work EXCEPT ![w] = [work[w] EXCEPT !.pc = "set", !.claims = c]]
    BY <1>6, InWork DEF ReadPermissions, Job
  <2> QED
    BY <1>3, <2>1, <2>2, <2>3 DEF Places
<1> QED
  BY <1>2, <1>4, <1>5, <1>6

\* What is cached, forgotten, issued and taken over is what somebody has in hand.
LEMMA TokenSteps ==
  ASSUME AInv,
         {cache', refresh', access'} \subseteq [Users -> Claims],
         UNCHANGED rbac,
         \A u \in Users : \A r \in cache'[u].roles \cup refresh'[u].roles \cup access'[u].roles : r \in ever[u],
         UNCHANGED work \/ \E w \in Workers : Ends(w) \/ (work[w].pc # "idle" /\ \E pc \in Places : Goes(w, pc))
                        \/ (work[w].pc # "idle" /\ \E d \in SUBSET Users : work' = [work EXCEPT ![w].drop = d])
  PROVE  AInv'
<1>1. UNCHANGED <<held, until, ever>>
  BY DEF rbac
<1>2. Tokens'
  BY <1>1 DEF Tokens
<1>3. Recorded'
  BY <1>1 DEF AInv, Recorded
<1>4. CASE UNCHANGED work
  BY <1>1, <1>2, <1>3, <1>4 DEF AInv, Typed, Claimed
<1>5. ASSUME NEW w \in Workers, NEW x \in Job, work' = [work EXCEPT ![w] = x],
             x.pc # "idle" => x.user \in Users,
             \A r \in x.claims.roles : x.user \in Users /\ r \in ever[x.user]
      PROVE  AInv'
  <2>1. work' \in [Workers -> Job] /\ \A v \in Workers : work'[v] = IF v = w THEN x ELSE work[v]
    BY <1>5 DEF AInv, Typed
  <2> QED
    BY <1>1, <1>2, <1>3, <1>5, <2>1 DEF AInv, Typed, Claimed
<1>6. ASSUME NEW w \in Workers, Ends(w) PROVE AInv'
  BY <1>5, <1>6, IdleIsJob DEF Ends
<1>7. ASSUME NEW w \in Workers, work[w].pc # "idle", NEW pc \in Places, Goes(w, pc) PROVE AInv'
  <2> DEFINE x == [work[w] EXCEPT !.pc = pc]
  <2>1. x \in Job /\ x.user = work[w].user /\ x.claims = work[w].claims
    BY InWork DEF Job
  <2>2. work' = [work EXCEPT ![w] = x]
    BY <1>7, InWork DEF Goes
  <2> HIDE DEF x
  <2> QED
    BY <1>5, <1>7, <2>1, <2>2, InWork
<1>8. ASSUME NEW w \in Workers, work[w].pc # "idle", NEW d \in SUBSET Users,
             work' = [work EXCEPT ![w].drop = d]
      PROVE  AInv'
  <2> DEFINE x == [work[w] EXCEPT !.drop = d]
  <2>1. x \in Job /\ x.user = work[w].user /\ x.claims = work[w].claims /\ x.pc = work[w].pc
    BY InWork DEF Job
  <2>2. work' = [work EXCEPT ![w] = x]
    BY <1>8, InWork
  <2> HIDE DEF x
  <2> QED
    BY <1>5, <1>8, <2>1, <2>2, InWork
<1> QED
  BY <1>4, <1>6, <1>7, <1>8

LEMMA ClaimSteps ==
  ASSUME AInv,
         \/ \E w \in Workers : CacheSet(w) \/ Issue(w) \/ Publish(w) \/ Invalidate(w)
         \/ \E u \in Users : CacheExpires(u) \/ Refresh(u) \/ Logout(u)
  PROVE  AInv'
<1>1. NoClaims \in Claims /\ NoClaims.roles = {}
  BY DEF NoClaims, Claims
<1>2. /\ {cache, refresh, access} \subseteq [Users -> Claims]
      /\ \A u \in Users : cache[u].roles \cup refresh[u].roles \cup access[u].roles \subseteq ever[u]
  BY DEF AInv, Typed, Tokens
<1>3. ASSUME NEW w \in Workers, CacheSet(w) PROVE AInv'
  <2>1. work[w].user \in Users /\ work[w].claims \in Claims /\ work[w].claims.roles \subseteq ever[work[w].user]
    BY <1>3, InWork DEF CacheSet, Job
  <2> QED
    BY <1>2, <1>3, <2>1, TokenSteps DEF CacheSet, tokens, Places
<1>4. ASSUME NEW w \in Workers, Issue(w) \/ Publish(w) PROVE AInv'
  <2>1. work[w].user \in Users /\ work[w].claims \in Claims /\ work[w].claims.roles \subseteq ever[work[w].user]
    BY <1>4, InWork DEF Issue, Publish, Job
  <2>2. /\ UNCHANGED <<rbac, cache>> /\ (Issues(w) \/ UNCHANGED tokens)
        /\ Ends(w) \/ (work[w].pc # "idle" /\ Goes(w, "get"))
    BY <1>4 DEF Issue, Publish
  <2>3. "get" \in Places
    BY DEF Places
  <2>4. /\ {cache', refresh', access'} \subseteq [Users -> Claims]
        /\ \A u \in Users : cache'[u].roles \cup refresh'[u].roles \cup access'[u].roles \subseteq ever[u]
    BY <1>2, <2>1, <2>2 DEF Issues, tokens
  <2> QED
    BY <2>2, <2>3, <2>4, TokenSteps
<1>5. ASSUME NEW w \in Workers, Invalidate(w) PROVE AInv'
  <2>1. work[w].drop \subseteq Users /\ UNCHANGED <<rbac, refresh, access>>
    BY <1>5, InWork DEF Invalidate, Job, tokens
  <2>2. CASE Ends(w) /\ UNCHANGED cache
    BY <1>2, <2>1, <2>2, TokenSteps
  <2>3. ASSUME NEW u \in work[w].drop, cache' = [cache EXCEPT ![u] = NoClaims], work[w].pc # "idle",
               work' = [work EXCEPT ![w].drop = @ \ {u}]
        PROVE  AInv'
    <3>1. work' = [work EXCEPT ![w].drop = work[w].drop \ {u}] /\ work[w].drop \ {u} \in SUBSET Users
      BY <2>1, <2>3, InWork
    <3>2. /\ {cache', refresh', access'} \subseteq [Users -> Claims]
          /\ \A v \in Users : cache'[v].roles \cup refresh'[v].roles \cup access'[v].roles \subseteq ever[v]
      BY <1>1, <1>2, <2>1, <2>3
    <3> QED
      BY <2>1, <2>3, <3>1, <3>2, TokenSteps
  <2> QED
    BY <1>5, <2>2, <2>3 DEF Invalidate
<1>6. ASSUME NEW u \in Users, CacheExpires(u) \/ Refresh(u) \/ Logout(u) PROVE AInv'
  BY <1>1, <1>2, <1>6, TokenSteps DEF CacheExpires, Refresh, Logout, tokens
<1> QED
  BY <1>3, <1>4, <1>5, <1>6

\* An admin's change: whatever is given for good is recorded.
LEMMA AdminSteps ==
  ASSUME AInv, NEW w \in Workers, NEW r \in Roles,
         UpdatePermissions(w, r) \/ \E u \in Users : AssignRole(w, u, r)
  PROVE  AInv'
<1>1. work[w].pc # "idle" /\ UNCHANGED <<cache, refresh, access>>
  BY DEF UpdatePermissions, AssignRole, Writes, tokens
<1>2. PICK x \in Job : /\ work' = [work EXCEPT ![w] = x] /\ x.user = work[w].user
                       /\ x.claims = work[w].claims
  <2>1. CASE UpdatePermissions(w, r)
    <3> DEFINE x == [work[w] EXCEPT !.pc = "holders", !.role = r]
    <3>1. x \in Job /\ x.user = work[w].user /\ x.claims = work[w].claims
      BY InWork DEF Job, Places
    <3>2. work' = [work EXCEPT ![w] = x]
      BY <2>1, InWork DEF UpdatePermissions
    <3> QED
      BY <3>1, <3>2
  <2>2. ASSUME NEW u \in Users, AssignRole(w, u, r)
        PROVE  \E x \in Job : /\ work' = [work EXCEPT ![w] = x] /\ x.user = work[w].user
                              /\ x.claims = work[w].claims
    <3> DEFINE x == [work[w] EXCEPT !.pc = "drop", !.drop = {u}]
    <3>1. x \in Job /\ x.user = work[w].user /\ x.claims = work[w].claims
      BY InWork DEF Job, Places
    <3>2. work' = [work EXCEPT ![w] = x]
      BY <2>2, InWork DEF AssignRole
    <3> QED
      BY <3>1, <3>2
  <2> QED
    BY <2>1, <2>2
<1>3. work' \in [Workers -> Job] /\ \A v \in Workers : work'[v] = IF v = w THEN x ELSE work[v]
  BY <1>2, InWork
<1>4. /\ {held', until', ever'} \subseteq [Users -> SUBSET Roles]
      /\ \A u \in Users : ever[u] \subseteq ever'[u] /\ held'[u] \subseteq ever'[u]
  <2>1. /\ {held, until, ever} \subseteq [Users -> SUBSET Roles]
        /\ \A u \in Users : held[u] \subseteq ever[u]
    BY DEF AInv, Typed, Recorded
  <2>2. CASE UpdatePermissions(w, r)
    BY <2>1, <2>2 DEF UpdatePermissions
  <2>3. ASSUME NEW u \in Users, AssignRole(w, u, r)
        PROVE  /\ {held', until', ever'} \subseteq [Users -> SUBSET Roles]
               /\ \A v \in Users : ever[v] \subseteq ever'[v] /\ held'[v] \subseteq ever'[v]
    BY <2>1, <2>3 DEF AssignRole
  <2> QED
    BY <2>2, <2>3
<1>5. Typed'
  BY <1>1, <1>2, <1>3, <1>4, InWork DEF AInv, Typed
<1>6. Recorded' /\ Tokens'
  BY <1>1, <1>4 DEF AInv, Recorded, Tokens
<1>7. Claimed'
  BY <1>2, <1>3, <1>4, InWork DEF AInv, Claimed
<1> QED
  BY <1>5, <1>6, <1>7 DEF AInv

-----------------------------------------------------------------------------
LEMMA AInvStep == AInv /\ [Next]_vars => AInv'
<1> SUFFICES ASSUME AInv, [Next]_vars PROVE AInv'
  OBVIOUS
<1>1. CASE Next
  BY <1>1, BeginSteps, RegisterStep, OtherSteps, ReadSteps, ClaimSteps, AdminSteps DEF Next, GoesOn
<1>2. CASE UNCHANGED vars
  BY <1>2 DEF vars, rbac, tokens, AInv, Typed, Recorded, Tokens, Claimed
<1> QED
  BY <1>1, <1>2

\* get_user_permissions, UserRefreshToken.for_user and the refresh view: however requests
\* interleave and die, no claim names a role that its user has never held for good.
THEOREM ClaimsAreGranted == Spec => []OnlyGranted
<1>1. AInv => OnlyGranted
  BY DEF AInv, Tokens, Claimed, OnlyGranted
<1> QED
  BY <1>1, AInvInit, AInvStep, PTL DEF Spec
-----------------------------------------------------------------------------
(* Who tells billing of an account.                                                     *)

\* A worker that will announce the account of u, unless it dies.
WillAnnounce(w, u) ==
  /\ work[w].user = u
  /\ \/ work[w].job = "register" /\ work[w].pc \in {"get", "roles", "perms", "set", "have"}
     \/ work[w].pc = "conn" /\ u \in work[w].drop
     \/ work[w].pc \in {"profile", "publish"}

OfGoogle == \A w \in Workers : work[w].pc \in {"user", "conn", "profile", "publish"} => work[w].job = "google"

\* Before there is an account nobody announces it; of one that is there, one worker at most does,
\* and only before it has been announced.
Announcers ==
  /\ announced \in [Users -> Nat]
  /\ \A u \in Users : announced[u] > 0 => u \in rows
  /\ \A w \in Workers, u \in Users : WillAnnounce(w, u) =>
       /\ u \in rows /\ announced[u] = 0
       /\ \A v \in Workers : WillAnnounce(v, u) => v = w

NInv == AInv /\ OfGoogle /\ Announcers /\ AnnouncedOnce

LEMMA NInvInit == Init => NInv
<1> SUFFICES ASSUME Init PROVE NInv
  OBVIOUS
<1>1. \A w \in Workers : work[w] = Idle
  BY DEF Init
<1>2. OfGoogle /\ \A w \in Workers, u \in Users : ~WillAnnounce(w, u)
  BY <1>1 DEF OfGoogle, WillAnnounce, Idle
<1>3. announced = [u \in Users |-> 0]
  BY DEF Init
<1> QED
  BY <1>2, <1>3, AInvInit DEF NInv, Announcers, AnnouncedOnce

\* A step after which nobody announces who did not before.
LEMMA NobodyNew ==
  ASSUME NInv, AInv', OfGoogle', rows \subseteq rows', UNCHANGED announced,
         \A v \in Workers, u \in Users : WillAnnounce(v, u)' => WillAnnounce(v, u)
  PROVE  NInv'
BY DEF NInv, Announcers, AnnouncedOnce

\* One worker changes what it does, and the others do not.
LEMMA OneWorks ==
  ASSUME NInv, AInv', rows \subseteq rows', UNCHANGED announced,
         NEW w \in Workers, NEW x \in Job, work' = [work EXCEPT ![w] = x],
         x.pc \in {"user", "conn", "profile", "publish"} => x.job = "google",
         \A u \in Users : WillAnnounce(w, u)' => WillAnnounce(w, u)
  PROVE  NInv'
<1>1. work' \in [Workers -> Job] /\ \A v \in Workers : work'[v] = IF v = w THEN x ELSE work[v]
  BY DEF NInv, AInv, Typed
<1>2. OfGoogle'
  BY <1>1 DEF NInv, OfGoogle
<1>3. \A v \in Workers, u \in Users : WillAnnounce(v, u)' => WillAnnounce(v, u)
  BY <1>1 DEF WillAnnounce
<1> QED
  BY <1>2, <1>3, NobodyNew

\* The user that registers had no account: nobody else announces it.
LEMMA RegisterAnnounces ==
  ASSUME NInv, AInv', NEW w \in Workers, NEW u \in Users, Register(w, u)
  PROVE  NInv'
<1> DEFINE x == [Idle EXCEPT !.pc = "get", !.job = "register", !.user = u]
<1>1. work' = [work EXCEPT ![w] = x] /\ UNCHANGED announced /\ rows' = rows \cup {u} /\ u \notin rows
  BY DEF Register, Begins
<1>2. x.pc = "get" /\ x.user = u
  BY DEF Idle
<1> HIDE DEF x
<1>3. \A v \in Workers : work'[v] = IF v = w THEN x ELSE work[v]
  BY <1>1 DEF NInv, AInv, Typed
<1>4. OfGoogle'
  BY <1>2, <1>3 DEF NInv, OfGoogle
<1>5. \A v \in Workers, t \in Users : WillAnnounce(v, t)' => WillAnnounce(v, t) \/ (v = w /\ t = u)
  BY <1>2, <1>3 DEF WillAnnounce
<1>6. Announcers'
  BY <1>1, <1>5 DEF NInv, Announcers
<1> QED
  BY <1>1, <1>4, <1>6 DEF NInv, AnnouncedOnce

\* A callback announces the account that it finds missing, and then makes.
LEMMA GoogleUserAnnounces ==
  ASSUME NInv, AInv', NEW w \in Workers, GoogleUser(w)
  PROVE  NInv'
<1> DEFINE u == work[w].user
<1> DEFINE d == IF Created(u) THEN {u} ELSE {}
<1> DEFINE x == [work[w] EXCEPT !.pc = "conn", !.drop = d]
<1>1. AInv
  BY DEF NInv
<1>2. u \in Users /\ work \in [Workers -> Job] /\ work[w] \in Job /\ work[w].job = "google"
  BY <1>1, InWork DEF GoogleUser, NInv, OfGoogle
<1>3. work' = [work EXCEPT ![w] = x] /\ UNCHANGED announced /\ rows' = rows \cup {u}
  BY <1>2 DEF GoogleUser
<1>4. x.pc = "conn" /\ x.user = u /\ x.drop = d /\ x.job = "google"
  BY <1>2 DEF Job
<1> HIDE DEF x
<1>5. \A v \in Workers : work'[v] = IF v = w THEN x ELSE work[v]
  BY <1>2, <1>3
<1>6. OfGoogle'
  BY <1>4, <1>5 DEF NInv, OfGoogle
<1>7. \A v \in Workers, t \in Users : WillAnnounce(v, t)' => WillAnnounce(v, t) \/ (v = w /\ t = u /\ u \notin rows)
  BY <1>4, <1>5 DEF WillAnnounce, Created
<1> HIDE DEF u
<1>8. Announcers'
  BY <1>2, <1>3, <1>7 DEF NInv, Announcers
<1> QED
  BY <1>3, <1>6, <1>8 DEF NInv, AnnouncedOnce

\* The one that announces has done so.
LEMMA PublishAnnounces ==
  ASSUME NInv, AInv', NEW w \in Workers, Publish(w)
  PROVE  NInv'
<1>1. AInv
  BY DEF NInv
<1>2. PICK u \in Users : u = work[w].user /\ WillAnnounce(w, u)
  BY <1>1, InWork DEF Publish, WillAnnounce
<1>3. announced' = [announced EXCEPT ![u] = announced[u] + 1] /\ UNCHANGED rows
  BY <1>2 DEF Publish, db
<1>4. PICK x \in Job : /\ work' = [work EXCEPT ![w] = x]
                       /\ x = Idle \/ (work[w].pc = "publish" /\ x.pc = "get" /\ x.job = work[w].job)
  <2>1. CASE Ends(w)
    BY <2>1, IdleIsJob DEF Ends
  <2>2. CASE work[w].pc = "publish" /\ Goes(w, "get")
    <3> DEFINE y == [work[w] EXCEPT !.pc = "get"]
    <3>1. y \in Job /\ y.pc = "get" /\ y.job = work[w].job
      BY <1>1, InWork DEF Job, Places
    <3>2. work' = [work EXCEPT ![w] = y]
      BY <1>1, <2>2, InWork DEF Goes
    <3> QED
      BY <2>2, <3>1, <3>2
  <2> QED
    BY <2>1, <2>2 DEF Publish
<1>5. \A v \in Workers : work'[v] = IF v = w THEN x ELSE work[v]
  BY <1>1, <1>4, InWork
<1>6. OfGoogle'
  BY <1>4, <1>5 DEF NInv, OfGoogle, Idle
<1>7. \A t \in Users : ~WillAnnounce(w, t)'
  BY <1>4, <1>5 DEF WillAnnounce, Idle, NInv, OfGoogle
<1>8. \A v \in Workers, t \in Users : WillAnnounce(v, t)' => WillAnnounce(v, t) /\ v # w
  BY <1>5, <1>7 DEF WillAnnounce
<1>9. ASSUME NEW v \in Workers, WillAnnounce(v, u)' PROVE FALSE
  <2>1. WillAnnounce(v, u) /\ v # w
    BY <1>2, <1>8, <1>9
  <2>2. \A z \in Workers : WillAnnounce(z, u) => z = w
    BY <1>2 DEF NInv, Announcers
  <2> QED
    BY <2>1, <2>2
<1>10. announced[u] = 0 /\ announced \in [Users -> Nat] /\ u \in rows
  BY <1>2 DEF NInv, Announcers
<1>11. announced' \in [Users -> Nat] /\ \A t \in Users : announced'[t] = IF t = u THEN 1 ELSE announced[t]
  BY <1>2, <1>3, <1>10
<1>12. Announcers'
  BY <1>2, <1>3, <1>8, <1>9, <1>10, <1>11 DEF NInv, Announcers
<1> QED
  BY <1>6, <1>11, <1>12 DEF NInv, AnnouncedOnce

\* A request that begins and is not a registration announces nothing by itself.
LEMMA BeginAnnounces ==
  ASSUME NInv, AInv', NEW w \in Workers, NEW u \in Users, Login(w, u) \/ Google(w, u) \/ Administer(w, u)
  PROVE  NInv'
<1>1. PICK job \in {"login", "google", "assign", "grant"}, pc \in {"get", "user"} :
        Begins(w, u, job, pc) /\ (pc = "user" => job = "google")
  BY DEF Login, Google, Administer
<1> DEFINE x == [Idle EXCEPT !.pc = pc, !.job = job, !.user = u]
<1>2. work' = [work EXCEPT ![w] = x]
  BY <1>1 DEF Begins
<1>3. x \in Job /\ x.pc = pc /\ x.job = job
  BY IdleIsJob DEF Job, Idle, Places, Kinds
<1>4. rows' = rows /\ UNCHANGED announced
  BY DEF Login, Google, Administer, db
<1> HIDE DEF x
<1>5. work'[w] = x
  BY <1>2, <1>3 DEF NInv, AInv, Typed
<1>6. \A t \in Users : ~WillAnnounce(w, t)'
  BY <1>1, <1>3, <1>5 DEF WillAnnounce
<1> QED
  BY <1>1, <1>2, <1>3, <1>4, <1>6, OneWorks

\* A request that ends, or one that goes on towards its announcement or away from it.
LEMMA GoesOnAnnounces ==
  ASSUME NInv, AInv', NEW w \in Workers, rows' = rows, UNCHANGED announced, NEW x \in Job,
         work' = [work EXCEPT ![w] = x],
         \/ x = Idle
         \/ /\ x.user = work[w].user /\ x.job = work[w].job
            /\ \/ /\ x.pc \in {"roles", "perms", "set", "have"}
                  /\ work[w].pc \in {"get", "roles", "perms", "set"}
               \/ x.pc \in {"holders", "drop"}
               \/ x.pc = "get" /\ work[w].job = "google"
               \/ /\ x.pc \in {"profile", "publish"} /\ work[w].job = "google"
                  /\ \/ work[w].pc = "profile"
                     \/ work[w].pc = "conn" /\ work[w].user \in work[w].drop
  PROVE  NInv'
<1>1. work'[w] = x
  BY DEF NInv, AInv, Typed
<1>2. x.pc \in {"user", "conn", "profile", "publish"} => x.job = "google"
  BY DEF Idle
<1>3. \A u \in Users : WillAnnounce(w, u)' => WillAnnounce(w, u)
  BY <1>1 DEF WillAnnounce, Idle
<1> QED
  BY <1>2, <1>3, OneWorks

LEMMA WorkAnnounces ==
  ASSUME NInv, AInv', NEW w \in Workers,
         \/ GoogleConnects(w) \/ GoogleProfile(w) \/ CacheGet(w) \/ ReadRoles(w) \/ ReadPermissions(w)
         \/ CacheSet(w) \/ Issue(w) \/ Deny(w) \/ Holders(w) \/ Invalidate(w) \/ Crash(w)
         \/ \E r \in Roles : UpdatePermissions(w, r) \/ \E u \in Users : AssignRole(w, u, r)
  PROVE  NInv'
<1> DEFINE x == work'[w]
<1>1. AInv
  BY DEF NInv
<1>2. work \in [Workers -> Job] /\ work' \in [Workers -> Job] /\ work[w] \in Job /\ x \in Job
  BY <1>1 DEF AInv, Typed
<1>3. rows' = rows /\ UNCHANGED announced
  BY DEF GoogleConnects, GoogleProfile, CacheGet, ReadRoles, ReadPermissions, CacheSet, Issue, Deny, Holders,
         Invalidate, Crash, UpdatePermissions, AssignRole, Writes, db
<1>4. work[w].pc \in {"user", "conn", "profile", "publish"} => work[w].job = "google"
  BY DEF NInv, OfGoogle
<1>5. CASE Ends(w)
  <2>1. work' = [work EXCEPT ![w] = Idle] /\ Idle \in Job
    BY <1>5, IdleIsJob DEF Ends
  <2> QED
    BY <1>3, <2>1, GoesOnAnnounces
<1>6. ASSUME ~Ends(w), GoogleConnects(w) \/ GoogleProfile(w) PROVE NInv'
  BY <1>2, <1>3, <1>4, <1>6, GoesOnAnnounces DEF GoogleConnects, GoogleProfile, Goes, Job
<1>7. ASSUME CacheGet(w) \/ ReadRoles(w) \/ ReadPermissions(w) \/ CacheSet(w) PROVE NInv'
  BY <1>2, <1>3, <1>7, GoesOnAnnounces DEF CacheGet, ReadRoles, ReadPermissions, CacheSet, Goes, Job
<1>8. ASSUME ~Ends(w), \/ Holders(w) \/ Invalidate(w)
                       \/ \E r \in Roles : UpdatePermissions(w, r) \/ \E u \in Users : AssignRole(w, u, r)
      PROVE  NInv'
  BY <1>2, <1>3, <1>8, GoesOnAnnounces DEF Holders, Invalidate, UpdatePermissions, AssignRole, Job
<1> QED
  BY <1>5, <1>6, <1>7, <1>8 DEF Issue, Deny, Crash

LEMMA NInvStep == NInv /\ [Next]_vars => NInv'
<1> SUFFICES ASSUME NInv, [Next]_vars PROVE NInv'
  OBVIOUS
<1>1. AInv'
  BY AInvStep DEF NInv
<1>2. ASSUME UNCHANGED <<work, announced, db>> PROVE NInv'
  BY <1>1, <1>2, NobodyNew DEF NInv, OfGoogle, WillAnnounce, db
<1>3. CASE UNCHANGED vars \/ \E u \in Users : CacheExpires(u) \/ Refresh(u) \/ Logout(u)
  BY <1>2, <1>3 DEF vars, CacheExpires, Refresh, Logout
<1>4. CASE Next
  BY <1>1, <1>3, <1>4, RegisterAnnounces, GoogleUserAnnounces, PublishAnnounces, BeginAnnounces, WorkAnnounces
     DEF Next, GoesOn
<1> QED
  BY <1>3, <1>4

\* _get_or_create_oauth_user and the registration: billing is told of an account once at most,
\* since one request alone has made it, and that one alone tells.
THEOREM AccountAnnouncedOnce == Spec => []AnnouncedOnce
<1>1. NInv => AnnouncedOnce
  BY DEF NInv
<1> QED
  BY <1>1, NInvInit, NInvStep, PTL DEF Spec

-----------------------------------------------------------------------------
(* Types, and what the tables have to do with each other.                                *)

\* Profiles and connections are of accounts, and who has a role has an account.
Tables ==
  /\ rows \subseteq Users /\ profiles \subseteq rows /\ conns \subseteq rows /\ grants \subseteq Roles
  /\ \A u \in Users : held[u] \cap until[u] = {} /\ (held[u] \cup until[u] # {} => u \in rows)

\* A worker is free, or has a user and a kind of request; a callback that connects an account, or
\* gives it a profile, has found it or made it.
Busy ==
  \A w \in Workers : work[w] # Idle =>
    /\ work[w].pc # "idle" /\ work[w].job # "none" /\ work[w].user \in Users
    /\ work[w].pc \in {"conn", "profile"} => work[w].user \in rows

TInv == NInv /\ Tables /\ Busy /\ requests \in 0..MaxRequests /\ crashes \in 0..MaxCrashes

LEMMA TInvInit == Init => TInv
<1> SUFFICES ASSUME Init PROVE TInv
  OBVIOUS
<1>1. Tables
  BY AccountsAssumption DEF Init, Tables, NewRoles
<1>2. Busy
  BY DEF Init, Busy
<1>3. requests \in 0..MaxRequests /\ crashes \in 0..MaxCrashes
  BY AccountsAssumption DEF Init
<1> QED
  BY <1>1, <1>2, <1>3, NInvInit DEF TInv

\* One worker changes what it does.
LEMMA BusyStep ==
  ASSUME TInv, rows \subseteq rows', NEW w \in Workers, NEW x, work' = [work EXCEPT ![w] = x],
         x # Idle => /\ x.pc # "idle" /\ x.job # "none" /\ x.user \in Users
                     /\ x.pc \in {"conn", "profile"} => x.user \in rows'
  PROVE  Busy'
<1>1. \A v \in Workers : work'[v] = IF v = w THEN x ELSE work[v]
  BY DEF TInv, NInv, AInv, Typed
<1> QED
  BY <1>1 DEF TInv, Busy

LEMMA BeginTypes ==
  ASSUME TInv, NEW w \in Workers, NEW u \in Users,
         Login(w, u) \/ Register(w, u) \/ Google(w, u) \/ Administer(w, u)
  PROVE  Tables' /\ Busy' /\ requests' \in 0..MaxRequests /\ crashes' \in 0..MaxCrashes
<1>1. PICK job \in Kinds \ {"none"}, pc \in {"get", "user"} : Begins(w, u, job, pc)
  BY DEF Login, Register, Google, Administer, Kinds
<1> DEFINE x == [Idle EXCEPT !.pc = pc, !.job = job, !.user = u]
<1>2. work' = [work EXCEPT ![w] = x]
  BY <1>1 DEF Begins
<1>3. x.pc = pc /\ x.job = job /\ x.user = u
  BY DEF Idle
<1> HIDE DEF x
<1>4. rows \subseteq rows' /\ UNCHANGED crashes
  BY DEF Login, Register, Google, Administer, db
<1>5. Busy'
  BY <1>1, <1>2, <1>3, <1>4, BusyStep
<1>6. requests' \in 0..MaxRequests
  BY <1>1, AccountsAssumption DEF Begins, TInv
<1>7. Tables'
  <2>1. CASE Register(w, u)
    <3>1. held \in [Users -> SUBSET Roles] /\ held[u] \cup until[u] = {}
      BY <2>1 DEF Register, TInv, Tables, NInv, AInv, Typed
    <3> QED
      BY <2>1, <3>1 DEF Register, TInv, Tables
  <2>2. CASE ~Register(w, u)
    BY <2>2 DEF Login, Google, Administer, db, rbac, TInv, Tables
  <2> QED
    BY <2>1, <2>2
<1> QED
  BY <1>4, <1>5, <1>6, <1>7 DEF TInv

\* What a request does with its worker.
LEMMA WorkTypes ==
  ASSUME TInv, NEW w \in Workers, GoesOn(w) \/ Crash(w)
  PROVE  Busy'
<1> DEFINE x == work'[w]
<1>1. AInv /\ work \in [Workers -> Job] /\ work[w] \in Job /\ rows \subseteq rows'
  BY InWork DEF TInv, NInv, GoesOn, Crash, GoogleUser, GoogleConnects, GoogleProfile, CacheGet, ReadRoles,
     ReadPermissions, CacheSet, Issue, Publish, Deny, Holders, Invalidate, UpdatePermissions, AssignRole, Writes, db
<1>2. CASE Ends(w)
  <2>1. work' = [work EXCEPT ![w] = Idle]
    BY <1>2 DEF Ends
  <2> QED
    BY <1>1, <2>1, BusyStep
<1>3. ASSUME work[w] # Idle, NEW y, work' = [work EXCEPT ![w] = y], y.pc # "idle", y.job = work[w].job,
             y.user = work[w].user, y.pc \in {"conn", "profile"} => work[w].user \in rows'
      PROVE  Busy'
  BY <1>1, <1>3, BusyStep DEF TInv, Busy
<1>4. CASE GoogleUser(w)
  <2> DEFINE y == [work[w] EXCEPT !.pc = "conn", !.drop = IF Created(work[w].user) THEN {work[w].user} ELSE {}]
  <2>1. work' = [work EXCEPT ![w] = y] /\ work[w].user \in rows'
    BY <1>1, <1>4 DEF GoogleUser
  <2>3. work[w] # Idle
    BY <1>4 DEF GoogleUser, Idle
  <2>2. y.pc = "conn" /\ y.job = work[w].job /\ y.user = work[w].user
    BY <1>1 DEF Job
  <2> HIDE DEF y
  <2> QED
    BY <1>3, <2>1, <2>2, <2>3
<1>5. ASSUME NEW pc \in Places \ {"idle"}, Goes(w, pc), work[w] # Idle,
             pc = "profile" => work[w].pc = "conn", pc # "conn"
      PROVE  Busy'
  <2> DEFINE y == [work[w] EXCEPT !.pc = pc]
  <2>1. work' = [work EXCEPT ![w] = y]
    BY <1>1, <1>5 DEF Goes
  <2>2. y.pc = pc /\ y.job = work[w].job /\ y.user = work[w].user
    BY <1>1 DEF Job
  <2>3. pc = "profile" => work[w].user \in rows'
    BY <1>1, <1>5 DEF TInv, Busy
  <2> QED
    BY <1>3, <1>5, <2>1, <2>2, <2>3
<1>6. CASE GoogleConnects(w) \/ CacheSet(w) \/ (CacheGet(w) /\ cache[work[w].user] = NoClaims)
  BY <1>2, <1>5, <1>6 DEF GoogleConnects, CacheSet, CacheGet, Idle, Places
<1>7. CASE Publish(w)
  BY <1>2, <1>5, <1>7 DEF Publish, Idle, Places
<1>8. CASE GoogleProfile(w) \/ Holders(w)
  BY <1>1, <1>3, <1>8 DEF GoogleProfile, Holders, Idle, Job
<1>9. CASE (CacheGet(w) /\ cache[work[w].user] # NoClaims) \/ ReadRoles(w)
  BY <1>1, <1>3, <1>9 DEF CacheGet, ReadRoles, Idle, Job
<1>10. CASE ReadPermissions(w)
  <2> DEFINE c == [work[w].claims EXCEPT !.granted = work[w].claims.roles \cap grants # {}]
  <2> DEFINE y == [work[w] EXCEPT !.pc = "set", !.claims = c]
  <2>1. work' = [work EXCEPT ![w] = y]
    BY <1>1, <1>10 DEF ReadPermissions, Job
  <2>2. work[w] # Idle
    BY <1>10 DEF ReadPermissions, Idle
  <2> HIDE DEF c
  <2>3. y.pc = "set" /\ y.job = work[w].job /\ y.user = work[w].user
    BY <1>1 DEF Job
  <2> HIDE DEF y
  <2> QED
    BY <1>3, <2>1, <2>2, <2>3
<1>11. CASE Invalidate(w)
  BY <1>1, <1>2, <1>3, <1>11 DEF Invalidate, Idle, Job
<1>12. CASE \E r \in Roles : UpdatePermissions(w, r) \/ \E u \in Users : AssignRole(w, u, r)
  BY <1>1, <1>3, <1>12 DEF UpdatePermissions, AssignRole, Writes, Idle, Job
<1> QED
  BY <1>2, <1>4, <1>6, <1>7, <1>8, <1>9, <1>10, <1>11, <1>12 DEF GoesOn, Crash, Issue, Deny

\* What a request does with the tables.
LEMMA TableTypes ==
  ASSUME TInv, NEW w \in Workers, GoesOn(w) \/ Crash(w)
  PROVE  Tables' /\ requests' \in 0..MaxRequests /\ crashes' \in 0..MaxCrashes
<1>1. AInv /\ {held, until} \subseteq [Users -> SUBSET Roles] /\ Tables
  BY DEF TInv, NInv, AInv, Typed
<1>2. requests' \in 0..MaxRequests /\ crashes' \in 0..MaxCrashes
  BY AccountsAssumption DEF TInv, GoesOn, Crash, GoogleUser, GoogleConnects, GoogleProfile, CacheGet, ReadRoles,
     ReadPermissions, CacheSet, Issue, Publish, Deny, Holders, Invalidate, UpdatePermissions, AssignRole, Writes
<1>3. ASSUME UNCHANGED <<db, rbac>> PROVE Tables'
  BY <1>1, <1>3 DEF Tables, db, rbac
<1>4. CASE GoogleUser(w) \/ GoogleConnects(w) \/ GoogleProfile(w)
  <2>1. /\ rows' = rows \/ rows' = rows \cup {work[w].user}
        /\ profiles' = profiles \/ (profiles' = profiles \cup {work[w].user} /\ work[w].user \in rows)
        /\ conns' = conns \/ (conns' = conns \cup {work[w].user} /\ work[w].user \in rows)
        /\ UNCHANGED <<held, until, grants>> /\ work[w].user \in Users
    BY <1>4 DEF GoogleUser, GoogleConnects, GoogleProfile, rbac, TInv, Busy, Idle
  <2>2. rows' \subseteq Users /\ rows \subseteq rows'
    BY <1>1, <2>1 DEF Tables
  <2>3. profiles' \subseteq rows' /\ conns' \subseteq rows'
    BY <1>1, <2>1, <2>2 DEF Tables
  <2>4. \A u \in Users : held'[u] \cap until'[u] = {} /\ (held'[u] \cup until'[u] # {} => u \in rows')
    <3>1. held' = held /\ until' = until
      BY <2>1
    <3>2. \A u \in Users : held[u] \cap until[u] = {} /\ (held[u] \cup until[u] # {} => u \in rows)
      BY <1>1 DEF Tables
    <3> QED
      BY <2>2, <3>1, <3>2
  <2>5. grants' \subseteq Roles
    BY <1>1, <2>1 DEF Tables
  <2> QED
    BY <1>2, <2>2, <2>3, <2>4, <2>5 DEF Tables
<1>5. ASSUME NEW r \in Roles, UpdatePermissions(w, r) PROVE Tables'
  BY <1>1, <1>5 DEF UpdatePermissions, Writes, db, Tables
<1>6. ASSUME NEW r \in Roles, NEW u \in Users, AssignRole(w, u, r) PROVE Tables'
  <2>1. u \in rows /\ UNCHANGED <<rows, profiles, conns, grants>>
    BY <1>6 DEF AssignRole, Writes, db
  <2>2. ASSUME NEW v \in Users, v # u PROVE held'[v] = held[v] /\ until'[v] = until[v]
    BY <1>1, <1>6, <2>2 DEF AssignRole
  <2>3. held'[u] \cap until'[u] = {}
    BY <1>1, <1>6 DEF AssignRole, Tables
  <2> QED
    BY <1>1, <2>1, <2>2, <2>3 DEF Tables
<1> QED
  BY <1>2, <1>3, <1>4, <1>5, <1>6 DEF GoesOn, Crash, CacheGet, ReadRoles, ReadPermissions, CacheSet, Issue,
     Publish, Deny, Holders, Invalidate

LEMMA TInvStep == TInv /\ [Next]_vars => TInv'
<1> SUFFICES ASSUME TInv, [Next]_vars PROVE TInv'
  OBVIOUS
<1>1. NInv'
  BY NInvStep DEF TInv
<1>2. CASE UNCHANGED vars \/ \E u \in Users : CacheExpires(u) \/ Refresh(u) \/ Logout(u)
  BY <1>1, <1>2 DEF TInv, Tables, Busy, vars, db, rbac, CacheExpires, Refresh, Logout
<1>3. CASE Next
  BY <1>1, <1>2, <1>3, BeginTypes, WorkTypes, TableTypes DEF Next, TInv
<1> QED
  BY <1>2, <1>3

\* The tables of user-service fit together at every moment between two statements: a profile, a
\* connection and a role belong to an account, nobody holds a role both for good and for a while,
\* and a worker that is not free serves a request of somebody.
THEOREM AccountsTyped == Spec => []TypeOK
<1>1. TInv => TypeOK
  BY DEF TInv, NInv, AInv, Typed, Announcers, Tables, Busy, TypeOK, Job, Places, Kinds
<1> QED
  BY <1>1, TInvInit, TInvStep, PTL DEF Spec

=============================================================================
