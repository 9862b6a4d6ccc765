------------------------------- MODULE Billing -------------------------------
(***************************************************************************)
(* The subscription of one user: the trial that billing-service opens when *)
(* the user registers, the hosted checkouts of the web front end, the      *)
(* webhooks Stripe sends about what was bought, the nightly job that ends  *)
(* unpaid trials, and the page on which the user cancels and resumes.      *)
(*                                                                         *)
(* Stripe delivers an event until it is answered, in no order, and several *)
(* webhook requests run at once.  A handler reads a row, awaits, and       *)
(* commits an UPDATE of the columns it changed; nothing locks the row in   *)
(* between.  Each replica has a pool of connections, to which a session    *)
(* gives its connection back at every commit.                              *)
(*                                                                         *)
(* Abstractions: users other than this one, whom every query filters out;  *)
(* amounts, periods and PDFs; cards; one trial end for all rows.           *)
(***************************************************************************)
EXTENDS Naturals, FiniteSets

CONSTANTS
  Rows,        \* ids of subscriptions rows, a set of numbers in the order of created_at
  Subs,        \* Stripe's subscriptions, one for each checkout that is paid
  Bills,       \* numbers of a subscription's Stripe invoices
  Hooks,       \* webhook requests that are served at once
  Consumers,   \* members of the consumer group of user.registered
  Replicas,    \* replicas of billing-service
  PoolSize,    \* connections in the pool of a replica
  NoSub, NoRow,
  MaxFaults,   \* bound: processes that die, answers that are lost
  Scenes       \* bounds that go together: members of the group and webhook requests at once,
               \* runs of the nightly job, presses of Cancel and Resume, steps of Stripe after
               \* a payment

ASSUME ConstantsAssumption ==
  /\ Rows \subseteq Nat /\ IsFiniteSet(Rows) /\ Bills \subseteq Nat \ {0} /\ 1 \in Bills
  /\ NoSub \notin Subs /\ NoRow \notin Rows /\ IsFiniteSet(Consumers)
  /\ PoolSize \in Nat \ {0} /\ MaxFaults \in Nat
  /\ Scenes \subseteq [members : Nat, hooks : Nat, runs : Nat, clicks : Nat, news : Nat]

VARIABLES
  rows, invoices,      \* the subscriptions of the user, and the invoices recorded
  held,                \* advisory locks: how often each connection holds LOCK_EXPIRE_TRIALS
  stripe, events,      \* Stripe's subscriptions, and its events not answered with 200
  hooks,               \* webhook requests
  message, members,    \* user.registered not committed; its consumers
  jobs,                \* expire_trials, per replica
  page, request,       \* the button that the billing page offers, and its request
  paidSent, expiredSent,  \* payment.succeeded per payment, billing.trial_expired per row
  trialOver, faults,
  group, atOnce, runs, clicks, news   \* what is left of the bounds

database == <<rows, invoices, held>>
external == <<stripe, events, trialOver, news, atOnce>>
topics == <<paidSent, expiredSent>>
frontEnd == <<page, request, clicks>>
consuming == <<message, members, group>>
scheduled == <<jobs, runs>>
vars == <<database, external, hooks, consuming, scheduled, frontEnd, topics, faults>>

Statuses == {"trialing", "active", "past_due", "cancelled", "paused", "incomplete"}
StripeStatuses == {"none", "open", "trialing", "active", "past_due", "canceled"}

\* A row that is not inserted yet has the status "absent".
Row == [sid : Subs \cup {NoSub}, status : Statuses \cup {"absent"}, cancel : BOOLEAN]
Absent == [sid |-> NoSub, status |-> "absent", cancel |-> FALSE]
Trial == [sid |-> NoSub, status |-> "trialing", cancel |-> FALSE]

Present == {r \in Rows : rows[r].status # "absent"}
Latest == IF Present = {} THEN NoRow ELSE CHOOSE r \in Present : \A q \in Present : q <= r
Linked(s) == {r \in Present : rows[r].sid = s}

Kinds == {"checkout", "paid", "failed", "updated", "deleted"}
Event == [kind : Kinds, sub : Subs, bill : Bills, status : StripeStatuses, cancel : BOOLEAN]

\* What Stripe tells: the subscription as it is when the event is made.
Tell(kind, s, n, st) ==
  [kind |-> kind, sub |-> s, bill |-> n, status |-> st.status, cancel |-> st.cancel]

Conns == Replicas \X (1..PoolSize)
PoolOf(p) == {c \in Conns : c[1] = p}

HookIdle == [pc |-> "idle"]
HookTypes ==
  {HookIdle}
  \cup [pc : {"retrieved"}, ev : Event, got : StripeStatuses]
  \cup [pc : {"commit", "publish"}, ev : Event, got : StripeStatuses,
        row : Rows, seen : Row]

RequestIdle == [pc |-> "idle"]
RequestTypes ==
  {RequestIdle} \cup [pc : {"modify", "commit"}, cancel : BOOLEAN, row : Rows, seen : Row]

TypeOK ==
  /\ rows \in [Rows -> Row] /\ invoices \subseteq Subs \X Bills
  /\ held \in [Conns -> Nat]
  /\ stripe \in [Subs -> [status : StripeStatuses, cancel : BOOLEAN, trial : BOOLEAN,
                          bills : Nat]]
  /\ events \subseteq Event /\ \A h \in Hooks : hooks[h] \in HookTypes
  /\ message \in BOOLEAN /\ members \in [Consumers -> {"idle", "insert", "ack"}]
  /\ jobs \in [Replicas -> [pc : {"idle", "commit", "publish", "unlock"},
                            found : SUBSET Rows]]
  /\ page \in {"none", "cancel", "resume"} /\ request \in RequestTypes
  /\ paidSent \in [Subs \X Bills -> Nat] /\ expiredSent \in [Rows -> Nat]
  /\ trialOver \in BOOLEAN /\ {faults, group, atOnce, runs, clicks, news} \subseteq Nat

Init ==
  /\ rows = [r \in Rows |-> Absent] /\ invoices = {} /\ held = [c \in Conns |-> 0]
  /\ stripe = [s \in Subs |-> [status |-> "none", cancel |-> FALSE, trial |-> FALSE,
                               bills |-> 0]]
  /\ events = {} /\ hooks = [h \in Hooks |-> HookIdle]
  /\ message = TRUE /\ members = [k \in Consumers |-> "idle"]
  /\ jobs = [p \in Replicas |-> [pc |-> "idle", found |-> {}]]
  /\ page = "none" /\ request = RequestIdle
  /\ paidSent = [i \in Subs \X Bills |-> 0] /\ expiredSent = [r \in Rows |-> 0]
  /\ trialOver = FALSE /\ faults = 0
  /\ \E s \in Scenes : /\ group = s.members /\ atOnce = s.hooks /\ runs = s.runs
                       /\ clicks = s.clicks /\ news = s.news

Fault == faults < MaxFaults /\ faults' = faults + 1

(***************************************************************************)
(* user.registered: a trial for every user                                 *)
(***************************************************************************)
\* Slip: no look at the rows before the trial is opened.
HasSubscriptionIgnored == FALSE
HasSubscription == Present # {}

\* A member, one in each replica, reads the message; after a rebalance two of them may work
\* on it.
RegisterRead(k) ==
  /\ message /\ members[k] = "idle"
  /\ Cardinality({j \in Consumers : members[j] # "idle"}) < group
  /\ IF HasSubscription THEN message' = FALSE /\ UNCHANGED members
     ELSE members' = [members EXCEPT ![k] = "insert"] /\ UNCHANGED message
  /\ UNCHANGED <<database, external, hooks, group, scheduled, frontEnd, topics, faults>>

\* Customer, row and commit; billing.trial_started follows.
RegisterInsert(k) ==
  /\ members[k] = "insert"
  /\ \E r \in Rows \ Present : 
       /\ \A q \in Rows \ Present : r <= q
       /\ rows' = [rows EXCEPT ![r] = Trial]
  /\ members' = [members EXCEPT ![k] = "ack"]
  /\ UNCHANGED <<invoices, held, external, hooks, message, group, scheduled, frontEnd, topics,
                 faults>>

\* Also when the attempt raised: the message goes to user.registered.dlq.
RegisterCommit(k) ==
  /\ \/ members[k] = "ack" /\ UNCHANGED faults
     \/ members[k] = "insert" /\ Fault
  /\ message' = FALSE /\ members' = [members EXCEPT ![k] = "idle"]
  /\ UNCHANGED <<database, external, hooks, group, scheduled, frontEnd, topics>>

RegisterDies(k) ==
  /\ members[k] # "idle" /\ Fault /\ members' = [members EXCEPT ![k] = "idle"]
  /\ UNCHANGED <<database, external, hooks, message, group, scheduled, frontEnd, topics>>

(***************************************************************************)
(* Checkout, and what Stripe does with the subscription                    *)
(***************************************************************************)
\* The session carries the trial end while the latest row is trialing.
CarriesTrial == Latest # NoRow /\ rows[Latest].status = "trialing"

\* handleCheckout and its endpoint: the user is sent to a hosted checkout.
CreateCheckout(s) ==
  /\ stripe[s].status = "none"
  /\ stripe' = [stripe EXCEPT ![s].status = "open", ![s].trial = CarriesTrial]
  /\ UNCHANGED <<database, events, trialOver, news, atOnce, hooks, consuming, scheduled, frontEnd,
                 topics, faults>>

\* Stripe changes s and sends an event of each of these kinds.
StripeStep(s, st, n, kinds) ==
  /\ stripe' = [stripe EXCEPT ![s] = st]
  /\ events' = events \cup {Tell(kind, s, n, st) : kind \in kinds}
  /\ UNCHANGED <<database, hooks, consuming, scheduled, frontEnd, topics, faults>>

Pay(s) ==
  /\ stripe[s].status = "open" /\ UNCHANGED <<trialOver, news, atOnce>>
  /\ LET status == IF stripe[s].trial THEN "trialing" ELSE "active" IN
     StripeStep(s, [stripe[s] EXCEPT !.status = status, !.trial = FALSE,
                                     !.bills = 1], 1,
                {"checkout", "paid"})

More == news > 0 /\ news' = news - 1 /\ UNCHANGED <<trialOver, atOnce>>

StripeTrialEnds(s) ==
  /\ stripe[s].status = "trialing" /\ trialOver /\ More
  /\ StripeStep(s, [stripe[s] EXCEPT !.status = "active"], 1, {"updated"})

Renew(s) ==
  LET n == stripe[s].bills + 1 IN
  /\ stripe[s].status \in {"active", "past_due"} /\ ~stripe[s].cancel /\ n \in Bills
  /\ More
  /\ \/ StripeStep(s, [stripe[s] EXCEPT !.status = "active", !.bills = n], n,
                   {"paid", "updated"})
     \/ StripeStep(s, [stripe[s] EXCEPT !.status = "past_due"], n, {"failed", "updated"})

StripeEnds(s) ==
  /\ \/ stripe[s].status = "past_due"
     \/ stripe[s].cancel /\ stripe[s].status \in {"trialing", "active"}
  /\ More
  /\ StripeStep(s, [stripe[s] EXCEPT !.status = "canceled"], 1, {"deleted"})

TrialTimePasses ==
  /\ ~trialOver /\ trialOver' = TRUE
  /\ UNCHANGED <<database, stripe, events, news, atOnce, hooks, consuming, scheduled, frontEnd,
                 topics, faults>>

(***************************************************************************)
(* Webhooks                                                                *)
(***************************************************************************)
Answer(e) == events' = events \ {e}

\* An answer that Stripe does not get: the event comes again.
AnswerOrLose(e) == \/ Answer(e) /\ UNCHANGED faults
                   \/ UNCHANGED events /\ Fault

HookUnchanged == UNCHANGED <<rows, held, stripe, trialOver, news, atOnce, consuming, scheduled,
                           frontEnd>>

Serves(h) == hooks[h].pc = "idle" /\ Cardinality({g \in Hooks : hooks[g].pc # "idle"}) < atOnce

\* handle_checkout_completed asks Stripe for the subscription before it reads a row.
CheckoutRetrieve(h) ==
  /\ Serves(h)
  /\ \E e \in events :
       /\ e.kind = "checkout"
       /\ hooks' = [hooks EXCEPT ![h] = [pc |-> "retrieved", ev |-> e,
                                         got |-> stripe[e.sub].status]]
  /\ UNCHANGED <<events, invoices, topics, faults>> /\ HookUnchanged

CheckoutRead(h) ==
  /\ hooks[h].pc = "retrieved"
  /\ LET e == hooks[h].ev IN
     IF Linked(NoSub) = {} 
     THEN hooks' = [hooks EXCEPT ![h] = HookIdle] /\ Answer(e)
     ELSE /\ \E r \in Linked(NoSub) :
               hooks' = [hooks EXCEPT ![h] = [pc |-> "commit", ev |-> e, row |-> r,
                                              got |-> hooks[h].got, seen |-> rows[r]]]
          /\ UNCHANGED events
  /\ UNCHANGED <<invoices, topics, faults>> /\ HookUnchanged

\* Slip: every delivery of an invoice is recorded and announced.
RecordedNever(e) == FALSE

\* handle_payment_succeeded has recorded this invoice before.
Recorded(e) == e.kind = "paid" /\ <<e.sub, e.bill>> \in invoices

\* The handlers that find the row by stripe_subscription_id.
HookRead(h) ==
  /\ Serves(h)
  /\ \E e \in events :
       /\ e.kind # "checkout"
       /\ IF Linked(e.sub) = {} \/ Recorded(e) THEN Answer(e) /\ UNCHANGED hooks
          ELSE /\ \E r \in Linked(e.sub) :
                    hooks' = [hooks EXCEPT ![h] =
                      [pc |-> "commit", ev |-> e, row |-> r, got |-> e.status,
                       seen |-> rows[r]]]
               /\ UNCHANGED events
  /\ UNCHANGED <<invoices, topics, faults>> /\ HookUnchanged

NewStatus(k) ==
  CASE k.ev.kind = "paid" -> "active"
    [] k.ev.kind = "failed" -> "past_due"
    [] k.ev.kind = "deleted" -> "cancelled"
    [] OTHER -> k.got

\* The UPDATE names the columns whose value differs from the one that was read.
Updated(now, seen, new) == [f \in DOMAIN now |-> IF new[f] = seen[f] THEN now[f] ELSE new[f]]

NewRow(k) ==
  [sid    |-> IF k.ev.kind = "checkout" THEN k.ev.sub ELSE k.seen.sid,
   status |-> NewStatus(k),
   cancel |-> IF k.ev.kind = "updated" THEN k.ev.cancel ELSE k.seen.cancel]

\* unique stripe_subscription_id, unique stripe_invoice_id, and the enum of the status,
\* which does not have Stripe's "canceled".
Refused(k) ==
  \/ k.ev.kind = "checkout" /\ Linked(k.ev.sub) \ {k.row} # {}
  \/ Recorded(k.ev)
  \/ NewStatus(k) \notin Statuses

HookCommit(h) ==
  LET k == hooks[h] IN
  /\ k.pc = "commit"
  /\ IF Refused(k)
     THEN hooks' = [hooks EXCEPT ![h] = HookIdle] /\ UNCHANGED <<rows, invoices>>
     ELSE /\ rows' = [rows EXCEPT ![k.row] = Updated(@, k.seen, NewRow(k))]
          /\ invoices' = IF k.ev.kind = "paid" THEN invoices \cup {<<k.ev.sub, k.ev.bill>>}
                         ELSE invoices
          /\ hooks' = [hooks EXCEPT ![h].pc = "publish"]
  /\ UNCHANGED <<held, external, consuming, scheduled, frontEnd, topics, faults>>

\* A checkout announces the first payment, and so does the invoice of it.
HookPublish(h) ==
  LET k == hooks[h] IN
  /\ k.pc = "publish" /\ hooks' = [hooks EXCEPT ![h] = HookIdle]
  /\ paidSent' = IF k.ev.kind \in {"checkout", "paid"}
                 THEN [paidSent EXCEPT ![<<k.ev.sub, k.ev.bill>>] = @ + 1]
                 ELSE paidSent
  /\ AnswerOrLose(k.ev)
  /\ UNCHANGED <<invoices, expiredSent>> /\ HookUnchanged

HookDies(h) ==
  /\ hooks[h].pc # "idle" /\ Fault /\ hooks' = [hooks EXCEPT ![h] = HookIdle]
  /\ UNCHANGED <<events, invoices, topics>> /\ HookUnchanged

(***************************************************************************)
(* expire_trials                                                           *)
(***************************************************************************)
\* Slip: the job runs whether it has the lock or not.
CanLockAlways(c) == TRUE

\* pg_try_advisory_lock: the session that holds the lock gets it once more.
CanLock(c) == \A d \in Conns \ {c} : held[d] = 0

Expirable == {r \in Linked(NoSub) : rows[r].status = "trialing" /\ trialOver}

\* With nothing to expire the commit only gives the connection back.
AfterList == IF Expirable = {} THEN "unlock" ELSE "commit"

JobUnchanged == UNCHANGED <<invoices, external, hooks, consuming, frontEnd, paidSent>>

\* The runs before the trial is over find nothing; they are left out.
JobRead(p) ==
  /\ jobs[p].pc = "idle" /\ trialOver /\ runs > 0 /\ runs' = runs - 1
  /\ \E c \in PoolOf(p) :
       IF CanLock(c)
       THEN /\ held' = [held EXCEPT ![c] = @ + 1]
            /\ jobs' = [jobs EXCEPT ![p] = [pc |-> AfterList, found |-> Expirable]]
       ELSE UNCHANGED <<held, jobs>>
  /\ UNCHANGED <<rows, expiredSent, faults>> /\ JobUnchanged

\* Written by primary key, whatever became of the row since it was read.
JobCommit(p) ==
  /\ jobs[p].pc = "commit"
  /\ rows' = [r \in Rows |-> IF r \in jobs[p].found
                             THEN [rows[r] EXCEPT !.status = "cancelled"] ELSE rows[r]]
  /\ jobs' = [jobs EXCEPT ![p].pc = "publish"]
  /\ UNCHANGED <<held, runs, expiredSent, faults>> /\ JobUnchanged

JobPublish(p) ==
  /\ jobs[p].pc = "publish"
  /\ \E r \in jobs[p].found :
       /\ expiredSent' = [expiredSent EXCEPT ![r] = @ + 1]
       /\ jobs' = [jobs EXCEPT ![p] =
            [pc |-> IF @.found = {r} THEN "unlock" ELSE "publish", found |-> @.found \ {r}]]
  /\ UNCHANGED <<rows, held, runs, faults>> /\ JobUnchanged

\* The commit gave the connection back: the unlock runs on any connection of the pool,
\* and on one that does not hold the lock it only warns.
JobUnlock(p) ==
  /\ jobs[p].pc = "unlock"
  /\ \E c \in PoolOf(p) : held' = [held EXCEPT ![c] = IF @ > 0 THEN @ - 1 ELSE 0]
  /\ jobs' = [jobs EXCEPT ![p] = [pc |-> "idle", found |-> {}]]
  /\ UNCHANGED <<rows, runs, expiredSent, faults>> /\ JobUnchanged

\* With the replica go its connections, and with these what they lock.
JobDies(p) ==
  /\ jobs[p].pc # "idle" /\ Fault
  /\ jobs' = [jobs EXCEPT ![p] = [pc |-> "idle", found |-> {}]]
  /\ held' = [c \in Conns |-> IF c \in PoolOf(p) THEN 0 ELSE held[c]]
  /\ UNCHANGED <<rows, runs, expiredSent>> /\ JobUnchanged

(***************************************************************************)
(* The billing page                                                        *)
(***************************************************************************)
PageUnchanged ==
  UNCHANGED <<invoices, held, trialOver, news, atOnce, hooks, consuming, scheduled, topics, faults>>

Offer(row) == IF row.cancel THEN "resume" ELSE IF row.status = "cancelled" THEN "none"
              ELSE "cancel"

LoadPage ==
  /\ request = RequestIdle /\ clicks > 0
  /\ Latest # NoRow /\ page' = Offer(rows[Latest])
  /\ UNCHANGED <<rows, stripe, events, request, clicks>> /\ PageUnchanged

Cancellable == {r \in Present : rows[r].status \in {"active", "trialing"}}
Resumable == {r \in Present : rows[r].cancel}

\* runMutation and the first query of its endpoint; no row is a 404 the page shows.
Press(cancel, found) ==
  /\ request = RequestIdle /\ clicks > 0 /\ clicks' = clicks - 1
  /\ IF found = {} THEN UNCHANGED request
     ELSE \E r \in found : request' =
            [pc |-> IF rows[r].sid = NoSub THEN "commit" ELSE "modify",
             cancel |-> cancel, row |-> r, seen |-> rows[r]]
  /\ UNCHANGED <<rows, stripe, events, page>> /\ PageUnchanged

PressCancel == page = "cancel" /\ Press(TRUE, Cancellable)
PressResume == page = "resume" /\ Press(FALSE, Resumable)

\* modify_subscription; Stripe refuses it for a subscription that has ended.
Modify ==
  /\ request.pc = "modify"
  /\ LET s == request.seen.sid
         st == [stripe[s] EXCEPT !.cancel = request.cancel] IN
     IF stripe[s].status = "canceled"
     THEN request' = RequestIdle /\ UNCHANGED <<stripe, events>>
     ELSE /\ stripe' = [stripe EXCEPT ![s] = st]
          /\ events' = events \cup {Tell("updated", s, 1, st)}
          /\ request' = [request EXCEPT !.pc = "commit"]
  /\ UNCHANGED <<rows, page, clicks>> /\ PageUnchanged

\* Slip: to resume also makes the row active again.
CommitFlagRevives ==
  /\ request.pc = "commit"
  /\ LET new == [request.seen EXCEPT !.cancel = request.cancel,
                                     !.status = IF request.cancel THEN @ ELSE "active"]
         after == Updated(rows[request.row], request.seen, new) IN
     rows' = [rows EXCEPT ![request.row] = after] /\ page' = Offer(after)
  /\ request' = RequestIdle
  /\ UNCHANGED <<stripe, events, clicks>> /\ PageUnchanged

\* The commit and the refresh that reads the row again for the page.
CommitFlag ==
  /\ request.pc = "commit"
  /\ LET new == [request.seen EXCEPT !.cancel = request.cancel]
         after == Updated(rows[request.row], request.seen, new) IN
     rows' = [rows EXCEPT ![request.row] = after] /\ page' = Offer(after)
  /\ request' = RequestIdle
  /\ UNCHANGED <<stripe, events, clicks>> /\ PageUnchanged

Next ==
  \/ \E k \in Consumers : \/ RegisterRead(k) \/ RegisterInsert(k) \/ RegisterCommit(k)
                          \/ RegisterDies(k)
  \/ \E s \in Subs : \/ CreateCheckout(s) \/ Pay(s) \/ StripeTrialEnds(s)
                     \/ Renew(s) \/ StripeEnds(s)
  \/ TrialTimePasses
  \/ \E h \in Hooks : \/ CheckoutRetrieve(h) \/ CheckoutRead(h) \/ HookRead(h)
                      \/ HookCommit(h) \/ HookPublish(h) \/ HookDies(h)
  \/ \E p \in Replicas : \/ JobRead(p) \/ JobCommit(p) \/ JobPublish(p) \/ JobUnlock(p)
                         \/ JobDies(p)
  \/ LoadPage \/ PressCancel \/ PressResume \/ Modify \/ CommitFlag

Spec == Init /\ [][Next]_vars

(***************************************************************************)
(* Properties                                                              *)
(***************************************************************************)
\* Wherever consumers die and however often the message comes again: a user gets no more
\* trials than there are members of the group that may have looked before the first was
\* opened (handle_user_registered; one member opens one, two that overlap may open two).
TrialsWithinMembers == Cardinality(Present) <= Cardinality(Consumers)

\* However often Stripe repeats an event, and however many requests work on it at once, the
\* invoice of a renewal is announced as payment.succeeded once at most, and recorded then
\* (handle_payment_succeeded).  The first payment is announced by its checkout as well.
RenewalsAnnouncedOnce ==
  \A i \in Subs \X (Bills \ {1}) : paidSent[i] <= 1 /\ (paidSent[i] = 1 => i \in invoices)

\* Two replicas that start the job together, a run that dies and a lock that stays behind in
\* a pool: nobody is told twice that the trial of a row has expired.
ExpiredOnce == \A r \in Rows : expiredSent[r] <= 1

\* The request h writes the row r for an event of Stripe.
WebhookWrites(h, r) == hooks[h].pc = "commit" /\ hooks'[h].pc = "publish" /\ hooks[h].row = r

\* A cancelled subscription is anything else again only because a webhook says so, and linked
\* to what was bought then: neither a page that was loaded before, nor the job, nor a new
\* registration revives it.  (Any webhook may: one of a failed payment that comes after the
\* deletion makes it past_due.)
OnlyStripeRevives ==
  [][\A r \in Rows : rows[r].status = "cancelled" /\ rows'[r].status # "cancelled"
       => rows'[r].sid # NoSub /\ \E h \in Hooks : WebhookWrites(h, r)]_vars
=============================================================================
