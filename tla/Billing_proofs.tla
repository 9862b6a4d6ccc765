---------------------------- MODULE Billing_proofs ----------------------------
(***************************************************************************)
(* Proofs about Billing, for every number of webhook requests, consumers,  *)
(* replicas, connections and faults, and everything Stripe may send.       *)
(*                                                                         *)
(* The invariant follows what is written and told.  A row stays linked to  *)
(* the subscription of Stripe that it was linked to (Known), so a webhook  *)
(* that changes it is about one that was bought.  A request that is about  *)
(* to announce a renewal is the only one, and has it recorded (Paid).      *)
(* One replica at most is between the read and the end of its messages,    *)
(* however the lock leaks in its pool (Locked); and a row whose user has   *)
(* been told, or is about to be, never becomes an unpaid trial again       *)
(* (Told).  There is a trial, or a consumer about to open one, for each    *)
(* member of the consumer group at most (TrialsBounded).  The types are    *)
(* an invariant of their own (TInv).                                       *)
(***************************************************************************)
EXTENDS Billing, FiniteSetTheorems, TLAPS

RowOK(x) == x = [sid |-> x.sid, status |-> x.status, cancel |-> x.cancel] /\ x.sid \in Subs \cup {NoSub}

EventOK(e) ==
  e.kind \in Kinds /\ e.sub \in Subs /\ e.bill \in Bills /\ (e.kind = "checkout" => e.bill = 1)

HookOK(k) ==
  \/ k = HookIdle
  \/ /\ k = [pc |-> "retrieved", ev |-> k.ev, got |-> k.got]
     /\ EventOK(k.ev) /\ k.ev.kind = "checkout"
  \/ /\ k = [pc |-> k.pc, ev |-> k.ev, row |-> k.row, got |-> k.got, seen |-> k.seen]
     /\ k.pc \in {"commit", "publish"} /\ EventOK(k.ev) /\ k.row \in Rows

RequestOK ==
  \/ request = RequestIdle
  \/ /\ request = [pc |-> request.pc, cancel |-> request.cancel, row |-> request.row, seen |-> request.seen]
     /\ request.pc \in {"modify", "commit"} /\ request.row \in Rows /\ RowOK(request.seen)
     /\ request.pc = "modify" => request.seen.sid # NoSub

RowsOK == /\ rows = [r \in Rows |-> rows[r]]
          /\ \A r \in Rows : RowOK(rows[r]) /\ (rows[r].status = "absent" => rows[r].sid = NoSub)

Typed ==
  /\ RowsOK /\ \A e \in events : EventOK(e)
  /\ hooks = [h \in Hooks |-> hooks[h]] /\ \A h \in Hooks : HookOK(hooks[h])
  /\ RequestOK

\* What a webhook request has found out about its row.
Known ==
  \A h \in Hooks : hooks[h].pc \in {"commit", "publish"} =>
    /\ rows[hooks[h].row].status # "absent"
    /\ IF hooks[h].ev.kind = "checkout" THEN hooks[h].seen.sid = NoSub
       ELSE rows[hooks[h].row].sid # NoSub

\* The request h is about to announce the invoice i.
Announces(h, i) ==
  hooks[h].pc = "publish" /\ hooks[h].ev.kind = "paid" /\ i = <<hooks[h].ev.sub, hooks[h].ev.bill>>

Renewals == Subs \X (Bills \ {1})

Paid ==
  /\ paidSent \in [Subs \X Bills -> Nat] /\ RenewalsAnnouncedOnce
  /\ \A h \in Hooks, i \in Renewals :
       Announces(h, i) => /\ i \in invoices /\ paidSent[i] = 0
                          /\ \A g \in Hooks : Announces(g, i) => g = h

At(p) == jobs[p].pc \in {"commit", "publish"}

Locked ==
  /\ held \in [Conns -> Nat]
  /\ jobs \in [Replicas -> [pc : {"idle", "commit", "publish", "unlock"}, found : SUBSET Rows]]
  /\ \A c, d \in Conns : held[c] > 0 /\ held[d] > 0 => c = d
  /\ \A p \in Replicas : At(p) => \E c \in PoolOf(p) : held[c] > 0

\* The trial of r will not be found unpaid again.
Over(r) == rows[r].status # "absent" /\ (rows[r].sid # NoSub \/ rows[r].status # "trialing")

Told ==
  /\ expiredSent \in [Rows -> Nat] /\ ExpiredOnce
  /\ \A r \in Rows : expiredSent[r] = 1 => Over(r)
  /\ \A p \in Replicas : At(p) =>
       \A r \in jobs[p].found : /\ expiredSent[r] = 0 /\ rows[r].status # "absent"
                                /\ jobs[p].pc = "publish" => Over(r)

BInv == Typed /\ Known /\ Paid /\ Locked /\ Told

-----------------------------------------------------------------------------
LEMMA BInvInit == Init => BInv
<1> SUFFICES ASSUME Init PROVE BInv
  OBVIOUS
<1>1. Typed
  BY DEF Init, Typed, RowsOK, RowOK, HookOK, RequestOK, Absent
<1>2. Known /\ Paid
  BY DEF Init, Known, Paid, Announces, RenewalsAnnouncedOnce, HookIdle
<1>3. Locked /\ Told
  BY DEF Init, Locked, Told, At, ExpiredOnce
<1> QED
  BY <1>1, <1>2, <1>3 DEF BInv

\* The UPDATE, column by column.
LEMMA UpdatedRow ==
  ASSUME NEW now, RowOK(now), NEW seen, NEW new
  PROVE  Updated(now, seen, new) =
           [sid    |-> IF new.sid = seen.sid THEN now.sid ELSE new.sid,
            status |-> IF new.status = seen.status THEN now.status ELSE new.status,
            cancel |-> IF new.cancel = seen.cancel THEN now.cancel ELSE new.cancel]
<1>1. DOMAIN now = {"sid", "status", "cancel"}
  BY DEF RowOK
<1> QED
  BY <1>1 DEF Updated

\* A change of rows that neither unlinks one nor makes it an unpaid trial again.
RowsGo ==
  /\ RowsOK'
  /\ \A r \in Rows : /\ rows[r].sid # NoSub => rows'[r].sid # NoSub
                     /\ rows[r].status # "absent" => rows'[r].status # "absent"
                     /\ Over(r) => Over(r)'

\* Who follows the rows keeps what it knows of them.
LEMMA RowsGoOn ==
  ASSUME BInv, RowsGo
  PROVE  /\ UNCHANGED hooks => Known'
         /\ UNCHANGED <<jobs, expiredSent>> => Told'
<1>1. UNCHANGED hooks => Known'
  BY DEF BInv, Known, RowsGo, Typed, HookOK, HookIdle
<1>2. UNCHANGED <<jobs, expiredSent>> => Told'
  BY DEF BInv, Told, RowsGo, At, Locked, ExpiredOnce
<1> QED
  BY <1>1, <1>2

LEMMA RowsStay == BInv /\ UNCHANGED rows => RowsGo
BY DEF BInv, Typed, RowsGo, RowsOK, RowOK, Over

\* Nothing of the announcements, or of the locks, changes.
LEMMA PaidStays == BInv /\ UNCHANGED <<hooks, invoices, paidSent>> => Paid'
BY DEF BInv, Paid, Announces, RenewalsAnnouncedOnce

LEMMA LockedStays == BInv /\ UNCHANGED <<held, jobs>> => Locked'
BY DEF BInv, Locked, At

LEMMA TypedStays ==
  ASSUME BInv, RowsGo, \A e \in events' : EventOK(e), UNCHANGED hooks, RequestOK'
  PROVE  Typed'
BY DEF BInv, Typed, RowsGo, HookOK, EventOK

-----------------------------------------------------------------------------
(* The consumer, Stripe and the billing page.                                 *)

LEMMA RegisterSteps ==
  ASSUME BInv, \E k \in Consumers : \/ RegisterRead(k) \/ RegisterInsert(k) \/ RegisterCommit(k)
                                    \/ RegisterDies(k)
  PROVE  BInv' /\ RowsGo
<1> USE DEF external, scheduled, frontEnd, topics, database
<1>1. RowsGo
  <2>1. CASE UNCHANGED rows
    BY <2>1, RowsStay
  <2>2. CASE \E r \in Rows \ Present : rows' = [rows EXCEPT ![r] = Trial]
    <3>1. PICK r \in Rows \ Present : rows' = [rows EXCEPT ![r] = Trial]
      BY <2>2
    <3>2. rows[r].status = "absent" /\ rows[r].sid = NoSub
      BY <3>1 DEF Present, BInv, Typed, RowsOK
    <3>3. rows' = [q \in Rows |-> rows'[q]] /\ \A q \in Rows : rows'[q] = IF q = r THEN Trial ELSE rows[q]
      BY <3>1 DEF BInv, Typed, RowsOK
    <3>4. RowOK(Trial) /\ Trial.status = "trialing" /\ Trial.sid = NoSub
      BY DEF Trial, RowOK
    <3> QED
      BY <3>2, <3>3, <3>4 DEF BInv, Typed, RowsOK, RowsGo, Over, RowOK
  <2> QED
    BY <2>1, <2>2 DEF RegisterRead, RegisterInsert, RegisterCommit, RegisterDies
<1>2. UNCHANGED <<invoices, held, events, hooks, jobs, request, paidSent, expiredSent>>
  BY DEF RegisterRead, RegisterInsert, RegisterCommit, RegisterDies
<1>3. RequestOK'
  BY <1>2 DEF BInv, Typed, RequestOK, RowOK
<1>4. Typed'
  BY <1>1, <1>2, <1>3, TypedStays DEF BInv, Typed
<1> QED
  BY <1>1, <1>2, <1>4, RowsGoOn, PaidStays, LockedStays DEF BInv

\* What Stripe sends is about a subscription of its own.
LEMMA StripeSteps ==
  ASSUME BInv, \/ \E s \in Subs : \/ CreateCheckout(s) \/ Pay(s) \/ StripeTrialEnds(s) \/ Renew(s)
                                  \/ StripeEnds(s)
               \/ TrialTimePasses
  PROVE  BInv' /\ RowsGo
<1> USE DEF database, scheduled, frontEnd, topics
<1>1. UNCHANGED <<rows, invoices, held, hooks, jobs, request, paidSent, expiredSent>>
  BY DEF CreateCheckout, Pay, StripeTrialEnds, Renew, StripeEnds, TrialTimePasses, StripeStep
<1>2. \A e \in events' : EventOK(e)
  <2>1. ASSUME NEW s \in Subs, NEW st, NEW n \in Bills, NEW kinds \in SUBSET Kinds, StripeStep(s, st, n, kinds),
               n = 1 \/ kinds \subseteq Kinds \ {"checkout"}
        PROVE  \A e \in events' : EventOK(e)
    BY <2>1 DEF BInv, Typed, StripeStep, Tell, EventOK
  <2>2. 1 \in Bills
    BY ConstantsAssumption
  <2>3. CASE UNCHANGED events
    BY <2>3 DEF BInv, Typed, EventOK
  <2>4. ASSUME NEW s \in Subs, Pay(s) PROVE \A e \in events' : EventOK(e)
    <3> DEFINE st == [stripe[s] EXCEPT !.status = IF stripe[s].trial THEN "trialing" ELSE "active",
                                       !.trial = FALSE, !.bills = 1]
    <3>1. StripeStep(s, st, 1, {"checkout", "paid"})
      BY <2>4, Zenon DEF Pay
    <3> HIDE DEF st
    <3> QED
      BY <2>1, <2>2, <3>1 DEF Kinds
  <2>5. ASSUME NEW s \in Subs, StripeTrialEnds(s) \/ StripeEnds(s) PROVE \A e \in events' : EventOK(e)
    BY <2>1, <2>2, <2>5 DEF StripeTrialEnds, StripeEnds, Kinds
  <2>6. ASSUME NEW s \in Subs, Renew(s) PROVE \A e \in events' : EventOK(e)
    <3> DEFINE n == stripe[s].bills + 1
               st == [stripe[s] EXCEPT !.status = "active", !.bills = n]
               late == [stripe[s] EXCEPT !.status = "past_due"]
    <3>1. n \in Bills /\ (StripeStep(s, st, n, {"paid", "updated"}) \/ StripeStep(s, late, n, {"failed", "updated"}))
      BY <2>6, Zenon DEF Renew
    <3>2. {"paid", "updated"} \subseteq Kinds \ {"checkout"} /\ {"failed", "updated"} \subseteq Kinds \ {"checkout"}
      BY DEF Kinds
    <3> HIDE DEF st, late, n
    <3> QED
      BY <2>1, <3>1, <3>2
  <2> QED
    BY <2>3, <2>4, <2>5, <2>6 DEF CreateCheckout, TrialTimePasses
<1>3. RequestOK'
  BY <1>1 DEF BInv, Typed, RequestOK, RowOK
<1>4. RowsGo
  BY <1>1, RowsStay
<1> QED
  BY <1>1, <1>2, <1>3, <1>4, TypedStays, RowsGoOn, PaidStays, LockedStays DEF BInv

\* Cancel and Resume change one column of a row that is there.
LEMMA PageSteps ==
  ASSUME BInv, LoadPage \/ PressCancel \/ PressResume \/ Modify \/ CommitFlag
  PROVE  /\ BInv' /\ RowsGo
         /\ \A r \in Rows : rows'[r].status = rows[r].status
<1> USE DEF PageUnchanged, scheduled, topics
<1>1. UNCHANGED <<invoices, held, hooks, jobs, paidSent, expiredSent>>
  BY DEF LoadPage, PressCancel, PressResume, Press, Modify, CommitFlag
<1>2. RowsGo /\ \A r \in Rows : rows'[r].status = rows[r].status
  <2>1. CASE CommitFlag
    <3> DEFINE new == [request.seen EXCEPT !.cancel = request.cancel]
               now == rows[request.row]
               after == Updated(now, request.seen, new)
    <3>1. request.row \in Rows /\ RowOK(request.seen)
      BY <2>1 DEF BInv, Typed, RequestOK, CommitFlag, RequestIdle
    <3>2. rows' = [rows EXCEPT ![request.row] = after]
      BY <2>1 DEF CommitFlag
    <3>3. new.sid = request.seen.sid /\ new.status = request.seen.status
      BY <3>1 DEF RowOK
    <3>4. RowOK(now)
      BY <3>1 DEF BInv, Typed, RowsOK
    <3> HIDE DEF new, now
    <3>5. after = [sid |-> now.sid, status |-> now.status,
                   cancel |-> IF new.cancel = request.seen.cancel THEN now.cancel ELSE new.cancel]
      BY <3>3, <3>4, UpdatedRow
    <3>6. RowOK(after) /\ after.sid = now.sid /\ after.status = now.status
      BY <3>4, <3>5 DEF RowOK
    <3> HIDE DEF after
    <3>7. /\ rows' = [r \in Rows |-> rows'[r]]
          /\ \A r \in Rows : rows'[r] = IF r = request.row THEN after ELSE rows[r]
      BY <3>1, <3>2 DEF BInv, Typed, RowsOK
    <3> QED
      BY <3>6, <3>7 DEF BInv, Typed, RowsOK, RowsGo, Over, now
  <2>2. CASE UNCHANGED rows
    BY <2>2, RowsStay
  <2> QED
    BY <2>1, <2>2 DEF LoadPage, PressCancel, PressResume, Press, Modify
<1>3. RequestOK'
  <2>1. CASE LoadPage
    BY <2>1 DEF BInv, Typed, RequestOK, RowOK, LoadPage
  <2>2. CASE PressCancel \/ PressResume
    <3>1. UNCHANGED request \/ \E r \in Present : \E cancel : request' =
            [pc |-> IF rows[r].sid = NoSub THEN "commit" ELSE "modify", cancel |-> cancel, row |-> r,
             seen |-> rows[r]]
      BY <2>2 DEF PressCancel, PressResume, Press, Cancellable, Resumable
    <3>2. \A r \in Present : r \in Rows /\ RowOK(rows[r])
      BY DEF Present, BInv, Typed, RowsOK
    <3> QED
      BY <3>1, <3>2 DEF BInv, Typed, RequestOK, RowOK
  <2>3. CASE Modify
    BY <2>3 DEF BInv, Typed, RequestOK, RowOK, Modify, RequestIdle
  <2>4. CASE CommitFlag
    BY <2>4 DEF CommitFlag, RequestOK
  <2> QED
    BY <2>1, <2>2, <2>3, <2>4
<1>4. \A e \in events' : EventOK(e)
  <2>1. CASE Modify
    <3>1. 1 \in Bills /\ request.seen.sid \in Subs
      BY <2>1, ConstantsAssumption DEF BInv, Typed, RequestOK, RowOK, Modify, RequestIdle
    <3> QED
      BY <2>1, <3>1 DEF Modify, BInv, Typed, EventOK, Tell, Kinds
  <2>2. CASE ~Modify
    BY <2>2 DEF LoadPage, PressCancel, PressResume, Press, CommitFlag, BInv, Typed, EventOK
  <2> QED
    BY <2>1, <2>2
<1> QED
  BY <1>1, <1>2, <1>3, <1>4, TypedStays, RowsGoOn, PaidStays, LockedStays DEF BInv

-----------------------------------------------------------------------------
(* The webhooks.                                                              *)

\* A request that has begun, or is done, announces nothing.
LEMMA HookMoves ==
  ASSUME BInv, NEW h \in Hooks, NEW k, hooks' = [hooks EXCEPT ![h] = k], HookOK(k), k.pc # "publish",
         UNCHANGED <<rows, held, jobs, request, invoices, paidSent, expiredSent>>,
         \A e \in events' : EventOK(e),
         k.pc = "commit" => /\ rows[k.row].status # "absent"
                            /\ IF k.ev.kind = "checkout" THEN k.seen.sid = NoSub ELSE rows[k.row].sid # NoSub
  PROVE  BInv'
<1>1. hooks' = [g \in Hooks |-> hooks'[g]] /\ \A g \in Hooks : hooks'[g] = IF g = h THEN k ELSE hooks[g]
  BY DEF BInv, Typed
<1>2. RowsGo
  BY RowsStay
<1>3. Typed'
  BY <1>1, <1>2 DEF BInv, Typed, RowsGo, RequestOK, RowOK, HookOK
<1>4. Known'
  BY <1>1 DEF BInv, Known
<1>5. Paid'
  BY <1>1 DEF BInv, Paid, Announces, RenewalsAnnouncedOnce
<1> QED
  BY <1>2, <1>3, <1>4, <1>5, RowsGoOn, LockedStays DEF BInv

LEMMA HookReads ==
  ASSUME BInv, NEW h \in Hooks, CheckoutRetrieve(h) \/ CheckoutRead(h) \/ HookRead(h) \/ HookDies(h)
  PROVE  BInv'
<1> USE DEF HookUnchanged, consuming, scheduled, frontEnd, topics
<1>1. /\ UNCHANGED <<rows, held, jobs, request, invoices, paidSent, expiredSent>>
      /\ \A e \in events' : EventOK(e)
  BY DEF BInv, Typed, EventOK, CheckoutRetrieve, CheckoutRead, HookRead, HookDies, Answer
<1>2. HookOK(HookIdle) /\ HookIdle.pc = "idle"
  BY DEF HookOK, HookIdle
<1>3. CASE hooks' = [hooks EXCEPT ![h] = HookIdle]
  BY <1>1, <1>2, <1>3, HookMoves
<1>4. CASE UNCHANGED hooks
  <2>1. hooks' = [hooks EXCEPT ![h] = hooks[h]]
    BY <1>4 DEF BInv, Typed
  <2>2. RowsGo
    BY <1>1, RowsStay
  <2>3. RequestOK'
    BY <1>1 DEF BInv, Typed, RequestOK, RowOK
  <2> QED
    BY <1>1, <1>4, <2>2, <2>3, TypedStays, RowsGoOn, PaidStays, LockedStays DEF BInv
<1>5. CASE CheckoutRetrieve(h)
  <2>1. PICK e \in events : e.kind = "checkout" /\ hooks' = [hooks EXCEPT ![h] =
                              [pc |-> "retrieved", ev |-> e, got |-> stripe[e.sub].status]]
    BY <1>5 DEF CheckoutRetrieve
  <2> DEFINE k == [pc |-> "retrieved", ev |-> e, got |-> stripe[e.sub].status]
  <2>2. HookOK(k) /\ k.pc = "retrieved"
    BY <2>1 DEF BInv, Typed, HookOK
  <2> HIDE DEF k
  <2> QED
    BY <1>1, <2>1, <2>2, HookMoves DEF k
<1>6. ASSUME NEW e, EventOK(e), NEW got, NEW r \in Present,
             IF e.kind = "checkout" THEN rows[r].sid = NoSub ELSE rows[r].sid # NoSub,
             hooks' = [hooks EXCEPT ![h] = [pc |-> "commit", ev |-> e, row |-> r, got |-> got, seen |-> rows[r]]]
      PROVE  BInv'
  <2> DEFINE k == [pc |-> "commit", ev |-> e, row |-> r, got |-> got, seen |-> rows[r]]
  <2>1. HookOK(k) /\ k.pc = "commit" /\ k.row = r /\ k.ev = e /\ k.seen = rows[r]
    BY <1>6 DEF HookOK, Present
  <2>2. rows[r].status # "absent"
    BY DEF Present
  <2>3. hooks' = [hooks EXCEPT ![h] = k]
    BY <1>6
  <2> HIDE DEF k
  <2> QED
    BY <1>1, <1>6, <2>1, <2>2, <2>3, HookMoves
<1>7. CASE CheckoutRead(h) /\ Linked(NoSub) # {}
  <2>1. EventOK(hooks[h].ev) /\ hooks[h].ev.kind = "checkout"
    BY <1>7 DEF CheckoutRead, BInv, Typed, HookOK, HookIdle
  <2>2. PICK r \in Linked(NoSub) : hooks' = [hooks EXCEPT ![h] =
          [pc |-> "commit", ev |-> hooks[h].ev, row |-> r, got |-> hooks[h].got, seen |-> rows[r]]]
    BY <1>7 DEF CheckoutRead
  <2>3. r \in Present /\ rows[r].sid = NoSub
    BY <2>2 DEF Linked
  <2> DEFINE e == hooks[h].ev
             got == hooks[h].got
  <2>4. EventOK(e) /\ e.kind = "checkout" /\ hooks' = [hooks EXCEPT ![h] =
          [pc |-> "commit", ev |-> e, row |-> r, got |-> got, seen |-> rows[r]]]
    BY <2>1, <2>2
  <2> HIDE DEF e, got
  <2> QED
    BY <1>6, <2>3, <2>4
<1>8. CASE HookRead(h) /\ ~UNCHANGED hooks
  <2>1. PICK e \in events : /\ e.kind # "checkout"
                            /\ \E r \in Linked(e.sub) : hooks' = [hooks EXCEPT ![h] =
                                 [pc |-> "commit", ev |-> e, row |-> r, got |-> e.status, seen |-> rows[r]]]
    BY <1>8 DEF HookRead
  <2>2. EventOK(e) /\ e.sub # NoSub
    BY <2>1, ConstantsAssumption DEF BInv, Typed, EventOK
  <2>3. PICK r \in Linked(e.sub) : hooks' = [hooks EXCEPT ![h] =
          [pc |-> "commit", ev |-> e, row |-> r, got |-> e.status, seen |-> rows[r]]]
    BY <2>1
  <2>4. r \in Present /\ rows[r].sid # NoSub
    BY <2>2, <2>3 DEF Linked
  <2> DEFINE got == e.status
  <2>5. hooks' = [hooks EXCEPT ![h] = [pc |-> "commit", ev |-> e, row |-> r, got |-> got, seen |-> rows[r]]]
    BY <2>3
  <2> HIDE DEF got
  <2> QED
    BY <1>6, <2>1, <2>2, <2>4, <2>5
<1> QED
  BY <1>3, <1>4, <1>5, <1>7, <1>8 DEF CheckoutRead, HookDies

\* The property of OnlyStripeRevives, of one step.
RevivesPaid ==
  \A r \in Rows : rows[r].status = "cancelled" /\ rows'[r].status # "cancelled"
    => rows'[r].sid # NoSub /\ \E h \in Hooks : WebhookWrites(h, r)

LEMMA HookCommits ==
  ASSUME BInv, NEW h \in Hooks, HookCommit(h)
  PROVE  BInv' /\ RevivesPaid
<1> USE DEF external, consuming, scheduled, frontEnd, topics
<1> DEFINE k == hooks[h]
           now == rows[k.row]
           new == NewRow(k)
           after == Updated(now, k.seen, new)
           i == <<k.ev.sub, k.ev.bill>>
<1>1. /\ k = [pc |-> "commit", ev |-> k.ev, row |-> k.row, got |-> k.got, seen |-> k.seen]
      /\ EventOK(k.ev) /\ k.row \in Rows /\ k.pc = "commit"
  BY DEF HookCommit, BInv, Typed, HookOK, HookIdle
<1>2. UNCHANGED <<held, events, jobs, request, paidSent, expiredSent>>
  BY DEF HookCommit
<1>3. CASE Refused(k)
  <2>1. HookOK(HookIdle) /\ HookIdle.pc = "idle"
    BY DEF HookOK, HookIdle
  <2>2. hooks' = [hooks EXCEPT ![h] = HookIdle] /\ UNCHANGED <<rows, invoices>>
    BY <1>3 DEF HookCommit
  <2>3. \A e \in events' : EventOK(e)
    BY <1>2 DEF BInv, Typed, EventOK
  <2>4. RevivesPaid
    BY <2>2 DEF RevivesPaid
  <2> QED
    BY <1>2, <2>1, <2>2, <2>3, <2>4, HookMoves
<1>4. CASE ~Refused(k)
  <2>1. /\ rows' = [rows EXCEPT ![k.row] = after]
        /\ invoices' = IF k.ev.kind = "paid" THEN invoices \cup {i} ELSE invoices
        /\ hooks' = [hooks EXCEPT ![h].pc = "publish"]
    BY <1>4 DEF HookCommit
  <2>2. RowOK(now) /\ now.status # "absent"
    BY <1>1 DEF BInv, Typed, RowsOK, Known
  <2>3. /\ new.sid = IF k.ev.kind = "checkout" THEN k.ev.sub ELSE k.seen.sid
        /\ new.status \in Statuses
    BY <1>4 DEF NewRow, Refused
  <2>4. IF k.ev.kind = "checkout" THEN k.seen.sid = NoSub ELSE now.sid # NoSub
    BY <1>1 DEF BInv, Known
  <2>5. k.ev.sub \in Subs /\ k.ev.sub # NoSub
    BY <1>1, ConstantsAssumption DEF EventOK
  <2>6. after = [sid    |-> IF new.sid = k.seen.sid THEN now.sid ELSE new.sid,
                 status |-> IF new.status = k.seen.status THEN now.status ELSE new.status,
                 cancel |-> IF new.cancel = k.seen.cancel THEN now.cancel ELSE new.cancel]
    <3> HIDE DEF now, new
    <3> QED
      BY <2>2, UpdatedRow
  <2> HIDE DEF new
  <2>7. RowOK(after) /\ after.sid # NoSub /\ after.status # "absent"
    BY <2>2, <2>3, <2>4, <2>5, <2>6 DEF RowOK, Statuses
  <2> HIDE DEF after
  <2>8. /\ rows' = [r \in Rows |-> rows'[r]]
        /\ \A r \in Rows : rows'[r] = IF r = k.row THEN after ELSE rows[r]
    BY <1>1, <2>1 DEF BInv, Typed, RowsOK
  <2>9. RowsGo /\ \A r \in Rows : rows'[r] = rows[r] \/ (r = k.row /\ rows'[r].sid # NoSub)
    BY <2>7, <2>8 DEF BInv, Typed, RowsOK, RowsGo, Over
  <2> DEFINE k2 == [pc |-> "publish", ev |-> k.ev, row |-> k.row, got |-> k.got, seen |-> k.seen]
  <2>10. /\ hooks' = [g \in Hooks |-> hooks'[g]]
         /\ \A g \in Hooks : hooks'[g] = IF g = h THEN k2 ELSE hooks[g]
    <3>1. [hooks[h] EXCEPT !.pc = "publish"] = k2
      BY <1>1
    <3> HIDE DEF k2
    <3>2. hooks = [g \in Hooks |-> hooks[g]]
      BY DEF BInv, Typed
    <3>3. hooks' = [g \in Hooks |-> IF g = h THEN [hooks[h] EXCEPT !.pc = "publish"] ELSE hooks[g]]
      BY <2>1, <3>2
    <3> QED
      BY <3>1, <3>3
  <2>11. Typed'
    <3>1. HookOK(k2)
      BY <1>1 DEF HookOK
    <3>2. RequestOK'
      BY <1>2 DEF BInv, Typed, RequestOK, RowOK
    <3> HIDE DEF k2
    <3>3. \A g \in Hooks : HookOK(hooks'[g])
      BY <2>10, <3>1 DEF BInv, Typed
    <3> QED
      BY <1>2, <2>9, <2>10, <3>2, <3>3 DEF BInv, Typed, RowsGo, EventOK, HookOK
  <2>12. Known'
    <3>1. /\ rows'[k.row].status # "absent" /\ rows'[k.row].sid # NoSub
          /\ hooks'[h].row = k.row /\ hooks'[h].ev = k.ev /\ hooks'[h].seen = k.seen
      BY <1>1, <2>7, <2>8, <2>10
    <3> HIDE DEF k2
    <3>2. ASSUME NEW g \in Hooks, g # h, hooks'[g].pc \in {"commit", "publish"}
          PROVE  /\ rows'[hooks'[g].row].status # "absent"
                 /\ IF hooks'[g].ev.kind = "checkout" THEN hooks'[g].seen.sid = NoSub
                    ELSE rows'[hooks'[g].row].sid # NoSub
      <4>1. hooks'[g] = hooks[g] /\ hooks[g].row \in Rows
        BY <2>10, <3>2 DEF BInv, Typed, HookOK, HookIdle
      <4> QED
        BY <2>9, <3>2, <4>1 DEF BInv, Known, RowsGo
    <3> HIDE DEF k
    <3>3. k.ev.kind = "checkout" => k.seen.sid = NoSub
      BY <2>4
    <3> QED
      BY <3>1, <3>2, <3>3 DEF Known
  <2>13. Paid'
    <3>1. \A g \in Hooks, j \in Renewals : Announces(g, j) => j \in invoices
      BY DEF BInv, Paid
    <3>2. k.ev.kind = "paid" => i \notin invoices /\ i \in Subs \X Bills /\ invoices' = invoices \cup {i}
      BY <1>1, <1>4, <2>1 DEF Refused, Recorded, EventOK
    <3>3. k.ev.kind # "paid" => invoices' = invoices
      BY <2>1
    <3>4. \A g \in Hooks, j \in Renewals :
            Announces(g, j)' <=> IF g = h THEN k.ev.kind = "paid" /\ j = i ELSE Announces(g, j)
      BY <2>10 DEF Announces
    <3>5. paidSent[i] = 0 \/ k.ev.kind # "paid" \/ i \notin Renewals
      BY <3>2 DEF BInv, Paid, RenewalsAnnouncedOnce, Renewals
    <3>6. RenewalsAnnouncedOnce' /\ paidSent' \in [Subs \X Bills -> Nat]
      BY <1>2, <3>2, <3>3 DEF BInv, Paid, RenewalsAnnouncedOnce
    <3> HIDE DEF i
    <3>7. ASSUME NEW g \in Hooks, NEW j \in Renewals, Announces(g, j)'
          PROVE  j \in invoices' /\ paidSent'[j] = 0 /\ \A f \in Hooks : Announces(f, j)' => f = g
      BY <1>2, <3>1, <3>2, <3>3, <3>4, <3>5, <3>7 DEF BInv, Paid
    <3> QED
      BY <3>6, <3>7 DEF Paid
  <2>14. Told'
    BY <1>2, <2>9, RowsGoOn
  <2>15. RevivesPaid
    <3>1. WebhookWrites(h, k.row)
      BY <1>1, <2>10 DEF WebhookWrites
    <3> HIDE DEF k
    <3> QED
      BY <2>9, <3>1 DEF RevivesPaid
  <2> QED
    BY <1>2, <2>9, <2>11, <2>12, <2>13, <2>14, <2>15, LockedStays DEF BInv
<1> QED
  BY <1>3, <1>4
LEMMA HookPublishes ==
  ASSUME BInv, NEW h \in Hooks, HookPublish(h)
  PROVE  BInv' /\ UNCHANGED rows
<1> USE DEF HookUnchanged, consuming, scheduled, frontEnd
<1> DEFINE k == hooks[h]
           i == <<k.ev.sub, k.ev.bill>>
<1>1. /\ k.pc = "publish" /\ hooks' = [hooks EXCEPT ![h] = HookIdle]
      /\ UNCHANGED <<rows, held, jobs, request, invoices, expiredSent>>
      /\ \A e \in events' : EventOK(e)
  BY DEF HookPublish, AnswerOrLose, Answer, BInv, Typed, EventOK
<1>2. /\ hooks' = [g \in Hooks |-> hooks'[g]]
      /\ \A g \in Hooks : hooks'[g] = IF g = h THEN HookIdle ELSE hooks[g]
  BY <1>1 DEF BInv, Typed
<1>3. RowsGo
  BY <1>1, RowsStay
<1>4. Typed'
  BY <1>1, <1>2, <1>3 DEF BInv, Typed, RowsGo, RequestOK, RowOK, HookOK
<1>5. Known'
  BY <1>1, <1>2 DEF BInv, Known, HookIdle
<1>6. Paid'
  <2>1. \A g \in Hooks, j \in Renewals : Announces(g, j)' <=> g # h /\ Announces(g, j)
    BY <1>2 DEF Announces, HookIdle
  <2>2. CASE k.ev.kind = "paid" \/ k.ev.kind = "checkout"
    <3>1. i \in Subs \X Bills /\ (k.ev.kind = "checkout" => i \notin Renewals)
      BY <1>1, <2>2 DEF BInv, Typed, HookOK, EventOK, HookIdle, Renewals
    <3>2. paidSent' = [paidSent EXCEPT ![i] = @ + 1]
      BY <2>2 DEF HookPublish
    <3>3. k.ev.kind = "paid" => Announces(h, i)
      BY <1>1 DEF Announces
    <3> HIDE DEF i
    <3>4. /\ paidSent' \in [Subs \X Bills -> Nat]
          /\ \A j \in Subs \X Bills : paidSent'[j] = IF j = i THEN paidSent[i] + 1 ELSE paidSent[j]
      BY <3>1, <3>2 DEF BInv, Paid
    <3>5. i \in Renewals => /\ i \in invoices /\ paidSent[i] = 0
                            /\ \A g \in Hooks : Announces(g, i) => g = h
      BY <2>2, <3>1, <3>3 DEF BInv, Paid
    <3>6. RenewalsAnnouncedOnce'
      BY <1>1, <3>4, <3>5 DEF BInv, Paid, RenewalsAnnouncedOnce, Renewals
    <3>7. \A j \in Renewals : j \in Subs \X Bills
      BY DEF Renewals
    <3> QED
      BY <1>1, <2>1, <3>4, <3>5, <3>6, <3>7 DEF BInv, Paid
  <2>3. CASE ~(k.ev.kind = "paid" \/ k.ev.kind = "checkout")
    <3>1. UNCHANGED paidSent
      BY <2>3 DEF HookPublish
    <3> QED
      BY <1>1, <2>1, <3>1 DEF BInv, Paid, RenewalsAnnouncedOnce
  <2> QED
    BY <2>2, <2>3
<1> QED
  BY <1>1, <1>3, <1>4, <1>5, <1>6, RowsGoOn, LockedStays DEF BInv

-----------------------------------------------------------------------------
(* The nightly job.                                                           *)

\* What no step of the job touches.
LEMMA JobKeeps ==
  ASSUME BInv, RowsGo, JobUnchanged, UNCHANGED request
  PROVE  Typed' /\ Known' /\ Paid'
<1>1. UNCHANGED <<hooks, events, invoices, paidSent>> /\ \A e \in events' : EventOK(e)
  BY DEF JobUnchanged, external, BInv, Typed, EventOK
<1>2. RequestOK'
  BY DEF BInv, Typed, RequestOK, RowOK
<1> QED
  BY <1>1, <1>2, TypedStays, RowsGoOn, PaidStays

\* Two replicas are never at it together.
LEMMA OneAtWork ==
  ASSUME Locked, NEW p \in Replicas, NEW q \in Replicas, At(p), At(q)
  PROVE  p = q
<1>1. PICK c \in PoolOf(p) : held[c] > 0
  BY DEF Locked
<1>2. PICK d \in PoolOf(q) : held[d] > 0
  BY DEF Locked
<1>3. c = d
  BY <1>1, <1>2 DEF Locked, PoolOf
<1> QED
  BY <1>1, <1>2, <1>3 DEF PoolOf

LEMMA JobReads ==
  ASSUME BInv, NEW p \in Replicas, JobRead(p)
  PROVE  BInv' /\ UNCHANGED rows
<1> USE DEF JobUnchanged, consuming, frontEnd
<1>1. UNCHANGED <<rows, request, expiredSent>> /\ RowsGo
  BY RowsStay DEF JobRead
<1>2. CASE UNCHANGED <<held, jobs>>
  BY <1>1, <1>2, JobKeeps, RowsGoOn, LockedStays DEF BInv, JobRead
<1>3. CASE ~UNCHANGED <<held, jobs>>
  <2>1. PICK c \in PoolOf(p) :
          /\ CanLock(c) /\ held' = [held EXCEPT ![c] = @ + 1]
          /\ jobs' = [jobs EXCEPT ![p] = [pc |-> AfterList, found |-> Expirable]]
    BY <1>3 DEF JobRead
  <2>2. c \in Conns /\ held \in [Conns -> Nat] /\ \A d \in Conns \ {c} : held[d] = 0
    BY <2>1 DEF CanLock, PoolOf, BInv, Locked
  <2>3. /\ held' \in [Conns -> Nat] /\ held'[c] > 0
        /\ \A d \in Conns \ {c} : held'[d] = 0
    BY <2>1, <2>2
  <2>4. AfterList \in {"unlock", "commit"} /\ Expirable \subseteq Rows
    BY DEF AfterList, Expirable, Linked, Present
  <2>5. \A q \in Replicas : jobs'[q] = IF q = p THEN [pc |-> AfterList, found |-> Expirable] ELSE jobs[q]
    BY <2>1 DEF BInv, Locked
  <2>6. jobs' \in [Replicas -> [pc : {"idle", "commit", "publish", "unlock"}, found : SUBSET Rows]]
    BY <2>1, <2>4 DEF BInv, Locked
  <2>7. \A q \in Replicas : At(q) => q = p
    <3>1. SUFFICES ASSUME NEW q \in Replicas, At(q) PROVE q = p
      OBVIOUS
    <3>2. PICK d \in PoolOf(q) : held[d] > 0
      BY <3>1 DEF BInv, Locked
    <3>3. d = c
      BY <2>2, <3>2 DEF PoolOf
    <3> QED
      BY <2>1, <3>2, <3>3 DEF PoolOf
  <2>8. Locked'
    <3>1. \A q \in Replicas : At(q)' => q = p
      BY <2>5, <2>7 DEF At
    <3> QED
      BY <2>1, <2>3, <2>6, <3>1 DEF Locked, PoolOf
  <2>9. Told'
    <3>1. \A r \in Expirable : r \in Rows /\ ~Over(r) /\ rows[r].status # "absent"
      BY DEF Expirable, Linked, Present, Over
    <3>2. \A r \in Expirable : expiredSent[r] = 0
      BY <3>1 DEF BInv, Told, ExpiredOnce
    <3>3. \A q \in Replicas : At(q)' => q = p /\ jobs'[q].found = Expirable /\ jobs'[q].pc # "publish"
      BY <2>4, <2>5, <2>7 DEF At
    <3> QED
      BY <1>1, <3>1, <3>2, <3>3 DEF BInv, Told, Over, ExpiredOnce
  <2> QED
    BY <1>1, <2>8, <2>9, JobKeeps DEF BInv, JobRead
<1> QED
  BY <1>2, <1>3
\* Only the unpaid trials that were found change, and they end.
LEMMA JobCommits ==
  ASSUME BInv, NEW p \in Replicas, JobCommit(p)
  PROVE  BInv' /\ \A r \in Rows : rows'[r] = rows[r] \/ rows'[r].status = "cancelled"
<1> USE DEF JobUnchanged, consuming, frontEnd
<1>1. /\ UNCHANGED <<held, request, expiredSent>>
      /\ At(p) /\ jobs[p].pc = "commit"
  BY DEF JobCommit, At
<1> DEFINE ended(r) == [rows[r] EXCEPT !.status = "cancelled"]
<1>2. /\ rows' = [r \in Rows |-> rows'[r]]
      /\ \A r \in Rows : rows'[r] = IF r \in jobs[p].found THEN ended(r) ELSE rows[r]
  BY DEF JobCommit
<1>3. \A r \in Rows : /\ RowOK(ended(r)) /\ ended(r).sid = rows[r].sid /\ ended(r).status = "cancelled"
  BY DEF BInv, Typed, RowsOK, RowOK
<1>4. jobs[p].found \subseteq Rows /\ \A r \in jobs[p].found : rows[r].status # "absent"
  BY <1>1 DEF BInv, Told, Locked
<1> HIDE DEF ended
<1>5. RowsGo /\ \A r \in jobs[p].found : Over(r)'
  BY <1>2, <1>3, <1>4 DEF BInv, Typed, RowsOK, RowsGo, Over
<1>6. /\ jobs' \in [Replicas -> [pc : {"idle", "commit", "publish", "unlock"}, found : SUBSET Rows]]
      /\ jobs'[p].found = jobs[p].found
      /\ \A q \in Replicas : q # p => jobs'[q] = jobs[q]
  BY DEF JobCommit, BInv, Locked
<1>7. \A q \in Replicas : At(q)' => q = p
  BY <1>1, <1>6, OneAtWork DEF BInv, At
<1>8. Locked'
  BY <1>1, <1>6, <1>7 DEF BInv, Locked
<1>9. Told'
  <2>1. \A r \in jobs[p].found : expiredSent'[r] = 0 /\ rows'[r].status # "absent" /\ Over(r)'
    BY <1>1, <1>4, <1>5 DEF BInv, Told, RowsGo
  <2>2. \A r \in Rows : expiredSent'[r] = 1 => Over(r)'
    BY <1>1, <1>5 DEF BInv, Told, RowsGo
  <2>3. expiredSent' \in [Rows -> Nat] /\ ExpiredOnce'
    BY <1>1 DEF BInv, Told, ExpiredOnce
  <2> QED
    BY <1>6, <1>7, <2>1, <2>2, <2>3 DEF Told
<1>10. \A r \in Rows : rows'[r] = rows[r] \/ rows'[r].status = "cancelled"
  BY <1>2, <1>3
<1> QED
  BY <1>1, <1>5, <1>8, <1>9, <1>10, JobKeeps DEF BInv, JobCommit

LEMMA JobPublishes ==
  ASSUME BInv, NEW p \in Replicas, JobPublish(p)
  PROVE  BInv' /\ UNCHANGED rows
<1> USE DEF JobUnchanged, consuming, frontEnd
<1>1. UNCHANGED <<rows, held, request>> /\ At(p) /\ jobs[p].pc = "publish" /\ RowsGo
  BY RowsStay DEF JobPublish, At
<1>2. PICK r \in jobs[p].found :
        /\ expiredSent' = [expiredSent EXCEPT ![r] = @ + 1]
        /\ jobs' = [jobs EXCEPT ![p] =
             [pc |-> IF @.found = {r} THEN "unlock" ELSE "publish", found |-> @.found \ {r}]]
  BY DEF JobPublish
<1>3. r \in Rows /\ expiredSent[r] = 0 /\ Over(r)
  BY <1>1 DEF BInv, Told, Locked
<1>4. /\ expiredSent' \in [Rows -> Nat]
      /\ \A q \in Rows : expiredSent'[q] = IF q = r THEN 1 ELSE expiredSent[q]
  BY <1>2, <1>3 DEF BInv, Told
<1>5. /\ jobs' \in [Replicas -> [pc : {"idle", "commit", "publish", "unlock"}, found : SUBSET Rows]]
      /\ jobs'[p].found = jobs[p].found \ {r}
      /\ \A q \in Replicas : q # p => jobs'[q] = jobs[q]
  BY <1>2 DEF BInv, Locked
<1>6. \A q \in Replicas : At(q)' => q = p
  BY <1>1, <1>5, OneAtWork DEF BInv, At
<1>7. Locked'
  BY <1>1, <1>5, <1>6 DEF BInv, Locked
<1>8. \A q \in Rows : Over(q)' <=> Over(q)
  BY <1>1 DEF Over
<1>9. \A q \in jobs[p].found \ {r} : expiredSent'[q] = 0 /\ rows'[q].status # "absent" /\ Over(q)'
  BY <1>1, <1>4, <1>8 DEF BInv, Told, Locked
<1>10. ExpiredOnce' /\ \A q \in Rows : expiredSent'[q] = 1 => Over(q)'
  BY <1>3, <1>4, <1>8 DEF BInv, Told, ExpiredOnce
<1>11. Told'
  BY <1>4, <1>5, <1>6, <1>9, <1>10 DEF Told
<1> QED
  BY <1>1, <1>7, <1>11, JobKeeps DEF BInv, JobPublish

\* Whatever happens to the lock now, it is not held for anybody at work.
LEMMA JobStops ==
  ASSUME BInv, NEW p \in Replicas, JobUnlock(p) \/ JobDies(p)
  PROVE  BInv' /\ UNCHANGED rows
<1> USE DEF JobUnchanged, consuming, frontEnd
<1>1. UNCHANGED <<rows, request, expiredSent>> /\ RowsGo
  BY RowsStay DEF JobUnlock, JobDies
<1>2. /\ jobs' \in [Replicas -> [pc : {"idle", "commit", "publish", "unlock"}, found : SUBSET Rows]]
      /\ ~At(p)' /\ \A q \in Replicas : q # p => jobs'[q] = jobs[q]
  BY DEF JobUnlock, JobDies, BInv, Locked, At
<1>3. /\ held' \in [Conns -> Nat]
      /\ \A c \in Conns : held'[c] > 0 => held[c] > 0
      /\ \A c \in Conns : c \notin PoolOf(p) => held'[c] = held[c]
  BY DEF JobUnlock, JobDies, BInv, Locked, PoolOf
<1>4. \A q \in Replicas : At(q)' => q # p /\ At(q) /\ jobs'[q] = jobs[q]
  BY <1>2 DEF At
<1>5. Locked'
  BY <1>2, <1>3, <1>4 DEF BInv, Locked, PoolOf
<1>6. Told'
  BY <1>1, <1>2, <1>4 DEF BInv, Told, Over, ExpiredOnce
<1> QED
  BY <1>1, <1>5, <1>6, JobKeeps DEF BInv, JobUnlock, JobDies

-----------------------------------------------------------------------------
LEMMA BInvStep == BInv /\ [Next]_vars => BInv' /\ RevivesPaid
<1> SUFFICES ASSUME BInv, [Next]_vars PROVE BInv' /\ RevivesPaid
  OBVIOUS
<1>1. CASE \E k \in Consumers : \/ RegisterRead(k) \/ RegisterInsert(k) \/ RegisterCommit(k)
                                \/ RegisterDies(k)
  <2>1. \A r \in Rows : rows'[r] = rows[r] \/ rows[r].status = "absent"
    BY <1>1 DEF RegisterRead, RegisterInsert, RegisterCommit, RegisterDies, database, BInv, Typed,
               RowsOK, Present
  <2> QED
    BY <1>1, <2>1, RegisterSteps DEF RevivesPaid
<1>2. CASE \/ \E s \in Subs : \/ CreateCheckout(s) \/ Pay(s) \/ StripeTrialEnds(s) \/ Renew(s)
                              \/ StripeEnds(s)
           \/ TrialTimePasses
  <2>1. UNCHANGED rows
    BY <1>2 DEF CreateCheckout, Pay, StripeTrialEnds, Renew, StripeEnds, TrialTimePasses, StripeStep, database
  <2> QED
    BY <1>2, <2>1, StripeSteps DEF RevivesPaid
<1>3. CASE \E h \in Hooks : CheckoutRetrieve(h) \/ CheckoutRead(h) \/ HookRead(h) \/ HookDies(h)
  <2>1. UNCHANGED rows
    BY <1>3 DEF CheckoutRetrieve, CheckoutRead, HookRead, HookDies, HookUnchanged
  <2> QED
    BY <1>3, <2>1, HookReads DEF RevivesPaid
<1>4. CASE \E h \in Hooks : HookCommit(h)
  BY <1>4, HookCommits
<1>5. CASE \E h \in Hooks : HookPublish(h)
  BY <1>5, HookPublishes DEF RevivesPaid
<1>6. CASE \E p \in Replicas : JobRead(p) \/ JobPublish(p) \/ JobUnlock(p) \/ JobDies(p)
  BY <1>6, JobReads, JobPublishes, JobStops DEF RevivesPaid
<1>7. CASE \E p \in Replicas : JobCommit(p)
  BY <1>7, JobCommits DEF RevivesPaid
<1>8. CASE LoadPage \/ PressCancel \/ PressResume \/ Modify \/ CommitFlag
  BY <1>8, PageSteps DEF RevivesPaid
<1>9. CASE UNCHANGED vars
  <2>1. UNCHANGED <<rows, hooks, events, invoices, held, jobs, request, paidSent, expiredSent>>
    BY <1>9 DEF vars, database, external, topics, frontEnd, consuming, scheduled
  <2>2. RowsGo /\ RequestOK' /\ \A e \in events' : EventOK(e)
    BY <2>1, RowsStay DEF BInv, Typed, RequestOK, RowOK, EventOK
  <2> QED
    BY <2>1, <2>2, TypedStays, RowsGoOn, PaidStays, LockedStays DEF BInv, RevivesPaid
<1> QED
  BY <1>1, <1>2, <1>3, <1>4, <1>5, <1>6, <1>7, <1>8, <1>9 DEF Next

\* Stripe repeats its events until they are answered, and several requests may work on one
\* together; payment.succeeded is sent once for a renewal at most, and of one that is recorded
\* (handle_payment_succeeded).
THEOREM RenewalsAreAnnouncedOnce == Spec => []RenewalsAnnouncedOnce
<1>1. BInv => RenewalsAnnouncedOnce
  BY DEF BInv, Paid
<1> QED
  BY <1>1, BInvInit, BInvStep, PTL DEF Spec

\* Any number of replicas with pools of any size, runs that die and locks that stay behind:
\* the user of a row is told once at most that the trial has expired (expire_trials).
THEOREM TrialsExpireOnce == Spec => []ExpiredOnce
<1>1. BInv => ExpiredOnce
  BY DEF BInv, Told
<1> QED
  BY <1>1, BInvInit, BInvStep, PTL DEF Spec

\* A row that was cancelled is anything else again only by a webhook, and linked to a subscription
\* of Stripe then: neither the page, nor the job, nor a new registration revives it.
THEOREM NoFreeRevival == Spec => OnlyStripeRevives
<1>1. BInv /\ [Next]_vars => [RevivesPaid]_vars
  BY BInvStep
<1> QED
  BY <1>1, BInvInit, BInvStep, PTL DEF Spec, OnlyStripeRevives, RevivesPaid

-----------------------------------------------------------------------------
(* The trials: whoever is about to open one has found none, and opens one.    *)

Inserting == {k \in Consumers : members[k] = "insert"}

\* Once there is a row nobody begins to open another: those who are at it are all there will be.
TrialsBounded ==
  Present # {} => Cardinality(Present) + Cardinality(Inserting) <= Cardinality(Consumers)

TrialInv == members = [k \in Consumers |-> members[k]] /\ TrialsBounded

LEMMA FiniteHere ==
  /\ IsFiniteSet(Consumers) /\ Cardinality(Consumers) \in Nat
  /\ IsFiniteSet(Present) /\ Cardinality(Present) \in Nat
  /\ IsFiniteSet(Inserting) /\ Cardinality(Inserting) \in Nat
  /\ Cardinality(Inserting) <= Cardinality(Consumers)
<1>1. IsFiniteSet(Consumers) /\ IsFiniteSet(Rows)
  BY ConstantsAssumption
<1>2. Inserting \in SUBSET Consumers /\ Present \in SUBSET Rows
  BY DEF Inserting, Present
<1>3. IsFiniteSet(Inserting) /\ Cardinality(Inserting) <= Cardinality(Consumers) /\ IsFiniteSet(Present)
  BY <1>1, <1>2, FS_Subset
<1> QED
  BY <1>1, <1>3, FS_CardinalityType

LEMMA TrialInvInit == Init => TrialInv
BY DEF Init, TrialInv, TrialsBounded, Present, Absent

\* Nothing but a registration makes a row appear: the others write rows that are there.
LEMMA NoneAppears ==
  ASSUME BInv, [Next]_vars, ~\E k \in Consumers : RegisterInsert(k)
  PROVE  Present' \subseteq Present
<1>1. SUFFICES ASSUME NEW r \in Rows, rows[r].status = "absent" PROVE rows'[r].status = "absent"
  BY DEF Present
<1>2. CASE UNCHANGED rows
  BY <1>1, <1>2
<1>3. ASSUME NEW h \in Hooks, HookCommit(h) PROVE rows'[r].status = "absent"
  <2>1. hooks[h].pc = "commit" /\ r # hooks[h].row
    BY <1>1, <1>3 DEF HookCommit, BInv, Known
  <2>2. UNCHANGED rows \/ \E x : rows' = [rows EXCEPT ![hooks[h].row] = x]
    BY <1>3 DEF HookCommit
  <2> QED
    BY <1>1, <2>1, <2>2 DEF BInv, Typed, RowsOK
<1>4. ASSUME NEW p \in Replicas, JobCommit(p) PROVE rows'[r].status = "absent"
  <2>1. r \notin jobs[p].found
    BY <1>1, <1>4 DEF JobCommit, BInv, Told, At
  <2> QED
    BY <1>1, <1>4, <2>1 DEF JobCommit
<1>5. CASE CommitFlag
  BY <1>1, <1>5, PageSteps
<1>6. CASE \E k \in Consumers : RegisterRead(k) \/ RegisterCommit(k) \/ RegisterDies(k)
  BY <1>2, <1>6 DEF RegisterRead, RegisterCommit, RegisterDies, database
<1>7. CASE \/ \E s \in Subs : \/ CreateCheckout(s) \/ Pay(s) \/ StripeTrialEnds(s) \/ Renew(s)
                              \/ StripeEnds(s)
           \/ TrialTimePasses
  <2>1. UNCHANGED rows
    <3>1. ASSUME NEW s \in Subs, NEW st, NEW n, NEW kinds, StripeStep(s, st, n, kinds) PROVE UNCHANGED rows
      BY <3>1 DEF StripeStep, database
    <3>2. ASSUME NEW s \in Subs, CreateCheckout(s) PROVE UNCHANGED rows
      BY <3>2 DEF CreateCheckout, database
    <3>3. ASSUME NEW s \in Subs, Pay(s) \/ StripeTrialEnds(s) \/ Renew(s) \/ StripeEnds(s) PROVE UNCHANGED rows
      BY <3>1, <3>3 DEF Pay, StripeTrialEnds, Renew, StripeEnds
    <3> QED
      BY <1>7, <3>2, <3>3 DEF TrialTimePasses, database
  <2> QED
    BY <1>2, <2>1
<1>8. CASE \E h \in Hooks : \/ CheckoutRetrieve(h) \/ CheckoutRead(h) \/ HookRead(h) \/ HookPublish(h)
                            \/ HookDies(h)
  BY <1>2, <1>8 DEF CheckoutRetrieve, CheckoutRead, HookRead, HookPublish, HookDies, HookUnchanged
<1>9. CASE \E p \in Replicas : JobRead(p) \/ JobPublish(p) \/ JobUnlock(p) \/ JobDies(p)
  BY <1>2, <1>9 DEF JobRead, JobPublish, JobUnlock, JobDies
<1>10. CASE LoadPage \/ PressCancel \/ PressResume \/ Modify
  BY <1>2, <1>10 DEF LoadPage, PressCancel, PressResume, Press, Modify
<1>11. CASE UNCHANGED vars
  BY <1>2, <1>11 DEF vars, database
<1> QED
  BY <1>3, <1>4, <1>5, <1>6, <1>7, <1>8, <1>9, <1>10, <1>11 DEF Next

\* Who does not open a trial joins those who will only while there is none.
LEMMA OthersWait ==
  ASSUME TrialInv, [Next]_vars, ~\E k \in Consumers : RegisterInsert(k)
  PROVE  /\ members' = [k \in Consumers |-> members'[k]]
         /\ Present = {} \/ Inserting' \subseteq Inserting
<1>1. CASE UNCHANGED members
  BY <1>1 DEF TrialInv, Inserting
<1>2. ASSUME NEW k \in Consumers, RegisterRead(k) \/ RegisterCommit(k) \/ RegisterDies(k)
      PROVE  /\ members' = [j \in Consumers |-> members'[j]]
             /\ Present = {} \/ Inserting' \subseteq Inserting
  BY <1>2 DEF TrialInv, Inserting, RegisterRead, RegisterCommit, RegisterDies, HasSubscription
<1>3. CASE \/ \E s \in Subs : \/ CreateCheckout(s) \/ Pay(s) \/ StripeTrialEnds(s) \/ Renew(s)
                              \/ StripeEnds(s)
           \/ TrialTimePasses
  <2>1. UNCHANGED members
    <3>1. ASSUME NEW s \in Subs, NEW st, NEW n, NEW kinds, StripeStep(s, st, n, kinds) PROVE UNCHANGED members
      BY <3>1 DEF StripeStep, consuming
    <3>2. ASSUME NEW s \in Subs, CreateCheckout(s) PROVE UNCHANGED members
      BY <3>2 DEF CreateCheckout, consuming
    <3>3. ASSUME NEW s \in Subs, Pay(s) \/ StripeTrialEnds(s) \/ Renew(s) \/ StripeEnds(s) PROVE UNCHANGED members
      BY <3>1, <3>3 DEF Pay, StripeTrialEnds, Renew, StripeEnds
    <3> QED
      BY <1>3, <3>2, <3>3 DEF TrialTimePasses, consuming
  <2> QED
    BY <1>1, <2>1
<1>4. CASE \E h \in Hooks : \/ CheckoutRetrieve(h) \/ CheckoutRead(h) \/ HookRead(h) \/ HookCommit(h)
                            \/ HookPublish(h) \/ HookDies(h)
  BY <1>1, <1>4 DEF CheckoutRetrieve, CheckoutRead, HookRead, HookCommit, HookPublish, HookDies, HookUnchanged,
                    consuming
<1>5. CASE \E p \in Replicas : JobRead(p) \/ JobCommit(p) \/ JobPublish(p) \/ JobUnlock(p) \/ JobDies(p)
  BY <1>1, <1>5 DEF JobRead, JobCommit, JobPublish, JobUnlock, JobDies, JobUnchanged, consuming
<1>6. CASE LoadPage \/ PressCancel \/ PressResume \/ Modify \/ CommitFlag
  BY <1>1, <1>6 DEF LoadPage, PressCancel, PressResume, Press, Modify, CommitFlag, PageUnchanged, consuming
<1>7. CASE UNCHANGED vars
  BY <1>1, <1>7 DEF vars, consuming
<1> QED
  BY <1>2, <1>3, <1>4, <1>5, <1>6, <1>7 DEF Next

\* A trial is opened: one row more, and one member less that is about to.
LEMMA InsertBounded ==
  ASSUME BInv, TrialInv, NEW k \in Consumers, RegisterInsert(k)
  PROVE  TrialInv'
<1>1. PICK r \in Rows \ Present : rows' = [rows EXCEPT ![r] = Trial]
  BY DEF RegisterInsert
<1>2. Present' = Present \cup {r} /\ r \notin Present
  BY <1>1 DEF Present, Trial, BInv, Typed, RowsOK
<1>3. /\ members' = [j \in Consumers |-> members'[j]]
      /\ k \in Inserting /\ Inserting' = Inserting \ {k}
  BY DEF RegisterInsert, TrialInv, Inserting
<1>4. Cardinality(Present') = Cardinality(Present) + 1
  BY <1>2, FiniteHere, FS_AddElement
<1>5. Cardinality(Inserting') = Cardinality(Inserting) - 1
  BY <1>3, FiniteHere, FS_RemoveElement
<1>6. Present = {} => Cardinality(Present) = 0
  BY FS_EmptySet
<1> QED
  BY <1>3, <1>4, <1>5, <1>6, FiniteHere DEF TrialInv, TrialsBounded

LEMMA TrialInvStep == BInv /\ TrialInv /\ [Next]_vars => TrialInv'
<1> SUFFICES ASSUME BInv, TrialInv, [Next]_vars, ~\E k \in Consumers : RegisterInsert(k) PROVE TrialInv'
  BY InsertBounded
<1>1. /\ Present' \subseteq Present
      /\ members' = [k \in Consumers |-> members'[k]]
      /\ Present = {} \/ Inserting' \subseteq Inserting
  BY NoneAppears, OthersWait
<1>2. CASE Present' = {}
  BY <1>1, <1>2 DEF TrialInv, TrialsBounded
<1>3. CASE Present' # {}
  <2>1. Present # {} /\ Present' \in SUBSET Present /\ Inserting' \in SUBSET Inserting
    BY <1>1, <1>3
  <2>2. /\ Cardinality(Present') <= Cardinality(Present) /\ Cardinality(Present') \in Nat
        /\ Cardinality(Inserting') <= Cardinality(Inserting) /\ Cardinality(Inserting') \in Nat
    BY <2>1, FiniteHere, FS_Subset, FS_CardinalityType
  <2> QED
    BY <1>1, <2>1, <2>2, FiniteHere DEF TrialInv, TrialsBounded
<1> QED
  BY <1>2, <1>3

\* handle_user_registered: wherever consumers die, and however often the message comes again, a
\* user gets no more trials than there are members that may work on the message.
THEOREM NoMoreTrialsThanMembers == Spec => []TrialsWithinMembers
<1>1. TrialInv => TrialsWithinMembers
  BY FiniteHere, FS_EmptySet DEF TrialInv, TrialsBounded, TrialsWithinMembers
<1> QED
  BY <1>1, BInvInit, BInvStep, TrialInvInit, TrialInvStep, PTL DEF Spec

-----------------------------------------------------------------------------
(* Types.                                                                     *)

Bought == [status : StripeStatuses, cancel : BOOLEAN, trial : BOOLEAN, bills : Nat]

RowsTyped == rows \in [Rows -> Row] /\ invoices \subseteq Subs \X Bills
StripeTyped == stripe \in [Subs -> Bought] /\ events \subseteq Event
HooksTyped == \A h \in Hooks : hooks[h] \in HookTypes
ConsumersTyped ==
  message \in BOOLEAN /\ members \in [Consumers -> {"idle", "insert", "ack"}] /\ group \in Nat
PageTyped == page \in {"none", "cancel", "resume"} /\ request \in RequestTypes
BoundsTyped ==
  /\ trialOver \in BOOLEAN /\ faults \in Nat /\ atOnce \in Nat /\ runs \in Nat
  /\ clicks \in Nat /\ news \in Nat

TInv == RowsTyped /\ StripeTyped /\ HooksTyped /\ ConsumersTyped /\ PageTyped /\ BoundsTyped

LEMMA TInvInit == Init => TInv
<1> SUFFICES ASSUME Init PROVE TInv
  OBVIOUS
<1>1. RowsTyped
  BY DEF Init, RowsTyped, Absent, Row, Statuses
<1>2. StripeTyped
  BY DEF Init, StripeTyped, Bought, StripeStatuses
<1>3. HooksTyped /\ PageTyped
  BY DEF Init, HooksTyped, HookTypes, PageTyped, RequestTypes
<1>4. ConsumersTyped
  <2>1. message \in BOOLEAN /\ members \in [Consumers -> {"idle", "insert", "ack"}]
    BY DEF Init
  <2>2. group \in Nat
    BY ConstantsAssumption DEF Init
  <2> QED
    BY <2>1, <2>2 DEF ConsumersTyped
<1>5. BoundsTyped
  <2>1. PICK s \in [members : Nat, hooks : Nat, runs : Nat, clicks : Nat, news : Nat] :
          atOnce = s.hooks /\ runs = s.runs /\ clicks = s.clicks /\ news = s.news
    BY ConstantsAssumption DEF Init
  <2>2. atOnce \in Nat /\ runs \in Nat /\ clicks \in Nat /\ news \in Nat
    BY <2>1
  <2> QED
    BY <2>2 DEF Init, BoundsTyped
<1> QED
  BY <1>1, <1>2, <1>3, <1>4, <1>5 DEF TInv

\* What an UPDATE leaves is a row again.
LEMMA UpdatedType ==
  ASSUME NEW now \in Row, NEW new \in Row, NEW seen
  PROVE  Updated(now, seen, new) \in Row
<1>1. RowOK(now)
  BY DEF Row, RowOK
<1>2. PICK a, b, c : /\ a \in {now.sid, new.sid} /\ b \in {now.status, new.status}
                     /\ c \in {now.cancel, new.cancel}
                     /\ Updated(now, seen, new) = [sid |-> a, status |-> b, cancel |-> c]
  <2> DEFINE x == IF new.sid = seen.sid THEN now.sid ELSE new.sid
             y == IF new.status = seen.status THEN now.status ELSE new.status
             z == IF new.cancel = seen.cancel THEN now.cancel ELSE new.cancel
  <2>1. Updated(now, seen, new) = [sid |-> x, status |-> y, cancel |-> z]
    BY <1>1, UpdatedRow
  <2>2. x \in {now.sid, new.sid} /\ y \in {now.status, new.status} /\ z \in {now.cancel, new.cancel}
    OBVIOUS
  <2> HIDE DEF x, y, z
  <2> QED
    BY <2>1, <2>2
<1>3. a \in Subs \cup {NoSub} /\ b \in Statuses \cup {"absent"}
  BY <1>2 DEF Row
<1>4. c \in BOOLEAN
  BY <1>2, Zenon DEF Row
<1> QED
  BY <1>2, <1>3, <1>4 DEF Row

\* Stripe's step, whatever it tells.
LEMMA StripeStepTypes ==
  ASSUME StripeTyped, NEW s \in Subs, NEW st \in Bought, NEW n \in Bills, NEW kinds \in SUBSET Kinds,
         stripe' = [stripe EXCEPT ![s] = st],
         events' = events \cup {Tell(kind, s, n, st) : kind \in kinds}
  PROVE  StripeTyped'
<1>1. stripe' \in [Subs -> Bought]
  BY DEF StripeTyped
<1>2. ASSUME NEW kind \in Kinds PROVE Tell(kind, s, n, st) \in Event
  <2>1. PICK t, c : t = st.status /\ c = st.cancel /\ t \in StripeStatuses /\ c \in BOOLEAN
    BY DEF Bought
  <2> QED
    BY <2>1 DEF Tell, Event
<1> QED
  BY <1>1, <1>2 DEF StripeTyped

\* A subscription of Stripe with another status, or a wish to end it.
LEMMA BoughtTypes ==
  ASSUME NEW x \in Bought
  PROVE  /\ \A st \in StripeStatuses : [x EXCEPT !.status = st] \in Bought
         /\ \A b \in BOOLEAN : [x EXCEPT !.cancel = b] \in Bought
         /\ \A st \in StripeStatuses, b \in BOOLEAN : [x EXCEPT !.status = st, !.trial = b] \in Bought
         /\ \A st \in StripeStatuses, n \in Nat : [x EXCEPT !.status = st, !.bills = n] \in Bought
         /\ \A st \in StripeStatuses, b \in BOOLEAN, n \in Nat :
              [x EXCEPT !.status = st, !.trial = b, !.bills = n] \in Bought
<1>1. ASSUME NEW st \in StripeStatuses PROVE [x EXCEPT !.status = st] \in Bought
  BY DEF Bought
<1>2. ASSUME NEW b \in BOOLEAN PROVE [x EXCEPT !.cancel = b] \in Bought
  BY DEF Bought
<1>3. ASSUME NEW y \in Bought, NEW b \in BOOLEAN PROVE [y EXCEPT !.trial = b] \in Bought
  BY DEF Bought
<1>4. ASSUME NEW y \in Bought, NEW n \in Nat PROVE [y EXCEPT !.bills = n] \in Bought
  BY DEF Bought
<1>5. ASSUME NEW st \in StripeStatuses, NEW b \in BOOLEAN PROVE [x EXCEPT !.status = st, !.trial = b] \in Bought
  BY <1>1, <1>3, Zenon
<1>6. ASSUME NEW st \in StripeStatuses, NEW n \in Nat PROVE [x EXCEPT !.status = st, !.bills = n] \in Bought
  BY <1>1, <1>4, Zenon
<1>7. ASSUME NEW st \in StripeStatuses, NEW b \in BOOLEAN, NEW n \in Nat
      PROVE  [x EXCEPT !.status = st, !.trial = b, !.bills = n] \in Bought
  BY <1>4, <1>5, Zenon
<1> QED
  BY <1>1, <1>2, <1>5, <1>6, <1>7, Zenon

LEMMA StripeTypes ==
  ASSUME TInv, NEW s \in Subs,
         CreateCheckout(s) \/ Pay(s) \/ StripeTrialEnds(s) \/ Renew(s) \/ StripeEnds(s)
  PROVE  TInv'
<1> USE DEF database, scheduled, frontEnd, topics, consuming
<1>1. /\ UNCHANGED <<rows, invoices, hooks, message, members, group, runs, page, request, clicks, trialOver, atOnce, faults>>
      /\ news' = news \/ (news > 0 /\ news' = news - 1)
  BY DEF CreateCheckout, Pay, StripeTrialEnds, Renew, StripeEnds, StripeStep, More
<1>2. RowsTyped' /\ HooksTyped' /\ ConsumersTyped' /\ PageTyped'
  BY <1>1 DEF TInv, RowsTyped, HooksTyped, ConsumersTyped, PageTyped
<1>3. BoundsTyped'
  BY <1>1 DEF TInv, BoundsTyped
<1>4. stripe[s] \in Bought /\ 1 \in Bills /\ Bills \subseteq Nat /\ StripeTyped
  BY ConstantsAssumption DEF TInv, StripeTyped
<1>5. StripeStatuses = {"none", "open", "trialing", "active", "past_due", "canceled"}
  BY DEF StripeStatuses
<1>6. ASSUME NEW st \in Bought, NEW n \in Bills, NEW kinds \in SUBSET Kinds, StripeStep(s, st, n, kinds)
      PROVE  StripeTyped'
  BY <1>4, <1>6, StripeStepTypes DEF StripeStep
<1>7. CASE CreateCheckout(s)
  <2>1. PICK b : /\ b = CarriesTrial
                 /\ stripe' = [stripe EXCEPT ![s].status = "open", ![s].trial = b] /\ UNCHANGED events
    BY <1>7, Zenon DEF CreateCheckout
  <2> DEFINE st == [stripe[s] EXCEPT !.status = "open", !.trial = b]
  <2>2. stripe' = [stripe EXCEPT ![s] = st]
    BY <1>4, <2>1 DEF StripeTyped
  <2>3. st \in Bought
    <3>1. b = TRUE \/ b = FALSE
      BY <2>1 DEF CarriesTrial
    <3>2. [stripe[s] EXCEPT !.status = "open", !.trial = TRUE] \in Bought
          /\ [stripe[s] EXCEPT !.status = "open", !.trial = FALSE] \in Bought
      BY <1>4, <1>5, BoughtTypes
    <3> QED
      BY <3>1, <3>2
  <2> HIDE DEF st
  <2>4. StripeTyped'
    BY <1>4, <2>1, <2>2, <2>3 DEF StripeTyped
  <2> QED
    BY <1>2, <1>3, <2>4 DEF TInv
<1>8. CASE Pay(s)
  <2>1. PICK t : /\ t = IF stripe[s].trial THEN "trialing" ELSE "active"
                 /\ StripeStep(s, [stripe[s] EXCEPT !.status = t, !.trial = FALSE, !.bills = 1], 1,
                               {"checkout", "paid"})
    BY <1>8, Zenon DEF Pay
  <2>2. [stripe[s] EXCEPT !.status = t, !.trial = FALSE, !.bills = 1] \in Bought
    <3>1. t \in StripeStatuses
      BY <1>5, <2>1
    <3>2. FALSE \in BOOLEAN /\ 1 \in Nat
      OBVIOUS
    <3> QED
      BY <1>4, <3>1, <3>2, BoughtTypes, Zenon
  <2>3. StripeTyped'
    BY <1>4, <1>6, <2>1, <2>2 DEF Kinds
  <2> QED
    BY <1>2, <1>3, <2>3 DEF TInv
<1>9. CASE StripeTrialEnds(s) \/ StripeEnds(s)
  <2>1. PICK t \in StripeStatuses, kinds \in SUBSET Kinds :
          StripeStep(s, [stripe[s] EXCEPT !.status = t], 1, kinds)
    BY <1>5, <1>9 DEF StripeTrialEnds, StripeEnds, Kinds
  <2>2. [stripe[s] EXCEPT !.status = t] \in Bought
    BY <1>4, <2>1, BoughtTypes, Zenon
  <2>3. StripeTyped'
    BY <1>4, <1>6, <2>1, <2>2
  <2> QED
    BY <1>2, <1>3, <2>3 DEF TInv
<1>10. CASE Renew(s)
  <2>1. PICK n : n = stripe[s].bills + 1 /\ n \in Bills
    BY <1>10 DEF Renew
  <2>2. \/ StripeStep(s, [stripe[s] EXCEPT !.status = "active", !.bills = n], n, {"paid", "updated"})
        \/ StripeStep(s, [stripe[s] EXCEPT !.status = "past_due"], n, {"failed", "updated"})
    BY <1>10, <2>1 DEF Renew
  <2>3. /\ [stripe[s] EXCEPT !.status = "active", !.bills = n] \in Bought
        /\ [stripe[s] EXCEPT !.status = "past_due"] \in Bought
    BY <1>4, <1>5, <2>1, BoughtTypes
  <2>4. StripeTyped'
    BY <1>6, <2>1, <2>2, <2>3 DEF Kinds
  <2> QED
    BY <1>2, <1>3, <2>4 DEF TInv
<1> QED
  BY <1>7, <1>8, <1>9, <1>10

LEMMA RegisterTypes ==
  ASSUME TInv, NEW k \in Consumers, RegisterRead(k) \/ RegisterInsert(k) \/ RegisterCommit(k) \/ RegisterDies(k)
  PROVE  TInv'
<1> USE DEF database, external, scheduled, frontEnd, topics, consuming
<1>1. /\ UNCHANGED <<invoices, stripe, events, trialOver, news, atOnce, group, hooks, runs, page, request, clicks>>
      /\ rows' = rows \/ (\E r \in Rows : rows' = [rows EXCEPT ![r] = Trial])
      /\ faults' = faults \/ faults' = faults + 1
  BY DEF RegisterRead, RegisterInsert, RegisterCommit, RegisterDies, Fault
<1>2. RowsTyped'
  <2>1. Trial \in Row
    BY DEF Trial, Row, Statuses
  <2> QED
    BY <1>1, <2>1 DEF TInv, RowsTyped
<1>3. StripeTyped' /\ HooksTyped' /\ PageTyped'
  BY <1>1 DEF TInv, StripeTyped, HooksTyped, PageTyped
<1>4. BoundsTyped'
  BY <1>1 DEF TInv, BoundsTyped
<1>5. message' \in BOOLEAN
  BY DEF TInv, ConsumersTyped, RegisterRead, RegisterInsert, RegisterCommit, RegisterDies
<1>6. members' \in [Consumers -> {"idle", "insert", "ack"}] /\ group' \in Nat
  BY DEF TInv, ConsumersTyped, RegisterRead, RegisterInsert, RegisterCommit, RegisterDies
<1> QED
  BY <1>2, <1>3, <1>4, <1>5, <1>6 DEF TInv, ConsumersTyped

LEMMA PageTypes ==
  ASSUME BInv, TInv, LoadPage \/ PressCancel \/ PressResume \/ Modify \/ CommitFlag
  PROVE  TInv'
<1> USE DEF scheduled, topics, consuming
<1>1. /\ UNCHANGED <<invoices, trialOver, news, atOnce, hooks, message, members, group, runs, faults>>
      /\ clicks' = clicks \/ (clicks > 0 /\ clicks' = clicks - 1)
  BY DEF LoadPage, PressCancel, PressResume, Press, Modify, CommitFlag, PageUnchanged
<1>2. HooksTyped' /\ ConsumersTyped' /\ BoundsTyped'
  BY <1>1 DEF TInv, HooksTyped, ConsumersTyped, BoundsTyped
<1>3. rows \in [Rows -> Row] /\ stripe \in [Subs -> Bought] /\ events \subseteq Event
  BY DEF TInv, RowsTyped, StripeTyped
<1>4. \A row : Offer(row) \in {"none", "cancel", "resume"}
  BY DEF Offer
<1>5. CASE LoadPage
  <2>1. UNCHANGED <<rows, invoices, stripe, events, request>> /\ page' \in {"none", "cancel", "resume"}
    BY <1>1, <1>4, <1>5 DEF LoadPage
  <2> QED
    BY <1>2, <2>1 DEF TInv, RowsTyped, StripeTyped, PageTyped
<1>6. CASE PressCancel \/ PressResume
  <2>1. UNCHANGED <<rows, invoices, stripe, events, page>>
    BY <1>1, <1>6 DEF PressCancel, PressResume, Press
  <2>2. PICK b \in BOOLEAN : UNCHANGED request \/ \E r \in Rows : request' =
          [pc |-> IF rows[r].sid = NoSub THEN "commit" ELSE "modify", cancel |-> b, row |-> r, seen |-> rows[r]]
    <3>1. Cancellable \subseteq Rows /\ Resumable \subseteq Rows
      BY DEF Cancellable, Resumable, Present
    <3> QED
      BY <1>6, <3>1 DEF PressCancel, PressResume, Press
  <2>3. request' \in RequestTypes
    <3>1. CASE UNCHANGED request
      BY <3>1 DEF TInv, PageTyped
    <3>2. ASSUME NEW r \in Rows, NEW pc \in {"commit", "modify"}, NEW seen \in Row,
                 request' = [pc |-> pc, cancel |-> b, row |-> r, seen |-> seen]
          PROVE  request' \in RequestTypes
      BY <3>2 DEF RequestTypes
    <3> QED
      BY <1>3, <2>2, <3>1, <3>2
  <2> QED
    BY <1>2, <2>1, <2>3 DEF TInv, RowsTyped, StripeTyped, PageTyped
<1>7. ASSUME request.pc \in {"modify", "commit"}
      PROVE  /\ request \in [pc : {"modify", "commit"}, cancel : BOOLEAN, row : Rows, seen : Row]
             /\ request.row \in Rows /\ request.seen \in Row /\ request.cancel \in BOOLEAN
  <2>1. request \in [pc : {"modify", "commit"}, cancel : BOOLEAN, row : Rows, seen : Row]
    BY <1>7 DEF TInv, PageTyped, RequestTypes, RequestIdle
  <2> QED
    BY <2>1, Zenon
<1>8. CASE Modify
  <2> DEFINE s == request.seen.sid
             b == request.cancel
             st == [stripe[s] EXCEPT !.cancel = b]
  <2>1. s \in Subs /\ b \in BOOLEAN /\ 1 \in Bills
    BY <1>7, <1>8, ConstantsAssumption DEF Modify, BInv, Typed, RequestOK, RequestIdle, Row
  <2>2. UNCHANGED <<rows, invoices, page>>
    BY <1>1, <1>8 DEF Modify
  <2>3. \/ request' = RequestIdle /\ UNCHANGED <<stripe, events>>
        \/ /\ stripe' = [stripe EXCEPT ![s] = st]
           /\ events' = events \cup {Tell(kind, s, 1, st) : kind \in {"updated"}}
           /\ request' = [request EXCEPT !.pc = "commit"]
    BY <1>8 DEF Modify
  <2>4. st \in Bought
    <3>1. stripe[s] \in Bought
      BY <1>3, <2>1
    <3> QED
      BY <2>1, <3>1, BoughtTypes, Zenon
  <2>5. request' \in RequestTypes
    <3>1. [request EXCEPT !.pc = "commit"] \in RequestTypes
      BY <1>7, <1>8 DEF Modify, RequestTypes
    <3> QED
      BY <2>3, <3>1 DEF RequestTypes
  <2> HIDE DEF st, s
  <2>6. StripeTyped'
    BY <1>3, <2>1, <2>3, <2>4, StripeStepTypes DEF StripeTyped, Kinds
  <2> QED
    BY <1>2, <2>2, <2>5, <2>6 DEF TInv, RowsTyped, PageTyped
<1>9. CASE CommitFlag
  <2> DEFINE b == request.cancel
             new == [request.seen EXCEPT !.cancel = b]
             after == Updated(rows[request.row], request.seen, new)
  <2>1. request.row \in Rows /\ request.seen \in Row /\ b \in BOOLEAN
    BY <1>7, <1>9 DEF CommitFlag
  <2>2. new \in Row
    <3> HIDE DEF b
    <3> QED
      BY <2>1 DEF Row
  <2>3. /\ rows' = [rows EXCEPT ![request.row] = after] /\ page' = Offer(after)
        /\ request' = RequestIdle /\ UNCHANGED <<invoices, stripe, events>>
    BY <1>1, <1>9 DEF CommitFlag
  <2> HIDE DEF new
  <2>4. after \in Row
    BY <1>3, <2>1, <2>2, UpdatedType
  <2> HIDE DEF after
  <2>5. RowsTyped'
    BY <2>1, <2>3, <2>4 DEF TInv, RowsTyped
  <2> QED
    BY <1>2, <1>4, <2>3, <2>5 DEF TInv, StripeTyped, PageTyped, RequestTypes
<1> QED
  BY <1>5, <1>6, <1>8, <1>9

LEMMA HookTypesStep ==
  ASSUME BInv, TInv, NEW h \in Hooks,
         \/ CheckoutRetrieve(h) \/ CheckoutRead(h) \/ HookRead(h) \/ HookCommit(h) \/ HookPublish(h) \/ HookDies(h)
  PROVE  TInv'
<1> USE DEF external, scheduled, frontEnd, topics, consuming, HookUnchanged
<1>1. /\ UNCHANGED <<stripe, trialOver, news, atOnce, message, members, group, runs, page, request, clicks>>
      /\ events' \subseteq events /\ faults' \in {faults, faults + 1}
  BY DEF CheckoutRetrieve, CheckoutRead, HookRead, HookCommit, HookPublish, HookDies, Answer, AnswerOrLose, Fault
<1>2. StripeTyped' /\ ConsumersTyped' /\ PageTyped' /\ BoundsTyped'
  BY <1>1 DEF TInv, StripeTyped, ConsumersTyped, PageTyped, BoundsTyped
<1>3. /\ rows \in [Rows -> Row] /\ hooks[h] \in HookTypes /\ HookIdle \in HookTypes
      /\ hooks = [g \in Hooks |-> hooks[g]]
  BY DEF TInv, RowsTyped, HooksTyped, HookTypes, BInv, Typed
<1>4. ASSUME NEW k \in HookTypes, hooks' = [hooks EXCEPT ![h] = k] PROVE HooksTyped'
  <2>1. \A g \in Hooks : hooks'[g] = IF g = h THEN k ELSE hooks[g]
    BY <1>3, <1>4
  <2> QED
    BY <2>1 DEF TInv, HooksTyped
<1>5. ASSUME UNCHANGED <<rows, invoices>> PROVE RowsTyped'
  BY <1>5 DEF TInv, RowsTyped
<1>6. \A r : r \in Present => r \in Rows /\ rows[r] \in Row
  BY <1>3 DEF Present
<1>7. ASSUME NEW pc \in {"commit", "publish"}, NEW e \in Event, NEW r \in Rows, NEW g \in StripeStatuses, NEW x \in Row
      PROVE  [pc |-> pc, ev |-> e, row |-> r, got |-> g, seen |-> x] \in HookTypes
  BY DEF HookTypes
<1>8. CASE CheckoutRetrieve(h)
  <2>1. PICK e \in events : hooks' = [hooks EXCEPT ![h] = [pc |-> "retrieved", ev |-> e, got |-> stripe[e.sub].status]]
    BY <1>8 DEF CheckoutRetrieve
  <2>2. e \in Event /\ stripe[e.sub].status \in StripeStatuses
    <3>1. e \in Event /\ e.sub \in Subs /\ stripe \in [Subs -> Bought]
      BY <2>1 DEF TInv, StripeTyped, Event
    <3> QED
      BY <3>1 DEF Bought
  <2>3. [pc |-> "retrieved", ev |-> e, got |-> stripe[e.sub].status] \in HookTypes
    BY <2>2 DEF HookTypes
  <2> QED
    BY <1>2, <1>4, <1>5, <1>8, <2>1, <2>3 DEF CheckoutRetrieve, TInv
<1>9. CASE CheckoutRead(h)
  <2>1. UNCHANGED <<rows, invoices>>
    BY <1>9 DEF CheckoutRead
  <2>2. CASE hooks' = [hooks EXCEPT ![h] = HookIdle]
    BY <1>2, <1>3, <1>4, <1>5, <2>1, <2>2 DEF TInv
  <2>3. CASE ~(hooks' = [hooks EXCEPT ![h] = HookIdle])
    <3>1. PICK r \in Linked(NoSub) :
            hooks' = [hooks EXCEPT ![h] = [pc |-> "commit", ev |-> hooks[h].ev, row |-> r,
                                           got |-> hooks[h].got, seen |-> rows[r]]]
      BY <1>9, <2>3 DEF CheckoutRead
    <3>2. hooks[h].ev \in Event /\ hooks[h].got \in StripeStatuses
      BY <1>3, <1>9 DEF CheckoutRead, HookTypes, HookIdle
    <3>3. r \in Rows /\ rows[r] \in Row
      BY <1>6, <3>1 DEF Linked
    <3> QED
      BY <1>2, <1>4, <1>5, <1>7, <2>1, <3>1, <3>2, <3>3 DEF TInv
  <2> QED
    BY <2>2, <2>3
<1>10. CASE HookRead(h)
  <2>1. UNCHANGED <<rows, invoices>>
    BY <1>10 DEF HookRead
  <2>2. CASE UNCHANGED hooks
    BY <1>2, <1>5, <2>1, <2>2 DEF TInv, HooksTyped
  <2>3. CASE ~UNCHANGED hooks
    <3>1. PICK e \in events : \E r \in Linked(e.sub) : hooks' = [hooks EXCEPT ![h] =
                                 [pc |-> "commit", ev |-> e, row |-> r, got |-> e.status, seen |-> rows[r]]]
      BY <1>10, <2>3 DEF HookRead
    <3>2. PICK r \in Linked(e.sub) : hooks' = [hooks EXCEPT ![h] =
                                 [pc |-> "commit", ev |-> e, row |-> r, got |-> e.status, seen |-> rows[r]]]
      BY <3>1
    <3>3. e \in Event /\ e.status \in StripeStatuses /\ r \in Rows /\ rows[r] \in Row
      BY <1>6, <3>1, <3>2 DEF TInv, StripeTyped, Event, Linked
    <3> QED
      BY <1>2, <1>4, <1>5, <1>7, <2>1, <3>2, <3>3 DEF TInv
  <2> QED
    BY <2>2, <2>3
<1>11. CASE HookCommit(h)
  <2> DEFINE k == hooks[h]
  <2>1. /\ k \in [pc : {"commit", "publish"}, ev : Event, got : StripeStatuses, row : Rows, seen : Row]
        /\ k.pc = "commit"
    BY <1>3, <1>11 DEF HookCommit, HookTypes, HookIdle
  <2>2. CASE Refused(k)
    BY <1>2, <1>3, <1>4, <1>5, <1>11, <2>2 DEF HookCommit, TInv
  <2>3. CASE ~Refused(k)
    <3>1. /\ rows' = [rows EXCEPT ![k.row] = Updated(rows[k.row], k.seen, NewRow(k))]
          /\ invoices' \in {invoices, invoices \cup {<<k.ev.sub, k.ev.bill>>}}
          /\ hooks' = [hooks EXCEPT ![h].pc = "publish"]
      BY <1>11, <2>3 DEF HookCommit
    <3>2. k.ev \in Event /\ k.row \in Rows /\ k.seen \in Row
      BY <2>1
    <3>3. NewRow(k) \in Row
      <4>1. PICK a, b, c : /\ a \in {k.ev.sub, k.seen.sid} /\ b = NewStatus(k)
                           /\ c \in {k.ev.cancel, k.seen.cancel}
                           /\ NewRow(k) = [sid |-> a, status |-> b, cancel |-> c]
        <5> DEFINE x == IF k.ev.kind = "checkout" THEN k.ev.sub ELSE k.seen.sid
                   z == IF k.ev.kind = "updated" THEN k.ev.cancel ELSE k.seen.cancel
        <5>1. NewRow(k) = [sid |-> x, status |-> NewStatus(k), cancel |-> z]
          BY Zenon DEF NewRow
        <5>2. x \in {k.ev.sub, k.seen.sid} /\ z \in {k.ev.cancel, k.seen.cancel}
          OBVIOUS
        <5> HIDE DEF x, z
        <5> QED
          BY <5>1, <5>2
      <4>2. a \in Subs \cup {NoSub}
        BY <3>2, <4>1 DEF Event, Row
      <4>3. b \in Statuses
        BY <2>3, <4>1 DEF Refused
      <4>4. c \in BOOLEAN
        <5>1. k.ev.cancel \in BOOLEAN /\ k.seen.cancel \in BOOLEAN
          BY <3>2, Zenon DEF Event, Row
        <5> QED
          BY <4>1, <5>1, Zenon
      <4> QED
        BY <4>1, <4>2, <4>3, <4>4 DEF Row
    <3>4. Updated(rows[k.row], k.seen, NewRow(k)) \in Row
      BY <1>3, <3>2, <3>3, UpdatedType
    <3>5. k.ev.sub \in Subs /\ k.ev.bill \in Bills
      BY <3>2 DEF Event
    <3>6. [k EXCEPT !.pc = "publish"] \in HookTypes
      BY <2>1 DEF HookTypes
    <3>7. hooks' = [hooks EXCEPT ![h] = [k EXCEPT !.pc = "publish"]]
      BY <1>3, <3>1
    <3> HIDE DEF k
    <3>8. RowsTyped'
      BY <1>3, <3>1, <3>2, <3>4, <3>5 DEF TInv, RowsTyped
    <3>9. HooksTyped'
      BY <1>4, <3>6, <3>7
    <3> QED
      BY <1>2, <3>8, <3>9 DEF TInv
  <2> QED
    BY <2>2, <2>3
<1>12. CASE HookPublish(h) \/ HookDies(h)
  <2>1. UNCHANGED <<rows, invoices>> /\ hooks' = [hooks EXCEPT ![h] = HookIdle]
    BY <1>12 DEF HookPublish, HookDies
  <2> QED
    BY <1>2, <1>3, <1>4, <1>5, <2>1 DEF TInv
<1> QED
  BY <1>8, <1>9, <1>10, <1>11, <1>12

LEMMA JobTypes ==
  ASSUME BInv, TInv, NEW p \in Replicas,
         JobRead(p) \/ JobCommit(p) \/ JobPublish(p) \/ JobUnlock(p) \/ JobDies(p)
  PROVE  TInv'
<1> USE DEF JobUnchanged, external, consuming, frontEnd
<1>1. /\ UNCHANGED <<invoices, stripe, events, trialOver, news, atOnce, hooks, message, members, group, page, request, clicks>>
      /\ runs' = runs \/ (runs > 0 /\ runs' = runs - 1)
      /\ faults' = faults \/ faults' = faults + 1
  BY DEF JobRead, JobCommit, JobPublish, JobUnlock, JobDies, Fault
<1>2. StripeTyped' /\ HooksTyped' /\ ConsumersTyped' /\ PageTyped'
  BY <1>1 DEF TInv, StripeTyped, HooksTyped, ConsumersTyped, PageTyped
<1>3. BoundsTyped'
  BY <1>1 DEF TInv, BoundsTyped
<1>4. RowsTyped'
  <2>1. CASE UNCHANGED rows
    BY <1>1, <2>1 DEF TInv, RowsTyped
  <2>2. CASE JobCommit(p)
    <3>1. \A x \in Row : [x EXCEPT !.status = "cancelled"] \in Row
      BY DEF Row, Statuses
    <3>2. rows' = [r \in Rows |-> IF r \in jobs[p].found THEN [rows[r] EXCEPT !.status = "cancelled"] ELSE rows[r]]
      BY <2>2 DEF JobCommit
    <3>3. ASSUME NEW r \in Rows
          PROVE  (IF r \in jobs[p].found THEN [rows[r] EXCEPT !.status = "cancelled"] ELSE rows[r]) \in Row
      BY <3>1 DEF TInv, RowsTyped
    <3>4. rows' \in [Rows -> Row]
      BY <3>2, <3>3
    <3> QED
      BY <1>1, <3>4 DEF TInv, RowsTyped
  <2> QED
    BY <2>1, <2>2 DEF JobRead, JobPublish, JobUnlock, JobDies
<1> QED
  BY <1>2, <1>3, <1>4 DEF TInv

LEMMA TInvStep == BInv /\ TInv /\ [Next]_vars => TInv'
<1> SUFFICES ASSUME BInv, TInv, [Next]_vars PROVE TInv'
  OBVIOUS
<1>1. CASE TrialTimePasses \/ UNCHANGED vars
  <2>1. /\ UNCHANGED <<rows, invoices, stripe, events, hooks, message, members, group, page, request>>
        /\ UNCHANGED <<news, atOnce, runs, clicks, faults>>
    BY <1>1 DEF TrialTimePasses, vars, database, external, consuming, scheduled, frontEnd
  <2>2. trialOver' \in BOOLEAN
    <3>1. trialOver' = TRUE \/ trialOver' = trialOver
      BY <1>1, Zenon DEF TrialTimePasses, vars, external
    <3> QED
      BY <3>1, Zenon DEF TInv, BoundsTyped
  <2> QED
    BY <2>1, <2>2 DEF TInv, RowsTyped, StripeTyped, HooksTyped, ConsumersTyped, PageTyped, BoundsTyped
<1> QED
  BY <1>1, RegisterTypes, StripeTypes, HookTypesStep, JobTypes, PageTypes DEF Next

\* Rows, Stripe's subscriptions, events, requests and the state of the job keep their types: an
\* UPDATE by columns leaves a row with a status of the enum, although what Stripe says of a
\* subscription has one that is not in it.
THEOREM BillingTyped == Spec => []TypeOK
<1>1. BInv /\ TInv => TypeOK
  BY DEF BInv, Locked, Paid, Told, TInv, RowsTyped, StripeTyped, HooksTyped, ConsumersTyped, PageTyped,
         BoundsTyped, Bought, TypeOK
<1> QED
  BY <1>1, BInvInit, BInvStep, TInvInit, TInvStep, PTL DEF Spec

=============================================================================
