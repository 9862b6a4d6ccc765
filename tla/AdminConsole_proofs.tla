-------------------------- MODULE AdminConsole_proofs --------------------------
(***************************************************************************)
(* Proofs about the pages of web-admin (AdminConsole) and, at the end, of  *)
(* its upload dialog (AdminUpload): for every set of subscriptions,        *)
(* amounts and whatever else is shown, every number of pages, requests and *)
(* failures, every size of a file, and all sizes of a part where the       *)
(* dialog's is not smaller than the service's.                             *)
(*                                                                         *)
(* Each property has the invariant it needs.  The amount outlives its      *)
(* dialog, but while a dialog is open it is of this dialog (OfTarget).  A  *)
(* change in flight that can still be heeded is one of the page that is    *)
(* shown (CallsHere).  The pages of the subscriptions and of a video have  *)
(* one load at a time, and it is for the address shown (OneLoad,           *)
(* RowsLoaded).  Whatever is shown of the video, or on its way, is a video *)
(* that was published only if the video has been, be it undone or not, and *)
(* so is what a change answers that is still heeded (Past, Seen, Answers). *)
(* The types add that a dialog of the subscriptions is about one of them,  *)
(* and that only a page with its video has asked to publish it             *)
(* (DialogTyped, CallsTyped).                                              *)
(* While the upload dialog is frozen it is about one submission,           *)
(* with the form it shows (Frozen); what a submission has sent is the      *)
(* first parts of its file (Progress), and all of them are the whole.      *)
(***************************************************************************)
EXTENDS AdminConsole, SequenceTheorems, TLAPS

OnPage == amount # Blank => page = "subscriptions"

OfTarget == amount # Blank /\ target # None => amount.of = target

Kinds == {"refund", "end", "save", "publish"}

\* A change in flight is a record of its fields.
IsCall(c) ==
  \/ c = NoCall
  \/ /\ c = [kind |-> c.kind, mount |-> c.mount, target |-> c.target, amount |-> c.amount, form |-> c.form,
             at |-> c.at, got |-> c.got]
     /\ c.kind \in Kinds

CallsOK == /\ calls = [n \in 1..MaxCalls |-> calls[n]]
           /\ \A n \in 1..MaxCalls : IsCall(calls[n])

RInv == OnPage /\ OfTarget /\ CallsOK /\ RefundIsMeant

-----------------------------------------------------------------------------
LEMMA RInvInit == Init => RInv
BY DEF Init, RInv, OnPage, OfTarget, CallsOK, IsCall, RefundIsMeant

\* A page that is opened has no amount; of the changes some are forgotten.
LEMMA OpenStep ==
  ASSUME RInv, NEW p \in Pages, Open(p)
  PROVE  RInv'
<1>1. amount' = Blank
  BY DEF Open, Fresh
<1>2. calls' = [n \in 1..MaxCalls |-> IF calls[n] = NoCall \/ calls[n].at \in Told THEN NoCall
                                     ELSE calls[n]]
  BY DEF Open
<1>3. \A n \in 1..MaxCalls : calls'[n] = NoCall \/ calls'[n] = calls[n]
  BY <1>2
<1>4. CallsOK'
  BY <1>2, <1>3 DEF RInv, CallsOK, IsCall
<1>5. RefundIsMeant'
  BY <1>3 DEF RInv, RefundIsMeant
<1> QED
  BY <1>1, <1>4, <1>5 DEF RInv, OnPage, OfTarget

\* What leaves the dialog and the changes alone.
LEMMA OtherSteps ==
  ASSUME RInv, UNCHANGED <<page, amount, target, calls>>
  PROVE  RInv'
BY DEF RInv, OnPage, OfTarget, CallsOK, IsCall, RefundIsMeant

\* The dialogs, before they are confirmed.
LEMMA DialogSteps ==
  ASSUME RInv, \/ \E s \in Subs : Refund(s)
               \/ TypesAmount \/ Cancels
               \/ \E s \in Sessions : AsksToEnd(s)
  PROVE  RInv'
<1>1. UNCHANGED <<page, calls>>
  BY DEF Refund, TypesAmount, Cancels, AsksToEnd, OnlyDialog, where
<1>2. OnPage' /\ OfTarget'
  BY DEF RInv, OnPage, OfTarget, Refund, OpensRefund, TypesAmount, Cancels, AsksToEnd, OnlyDialog, where
<1>3. CallsOK' /\ RefundIsMeant'
  BY <1>1 DEF RInv, CallsOK, IsCall, RefundIsMeant
<1> QED
  BY <1>2, <1>3 DEF RInv

\* A change that is sent: a refund with the amount of its own dialog.
LEMMA SendStep ==
  ASSUME RInv, UNCHANGED <<page, amount, target>>, NEW kind \in Kinds, NEW t, NEW a, NEW form, Sends(kind, t, a, form),
         kind = "refund" /\ a # Blank => a.of = t
  PROVE  RInv'
<1>1. PICK n \in Free : calls' = [calls EXCEPT ![n] = [kind |-> kind, mount |-> mount, target |-> t,
                                      amount |-> a, form |-> form, at |-> "sent", got |-> Unseen]]
  BY DEF Sends
<1> DEFINE c == [kind |-> kind, mount |-> mount, target |-> t, amount |-> a, form |-> form, at |-> "sent",
                 got |-> Unseen]
<1>2. n \in 1..MaxCalls
  BY DEF Free
<1>3. IsCall(c) /\ (c.kind = "refund" /\ c.amount # Blank => c.amount.of = c.target)
  BY DEF IsCall
<1> HIDE DEF c
<1>4. \A m \in 1..MaxCalls : calls'[m] = IF m = n THEN c ELSE calls[m]
  BY <1>1, <1>2 DEF RInv, CallsOK, c
<1>5. calls' = [m \in 1..MaxCalls |-> calls'[m]]
  BY <1>1, <1>2 DEF RInv, CallsOK
<1>6. CallsOK'
  BY <1>3, <1>4, <1>5 DEF RInv, CallsOK, IsCall
<1>7. RefundIsMeant'
  BY <1>3, <1>4 DEF RInv, RefundIsMeant
<1> QED
  BY <1>6, <1>7 DEF RInv, OnPage, OfTarget

LEMMA ConfirmSteps ==
  ASSUME RInv, handleRefund \/ confirmEnd \/ onSubmit \/ handlePublish
  PROVE  RInv'
<1>1. UNCHANGED <<page, amount, target>>
  BY DEF handleRefund, confirmEnd, onSubmit, handlePublish, OnlyDialog, OnlyEdit, where, dialog
<1>2. CASE handleRefund
  <2>1. Sends("refund", target, Body(amount), NoForm) /\ target # None
    BY <1>2 DEF handleRefund, CanConfirm
  <2>2. Body(amount) # Blank => Body(amount).of = target
    BY <2>1 DEF Body, RInv, OfTarget
  <2> QED
    BY <1>1, <2>1, <2>2, SendStep DEF Kinds
<1>3. CASE confirmEnd \/ onSubmit \/ handlePublish
  <2>1. \E kind \in {"end", "save", "publish"} : \E t, a, form : Sends(kind, t, a, form)
    BY <1>3 DEF confirmEnd, onSubmit, handlePublish
  <2> QED
    BY <1>1, <2>1, SendStep DEF Kinds
<1> QED
  BY <1>2, <1>3

\* What the service does with a change, and answers, changes neither its subscription nor its
\* amount; an answer is for the page that is shown.
LEMMA Works ==
  ASSUME RInv, NEW n \in 1..MaxCalls, Reads(n) \/ Serve(n)
  PROVE  /\ UNCHANGED <<page, mount, amount, target>>
         /\ calls[n] # NoCall /\ IsCall(calls[n]) /\ calls[n].at \notin Told
         /\ calls' = [calls EXCEPT ![n] = calls'[n]] /\ IsCall(calls'[n])
         /\ calls'[n] # NoCall => /\ calls'[n].kind = calls[n].kind /\ calls'[n].mount = calls[n].mount
                                  /\ calls'[n].amount = calls[n].amount
                                  /\ calls'[n].target = calls[n].target
                                  /\ calls'[n].at \in Told => calls[n].mount = mount
<1>1. UNCHANGED <<page, mount, amount, target>>
  BY DEF Reads, Serve, OnlyServers, where, dialog
<1>2. calls[n] # NoCall /\ IsCall(calls[n]) /\ calls[n].at \notin Told
  BY DEF Reads, Serve, RInv, CallsOK, Told
<1>3. ASSUME NEW how, Answer(n, how)
      PROVE  /\ calls' = [calls EXCEPT ![n] = calls'[n]] /\ IsCall(calls'[n])
             /\ calls'[n] # NoCall => /\ calls'[n].kind = calls[n].kind /\ calls'[n].mount = calls[n].mount
                                      /\ calls'[n].amount = calls[n].amount
                                      /\ calls'[n].target = calls[n].target
                                      /\ calls[n].mount = mount
  <2> DEFINE c == IF calls[n].mount # mount THEN NoCall
                  ELSE [calls[n] EXCEPT !.at = how, !.got = GotBy(calls[n]), !.form = NoForm]
  <2>1. calls' = [calls EXCEPT ![n] = c]
    BY <1>3 DEF Answer
  <2>2. IsCall(c) /\ (c # NoCall => /\ c.kind = calls[n].kind /\ c.mount = calls[n].mount
                                    /\ c.amount = calls[n].amount /\ c.target = calls[n].target
                                    /\ calls[n].mount = mount)
    BY <1>2 DEF IsCall
  <2> HIDE DEF c
  <2> QED
    BY <2>1, <2>2 DEF RInv, CallsOK
<1>4. ASSUME NEW got, NEW form,
             calls' = [calls EXCEPT ![n] = [@ EXCEPT !.at = "read", !.got = got, !.form = form]]
      PROVE  /\ calls' = [calls EXCEPT ![n] = calls'[n]] /\ IsCall(calls'[n])
             /\ calls'[n] # NoCall => /\ calls'[n].kind = calls[n].kind /\ calls'[n].mount = calls[n].mount
                                      /\ calls'[n].amount = calls[n].amount
                                      /\ calls'[n].target = calls[n].target
                                      /\ calls'[n].at = "read"
  <2> DEFINE c == [calls[n] EXCEPT !.at = "read", !.got = got, !.form = form]
  <2>1. calls' = [calls EXCEPT ![n] = c]
    BY <1>4
  <2>2. IsCall(c) /\ c.kind = calls[n].kind /\ c.mount = calls[n].mount /\ c.amount = calls[n].amount
        /\ c.target = calls[n].target /\ c.at = "read"
    <3> DEFINE d == calls[n]
    <3>1. /\ d = [kind |-> d.kind, mount |-> d.mount, target |-> d.target, amount |-> d.amount,
                  form |-> d.form, at |-> d.at, got |-> d.got]
          /\ d.kind \in Kinds
      BY <1>2 DEF IsCall
    <3> DEFINE r == [d EXCEPT !.at = "read"]
               g == [r EXCEPT !.got = got]
    <3>2. r = [kind |-> d.kind, mount |-> d.mount, target |-> d.target, amount |-> d.amount,
               form |-> d.form, at |-> "read", got |-> d.got]
      BY <3>1
    <3>3. g = [kind |-> d.kind, mount |-> d.mount, target |-> d.target, amount |-> d.amount,
               form |-> d.form, at |-> "read", got |-> got]
      <4> HIDE DEF r
      <4> QED
        BY <3>2
    <3>4. c = [g EXCEPT !.form = form]
      OBVIOUS
    <3>5. c = [kind |-> d.kind, mount |-> d.mount, target |-> d.target, amount |-> d.amount,
               form |-> form, at |-> "read", got |-> got]
      <4> HIDE DEF g, c
      <4> QED
        BY <3>3, <3>4
    <3> HIDE DEF c, d
    <3>6. c.kind = d.kind /\ c.mount = d.mount /\ c.amount = d.amount /\ c.target = d.target
          /\ c.at = "read" /\ c.form = form /\ c.got = got
      BY <3>5
    <3> QED
      BY <3>1, <3>5, <3>6 DEF IsCall, d
  <2> HIDE DEF c
  <2> QED
    BY <2>1, <2>2 DEF RInv, CallsOK
<1>5. ASSUME calls' = [calls EXCEPT ![n] = [@ EXCEPT !.at = "read"]]
      PROVE  /\ calls' = [calls EXCEPT ![n] = calls'[n]] /\ IsCall(calls'[n])
             /\ calls'[n] # NoCall => /\ calls'[n].kind = calls[n].kind /\ calls'[n].mount = calls[n].mount
                                      /\ calls'[n].amount = calls[n].amount
                                      /\ calls'[n].target = calls[n].target
                                      /\ calls'[n].at = "read"
  <2> DEFINE c == [calls[n] EXCEPT !.at = "read"]
  <2>1. calls' = [calls EXCEPT ![n] = c]
    BY <1>5
  <2>2. IsCall(c) /\ c.kind = calls[n].kind /\ c.mount = calls[n].mount /\ c.amount = calls[n].amount
        /\ c.target = calls[n].target /\ c.at = "read"
    <3> DEFINE d == calls[n]
    <3>1. /\ d = [kind |-> d.kind, mount |-> d.mount, target |-> d.target, amount |-> d.amount,
                  form |-> d.form, at |-> d.at, got |-> d.got]
          /\ d.kind \in Kinds
      BY <1>2 DEF IsCall
    <3>2. c = [kind |-> d.kind, mount |-> d.mount, target |-> d.target, amount |-> d.amount,
               form |-> d.form, at |-> "read", got |-> d.got]
      BY <3>1
    <3> HIDE DEF c, d
    <3>3. c.kind = d.kind /\ c.mount = d.mount /\ c.amount = d.amount /\ c.target = d.target
          /\ c.at = "read" /\ c.form = d.form /\ c.got = d.got
      BY <3>2
    <3> QED
      BY <3>1, <3>2, <3>3 DEF IsCall, d
  <2> HIDE DEF c
  <2> QED
    BY <2>1, <2>2 DEF RInv, CallsOK
<1>6. \/ \E how : Answer(n, how)
      \/ calls' = [calls EXCEPT ![n] = [@ EXCEPT !.at = "read", !.got = Edited(calls[n].form), !.form = NoForm]]
      \/ calls' = [calls EXCEPT ![n] = [@ EXCEPT !.at = "read"]]
  BY DEF Reads, Serve
<1>7. "read" \notin Told
  BY DEF Told
<1> QED
  BY <1>1, <1>2, <1>3, <1>4, <1>5, <1>6, <1>7

LEMMA ServeStep ==
  ASSUME RInv, NEW n \in 1..MaxCalls, Reads(n) \/ Serve(n)
  PROVE  RInv'
<1>1. /\ UNCHANGED <<page, amount, target>> /\ calls[n] # NoCall
      /\ calls' = [calls EXCEPT ![n] = calls'[n]] /\ IsCall(calls'[n])
      /\ calls'[n] # NoCall => /\ calls'[n].kind = calls[n].kind /\ calls'[n].amount = calls[n].amount
                               /\ calls'[n].target = calls[n].target
  BY Works
<1>2. \A m \in 1..MaxCalls : m # n => calls'[m] = calls[m]
  BY <1>1 DEF RInv, CallsOK
<1>3. calls' = [m \in 1..MaxCalls |-> calls'[m]]
  BY <1>1 DEF RInv, CallsOK
<1>4. CallsOK'
  BY <1>1, <1>2, <1>3 DEF RInv, CallsOK, IsCall
<1>5. RefundIsMeant'
  BY <1>1, <1>2 DEF RInv, RefundIsMeant
<1> QED
  BY <1>1, <1>4, <1>5 DEF RInv, OnPage, OfTarget

\* The dialog is closed, or stays with its amount.
LEMMA AnsweredStep ==
  ASSUME RInv, NEW n \in 1..MaxCalls, Answered(n)
  PROVE  RInv'
<1>1. page' = page /\ (amount' = Blank \/ amount' = amount) /\ (target' = None \/ target' = target)
  <2>1. PICK ok : Applies(calls[n], ok) /\ calls[n].kind \in Kinds
    BY DEF Answered, RInv, CallsOK, IsCall
  <2>2. (amount' = Blank \/ amount' = amount) /\ (target' = None \/ target' = target)
    BY <2>1 DEF Applies, ClosesDialog, dialog, Kinds
  <2> QED
    BY <2>2 DEF Answered, where
<1>2. calls' = [calls EXCEPT ![n] = NoCall]
  BY DEF Answered
<1>3. \A m \in 1..MaxCalls : calls'[m] = NoCall \/ calls'[m] = calls[m]
  BY <1>2 DEF RInv, CallsOK
<1>4. CallsOK'
  BY <1>2, <1>3 DEF RInv, CallsOK, IsCall
<1>5. RefundIsMeant'
  BY <1>3 DEF RInv, RefundIsMeant
<1> QED
  BY <1>1, <1>4, <1>5 DEF RInv, OnPage, OfTarget

-----------------------------------------------------------------------------
LEMMA RInvStep == RInv /\ [Next]_vars => RInv'
<1> SUFFICES ASSUME RInv, [Next]_vars PROVE RInv'
  OBVIOUS
<1>1. CASE OpensVideo \/ OpensUser \/ FromSidebar \/ GoBack
  BY <1>1, OpenStep DEF OpensVideo, OpensUser, FromSidebar, GoBack, Pages, NAV, Lists
<1>2. CASE \/ \E q \in Search : handleSearchChange(q)
           \/ \E t \in Timer : TimerFires(t)
           \/ handlePaginationChange \/ TurnsPage
  BY <1>2, OtherSteps DEF handleSearchChange, TimerFires, handlePaginationChange, TurnsPage, OnlySearch,
                          where, dialog
<1>3. CASE \/ \E i \in 1..MaxLoads : LoadAnswered(i) \/ LoadFails(i)
           \/ Polls \/ TypesFields \/ commitTag \/ removeTag \/ BecomesReady
           \/ \E s \in Sessions : Broadcasts(s)
           \/ UNCHANGED vars
  BY <1>3, OtherSteps DEF LoadAnswered, LoadFails, Polls, TypesFields, commitTag, removeTag, BecomesReady,
                          Broadcasts, OnlyEdit, where, dialog, vars
<1> QED
  BY <1>1, <1>2, <1>3, DialogSteps, ConfirmSteps, ServeStep, AnsweredStep DEF Next

\* The subscriptions page: whatever dialogs are opened, given up and answered, a refund is
\* asked for with an amount that was typed for it, or with none.
THEOREM RefundsAreMeant == Spec => []RefundIsMeant
<1>1. RInv => RefundIsMeant
  BY DEF RInv
<1> QED
  BY <1>1, RInvInit, RInvStep, PTL DEF Spec
-----------------------------------------------------------------------------
(* The changes of the page that is shown.                                              *)

\* The page that a change is sent from.
PageOf(kind) == IF kind = "refund" THEN "subscriptions" ELSE IF kind = "end" THEN "live" ELSE "video"

\* The servers answer to the page that is shown, and that is the one the change was sent from.
CallsHere ==
  /\ mount \in Nat
  /\ \A n \in 1..MaxCalls : calls[n] # NoCall =>
       /\ calls[n].mount \in Nat /\ calls[n].mount <= mount
       /\ calls[n].at \in Told => calls[n].mount = mount
       /\ calls[n].mount = mount => page = PageOf(calls[n].kind)

CInv == RInv /\ CallsHere

LEMMA CInvInit == Init => CInv
<1> SUFFICES ASSUME Init PROVE CInv
  OBVIOUS
<1>1. mount = 1 /\ \A n \in 1..MaxCalls : calls[n] = NoCall
  BY DEF Init
<1> QED
  BY <1>1, RInvInit DEF CInv, CallsHere

\* The changes that were there are still where they were.
LEMMA SameCalls ==
  ASSUME CInv, RInv', UNCHANGED <<page, mount>>, \A n \in 1..MaxCalls : calls'[n] \in {calls[n], NoCall}
  PROVE  CInv'
BY DEF CInv, CallsHere

\* What is sent is sent from the page of its kind.
LEMMA SentHere ==
  ASSUME CInv, RInv', UNCHANGED <<page, mount>>, NEW kind \in Kinds, NEW t, NEW a, NEW form,
         Sends(kind, t, a, form), page = PageOf(kind)
  PROVE  CInv'
<1>1. PICK n \in Free : calls' = [calls EXCEPT ![n] = [kind |-> kind, mount |-> mount, target |-> t,
                                      amount |-> a, form |-> form, at |-> "sent", got |-> Unseen]]
  BY DEF Sends
<1> DEFINE c == [kind |-> kind, mount |-> mount, target |-> t, amount |-> a, form |-> form, at |-> "sent",
                 got |-> Unseen]
<1>2. c.kind = kind /\ c.mount = mount /\ c.at = "sent"
  OBVIOUS
<1> HIDE DEF c
<1>3. \A m \in 1..MaxCalls : calls'[m] = IF m = n THEN c ELSE calls[m]
  BY <1>1 DEF CInv, RInv, CallsOK, Free, c
<1> QED
  BY <1>2, <1>3 DEF CInv, CallsHere

\* What becomes of a change at the service, and what an answer that is on its way looks like.
LEMMA Serves ==
  ASSUME CInv, NEW n \in 1..MaxCalls, Reads(n) \/ Serve(n)
  PROVE  /\ UNCHANGED <<page, mount, shown, loads, session>>
         /\ calls[n] # NoCall /\ \A m \in 1..MaxCalls : m # n => calls'[m] = calls[m]
         /\ calls'[n] # NoCall =>
              /\ calls'[n].kind = calls[n].kind /\ calls'[n].mount = calls[n].mount
              /\ calls'[n].at \in Told => calls[n].mount = mount
              /\ calls'[n].at = "read" /\ calls'[n].kind = "save" =>
                   calls'[n].got = Edited(calls[n].form) /\ UNCHANGED servers
              /\ calls'[n].at = "done" =>
                   /\ Effect(calls[n])
                   /\ calls[n].kind = "save" => calls[n].at = "read" /\ calls'[n].got = video'
<1>1. UNCHANGED <<page, mount, shown, loads, session>>
  BY DEF Reads, Serve, OnlyServers, where, list, Effect, servers
<1>2. /\ calls[n] # NoCall /\ IsCall(calls[n]) /\ calls[n].at \notin Told
      /\ calls' = [calls EXCEPT ![n] = calls'[n]]
      /\ calls'[n] # NoCall => /\ calls'[n].kind = calls[n].kind /\ calls'[n].mount = calls[n].mount
                               /\ calls'[n].at \in Told => calls[n].mount = mount
  BY Works DEF CInv
<1>3. \A m \in 1..MaxCalls : m # n => calls'[m] = calls[m]
  BY <1>2 DEF CInv, RInv, CallsOK
<1>4. ASSUME NEW how, Answer(n, how), how # "read"
      PROVE  calls'[n] # NoCall => calls'[n].at = how /\ calls'[n].got = GotBy(calls[n])
  <2> DEFINE c == IF calls[n].mount # mount THEN NoCall
                  ELSE [calls[n] EXCEPT !.at = how, !.got = GotBy(calls[n]), !.form = NoForm]
  <2>1. calls' = [calls EXCEPT ![n] = c]
    BY <1>4 DEF Answer
  <2>2. c # NoCall => c.at = how /\ c.got = GotBy(calls[n])
    BY <1>2 DEF IsCall
  <2> HIDE DEF c
  <2> QED
    BY <2>1, <2>2 DEF CInv, RInv, CallsOK
<1>5. CASE Reads(n)
  <2>1. UNCHANGED servers
    BY <1>5 DEF Reads
  <2>2. CASE Answer(n, "failed")
    BY <1>1, <1>2, <1>3, <1>4, <2>1, <2>2
  <2>3. CASE calls' = [calls EXCEPT ![n] = [@ EXCEPT !.at = "read", !.got = Edited(calls[n].form),
                                                     !.form = NoForm]]
    <3> DEFINE c == [calls[n] EXCEPT !.at = "read", !.got = Edited(calls[n].form), !.form = NoForm]
    <3>1. calls' = [calls EXCEPT ![n] = c]
      BY <2>3
    <3>2. c.at = "read" /\ c.got = Edited(calls[n].form)
      BY <1>2 DEF IsCall
    <3> HIDE DEF c
    <3>3. calls'[n] = c
      BY <3>1 DEF CInv, RInv, CallsOK
    <3> QED
      BY <1>1, <1>2, <1>3, <2>1, <3>2, <3>3
  <2>4. CASE calls[n].kind = "publish" /\ calls' = [calls EXCEPT ![n] = [@ EXCEPT !.at = "read"]]
    <3> DEFINE c == [calls[n] EXCEPT !.at = "read"]
    <3>1. calls' = [calls EXCEPT ![n] = c]
      BY <2>4
    <3>2. c.at = "read" /\ c.kind = "publish"
      BY <1>2, <2>4 DEF IsCall
    <3> HIDE DEF c
    <3>3. calls'[n] = c
      BY <3>1 DEF CInv, RInv, CallsOK
    <3> QED
      BY <1>1, <1>2, <1>3, <2>1, <3>2, <3>3
  <2>5. \/ Answer(n, "failed")
        \/ calls' = [calls EXCEPT ![n] = [@ EXCEPT !.at = "read", !.got = Edited(calls[n].form),
                                                   !.form = NoForm]]
        \/ calls[n].kind = "publish" /\ calls' = [calls EXCEPT ![n] = [@ EXCEPT !.at = "read"]]
    BY <1>5 DEF Reads
  <2> QED
    BY <2>2, <2>3, <2>4, <2>5
<1>6. CASE Serve(n)
  <2>1. CASE Answer(n, "done") /\ Effect(calls[n]) /\ (calls[n].kind = "save" => calls[n].at = "read")
    BY <1>1, <1>2, <1>3, <1>4, <2>1 DEF GotBy
  <2>2. CASE Answer(n, "failed")
    BY <1>1, <1>2, <1>3, <1>4, <2>2
  <2> QED
    BY <1>6, <2>1, <2>2 DEF Serve, FromRow
<1> QED
  BY <1>5, <1>6

\* What becomes of a change that is sent from a page that is left.
LEMMA Opens ==
  ASSUME CInv, NEW p \in Pages, Open(p)
  PROVE  /\ mount' = mount + 1 /\ page' = p /\ UNCHANGED <<session, video>>
         /\ \A n \in 1..MaxCalls : calls'[n] # NoCall => /\ calls'[n] = calls[n] /\ calls[n].at \notin Told
                                                            /\ calls[n].mount < mount'
<1>1. calls' = [n \in 1..MaxCalls |-> IF calls[n] = NoCall \/ calls[n].at \in Told THEN NoCall
                                     ELSE calls[n]]
  BY DEF Open
<1>2. \A n \in 1..MaxCalls : calls'[n] # NoCall => calls'[n] = calls[n] /\ calls[n].at \notin Told
  BY <1>1
<1> QED
  BY <1>2 DEF Open, Fresh, servers, CInv, CallsHere

LEMMA CInvStep == CInv /\ [Next]_vars => CInv'
<1> SUFFICES ASSUME CInv, [Next]_vars PROVE CInv'
  OBVIOUS
<1>1. RInv'
  BY RInvStep DEF CInv
<1>2. CASE OpensVideo \/ OpensUser \/ FromSidebar \/ GoBack
  <2>1. PICK p \in Pages : Open(p)
    BY <1>2 DEF OpensVideo, OpensUser, FromSidebar, GoBack, Pages, NAV, Lists
  <2> QED
    BY <1>1, <2>1, Opens DEF CInv, CallsHere
<1>3. CASE \/ UNCHANGED <<where, calls>>
           \/ \E q \in Search : handleSearchChange(q)
           \/ \E t \in Timer : TimerFires(t)
           \/ handlePaginationChange \/ TurnsPage
           \/ \E i \in 1..MaxLoads : LoadAnswered(i) \/ LoadFails(i)
           \/ \E s \in Subs : Refund(s)
           \/ TypesAmount \/ Cancels \/ Polls \/ TypesFields \/ commitTag \/ removeTag \/ BecomesReady
           \/ \E s \in Sessions : AsksToEnd(s) \/ Broadcasts(s)
  <2>1. UNCHANGED <<page, mount, calls>>
    BY <1>3 DEF handleSearchChange, TimerFires, handlePaginationChange, TurnsPage, LoadAnswered, LoadFails,
                Refund, TypesAmount, Cancels, Polls, TypesFields, commitTag, removeTag, BecomesReady, AsksToEnd,
                Broadcasts, OnlySearch, OnlyDialog, OnlyEdit, where
  <2> QED
    BY <1>1, <2>1, SameCalls
<1>4. CASE handleRefund \/ confirmEnd \/ onSubmit \/ handlePublish
  <2>1. UNCHANGED <<page, mount>>
    BY <1>4 DEF handleRefund, confirmEnd, onSubmit, handlePublish, OnlyDialog, OnlyEdit, where
  <2>2. \E kind \in Kinds : page = PageOf(kind) /\ \E t, a, form : Sends(kind, t, a, form)
    BY <1>4 DEF handleRefund, confirmEnd, onSubmit, handlePublish, CanSave, CanPublish, CanEdit, Kinds, PageOf
  <2> QED
    BY <1>1, <2>1, <2>2, SentHere
<1>5. ASSUME NEW n \in 1..MaxCalls, Reads(n) \/ Serve(n) PROVE CInv'
  BY <1>1, <1>5, Serves DEF CInv, CallsHere
<1>6. ASSUME NEW n \in 1..MaxCalls, Answered(n) PROVE CInv'
  <2>1. UNCHANGED <<page, mount>> /\ calls' = [calls EXCEPT ![n] = NoCall]
    BY <1>6 DEF Answered, where
  <2>2. \A m \in 1..MaxCalls : calls'[m] \in {calls[m], NoCall}
    BY <2>1 DEF CInv, RInv, CallsOK
  <2> QED
    BY <1>1, <2>1, <2>2, SameCalls
<1> QED
  BY <1>2, <1>3, <1>4, <1>5, <1>6 DEF Next, vars
-----------------------------------------------------------------------------
(* The subscriptions: one load at a time.                                              *)

\* The pages that neither search nor poll.
OneLoad == page \in {"subscriptions", "video"} => loads = <<>> \/ loads = <<loads[1]>>

RowsLoaded ==
  page = "subscriptions" => /\ loading = "busy" <=> loads # <<>>
                            /\ loads # <<>> => loads[1].of = address
                            /\ loading = "ok" => rows = address

SInv == CInv /\ OneLoad /\ RowsLoaded

LEMMA SInvInit == Init => SInv
<1> SUFFICES ASSUME Init PROVE SInv
  OBVIOUS
<1>1. loads = <<Asked(page, Home)>> /\ address = Home /\ loading = "busy"
  BY DEF Init
<1>2. loads[1].of = address /\ loads # <<>> /\ loads = <<loads[1]>>
  BY <1>1 DEF Asked
<1> QED
  BY <1>1, <1>2, CInvInit DEF SInv, OneLoad, RowsLoaded

\* Neither the page nor its loads change, unless it is one of the others.
LEMMA SameLoads ==
  ASSUME SInv, CInv', page' = page,
         UNCHANGED <<address, loads, loading, rows>> \/ page \notin {"subscriptions", "video"}
  PROVE  SInv'
BY DEF SInv, OneLoad, RowsLoaded

\* The one load has come to its end.
LEMMA LoadEnds ==
  ASSUME SInv, page \in {"subscriptions", "video"}, NEW i \in 1..MaxLoads, LoadAnswered(i) \/ LoadFails(i)
  PROVE  loads = <<loads[1]>> /\ i = 1 /\ loads' = <<>> /\ loads # <<>>
<1>1. i \in 1..Len(loads) /\ loads' = Without(i)
  BY DEF LoadAnswered, LoadFails
<1>2. loads # <<>>
  BY <1>1
<1>3. loads = <<loads[1]>>
  BY <1>2 DEF SInv, OneLoad
<1>4. Len(loads) = 1 /\ i = 1
  <2>1. PICK e : loads = <<e>>
    BY <1>3
  <2>2. Len(loads) = 1
    BY <2>1
  <2> QED
    BY <1>1, <2>2
<1>5. SubSeq(loads, 1, 1 - 1) = <<>> /\ SubSeq(loads, 1 + 1, Len(loads)) = <<>>
  BY <1>4, SubSeqEmpty
<1>6. Without(1) = <<>>
  <2>1. Without(1) = <<>> \o <<>>
    BY <1>5, Zenon DEF Without
  <2>2. <<>> \o <<>> = <<>>
    BY ConcatEmptySeq
  <2> QED
    BY <2>1, <2>2
<1> QED
  BY <1>1, <1>2, <1>3, <1>4, <1>6

LEMMA SInvStep == SInv /\ [Next]_vars => SInv'
<1> SUFFICES ASSUME SInv, [Next]_vars PROVE SInv'
  OBVIOUS
<1>1. CInv'
  BY CInvStep DEF SInv
<1>2. CASE OpensVideo \/ OpensUser \/ FromSidebar \/ GoBack
  <2>1. PICK p \in Pages : Open(p)
    BY <1>2 DEF OpensVideo, OpensUser, FromSidebar, GoBack, Pages, NAV, Lists
  <2>2. loads' = <<Asked(p, Home)>> /\ address' = Home /\ loading' = "busy"
    BY <2>1 DEF Open, Fresh
  <2>3. loads'[1].of = address' /\ loads' # <<>> /\ loads' = <<loads'[1]>> /\ loading' = "busy"
    BY <2>2 DEF Asked
  <2> QED
    BY <1>1, <2>3 DEF SInv, OneLoad, RowsLoaded
<1>3. CASE \/ UNCHANGED vars \/ Polls
           \/ \E q \in Search : handleSearchChange(q)
           \/ handlePaginationChange
           \/ \E s \in Subs : Refund(s)
           \/ TypesAmount \/ Cancels \/ handleRefund \/ confirmEnd
           \/ TypesFields \/ commitTag \/ removeTag \/ onSubmit \/ handlePublish \/ BecomesReady
           \/ \E s \in Sessions : AsksToEnd(s) \/ Broadcasts(s)
  <2>1. page' = page
    BY <1>3 DEF vars, Polls, handleSearchChange, handlePaginationChange, Refund, TypesAmount, Cancels, handleRefund,
                confirmEnd, TypesFields, commitTag, removeTag, onSubmit, handlePublish, BecomesReady, AsksToEnd,
                Broadcasts, OnlySearch, OnlyDialog, OnlyEdit, where
  <2>2. UNCHANGED <<address, loads, loading, rows>> \/ page \notin {"subscriptions", "video"}
    BY <1>3 DEF vars, Polls, handleSearchChange, SearchField, handlePaginationChange, Pager, Lists, Refund,
                TypesAmount, Cancels, handleRefund, confirmEnd, TypesFields, commitTag, removeTag, onSubmit,
                handlePublish, BecomesReady, AsksToEnd, Broadcasts, OnlySearch, OnlyDialog, OnlyEdit, search, list
  <2> QED
    BY <1>1, <2>1, <2>2, SameLoads
<1>4. ASSUME NEW t \in Timer, TimerFires(t) PROVE SInv'
  <2>1. page' = page /\ rows' = rows
    BY <1>4 DEF TimerFires, OnlySearch, where
  <2>2. UNCHANGED <<address, loads, loading>> \/ page \notin {"subscriptions", "video"}
    BY <1>4 DEF TimerFires, Lists
  <2> QED
    BY <1>1, <2>1, <2>2, SameLoads
<1>5. CASE TurnsPage
  <2>1. page = "subscriptions" /\ page' = page /\ rows' = rows /\ loading # "busy"
    BY <1>5 DEF TurnsPage, CanTurn, OnlySearch, where
  <2>2. loads = <<>>
    BY <2>1 DEF SInv, RowsLoaded
  <2>3. PICK a : navigate(a)
    BY <1>5 DEF TurnsPage
  <2>4. CASE a = address
    BY <1>1, <2>1, <2>3, <2>4, SameLoads DEF navigate, LoadsOn
  <2>5. CASE a # address
    <3>1. loads' = <<Asked(page, a)>> /\ address' = a /\ loading' = "busy"
      BY <2>2, <2>3, <2>5 DEF navigate, LoadsOn
    <3>2. loads'[1].of = address' /\ loads' # <<>> /\ loads' = <<loads'[1]>>
      BY <3>1 DEF Asked
    <3> QED
      BY <1>1, <3>1, <3>2 DEF SInv, OneLoad, RowsLoaded
  <2> QED
    BY <2>4, <2>5
<1>6. ASSUME NEW i \in 1..MaxLoads, LoadAnswered(i) \/ LoadFails(i) PROVE SInv'
  <2>1. page' = page /\ address' = address
    BY <1>6 DEF LoadAnswered, LoadFails, where, search
  <2>2. CASE page \notin {"subscriptions", "video"}
    BY <1>1, <2>1, <2>2, SameLoads
  <2>3. CASE page \in {"subscriptions", "video"}
    <3>1. loads' = <<>> /\ i = 1 /\ loads # <<>>
      BY <1>6, <2>3, LoadEnds
    <3>2. page = "subscriptions" => loads[1].of = address
      BY <3>1 DEF SInv, RowsLoaded
    <3>3. page = "subscriptions" => loading' = "failed" \/ (loading' = "ok" /\ rows' = loads[1].of)
      BY <1>6, <3>1 DEF LoadAnswered, LoadFails, Lists
    <3> QED
      BY <1>1, <2>1, <3>1, <3>2, <3>3 DEF SInv, OneLoad, RowsLoaded
  <2> QED
    BY <2>2, <2>3
<1>7. ASSUME NEW n \in 1..MaxCalls, Reads(n) \/ Serve(n) PROVE SInv'
  BY <1>1, <1>7, SameLoads DEF Reads, Serve, OnlyServers, where, search, list
<1>8. ASSUME NEW n \in 1..MaxCalls, Answered(n) PROVE SInv'
  <2>1. page' = page /\ UNCHANGED <<address, loading, rows>>
    BY <1>8 DEF Answered, where, search
  <2>2. calls[n].kind \in Kinds /\ page = PageOf(calls[n].kind) /\ Applies(calls[n], calls[n].at = "done")
    BY <1>8 DEF Answered, SInv, CInv, CallsHere, RInv, CallsOK, IsCall
  <2>3. loads' = loads \/ page = "live"
    BY <2>2 DEF Applies, Kinds, PageOf
  <2> QED
    BY <1>1, <2>1, <2>3, SameLoads
<1> QED
  BY <1>2, <1>3, <1>4, <1>5, <1>6, <1>7, <1>8 DEF Next

\* The subscriptions page: the rows are those of the page whose number is under them, since no
\* button, timer or answer to a change begins a load while there is another.
THEOREM RowsAreOfPage == Spec => []RowsOfPage
<1>1. SInv => RowsOfPage
  BY DEF SInv, RowsLoaded, RowsOfPage
<1> QED
  BY <1>1, SInvInit, SInvStep, PTL DEF Spec
-----------------------------------------------------------------------------
(* The video: what is shown is what it was, or what it would be without the saves that have   *)
(* undone a publication.                                                                       *)

IsVideo(v) == /\ v = [fields |-> v.fields, tags |-> v.tags, published |-> v.published, ready |-> v.ready]
              /\ v.published \in BOOLEAN /\ v.ready \in BOOLEAN

\* The video has been published, since the page was opened or before and still.
Published == video.published \/ undone

\* The video as it is, or as it was before.
Past(v) == IsVideo(v) /\ (v.published => Published)

Seen ==
  /\ IsVideo(video) /\ undone \in BOOLEAN
  /\ page = "video" => /\ shown # None => Past(shown)
                       /\ loads # <<>> => Past(loads[1].video)

\* A save writes a row that has been read; what it answers has been the row.  A publication is
\* asked for a video that is shown, and when it is done the video has been published.
Answers(n) ==
  /\ calls[n].kind = "save" /\ calls[n].at = "read" => IsVideo(calls[n].got)
  /\ calls[n].kind = "save" /\ calls[n].at = "done" => Past(calls[n].got)
  /\ calls[n].kind = "publish" /\ calls[n].mount = mount => Past(shown)
  /\ calls[n].kind = "publish" /\ calls[n].at = "done" => Published

Publishing == \A n \in 1..MaxCalls : calls[n] # NoCall => Answers(n)

VInv == SInv /\ Seen /\ Publishing

LEMMA VInvInit == Init => VInv
<1> SUFFICES ASSUME Init PROVE VInv
  OBVIOUS
<1>1. /\ shown = None /\ loads = <<Asked(page, Home)>> /\ \A n \in 1..MaxCalls : calls[n] = NoCall
      /\ video \in [fields : {"saved"}, tags : {{}}, published : {FALSE}, ready : BOOLEAN]
  BY DEF Init
<1>2. IsVideo(video) /\ undone \in BOOLEAN
  BY <1>1 DEF IsVideo, Init
<1>3. page = "video" => loads[1].video = video
  BY <1>1 DEF Asked
<1> QED
  BY <1>1, <1>2, <1>3, SInvInit DEF VInv, Seen, Publishing, Past, Published

\* Once published is published, or undone.
Grows == IsVideo(video') /\ undone' \in BOOLEAN /\ (Published => Published')

\* The page, what it shows and has asked for are what they were, and the answers too.
LEMMA SameSeen ==
  ASSUME VInv, SInv', Grows, UNCHANGED <<page, mount>>,
         page = "video" => /\ shown' = shown
                           /\ loads' # <<>> => loads' = loads,
         \A n \in 1..MaxCalls : calls'[n] \in {calls[n], NoCall}
  PROVE  VInv'
<1>1. ASSUME NEW v, Past(v) PROVE IsVideo(v) /\ (v.published => Published')
  BY <1>1 DEF Past, Grows
<1>2. Seen'
  BY <1>1 DEF VInv, Seen, Past, Grows
<1>3. ASSUME NEW n \in 1..MaxCalls, calls'[n] # NoCall PROVE Answers(n)'
  <2>1. calls'[n] = calls[n] /\ calls[n] # NoCall
    BY <1>3
  <2>2. calls[n].kind = "publish" /\ calls[n].mount = mount => page = "video"
    BY <2>1 DEF VInv, SInv, CInv, CallsHere, PageOf
  <2>3. Answers(n)
    BY <2>1 DEF VInv, Publishing
  <2>4. calls[n].kind = "publish" /\ calls[n].mount = mount => Past(shown)'
    BY <1>1, <2>2, <2>3 DEF Past, Answers
  <2>5. calls[n].kind = "save" /\ calls[n].at = "done" => Past(calls[n].got)'
    BY <1>1, <2>1, <2>3 DEF Past, Answers
  <2> QED
    BY <2>1, <2>3, <2>4, <2>5 DEF Answers, Grows
<1> QED
  BY <1>2, <1>3 DEF VInv, Publishing

\* A page that is opened shows nothing yet, and asks for the video as it is.
LEMMA OpenSeen ==
  ASSUME VInv, SInv', NEW p \in Pages, Open(p)
  PROVE  VInv'
<1>1. /\ shown' = None /\ loads' = <<Asked(p, Home)>> /\ page' = p /\ video' = video
      /\ undone' = FALSE
  BY DEF Open, Fresh
<1>2. p = "video" => loads'[1].video = video
  BY <1>1 DEF Asked
<1>3. IsVideo(video)
  BY DEF VInv, Seen
<1>4. Seen'
  BY <1>1, <1>2, <1>3 DEF Seen, Past, Published, IsVideo
<1>5. ASSUME NEW n \in 1..MaxCalls, calls'[n] # NoCall PROVE Answers(n)'
  <2>1. CInv
    BY DEF VInv, SInv
  <2>2. /\ calls'[n] = calls[n] /\ calls[n] # NoCall /\ calls[n].at \notin Told
        /\ calls[n].mount < mount' /\ calls[n].mount \in Nat
    BY <1>5, <2>1, Opens DEF CInv, CallsHere
  <2>3. mount' \in Nat
    BY DEF SInv, CInv, CallsHere
  <2>4. calls[n].mount # mount' /\ calls[n].at # "done"
    BY <2>2, <2>3 DEF Told
  <2>5. calls[n].kind = "save" /\ calls[n].at = "read" => IsVideo(calls[n].got)
    BY <2>2 DEF VInv, Publishing, Answers
  <2> QED
    BY <2>2, <2>4, <2>5 DEF Answers
<1> QED
  BY <1>4, <1>5 DEF VInv, Publishing

\* The answer to a load is shown.
LEMMA LoadSeen ==
  ASSUME VInv, SInv', NEW i \in 1..MaxLoads, LoadAnswered(i) \/ LoadFails(i)
  PROVE  VInv'
<1>1. UNCHANGED <<page, mount, calls, video, undone>>
  BY DEF LoadAnswered, LoadFails, where, servers
<1>2. Grows
  BY <1>1 DEF VInv, Seen, Grows, Published
<1>3. CASE page # "video"
  BY <1>1, <1>2, <1>3, SameSeen
<1>4. CASE page = "video"
  <2>1. loads' = <<>> /\ i = 1 /\ loads # <<>>
    BY <1>4, LoadEnds DEF VInv
  <2>2. CASE shown' = shown
    BY <1>1, <1>2, <2>1, <2>2, SameSeen
  <2>3. CASE shown' = loads[1].video
    <3>1. Past(shown)'
      BY <1>1, <1>4, <2>1, <2>3 DEF VInv, Seen, Past, Published
    <3>2. Seen'
      BY <1>1, <2>1, <3>1 DEF VInv, Seen
    <3>3. Publishing'
      BY <1>1, <3>1 DEF VInv, Publishing, Answers, Past, Published
    <3> QED
      BY <3>2, <3>3 DEF VInv
  <2>4. shown' = shown \/ shown' = loads[1].video
    BY <1>4, <2>1 DEF LoadAnswered, LoadFails, Lists
  <2> QED
    BY <2>2, <2>3, <2>4
<1> QED
  BY <1>3, <1>4

\* A publication can be asked for once the video is shown.
LEMMA SendSeen ==
  ASSUME VInv, SInv', handleRefund \/ confirmEnd \/ onSubmit \/ handlePublish
  PROVE  VInv'
<1>1. UNCHANGED <<page, mount, shown, loads, video, undone>>
  BY DEF handleRefund, confirmEnd, onSubmit, handlePublish, OnlyDialog, OnlyEdit, where, list, servers
<1>2. PICK kind \in Kinds : /\ \E t, a, form : Sends(kind, t, a, form)
                            /\ kind = "publish" => page = "video" /\ shown # None
  BY DEF handleRefund, confirmEnd, onSubmit, handlePublish, CanPublish, CanEdit, Kinds
<1>3. (kind = "publish" => Past(shown)) /\ \E t, a, form : Sends(kind, t, a, form)
  BY <1>2 DEF VInv, Seen
<1> PICK t, a, form : Sends(kind, t, a, form)
  BY <1>3
<1>4. PICK n \in Free : calls' = [calls EXCEPT ![n] = [kind |-> kind, mount |-> mount, target |-> t,
                                      amount |-> a, form |-> form, at |-> "sent", got |-> Unseen]]
  BY DEF Sends
<1> DEFINE c == [kind |-> kind, mount |-> mount, target |-> t, amount |-> a, form |-> form, at |-> "sent",
                 got |-> Unseen]
<1>5. c.kind = kind /\ c.at = "sent"
  OBVIOUS
<1> HIDE DEF c
<1>6. \A m \in 1..MaxCalls : calls'[m] = IF m = n THEN c ELSE calls[m]
  BY <1>4 DEF VInv, SInv, CInv, RInv, CallsOK, Free, c
<1>7. Seen'
  BY <1>1 DEF VInv, Seen, Past, Published
<1>8. Publishing'
  BY <1>1, <1>3, <1>5, <1>6 DEF VInv, Publishing, Answers, Past, Published
<1> QED
  BY <1>7, <1>8 DEF VInv

\* What the servers do to the video: a publication that is undone is noted.
LEMMA EffectGrows ==
  ASSUME IsVideo(video), undone \in BOOLEAN, NEW c, Effect(c), c.kind = "save" => IsVideo(c.got)
  PROVE  Grows /\ (c.kind = "publish" => video'.published)
<1>1. IsVideo(video') /\ (c.kind = "publish" => video'.published)
  <2>1. CASE c.kind = "save"
    BY <2>1 DEF Effect
  <2>2. CASE c.kind = "publish"
    <3>1. video' = [video EXCEPT !.published = TRUE]
      BY <2>2 DEF Effect
    <3>2. IsVideo(video') /\ video'.published = TRUE
      BY <3>1 DEF IsVideo
    <3> QED
      BY <3>2
  <2>3. CASE c.kind # "save" /\ c.kind # "publish"
    BY <2>3 DEF Effect
  <2> QED
    BY <2>1, <2>2, <2>3
<1>2. undone' = (undone \/ (video.published /\ ~video'.published))
  BY DEF Effect
<1>3. undone' \in BOOLEAN
  BY <1>2
<1>4. Published => Published'
  BY <1>2 DEF Published
<1> QED
  BY <1>1, <1>3, <1>4 DEF Grows

LEMMA ServeSeen ==
  ASSUME VInv, SInv', NEW n \in 1..MaxCalls, Reads(n) \/ Serve(n)
  PROVE  VInv'
<1>1. CInv /\ IsVideo(video) /\ undone \in BOOLEAN
  BY DEF VInv, SInv, Seen
<1>2. /\ UNCHANGED <<page, mount, shown, loads>> /\ calls[n] # NoCall
      /\ \A m \in 1..MaxCalls : m # n => calls'[m] = calls[m]
      /\ calls'[n] # NoCall =>
           /\ calls'[n].kind = calls[n].kind /\ calls'[n].mount = calls[n].mount
           /\ calls'[n].at = "read" /\ calls'[n].kind = "save" =>
                calls'[n].got = Edited(calls[n].form) /\ UNCHANGED servers
           /\ calls'[n].at = "done" =>
                /\ Effect(calls[n])
                /\ calls[n].kind = "save" => calls[n].at = "read" /\ calls'[n].got = video'
  BY <1>1, Serves
<1>3. ASSUME Effect(calls[n]), calls[n].kind = "save" => calls[n].at = "read"
      PROVE  Grows /\ (calls[n].kind = "publish" => video'.published)
  <2>1. calls[n].kind = "save" => IsVideo(calls[n].got)
    BY <1>2, <1>3 DEF VInv, Publishing, Answers
  <2> QED
    BY <1>1, <1>3, <2>1, EffectGrows
<1>4. Grows
  <2>1. CASE UNCHANGED servers
    BY <1>1, <2>1 DEF Grows, Published, servers
  <2> QED
    BY <1>3, <2>1 DEF Reads, Serve, FromRow
<1>5. ASSUME NEW v, Past(v) PROVE Past(v)'
  BY <1>4, <1>5 DEF Past, Grows
<1>6. Seen'
  BY <1>2, <1>4, <1>5 DEF VInv, Seen, Grows
<1>7. ASSUME NEW m \in 1..MaxCalls, m # n, calls'[m] # NoCall PROVE Answers(m)'
  <2>1. calls'[m] = calls[m] /\ Answers(m)
    BY <1>2, <1>7 DEF VInv, Publishing
  <2> QED
    BY <1>2, <1>4, <1>5, <2>1 DEF Answers, Grows
<1>8. ASSUME calls'[n] # NoCall PROVE Answers(n)'
  <2>1. (calls[n].kind = "save" /\ calls[n].at = "read" => IsVideo(calls[n].got))'
    <3>1. IsVideo(Edited(calls[n].form))
      <4> DEFINE f == calls[n].form.fields
                 t == calls[n].form.tags
      <4>1. Edited(calls[n].form) = [video EXCEPT !.fields = f, !.tags = t]
        BY DEF Edited
      <4> HIDE DEF f, t
      <4> QED
        BY <1>1, <4>1 DEF IsVideo
    <3>2. calls'[n].kind = "save" /\ calls'[n].at = "read" => calls'[n].got = Edited(calls[n].form)
      BY <1>2, <1>8
    <3> QED
      BY <3>1, <3>2 DEF IsVideo
  <2>2. (calls[n].kind = "save" /\ calls[n].at = "done" => Past(calls[n].got))'
    BY <1>2, <1>4, <1>8 DEF Past, Published, Grows
  <2>3. (calls[n].kind = "publish" /\ calls[n].mount = mount => Past(shown))'
    BY <1>2, <1>5, <1>8 DEF VInv, Publishing, Answers
  <2>4. (calls[n].kind = "publish" /\ calls[n].at = "done" => Published)'
    BY <1>2, <1>3, <1>8 DEF Published
  <2> QED
    BY <2>1, <2>2, <2>3, <2>4 DEF Answers
<1> QED
  BY <1>6, <1>7, <1>8 DEF VInv, Publishing

\* A saved video is shown as the service has answered; a publication only adds the badge.
LEMMA AnsweredSeen ==
  ASSUME VInv, SInv', NEW n \in 1..MaxCalls, Answered(n)
  PROVE  VInv'
<1>1. /\ UNCHANGED <<page, mount, video, undone>>
      /\ calls' = [calls EXCEPT ![n] = NoCall]
      /\ Applies(calls[n], calls[n].at = "done") /\ calls[n] # NoCall
  BY DEF Answered, where, servers
<1>2. \A m \in 1..MaxCalls : calls'[m] \in {calls[m], NoCall}
  BY <1>1 DEF VInv, SInv, CInv, RInv, CallsOK
<1>3. Grows
  BY <1>1 DEF VInv, Seen, Grows, Published
<1>4. calls[n].mount = mount /\ page = PageOf(calls[n].kind) /\ calls[n].kind \in Kinds
  BY <1>1 DEF Answered, VInv, SInv, CInv, CallsHere, RInv, CallsOK, IsCall
<1>5. CASE page # "video" \/ UNCHANGED <<shown, loads>>
  BY <1>1, <1>2, <1>3, <1>5, SameSeen
<1>6. CASE page = "video" /\ ~UNCHANGED <<shown, loads>>
  <2>1. calls[n].kind \in {"save", "publish"}
    BY <1>4, <1>6 DEF PageOf, Kinds
  <2>2. loads' = loads /\ calls[n].at = "done"
    BY <1>1, <1>6, <2>1 DEF Applies, ShowsPublished
  <2>3. Past(shown)'
    <3>1. CASE calls[n].kind = "save"
      <4>1. shown' = calls[n].got
        BY <1>1, <2>2, <3>1 DEF Applies
      <4>2. Past(calls[n].got)
        BY <1>1, <2>2, <3>1 DEF VInv, Publishing, Answers
      <4> QED
        BY <1>1, <4>1, <4>2 DEF Past, Published
    <3>2. CASE calls[n].kind = "publish"
      <4>1. shown' = [shown EXCEPT !.published = TRUE]
        BY <1>1, <2>2, <3>2 DEF Applies, ShowsPublished
      <4>2. Past(shown) /\ Published
        BY <1>1, <1>4, <2>2, <3>2 DEF VInv, Publishing, Answers
      <4>3. IsVideo(shown')
        BY <4>1, <4>2 DEF Past, IsVideo
      <4> QED
        BY <1>1, <4>2, <4>3 DEF Past, Published
    <3> QED
      BY <2>1, <3>1, <3>2
  <2>4. Seen'
    BY <1>1, <2>2, <2>3 DEF VInv, Seen, Past, Published
  <2>5. Publishing'
    BY <1>1, <1>2, <2>3 DEF VInv, Publishing, Answers, Past, Published
  <2> QED
    BY <2>4, <2>5 DEF VInv
<1> QED
  BY <1>5, <1>6

LEMMA VInvStep == VInv /\ [Next]_vars => VInv'
<1> SUFFICES ASSUME VInv, [Next]_vars PROVE VInv'
  OBVIOUS
<1>1. SInv'
  BY SInvStep DEF VInv
<1>2. CASE OpensVideo \/ OpensUser \/ FromSidebar \/ GoBack
  BY <1>1, <1>2, OpenSeen DEF OpensVideo, OpensUser, FromSidebar, GoBack, Pages, NAV, Lists
<1>3. ASSUME UNCHANGED <<page, mount, calls>>, Grows,
             page = "video" => UNCHANGED <<shown, loads>>
      PROVE  VInv'
  BY <1>1, <1>3, SameSeen
<1>4. CASE BecomesReady
  <2>1. IsVideo(video) /\ video' = [video EXCEPT !.ready = TRUE]
    BY <1>4 DEF BecomesReady, VInv, Seen
  <2>2. IsVideo(video') /\ video'.published = video.published /\ undone' = undone
    BY <1>4, <2>1 DEF BecomesReady, IsVideo
  <2>3. Grows
    BY <2>2 DEF VInv, Seen, Grows, Published
  <2> QED
    BY <1>3, <1>4, <2>3 DEF BecomesReady, where, list
<1>5. CASE \/ UNCHANGED vars \/ Polls
           \/ \E q \in Search : handleSearchChange(q)
           \/ \E t \in Timer : TimerFires(t)
           \/ handlePaginationChange \/ TurnsPage
           \/ \E s \in Subs : Refund(s)
           \/ TypesAmount \/ Cancels \/ TypesFields \/ commitTag \/ removeTag
           \/ \E s \in Sessions : AsksToEnd(s) \/ Broadcasts(s)
  <2>1. UNCHANGED <<page, mount, calls, video, undone>>
    BY <1>5 DEF vars, Polls, handleSearchChange, TimerFires, handlePaginationChange, TurnsPage, Refund, TypesAmount,
                Cancels, TypesFields, commitTag, removeTag, AsksToEnd, Broadcasts, OnlySearch, OnlyDialog, OnlyEdit,
                where, servers
  <2>2. page = "video" => UNCHANGED <<shown, loads>>
    BY <1>5 DEF vars, Polls, handleSearchChange, SearchField, TimerFires, handlePaginationChange, Pager, Lists,
                TurnsPage, CanTurn, Refund, TypesAmount, Cancels, TypesFields, commitTag, removeTag, AsksToEnd,
                Broadcasts, OnlySearch, OnlyDialog, OnlyEdit, list
  <2>3. Grows
    BY <2>1 DEF VInv, Seen, Grows, Published
  <2> QED
    BY <1>3, <2>1, <2>2, <2>3
<1> QED
  BY <1>1, <1>2, <1>4, <1>5, LoadSeen, SendSeen, ServeSeen, AnsweredSeen DEF Next

\* The page of a video: whatever saves and publications and their answers cross, it says that
\* the video is published only when it is, or was until a save of an older row has undone it.
THEOREM BadgesAreTrue == Spec => []BadgeIsTrue
<1>1. VInv => BadgeIsTrue
  BY DEF VInv, Seen, Past, Published, BadgeIsTrue
<1> QED
  BY <1>1, VInvInit, VInvStep, PTL DEF Spec

-----------------------------------------------------------------------------
(* Types.                                                                              *)

SearchTyped ==
  /\ page \in Pages /\ mount \in 1..MaxMounts /\ address \in Address /\ field \in Search
  /\ timers \subseteq Timer /\ strayed \in BOOLEAN

LoadsTyped ==
  /\ loads \in Seq(Load) /\ Len(loads) <= MaxLoads /\ overtaken \in BOOLEAN
  /\ loading \in {"busy", "ok", "failed"} /\ rows \in Address \cup {None} /\ listed \subseteq Sessions

ShownTyped == shown \in Video \cup {None} /\ edit \in Form

\* The dialog of the subscriptions is about one of them.
DialogTyped ==
  /\ target \in Subs \cup Sessions \cup {None} /\ amount \in Amount /\ busy \in BOOLEAN
  /\ page = "subscriptions" => target \in Subs \cup {None}

\* Only a page that shows its video has asked to publish it.
CallsTyped ==
  \A n \in 1..MaxCalls :
    /\ calls[n] \in Call
    /\ calls[n] # NoCall /\ calls[n].kind = "publish" /\ calls[n].mount = mount => shown \in Video

ServersTyped ==
  session \in [Sessions -> {"none", "live", "ended"}] /\ video \in Video /\ undone \in BOOLEAN

TInv ==
  /\ VInv /\ SearchTyped /\ LoadsTyped /\ ShownTyped /\ DialogTyped /\ CallsTyped /\ ServersTyped
  /\ faults \in 0..MaxFaults

LEMMA BoundsAre == /\ LastNo \in Nat /\ MaxFaults \in Nat /\ MaxMounts \in Nat /\ MaxMounts >= 1
                /\ MaxLoads \in Nat /\ MaxLoads >= 1
BY ConsoleAssumption

\* What is not there yet has the type of what will be.
LEMMA Nothing ==
  Home \in Address /\ Anything \in Search /\ Blank \in Amount /\ Unseen \in Video /\ NoForm \in Form /\ NoCall \in Call
<1>1. Home \in Address /\ Anything \in Search
  BY ConsoleAssumption DEF Home, Address, Search
<1>2. Unseen \in Video
  BY DEF Unseen, Video, Fields
<1>3. NoForm \in Form
  BY DEF NoForm, Form, Fields
<1> QED
  BY <1>1, <1>2, <1>3 DEF Amount, Call

\* A load is a question about what the servers have.
LEMMA AskedTyped ==
  ASSUME ServersTyped, NEW p, NEW a \in Address
  PROVE  Asked(p, a) \in Load
<1>1. (IF p = "live" THEN LiveNow ELSE {}) \subseteq Sessions
  BY DEF LiveNow
<1>2. (IF p = "video" THEN video ELSE Unseen) \in Video
  BY Nothing DEF ServersTyped
<1> QED
  BY <1>1, <1>2 DEF Asked, Load

LEMMA TInvInit == Init => TInv
<1> SUFFICES ASSUME Init PROVE TInv
  OBVIOUS
<1>1. VInv
  BY VInvInit
<1>2. SearchTyped
  <2>1. mount \in 1..MaxMounts
    BY BoundsAre DEF Init
  <2>2. page \in Pages
    BY ConsoleAssumption DEF Init
  <2> QED
    BY <2>1, <2>2, Nothing DEF Init, SearchTyped
<1>3. video \in Video
  BY DEF Init, Video, Fields
<1>4. ServersTyped
  BY <1>3 DEF Init, ServersTyped
<1>5. LoadsTyped
  <2>1. Asked(page, Home) \in Load
    BY <1>4, AskedTyped, Nothing
  <2>2. loads = <<Asked(page, Home)>>
    BY DEF Init
  <2>3. loads \in Seq(Load) /\ Len(loads) = 1
    BY <2>1, <2>2
  <2> QED
    BY <2>3, BoundsAre DEF Init, LoadsTyped
<1>6. ShownTyped /\ DialogTyped
  BY Nothing DEF Init, ShownTyped, DialogTyped
<1>7. CallsTyped
  BY Nothing DEF Init, CallsTyped
<1>8. faults \in 0..MaxFaults
  BY BoundsAre DEF Init
<1> QED
  BY <1>1, <1>2, <1>4, <1>5, <1>6, <1>7, <1>8 DEF TInv

\* A page that is opened.
LEMMA OpenTypes ==
  ASSUME TInv, VInv', NEW p \in Pages, Open(p)
  PROVE  TInv'
<1>1. /\ mount' = mount + 1 /\ mount < MaxMounts /\ page' = p /\ address' = Home /\ field' = Anything
      /\ UNCHANGED <<timers, session, video, faults>> /\ strayed' = FALSE /\ undone' = FALSE
  BY DEF Open, Fresh, servers
<1>2. SearchTyped'
  <2>1. mount' \in 1..MaxMounts
    BY <1>1, BoundsAre DEF SearchTyped, TInv
  <2> QED
    BY <1>1, <2>1, Nothing DEF SearchTyped, TInv
<1>3. LoadsTyped'
  <2>1. Asked(p, Home) \in Load
    BY AskedTyped, Nothing DEF TInv
  <2>2. loads' = <<Asked(p, Home)>> /\ loading' = "busy" /\ rows' = None /\ listed' = {} /\ overtaken' = FALSE
    BY DEF Open, Fresh
  <2>3. loads' \in Seq(Load) /\ Len(loads') = 1
    BY <2>1, <2>2
  <2> QED
    BY <2>2, <2>3, BoundsAre DEF LoadsTyped
<1>4. ShownTyped' /\ DialogTyped'
  BY Nothing DEF Open, Fresh, ShownTyped, DialogTyped
<1>5. ServersTyped' /\ faults' \in 0..MaxFaults
  BY <1>1 DEF TInv, ServersTyped
<1>6. CallsTyped'
  <2>1. CInv
    BY DEF TInv, VInv, SInv
  <2>2. \A n \in 1..MaxCalls : calls'[n] \in {calls[n], NoCall} /\ (calls'[n] # NoCall => calls'[n].mount < mount')
    BY <2>1, Opens DEF Open
  <2>3. CInv'
    BY DEF VInv, SInv
  <2>4. \A n \in 1..MaxCalls : calls'[n] # NoCall => calls'[n].mount # mount'
    BY <2>2, <2>3 DEF CInv, CallsHere
  <2> QED
    BY <2>2, <2>4, Nothing DEF TInv, CallsTyped
<1> QED
  BY <1>2, <1>3, <1>4, <1>5, <1>6 DEF TInv

\* A load that is begun finds room.
LEMMA AppendTyped ==
  ASSUME LoadsTyped, ServersTyped, Len(loads) < MaxLoads, NEW p, NEW a \in Address, loads' = Append(loads, Asked(p, a))
  PROVE  loads' \in Seq(Load) /\ Len(loads') <= MaxLoads
<1>1. Asked(p, a) \in Load
  BY AskedTyped
<1>2. loads' \in Seq(Load) /\ Len(loads') = Len(loads) + 1 /\ Len(loads) \in Nat
  BY <1>1, AppendProperties DEF LoadsTyped
<1> QED
  BY <1>2, BoundsAre

LEMMA NavigateTyped ==
  ASSUME TInv, NEW a \in Address, navigate(a)
  PROVE  /\ address' \in Address /\ loading' \in {"busy", "ok", "failed"}
         /\ loads' \in Seq(Load) /\ Len(loads') <= MaxLoads
<1>1. CASE loads' = Append(loads, Asked(page, a)) /\ loading' = "busy"
  BY <1>1, AppendTyped DEF TInv, navigate
<1>2. CASE UNCHANGED <<loads, loading>>
  BY <1>2 DEF TInv, LoadsTyped, navigate
<1> QED
  BY <1>1, <1>2 DEF navigate, LoadsOn

\* The servers, the dialog, what is shown and the changes are left alone.
LEMMA PageOnly ==
  ASSUME TInv, VInv', SearchTyped', LoadsTyped', UNCHANGED <<page, mount, shown, edit, dialog, calls, servers, faults>>
  PROVE  TInv'
<1>1. UNCHANGED <<target, amount, busy, session, video, undone>>
  BY DEF dialog, servers
<1> QED
  BY <1>1 DEF TInv, ShownTyped, DialogTyped, CallsTyped, ServersTyped

LEMMA SearchTypes ==
  ASSUME TInv, VInv', \/ \E q \in Search : handleSearchChange(q)
                      \/ \E t \in Timer : TimerFires(t)
                      \/ handlePaginationChange \/ TurnsPage
  PROVE  TInv'
<1>1. UNCHANGED <<page, mount, rows, listed, shown, edit, dialog, calls, servers, overtaken, faults>>
  BY DEF handleSearchChange, TimerFires, handlePaginationChange, TurnsPage, OnlySearch, where
<1>2. (\E a \in Address : navigate(a)) \/ UNCHANGED <<address, loads, loading>>
  <2>1. \A n \in 0..LastNo : [address EXCEPT !.no = n] \in Address
    BY DEF TInv, SearchTyped, Address
  <2>2. \A t \in Timer : [no |-> 0, q |-> t.q] \in Address
    BY BoundsAre DEF Timer, Address
  <2> QED
    BY <2>1, <2>2 DEF handleSearchChange, TimerFires, handlePaginationChange, TurnsPage
<1>3. /\ address' \in Address /\ loading' \in {"busy", "ok", "failed"}
      /\ loads' \in Seq(Load) /\ Len(loads') <= MaxLoads
  BY <1>2, NavigateTyped DEF TInv, SearchTyped, LoadsTyped
<1>4. timers' \subseteq Timer /\ field' \in Search
  <2>1. \A q \in Search : [mount |-> mount, q |-> q] \in Timer
    BY DEF TInv, SearchTyped, Timer
  <2> QED
    BY <2>1 DEF TInv, SearchTyped, handleSearchChange, TimerFires, handlePaginationChange, TurnsPage
<1>5. strayed' \in BOOLEAN
  BY DEF TInv, SearchTyped, handleSearchChange, TimerFires, handlePaginationChange, TurnsPage
<1>6. SearchTyped' /\ LoadsTyped'
  BY <1>1, <1>3, <1>4, <1>5 DEF TInv, SearchTyped, LoadsTyped
<1> QED
  BY <1>1, <1>6, PageOnly

LEMMA PollTypes ==
  ASSUME TInv, VInv', Polls
  PROVE  TInv'
<1>1. loads' \in Seq(Load) /\ Len(loads') <= MaxLoads
  BY AppendTyped, Nothing DEF TInv, Polls
<1>2. SearchTyped' /\ LoadsTyped' /\ UNCHANGED <<page, mount>>
  BY <1>1 DEF TInv, SearchTyped, LoadsTyped, Polls, where, search, seen
<1> QED
  BY <1>2, PageOnly DEF Polls

\* A load that has come to its end leaves the others.
LEMMA WithoutTyped ==
  ASSUME LoadsTyped, NEW i \in 1..Len(loads)
  PROVE  Without(i) \in Seq(Load) /\ Len(Without(i)) <= MaxLoads
<1>1. Len(loads) \in Nat /\ \A j \in 1..Len(loads) : loads[j] \in Load
  BY DEF LoadsTyped
<1>2. SubSeq(loads, 1, i - 1) \in Seq(Load) /\ Len(SubSeq(loads, 1, i - 1)) = i - 1
  <2>1. \A j \in 1..(i - 1) : loads[j] \in Load
    BY <1>1
  <2>2. 1 \in Int /\ i - 1 \in Int
    BY <1>1
  <2>3. Len(SubSeq(loads, 1, i - 1)) = IF 1 <= i - 1 THEN i - 1 - 1 + 1 ELSE 0
    BY <2>1, <2>2, SubSeqProperties
  <2> QED
    BY <2>1, <2>2, <2>3, SubSeqProperties
<1>3. SubSeq(loads, i + 1, Len(loads)) \in Seq(Load) /\ Len(SubSeq(loads, i + 1, Len(loads))) = Len(loads) - i
  <2>1. \A j \in (i + 1)..Len(loads) : loads[j] \in Load
    BY <1>1
  <2>2. i + 1 \in Int /\ Len(loads) \in Int
    BY <1>1
  <2>3. Len(SubSeq(loads, i + 1, Len(loads))) = IF i + 1 <= Len(loads) THEN Len(loads) - (i + 1) + 1 ELSE 0
    BY <2>1, <2>2, SubSeqProperties
  <2> QED
    BY <1>1, <2>1, <2>2, <2>3, SubSeqProperties
<1>4. Without(i) \in Seq(Load) /\ Len(Without(i)) = (i - 1) + (Len(loads) - i)
  <2>1. Without(i) = SubSeq(loads, 1, i - 1) \o SubSeq(loads, i + 1, Len(loads))
    BY DEF Without
  <2>2. /\ Without(i) \in Seq(Load)
        /\ Len(Without(i)) = Len(SubSeq(loads, 1, i - 1)) + Len(SubSeq(loads, i + 1, Len(loads)))
    BY <1>2, <1>3, <2>1, ConcatProperties
  <2> QED
    BY <1>2, <1>3, <2>2
<1> QED
  BY <1>1, <1>4, BoundsAre DEF LoadsTyped

LEMMA LoadTypes ==
  ASSUME TInv, VInv', NEW i \in 1..MaxLoads, LoadAnswered(i) \/ LoadFails(i)
  PROVE  TInv'
<1>1. i \in 1..Len(loads) /\ loads' = Without(i) /\ loads[i] \in Load
  <2>1. i \in 1..Len(loads) /\ loads' = Without(i)
    BY DEF LoadAnswered, LoadFails
  <2> QED
    BY <2>1 DEF TInv, LoadsTyped
<1>2. loads' \in Seq(Load) /\ Len(loads') <= MaxLoads
  BY <1>1, WithoutTyped DEF TInv
<1>3. loads[i].of \in Address /\ loads[i].live \subseteq Sessions /\ loads[i].video \in Video
  BY <1>1 DEF Load
<1>4. LoadsTyped'
  <2>1. overtaken' \in BOOLEAN /\ loading' \in {"ok", "failed"}
    BY DEF LoadAnswered, LoadFails
  <2>2. rows' \in Address \cup {None} /\ listed' \subseteq Sessions
    BY <1>3 DEF LoadAnswered, LoadFails, Shows, TInv, LoadsTyped, SearchTyped, Pages, NAV, Lists
  <2> QED
    BY <1>2, <2>1, <2>2 DEF LoadsTyped
<1>5. \A v \in Video : [fields |-> v.fields, tags |-> v.tags, reset |-> v.fields] \in Form
  BY DEF Video, Form
<1>6. shown' \in Video \cup {None} /\ edit' \in Form /\ (shown' = shown \/ shown' \in Video)
  BY <1>3, <1>5 DEF LoadAnswered, LoadFails, FillsForm, TInv, ShownTyped, SearchTyped, Pages, NAV, Lists
<1>7. UNCHANGED <<page, mount, address, field, timers, target, amount, busy, calls, session, video, undone, strayed>>
  BY DEF LoadAnswered, LoadFails, where, search, dialog, servers
<1>8. faults' \in 0..MaxFaults
  <2>1. faults' = faults \/ (faults < MaxFaults /\ faults' = faults + 1)
    BY DEF LoadAnswered, LoadFails, Fault
  <2> QED
    BY <2>1, BoundsAre DEF TInv
<1> QED
  BY <1>4, <1>6, <1>7, <1>8 DEF TInv, SearchTyped, ShownTyped, DialogTyped, CallsTyped, ServersTyped

\* A refund and a forced end are asked for about what the page shows.
LEMMA DialogTypes ==
  ASSUME TInv, VInv', \/ \E s \in Subs : Refund(s)
                      \/ TypesAmount \/ Cancels
                      \/ \E s \in Sessions : AsksToEnd(s)
  PROVE  TInv'
<1>1. UNCHANGED <<where, search, list, edit, calls, servers, seen, faults>>
  BY DEF Refund, TypesAmount, Cancels, AsksToEnd, OnlyDialog
<1>2. /\ target' \in Subs \cup Sessions \cup {None} /\ busy' \in BOOLEAN
      /\ page = "subscriptions" => target' \in Subs \cup {None}
  BY DEF Refund, OpensRefund, TypesAmount, Cancels, AsksToEnd, TInv, DialogTyped
<1>3. amount' \in Amount
  <2>1. CASE TypesAmount
    <3>1. target \in Subs
      BY <2>1 DEF TypesAmount, TInv, DialogTyped
    <3> QED
      BY <2>1, <3>1 DEF TypesAmount, Amount
  <2> QED
    BY <2>1, Nothing DEF Refund, OpensRefund, Cancels, AsksToEnd, TInv, DialogTyped
<1>4. DialogTyped'
  BY <1>1, <1>2, <1>3 DEF DialogTyped, where
<1> QED
  BY <1>1, <1>4 DEF TInv, SearchTyped, LoadsTyped, ShownTyped, CallsTyped, ServersTyped,
                          where, search, list, servers, seen

\* What is sent.
LEMMA SentTyped ==
  ASSUME TInv, NEW kind \in Kinds, NEW t \in Subs \cup Sessions \cup {None}, NEW a \in Amount, NEW form \in Form,
         Sends(kind, t, a, form), kind = "publish" => shown \in Video, UNCHANGED <<mount, shown>>
  PROVE  CallsTyped'
<1>1. PICK n \in Free : calls' = [calls EXCEPT ![n] = [kind |-> kind, mount |-> mount, target |-> t,
                                      amount |-> a, form |-> form, at |-> "sent", got |-> Unseen]]
  BY DEF Sends
<1> DEFINE c == [kind |-> kind, mount |-> mount, target |-> t, amount |-> a, form |-> form, at |-> "sent",
                 got |-> Unseen]
<1>2. c \in Call /\ c.kind = kind
  BY Nothing DEF Call, Kinds, TInv, SearchTyped
<1> HIDE DEF c
<1>3. \A m \in 1..MaxCalls : calls'[m] = IF m = n THEN c ELSE calls[m]
  BY <1>1 DEF TInv, VInv, SInv, CInv, RInv, CallsOK, Free, c
<1> QED
  BY <1>2, <1>3 DEF TInv, CallsTyped

LEMMA SendTypes ==
  ASSUME TInv, VInv', handleRefund \/ confirmEnd \/ onSubmit \/ handlePublish
  PROVE  TInv'
<1>1. UNCHANGED <<where, search, list, target, amount, edit, servers, seen, faults>> /\ busy' \in BOOLEAN
  BY DEF handleRefund, confirmEnd, onSubmit, handlePublish, OnlyDialog, OnlyEdit, dialog, TInv, DialogTyped
<1>2. UNCHANGED <<mount, shown>>
  BY <1>1 DEF where, list
<1>3. CallsTyped'
  <2>1. CASE handleRefund
    <3>1. target \in Subs \cup Sessions \cup {None} /\ Body(amount) \in Amount
      BY Nothing DEF TInv, DialogTyped, Body
    <3>2. Sends("refund", target, Body(amount), NoForm)
      BY <2>1 DEF handleRefund
    <3> QED
      BY <1>2, <3>1, <3>2, SentTyped, Nothing DEF Kinds
  <2>2. CASE confirmEnd
    BY <1>2, <2>2, SentTyped, Nothing DEF confirmEnd, Kinds, TInv, DialogTyped
  <2>3. CASE onSubmit
    BY <1>2, <2>3, SentTyped, Nothing DEF onSubmit, Kinds, TInv, ShownTyped
  <2>4. CASE handlePublish
    BY <1>2, <2>4, SentTyped, Nothing DEF handlePublish, CanPublish, CanEdit, Kinds, TInv, ShownTyped
  <2> QED
    BY <2>1, <2>2, <2>3, <2>4
<1> QED
  BY <1>1, <1>3 DEF TInv, SearchTyped, LoadsTyped, ShownTyped, DialogTyped, ServersTyped,
                    where, search, list, servers, seen

\* The form of a video.
LEMMA EditTypes ==
  ASSUME TInv, VInv', TypesFields \/ commitTag \/ removeTag
  PROVE  TInv'
<1>1. UNCHANGED <<where, search, list, dialog, calls, servers, seen, faults>>
  BY DEF TypesFields, commitTag, removeTag, OnlyEdit
<1>2. edit' \in Form
  BY DEF TypesFields, commitTag, removeTag, TInv, ShownTyped, Form
<1> QED
  BY <1>1, <1>2 DEF TInv, SearchTyped, LoadsTyped, ShownTyped, DialogTyped, CallsTyped, ServersTyped,
                    where, search, list, dialog, servers, seen

\* A save and a publication leave a video.
LEMMA EffectTyped ==
  ASSUME ServersTyped, NEW c \in Call, c # NoCall, Effect(c)
  PROVE  ServersTyped'
<1>1. video \in Video /\ c.got \in Video
  BY DEF ServersTyped, Call, NoCall
<1>2. [video EXCEPT !.published = TRUE] \in Video
  BY <1>1 DEF Video
<1>3. video' \in Video
  BY <1>1, <1>2 DEF Effect
<1> QED
  BY <1>3 DEF Effect, ServersTyped

\* What a change is told with its answer, or keeps of the row.
Replied(c, how, v) == [c EXCEPT !.at = how, !.got = v, !.form = NoForm]

LEMMA RepliedTyped ==
  ASSUME NEW c \in Call, c # NoCall, NEW how \in {"read", "done", "failed"}, NEW v \in Video
  PROVE  Replied(c, how, v) \in Call /\ Replied(c, how, v).kind = c.kind /\ Replied(c, how, v).mount = c.mount
<1>1. c \in [kind : Kinds, mount : 1..MaxMounts,
             target : Subs \cup Sessions \cup {None}, amount : Amount, form : Form,
             at : {"sent", "read", "done", "failed"}, got : Video]
  BY DEF Call, Kinds
<1> QED
  BY <1>1, Nothing DEF Replied, Call, Kinds

LEMMA ServeTypes ==
  ASSUME TInv, VInv', NEW n \in 1..MaxCalls, Reads(n) \/ Serve(n)
  PROVE  TInv'
<1>1. UNCHANGED <<where, search, list, dialog, edit, seen>>
  BY DEF Reads, Serve, OnlyServers
<1>2. calls[n] \in Call /\ calls[n] # NoCall
  BY DEF Reads, Serve, TInv, CallsTyped
<1>3. ServersTyped'
  <2>1. CASE UNCHANGED servers
    BY <2>1 DEF servers, TInv, ServersTyped
  <2>2. CASE Effect(calls[n])
    BY <1>2, <2>2, EffectTyped DEF TInv
  <2> QED
    BY <2>1, <2>2 DEF Reads, Serve
<1>4. faults' \in 0..MaxFaults
  <2>1. faults' = faults \/ (faults < MaxFaults /\ faults' = faults + 1)
    BY DEF Reads, Serve, Fault
  <2> QED
    BY <2>1, BoundsAre DEF TInv
<1>5. \A m \in 1..MaxCalls : m # n => calls'[m] = calls[m]
  BY Works DEF TInv, VInv, SInv, CInv, RInv, CallsOK
<1>6. calls'[n] \in Call /\ (calls'[n] # NoCall => calls'[n].kind = calls[n].kind /\ calls'[n].mount = calls[n].mount)
  <2>1. calls[n].kind \in Kinds /\ calls[n].form \in Form /\ calls[n].got \in Video
    BY <1>2 DEF Call, Kinds
  <2>2. ASSUME NEW how \in {"read", "done", "failed"}, NEW v \in Video,
               calls' = [calls EXCEPT ![n] = Replied(calls[n], how, v)]
        PROVE  calls'[n] \in Call /\ calls'[n].kind = calls[n].kind /\ calls'[n].mount = calls[n].mount
    BY <1>2, <2>2, RepliedTyped DEF TInv, VInv, SInv, CInv, RInv, CallsOK
  <2>3. ASSUME NEW how \in Told, Answer(n, how)
        PROVE  /\ calls'[n] \in Call
               /\ calls'[n] # NoCall => calls'[n].kind = calls[n].kind /\ calls'[n].mount = calls[n].mount
    <3>1. GotBy(calls[n]) \in Video
      BY <1>3, Nothing DEF GotBy, ServersTyped
    <3>2. CASE calls[n].mount # mount
      BY <2>3, <3>2, Nothing DEF Answer, TInv, VInv, SInv, CInv, RInv, CallsOK
    <3>3. CASE calls[n].mount = mount
      <4>1. calls' = [calls EXCEPT ![n] = Replied(calls[n], how, GotBy(calls[n]))]
        BY <2>3, <3>3 DEF Answer, Replied
      <4> QED
        BY <2>2, <2>3, <3>1, <4>1 DEF Told
    <3> QED
      BY <3>2, <3>3
  <2>4. CASE calls' = [calls EXCEPT ![n] = [@ EXCEPT !.at = "read", !.got = Edited(calls[n].form), !.form = NoForm]]
    <3>1. Edited(calls[n].form) \in Video
      BY <2>1 DEF Edited, TInv, ServersTyped, Video, Form
    <3>2. calls' = [calls EXCEPT ![n] = Replied(calls[n], "read", Edited(calls[n].form))]
      BY <2>4 DEF Replied
    <3> QED
      BY <2>2, <3>1, <3>2
  <2>5. CASE calls' = [calls EXCEPT ![n] = [@ EXCEPT !.at = "read"]]
    <3> DEFINE c == [calls[n] EXCEPT !.at = "read"]
    <3>1. c \in Call /\ c.kind = calls[n].kind /\ c.mount = calls[n].mount
      BY <1>2 DEF Call
    <3>2. calls' = [calls EXCEPT ![n] = c]
      BY <2>5
    <3> HIDE DEF c
    <3>3. calls'[n] = c
      BY <3>2 DEF TInv, VInv, SInv, CInv, RInv, CallsOK
    <3> QED
      BY <3>1, <3>3
  <2>6. \/ \E how \in Told : Answer(n, how)
        \/ calls' = [calls EXCEPT ![n] = [@ EXCEPT !.at = "read", !.got = Edited(calls[n].form), !.form = NoForm]]
        \/ calls' = [calls EXCEPT ![n] = [@ EXCEPT !.at = "read"]]
    BY DEF Reads, Serve, Told
  <2> QED
    BY <2>3, <2>4, <2>5, <2>6
<1>7. CallsTyped'
  BY <1>1, <1>2, <1>5, <1>6 DEF TInv, CallsTyped, where, list
<1> QED
  BY <1>1, <1>3, <1>4, <1>7 DEF TInv, SearchTyped, LoadsTyped, ShownTyped, DialogTyped, where, search, list, dialog, seen

\* The page heeds the answer.
LEMMA AnsweredTypes ==
  ASSUME TInv, VInv', NEW n \in 1..MaxCalls, Answered(n)
  PROVE  TInv'
<1> DEFINE c == calls[n]
           ok == c.at = "done"
<1>1. /\ c \in Call /\ c # NoCall /\ c.kind \in Kinds /\ c.got \in Video
      /\ c.mount = mount
  BY DEF Answered, TInv, CallsTyped, Call, Kinds, VInv, SInv, CInv, CallsHere
<1>2. /\ UNCHANGED <<where, search, loading, rows, listed, servers, seen, faults>>
      /\ calls' = [calls EXCEPT ![n] = NoCall]
      /\ Applies(c, ok) /\ (c.kind = "end" => Len(loads) < MaxLoads)
  BY DEF Answered
<1>3. c.kind = "publish" => shown \in Video
  BY <1>1 DEF TInv, CallsTyped
<1> HIDE DEF c, ok
<1>4. shown' \in Video \cup {None} /\ (shown \in Video => shown' \in Video)
  <2>1. shown \in Video => [shown EXCEPT !.published = TRUE] \in Video
    BY DEF Video
  <2> QED
    BY <1>1, <1>2, <1>3, <2>1 DEF Applies, ShowsPublished, TInv, ShownTyped, Kinds
<1>5. edit' \in Form
  <2>1. c.got.tags \subseteq Tags
    BY <1>1 DEF Video
  <2>2. [edit EXCEPT !.tags = c.got.tags] \in Form
    BY <2>1 DEF TInv, ShownTyped, Form
  <2> QED
    BY <1>1, <1>2, <2>2 DEF Applies, TInv, ShownTyped, Kinds
<1>6. loads' \in Seq(Load) /\ Len(loads') <= MaxLoads
  <2>1. loads' = loads \/ (c.kind = "end" /\ loads' = Append(loads, Asked(page, Home)))
    BY <1>1, <1>2 DEF Applies, Kinds
  <2> QED
    BY <1>2, <2>1, AppendTyped, Nothing DEF TInv, LoadsTyped
<1>7. target' \in {target, None} /\ amount' \in {amount, Blank} /\ busy' \in {busy, FALSE}
  BY <1>1, <1>2 DEF Applies, ClosesDialog, dialog, Kinds
<1>8. DialogTyped'
  BY <1>2, <1>7, Nothing DEF TInv, DialogTyped, where
<1>9. CallsTyped'
  <2>1. \A m \in 1..MaxCalls : calls'[m] \in {calls[m], NoCall}
    BY <1>2 DEF TInv, VInv, SInv, CInv, RInv, CallsOK
  <2> QED
    BY <1>2, <1>4, <2>1, Nothing DEF TInv, CallsTyped, where
<1> QED
  BY <1>2, <1>4, <1>5, <1>6, <1>8, <1>9 DEF TInv, SearchTyped, LoadsTyped, ShownTyped, ServersTyped,
                                           where, search, servers, seen

\* The transcoder and the broadcasters.
LEMMA OthersTypes ==
  ASSUME TInv, VInv', BecomesReady \/ \E s \in Sessions : Broadcasts(s)
  PROVE  TInv'
<1>1. UNCHANGED <<where, search, list, dialog, edit, calls, seen, faults>>
  BY DEF BecomesReady, Broadcasts
<1>2. [video EXCEPT !.ready = TRUE] \in Video
  BY DEF TInv, ServersTyped, Video
<1>3. ServersTyped'
  BY <1>2 DEF BecomesReady, Broadcasts, TInv, ServersTyped
<1> QED
  BY <1>1, <1>3 DEF TInv, SearchTyped, LoadsTyped, ShownTyped, DialogTyped, CallsTyped, where, search, list, dialog, seen

LEMMA TInvStep == TInv /\ [Next]_vars => TInv'
<1> SUFFICES ASSUME TInv, [Next]_vars PROVE TInv'
  OBVIOUS
<1>1. VInv'
  BY VInvStep DEF TInv
<1>2. CASE OpensVideo \/ OpensUser \/ FromSidebar \/ GoBack
  BY <1>1, <1>2, OpenTypes DEF OpensVideo, OpensUser, FromSidebar, GoBack, Pages, NAV, Lists
<1>3. CASE UNCHANGED vars
  BY <1>1, <1>3 DEF vars, where, search, list, dialog, servers, seen, TInv, SearchTyped, LoadsTyped, ShownTyped,
                    DialogTyped, CallsTyped, ServersTyped
<1> QED
  BY <1>1, <1>2, <1>3, SearchTypes, PollTypes, LoadTypes, DialogTypes, SendTypes, EditTypes, ServeTypes,
     AnsweredTypes, OthersTypes DEF Next

\* The console never leaves its types: a dialog of the subscriptions is about one of them, what an
\* answer changes is there to be changed, and a load is begun only where there is room for it.
THEOREM ConsoleTyped == Spec => []TypeOK
<1>1. TInv => TypeOK
  <2>1. LoadsTyped => \A i \in 1..Len(loads) : loads[i] \in Load
    BY DEF LoadsTyped
  <2> QED
    BY <2>1 DEF TInv, SearchTyped, LoadsTyped, ShownTyped, DialogTyped, CallsTyped, ServersTyped, TypeOK
<1> QED
  BY <1>1, TInvInit, TInvStep, PTL DEF Spec

-----------------------------------------------------------------------------
(* The upload dialog of the same console, for any number of submissions, every size of a file *)
(* and all sizes of a part where the dialog cuts no smaller ones than the service counts.     *)

CONSTANTS Sizes, Entries, Chunk, ServiceChunk, MaxSubmits

VARIABLES open, phase, file, videoId, fields, tags, at, given, on, part, status, row, stored,
          object, left, errors

Uploading == INSTANCE AdminUpload WITH Fields <- Entries, mount <- left, faults <- errors

\* The two sizes are settings of two programs.  Both are 5 MiB as deployed; with a larger one in
\* the service the parts it asks for would end before the file does.
ChunksAgree == ServiceChunk <= Chunk

Bounds == /\ Sizes \subseteq Nat /\ MaxSubmits \in Nat
          /\ Chunk \in Nat \ {0} /\ ServiceChunk \in Nat \ {0} /\ ChunksAgree

LEMMA MinOf ==
  ASSUME NEW a \in Int, NEW b \in Int
  PROVE  Uploading!Min({a, b}) = IF a <= b THEN a ELSE b
<1> DEFINE S == {a, b}
           m == IF a <= b THEN a ELSE b
<1>1. m \in S /\ \A y \in S : m <= y
  OBVIOUS
<1>2. \A x \in S : (\A y \in S : x <= y) => x = m
  BY <1>1
<1>3. (CHOOSE x \in S : \A y \in S : x <= y) = m
  BY <1>1, <1>2
<1> QED
  BY <1>3 DEF Uploading!Min

LEMMA MaxOf ==
  ASSUME NEW a \in Int, NEW b \in Int
  PROVE  Uploading!Max({a, b}) = IF a >= b THEN a ELSE b
<1> DEFINE S == {a, b}
           m == IF a >= b THEN a ELSE b
<1>1. m \in S /\ \A y \in S : m >= y
  OBVIOUS
<1>2. \A x \in S : (\A y \in S : x >= y) => x = m
  BY <1>1
<1>3. (CHOOSE x \in S : \A y \in S : x >= y) = m
  BY <1>1, <1>2
<1> QED
  BY <1>3 DEF Uploading!Max

\* The parts of upload/init, cut by the dialog, reach the end of the file.
LEMMA PartsReachTheEnd ==
  ASSUME Bounds, NEW s \in Nat
  PROVE  LET n == Uploading!totalParts(s) IN n \in Nat \ {0} /\ n * Chunk >= s
<1> DEFINE c == ServiceChunk
           q == (s + c - 1) \div c
           n == IF 1 >= q THEN 1 ELSE q
<1>1. q \in Int /\ q * c <= s + c - 1 /\ s + c - 1 < (q + 1) * c
  BY DEF Bounds
<1>2. Uploading!totalParts(s) = n
  BY <1>1, MaxOf DEF Uploading!totalParts
<1> HIDE DEF q
<1>3. n * c >= s
  <2>1. (q + 1) * c = q * c + c
    BY <1>1 DEF Bounds
  <2>2. q * c >= s
    BY <1>1, <2>1 DEF Bounds
  <2>3. CASE 1 >= q
    <3>1. q * c <= c
      BY <1>1, <2>3 DEF Bounds
    <3> QED
      BY <1>1, <2>2, <2>3, <3>1 DEF Bounds
  <2> QED
    BY <2>2, <2>3
<1>4. n \in Nat \ {0}
  BY <1>1
<1> HIDE DEF n
<1>5. n * c <= n * Chunk /\ n * c \in Int /\ n * Chunk \in Int
  BY <1>4 DEF Bounds, ChunksAgree
<1> QED
  BY <1>2, <1>3, <1>4, <1>5

\* The parts in a list are the first of the file, one after the other.
Ranges == [from : Int, to : Int]
FirstParts(parts, size, n) ==
  /\ parts \in Seq(Ranges) /\ Len(parts) = n
  /\ \A k \in 1..n : parts[k] = Uploading!rangeOf(k, size)

LEMMA RangeIs ==
  ASSUME Bounds, NEW s \in Nat, NEW k \in Nat
  PROVE  /\ Uploading!rangeOf(k, s) \in Ranges
         /\ Uploading!rangeOf(k, s).from = IF (k - 1) * Chunk <= s THEN (k - 1) * Chunk ELSE s
         /\ Uploading!rangeOf(k, s).to = IF k * Chunk <= s THEN k * Chunk ELSE s
<1>1. k * Chunk \in Int /\ (k - 1) * Chunk \in Int /\ s \in Int
  BY DEF Bounds
<1>2. /\ Uploading!Min({k * Chunk, s}) = IF k * Chunk <= s THEN k * Chunk ELSE s
      /\ Uploading!Min({(k - 1) * Chunk, s}) = IF (k - 1) * Chunk <= s THEN (k - 1) * Chunk ELSE s
  BY <1>1, MinOf
<1> QED
  BY <1>1, <1>2 DEF Uploading!rangeOf, Ranges

\* One more part is sent.
LEMMA AppendPart ==
  ASSUME Bounds, NEW s \in Nat, NEW k \in Nat \ {0}, NEW parts, FirstParts(parts, s, k - 1)
  PROVE  FirstParts(Append(parts, Uploading!rangeOf(k, s)), s, k)
<1>1. Uploading!rangeOf(k, s) \in Ranges
  BY RangeIs
<1> DEFINE e == Uploading!rangeOf(k, s)
<1>2. /\ Append(parts, e) \in Seq(Ranges) /\ Len(Append(parts, e)) = k
      /\ Append(parts, e)[k] = e /\ \A j \in 1..(k - 1) : Append(parts, e)[j] = parts[j]
  <2> HIDE DEF e
  <2> QED
    BY <1>1 DEF FirstParts, e
<1>3. ASSUME NEW j \in 1..k PROVE Append(parts, e)[j] = Uploading!rangeOf(j, s)
  BY <1>2 DEF FirstParts
<1> QED
  BY <1>2, <1>3 DEF FirstParts

\* All the parts of a file are the whole of it.
LEMMA AllPartsAreWhole ==
  ASSUME Bounds, NEW s \in Nat, NEW parts, FirstParts(parts, s, Uploading!totalParts(s))
  PROVE  Uploading!Whole(parts, s)
<1> DEFINE n == Uploading!totalParts(s)
<1>1. n \in Nat \ {0} /\ n * Chunk >= s
  BY PartsReachTheEnd
<1> DEFINE end(k) == IF k * Chunk <= s THEN k * Chunk ELSE s
<1>2. /\ parts \in Seq(Ranges) /\ Len(parts) = n
      /\ \A k \in 1..n : parts[k].from = end(k - 1) /\ parts[k].to = end(k)
  BY RangeIs DEF FirstParts
<1> HIDE DEF n
<1>3. parts # <<>> /\ Head(parts) = parts[1] /\ Uploading!Last(parts) = parts[n]
  BY <1>1, <1>2 DEF Uploading!Last
<1>4. end(1 - 1) = 0 /\ end(n) = s
  <2>1. (1 - 1) * Chunk = 0
    BY DEF Bounds
  <2>2. n * Chunk <= s => n * Chunk = s
    BY <1>1 DEF Bounds
  <2> QED
    BY <2>1, <2>2
<1> HIDE DEF end
<1>5. ASSUME NEW k \in 1..(n - 1) PROVE parts[k].to = parts[k + 1].from
  <2>1. parts[k].to = end(k) /\ parts[k + 1].from = end((k + 1) - 1)
    BY <1>1, <1>2
  <2>2. (k + 1) - 1 = k
    BY <1>1
  <2> QED
    BY <2>1, <2>2
<1> QED
  BY <1>1, <1>2, <1>3, <1>4, <1>5 DEF Uploading!Whole

-----------------------------------------------------------------------------
Submits == Uploading!Submits
Active == {"init", "parts", "complete"}

\* The submission that the dialog on the page shows.
Here(i) == at[i] \in Active /\ on[i] = left

PhaseOf(a) == IF a = "complete" THEN "completing" ELSE "uploading"

Shapes ==
  /\ at = [i \in Submits |-> at[i]] /\ given = [i \in Submits |-> given[i]]
  /\ on = [i \in Submits |-> on[i]] /\ part = [i \in Submits |-> part[i]]
  /\ status = [i \in Submits |-> status[i]] /\ row = [i \in Submits |-> row[i]]
  /\ stored = [i \in Submits |-> stored[i]] /\ object = [i \in Submits |-> object[i]]
  /\ left \in Nat /\ file \in Nat \cup {Uploading!NoFile}
  /\ \A i \in Submits : on[i] \in Nat /\ on[i] <= left

\* While the dialog is frozen it is about one submission, with what it shows.
Frozen ==
  /\ \A i \in Submits : Here(i) => phase = PhaseOf(at[i]) /\ given[i] = Uploading!Filled
  /\ \A i, j \in Submits : Here(i) /\ Here(j) => i = j

\* What a submission has sent.
Progress(i) ==
  /\ at[i] # "none" => given[i].size \in Nat
  /\ at[i] \in {"none", "init"} => stored[i] = <<>>
  /\ at[i] \in {"parts", "complete"} => row[i] = given[i]
  /\ at[i] = "parts" => /\ part[i] \in 1..Uploading!totalParts(given[i].size)
                        /\ FirstParts(stored[i], given[i].size, part[i] - 1)
  /\ at[i] = "complete" =>
       FirstParts(stored[i], given[i].size, Uploading!totalParts(given[i].size))

Sent == \A i \in Submits : Progress(i)

\* A dialog that says the upload is complete names a submission that is over.
Over == phase = "done" => videoId \in Submits /\ at[videoId] = "over"

UInv == Shapes /\ Frozen /\ Sent /\ Over /\ Uploading!DoneIsWhole

LEMMA UInvInit == Bounds /\ Uploading!Init => UInv
<1> SUFFICES ASSUME Bounds, Uploading!Init PROVE UInv
  OBVIOUS
<1>1. Shapes
  BY DEF Uploading!Init, Shapes, Submits
<1>2. \A i \in Submits : at[i] = "none" /\ stored[i] = <<>>
  BY DEF Uploading!Init, Submits
<1>3. phase = "idle"
  BY DEF Uploading!Init
<1> QED
  BY <1>1, <1>2, <1>3 DEF UInv, Frozen, Sent, Progress, Over, Here, Active, Uploading!DoneIsWhole

\* The dialog, before or after a submission of it.
LEMMA DialogStep ==
  ASSUME Bounds, UInv,
         \/ Uploading!Opens \/ Uploading!Choose \/ Uploading!TypeFields \/ Uploading!commitTag
         \/ Uploading!removeTag \/ Uploading!HandleClose \/ Uploading!DismissError
         \/ Uploading!LeavePage
  PROVE  UInv'
<1>1. UNCHANGED <<at, given, on, part, status, row, stored, object>>
  BY DEF Uploading!Opens, Uploading!Choose, Uploading!TypeFields, Uploading!commitTag,
         Uploading!removeTag, Uploading!FillsIn, Uploading!HandleClose, Uploading!DismissError,
         Uploading!LeavePage, Uploading!OnlyDialog, Uploading!server
<1>2. /\ left' \in {left, left + 1} /\ (left' = left => phase \notin {"uploading", "completing"} \/ UNCHANGED <<phase, file, fields, tags, videoId>>)
      /\ file' \in Nat \cup {Uploading!NoFile}
      /\ phase' # "done" \/ UNCHANGED <<phase, file, fields, tags, videoId>>
  <2>1. CASE Uploading!Opens
    BY <2>1 DEF Uploading!Opens, Uploading!form, UInv, Shapes
  <2>2. CASE Uploading!Choose \/ Uploading!TypeFields \/ Uploading!commitTag \/ Uploading!removeTag
    <3>1. /\ Uploading!FillsIn /\ file' \in Nat \cup {Uploading!NoFile}
      BY <2>2 DEF Uploading!Choose, Uploading!TypeFields, Uploading!commitTag, Uploading!removeTag,
                  UInv, Shapes, Bounds
    <3> QED
      BY <3>1 DEF Uploading!FillsIn, Uploading!CanEdit, Uploading!Form
  <2>3. CASE Uploading!HandleClose
    BY <2>3 DEF Uploading!HandleClose, Uploading!CanClose, Uploading!isSubmitting, Uploading!Fresh
  <2>4. CASE Uploading!DismissError
    BY <2>4 DEF Uploading!DismissError, Uploading!form, UInv, Shapes
  <2>5. CASE Uploading!LeavePage
    BY <2>5 DEF Uploading!LeavePage, Uploading!Fresh, UInv, Shapes
  <2> QED
    BY <2>1, <2>2, <2>3, <2>4, <2>5
<1>3. Shapes' /\ Sent'
  <2>1. Shapes'
    BY <1>1, <1>2 DEF UInv, Shapes
  <2>2. Sent'
    BY <1>1 DEF UInv, Sent, Progress
  <2> QED
    BY <2>1, <2>2
<1>4. Frozen'
  <2>1. CASE UNCHANGED <<left, phase, file, fields, tags>>
    BY <1>1, <2>1 DEF UInv, Frozen, Here, Uploading!Filled
  <2>2. CASE left' = left /\ phase \notin {"uploading", "completing"}
    <3>1. \A i \in Submits : ~Here(i)
      BY <2>2 DEF UInv, Frozen, PhaseOf
    <3> QED
      BY <1>1, <2>2, <3>1 DEF Frozen, Here
  <2>3. CASE left' = left + 1
    BY <1>1, <2>3 DEF UInv, Shapes, Frozen, Here
  <2> QED
    BY <1>2, <2>1, <2>2, <2>3
<1>5. Over' /\ Uploading!DoneIsWhole'
  BY <1>1, <1>2 DEF UInv, Over, Uploading!DoneIsWhole, Uploading!Whole, Uploading!Filled
<1> QED
  BY <1>3, <1>4, <1>5 DEF UInv

\* Of two functions of the submissions: the other submissions stay.
Alone(i, f, g) == g = [j \in Submits |-> g[j]] /\ \A j \in Submits \ {i} : g[j] = f[j]

LEMMA AloneExcept ==
  ASSUME NEW i \in Submits, NEW f, f = [j \in Submits |-> f[j]], NEW x
  PROVE  Alone(i, f, [f EXCEPT ![i] = x]) /\ [f EXCEPT ![i] = x][i] = x
BY DEF Alone

\* The button: nothing else of this page is under way.
LEMMA SubmitStep ==
  ASSUME Bounds, UInv, NEW i \in Submits, Uploading!Submit(i)
  PROVE  UInv'
<1>1. /\ at' = [at EXCEPT ![i] = "init"] /\ given' = [given EXCEPT ![i] = Uploading!Filled]
      /\ on' = [on EXCEPT ![i] = left] /\ phase' = "uploading" /\ phase \notin {"uploading", "completing", "done"}
      /\ UNCHANGED <<left, file, fields, tags, videoId, part, status, row, stored, object>>
      /\ at[i] = "none" /\ file # Uploading!NoFile
  BY DEF Uploading!Submit, Uploading!CanSubmit, Uploading!Form, Uploading!form, Uploading!server
<1>2. Shapes'
  <2>1. Alone(i, at, at') /\ Alone(i, given, given') /\ Alone(i, on, on') /\ on'[i] = left
    BY <1>1, AloneExcept DEF UInv, Shapes
  <2>2. \A j \in Submits : on'[j] \in Nat /\ on'[j] <= left
    BY <2>1 DEF UInv, Shapes, Alone
  <2> QED
    BY <1>1, <2>1, <2>2 DEF UInv, Shapes, Alone
<1>3. /\ at'[i] = "init" /\ given'[i] = Uploading!Filled /\ on'[i] = left
      /\ \A j \in Submits \ {i} : at'[j] = at[j] /\ given'[j] = given[j] /\ on'[j] = on[j]
  BY <1>1 DEF UInv, Shapes
<1>4. Frozen'
  <2>1. \A j \in Submits : ~Here(j)
    BY <1>1 DEF UInv, Frozen, PhaseOf
  <2>2. \A j \in Submits : Here(j)' => j = i
    BY <1>1, <1>3, <2>1 DEF Here
  <2>3. Uploading!Filled' = Uploading!Filled
    BY <1>1 DEF Uploading!Filled
  <2> QED
    BY <1>1, <1>3, <2>2, <2>3 DEF Frozen, PhaseOf
<1>5. Sent'
  <2>1. ASSUME NEW j \in Submits \ {i} PROVE Progress(j)'
    <3>1. /\ at'[j] = at[j] /\ given'[j] = given[j] /\ stored'[j] = stored[j]
          /\ row'[j] = row[j] /\ part'[j] = part[j]
      BY <1>1, <1>3
    <3>2. Progress(j)
      BY DEF UInv, Sent
    <3> QED
      BY <3>1, <3>2 DEF Progress
  <2>2. given'[i].size \in Nat /\ stored'[i] = <<>>
    BY <1>1, <1>3 DEF UInv, Shapes, Sent, Progress, Uploading!Filled
  <2>3. Progress(i)'
    BY <1>3, <2>2 DEF Progress
  <2> QED
    BY <2>1, <2>3 DEF Sent
<1> QED
  BY <1>1, <1>2, <1>4, <1>5 DEF UInv, Over, Uploading!DoneIsWhole

\* A submission goes on, or ends: the others stay, and the page it was begun on hears of it if it
\* is there.
Tells(i, a) ==
  /\ on[i] # left => UNCHANGED <<phase, videoId>>
  /\ on[i] = left =>
       \/ a \in Active /\ phase' = PhaseOf(a)
       \/ a = "over" /\ phase' = "error"
       \/ /\ a = "over" /\ phase' = "done" /\ videoId' = i /\ status'[i] = "processing"
          /\ Uploading!Whole(object'[i], given[i].size) /\ row'[i] = given[i]

LEMMA GoesOnStep ==
  ASSUME Bounds, UInv, NEW i \in Submits, NEW a \in {"parts", "complete", "over"}, at[i] \in Active,
         at' = [at EXCEPT ![i] = a], UNCHANGED <<given, on, left, file, fields, tags>>,
         Alone(i, part, part'), Alone(i, status, status'), Alone(i, row, row'),
         Alone(i, stored, stored'), Alone(i, object, object'), Tells(i, a), Progress(i)'
  PROVE  UInv'
<1>1. at' = [j \in Submits |-> at'[j]] /\ at'[i] = a /\ \A j \in Submits \ {i} : at'[j] = at[j]
  BY DEF UInv, Shapes
<1>2. Shapes'
  BY <1>1 DEF UInv, Shapes, Alone
<1>3. Uploading!Filled' = Uploading!Filled
  BY DEF Uploading!Filled
<1>4. \A j \in Submits \ {i} : Here(j)' <=> Here(j)
  BY <1>1 DEF Here
<1>5. Here(i)' => Here(i)
  BY DEF Here
<1>6. on[i] = left => Here(i) /\ phase # "done" /\ given[i] = Uploading!Filled
  BY DEF Here, UInv, Frozen, PhaseOf
<1>7. Frozen'
  <2>1. ASSUME NEW j \in Submits, Here(j)' PROVE phase' = PhaseOf(at'[j]) /\ given'[j] = Uploading!Filled'
    <3>1. CASE j = i
      <4>1. on[i] = left /\ a \in Active
        BY <1>1, <2>1, <3>1 DEF Here
      <4> QED
        BY <1>1, <1>3, <1>6, <3>1, <4>1 DEF Tells, Active
    <3>2. CASE j # i
      <4>1. Here(j)
        BY <1>4, <2>1, <3>2
      <4>2. on[i] # left
        BY <1>6, <3>2, <4>1 DEF UInv, Frozen
      <4> QED
        BY <1>1, <1>3, <3>2, <4>1, <4>2 DEF Tells, UInv, Frozen
    <3> QED
      BY <3>1, <3>2
  <2>2. ASSUME NEW j \in Submits, NEW k \in Submits, Here(j)', Here(k)' PROVE j = k
    <3>1. Here(j) /\ Here(k)
      BY <1>4, <1>5, <2>2
    <3> QED
      BY <3>1 DEF UInv, Frozen
  <2> QED
    BY <2>1, <2>2 DEF Frozen
<1>8. Sent'
  <2>1. ASSUME NEW j \in Submits \ {i} PROVE Progress(j)'
    <3>1. /\ at'[j] = at[j] /\ given'[j] = given[j] /\ stored'[j] = stored[j]
          /\ row'[j] = row[j] /\ part'[j] = part[j]
      BY <1>1 DEF Alone
    <3>2. Progress(j)
      BY DEF UInv, Sent
    <3> QED
      BY <3>1, <3>2 DEF Progress
  <2> QED
    BY <2>1 DEF Sent
<1>9. Over' /\ Uploading!DoneIsWhole'
  <2>1. CASE on[i] = left /\ phase' = "done"
    <3>1. /\ a = "over" /\ videoId' = i /\ status'[i] = "processing"
          /\ Uploading!Whole(object'[i], given[i].size) /\ row'[i] = given[i]
      BY <2>1 DEF Tells, PhaseOf
    <3>2. given[i] = Uploading!Filled /\ given[i].size = file
      BY <1>6, <2>1 DEF Uploading!Filled
    <3>3. i # 0
      BY DEF Submits, Uploading!Submits
    <3> QED
      BY <1>1, <1>3, <3>1, <3>2, <3>3 DEF Over, Uploading!DoneIsWhole, Uploading!Whole
  <2>2. CASE on[i] # left /\ phase' = "done"
    <3>1. UNCHANGED <<phase, videoId>>
      BY <2>2 DEF Tells
    <3>2. videoId \in Submits \ {i}
      BY <2>2, <3>1 DEF UInv, Over, Active
    <3> QED
      BY <1>1, <1>3, <3>1, <3>2, <2>2 DEF Alone, UInv, Over, Uploading!DoneIsWhole, Uploading!Whole
  <2>3. CASE phase' # "done"
    BY <2>3 DEF Over, Uploading!DoneIsWhole
  <2> QED
    BY <2>1, <2>2, <2>3
<1> QED
  BY <1>2, <1>7, <1>8, <1>9 DEF UInv

\* What a submission that gives up leaves.
LEMMA GivesUp ==
  ASSUME Bounds, UInv, NEW i \in Submits, at[i] \in Active, Uploading!Fails(i),
         UNCHANGED <<given, on, stored>>, Alone(i, status, status'), Alone(i, row, row'),
         Alone(i, object, object')
  PROVE  UInv'
<1>1. /\ at' = [at EXCEPT ![i] = "over"] /\ UNCHANGED <<left, file, fields, tags, videoId, part>>
      /\ phase' = IF on[i] = left THEN "error" ELSE phase
  BY DEF Uploading!Fails, Uploading!SetPhase, Uploading!form
<1>2. Tells(i, "over")
  BY <1>1 DEF Tells
<1>3. Alone(i, part, part') /\ Alone(i, stored, stored')
  BY <1>1 DEF Alone, UInv, Shapes
<1>4. Progress(i)'
  <2>1. at'[i] = "over" /\ given[i].size \in Nat
    BY <1>1 DEF UInv, Shapes, Sent, Progress, Active
  <2> QED
    BY <2>1 DEF Progress
<1> QED
  BY <1>1, <1>2, <1>3, <1>4, GoesOnStep

LEMMA InitStep ==
  ASSUME Bounds, UInv, NEW i \in Submits, Uploading!Init400(i) \/ Uploading!UploadInit(i)
  PROVE  UInv'
<1>0. /\ at[i] = "init" /\ UNCHANGED <<given, on, stored, object>>
  BY DEF Uploading!Init400, Uploading!UploadInit, Uploading!server
<1>1. Alone(i, stored, stored') /\ Alone(i, object, object')
  BY <1>0 DEF Alone, UInv, Shapes
<1>2. CASE Uploading!Init400(i)
  <2>1. UNCHANGED <<status, row>> /\ Uploading!Fails(i)
    BY <1>2 DEF Uploading!Init400, Uploading!server
  <2>2. Alone(i, status, status') /\ Alone(i, row, row')
    BY <2>1 DEF Alone, UInv, Shapes
  <2> QED
    BY <1>0, <1>1, <2>1, <2>2, GivesUp DEF Active
<1>3. CASE Uploading!UploadInit(i)
  <2>1. status' = [status EXCEPT ![i] = "uploading"] /\ row' = [row EXCEPT ![i] = given[i]]
    BY <1>3 DEF Uploading!UploadInit
  <2>2. Alone(i, status, status') /\ Alone(i, row, row') /\ row'[i] = given[i]
    BY <2>1, AloneExcept DEF UInv, Shapes
  <2>3. CASE Uploading!Fails(i)
    BY <1>0, <1>1, <2>2, <2>3, GivesUp DEF Active
  <2>4. CASE /\ at' = [at EXCEPT ![i] = "parts"] /\ part' = [part EXCEPT ![i] = 1]
             /\ UNCHANGED Uploading!dialog
    <3>1. UNCHANGED <<left, phase, file, fields, tags, videoId>>
      BY <2>4 DEF Uploading!dialog, Uploading!form
    <3>2. Alone(i, part, part') /\ part'[i] = 1
      BY <2>4, AloneExcept DEF UInv, Shapes
    <3>3. Tells(i, "parts")
      BY <1>0, <3>1 DEF Tells, Active, PhaseOf, UInv, Frozen, Here
    <3>4. Progress(i)'
      <4>1. stored[i] = <<>> /\ given[i].size \in Nat
        BY <1>0 DEF UInv, Sent, Progress
      <4>2. 1 \in 1..Uploading!totalParts(given[i].size)
        BY <4>1, PartsReachTheEnd
      <4>3. FirstParts(<<>>, given[i].size, 1 - 1)
        BY DEF FirstParts
      <4>4. at'[i] = "parts"
        BY <2>4 DEF UInv, Shapes
      <4> QED
        BY <1>0, <2>2, <3>2, <4>1, <4>2, <4>3, <4>4 DEF Progress
    <3> QED
      BY <1>0, <1>1, <2>2, <2>4, <3>1, <3>2, <3>3, <3>4, GoesOnStep DEF Active
  <2> QED
    BY <1>3, <2>3, <2>4 DEF Uploading!UploadInit
<1> QED
  BY <1>2, <1>3

\* One more part is in S3, or the submission gives up.
LEMMA PutPartStep ==
  ASSUME Bounds, UInv, NEW i \in Submits, Uploading!PutPart(i)
  PROVE  UInv'
<1> DEFINE s == given[i].size
           n == Uploading!totalParts(s)
<1>1. at[i] = "parts" /\ UNCHANGED <<given, on, status, row, object>>
  BY DEF Uploading!PutPart
<1>2. Alone(i, status, status') /\ Alone(i, row, row') /\ Alone(i, object, object')
  BY <1>1 DEF Alone, UInv, Shapes
<1>3. s \in Nat /\ part[i] \in 1..n /\ FirstParts(stored[i], s, part[i] - 1) /\ row[i] = given[i] /\ n \in Nat
  BY <1>1, PartsReachTheEnd DEF UInv, Sent, Progress
<1>4. CASE Uploading!Fails(i) /\ UNCHANGED stored
  BY <1>1, <1>2, <1>4, GivesUp DEF Active
<1>5. CASE stored' = [stored EXCEPT ![i] = Append(@, Uploading!rangeOf(part[i], given[i].size))]
  <2>1. Alone(i, stored, stored') /\ stored'[i] = Append(stored[i], Uploading!rangeOf(part[i], s))
    BY <1>5, AloneExcept DEF UInv, Shapes
  <2>2. FirstParts(stored'[i], s, part[i])
    BY <1>3, <2>1, AppendPart
  <2>3. CASE part[i] < n /\ Uploading!NextPart(i) /\ UNCHANGED <<Uploading!dialog, at>>
    <3>1. UNCHANGED <<left, phase, file, fields, tags, videoId>>
      BY <2>3 DEF Uploading!dialog, Uploading!form
    <3>2. Alone(i, part, part') /\ part'[i] = part[i] + 1
      BY <2>3, AloneExcept DEF Uploading!NextPart, UInv, Shapes
    <3>3. at' = [at EXCEPT ![i] = "parts"] /\ at'[i] = "parts"
      BY <1>1, <2>3 DEF UInv, Shapes
    <3>4. Tells(i, "parts")
      BY <1>1, <3>1 DEF Tells, Active, PhaseOf, UInv, Frozen, Here
    <3>5. part'[i] \in 1..n /\ part'[i] - 1 = part[i]
      BY <1>3, <2>3, <3>2
    <3>6. Progress(i)'
      BY <1>1, <1>3, <2>2, <3>3, <3>5 DEF Progress
    <3> QED
      BY <1>1, <1>2, <2>1, <3>1, <3>2, <3>3, <3>4, <3>6, GoesOnStep DEF Active
  <2>4. CASE /\ ~(part[i] < n) /\ at' = [at EXCEPT ![i] = "complete"]
             /\ Uploading!SetPhase(i, "completing") /\ UNCHANGED <<part, videoId>>
    <3>1. /\ UNCHANGED <<left, file, fields, tags, videoId>>
          /\ phase' = IF on[i] = left THEN "completing" ELSE phase
      BY <2>4 DEF Uploading!SetPhase, Uploading!form
    <3>2. Alone(i, part, part') /\ at'[i] = "complete"
      BY <2>4 DEF Alone, UInv, Shapes
    <3>3. Tells(i, "complete")
      BY <3>1 DEF Tells, Active, PhaseOf
    <3>4. part[i] = n
      BY <1>3, <2>4
    <3>5. Progress(i)'
      BY <1>1, <1>3, <2>2, <3>2, <3>4 DEF Progress
    <3> QED
      BY <1>1, <1>2, <2>1, <2>4, <3>1, <3>2, <3>3, <3>5, GoesOnStep DEF Active
  <2> QED
    BY <1>4, <1>5, <2>3, <2>4 DEF Uploading!PutPart
<1> QED
  BY <1>4, <1>5 DEF Uploading!PutPart

\* The object is assembled, whether the dialog hears of it or not.
LEMMA CompleteStep ==
  ASSUME Bounds, UInv, NEW i \in Submits, Uploading!UploadComplete(i)
  PROVE  UInv'
<1>1. at[i] = "complete" /\ UNCHANGED <<given, on, row, stored>>
  BY DEF Uploading!UploadComplete
<1>2. Alone(i, row, row') /\ Alone(i, stored, stored')
  BY <1>1 DEF Alone, UInv, Shapes
<1>3. \/ Uploading!Assembles(i)
      \/ UNCHANGED <<object, status>>
  BY DEF Uploading!UploadComplete
<1>4. /\ Alone(i, status, status') /\ Alone(i, object, object')
      /\ Uploading!Assembles(i) => status'[i] = "processing" /\ object'[i] = stored[i]
  <2>1. CASE Uploading!Assembles(i)
    BY <2>1, AloneExcept DEF Uploading!Assembles, UInv, Shapes
  <2>2. CASE UNCHANGED <<object, status>> /\ ~Uploading!Assembles(i)
    BY <2>2 DEF Alone, UInv, Shapes
  <2> QED
    BY <1>3, <2>1, <2>2
<1>5. CASE Uploading!Fails(i)
  BY <1>1, <1>2, <1>4, <1>5, GivesUp DEF Active
<1>6. CASE /\ Uploading!Assembles(i) /\ at' = [at EXCEPT ![i] = "over"] /\ Uploading!SetPhase(i, "done")
           /\ videoId' = (IF on[i] = left THEN i ELSE videoId) /\ UNCHANGED part
  <2>1. /\ UNCHANGED <<left, file, fields, tags>>
        /\ phase' = IF on[i] = left THEN "done" ELSE phase
    BY <1>6 DEF Uploading!SetPhase, Uploading!form
  <2>2. Alone(i, part, part') /\ at'[i] = "over"
    BY <1>6 DEF Alone, UInv, Shapes
  <2>3. given[i].size \in Nat /\ row[i] = given[i]
        /\ FirstParts(stored[i], given[i].size, Uploading!totalParts(given[i].size))
    BY <1>1 DEF UInv, Sent, Progress
  <2>4. Uploading!Whole(stored[i], given[i].size)
    BY <2>3, AllPartsAreWhole
  <2>5. Tells(i, "over")
    BY <1>1, <1>4, <1>6, <2>1, <2>3, <2>4 DEF Tells
  <2>6. Progress(i)'
    BY <1>1, <2>2, <2>3 DEF Progress
  <2> QED
    BY <1>1, <1>2, <1>4, <1>6, <2>1, <2>2, <2>5, <2>6, GoesOnStep DEF Active
<1> QED
  BY <1>5, <1>6 DEF Uploading!UploadComplete

LEMMA UInvStep == Bounds /\ UInv /\ [Uploading!Next]_(Uploading!vars) => UInv'
<1> SUFFICES ASSUME Bounds, UInv, [Uploading!Next]_(Uploading!vars) PROVE UInv'
  OBVIOUS
<1>1. CASE UNCHANGED Uploading!vars
  <2>1. UNCHANGED <<left, phase, file, fields, tags, videoId, at, given, on, part, status, row,
                    stored, object>>
    BY <1>1 DEF Uploading!vars, Uploading!dialog, Uploading!form, Uploading!server
  <2>2. Frozen' /\ Over' /\ Uploading!DoneIsWhole'
    BY <2>1 DEF UInv, Frozen, Here, Over, Uploading!DoneIsWhole, Uploading!Whole, Uploading!Filled
  <2>3. Shapes' /\ Sent'
    BY <2>1 DEF UInv, Shapes, Sent, Progress
  <2> QED
    BY <2>2, <2>3 DEF UInv
<1>2. ASSUME NEW i \in Submits,
             \/ Uploading!Submit(i) \/ Uploading!Init400(i) \/ Uploading!UploadInit(i)
             \/ Uploading!PutPart(i) \/ Uploading!UploadComplete(i)
      PROVE  UInv'
  BY <1>2, SubmitStep, InitStep, PutPartStep, CompleteStep
<1> QED
  BY <1>1, <1>2, DialogStep DEF Uploading!Next, Submits

\* When the dialog says that the upload is complete, the video it names is processing, its object
\* in S3 is the file of the dialog, every byte of it once and in order, and its row has what was
\* filled in: for every size of a file, however many submissions fail, are given up or go on behind
\* a page that was left, if the dialog cuts parts no smaller than those the service counts.
THEOREM UploadIsWhole ==
  ASSUME Bounds
  PROVE  Uploading!Spec => []Uploading!DoneIsWhole
<1>1. Uploading!Init => UInv
  BY UInvInit
<1>2. UInv /\ [Uploading!Next]_(Uploading!vars) => UInv'
  BY UInvStep
<1>3. UInv => Uploading!DoneIsWhole
  BY DEF UInv
<1> QED
  BY <1>1, <1>2, <1>3, PTL DEF Uploading!Spec

=============================================================================
