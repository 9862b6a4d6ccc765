------------------------------ MODULE AdminConsole ------------------------------
(***************************************************************************)
(* One tab of web-admin: the dashboard, the lists of videos and users, one *)
(* video, one user, the subscriptions and the live sessions.               *)
(*                                                                         *)
(* Each page loads when it is mounted and when its address changes, and    *)
(* nothing cancels a load: the lists, and the polls of the live page,      *)
(* apply answers in the order they come.  Changes are requests that go on  *)
(* when their page is left.  A search waits for a timer that is not        *)
(* cleared when the page is left: it then changes the address of another.  *)
(*                                                                         *)
(* Abstractions: a row is the question it answers; of a video there is     *)
(* which version of the fields it has; what a server reads for an answer   *)
(* it reads when it is asked; the page of the upload dialog is AdminUpload *)
(***************************************************************************)
EXTENDS Integers, Sequences, FiniteSets

CONSTANTS
  Texts,      \* what may be searched
  LastNo,     \* the last page of a list, and of the subscriptions
  Subs,       \* subscriptions
  Amounts,    \* what may be typed as the amount of a refund
  Sessions,   \* live sessions
  Versions,   \* what may be typed into the fields of a video
  Tags, MaxTags,  \* tags, and how many a video takes: 10 in the code
  None,
  First,      \* bound: the pages a tab may be opened at
  MaxMounts,  \* bound: pages opened
  MaxLoads,   \* bound: loads of a page in flight
  MaxCalls,   \* bound: changes
  MaxFaults   \* bound: requests that fail, or whose answer is lost

Lists == {"videos", "users"}
NAV == Lists \cup {"dashboard", "subscriptions", "live"}
Pages == NAV \cup {"video", "user"}

ASSUME ConsoleAssumption ==
  First \subseteq Pages /\ {LastNo, MaxFaults} \subseteq Nat /\ {MaxMounts, MaxLoads} \subseteq Nat \ {0}

Anything == "anything"   \* no search text

VARIABLES
  page, mount,      \* the page, and how many there were before it
  address, field,   \* of a list: page and search of its address, and the search field
  timers,           \* debounce timers, also those of pages that were left
  loads, loading,   \* loads in flight, oldest first; the indicator, or how the last load ended
  rows, listed, shown,  \* what is shown: rows of a list, live sessions, the video
  target, amount, busy, \* the dialog of a refund or of a forced end
  edit,             \* the form of the video
  calls,            \* changes in flight, also of pages that were left
  session, video,   \* on the servers: the sessions, the video
  undone,           \* since this page was opened, a save has undone a publication
  overtaken, strayed,   \* on this page an answer has overtaken another; a timer has come from another
  faults

where == <<page, mount>>
search == <<address, field, timers>>
list == <<loads, loading, rows, listed, shown>>
dialog == <<target, amount, busy>>
servers == <<session, video, undone>>
seen == <<overtaken, strayed>>
vars == <<where, search, list, dialog, edit, calls, servers, seen, faults>>

Search == Texts \cup {Anything}
Address == [no : 0..LastNo, q : Search]
Home == [no |-> 0, q |-> Anything]
Timer == [mount : 1..MaxMounts, q : Search]
\* The amount that is typed, and the subscription whose dialog was open then; Blank if none.
Blank == [usd |-> -1, of |-> None]
Amount == {Blank} \cup [usd : Amounts, of : Subs]
Fields == Versions \cup {"saved"}
Video == [fields : Fields, tags : SUBSET Tags, published : BOOLEAN, ready : BOOLEAN]
Unseen == [fields |-> "saved", tags |-> {}, published |-> FALSE, ready |-> FALSE]
Load == [of : Address, live : SUBSET Sessions, video : Video]
\* The form knows the fields it was reset to.
Form == [fields : Fields, tags : SUBSET Tags, reset : Fields]

NoCall == [kind |-> "none"]
Told == {"done", "failed"}
Call ==
  {NoCall} \cup
  [kind : {"refund", "end", "save", "publish"}, mount : 1..MaxMounts,
   target : Subs \cup Sessions \cup {None}, amount : Amount, form : Form,
   at : {"sent", "read", "done", "failed"}, got : Video]

TypeOK ==
  /\ page \in Pages /\ mount \in 1..MaxMounts /\ address \in Address
  /\ field \in Search /\ timers \subseteq Timer
  /\ Len(loads) <= MaxLoads /\ \A i \in 1..Len(loads) : loads[i] \in Load
  /\ loading \in {"busy", "ok", "failed"} /\ rows \in Address \cup {None}
  /\ listed \subseteq Sessions /\ shown \in Video \cup {None}
  /\ target \in Subs \cup Sessions \cup {None} /\ amount \in Amount /\ busy \in BOOLEAN
  /\ edit \in Form /\ \A n \in 1..MaxCalls : calls[n] \in Call
  /\ session \in [Sessions -> {"none", "live", "ended"}] /\ video \in Video
  /\ overtaken \in BOOLEAN /\ strayed \in BOOLEAN /\ undone \in BOOLEAN /\ faults \in 0..MaxFaults

Fault == faults < MaxFaults /\ faults' = faults + 1

(***************************************************************************)
(* Opening a page                                                          *)
(***************************************************************************)
LiveNow == {s \in Sessions : session[s] = "live"}
Asked(p, a) ==
  [of |-> a, live |-> IF p = "live" THEN LiveNow ELSE {},
   video |-> IF p = "video" THEN video ELSE Unseen]
NoForm == [fields |-> "saved", tags |-> {}, reset |-> "saved"]

\* The state of a page that is mounted, and the load its first effect begins.
Fresh(p) ==
  /\ page' = p /\ address' = Home /\ field' = Anything
  /\ loads' = <<Asked(p, Home)>> /\ loading' = "busy" /\ rows' = None /\ listed' = {} /\ shown' = None
  /\ target' = None /\ amount' = Blank /\ busy' = FALSE /\ edit' = NoForm
  /\ overtaken' = FALSE /\ strayed' = FALSE /\ undone' = FALSE

\* The tab is opened at a page of First, whatever is broadcast and whether or not the video is ready.
Init ==
  /\ page \in First /\ mount = 1 /\ address = Home /\ field = Anything /\ timers = {}
  /\ session \in [Sessions -> {"none", "live"}]
  /\ video \in [fields : {"saved"}, tags : {{}}, published : {FALSE}, ready : BOOLEAN]
  /\ loads = <<Asked(page, Home)>> /\ loading = "busy" /\ rows = None /\ listed = {} /\ shown = None
  /\ target = None /\ amount = Blank /\ busy = FALSE /\ edit = NoForm
  /\ calls = [n \in 1..MaxCalls |-> NoCall]
  /\ overtaken = FALSE /\ strayed = FALSE /\ undone = FALSE /\ faults = 0

\* A modal dialog covers the page, the sidebar included; the browser's buttons do not mind.
\* Answers to the page that is left have no effect; what it asked of the servers is done.
Open(p) ==
  /\ mount < MaxMounts /\ mount' = mount + 1 /\ Fresh(p)
  /\ calls' = [n \in 1..MaxCalls |-> IF calls[n] = NoCall \/ calls[n].at \in Told THEN NoCall
                                     ELSE calls[n]]
  /\ UNCHANGED <<timers, session, video, faults>>

\* The rows that are shown link to the page of their video, or of their user.
OpensVideo == page = "videos" /\ rows # None /\ Open("video")
OpensUser == page = "users" /\ rows # None /\ Open("user")
FromSidebar == \E p \in NAV \ {page} : Open(p)
GoBack == page \in {"video", "user"} /\ Open(IF page = "video" THEN "videos" ELSE "users")

(***************************************************************************)
(* The lists                                                               *)
(***************************************************************************)
OnlySearch == UNCHANGED <<where, rows, listed, shown, dialog, edit, calls, servers, overtaken, faults>>

\* The lists have a search field, and a grid with a pager of their own.
SearchField == page \in Lists
Pager == page \in Lists

\* Slip: the text is missing from the dependencies of the effect.
LoadsOnPage(a) == IF a.no = address.no THEN UNCHANGED <<loads, loading>>
                  ELSE loads' = Append(loads, Asked(page, a)) /\ loading' = "busy"

\* The effect on page and search: only another address is loaded.
LoadsOn(a) ==
  IF a = address THEN UNCHANGED <<loads, loading>>
  ELSE loads' = Append(loads, Asked(page, a)) /\ loading' = "busy"

navigate(a) == Len(loads) < MaxLoads /\ address' = a /\ LoadsOn(a)

\* Typing begins the wait anew, for the text as it is now.
handleSearchChange(q) ==
  /\ SearchField /\ q # field /\ field' = q
  /\ timers' = {t \in timers : t.mount # mount} \cup {[mount |-> mount, q |-> q]}
  /\ UNCHANGED <<address, loads, loading, strayed>> /\ OnlySearch

\* router.replace is relative: the timer of a page that was left finds the address of another.
TimerFires(t) ==
  /\ t \in timers /\ timers' = timers \ {t} /\ UNCHANGED field
  /\ IF page \in Lists THEN navigate([no |-> 0, q |-> t.q])
     ELSE UNCHANGED <<address, loads, loading>>
  /\ strayed' = (strayed \/ t.mount # mount)
  /\ OnlySearch

\* The pager keeps the search of the address, and not what is typed.
handlePaginationChange ==
  /\ Pager /\ \E n \in 0..LastNo : n # address.no /\ navigate([address EXCEPT !.no = n])
  /\ UNCHANGED <<field, timers, strayed>> /\ OnlySearch

(***************************************************************************)
(* The subscriptions: a page of their own kind                             *)
(***************************************************************************)
\* Slip: the buttons are there while a page is loaded.
CanTurnAlways == page = "subscriptions"

CanTurn == page = "subscriptions" /\ loading # "busy"

TurnsPage ==
  /\ CanTurn /\ target = None
  /\ \E n \in {address.no - 1, address.no + 1} \cap (0..LastNo) :
       navigate([address EXCEPT !.no = n])
  /\ UNCHANGED <<field, timers, strayed>> /\ OnlySearch

(***************************************************************************)
(* Answers to loads                                                        *)
(***************************************************************************)
Without(i) == SubSeq(loads, 1, i - 1) \o SubSeq(loads, i + 1, Len(loads))

\* Slip: a poll adds to the sessions that are listed.
ListsAlso(live) == listed' = listed \cup live

Shows(live) == listed' = live

\* The form takes the fields and the tags of the video it is reset to.
FillsForm(v) == edit' = [fields |-> v.fields, tags |-> v.tags, reset |-> v.fields]

LoadAnswered(i) ==
  /\ i \in 1..Len(loads) /\ loads' = Without(i) /\ loading' = "ok"
  /\ overtaken' = (overtaken \/ i > 1)
  /\ CASE page \in Lists \cup {"dashboard", "subscriptions"} ->
            rows' = loads[i].of /\ UNCHANGED <<listed, shown, edit>>
       [] page = "live" -> Shows(loads[i].live) /\ UNCHANGED <<rows, shown, edit>>
       [] page = "video" ->
            shown' = loads[i].video /\ FillsForm(loads[i].video) /\ UNCHANGED <<rows, listed>>
       [] page = "user" -> UNCHANGED <<rows, listed, shown, edit>>
  /\ UNCHANGED <<where, search, dialog, calls, servers, strayed, faults>>

\* What is shown stays, under an error; a page without its video, or user, is only that.
LoadFails(i) ==
  /\ i \in 1..Len(loads) /\ loads' = Without(i) /\ loading' = "failed" /\ Fault
  /\ overtaken' = (overtaken \/ i > 1)
  /\ UNCHANGED <<where, search, rows, listed, shown, dialog, edit, calls, servers, strayed>>

(***************************************************************************)
(* Changes: a request, what the server does, and the answer                *)
(***************************************************************************)
Free == {n \in 1..MaxCalls : \A m \in 1..n : m = n <=> calls[m] = NoCall}

Sends(kind, t, a, form) ==
  \E n \in Free :
    calls' = [calls EXCEPT ![n] = [kind |-> kind, mount |-> mount, target |-> t, amount |-> a,
                                   form |-> form, at |-> "sent", got |-> Unseen]]

OnlyDialog == UNCHANGED <<where, search, list, edit, servers, seen, faults>>

\* Slip: the amount is left over from the dialog before.
OpensRefundAsIs(s) == target' = s /\ UNCHANGED amount

OpensRefund(s) == target' = s /\ amount' = Blank

Refund(s) ==
  /\ page = "subscriptions" /\ rows # None /\ target = None /\ OpensRefund(s)
  /\ UNCHANGED <<busy, calls>> /\ OnlyDialog

TypesAmount ==
  /\ page = "subscriptions" /\ target # None
  /\ \E usd \in Amounts : amount' = [usd |-> usd, of |-> target]
  /\ UNCHANGED <<target, busy, calls>> /\ OnlyDialog

\* The buttons of a dialog.
CanConfirm == target # None /\ ~busy

\* Escape, the backdrop and Cancel; the amount stays behind.
Cancels == CanConfirm /\ target' = None /\ UNCHANGED <<amount, busy, calls>> /\ OnlyDialog

\* No amount is a full refund, and so is an amount of 0.
Body(a) == IF a.usd <= 0 THEN Blank ELSE a

handleRefund ==
  /\ page = "subscriptions" /\ CanConfirm
  /\ busy' = TRUE /\ Sends("refund", target, Body(amount), NoForm)
  /\ UNCHANGED <<target, amount>> /\ OnlyDialog

\* Force end, of a session that is listed.
AsksToEnd(s) ==
  /\ page = "live" /\ s \in listed /\ target = None /\ target' = s
  /\ UNCHANGED <<amount, busy, calls>> /\ OnlyDialog

confirmEnd ==
  /\ page = "live" /\ CanConfirm
  /\ busy' = TRUE /\ Sends("end", target, Blank, NoForm)
  /\ UNCHANGED <<target, amount>> /\ OnlyDialog

\* Every POLL_MS, whether or not the poll before it is answered.
Polls ==
  /\ page = "live" /\ Len(loads) < MaxLoads /\ loads' = Append(loads, Asked(page, Home))
  /\ UNCHANGED <<where, search, loading, rows, listed, shown, dialog, edit, calls, servers, seen, faults>>

(***************************************************************************)
(* The video                                                               *)
(***************************************************************************)
OnlyEdit == UNCHANGED <<where, search, list, dialog, servers, seen, faults>>

\* The form is there once the video is, also while it is saved.
CanEdit == page = "video" /\ shown # None

TypesFields ==
  /\ CanEdit /\ \E f \in Fields \ {edit.fields} : edit' = [edit EXCEPT !.fields = f]
  /\ UNCHANGED calls /\ OnlyEdit

\* Tags are no field of the form: they do not make it dirty.  Saving does not reset it either.
isDirty == edit.fields # edit.reset

TagInput == CanEdit /\ Cardinality(edit.tags) < MaxTags

commitTag ==
  /\ TagInput
  /\ \E t \in Tags \ edit.tags : edit' = [edit EXCEPT !.tags = @ \cup {t}]
  /\ UNCHANGED calls /\ OnlyEdit

removeTag ==
  /\ CanEdit /\ \E t \in edit.tags : edit' = [edit EXCEPT !.tags = @ \ {t}]
  /\ UNCHANGED calls /\ OnlyEdit

CanSave == CanEdit /\ ~busy /\ isDirty

onSubmit ==
  /\ CanSave /\ Sends("save", None, Blank, edit)
  /\ busy' = TRUE
  /\ UNCHANGED <<where, search, list, target, amount, edit, servers, seen, faults>>

\* The button stays while the request is in flight.
CanPublish == CanEdit /\ shown.ready /\ ~shown.published

handlePublish ==
  /\ CanPublish /\ Sends("publish", None, Blank, NoForm)
  /\ UNCHANGED edit /\ OnlyEdit

(***************************************************************************)
(* The servers                                                             *)
(***************************************************************************)
\* The page looks at the answer to an edit only.
GotBy(c) == IF c.kind = "save" THEN video' ELSE Unseen

\* The answer is on its way, if the page that waits for it is there.
Answer(n, how) ==
  calls' = [calls EXCEPT ![n] = IF @.mount # mount THEN NoCall
                                ELSE [@ EXCEPT !.at = how, !.got = GotBy(calls[n]), !.form = NoForm]]

OnlyServers == UNCHANGED <<where, search, list, dialog, edit, seen>>

\* An edit and a publication begin with a read of the row.
FromRow == {"save", "publish"}

\* The row with the edit in it.
Edited(form) == [video EXCEPT !.fields = form.fields, !.tags = form.tags]

\* A video that is not ready is not published.
Reads(n) ==
  /\ calls[n] # NoCall /\ calls[n].at = "sent" /\ calls[n].kind \in FromRow
  /\ UNCHANGED <<servers, faults>> /\ OnlyServers
  /\ CASE calls[n].kind = "save" ->
            calls' = [calls EXCEPT ![n] = [@ EXCEPT !.at = "read", !.got = Edited(calls[n].form),
                                                    !.form = NoForm]]
       [] calls[n].kind = "publish" /\ video.ready ->
            calls' = [calls EXCEPT ![n] = [@ EXCEPT !.at = "read"]]
       [] OTHER -> Answer(n, "failed")

\* serializer.save() names no columns: the whole row that was read goes back with the edit.  A
\* publication names its own.  A forced end drops the publisher, if nginx can be reached; the
\* session ends later.
Effect(c) ==
  /\ video' = CASE c.kind = "save" -> c.got
                [] c.kind = "publish" -> [video EXCEPT !.published = TRUE]
                [] OTHER -> video
  /\ undone' = (undone \/ (video.published /\ ~video'.published))
  /\ UNCHANGED session

Serve(n) ==
  /\ calls[n] # NoCall /\ calls[n].at \notin Told
  /\ \/ /\ calls[n].at = IF calls[n].kind \in FromRow THEN "read" ELSE "sent"
        /\ Effect(calls[n])
        /\ \/ UNCHANGED faults /\ Answer(n, "done")
           \/ Fault /\ Answer(n, "failed")
     \/ Fault /\ UNCHANGED servers /\ Answer(n, "failed")
  /\ OnlyServers

\* The transcoder is done with the video.  Here as with the sessions: while a page shows it.
BecomesReady ==
  /\ page = "video" /\ ~video.ready /\ video' = [video EXCEPT !.ready = TRUE]
  /\ UNCHANGED <<where, search, list, dialog, edit, calls, session, undone, seen, faults>>

Broadcasts(s) ==
  /\ page = "live"
  /\ \/ session[s] = "none" /\ session' = [session EXCEPT ![s] = "live"]
     \/ session[s] = "live" /\ session' = [session EXCEPT ![s] = "ended"]
  /\ UNCHANGED <<where, search, list, dialog, edit, calls, video, undone, seen, faults>>

(***************************************************************************)
(* Answers to changes                                                      *)
(***************************************************************************)
\* Slip: the badge changes whether or not the request has succeeded.
ShowsPublishedAlways(ok) == shown' = [shown EXCEPT !.published = TRUE]

ShowsPublished(ok) == shown' = IF ok THEN [shown EXCEPT !.published = TRUE] ELSE shown

ClosesDialog(ok) == target' = (IF ok THEN None ELSE target) /\ busy' = FALSE

\* After a forced end the sessions are loaded again, at once.
Applies(c, ok) ==
  CASE c.kind = "refund" ->
         /\ ClosesDialog(ok) /\ amount' = (IF ok THEN Blank ELSE amount)
         /\ UNCHANGED <<loads, shown, edit>>
    [] c.kind = "end" ->
         /\ ClosesDialog(ok) /\ loads' = (IF ok THEN Append(loads, Asked(page, Home)) ELSE loads)
         /\ UNCHANGED <<amount, shown, edit>>
    [] c.kind = "save" ->
         /\ busy' = FALSE /\ shown' = (IF ok THEN c.got ELSE shown)
         /\ edit' = (IF ok THEN [edit EXCEPT !.tags = c.got.tags] ELSE edit)
         /\ UNCHANGED <<loads, target, amount>>
    [] c.kind = "publish" -> ShowsPublished(ok) /\ UNCHANGED <<loads, dialog, edit>>

Answered(n) ==
  /\ calls[n] # NoCall /\ calls[n].at \in Told
  /\ calls[n].kind = "end" => Len(loads) < MaxLoads
  /\ calls' = [calls EXCEPT ![n] = NoCall]
  /\ Applies(calls[n], calls[n].at = "done")
  /\ UNCHANGED <<where, search, loading, rows, listed, servers, seen, faults>>

Next ==
  \/ OpensVideo \/ OpensUser \/ FromSidebar \/ GoBack
  \/ \E q \in Search : handleSearchChange(q)
  \/ \E t \in Timer : TimerFires(t)
  \/ handlePaginationChange \/ TurnsPage
  \/ \E i \in 1..MaxLoads : LoadAnswered(i) \/ LoadFails(i)
  \/ \E s \in Subs : Refund(s)
  \/ TypesAmount \/ Cancels \/ handleRefund \/ confirmEnd \/ Polls
  \/ TypesFields \/ commitTag \/ removeTag \/ onSubmit \/ handlePublish \/ BecomesReady
  \/ \E s \in Sessions : AsksToEnd(s) \/ Broadcasts(s)
  \/ \E n \in 1..MaxCalls : Reads(n) \/ Serve(n) \/ Answered(n)

\* Timers fire and requests are answered; the interval of the live page goes on.
Fairness ==
  /\ \A t \in Timer : WF_vars(TimerFires(t))
  /\ WF_vars(\E i \in 1..MaxLoads : LoadAnswered(i) \/ LoadFails(i))
  /\ WF_vars(Polls)

Spec == Init /\ [][Next]_vars /\ Fairness

(***************************************************************************)
(* Properties                                                              *)
(***************************************************************************)
\* However dialogs are opened, given up, failed and opened again: an amount that was typed
\* for one subscription is never asked to be refunded to another.
RefundIsMeant ==
  \A n \in 1..MaxCalls :
    calls[n] # NoCall /\ calls[n].kind = "refund" /\ calls[n].amount # Blank
      => calls[n].amount.of = calls[n].target

\* The rows of the subscriptions are those of the page whose number is under them, unless
\* they are being loaded or the load has failed: the buttons let no two loads overlap.
RowsOfPage == page = "subscriptions" /\ loading = "ok" => rows = address

\* Whatever saves, publications and their answers cross: a video is shown as published only
\* when it is, unless a save that had read the row before the publication has undone it on the
\* server since the page was opened: the badge stays then.
BadgeIsTrue == page = "video" /\ shown # None /\ shown.published => video.published \/ undone

\* Whatever polls overlap and fail: on a live page that is kept open, a session that has
\* ended is gone from the list for good.
EndedLeavesList ==
  \A s \in Sessions :
    <>[](page = "live" /\ session[s] = "ended") => <>[](s \notin listed)

\* A list that is kept open comes to show what is left in its search field, on the page that
\* is left chosen, if no answer has overtaken another on it, no load has failed and no timer
\* has come from a page before.
ListSettles ==
  \A n \in 0..LastNo, q \in Search :
    <>[](/\ page \in Lists /\ field = q /\ address.no = n
         /\ ~overtaken /\ ~strayed /\ loading # "failed")
      => <>[](address.q = q /\ rows = address)
=============================================================================
