------------------------------- MODULE Playback -------------------------------
(***************************************************************************)
(* Watching one video: the players of web-user and web-admin, their /api   *)
(* routes, and streaming-service, which filters the master playlist by     *)
(* tier and keeps the watch position of each viewer in Redis.              *)
(*                                                                         *)
(* The page of web-user loads its video again when the token of the tab    *)
(* changes, and takes the player away meanwhile.  A player asks for the    *)
(* saved position, then loads the playlist and seeks there; its controls   *)
(* are there before that.  Every 30 s it posts where it is, with the       *)
(* cookies of the moment, whoever they belong to.  Posts are lost and      *)
(* overtake each other.                                                    *)
(*                                                                         *)
(* Abstractions: the resume request is answered and its answer used in one *)
(* step; positions are small numbers; hls.js is supported; the mark in the *)
(* menu, volume, full screen and hiding the controls are left out.         *)
(***************************************************************************)
EXTENDS Naturals, Sequences, FiniteSets

CONSTANTS
  UserTabs,   \* browser tabs of web-user
  AdminTabs,  \* browser tabs of web-admin
  Users,      \* accounts that sign in
  MaxPos,     \* bound: the last position of the video
  MaxOpens,   \* bound: how often a tab mounts a player
  Scenes,     \* master playlists, sequences of lines; and bounds: how often each tab does,
              \* and how often somebody signs in or out
  MaxBeats,   \* bound: different heartbeats in flight
  MaxFaults   \* bound: failing requests, fatal errors, lost heartbeats

Tabs == UserTabs \cup AdminTabs
AppOf(t) == IF t \in AdminTabs THEN "admin" ELSE "user"
Nobody == "nobody"
Ids == Users \cup {"anonymous", "admin"}
Pos == 0..MaxPos
Mounts == 1..MaxOpens

(***************************************************************************)
(* The quality filter.  A line is a variant's URI (the index of its        *)
(* quality in QUALITY_ORDER), the STREAM-INF before it, or something else. *)
(***************************************************************************)
Other == 0
QUALITY_ORDER == 1..5      \* 240p, 480p, 720p, 1080p, 4K
StreamInf == 9
QUALITY_CAPS == [guest |-> 1, free_trial |-> 2, basic_subscriber |-> 4,
                 premium_subscriber |-> 5, admin |-> 5, superadmin |-> 5]

\* The URI of a variant, in the directory of its quality, follows its STREAM-INF.
IsPlaylist(lines) ==
  /\ lines \in Seq({Other, StreamInf} \cup QUALITY_ORDER)
  /\ \A i \in 1..Len(lines) - 1 : lines[i] = StreamInf => lines[i + 1] \in QUALITY_ORDER

Playlists == \A scene \in Scenes : IsPlaylist(scene.master)
ASSUME ScenesAssumption == Playlists

\* What the routes of each app claim, whoever is signed in.
TierOf == [user |-> "basic_subscriber", admin |-> "admin"]
Cap(t) == QUALITY_CAPS[TierOf[AppOf(t)]]

\* Slip: the cap itself is no longer allowed.
filterBelow(lines, cap) ==
  LET kept[i \in 1..Len(lines) + 2] ==
        IF i > Len(lines) THEN <<>>
        ELSE IF lines[i] # StreamInf THEN <<lines[i]>> \o kept[i + 1]
        ELSE (IF i < Len(lines) /\ lines[i + 1] \in 1..cap - 1
              THEN <<lines[i], lines[i + 1]>> ELSE <<>>) \o kept[i + 2]
  IN kept[1]

\* A STREAM-INF and the line after it are kept or dropped together.
filterMasterManifest(lines, cap) ==
  LET kept[i \in 1..Len(lines) + 2] ==
        IF i > Len(lines) THEN <<>>
        ELSE IF lines[i] # StreamInf THEN <<lines[i]>> \o kept[i + 1]
        ELSE (IF i < Len(lines) /\ lines[i + 1] \in 1..cap
              THEN <<lines[i], lines[i + 1]>> ELSE <<>>) \o kept[i + 2]
  IN kept[1]

\* The levels that hls.js finds in a playlist, in its order.
Levels(lines) ==
  LET found[i \in 1..Len(lines) + 1] ==
        IF i >= Len(lines) THEN <<>>
        ELSE IF lines[i] = StreamInf THEN <<lines[i + 1]>> \o found[i + 1] ELSE found[i + 1]
  IN found[1]

SetOf(levels) == {levels[i] : i \in 1..Len(levels)}

\* The entries of the menu: one for each label, the highest first, each with the index of the
\* first level that has it.
qualityOptions(levels) ==
  LET first(q) == CHOOSE i \in 1..Len(levels) : levels[i] = q /\ \A k \in 1..i - 1 : levels[k] # q
      at(n) == CHOOSE q \in SetOf(levels) : Cardinality({r \in SetOf(levels) : r > q}) = n - 1
  IN [n \in 1..Cardinality(SetOf(levels)) |-> [idx |-> first(at(n)), label |-> at(n)]]

VARIABLES
  master,     \* the lines of the video's master.m3u8 in S3
  session,    \* by app: whom the cookies of the browser name while they are valid
  saved,      \* watch_pos:<id>:<video> in Redis; 0 also when there is none
  plan, signs,  \* of the scene: how often each tab may, and how often somebody still does
  mount,      \* how often each tab has mounted the player
  asks, lost, \* of the page of web-user: loads of its video in flight, and that one has failed
  tab,        \* the player of each tab
  inits,      \* calls of init() that wait for their answer, by mount
  beats,      \* heartbeats in flight
  faults

watch == <<asks, lost>>
vars == <<master, session, saved, plan, signs, mount, watch, tab, inits, beats, faults>>

\* Of the levels: the index of the one hls.js is held at, and the label that was pressed in the
\* menu last; 0 for "Auto".
Player == [page : {"away", "waits", "loading", "manifest", "ready", "error"}, direct : BOOLEAN,
           start : Pos, pos : Pos, playing : BOOLEAN,
           timers : SUBSET Mounts, hls : SUBSET Mounts, levels : Seq(QUALITY_ORDER),
           held : Nat, pressed : {0} \cup QUALITY_ORDER]

NoPlayer == [page |-> "away", direct |-> FALSE, start |-> 0, pos |-> 0, playing |-> FALSE,
             timers |-> {}, hls |-> {}, levels |-> <<>>, held |-> 0, pressed |-> 0]

TypeOK ==
  /\ \E scene \in Scenes : master = scene.master /\ plan = scene.plan /\ signs \in 0..scene.signs
  /\ saved \in [Ids -> Pos]
  /\ session \in [{"user", "admin"} -> Users \cup {Nobody}]
  /\ mount \in [Tabs -> 0..MaxOpens]
  /\ asks \in [UserTabs -> 0..2] /\ lost \in [UserTabs -> BOOLEAN] /\ tab \in [Tabs -> Player]
  /\ inits \in [Tabs -> SUBSET Mounts] /\ beats \subseteq [id : Ids, pos : Pos]
  /\ faults \in Nat

Init ==
  /\ \E scene \in Scenes : master = scene.master /\ plan = scene.plan /\ signs = scene.signs
  /\ saved = [i \in Ids |-> 0] /\ mount = [t \in Tabs |-> 0]
  /\ asks = [t \in UserTabs |-> 0] /\ lost = [t \in UserTabs |-> FALSE]
  /\ session \in [{"user", "admin"} -> Users \cup {Nobody}] /\ tab = [t \in Tabs |-> NoPlayer]
  /\ inits = [t \in Tabs |-> {}] /\ beats = {} /\ faults = 0

\* session?.userId ?? "anonymous", or "admin" in web-admin.
IdOf(t) ==
  IF session[AppOf(t)] # Nobody THEN session[AppOf(t)]
  ELSE IF t \in AdminTabs THEN "admin" ELSE "anonymous"

\* Somebody signs in or out in any tab of the app, or the cookies expire.
SessionChanges ==
  /\ \E a \in {"user", "admin"}, u \in Users \cup {Nobody} : session' = [session EXCEPT ![a] = u]
  /\ signs > 0 /\ signs' = signs - 1
  /\ UNCHANGED <<master, saved, plan, mount, watch, tab, inits, beats, faults>>

Fault == faults < MaxFaults /\ faults' = faults + 1
FaultIf(fails) == IF fails THEN Fault ELSE UNCHANGED faults
OnlyTabs == UNCHANGED <<master, session, saved, plan, signs, beats>>
Becomes(t, p) == tab' = [tab EXCEPT ![t] = p]

(***************************************************************************)
(* The page of web-user                                                    *)
(***************************************************************************)
\* The cleanup clears the timer and destroys hls of its own mount.
Unmounted(t) == [NoPlayer EXCEPT !.timers = tab[t].timers \ {mount[t]},
                                 !.hls = tab[t].hls \ {mount[t]}]

OnlyPage == UNCHANGED <<mount, inits>> /\ OnlyTabs

\* The page is opened, or its token changes: the indicator takes the place of the player.
LoadsVideo(t) ==
  /\ t \in UserTabs /\ asks[t] < 2 /\ mount[t] < plan[t]
  /\ asks' = [asks EXCEPT ![t] = @ + 1] /\ Becomes(t, [Unmounted(t) EXCEPT !.page = "waits"])
  /\ UNCHANGED <<lost, faults>> /\ OnlyPage

\* A load is not cancelled by the one after it; its error stays, whatever comes then, and takes
\* the place of the player.
VideoFails(t) ==
  /\ t \in UserTabs /\ asks[t] > 0 /\ tab[t].page # "away" /\ Fault
  /\ asks' = [asks EXCEPT ![t] = @ - 1] /\ lost' = [lost EXCEPT ![t] = TRUE]
  /\ Becomes(t, [Unmounted(t) EXCEPT !.page = "waits"]) /\ OnlyPage

(***************************************************************************)
(* Mounting and unmounting: the effect, its init() and its cleanup         *)
(***************************************************************************)
\* A live replay may come with its own playlist.
MountsPlayer(t) ==
  /\ mount[t] < plan[t] /\ mount' = [mount EXCEPT ![t] = @ + 1]
  /\ \/ /\ inits' = [inits EXCEPT ![t] = @ \cup {mount[t] + 1}]
        /\ Becomes(t, [tab[t] EXCEPT !.page = "loading"])
     \/ /\ t \in UserTabs /\ UNCHANGED inits
        /\ Becomes(t, [tab[t] EXCEPT !.page = "manifest", !.direct = TRUE,
                                     !.hls = @ \cup {mount[t] + 1}])

\* The answer of a load; a player that is there already stays.
VideoLoaded(t) ==
  /\ t \in UserTabs /\ asks[t] > 0 /\ asks' = [asks EXCEPT ![t] = @ - 1]
  /\ IF tab[t].page = "waits" /\ ~lost[t] THEN MountsPlayer(t) ELSE UNCHANGED <<mount, inits, tab>>
  /\ UNCHANGED <<lost, faults>> /\ OnlyTabs

\* The page of web-admin, once it has its video.
Open(t) ==
  /\ t \in AdminTabs /\ tab[t].page = "away" /\ MountsPlayer(t)
  /\ UNCHANGED <<watch, faults>> /\ OnlyTabs

\* The page is left; its loads are for nothing.
Close(t) ==
  /\ tab[t].page # "away" /\ Becomes(t, Unmounted(t))
  /\ asks' = [u \in UserTabs |-> IF u = t THEN 0 ELSE asks[u]]
  /\ lost' = [u \in UserTabs |-> lost[u] /\ u # t]
  /\ UNCHANGED <<mount, inits, faults>> /\ OnlyTabs

\* Slip: init() goes on without looking whether its mount is over.
CancelledNever(t, m) == FALSE

Cancelled(t, m) == m # mount[t] \/ tab[t].page \in {"away", "waits"}

\* When Redis or the service fails the route answers 0.
resumeHandler(t, fails) == IF fails THEN 0 ELSE saved[IdOf(t)]

\* The answer to resume.
InitGoesOn(t, m) ==
  /\ m \in inits[t] /\ inits' = [inits EXCEPT ![t] = @ \ {m}]
  /\ IF Cancelled(t, m) THEN UNCHANGED <<tab, faults>>
     ELSE \E fails \in BOOLEAN :
            /\ Becomes(t, [tab[t] EXCEPT !.page = "manifest",
                             !.start = resumeHandler(t, fails),
                             !.hls = @ \cup {m}, !.timers = @ \cup {m}])
            /\ FaultIf(fails)
  /\ UNCHANGED <<mount, watch>> /\ OnlyTabs

\* fetch itself rejects.
InitThrows(t, m) ==
  /\ m \in inits[t] /\ inits' = [inits EXCEPT ![t] = @ \ {m}]
  /\ IF Cancelled(t, m) THEN UNCHANGED tab ELSE Becomes(t, [tab[t] EXCEPT !.page = "error"])
  /\ Fault /\ UNCHANGED <<mount, watch>> /\ OnlyTabs

(***************************************************************************)
(* Playing                                                                 *)
(***************************************************************************)
OnlyPlayer == UNCHANGED <<mount, watch, inits>> /\ OnlyTabs

\* A direct playlist does not pass through streaming-service.
Offered(t) ==
  IF tab[t].direct THEN Levels(master) ELSE Levels(filterMasterManifest(master, Cap(t)))

\* MANIFEST_PARSED: seek to the start, in web-user unless it is 0, and play, if the browser
\* lets it.
ManifestParsed(t) ==
  /\ tab[t].page = "manifest" /\ Offered(t) # <<>>
  /\ \E plays \in BOOLEAN :
       Becomes(t, [tab[t] EXCEPT !.page = "ready", !.levels = Offered(t), !.playing = plays,
         !.pos = IF t \in AdminTabs \/ tab[t].start > 0 THEN tab[t].start ELSE @, !.start = 0])
  /\ UNCHANGED faults /\ OnlyPlayer

\* A fatal error: no playlist, none of its levels allowed, or no way to go on.  The video
\* element goes, and with it playback; the effect is not cleaned up.
FatalError(t) ==
  /\ tab[t].page \in {"manifest", "ready"}
  /\ FaultIf(tab[t].page = "ready" \/ Offered(t) # <<>>)
  /\ Becomes(t, [tab[t] EXCEPT !.page = "error", !.start = 0, !.playing = FALSE])
  /\ OnlyPlayer

\* Playback goes on, and ends with a pause.
Moves(t) ==
  /\ tab[t].playing /\ tab[t].pos < MaxPos
  /\ Becomes(t, [tab[t] EXCEPT !.pos = @ + 1, !.playing = tab[t].pos + 1 < MaxPos])
  /\ UNCHANGED faults /\ OnlyPlayer

\* The video and its controls are there from init() to an error.
Controls(t) == tab[t].page \in {"manifest", "ready"}

togglePlay(t) ==
  /\ tab[t].page = "ready" /\ Becomes(t, [tab[t] EXCEPT !.playing = ~@])
  /\ UNCHANGED faults /\ OnlyPlayer

handleSeek(t) ==
  /\ Controls(t) /\ \E p \in Pos \ {tab[t].pos} : Becomes(t, [tab[t] EXCEPT !.pos = p])
  /\ UNCHANGED faults /\ OnlyPlayer

\* An entry of the menu, or "Auto".
setQuality(t) ==
  /\ Controls(t) /\ tab[t].levels # <<>>
  /\ LET options == qualityOptions(tab[t].levels)
     IN \E n \in 0..Len(options) :
          LET o == IF n = 0 THEN [idx |-> 0, label |-> 0] ELSE options[n]
          IN Becomes(t, [tab[t] EXCEPT !.held = o.idx, !.pressed = o.label])
  /\ UNCHANGED faults /\ OnlyPlayer

(***************************************************************************)
(* Heartbeats                                                              *)
(***************************************************************************)
\* The interval ticks whatever the video does.
Heartbeat(t) ==
  /\ tab[t].timers # {} /\ beats' = beats \cup {[id |-> IdOf(t), pos |-> tab[t].pos]}
  /\ Cardinality(beats') <= MaxBeats
  /\ UNCHANGED <<master, session, saved, plan, signs, mount, watch, tab, inits, faults>>

\* Slip: only the first position is kept (SET ... NX).
savePositionOnce(b) ==
  /\ b \in beats /\ beats' = beats \ {b}
  /\ saved' = [saved EXCEPT ![b.id] = IF @ = 0 THEN b.pos ELSE @]
  /\ UNCHANGED <<master, session, plan, signs, mount, watch, tab, inits, faults>>

savePosition(b) ==
  /\ b \in beats /\ beats' = beats \ {b} /\ saved' = [saved EXCEPT ![b.id] = b.pos]
  /\ UNCHANGED <<master, session, plan, signs, mount, watch, tab, inits, faults>>

LoseHeartbeat(b) ==
  /\ b \in beats /\ beats' = beats \ {b} /\ Fault
  /\ UNCHANGED <<master, session, saved, plan, signs, mount, watch, tab, inits>>

AllBeats == [id : Ids, pos : Pos]
Next ==
  \/ SessionChanges
  \/ \E t \in Tabs : \/ LoadsVideo(t) \/ VideoLoaded(t) \/ VideoFails(t)
                     \/ Open(t) \/ Close(t) \/ ManifestParsed(t) \/ FatalError(t)
                     \/ Moves(t) \/ togglePlay(t) \/ handleSeek(t)
                     \/ setQuality(t) \/ Heartbeat(t)
                     \/ \E m \in Mounts : InitGoesOn(t, m) \/ InitThrows(t, m)
  \/ \E b \in AllBeats : savePosition(b) \/ LoseHeartbeat(b)

\* The interval goes on ticking (strongly fair, for the bound on what is in flight may
\* withhold a tick) and a request that is not lost arrives.
Fairness ==
  /\ \A t \in Tabs : SF_vars(Heartbeat(t))
  /\ \A b \in AllBeats : WF_vars(savePosition(b))

Spec == Init /\ [][Next]_vars /\ Fairness

(***************************************************************************)
(* Properties                                                              *)
(***************************************************************************)
\* However mounting, unmounting and a late answer interleave: the interval and the hls
\* object that exist belong to the player on the page, and a live replay has no interval.
NothingLeaks ==
  \A t \in Tabs :
    /\ tab[t].hls \cup tab[t].timers \subseteq {mount[t]}
    /\ tab[t].page \in {"away", "waits", "loading"} => tab[t].hls \cup tab[t].timers = {}
    /\ tab[t].direct => tab[t].timers = {}

\* A player offers the variants of the master playlist up to the cap that the filter has for
\* the tier its app claims (QUALITY_CAPS; docs/features.md names lower ones), all of them and
\* no other, whichever lines the filter meets; and it is held at the one whose label was
\* pressed in the menu, although the menu is in another order.
WithinCap ==
  \A t \in Tabs : tab[t].page = "ready" =>
    /\ ~tab[t].direct => SetOf(tab[t].levels) = {q \in SetOf(Levels(master)) : q <= Cap(t)}
    /\ tab[t].held # 0 => tab[t].levels[tab[t].held] = tab[t].pressed

\* A player left at one position, playing or not, gets it saved again and again under the
\* viewer it has, although others write the same key and posts are lost or overtaken.
Rests(t, i, p) == tab[t].page = "ready" /\ ~tab[t].direct /\ IdOf(t) = i /\ tab[t].pos = p
ProgressSaved ==
  \A t \in Tabs, i \in Users, p \in Pos : <>[]Rests(t, i, p) => []<>(saved[i] = p)
=============================================================================
