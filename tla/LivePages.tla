------------------------------- MODULE LivePages -------------------------------
(***************************************************************************)
(* The live pages of web-user and what live-service keeps for their        *)
(* audience.  One tab is either on the go-live page, and broadcasts from   *)
(* the browser, or on a list of who is live, whence it opens the page of a *)
(* session, and watches it.                                                *)
(*                                                                         *)
(* The handlers of a page are callbacks: of prompts, timers, sockets and   *)
(* requests that were begun before something else happened, the end of     *)
(* the page included.  What a callback captured is kept with it.           *)
(*                                                                         *)
(* Abstractions: a capture is its number, a message and a title have no    *)
(* text, one period of the heartbeat (15 s) is a tick.  The audience is    *)
(* this tab; the session that is watched is somebody else's.               *)
(***************************************************************************)
EXTENDS Naturals, FiniteSets

CONSTANTS
  MaxStreams,  \* bound: captures the user asks for
  MaxSockets,  \* bound: times the user presses Go Live
  MaxFaults    \* bound: connections that drop, and polls that fail

ASSUME BoundsAssumption == {MaxStreams, MaxSockets, MaxFaults} \subseteq Nat

Streams == 1..MaxStreams
Sockets == 1..MaxSockets
Stale == 3   \* beats after which a viewer is gone

VARIABLES
  page,                    \* "golive" then "left", or "list", "watch", then "away" or "replay"
  \* the go-live page
  phase, prompts, given,   \* its phase, open permission prompts, captures given so far
  stream, alive,           \* streamRef (0: null), and the captures that run
  sock, of, timer,         \* each socket, the capture its goLive() took, its connect timer
  ref, rec, feeds,         \* socketRef, recorderRef's socket, running recorders of a socket
  \* the watch page
  status, shown, notFound, \* of the session: in the database, and as the page has it
  loads, hls,              \* answers to polls that are on their way, the player
  \* the chat of either page
  waits, chats,            \* effects that wait for a token, sockets that are open
  key, ttl, first,         \* the rate counter, its expiry, and whether INCR has just made it
  died,                    \* live-service has died in a message
  \* the viewer count
  age, beats, snap, count, \* score in the sorted set, beat in flight, snapshot, the row
  faults

golive == <<phase, prompts, given, stream, alive, sock, of, timer, ref, rec, feeds>>
watch == <<shown, notFound, loads, hls>>
chat == <<waits, chats, key, ttl, first, died>>
viewers == <<age, beats, snap, count>>
vars == <<page, golive, status, watch, chat, viewers, faults>>

Statuses == {"live", "stitching", "stitch_failed", "ended"}
Gone == Stale + 1

TypeOK ==
  /\ page \in {"golive", "left", "list", "watch", "away", "replay"}
  /\ phase \in {"setup", "preview", "connecting", "live"}
  /\ prompts \in 0..MaxStreams /\ given \in 0..MaxStreams
  /\ stream \in 0..given /\ alive \subseteq 1..given
  /\ sock \in [Sockets -> {"none", "token", "opening", "open", "up", "shut"}]
  /\ of \in [Sockets -> 0..MaxStreams] /\ timer \subseteq Sockets
  /\ ref \in 0..MaxSockets /\ rec \in 0..MaxSockets /\ feeds \in [Sockets -> Nat]
  /\ status \in Statuses /\ shown \in (Statuses \ {"ended"}) \cup {"none"}
  /\ notFound \in BOOLEAN /\ loads \subseteq Statuses \cup {"none", "fails"}
  /\ hls \in {"none", "loads", "plays", "dead"}
  /\ waits \subseteq {"own", "stray"} /\ chats \subseteq {"own", "stray"}
  /\ key \in 0..2 /\ ttl \in BOOLEAN /\ first \in BOOLEAN /\ died \in BOOLEAN
  /\ age \in 0..Gone /\ beats \in BOOLEAN /\ snap \in {"idle", "listed", "gone", "here"}
  /\ count \in 0..1 /\ faults \in 0..MaxFaults

Init ==
  /\ page \in {"golive", "list", "watch"}
  /\ phase = "setup" /\ prompts = 0 /\ given = 0 /\ stream = 0 /\ alive = {}
  /\ sock = [s \in Sockets |-> "none"] /\ of = [s \in Sockets |-> 0] /\ timer = {}
  /\ ref = 0 /\ rec = 0 /\ feeds = [s \in Sockets |-> 0]
  /\ status = "live" /\ shown = "none" /\ notFound = FALSE /\ loads = {} /\ hls = "none"
  /\ waits = {} /\ chats = {} /\ key = 0 /\ ttl = FALSE /\ first = FALSE /\ died = FALSE
  /\ age = Gone /\ beats = FALSE /\ snap = "idle" /\ count = 0 /\ faults = 0

Fault == faults < MaxFaults /\ faults' = faults + 1

(***************************************************************************)
(* The go-live page                                                        *)
(***************************************************************************)
OnlyGoLive == UNCHANGED <<status, watch, chat, viewers>>

\* State that is set after the page is gone is ignored.
SetPhase(p) == phase' = IF page = "golive" THEN p ELSE phase

\* Slip: an error of a socket moves the page only from "connecting".
FallsBackFromConnecting == phase' = IF phase = "connecting" THEN "preview" ELSE phase

FallsBack == SetPhase("preview")

\* teardown: the recorder and the socket of the refs, whichever they are by now.
StopsRefs ==
  /\ sock' = [s \in Sockets |-> IF s = ref THEN "shut" ELSE sock[s]]
  /\ ref' = 0 /\ rec' = 0

StopsRecorder(running) ==
  feeds' = [s \in Sockets |-> IF s = rec /\ running[s] > 0 THEN running[s] - 1 ELSE running[s]]

TeardownKeepingStream ==
  StopsRefs /\ StopsRecorder(feeds) /\ UNCHANGED <<prompts, given, stream, alive, of>>

\* Without keepStream the capture of streamRef stops too, and recorders without one.
Teardown(stopped) ==
  /\ StopsRefs /\ alive' = alive \ (stopped \cup {stream}) /\ stream' = 0
  /\ StopsRecorder([s \in Sockets |-> IF of[s] \in alive' THEN feeds[s] ELSE 0])
  /\ UNCHANGED <<prompts, given, of, timer>>

\* What the page lets the user do: the toggles and the Go Live button are on the card that is
\* shown until it is live, the End button on the one after that.
Toggles == page = "golive" /\ phase \in {"setup", "preview"}
GoLiveButton == page = "golive" /\ phase = "preview"
EndButton == page = "golive" /\ phase = "live"

\* The user chooses a source; the one before goes on.
Acquire ==
  /\ Toggles
  /\ given + prompts < MaxStreams /\ prompts' = prompts + 1
  /\ UNCHANGED <<page, phase, given, stream, alive, sock, of, timer, ref, rec, feeds, faults>>
  /\ OnlyGoLive

\* The prompt is answered, whatever the page has come to: a refusal changes nothing.
Acquired ==
  /\ prompts > 0 /\ prompts' = prompts - 1
  /\ \/ /\ given' = given + 1 /\ stream' = given' /\ alive' = alive \cup {given'}
        /\ SetPhase("preview")
     \/ UNCHANGED <<given, stream, alive, phase>>
  /\ UNCHANGED <<page, sock, of, timer, ref, rec, feeds, faults>> /\ OnlyGoLive

\* goLive up to refreshAuth(): the phase does not change yet, so the button stays enabled.
GoLive(s) ==
  /\ GoLiveButton /\ stream # 0
  /\ sock[s] = "none" /\ \A r \in 1..(s - 1) : sock[r] # "none"
  /\ sock' = [sock EXCEPT ![s] = "token"] /\ of' = [of EXCEPT ![s] = stream]
  /\ UNCHANGED <<page, phase, prompts, given, stream, alive, timer, ref, rec, feeds, faults>>
  /\ OnlyGoLive

\* The rest of it: without a token, a codec or a microphone it stops there.
Connect(s) ==
  /\ sock[s] = "token"
  /\ \/ /\ sock' = [sock EXCEPT ![s] = "opening"] /\ ref' = s
        /\ timer' = timer \cup {s} /\ SetPhase("connecting")
     \/ sock' = [sock EXCEPT ![s] = "shut"] /\ UNCHANGED <<ref, timer, phase>>
  /\ UNCHANGED <<page, prompts, given, stream, alive, of, rec, feeds, faults>> /\ OnlyGoLive

\* Slip: the timer is cleared when the socket connects.
ClearsTimer(s) == timer' = timer \ {s}

KeepsTimer(s) == UNCHANGED timer

\* The gateway accepts the socket and begins a broadcast: in itself no event for the page.
Accepted(s) ==
  /\ sock[s] = "opening" /\ sock' = [sock EXCEPT ![s] = "open"] /\ KeepsTimer(s)
  /\ UNCHANGED <<page, phase, prompts, given, stream, alive, of, ref, rec, feeds, faults>>
  /\ OnlyGoLive

\* connect_error and ingest_error, of this socket or of one the refs have forgotten.
Failed(s) ==
  /\ sock[s] \in {"opening", "open"} /\ ClearsTimer(s) /\ TeardownKeepingStream /\ FallsBack
  /\ UNCHANGED <<page, faults>> /\ OnlyGoLive

TimedOut(s) ==
  /\ s \in timer /\ ClearsTimer(s)
  /\ IF ref = s THEN TeardownKeepingStream /\ SetPhase("preview")
     ELSE UNCHANGED <<phase, prompts, given, stream, alive, sock, of, ref, rec, feeds>>
  /\ UNCHANGED <<page, faults>> /\ OnlyGoLive

\* live_started: a recorder of the capture taken by goLive(); on one that is over it throws.
LiveStarted(s) ==
  /\ sock[s] = "open" /\ sock' = [sock EXCEPT ![s] = "up"] /\ ClearsTimer(s)
  /\ IF of[s] \in alive
     THEN rec' = s /\ feeds' = [feeds EXCEPT ![s] = @ + 1] /\ SetPhase("live")
     ELSE UNCHANGED <<rec, feeds, phase>>
  /\ UNCHANGED <<page, prompts, given, stream, alive, of, ref, faults>> /\ OnlyGoLive

\* socket.io connects again by itself; the recorder goes on.
Dropped(s) ==
  /\ sock[s] \in {"open", "up"} /\ sock' = [sock EXCEPT ![s] = "opening"] /\ Fault
  /\ UNCHANGED <<page, phase, prompts, given, stream, alive, of, timer, ref, rec, feeds>>
  /\ OnlyGoLive

EndBroadcast ==
  /\ EndButton /\ Teardown({}) /\ SetPhase("setup")
  /\ UNCHANGED <<page, faults>> /\ OnlyGoLive

\* The user stops sharing in the browser, this capture or an earlier one: the same.
CaptureEnded(st) ==
  /\ st \in alive /\ Teardown({st}) /\ SetPhase("setup") /\ UNCHANGED <<page, faults>>
  /\ OnlyGoLive

LeaveGoLive ==
  /\ page = "golive" /\ page' = "left" /\ phase' = "setup" /\ Teardown({})
  /\ UNCHANGED faults /\ OnlyGoLive

(***************************************************************************)
(* The lists of who is live, and the page of a session                     *)
(***************************************************************************)
OnlyWatch == UNCHANGED <<golive, status, chat, viewers>>

\* Slip: the cleanup of the effect does not cancel the polls in flight.
CancelsNone == UNCHANGED loads

Cancels == loads' = {}

Audience == page \in {"list", "watch"}

\* Once there was an answer, and as long as no poll has failed.
Rendered == page = "watch" /\ shown # "none" /\ ~notFound

\* The page shows a player for a session that is live as far as it knows.
Plays == Rendered /\ shown = "live"

\* The player comes and goes with that, and is loaded once: the address does not change.
PlayerFollows ==
  hls' = IF ~Plays' THEN "none" ELSE IF hls = "none" THEN "loads" ELSE hls

\* No error of hls.js is looked at: a playlist that is not there yet leaves a dead player.
ManifestParsed ==
  /\ hls = "loads" /\ hls' \in {"plays", "dead"}
  /\ UNCHANGED <<page, shown, notFound, loads, faults>> /\ OnlyWatch

\* What live-service answers: of the sessions that are live, or of the one that is asked for.
Served == IF page = "list" /\ status # "live" THEN "none" ELSE status

\* setInterval does not wait for the poll before.
Poll ==
  /\ Audience /\ Cardinality(loads) < 2
  /\ \/ loads' = loads \cup {Served} /\ UNCHANGED faults
     \/ loads' = loads \cup {"fails"} /\ Fault
  /\ UNCHANGED <<page, shown, notFound, hls>> /\ OnlyWatch

\* Slip: once a poll has failed, the page stops looking.
HeedsUnlessNotFound(a) == a \in loads /\ ~notFound

Heeds(a) == a \in loads

\* The list holds the sessions that are live; a poll that fails leaves it as it is.
ListPolled(a) ==
  /\ page = "list" /\ a \in loads /\ loads' = loads \ {a}
  /\ shown' = IF a = "fails" THEN shown ELSE a
  /\ UNCHANGED <<page, notFound, faults>> /\ PlayerFollows /\ OnlyWatch

\* Without a session the strip and the list show no card.
Listed == page = "list" /\ shown # "none"

\* The card links to the page of the session, whatever has become of that.
OpensCard ==
  /\ Listed /\ page' = "watch" /\ shown' = "none" /\ Cancels
  /\ UNCHANGED <<notFound, faults>> /\ PlayerFollows /\ OnlyWatch

\* Answers come in any order.  One that changes the pace runs the effect again.
Polled(a) ==
  /\ page # "list" /\ Heeds(a)
  /\ \/ a = "ended" /\ page' = "replay" /\ Cancels /\ UNCHANGED <<shown, notFound>>
     \/ a = "fails" /\ notFound' = TRUE /\ loads' = loads \ {a} /\ UNCHANGED <<page, shown>>
     \/ /\ a \notin {"ended", "fails"} /\ shown' = a /\ UNCHANGED <<page, notFound>>
        /\ loads' = IF (a = "stitching") # (shown = "stitching") THEN {status} ELSE loads \ {a}
  /\ UNCHANGED faults /\ PlayerFollows /\ OnlyWatch

LeaveWatch ==
  /\ Audience /\ page' = "away" /\ Cancels /\ UNCHANGED <<shown, notFound, faults>>
  /\ PlayerFollows /\ OnlyWatch

\* The session goes on its own way; ended, it has its video, and the set is deleted, unless
\* that fails and the session is marked failed after all.
SessionMoves ==
  /\ Audience
  /\ \/ status \in {"live", "stitch_failed"} /\ status' = "stitching" /\ UNCHANGED <<age, faults>>
     \/ status = "stitching" /\ status' = "stitch_failed" /\ UNCHANGED <<age, faults>>
     \/ status = "stitching" /\ status' = "ended" /\ age' = Gone /\ UNCHANGED faults
     \/ status = "ended" /\ status' = "stitch_failed" /\ Fault /\ UNCHANGED age
  /\ UNCHANGED <<page, golive, watch, chat, beats, snap, count>>

(***************************************************************************)
(* The chat                                                                *)
(***************************************************************************)
OnlyChat == UNCHANGED <<page, golive, status, watch, viewers, faults>>

ChatShown == Rendered \/ EndButton

\* The effect asks for a token; a reader who is not signed in gets no socket.
ChatMounts ==
  /\ ChatShown /\ waits \cap {"own"} = {} /\ "own" \notin chats /\ waits' = waits \cup {"own"}
  /\ UNCHANGED <<chats, key, ttl, first, died>> /\ OnlyChat

\* A cancelled effect opens no socket.
Opens(w) == chats' = IF w = "own" THEN chats \cup {w} ELSE chats

ChatToken(w) ==
  /\ w \in waits /\ waits' = waits \ {w}
  /\ Opens(w) \/ UNCHANGED chats
  /\ UNCHANGED <<key, ttl, first, died>> /\ OnlyChat

\* The cleanup: the socket of the effect closes, its wait goes on for nothing.
ChatUnmounts ==
  /\ ~ChatShown /\ (chats \cup waits) \cap {"own"} # {}
  /\ chats' = chats \ {"own"}
  /\ waits' = IF "own" \in waits THEN {"stray"} ELSE waits
  /\ UNCHANGED <<key, ttl, first, died>> /\ OnlyChat

\* A message goes out only over a socket.  (Bound: of the two users of the chat, the one who
\* broadcasts writes.)
send == "own" \in chats /\ page = "golive"

\* INCR; the message after the first of a window is refused.
ChatMessage ==
  /\ send /\ key < 2 /\ key' = key + 1 /\ first' = (first \/ key = 0)
  /\ UNCHANGED <<waits, chats, ttl, died>> /\ OnlyChat

\* Slip: a counter that has grown in the meantime is left to the message that grew it.
ExpiresIfAlone == ttl' = (key = 1)

SetsExpiry == ttl' = TRUE

\* EXPIRE, another command: live-service may die before it.
ChatExpire ==
  /\ first /\ first' = FALSE
  /\ \/ SetsExpiry /\ UNCHANGED died
     \/ died' = TRUE /\ UNCHANGED ttl
  /\ UNCHANGED <<waits, chats, key>> /\ OnlyChat

ChatWindowEnds ==
  /\ ttl /\ key' = 0 /\ ttl' = FALSE /\ UNCHANGED <<waits, chats, first, died>> /\ OnlyChat

(***************************************************************************)
(* The viewer count                                                        *)
(***************************************************************************)
OnlyViewers == UNCHANGED <<page, golive, status, watch, chat, faults>>

Watched == page \notin {"golive", "left"}

\* From a player that plays or not, sent and forgotten: it may arrive when the player is gone, or never.
Beat == Plays /\ ~beats /\ beats' = TRUE /\ UNCHANGED <<age, snap, count>> /\ OnlyViewers

\* ZADD makes the set if there is none.
BeatArrives ==
  /\ beats /\ beats' = FALSE /\ age' \in {0, age} /\ UNCHANGED <<snap, count>> /\ OnlyViewers

Tick ==
  /\ Watched /\ age < Stale /\ age' = age + 1 /\ UNCHANGED <<beats, snap, count>> /\ OnlyViewers

Prunes == age >= Stale

\* snapshotViewers: of the sessions that are live when it lists them.
SnapshotLists ==
  /\ Watched /\ snap = "idle" /\ status = "live" /\ snap' = "listed"
  /\ UNCHANGED <<age, beats, count>> /\ OnlyViewers

SnapshotCounts ==
  /\ snap = "listed" /\ snap' = IF Prunes THEN "gone" ELSE "here"
  /\ age' = IF Prunes THEN Gone ELSE age
  /\ UNCHANGED <<beats, count>> /\ OnlyViewers

\* Slip: a session that nobody watches is not written.
SnapshotWritesSome ==
  /\ snap \in {"gone", "here"} /\ snap' = "idle"
  /\ count' = IF snap = "here" THEN 1 ELSE count
  /\ UNCHANGED <<age, beats>> /\ OnlyViewers

SnapshotWrites ==
  /\ snap \in {"gone", "here"} /\ count' = (IF snap = "here" THEN 1 ELSE 0) /\ snap' = "idle" /\ UNCHANGED <<age, beats>>
  /\ OnlyViewers

Next ==
  \/ Acquire \/ Acquired \/ EndBroadcast \/ LeaveGoLive
  \/ \E s \in Sockets :
       GoLive(s) \/ Connect(s) \/ Accepted(s) \/ Failed(s) \/ TimedOut(s) \/ LiveStarted(s)
         \/ Dropped(s)
  \/ \E st \in Streams : CaptureEnded(st)
  \/ Poll \/ OpensCard \/ ManifestParsed \/ LeaveWatch \/ SessionMoves
  \/ \E a \in {"live", "none", "fails"} : ListPolled(a)
  \/ \E a \in Statuses \cup {"fails"} : Polled(a)
  \/ ChatMounts \/ ChatUnmounts \/ ChatMessage \/ ChatExpire \/ ChatWindowEnds
  \/ \E w \in {"own", "stray"} : ChatToken(w)
  \/ Beat \/ BeatArrives \/ Tick \/ SnapshotLists \/ SnapshotCounts \/ SnapshotWrites

\* Timers fire, requests are answered, commands complete; users and faults owe nothing.
Fairness ==
  /\ WF_vars(\E s \in Sockets : TimedOut(s))
  /\ WF_vars(Poll) /\ WF_vars(\E a \in Statuses \cup {"fails"} : Polled(a))
  /\ WF_vars(BeatArrives) /\ WF_vars(Tick)
  /\ WF_vars(SnapshotLists \/ SnapshotCounts \/ SnapshotWrites)

Spec == Init /\ [][Next]_vars /\ Fairness

(***************************************************************************)
(* Properties                                                              *)
(***************************************************************************)
\* Whatever sockets and captures are superseded, the page says it is live only while the
\* recorder it would stop is running.
LiveHasRecorder == phase = "live" => rec # 0 /\ feeds[rec] > 0

\* The page does not stay connecting, unless the capture was over before the socket was made.
ConnectingEnds ==
  phase = "connecting" ~> phase # "connecting" \/ (ref # 0 /\ of[ref] \notin alive)

\* Polls that fail or come out of order do not keep a watcher from the replay.
WatcherReachesReplay ==
  page = "watch" /\ status = "ended" ~> page # "watch" \/ status # "ended"

\* What was cancelled does nothing more: no late poll redirects a tab that has left the page,
\* and no chat effect that was cleaned up while it waited for its token opens a socket.
LeavesForGood == [][(page = "away" => page' = "away") /\ "stray" \notin chats']_vars

\* When nobody watches a live session any more, the count on its row goes back to none, also
\* when a beat arrives after the player is gone.
CountSettles == ~Plays /\ status = "live" /\ Watched ~> count = 0 \/ Plays \/ status # "live"

\* A user who has spoken is not muted for ever: the counter expires, or is about to be given
\* its expiry, however messages and windows overlap; unless live-service died in between.
MutedForAWhile == key > 0 => ttl \/ first \/ died
=============================================================================
