--------------------------- MODULE LivePages_proofs ---------------------------
(***************************************************************************)
(* Proofs about LivePages and, at the end, about the players (Playback),   *)
(* for every number of captures, sockets, tabs, mounts and faults.         *)
(*                                                                         *)
(* Each property has the invariant it needs: the callbacks of a go-live    *)
(* page that is gone find it set up (Recording), a tab without a live page *)
(* has no poll in flight (Cancelled), and of the chat the counter is a     *)
(* number (Counted).  The types add that an open prompt has a capture left *)
(* to be given (GoLiveTyped).  A player holds at most an interval and an   *)
(* hls object of its last mount (Holds), and one that init() still prepares *)
(* has no playlist of its own (Preparing).                                 *)
(*                                                                         *)
(* What the filter and the menu do is proved for playlists of any length:  *)
(* the functions they recurse through exist, and have the values they      *)
(* should, by induction over the lines that are left.  A player has the    *)
(* levels that the filter left it, at most one menu entry for each (Menus).*)
(***************************************************************************)
EXTENDS LivePages, Integers, Sequences, FiniteSetTheorems, SequenceTheorems, TLAPS

Recording ==
  /\ feeds \in [Sockets -> Nat] /\ rec \in {0} \cup Sockets
  /\ page # "golive" => phase # "live"
  /\ LiveHasRecorder

Cancelled == (~Audience => loads = {}) /\ "stray" \notin chats

Counted == key \in Nat /\ MutedForAWhile

Pages == Recording /\ Cancelled /\ Counted

-----------------------------------------------------------------------------
LEMMA PagesInit == Init => Pages
BY DEF Init, Pages, Audience, Recording, LiveHasRecorder, Cancelled, Counted, MutedForAWhile, Sockets

\* What leaves the recorder alone, the polls, or the counter.
LEMMA RecordingKept ==
  ASSUME Recording, UNCHANGED <<feeds, rec, phase>>, page' = page \/ page # "golive"
  PROVE  Recording'
BY DEF Recording, LiveHasRecorder

LEMMA CountedKept ==
  ASSUME Counted, UNCHANGED chat
  PROVE  Counted'
BY DEF Counted, MutedForAWhile, chat

-----------------------------------------------------------------------------
(* The go-live page.                                                          *)

\* A teardown leaves nothing for the refs, and a number for every socket.
LEMMA TeardownKeeps ==
  ASSUME Recording, NEW running \in [Sockets -> Nat], StopsRefs, StopsRecorder(running), phase' # "live"
  PROVE  Recording'
<1>1. rec' = 0
  BY DEF StopsRefs
<1>2. feeds' \in [Sockets -> Nat]
  <2>1. \A s \in Sockets : (IF s = rec /\ running[s] > 0 THEN running[s] - 1 ELSE running[s]) \in Nat
    <3> TAKE s \in Sockets
    <3>1. running[s] \in Nat
      OBVIOUS
    <3> QED
      BY <3>1
  <2> QED
    BY <2>1 DEF StopsRecorder
<1> QED
  BY <1>1, <1>2 DEF Recording, LiveHasRecorder

LEMMA GoLiveSteps ==
  ASSUME Pages,
         \/ Acquire \/ Acquired \/ EndBroadcast \/ LeaveGoLive
         \/ \E s \in Sockets : \/ GoLive(s) \/ Connect(s) \/ Accepted(s) \/ Failed(s) \/ TimedOut(s)
                               \/ LiveStarted(s) \/ Dropped(s)
         \/ \E st \in Streams : CaptureEnded(st)
  PROVE  Pages'
<1> USE DEF OnlyGoLive
<1>1. UNCHANGED <<watch, chat>>
  BY DEF Acquire, Acquired, EndBroadcast, LeaveGoLive, GoLive, Connect, Accepted, Failed, TimedOut,
         LiveStarted, Dropped, CaptureEnded
<1>2. page' = page \/ (page = "golive" /\ page' = "left")
  BY DEF Acquire, Acquired, EndBroadcast, LeaveGoLive, GoLive, Connect, Accepted, Failed, TimedOut,
         LiveStarted, Dropped, CaptureEnded
<1>3. Cancelled' /\ Counted'
  BY <1>1, <1>2, CountedKept DEF Pages, Cancelled, Audience, watch, chat
<1>4. feeds \in [Sockets -> Nat] /\ (page # "golive" => phase # "live")
  BY DEF Pages, Recording
<1>5. CASE \/ Acquire \/ Acquired
           \/ \E s \in Sockets : GoLive(s) \/ Connect(s) \/ Accepted(s) \/ Dropped(s)
  <2>1. UNCHANGED <<feeds, rec, page>> /\ (phase' = phase \/ phase' # "live")
    BY <1>5 DEF Acquire, Acquired, GoLive, Connect, Accepted, Dropped, SetPhase
  <2> QED
    BY <1>3, <2>1 DEF Pages, Recording, LiveHasRecorder
<1>6. CASE EndBroadcast \/ LeaveGoLive \/ \E st \in Streams : CaptureEnded(st)
  <2>1. phase' # "live" /\ \E stopped : Teardown(stopped)
    BY <1>4, <1>6 DEF EndBroadcast, LeaveGoLive, CaptureEnded, SetPhase
  <2>2. PICK running \in [Sockets -> Nat] : StopsRefs /\ StopsRecorder(running)
    BY <1>4, <2>1 DEF Teardown
  <2> QED
    BY <1>3, <2>1, <2>2, TeardownKeeps DEF Pages
<1>7. ASSUME NEW s \in Sockets, Failed(s) \/ TimedOut(s) PROVE Pages'
  <2>1. CASE TeardownKeepingStream /\ SetPhase("preview")
    <3>1. phase' # "live"
      BY <1>4, <2>1 DEF SetPhase
    <3> QED
      BY <1>3, <1>4, <2>1, <3>1, TeardownKeeps DEF Pages, TeardownKeepingStream
  <2>2. CASE UNCHANGED <<feeds, rec, phase>>
    BY <1>3, <1>7, <2>2, RecordingKept DEF Pages, Failed, TimedOut
  <2> QED
    BY <1>7, <2>1, <2>2 DEF Failed, FallsBack, TimedOut
<1>8. ASSUME NEW s \in Sockets, LiveStarted(s) PROVE Pages'
  <2>1. CASE of[s] \in alive
    <3>1. rec' = s /\ feeds' = [feeds EXCEPT ![s] = @ + 1] /\ SetPhase("live") /\ page' = page
      BY <1>8, <2>1 DEF LiveStarted
    <3>2. feeds' \in [Sockets -> Nat] /\ feeds'[s] > 0 /\ s # 0
      BY <1>4, <3>1 DEF Sockets
    <3> QED
      BY <1>3, <1>4, <3>1, <3>2 DEF Pages, Recording, LiveHasRecorder, SetPhase
  <2>2. CASE of[s] \notin alive
    BY <1>3, <1>8, <2>2, RecordingKept DEF Pages, LiveStarted
  <2> QED
    BY <2>1, <2>2
<1> QED
  BY <1>5, <1>6, <1>7, <1>8

-----------------------------------------------------------------------------
(* The audience, the chat and the viewer count.                               *)

LEMMA WatchSteps ==
  ASSUME Pages,
         \/ Poll \/ OpensCard \/ ManifestParsed \/ LeaveWatch
         \/ \E a \in {"live", "none", "fails"} : ListPolled(a)
         \/ \E a \in Statuses \cup {"fails"} : Polled(a)
  PROVE  Pages'
<1> USE DEF OnlyWatch, golive
<1>1. UNCHANGED <<feeds, rec, phase, chat>> /\ (page' = page \/ Audience)
  BY DEF Pages, Cancelled, Audience, Poll, OpensCard, Listed, ManifestParsed, LeaveWatch, ListPolled, Polled,
         Heeds
<1>2. Recording' /\ Counted'
  BY <1>1, RecordingKept, CountedKept DEF Pages, Audience
<1>3. ~Audience' => loads' = {}
  BY DEF Pages, Cancelled, Poll, OpensCard, ManifestParsed, LeaveWatch, ListPolled, Polled, Heeds, Cancels,
         Audience
<1> QED
  BY <1>1, <1>2, <1>3 DEF Pages, Cancelled, chat

LEMMA ChatSteps ==
  ASSUME Pages,
         \/ ChatMounts \/ ChatUnmounts \/ ChatMessage \/ ChatExpire \/ ChatWindowEnds
         \/ \E w \in {"own", "stray"} : ChatToken(w)
  PROVE  Pages'
<1> USE DEF OnlyChat, golive, watch
<1>1. UNCHANGED <<feeds, rec, phase, page, loads>>
  BY DEF ChatMounts, ChatUnmounts, ChatMessage, ChatExpire, ChatWindowEnds, ChatToken
<1>2. "stray" \notin chats'
  BY DEF Pages, Cancelled, ChatMounts, ChatUnmounts, ChatMessage, ChatExpire, ChatWindowEnds, ChatToken, Opens
<1>3. Counted'
  <2>1. CASE ChatMessage
    <3>1. key' \in Nat /\ (key = 0 \/ key > 0)
      BY <2>1 DEF Pages, Counted, ChatMessage
    <3>2. key = 0 \/ ttl \/ first \/ died
      BY <3>1, Zenon DEF Pages, Counted, MutedForAWhile
    <3>3. ttl' \/ first' \/ died'
      BY <2>1, <3>2, Zenon DEF ChatMessage
    <3> QED
      BY <3>1, <3>3, Zenon DEF Counted, MutedForAWhile
  <2>2. CASE ChatExpire
    BY <2>2 DEF Pages, Counted, MutedForAWhile, ChatExpire, SetsExpiry
  <2>3. CASE ChatWindowEnds
    BY <2>3 DEF Counted, MutedForAWhile, ChatWindowEnds
  <2>4. CASE ChatMounts \/ ChatUnmounts \/ \E w \in {"own", "stray"} : ChatToken(w)
    BY <2>4 DEF Pages, Counted, MutedForAWhile, ChatMounts, ChatUnmounts, ChatToken
  <2> QED
    BY <2>1, <2>2, <2>3, <2>4
<1> QED
  BY <1>1, <1>2, <1>3, RecordingKept DEF Pages, Cancelled, Audience

LEMMA PagesStep == Pages /\ [Next]_vars => Pages'
<1> SUFFICES ASSUME Pages, [Next]_vars PROVE Pages'
  OBVIOUS
<1>1. CASE \/ SessionMoves \/ Beat \/ BeatArrives \/ Tick \/ SnapshotLists \/ SnapshotCounts \/ SnapshotWrites
           \/ UNCHANGED vars
  <2>1. UNCHANGED <<page, golive, watch, chat>>
    BY <1>1 DEF SessionMoves, Beat, BeatArrives, Tick, SnapshotLists, SnapshotCounts, SnapshotWrites,
                OnlyViewers, vars
  <2> QED
    BY <2>1, RecordingKept, CountedKept DEF Pages, Cancelled, Audience, golive, watch, chat
<1> QED
  BY <1>1, GoLiveSteps, WatchSteps, ChatSteps DEF Next

LEMMA PagesAlways == Spec => []Pages
BY PagesInit, PagesStep, PTL DEF Spec

\* go-live page: whatever captures and sockets are superseded, "live" is shown only while the
\* recorder that teardown would stop is running.
THEOREM LivePhaseHasRecorder == Spec => []LiveHasRecorder
<1>1. Pages => LiveHasRecorder
  BY DEF Pages, Recording
<1> QED
  BY <1>1, PagesAlways, PTL

\* redis.service.ts checkRateLimit: a counter that is not at zero has an expiry, or gets it.
THEOREM NobodyMutedForever == Spec => []MutedForAWhile
<1>1. Pages => MutedForAWhile
  BY DEF Pages, Counted
<1> QED
  BY <1>1, PagesAlways, PTL

\* The cleanups of the watch page and of LiveChat: what they cancel does nothing more.
THEOREM WhatIsLeftIsLeft == Spec => LeavesForGood
<1>1. Pages /\ [Next]_vars => [(page = "away" => page' = "away") /\ "stray" \notin chats']_vars
  <2> SUFFICES ASSUME Pages, [Next]_vars, page = "away" PROVE page' = "away"
    BY PagesStep DEF Pages, Cancelled
  <2>1. loads = {}
    BY DEF Pages, Cancelled, Audience
  <2> QED
    BY <2>1 DEF Next, Acquire, Acquired, EndBroadcast, EndButton, LeaveGoLive, GoLive, Connect, Accepted,
                Failed, TimedOut, LiveStarted, Dropped, CaptureEnded, Poll, OpensCard, Listed, ManifestParsed,
                LeaveWatch, Audience, ListPolled, Polled, Heeds, SessionMoves, ChatMounts, ChatUnmounts,
                ChatMessage, ChatExpire, ChatWindowEnds, ChatToken, OnlyChat, Beat, BeatArrives, Tick,
                SnapshotLists, SnapshotCounts, SnapshotWrites, OnlyViewers, vars
<1> QED
  BY <1>1, PagesAlways, PTL DEF Spec, LeavesForGood

-----------------------------------------------------------------------------
(* Types.                                                                     *)

\* Captures are numbered as they are given, and each prompt that is open may be given one more.
GoLiveTyped ==
  /\ phase \in {"setup", "preview", "connecting", "live"}
  /\ prompts \in Nat /\ given \in Nat /\ given + prompts <= MaxStreams
  /\ stream \in 0..given /\ alive \subseteq 1..given
  /\ sock \in [Sockets -> {"none", "token", "opening", "open", "up", "shut"}]
  /\ of \in [Sockets -> 0..MaxStreams] /\ timer \subseteq Sockets /\ ref \in 0..MaxSockets

WatchTyped ==
  /\ page \in {"golive", "left", "list", "watch", "away", "replay"} /\ status \in Statuses
  /\ shown \in (Statuses \ {"ended"}) \cup {"none"} /\ notFound \in BOOLEAN
  /\ loads \subseteq Statuses \cup {"none", "fails"} /\ hls \in {"none", "loads", "plays", "dead"}

ChatTyped ==
  /\ waits \subseteq {"own", "stray"} /\ chats \subseteq {"own", "stray"}
  /\ key \in 0..2 /\ ttl \in BOOLEAN /\ first \in BOOLEAN /\ died \in BOOLEAN

ViewersTyped ==
  /\ age \in 0..Gone /\ beats \in BOOLEAN /\ snap \in {"idle", "listed", "gone", "here"}
  /\ count \in 0..1

TInv == Pages /\ GoLiveTyped /\ WatchTyped /\ ChatTyped /\ ViewersTyped /\ faults \in 0..MaxFaults

LEMMA TInvInit == Init => TInv
<1> SUFFICES ASSUME Init PROVE TInv
  OBVIOUS
<1>1. {MaxStreams, MaxSockets, MaxFaults} \subseteq Nat
  BY BoundsAssumption
<1>2. GoLiveTyped
  BY <1>1 DEF Init, GoLiveTyped
<1>3. WatchTyped
  BY DEF Init, WatchTyped, Statuses
<1>4. ChatTyped
  <2>1. key \in 0..2 /\ waits = {} /\ chats = {}
    BY DEF Init
  <2>2. ttl = FALSE /\ first = FALSE /\ died = FALSE
    BY DEF Init
  <2> QED
    BY <2>1, <2>2 DEF ChatTyped
<1>5. age \in 0..Gone /\ count \in 0..1 /\ faults \in 0..MaxFaults
  BY <1>1 DEF Init, Gone, Stale
<1>6. ViewersTyped
  BY <1>5 DEF Init, ViewersTyped
<1> QED
  BY <1>2, <1>3, <1>4, <1>5, <1>6, PagesInit DEF TInv

LEMMA FaultsTyped ==
  ASSUME faults \in 0..MaxFaults, UNCHANGED faults \/ Fault
  PROVE  faults' \in 0..MaxFaults
BY BoundsAssumption DEF Fault

\* A teardown: what it stops was there.
LEMMA TeardownTypes ==
  ASSUME GoLiveTyped, StopsRefs, UNCHANGED <<prompts, given, of>>, stream' \in {0, stream},
         alive' \subseteq alive, timer' \subseteq timer,
         phase' \in {"setup", "preview", "connecting", "live"}
  PROVE  GoLiveTyped'
BY BoundsAssumption DEF GoLiveTyped, StopsRefs

LEMMA GoLiveTypes ==
  ASSUME TInv,
         \/ Acquire \/ Acquired \/ EndBroadcast \/ LeaveGoLive
         \/ \E s \in Sockets : \/ GoLive(s) \/ Connect(s) \/ Accepted(s) \/ Failed(s) \/ TimedOut(s)
                               \/ LiveStarted(s) \/ Dropped(s)
         \/ \E st \in Streams : CaptureEnded(st)
  PROVE  /\ GoLiveTyped' /\ WatchTyped' /\ ChatTyped' /\ ViewersTyped'
         /\ faults' \in 0..MaxFaults
<1> USE DEF OnlyGoLive
<1>1. UNCHANGED <<status, watch, chat, viewers>> /\ page' \in {page, "left"} /\ (UNCHANGED faults \/ Fault)
  BY DEF Acquire, Acquired, EndBroadcast, LeaveGoLive, GoLive, Connect, Accepted, Failed, TimedOut,
         LiveStarted, Dropped, CaptureEnded
<1>2. WatchTyped' /\ ChatTyped' /\ ViewersTyped'
  BY <1>1 DEF TInv, WatchTyped, ChatTyped, ViewersTyped, watch, chat, viewers
<1>3. faults' \in 0..MaxFaults
  BY <1>1, FaultsTyped DEF TInv
<1>4. GoLiveTyped /\ {MaxStreams, MaxSockets} \subseteq Nat
  BY BoundsAssumption DEF TInv
<1>5. ASSUME Acquire \/ Acquired PROVE GoLiveTyped'
  <2>1. CASE Acquire
    BY <1>4, <2>1 DEF Acquire, GoLiveTyped
  <2>2. CASE Acquired
    <3>1. UNCHANGED <<sock, of, timer, ref>> /\ phase' \in {phase, "preview"} /\ prompts' = prompts - 1 /\ prompts > 0
      BY <2>2 DEF Acquired, SetPhase
    <3>2. \/ given' = given + 1 /\ stream' = given' /\ alive' = alive \cup {given'}
          \/ UNCHANGED <<given, stream, alive>>
      BY <2>2 DEF Acquired
    <3>3. prompts' \in Nat /\ given' \in Nat /\ given' + prompts' <= MaxStreams
      BY <1>4, <3>1, <3>2 DEF GoLiveTyped
    <3>4. stream' \in 0..given' /\ alive' \subseteq 1..given'
      <4>1. given \in Nat /\ stream \in 0..given /\ alive \subseteq 1..given
        BY <1>4 DEF GoLiveTyped
      <4>2. CASE UNCHANGED <<given, stream, alive>>
        BY <4>1, <4>2
      <4>3. CASE given' = given + 1 /\ stream' = given' /\ alive' = alive \cup {given'}
        <5>1. 1..given \subseteq 1..given' /\ given' \in 1..given' /\ stream' \in 0..given'
          BY <4>1, <4>3
        <5> QED
          BY <4>1, <4>3, <5>1
      <4> QED
        BY <3>2, <4>2, <4>3
    <3> QED
      BY <1>4, <3>1, <3>3, <3>4 DEF GoLiveTyped
  <2> QED
    BY <1>5, <2>1, <2>2
<1>6. ASSUME EndBroadcast \/ LeaveGoLive \/ \E st \in Streams : CaptureEnded(st) PROVE GoLiveTyped'
  <2>1. phase' \in {phase, "setup"} /\ \E stopped : Teardown(stopped)
    BY <1>6 DEF EndBroadcast, LeaveGoLive, CaptureEnded, SetPhase
  <2> QED
    BY <1>4, <2>1, TeardownTypes DEF Teardown, GoLiveTyped
<1>7. ASSUME NEW s \in Sockets, Failed(s) \/ TimedOut(s) PROVE GoLiveTyped'
  <2>1. timer' = timer \ {s} /\ phase' \in {phase, "preview"}
    BY <1>7 DEF Failed, TimedOut, ClearsTimer, FallsBack, SetPhase
  <2>2. CASE TeardownKeepingStream
    BY <1>4, <2>1, <2>2, TeardownTypes DEF TeardownKeepingStream, GoLiveTyped
  <2>3. CASE ~TeardownKeepingStream
    BY <1>4, <1>7, <2>1, <2>3 DEF Failed, TimedOut, GoLiveTyped
  <2> QED
    BY <2>2, <2>3
<1>8. ASSUME NEW s \in Sockets, GoLive(s) \/ Connect(s) \/ Accepted(s) \/ LiveStarted(s) \/ Dropped(s)
      PROVE  GoLiveTyped'
  <2>1. UNCHANGED <<prompts, given, stream, alive>>
    BY <1>8 DEF GoLive, Connect, Accepted, LiveStarted, Dropped
  <2>2. timer' \subseteq timer \cup {s} /\ ref' \in {ref, s} /\ s \in 0..MaxSockets
    BY <1>4, <1>8 DEF GoLive, Connect, Accepted, LiveStarted, Dropped, KeepsTimer, ClearsTimer, Sockets
  <2>3. /\ of' \in [Sockets -> 0..MaxStreams]
        /\ sock' \in [Sockets -> {"none", "token", "opening", "open", "up", "shut"}]
    BY <1>4, <1>8 DEF GoLive, Connect, Accepted, LiveStarted, Dropped, GoLiveTyped
  <2>4. phase' \in {"setup", "preview", "connecting", "live"}
    BY <1>4, <1>8 DEF GoLive, Connect, Accepted, LiveStarted, Dropped, SetPhase, GoLiveTyped
  <2> QED
    BY <1>4, <2>1, <2>2, <2>3, <2>4 DEF GoLiveTyped
<1> QED
  BY <1>2, <1>3, <1>5, <1>6, <1>7, <1>8

LEMMA AudienceTypes ==
  ASSUME TInv,
         \/ Poll \/ OpensCard \/ ManifestParsed \/ LeaveWatch \/ SessionMoves
         \/ \E a \in {"live", "none", "fails"} : ListPolled(a)
         \/ \E a \in Statuses \cup {"fails"} : Polled(a)
  PROVE  /\ GoLiveTyped' /\ WatchTyped' /\ ChatTyped' /\ ViewersTyped'
         /\ faults' \in 0..MaxFaults
<1> USE DEF OnlyWatch, golive, chat, viewers
<1>1. UNCHANGED <<golive, chat>> /\ (UNCHANGED faults \/ Fault)
  BY DEF Poll, OpensCard, ManifestParsed, LeaveWatch, SessionMoves, ListPolled, Polled
<1>2. GoLiveTyped' /\ ChatTyped'
  BY <1>1 DEF TInv, GoLiveTyped, ChatTyped
<1>3. ViewersTyped'
  <2>1. UNCHANGED <<beats, snap, count>> /\ age' \in {age, Gone}
    BY DEF Poll, OpensCard, ManifestParsed, LeaveWatch, SessionMoves, ListPolled, Polled
  <2> QED
    BY <2>1 DEF TInv, ViewersTyped, Gone, Stale
<1>4. WatchTyped
  BY DEF TInv
<1>5. hls' \in {"none", "loads", "plays", "dead"}
  BY <1>4 DEF WatchTyped, Poll, OpensCard, ManifestParsed, LeaveWatch, SessionMoves, ListPolled, Polled,
              PlayerFollows, watch
<1>6. status' \in Statuses /\ page' \in {page, "watch", "replay", "away"} /\ notFound' \in BOOLEAN
  BY <1>4 DEF WatchTyped, Poll, OpensCard, ManifestParsed, LeaveWatch, SessionMoves, ListPolled, Polled,
              Statuses, watch
<1>7. shown' \in (Statuses \ {"ended"}) \cup {"none"}
  BY <1>4 DEF WatchTyped, Poll, OpensCard, ManifestParsed, LeaveWatch, SessionMoves, ListPolled, Polled,
              Statuses, watch
<1>8. loads' \subseteq Statuses \cup {"none", "fails"}
  BY <1>4 DEF WatchTyped, Poll, OpensCard, ManifestParsed, LeaveWatch, SessionMoves, ListPolled, Polled,
              Served, Cancels, watch
<1>9. WatchTyped'
  BY <1>4, <1>5, <1>6, <1>7, <1>8 DEF WatchTyped
<1> QED
  BY <1>1, <1>2, <1>3, <1>9, FaultsTyped DEF TInv

LEMMA ChatTypes ==
  ASSUME TInv,
         \/ ChatMounts \/ ChatUnmounts \/ ChatMessage \/ ChatExpire \/ ChatWindowEnds
         \/ \E w \in {"own", "stray"} : ChatToken(w)
  PROVE  /\ GoLiveTyped' /\ WatchTyped' /\ ChatTyped' /\ ViewersTyped'
         /\ faults' \in 0..MaxFaults
<1> USE DEF OnlyChat, golive, watch, viewers
<1>1. UNCHANGED <<page, golive, status, watch, viewers, faults>>
  BY DEF ChatMounts, ChatUnmounts, ChatMessage, ChatExpire, ChatWindowEnds, ChatToken
<1>2. GoLiveTyped' /\ WatchTyped' /\ ViewersTyped' /\ faults' \in 0..MaxFaults
  BY <1>1 DEF TInv, GoLiveTyped, WatchTyped, ViewersTyped
<1>3. waits' \subseteq {"own", "stray"} /\ chats' \subseteq {"own", "stray"}
  BY DEF TInv, ChatTyped, ChatMounts, ChatUnmounts, ChatMessage, ChatExpire, ChatWindowEnds, ChatToken, Opens
<1>4. key' \in 0..2
  BY DEF TInv, ChatTyped, ChatMounts, ChatUnmounts, ChatMessage, ChatExpire, ChatWindowEnds, ChatToken
<1>5. ttl' \in BOOLEAN /\ first' \in BOOLEAN /\ died' \in BOOLEAN
  BY Zenon DEF TInv, ChatTyped, ChatMounts, ChatUnmounts, ChatMessage, ChatExpire, ChatWindowEnds, ChatToken,
     SetsExpiry
<1> QED
  BY <1>2, <1>3, <1>4, <1>5 DEF ChatTyped

LEMMA ViewerTypes ==
  ASSUME TInv, Beat \/ BeatArrives \/ Tick \/ SnapshotLists \/ SnapshotCounts \/ SnapshotWrites
  PROVE  /\ GoLiveTyped' /\ WatchTyped' /\ ChatTyped' /\ ViewersTyped'
         /\ faults' \in 0..MaxFaults
<1> USE DEF OnlyViewers, golive, watch, chat
<1>1. UNCHANGED <<page, golive, status, watch, chat, faults>>
  BY DEF Beat, BeatArrives, Tick, SnapshotLists, SnapshotCounts, SnapshotWrites
<1>2. GoLiveTyped' /\ WatchTyped' /\ ChatTyped' /\ faults' \in 0..MaxFaults
  BY <1>1 DEF TInv, GoLiveTyped, WatchTyped, ChatTyped
<1>3. age' \in 0..Gone
  BY DEF TInv, ViewersTyped, Gone, Stale, Beat, BeatArrives, Tick, SnapshotLists, SnapshotCounts, SnapshotWrites
<1>4. beats' \in BOOLEAN
  BY DEF TInv, ViewersTyped, Beat, BeatArrives, Tick, SnapshotLists, SnapshotCounts, SnapshotWrites
<1>5. snap' \in {"idle", "listed", "gone", "here"} /\ count' \in 0..1
  BY DEF TInv, ViewersTyped, Beat, BeatArrives, Tick, SnapshotLists, SnapshotCounts, SnapshotWrites
<1>6. ViewersTyped'
  BY <1>3, <1>4, <1>5 DEF ViewersTyped
<1> QED
  BY <1>2, <1>6

LEMMA TInvStep == TInv /\ [Next]_vars => TInv'
<1> SUFFICES ASSUME TInv, [Next]_vars PROVE TInv'
  OBVIOUS
<1>1. Pages'
  BY PagesStep DEF TInv
<1>2. CASE UNCHANGED vars
  BY <1>1, <1>2 DEF vars, golive, watch, chat, viewers, TInv, GoLiveTyped, WatchTyped, ChatTyped, ViewersTyped
<1>3. CASE Next
  BY <1>1, <1>3, GoLiveTypes, AudienceTypes, ChatTypes, ViewerTypes DEF Next, TInv
<1> QED
  BY <1>2, <1>3

\* The refs of the go-live page, the state of the watch page, the counter and the snapshot keep
\* their types; no capture is taken, and none runs, that was never given.
THEOREM PagesTyped == Spec => []TypeOK
<1>1. TInv => TypeOK
  <2> SUFFICES ASSUME TInv PROVE TypeOK
    OBVIOUS
  <2>1. prompts \in 0..MaxStreams /\ given \in 0..MaxStreams
    BY BoundsAssumption DEF TInv, GoLiveTyped
  <2>2. rec \in 0..MaxSockets /\ feeds \in [Sockets -> Nat]
    BY BoundsAssumption DEF TInv, Pages, Recording, Sockets
  <2> QED
    BY <2>1, <2>2 DEF TInv, GoLiveTyped, WatchTyped, ChatTyped, ViewersTyped, TypeOK
<1> QED
  BY <1>1, TInvInit, TInvStep, PTL DEF Spec

-----------------------------------------------------------------------------
(* The player that shows the replay, for any number of tabs, mounts and faults. *)

CONSTANTS UserTabs, AdminTabs, Users, MaxPos, MaxOpens, Scenes, MaxBeats

VARIABLES master, session, saved, plan, signs, mount, asks, lost, tab, inits, posts, errors

Watching == INSTANCE Playback WITH beats <- posts, faults <- errors

Keys == {"page", "direct", "start", "pos", "playing", "timers", "hls", "levels", "held", "pressed"}

IsPlayer(p) == p = [k \in Keys |-> p[k]]

\* A field is set, and the others stay.
LEMMA SetField ==
  ASSUME NEW p, IsPlayer(p), NEW k \in Keys, NEW x
  PROVE  /\ IsPlayer([p EXCEPT ![k] = x])
         /\ \A j \in Keys : [p EXCEPT ![k] = x][j] = IF j = k THEN x ELSE p[j]
<1>1. \A j \in Keys : [p EXCEPT ![k] = x][j] = IF j = k THEN x ELSE p[j]
  BY DEF IsPlayer
<1>2. DOMAIN [p EXCEPT ![k] = x] = Keys
  BY DEF IsPlayer
<1> QED
  BY <1>1, <1>2 DEF IsPlayer

SameMenu(p, q) == q.levels = p.levels /\ q.held = p.held /\ q.pressed = p.pressed

\* The ways in which a player changes other than by its controls.
LEMMA SetPage ==
  ASSUME NEW p, IsPlayer(p), NEW x
  PROVE  LET q == [p EXCEPT !.page = x]
         IN  /\ IsPlayer(q) /\ q.page = x
             /\ q.direct = p.direct /\ q.hls = p.hls /\ q.timers = p.timers /\ SameMenu(p, q)
BY SetField DEF Keys, SameMenu

Direct(p, h) == [p EXCEPT !.page = "manifest", !.direct = TRUE, !.hls = @ \cup {h}]

LEMMA SetDirect ==
  ASSUME NEW p, IsPlayer(p), NEW h
  PROVE  LET q == Direct(p, h)
         IN  /\ IsPlayer(q) /\ q.page = "manifest" /\ q.direct = TRUE
             /\ q.hls = p.hls \cup {h} /\ q.timers = p.timers /\ SameMenu(p, q)
<1> DEFINE q1 == [p EXCEPT !.page = "manifest"]
           q2 == [q1 EXCEPT !.direct = TRUE]
           q3 == [q2 EXCEPT !.hls = p.hls \cup {h}]
<1>1. IsPlayer(q1) /\ \A j \in Keys : q1[j] = IF j = "page" THEN "manifest" ELSE p[j]
  BY SetField DEF Keys
<1> HIDE DEF q1
<1>2. IsPlayer(q2) /\ \A j \in Keys : q2[j] = IF j = "direct" THEN TRUE ELSE q1[j]
  BY <1>1, SetField DEF Keys
<1> HIDE DEF q2
<1>3. IsPlayer(q3) /\ \A j \in Keys : q3[j] = IF j = "hls" THEN p.hls \cup {h} ELSE q2[j]
  BY <1>2, SetField DEF Keys
<1> HIDE DEF q3
<1>4. q3 = Direct(p, h)
  BY DEF q1, q2, q3, Direct
<1>5. q3.page = "manifest" /\ q3.direct = TRUE /\ q3.hls = p.hls \cup {h} /\ q3.timers = p.timers
  BY <1>1, <1>2, <1>3 DEF Keys
<1>6. SameMenu(p, q3)
  BY <1>1, <1>2, <1>3 DEF Keys, SameMenu
<1> QED
  BY <1>3, <1>4, <1>5, <1>6

Prepared(p, x, h) ==
  [p EXCEPT !.page = "manifest", !.start = x, !.hls = @ \cup {h}, !.timers = @ \cup {h}]

LEMMA SetStart ==
  ASSUME NEW p, IsPlayer(p), NEW h, NEW x
  PROVE  LET q == Prepared(p, x, h)
         IN  /\ IsPlayer(q) /\ q.page = "manifest" /\ q.direct = p.direct
             /\ q.hls = p.hls \cup {h} /\ q.timers = p.timers \cup {h} /\ SameMenu(p, q)
<1> DEFINE q1 == [p EXCEPT !.page = "manifest"]
           q2 == [q1 EXCEPT !.start = x]
           q3 == [q2 EXCEPT !.hls = p.hls \cup {h}]
           q4 == [q3 EXCEPT !.timers = p.timers \cup {h}]
<1>1. IsPlayer(q1) /\ \A j \in Keys : q1[j] = IF j = "page" THEN "manifest" ELSE p[j]
  BY SetField DEF Keys
<1> HIDE DEF q1
<1>2. IsPlayer(q2) /\ \A j \in Keys : q2[j] = IF j = "start" THEN x ELSE q1[j]
  BY <1>1, SetField DEF Keys
<1> HIDE DEF q2
<1>3. IsPlayer(q3) /\ \A j \in Keys : q3[j] = IF j = "hls" THEN p.hls \cup {h} ELSE q2[j]
  BY <1>2, SetField DEF Keys
<1> HIDE DEF q3
<1>4. IsPlayer(q4) /\ \A j \in Keys : q4[j] = IF j = "timers" THEN p.timers \cup {h} ELSE q3[j]
  BY <1>3, SetField DEF Keys
<1> HIDE DEF q4
<1>5. q4 = Prepared(p, x, h)
  BY DEF q1, q2, q3, q4, Prepared
<1>6. /\ q4.page = "manifest" /\ q4.direct = p.direct
      /\ q4.hls = p.hls \cup {h} /\ q4.timers = p.timers \cup {h}
  BY <1>1, <1>2, <1>3, <1>4 DEF Keys
<1>7. SameMenu(p, q4)
  BY <1>1, <1>2, <1>3, <1>4 DEF Keys, SameMenu
<1> QED
  BY <1>4, <1>5, <1>6, <1>7

Left(p, x, y) == [p EXCEPT !.timers = x, !.hls = y]

LEMMA SetLeft ==
  ASSUME NEW p, IsPlayer(p), NEW x, NEW y
  PROVE  LET q == Left(p, x, y)
         IN  /\ IsPlayer(q) /\ q.page = p.page /\ q.direct = p.direct /\ q.timers = x /\ q.hls = y
             /\ SameMenu(p, q)
<1> DEFINE q1 == [p EXCEPT !.timers = x]
           q2 == [q1 EXCEPT !.hls = y]
<1>1. IsPlayer(q1) /\ \A j \in Keys : q1[j] = IF j = "timers" THEN x ELSE p[j]
  BY SetField DEF Keys
<1> HIDE DEF q1
<1>2. IsPlayer(q2) /\ \A j \in Keys : q2[j] = IF j = "hls" THEN y ELSE q1[j]
  BY <1>1, SetField DEF Keys
<1> HIDE DEF q2
<1>3. q2 = Left(p, x, y)
  BY DEF q1, q2, Left
<1>4. q2.page = p.page /\ q2.direct = p.direct /\ q2.timers = x /\ q2.hls = y
  BY <1>1, <1>2 DEF Keys
<1>5. SameMenu(p, q2)
  BY <1>1, <1>2 DEF Keys, SameMenu
<1> QED
  BY <1>2, <1>3, <1>4, <1>5

LEMMA NoPlayerIs ==
  LET p == Watching!NoPlayer
  IN  /\ IsPlayer(p) /\ p.page = "away" /\ p.direct = FALSE /\ p.hls = {} /\ p.timers = {}
      /\ p.levels = <<>> /\ p.held = 0
BY DEF Watching!NoPlayer, IsPlayer, Keys

\* What p may hold as the n-th player of its tab.
Holds(p, n) ==
  /\ IsPlayer(p) /\ p.direct \in BOOLEAN
  /\ p.page \in {"away", "waits"} => ~p.direct
  /\ p.hls \cup p.timers \subseteq {n}
  /\ p.page \in {"away", "waits", "loading"} => p.hls \cup p.timers = {}
  /\ p.direct => p.timers = {}

Players ==
  /\ tab = [t \in Watching!Tabs |-> tab[t]] /\ mount \in [Watching!Tabs -> Nat]
  /\ \A t \in Watching!Tabs : Holds(tab[t], mount[t])

\* A player that init() still prepares has no playlist of its own.
Preparing ==
  /\ inits = [t \in Watching!Tabs |-> inits[t]]
  /\ \A t \in Watching!Tabs : \A m \in inits[t] :
       m \in Nat /\ m <= mount[t] /\ (m = mount[t] => ~tab[t].direct)

WInv == Players /\ Preparing

LEMMA WInvInit == Watching!Init => WInv
<1> SUFFICES ASSUME Watching!Init PROVE WInv
  OBVIOUS
<1>1. /\ tab = [t \in Watching!Tabs |-> Watching!NoPlayer] /\ mount = [t \in Watching!Tabs |-> 0]
      /\ inits = [t \in Watching!Tabs |-> {}]
  BY DEF Watching!Init
<1>2. Players
  BY <1>1, NoPlayerIs DEF Players, Holds
<1> QED
  BY <1>1, <1>2 DEF WInv, Preparing

\* The player of t becomes p, which is the same mount.
LEMMA BecomesStep ==
  ASSUME WInv, NEW t \in Watching!Tabs, NEW p, Watching!Becomes(t, p), UNCHANGED mount,
         Holds(p, mount[t]), p.direct => tab[t].direct,
         inits' = [u \in Watching!Tabs |-> inits'[u]],
         \A u \in Watching!Tabs : inits'[u] \subseteq inits[u]
  PROVE  WInv'
<1>1. /\ tab' = [u \in Watching!Tabs |-> tab'[u]]
      /\ \A u \in Watching!Tabs : tab'[u] = IF u = t THEN p ELSE tab[u]
  BY DEF WInv, Players, Watching!Becomes
<1>2. Players'
  BY <1>1 DEF WInv, Players
<1>3. ASSUME NEW u \in Watching!Tabs, NEW m \in inits'[u]
      PROVE  m \in Nat /\ m <= mount'[u] /\ (m = mount'[u] => ~tab'[u].direct)
  BY <1>1 DEF WInv, Preparing
<1> QED
  BY <1>2, <1>3 DEF WInv, Preparing

\* What the controls and hls.js change is neither the interval nor the hls object.
LEMMA SamePlayer ==
  ASSUME WInv, NEW t \in Watching!Tabs, NEW p, Watching!Becomes(t, p), UNCHANGED <<mount, inits>>,
         IsPlayer(p), p.hls = tab[t].hls, p.timers = tab[t].timers, p.direct = tab[t].direct,
         p.page \in {tab[t].page, "manifest", "ready", "error"}
  PROVE  WInv'
<1>1. Holds(p, mount[t])
  BY DEF WInv, Players, Holds
<1>2. \A u \in Watching!Tabs : inits'[u] \subseteq inits[u]
  OBVIOUS
<1> QED
  BY <1>1, <1>2, BecomesStep DEF WInv, Preparing

\* The cleanup of the mount leaves nothing.
LEMMA ClearedPlayer ==
  ASSUME WInv, NEW t \in Watching!Tabs, NEW p, Watching!Becomes(t, p), UNCHANGED <<mount, inits>>,
         p = Watching!Unmounted(t) \/ p = [Watching!Unmounted(t) EXCEPT !.page = "waits"]
  PROVE  WInv'
<1>1. tab[t].hls \ {mount[t]} = {} /\ tab[t].timers \ {mount[t]} = {}
  BY DEF WInv, Players, Holds
<1>2. PICK q : /\ q = Watching!Unmounted(t) /\ IsPlayer(q) /\ q.page = "away" /\ q.direct = FALSE
               /\ q.timers = {} /\ q.hls = {}
  <2> DEFINE q == Left(Watching!NoPlayer, {}, {})
  <2>1. q = Watching!Unmounted(t)
    BY <1>1 DEF Watching!Unmounted, Left
  <2>2. /\ IsPlayer(q) /\ q.page = Watching!NoPlayer.page /\ q.direct = Watching!NoPlayer.direct
        /\ q.timers = {} /\ q.hls = {}
    BY NoPlayerIs, SetLeft
  <2> HIDE DEF q
  <2> QED
    BY <2>1, <2>2, NoPlayerIs
<1>3. Holds(p, mount[t]) /\ ~p.direct
  <2>1. CASE p = q
    BY <1>2, <2>1 DEF Holds
  <2>2. CASE p = [q EXCEPT !.page = "waits"]
    <3>1. /\ IsPlayer(p) /\ p.page = "waits" /\ p.direct = q.direct
          /\ p.hls = q.hls /\ p.timers = q.timers
      BY <1>2, <2>2, SetPage
    <3> QED
      BY <1>2, <3>1 DEF Holds
  <2> QED
    BY <1>2, <2>1, <2>2
<1>4. \A u \in Watching!Tabs : inits'[u] \subseteq inits[u]
  OBVIOUS
<1> QED
  BY <1>3, <1>4, BecomesStep DEF WInv, Preparing

\* The next mount finds nothing of the one before.
LEMMA MountsStep ==
  ASSUME WInv, NEW t \in Watching!Tabs, tab[t].page \in {"away", "waits"}, Watching!MountsPlayer(t)
  PROVE  WInv'
<1> DEFINE n == mount[t] + 1
           p == [tab[t] EXCEPT !.page = "loading"]
           q == Direct(tab[t], n)
<1>1. /\ mount' = [mount EXCEPT ![t] = n] /\ n \in Nat /\ n > mount[t]
      /\ mount' \in [Watching!Tabs -> Nat]
      /\ \A u \in Watching!Tabs : mount'[u] = IF u = t THEN n ELSE mount[u]
  BY DEF Watching!MountsPlayer, WInv, Players
<1>2. tab[t].hls = {} /\ tab[t].timers = {} /\ tab[t].direct = FALSE /\ IsPlayer(tab[t])
  BY DEF WInv, Players, Holds
<1>3. Holds(p, n) /\ Holds(q, n) /\ ~p.direct
  <2>1. IsPlayer(p) /\ p.page = "loading" /\ p.direct = tab[t].direct /\ p.hls = {} /\ p.timers = {}
    BY <1>2, SetPage
  <2>2. IsPlayer(q) /\ q.page = "manifest" /\ q.direct = TRUE /\ q.hls = {n} /\ q.timers = {}
    <3>1. /\ IsPlayer(q) /\ q.page = "manifest" /\ q.direct = TRUE
          /\ q.hls = tab[t].hls \cup {n} /\ q.timers = tab[t].timers
      BY <1>2, SetDirect
    <3> HIDE DEF q
    <3> QED
      BY <1>2, <3>1
  <2>3. tab[t].direct = FALSE
    BY <1>2
  <2> HIDE DEF p, q
  <2> QED
    BY <2>1, <2>2, <2>3 DEF Holds
<1>4. \/ tab' = [tab EXCEPT ![t] = p] /\ inits' = [inits EXCEPT ![t] = @ \cup {n}]
      \/ tab' = [tab EXCEPT ![t] = q] /\ UNCHANGED inits
  BY DEF Watching!MountsPlayer, Watching!Becomes, Direct
<1> HIDE DEF p, q
<1>5. /\ tab' = [u \in Watching!Tabs |-> tab'[u]] /\ tab'[t] \in {p, q}
      /\ \A u \in Watching!Tabs : u # t => tab'[u] = tab[u]
  BY <1>4 DEF WInv, Players
<1>6. Players'
  BY <1>1, <1>3, <1>5 DEF WInv, Players
<1>7. inits' = [u \in Watching!Tabs |-> inits'[u]]
  BY <1>4 DEF WInv, Preparing
<1>8. ASSUME NEW u \in Watching!Tabs, NEW m \in inits'[u]
      PROVE  m \in Nat /\ m <= mount'[u] /\ (m = mount'[u] => ~tab'[u].direct)
  <2>1. CASE m \in inits[u]
    BY <1>1, <1>5, <2>1 DEF WInv, Players, Preparing
  <2>2. CASE m \notin inits[u]
    <3>1. u = t /\ m = n /\ tab' = [tab EXCEPT ![t] = p]
      BY <1>4, <2>2 DEF WInv, Preparing
    <3>2. tab'[t] = p
      BY <3>1 DEF WInv, Players
    <3> QED
      BY <1>1, <1>3, <3>1, <3>2
  <2> QED
    BY <2>1, <2>2
<1> QED
  BY <1>6, <1>7, <1>8 DEF WInv, Preparing

\* The answer to resume is heeded by the mount that asked for it, and by no other.
LEMMA InitStep ==
  ASSUME WInv, NEW t \in Watching!Tabs, NEW m \in Watching!Mounts,
         Watching!InitGoesOn(t, m) \/ Watching!InitThrows(t, m)
  PROVE  WInv'
<1>1. /\ m \in inits[t] /\ inits' = [inits EXCEPT ![t] = @ \ {m}] /\ UNCHANGED mount
  BY Zenon DEF Watching!InitGoesOn, Watching!InitThrows
<1>2. /\ inits' = [u \in Watching!Tabs |-> inits'[u]]
      /\ \A u \in Watching!Tabs : inits'[u] \subseteq inits[u]
  BY <1>1 DEF WInv, Preparing
<1>3. CASE UNCHANGED tab
  <2>1. Players'
    BY <1>1, <1>3 DEF WInv, Players
  <2> QED
    BY <1>1, <1>2, <1>3, <2>1 DEF WInv, Preparing
<1>4. ASSUME tab' # tab PROVE WInv'
  <2>1. m = mount[t] /\ tab[t].page \notin {"away", "waits"}
    BY <1>4, Zenon DEF Watching!InitGoesOn, Watching!InitThrows, Watching!Cancelled
  <2>2. ~tab[t].direct /\ IsPlayer(tab[t]) /\ Holds(tab[t], m)
    BY <1>1, <2>1 DEF WInv, Players, Preparing, Holds
  <2>3. PICK p : /\ Watching!Becomes(t, p) /\ IsPlayer(p) /\ ~p.direct /\ p.direct \in BOOLEAN
                 /\ p.page \in {"manifest", "error"}
                 /\ p.hls \cup p.timers \subseteq tab[t].hls \cup tab[t].timers \cup {m}
    <3>1. CASE Watching!InitThrows(t, m)
      <4>1. Watching!Becomes(t, [tab[t] EXCEPT !.page = "error"])
        BY <1>4, <3>1 DEF Watching!InitThrows
      <4> DEFINE p == [tab[t] EXCEPT !.page = "error"]
      <4>2. /\ IsPlayer(p) /\ p.page = "error" /\ p.direct = tab[t].direct
            /\ p.hls = tab[t].hls /\ p.timers = tab[t].timers
        BY <2>2, SetPage
      <4> HIDE DEF p
      <4>3. Watching!Becomes(t, p)
        BY <4>1 DEF p
      <4> QED
        BY <2>2, <4>2, <4>3 DEF Holds
    <3>2. CASE Watching!InitGoesOn(t, m)
      <4>1. PICK s : Watching!Becomes(t, Prepared(tab[t], s, m))
        BY <1>4, <3>2, Zenon DEF Watching!InitGoesOn, Prepared
      <4> DEFINE p == Prepared(tab[t], s, m)
      <4>2. /\ IsPlayer(p) /\ p.direct = tab[t].direct /\ p.page = "manifest"
            /\ p.hls = tab[t].hls \cup {m} /\ p.timers = tab[t].timers \cup {m}
        BY <2>2, SetStart
      <4> HIDE DEF p
      <4>3. p.direct \in BOOLEAN
        BY <2>2, <4>2 DEF Holds
      <4>4. Watching!Becomes(t, p)
        BY <4>1 DEF p
      <4> QED
        BY <2>2, <4>2, <4>3, <4>4
    <3> QED
      BY <3>1, <3>2
  <2>4. Holds(p, mount[t])
    BY <2>1, <2>2, <2>3 DEF Holds
  <2> QED
    BY <1>1, <1>2, <2>3, <2>4, BecomesStep
<1> QED
  BY <1>3, <1>4

\* What the controls, the video element and hls.js set: q is p, but for k and other such fields.
Kept(p, q) == IsPlayer(q) /\ q.hls = p.hls /\ q.timers = p.timers /\ q.direct = p.direct

LEMMA SetKept ==
  ASSUME NEW p, NEW q, Kept(p, q), NEW k \in Keys \ {"hls", "timers", "direct"}, NEW x
  PROVE  /\ Kept(p, [q EXCEPT ![k] = x])
         /\ \A j \in Keys : [q EXCEPT ![k] = x][j] = IF j = k THEN x ELSE q[j]
BY SetField DEF Kept, Keys

Shown(p, l, g, x) == [p EXCEPT !.page = "ready", !.levels = l, !.playing = g, !.pos = x, !.start = 0]
Broken(p) == [p EXCEPT !.page = "error", !.start = 0, !.playing = FALSE]
Moved(p, x, g) == [p EXCEPT !.pos = x, !.playing = g]
Chosen(p, i, q) == [p EXCEPT !.held = i, !.pressed = q]

LEMMA SetShown ==
  ASSUME NEW p, IsPlayer(p), NEW l, NEW g, NEW x
  PROVE  LET q == Shown(p, l, g, x)
         IN  /\ Kept(p, q) /\ q.page = "ready"
             /\ q.levels = l /\ q.held = p.held /\ q.pressed = p.pressed
<1> DEFINE q1 == [p EXCEPT !.page = "ready"]
           q2 == [q1 EXCEPT !.levels = l]
           q3 == [q2 EXCEPT !.playing = g]
           q4 == [q3 EXCEPT !.pos = x]
           q5 == [q4 EXCEPT !.start = 0]
<1>0. Kept(p, p)
  BY DEF Kept
<1>1. Kept(p, q1) /\ q1.page = "ready" /\ q1.held = p.held /\ q1.pressed = p.pressed
  BY <1>0, SetKept DEF Keys
<1> HIDE DEF q1
<1>2. Kept(p, q2) /\ q2.page = "ready" /\ q2.held = p.held /\ q2.pressed = p.pressed /\ q2.levels = l
  BY <1>1, SetKept DEF Keys
<1> HIDE DEF q2
<1>3. Kept(p, q3) /\ q3.page = "ready" /\ q3.held = p.held /\ q3.pressed = p.pressed /\ q3.levels = l
  BY <1>2, SetKept DEF Keys
<1> HIDE DEF q3
<1>4. Kept(p, q4) /\ q4.page = "ready" /\ q4.held = p.held /\ q4.pressed = p.pressed /\ q4.levels = l
  BY <1>3, SetKept DEF Keys
<1> HIDE DEF q4
<1>5. Kept(p, q5) /\ q5.page = "ready" /\ q5.held = p.held /\ q5.pressed = p.pressed /\ q5.levels = l
  BY <1>4, SetKept DEF Keys
<1>6. q5 = Shown(p, l, g, x)
  BY DEF q1, q2, q3, q4, Shown
<1> HIDE DEF q5
<1> QED
  BY <1>5, <1>6

LEMMA SetBroken ==
  ASSUME NEW p, IsPlayer(p)
  PROVE  Kept(p, Broken(p)) /\ Broken(p).page = "error" /\ SameMenu(p, Broken(p))
<1> DEFINE q1 == [p EXCEPT !.page = "error"]
           q2 == [q1 EXCEPT !.start = 0]
           q3 == [q2 EXCEPT !.playing = FALSE]
<1> USE DEF SameMenu
<1>0. Kept(p, p)
  BY DEF Kept
<1>1. Kept(p, q1) /\ q1.page = "error" /\ SameMenu(p, q1)
  BY <1>0, SetKept DEF Keys
<1> HIDE DEF q1
<1>2. Kept(p, q2) /\ q2.page = "error" /\ SameMenu(p, q2)
  BY <1>1, SetKept DEF Keys
<1> HIDE DEF q2
<1>3. Kept(p, q3) /\ q3.page = "error" /\ SameMenu(p, q3)
  BY <1>2, SetKept DEF Keys
<1>4. q3 = Broken(p)
  BY DEF q1, q2, Broken
<1> HIDE DEF q3
<1> QED
  BY <1>3, <1>4

LEMMA SetMoved ==
  ASSUME NEW p, IsPlayer(p), NEW x, NEW g
  PROVE  Kept(p, Moved(p, x, g)) /\ Moved(p, x, g).page = p.page /\ SameMenu(p, Moved(p, x, g))
<1> DEFINE q1 == [p EXCEPT !.pos = x]
           q2 == [q1 EXCEPT !.playing = g]
<1> USE DEF SameMenu
<1>0. Kept(p, p)
  BY DEF Kept
<1>1. Kept(p, q1) /\ q1.page = p.page /\ SameMenu(p, q1)
  BY <1>0, SetKept DEF Keys
<1> HIDE DEF q1
<1>2. Kept(p, q2) /\ q2.page = p.page /\ SameMenu(p, q2)
  BY <1>1, SetKept DEF Keys
<1>3. q2 = Moved(p, x, g)
  BY DEF q1, Moved
<1> HIDE DEF q2
<1> QED
  BY <1>2, <1>3

LEMMA SetChosen ==
  ASSUME NEW p, IsPlayer(p), NEW i, NEW l
  PROVE  LET q == Chosen(p, i, l)
         IN  /\ Kept(p, q) /\ q.page = p.page
             /\ q.levels = p.levels /\ q.held = i /\ q.pressed = l
<1> DEFINE q1 == [p EXCEPT !.held = i]
           q2 == [q1 EXCEPT !.pressed = l]
<1>0. Kept(p, p)
  BY DEF Kept
<1>1. Kept(p, q1) /\ q1.page = p.page /\ q1.levels = p.levels /\ q1.held = i
  BY <1>0, SetKept DEF Keys
<1> HIDE DEF q1
<1>2. Kept(p, q2) /\ q2.page = p.page /\ q2.levels = p.levels /\ q2.held = i /\ q2.pressed = l
  BY <1>1, SetKept DEF Keys
<1>3. q2 = Chosen(p, i, l)
  BY DEF q1, Chosen
<1> HIDE DEF q2
<1> QED
  BY <1>2, <1>3

\* Playing changes neither the interval nor the hls object.
LEMMA PlayingStep ==
  ASSUME WInv, NEW t \in Watching!Tabs,
         \/ Watching!ManifestParsed(t) \/ Watching!FatalError(t) \/ Watching!Moves(t)
         \/ Watching!togglePlay(t) \/ Watching!handleSeek(t) \/ Watching!setQuality(t)
  PROVE  WInv'
<1>0. IsPlayer(tab[t]) /\ Kept(tab[t], tab[t])
  BY DEF WInv, Players, Holds, Kept
<1> SUFFICES UNCHANGED <<mount, inits>> /\ \E p : /\ Watching!Becomes(t, p) /\ Kept(tab[t], p)
                                                  /\ p.page \in {tab[t].page, "ready", "error"}
  BY SamePlayer DEF Kept
<1>1. CASE Watching!ManifestParsed(t)
  <2>1. PICK l, g, x : Watching!Becomes(t, Shown(tab[t], l, g, x))
    BY <1>1, Zenon DEF Watching!ManifestParsed, Shown
  <2>2. UNCHANGED <<mount, inits>>
    BY <1>1, Zenon DEF Watching!ManifestParsed, Watching!OnlyPlayer
  <2> QED
    BY <1>0, <2>1, <2>2, SetShown
<1>2. CASE Watching!FatalError(t)
  <2>1. Watching!Becomes(t, Broken(tab[t])) /\ UNCHANGED <<mount, inits>>
    BY <1>2, Zenon DEF Watching!FatalError, Watching!OnlyPlayer, Broken
  <2> QED
    BY <1>0, <2>1, SetBroken
<1>3. CASE Watching!Moves(t)
  <2>1. PICK x, g : Watching!Becomes(t, Moved(tab[t], x, g)) /\ UNCHANGED <<mount, inits>>
    BY <1>3, Zenon DEF Watching!Moves, Watching!OnlyPlayer, Moved
  <2> QED
    BY <1>0, <2>1, SetMoved
<1>4. CASE Watching!togglePlay(t)
  <2>1. PICK g : Watching!Becomes(t, [tab[t] EXCEPT !.playing = g]) /\ UNCHANGED <<mount, inits>>
    BY <1>4, Zenon DEF Watching!togglePlay, Watching!OnlyPlayer
  <2> DEFINE q == [tab[t] EXCEPT !.playing = g]
  <2>2. Kept(tab[t], q) /\ q.page = tab[t].page
    BY <1>0, SetKept DEF Keys
  <2> HIDE DEF q
  <2> QED
    BY <2>1, <2>2 DEF q
<1>5. CASE Watching!handleSeek(t)
  <2>1. PICK x : Watching!Becomes(t, [tab[t] EXCEPT !.pos = x]) /\ UNCHANGED <<mount, inits>>
    BY <1>5, Zenon DEF Watching!handleSeek, Watching!OnlyPlayer
  <2> DEFINE q == [tab[t] EXCEPT !.pos = x]
  <2>2. Kept(tab[t], q) /\ q.page = tab[t].page
    BY <1>0, SetKept DEF Keys
  <2> HIDE DEF q
  <2> QED
    BY <2>1, <2>2 DEF q
<1>6. CASE Watching!setQuality(t)
  <2>1. PICK i, l : Watching!Becomes(t, Chosen(tab[t], i, l))
    BY <1>6, Zenon DEF Watching!setQuality, Chosen
  <2>2. UNCHANGED <<mount, inits>>
    BY <1>6, Zenon DEF Watching!setQuality, Watching!OnlyPlayer
  <2> QED
    BY <1>0, <2>1, <2>2, SetChosen
<1> QED
  BY <1>1, <1>2, <1>3, <1>4, <1>5, <1>6

LEMMA WInvStep == WInv /\ [Watching!Next]_(Watching!vars) => WInv'
<1> SUFFICES ASSUME WInv, [Watching!Next]_(Watching!vars) PROVE WInv'
  OBVIOUS
<1>0. CASE UNCHANGED <<mount, tab, inits>>
  BY <1>0 DEF WInv, Players, Preparing, Holds, IsPlayer, Watching!Tabs
<1>1. ASSUME NEW t \in Watching!Tabs, Watching!LoadsVideo(t) \/ Watching!VideoFails(t) PROVE WInv'
  <2>1. /\ Watching!Becomes(t, [Watching!Unmounted(t) EXCEPT !.page = "waits"])
        /\ UNCHANGED <<mount, inits>>
    BY <1>1, Zenon DEF Watching!LoadsVideo, Watching!VideoFails, Watching!OnlyPage
  <2> QED
    BY <2>1, ClearedPlayer
<1>2. ASSUME NEW t \in Watching!Tabs, Watching!Close(t) PROVE WInv'
  <2>1. Watching!Becomes(t, Watching!Unmounted(t)) /\ UNCHANGED <<mount, inits>>
    BY <1>2, Zenon DEF Watching!Close
  <2> QED
    BY <2>1, ClearedPlayer
<1>3. ASSUME NEW t \in Watching!Tabs, Watching!VideoLoaded(t) PROVE WInv'
  <2>1. CASE tab[t].page = "waits" /\ Watching!MountsPlayer(t)
    BY <2>1, MountsStep
  <2>2. CASE UNCHANGED <<mount, inits, tab>>
    BY <1>0, <2>2
  <2> QED
    BY <1>3, <2>1, <2>2, Zenon DEF Watching!VideoLoaded
<1>4. ASSUME NEW t \in Watching!Tabs, Watching!Open(t) PROVE WInv'
  <2>1. tab[t].page = "away" /\ Watching!MountsPlayer(t)
    BY <1>4, Zenon DEF Watching!Open
  <2> QED
    BY <2>1, MountsStep
<1>5. ASSUME NEW t \in Watching!Tabs,
             \/ Watching!ManifestParsed(t) \/ Watching!FatalError(t) \/ Watching!Moves(t)
             \/ Watching!togglePlay(t) \/ Watching!handleSeek(t) \/ Watching!setQuality(t)
      PROVE  WInv'
  BY <1>5, PlayingStep
<1>6. ASSUME NEW t \in Watching!Tabs, NEW m \in Watching!Mounts,
             Watching!InitGoesOn(t, m) \/ Watching!InitThrows(t, m)
      PROVE  WInv'
  BY <1>6, InitStep
<1>7. ASSUME \/ Watching!SessionChanges
             \/ \E t \in Watching!Tabs : Watching!Heartbeat(t)
             \/ \E b \in Watching!AllBeats : Watching!savePosition(b) \/ Watching!LoseHeartbeat(b)
             \/ UNCHANGED Watching!vars
      PROVE  UNCHANGED <<mount, tab, inits>>
  BY <1>7, Zenon DEF Watching!SessionChanges, Watching!Heartbeat, Watching!savePosition,
                     Watching!LoseHeartbeat, Watching!vars
<1> QED
  BY <1>0, <1>1, <1>2, <1>3, <1>4, <1>5, <1>6, <1>7, Zenon DEF Watching!Next

\* The interval and the hls object of every player on every page belong to its last mount, a
\* player that waits or is gone has neither, and a live replay has no interval: the cleanup of
\* the effect, and the look at "cancelled" after the answer of resume, do it together.
THEOREM NothingOfGonePlayers == Watching!Spec => []Watching!NothingLeaks
<1>1. WInv => Watching!NothingLeaks
  BY DEF WInv, Players, Holds, Watching!NothingLeaks
<1> QED
  BY <1>1, WInvInit, WInvStep, PTL DEF Watching!Spec

-----------------------------------------------------------------------------
(* The quality filter and the menu, for playlists of any length.              *)
(*                                                                            *)
(* A recursive function is what its equation says only if there is one: by    *)
(* induction from the last line up there is a function on i..n that satisfies *)
(* it, and so on 1..n.  The induction is that the intervals i..n, finite      *)
(* sets, have no smallest one among those that fail.                          *)

\* Induction from n down to 1.
LEMMA GoDown ==
  ASSUME NEW n \in Nat, NEW P, \A i \in 1..n : (\A j \in i + 1..n : j \in P) => i \in P
  PROVE  1..n \subseteq P
<1> DEFINE W == {i \in 1..n : i \notin P}
           T == {i..n : i \in W}
           R == StrictSubsetOrdering(1..n)
           F == FiniteSubsetsOf(1..n)
<1>1. SUFFICES ASSUME W # {} PROVE FALSE
  OBVIOUS
<1>2. IsWellFoundedOn(R, F)
  BY FS_StrictSubsetOrderingWellFounded
<1>3. T \subseteq F /\ T # {}
  <2>1. \A i \in 1..n : IsFiniteSet(i..n) /\ i..n \subseteq 1..n
    BY FS_Interval
  <2> QED
    BY <1>1, <2>1 DEF FiniteSubsetsOf
<1>4. PICK x \in T : \A y \in T : ~(<<y, x>> \in R)
  <2> HIDE DEF T, R, F
  <2> QED
    BY <1>2, <1>3, WFMin
<1>5. PICK i \in W : x = i..n
  OBVIOUS
<1>6. PICK j \in i + 1..n : j \notin P
  OBVIOUS
<1>7. j..n \in T /\ j..n \subseteq i..n /\ i \in i..n /\ i \notin j..n
  <2>1. j \in W
    BY <1>6
  <2> QED
    BY <2>1, <1>6
<1>8. <<j..n, i..n>> \in R
  BY <1>7, <1>6 DEF StrictSubsetOrdering
<1> QED
  BY <1>4, <1>5, <1>7, <1>8


\* The equations of Levels.
Found(lines, f, i) ==
  IF i >= Len(lines) THEN <<>>
  ELSE IF lines[i] = Watching!StreamInf THEN <<lines[i + 1]>> \o f[i + 1] ELSE f[i + 1]

LEMMA FoundExists ==
  ASSUME NEW L, NEW lines \in Seq(L)
  PROVE  \E f \in [1..Len(lines) + 1 -> Seq(L)] : \A i \in 1..Len(lines) + 1 : f[i] = Found(lines, f, i)
<1> DEFINE n == Len(lines) + 1
           P == {i \in 1..n : \E f \in [i..n -> Seq(L)] : \A j \in i..n : f[j] = Found(lines, f, j)}
<1>0. n \in Nat /\ 1 \in 1..n /\ Len(lines) \in Nat
  OBVIOUS
<1>1. ASSUME NEW i \in 1..n, \A j \in i + 1..n : j \in P PROVE i \in P
  <2>1. CASE i = n
    <3> DEFINE f == [j \in i..n |-> <<>>]
    <3>1. f \in [i..n -> Seq(L)]
      OBVIOUS
    <3>2. \A j \in i..n : f[j] = Found(lines, f, j)
      BY <2>1 DEF Found
    <3> QED
      BY <3>1, <3>2
  <2>2. CASE i < n
    <3>1. i + 1 \in P
      <4>1. i + 1 \in i + 1..n
        BY <2>2
      <4> HIDE DEF P, n
      <4> QED
        BY <1>1, <4>1
    <3>2. PICK g \in [i + 1..n -> Seq(L)] : \A j \in i + 1..n : g[j] = Found(lines, g, j)
      BY <3>1
    <3> DEFINE f == [j \in i..n |-> IF j = i THEN Found(lines, g, i) ELSE g[j]]
    <3>3. Found(lines, g, i) \in Seq(L)
      <4>1. g[i + 1] \in Seq(L) /\ lines[i] \in L
        BY <2>2
      <4>2. i < Len(lines) => lines[i + 1] \in L /\ <<lines[i + 1]>> \o g[i + 1] \in Seq(L)
        BY <4>1
      <4>3. <<>> \in Seq(L)
        OBVIOUS
      <4> HIDE DEF n
      <4> QED
        BY <4>1, <4>2, <4>3 DEF Found
    <3>4. f \in [i..n -> Seq(L)]
      BY <3>3
    <3>5. \A j \in i..n : f[j] = Found(lines, f, j)
      <4>1. f[i + 1] = g[i + 1]
        BY <2>2
      <4>2. f[i] = Found(lines, f, i)
        BY <4>1 DEF Found
      <4>3. ASSUME NEW j \in i + 1..n PROVE f[j] = Found(lines, f, j)
        <5>1. f[j] = Found(lines, g, j)
          BY <3>2
        <5>2. j < Len(lines) => f[j + 1] = g[j + 1]
          OBVIOUS
        <5> HIDE DEF f
        <5> QED
          BY <5>1, <5>2 DEF Found
      <4> HIDE DEF f
      <4> QED
        BY <4>2, <4>3
    <3> HIDE DEF f
    <3> QED
      BY <3>4, <3>5
  <2> QED
    BY <2>1, <2>2
<1>2. 1..n \subseteq P
  <2> HIDE DEF P, n
  <2> QED
    BY <1>0, <1>1, GoDown
<1> QED
  BY <1>0, <1>2

\* What Levels is: the first value of a function that satisfies its equations.
LEMMA LevelsAre ==
  ASSUME NEW L, NEW lines \in Seq(L)
  PROVE  \E f : /\ f = [i \in 1..Len(lines) + 1 |-> Found(lines, f, i)]
                /\ Watching!Levels(lines) = f[1]
<1>1. PICK g \in [1..Len(lines) + 1 -> Seq(L)] : \A i \in 1..Len(lines) + 1 : g[i] = Found(lines, g, i)
  BY FoundExists
<1>2. g = [i \in 1..Len(lines) + 1 |-> Found(lines, g, i)]
  BY <1>1
<1> QED
  BY <1>2 DEF Watching!Levels, Found

\* What the playlist has from its i-th line on.
VariantsFrom(lines, i) ==
  {lines[k + 1] : k \in {k \in i..Len(lines) - 1 : lines[k] = Watching!StreamInf}}

Variants(lines) == VariantsFrom(lines, 1)

\* The i-th line adds the one after it.
LEMMA VariantsMore ==
  ASSUME NEW L, NEW lines \in Seq(L), NEW i \in 1..Len(lines)
  PROVE  /\ i < Len(lines) /\ lines[i] = Watching!StreamInf
              => VariantsFrom(lines, i) = {lines[i + 1]} \cup VariantsFrom(lines, i + 1)
         /\ lines[i] # Watching!StreamInf => VariantsFrom(lines, i) = VariantsFrom(lines, i + 1)
<1> DEFINE A == {k \in i..Len(lines) - 1 : lines[k] = Watching!StreamInf}
           B == {k \in i + 1..Len(lines) - 1 : lines[k] = Watching!StreamInf}
<1>1. i < Len(lines) /\ lines[i] = Watching!StreamInf => A = {i} \cup B
  OBVIOUS
<1>2. lines[i] # Watching!StreamInf => A = B
  OBVIOUS
<1>3. VariantsFrom(lines, i) = {lines[k + 1] : k \in A}
  BY DEF VariantsFrom
<1>4. VariantsFrom(lines, i + 1) = {lines[k + 1] : k \in B}
  BY DEF VariantsFrom
<1> HIDE DEF A, B
<1> QED
  BY <1>1, <1>2, <1>3, <1>4

LEMMA Prefixed ==
  ASSUME NEW L, NEW s \in Seq(L), NEW x \in L
  PROVE  LET t == <<x>> \o s
         IN  /\ t \in Seq(L) /\ Len(t) = Len(s) + 1 /\ t[1] = x
             /\ \A k \in 1..Len(s) : t[k + 1] = s[k]
OBVIOUS

LEMMA SetOfPrefixed ==
  ASSUME NEW L, NEW s \in Seq(L), NEW x \in L
  PROVE  Watching!SetOf(<<x>> \o s) = {x} \cup Watching!SetOf(s)
<1> DEFINE t == <<x>> \o s
<1>1. /\ t \in Seq(L) /\ Len(t) = Len(s) + 1 /\ t[1] = x /\ Len(s) \in Nat
      /\ \A k \in 1..Len(s) : t[k + 1] = s[k]
  BY Prefixed
<1> HIDE DEF t
<1>2. \A i \in 1..Len(t) : t[i] = x \/ (i - 1 \in 1..Len(s) /\ t[i] = s[i - 1])
  <2> TAKE i \in 1..Len(t)
  <2>1. CASE i = 1
    BY <1>1, <2>1
  <2>2. CASE i # 1
    <3>1. i - 1 \in 1..Len(s) /\ (i - 1) + 1 = i
      BY <1>1, <2>2
    <3> QED
      BY <1>1, <3>1
  <2> QED
    BY <2>1, <2>2
<1>3. \A k \in 1..Len(s) : k + 1 \in 1..Len(t)
  BY <1>1
<1>4. Watching!SetOf(t) = {x} \cup Watching!SetOf(s)
  BY <1>1, <1>2, <1>3 DEF Watching!SetOf
<1> QED
  BY <1>4 DEF t

\* hls.js finds the variants, and nothing else.
LEMMA LevelsAreVariants ==
  ASSUME NEW L, NEW lines \in Seq(L)
  PROVE  /\ Watching!Levels(lines) \in Seq(L)
         /\ Watching!SetOf(Watching!Levels(lines)) = Variants(lines)
<1> DEFINE n == Len(lines) + 1
<1>0. n \in Nat /\ 1 \in 1..n /\ Len(lines) \in Nat
  OBVIOUS
<1>1. PICK f : f = [i \in 1..n |-> Found(lines, f, i)] /\ Watching!Levels(lines) = f[1]
  BY LevelsAre
<1> DEFINE P == {i \in 1..n : f[i] \in Seq(L) /\ Watching!SetOf(f[i]) = VariantsFrom(lines, i)}
<1>2. ASSUME NEW i \in 1..n, \A j \in i + 1..n : j \in P PROVE i \in P
  <2>1. f[i] = Found(lines, f, i)
    BY <1>1
  <2>2. CASE i >= Len(lines)
    <3>1. f[i] = <<>>
      BY <2>1, <2>2 DEF Found
    <3>2. VariantsFrom(lines, i) = {}
      BY <1>0, <2>2 DEF VariantsFrom
    <3>3. Watching!SetOf(<<>>) = {} /\ <<>> \in Seq(L)
      BY DEF Watching!SetOf
    <3> QED
      BY <3>1, <3>2, <3>3
  <2>3. CASE i < Len(lines)
    <3>0. i + 1 \in i + 1..n /\ i + 1 \in 1..Len(lines) /\ i \in 1..Len(lines)
      BY <1>0, <2>3
    <3>1. f[i + 1] \in Seq(L) /\ Watching!SetOf(f[i + 1]) = VariantsFrom(lines, i + 1)
      BY <1>2, <3>0
    <3>2. lines[i + 1] \in L
      BY <3>0
    <3>3. CASE lines[i] = Watching!StreamInf
      <4>1. f[i] = <<lines[i + 1]>> \o f[i + 1]
        <5>1. ~(i >= Len(lines))
          BY <1>0, <2>3
        <5> QED
          BY <2>1, <3>3, <5>1, Zenon DEF Found
      <4>2. VariantsFrom(lines, i) = {lines[i + 1]} \cup VariantsFrom(lines, i + 1)
        BY <2>3, <3>0, <3>3, VariantsMore
      <4>3. f[i] \in Seq(L)
        BY <3>1, <3>2, <4>1
      <4> QED
        BY <3>1, <3>2, <4>1, <4>2, <4>3, SetOfPrefixed
    <3>4. CASE lines[i] # Watching!StreamInf
      <4>1. f[i] = f[i + 1]
        BY <2>1, <2>3, <3>4, <1>0 DEF Found
      <4>2. VariantsFrom(lines, i) = VariantsFrom(lines, i + 1)
        BY <2>3, <3>0, <3>4, VariantsMore
      <4> QED
        BY <3>1, <4>1, <4>2
    <3> QED
      BY <3>3, <3>4
  <2> QED
    BY <1>0, <2>2, <2>3
<1>3. 1..n \subseteq P
  <2> HIDE DEF P, n
  <2> QED
    BY <1>0, <1>2, GoDown
<1>4. 1 \in P
  BY <1>0, <1>3
<1> QED
  BY <1>1, <1>4 DEF Variants

-----------------------------------------------------------------------------
\* The equations of filterMasterManifest.
Keep(lines, cap, f, i) ==
  IF i > Len(lines) THEN <<>>
  ELSE IF lines[i] # Watching!StreamInf THEN <<lines[i]>> \o f[i + 1]
  ELSE (IF i < Len(lines) /\ lines[i + 1] \in 1..cap
        THEN <<lines[i], lines[i + 1]>> ELSE <<>>) \o f[i + 2]

Agree(L, lines, f, g, i) ==
  i <= Len(lines) => /\ f[i + 1] = g[i + 1] /\ f[i + 2] = g[i + 2]
                     /\ g[i + 1] \in Seq(L) /\ g[i + 2] \in Seq(L)

\* Only its own next two values matter, and they give a sequence.
LEMMA KeepFrom ==
  ASSUME NEW L, NEW lines \in Seq(L), NEW cap, NEW i \in 1..Len(lines) + 2, NEW f, NEW g,
         Agree(L, lines, f, g, i)
  PROVE  Keep(lines, cap, f, i) = Keep(lines, cap, g, i) /\ Keep(lines, cap, g, i) \in Seq(L)
<1>0. Len(lines) \in Nat /\ <<>> \in Seq(L)
  OBVIOUS
<1>1. CASE i > Len(lines)
  BY <1>0, <1>1, Zenon DEF Keep
<1>2. CASE i <= Len(lines)
  <2> USE DEF Agree
  <2>0. ~(i > Len(lines)) /\ lines[i] \in L
    BY <1>0, <1>2
  <2>1. Keep(lines, cap, f, i) = Keep(lines, cap, g, i)
    BY <1>2, <2>0, Zenon DEF Keep
  <2>2. <<lines[i]>> \o g[i + 1] \in Seq(L)
    BY <1>2, <2>0
  <2>3. <<>> \o g[i + 2] \in Seq(L)
    BY <1>2, <1>0
  <2>4. i < Len(lines) => <<lines[i], lines[i + 1]>> \o g[i + 2] \in Seq(L)
    <3> SUFFICES ASSUME i < Len(lines) PROVE <<lines[i], lines[i + 1]>> \o g[i + 2] \in Seq(L)
      OBVIOUS
    <3>1. lines[i + 1] \in L
      BY <1>0
    <3>2. <<lines[i], lines[i + 1]>> \in Seq(L)
      BY <2>0, <3>1
    <3> QED
      BY <1>2, <3>2
  <2> QED
    BY <2>0, <2>1, <2>2, <2>3, <2>4, Zenon DEF Keep
<1> QED
  BY <1>0, <1>1, <1>2

LEMMA KeepExists ==
  ASSUME NEW L, NEW lines \in Seq(L), NEW cap
  PROVE  \E f \in [1..Len(lines) + 2 -> Seq(L)] :
           \A i \in 1..Len(lines) + 2 : f[i] = Keep(lines, cap, f, i)
<1> DEFINE n == Len(lines) + 2
           P == {i \in 1..n : \E f \in [i..n -> Seq(L)] : \A j \in i..n : f[j] = Keep(lines, cap, f, j)}
<1>0. n \in Nat /\ 1 \in 1..n /\ Len(lines) \in Nat /\ n = Len(lines) + 2 /\ <<>> \in Seq(L)
  OBVIOUS
<1> HIDE DEF n
<1>1. ASSUME NEW i \in 1..n, \A j \in i + 1..n : j \in P PROVE i \in P
  <2>1. PICK g \in [i + 1..n -> Seq(L)] : \A j \in i + 1..n : g[j] = Keep(lines, cap, g, j)
    <3>1. CASE i = n
      <4> DEFINE g == [j \in i + 1..n |-> <<>>]
      <4>1. g \in [i + 1..n -> Seq(L)] /\ i + 1..n = {}
        BY <1>0, <3>1
      <4> HIDE DEF g
      <4> QED
        BY <4>1
    <3>2. CASE i < n
      <4>1. i + 1 \in i + 1..n
        BY <1>0, <3>2
      <4>2. i + 1 \in P
        BY <1>1, <4>1
      <4> QED
        BY <4>2
    <3> QED
      BY <1>0, <3>1, <3>2
  <2> DEFINE x == Keep(lines, cap, g, i)
             f == [j \in i..n |-> IF j = i THEN x ELSE g[j]]
  <2>2. i <= Len(lines) => g[i + 1] \in Seq(L) /\ g[i + 2] \in Seq(L)
    <3> SUFFICES ASSUME i <= Len(lines) PROVE i + 1 \in i + 1..n /\ i + 2 \in i + 1..n
      BY <2>1
    <3> QED
      BY <1>0
  <2>3. \A j \in i + 1..n : f[j] = g[j]
    BY <1>0
  <2>4. x \in Seq(L) /\ f[i] = x
    <3>1. Keep(lines, cap, g, i) \in Seq(L)
      <4>1. Agree(L, lines, g, g, i)
        BY <2>2 DEF Agree
      <4> QED
        BY <1>0, <4>1, KeepFrom
    <3> QED
      BY <1>0, <3>1
  <2>5. f \in [i..n -> Seq(L)]
    <3> HIDE DEF x
    <3> QED
      BY <1>0, <2>1, <2>4
  <2> HIDE DEF f
  <2>6. ASSUME NEW j \in i..n PROVE f[j] = Keep(lines, cap, f, j)
    <3>1. Agree(L, lines, f, g, j)
      <4> SUFFICES ASSUME j <= Len(lines) PROVE j + 1 \in i + 1..n /\ j + 2 \in i + 1..n
        BY <2>1, <2>3 DEF Agree
      <4> QED
        BY <1>0
    <3>2. j \in 1..Len(lines) + 2
      BY <1>0
    <3>3. Keep(lines, cap, f, j) = Keep(lines, cap, g, j)
      BY <3>1, <3>2, KeepFrom
    <3>4. f[j] = Keep(lines, cap, g, j)
      <4>1. CASE j = i
        BY <2>4, <4>1
      <4>2. CASE j # i
        <5>1. j \in i + 1..n
          BY <1>0, <4>2
        <5> QED
          BY <5>1, <2>1, <2>3
      <4> QED
        BY <4>1, <4>2
    <3> QED
      BY <3>3, <3>4
  <2> QED
    BY <2>5, <2>6
<1>2. 1..n \subseteq P
  <2> HIDE DEF P
  <2> QED
    BY <1>0, <1>1, GoDown
<1>3. 1 \in P
  BY <1>0, <1>2
<1> QED
  BY <1>0, <1>3

\* What the filter is: the first value of a function that satisfies its equations.
LEMMA KeptIs ==
  ASSUME NEW L, NEW lines \in Seq(L), NEW cap
  PROVE  \E f : /\ f = [i \in 1..Len(lines) + 2 |-> Keep(lines, cap, f, i)]
                /\ Watching!filterMasterManifest(lines, cap) = f[1]
<1>1. PICK g \in [1..Len(lines) + 2 -> Seq(L)] :
        \A i \in 1..Len(lines) + 2 : g[i] = Keep(lines, cap, g, i)
  BY KeepExists
<1>2. g = [i \in 1..Len(lines) + 2 |-> Keep(lines, cap, g, i)]
  BY <1>1
<1> QED
  BY <1>2 DEF Watching!filterMasterManifest, Keep

LEMMA VariantsPrefixed ==
  ASSUME NEW L, NEW s \in Seq(L), NEW x \in L
  PROVE  Variants(<<x>> \o s) =
           (IF x = Watching!StreamInf /\ Len(s) > 0 THEN {s[1]} ELSE {}) \cup Variants(s)
<1> DEFINE t == <<x>> \o s
<1>1. /\ t \in Seq(L) /\ Len(t) = Len(s) + 1 /\ t[1] = x /\ Len(s) \in Nat
      /\ \A k \in 1..Len(s) : t[k + 1] = s[k]
  BY Prefixed
<1> HIDE DEF t
<1> DEFINE A == {k \in 1..Len(t) - 1 : t[k] = Watching!StreamInf}
           B == {k \in 1..Len(s) - 1 : s[k] = Watching!StreamInf}
<1>2. \A k \in B : k + 1 \in A /\ t[(k + 1) + 1] = s[k + 1]
  BY <1>1
<1>3. \A k \in A : k = 1 \/ (k - 1 \in B /\ t[k + 1] = s[(k - 1) + 1])
  <2> TAKE k \in A
  <2> SUFFICES ASSUME k # 1 PROVE k - 1 \in B /\ t[k + 1] = s[(k - 1) + 1]
    OBVIOUS
  <2>1. k - 1 \in 1..Len(s) - 1 /\ (k - 1) + 1 = k /\ k \in 1..Len(s)
    BY <1>1
  <2> QED
    BY <1>1, <2>1
<1>4. 1 \in A <=> x = Watching!StreamInf /\ Len(s) > 0
  BY <1>1
<1>5. Len(s) > 0 => t[1 + 1] = s[1]
  BY <1>1
<1>6. Variants(t) = {t[k + 1] : k \in A} /\ Variants(s) = {s[k + 1] : k \in B}
  BY DEF Variants, VariantsFrom
<1> HIDE DEF A, B
<1>7. Variants(t) = (IF x = Watching!StreamInf /\ Len(s) > 0 THEN {s[1]} ELSE {}) \cup Variants(s)
  <2>1. CASE 1 \in A
    BY <1>2, <1>3, <1>4, <1>5, <1>6, <2>1
  <2>2. CASE 1 \notin A
    BY <1>2, <1>3, <1>4, <1>5, <1>6, <2>2
  <2> QED
    BY <2>1, <2>2
<1> QED
  BY <1>7 DEF t

\* streaming-service hands on the variants of a playlist up to the cap, all of them and no
\* other, however many lines it has and wherever its STREAM-INFs are.
THEOREM FilterKeepsToCap ==
  ASSUME NEW lines, Watching!IsPlaylist(lines), NEW cap \in Nat
  PROVE  /\ Watching!filterMasterManifest(lines, cap) \in Seq(Nat)
         /\ Variants(Watching!filterMasterManifest(lines, cap)) = {q \in Variants(lines) : q <= cap}
<1> DEFINE n == Len(lines) + 2
           Upto(i) == {q \in VariantsFrom(lines, i) : q <= cap}
<1>0. /\ lines \in Seq(Nat) /\ n \in Nat /\ 1 \in 1..n /\ Len(lines) \in Nat /\ n = Len(lines) + 2
      /\ \A i \in 1..Len(lines) - 1 : lines[i] = Watching!StreamInf => lines[i + 1] \in 1..5
      /\ <<>> \in Seq(Nat) /\ Len(<<>>) = 0 /\ Watching!StreamInf = 9
  BY DEF Watching!IsPlaylist, Watching!Other, Watching!StreamInf, Watching!QUALITY_ORDER
<1>1. PICK f : f = [i \in 1..Len(lines) + 2 |-> Keep(lines, cap, f, i)]
             /\ Watching!filterMasterManifest(lines, cap) = f[1]
  <2>1. lines \in Seq(Nat)
    BY <1>0
  <2> QED
    BY <2>1, KeptIs
<1> HIDE DEF n
<1> DEFINE P == {i \in 1..n : f[i] \in Seq(Nat) /\ Variants(f[i]) = Upto(i)}
<1>2. ASSUME NEW i \in 1..n, \A j \in i + 1..n : j \in P PROVE i \in P
  <2>1. f[i] = Keep(lines, cap, f, i)
    BY <1>0, <1>1
  <2>2. CASE i > Len(lines)
    <3>1. f[i] = <<>>
      BY <2>1, <2>2, Zenon DEF Keep
    <3>2. VariantsFrom(lines, i) = {} /\ Variants(<<>>) = {}
      BY <1>0, <2>2 DEF VariantsFrom, Variants
    <3> QED
      BY <1>0, <3>1, <3>2
  <2>3. CASE i <= Len(lines)
    <3>0. /\ i + 1 \in i + 1..n /\ i + 2 \in i + 1..n /\ i \in 1..Len(lines)
          /\ ~(i > Len(lines)) /\ lines[i] \in Nat
      BY <1>0, <2>3
    <3>1. /\ f[i + 1] \in Seq(Nat) /\ Variants(f[i + 1]) = Upto(i + 1)
          /\ f[i + 2] \in Seq(Nat) /\ Variants(f[i + 2]) = Upto(i + 2)
      BY <1>2, <3>0
    <3>2. CASE lines[i] # Watching!StreamInf
      <4>1. f[i] = <<lines[i]>> \o f[i + 1]
        BY <2>1, <3>0, <3>2, Zenon DEF Keep
      <4>2. Variants(f[i]) = Variants(f[i + 1])
        BY <3>0, <3>1, <3>2, <4>1, VariantsPrefixed
      <4>3. VariantsFrom(lines, i) = VariantsFrom(lines, i + 1)
        BY <1>0, <3>0, <3>2, VariantsMore
      <4>4. f[i] \in Seq(Nat)
        BY <3>0, <3>1, <4>1
      <4> QED
        BY <3>1, <4>2, <4>3, <4>4
    <3>3. CASE lines[i] = Watching!StreamInf /\ i = Len(lines)
      <4>1. f[i] = <<>> \o f[i + 2]
        BY <1>0, <2>1, <3>0, <3>3 DEF Keep
      <4>2. f[i] = f[i + 2]
        BY <3>1, <4>1
      <4>3. VariantsFrom(lines, i) = {} /\ VariantsFrom(lines, i + 2) = {}
        BY <1>0, <3>0, <3>3 DEF VariantsFrom
      <4> QED
        BY <3>1, <4>2, <4>3
    <3>4. CASE lines[i] = Watching!StreamInf /\ i < Len(lines)
      <4> DEFINE q == lines[i + 1]
      <4>0. i \in 1..Len(lines) - 1 /\ Len(lines) \in Nat
        BY <1>0, <3>0, <3>4
      <4>1. q \in 1..5 /\ q # Watching!StreamInf /\ q \in Nat
        <5>1. q \in 1..5
          BY <1>0, <3>4, <4>0
        <5> HIDE DEF q
        <5> QED
          BY <1>0, <5>1
      <4>2. VariantsFrom(lines, i) = {q} \cup VariantsFrom(lines, i + 2)
        <5>1. ASSUME NEW k \in i..Len(lines) - 1, lines[k] = Watching!StreamInf
              PROVE  k = i \/ k \in i + 2..Len(lines) - 1
          <6>1. k # i + 1
            BY <4>1, <5>1
          <6> QED
            BY <4>0, <6>1
        <5>2. i \in i..Len(lines) - 1 /\ i + 2..Len(lines) - 1 \subseteq i..Len(lines) - 1
          BY <4>0
        <5> QED
          BY <5>1, <5>2, <3>4 DEF VariantsFrom
      <4>3. CASE q \in 1..cap
        <5>1. f[i] = <<lines[i], q>> \o f[i + 2]
          BY <2>1, <3>0, <3>4, <4>3, Zenon DEF Keep
        <5>2. <<lines[i], q>> \o f[i + 2] = <<lines[i]>> \o (<<q>> \o f[i + 2])
          <6>1. <<lines[i], q>> = <<lines[i]>> \o <<q>>
            OBVIOUS
          <6>2. <<lines[i]>> \in Seq(Nat) /\ <<q>> \in Seq(Nat)
            BY <3>0, <4>1
          <6> HIDE DEF q
          <6> QED
            BY <3>1, <6>1, <6>2, ConcatAssociative
        <5> DEFINE t == <<q>> \o f[i + 2]
        <5>3. t \in Seq(Nat) /\ t[1] = q /\ Len(t) > 0
          BY <3>1, <4>1, Prefixed
        <5>4. Variants(t) = Variants(f[i + 2])
          BY <3>1, <4>1, VariantsPrefixed
        <5> HIDE DEF t
        <5>5. f[i] = <<lines[i]>> \o t
          BY <5>1, <5>2 DEF t
        <5>6. Variants(f[i]) = {q} \cup Variants(f[i + 2])
          BY <3>0, <3>4, <5>3, <5>4, <5>5, VariantsPrefixed
        <5>7. f[i] \in Seq(Nat)
          BY <3>0, <5>3, <5>5
        <5>8. q <= cap
          BY <4>1, <4>3
        <5> HIDE DEF q
        <5> QED
          BY <3>1, <4>2, <5>6, <5>7, <5>8
      <4>4. CASE q \notin 1..cap
        <5>1. f[i] = <<>> \o f[i + 2]
          BY <2>1, <3>0, <3>4, <4>4, Zenon DEF Keep
        <5>2. f[i] = f[i + 2]
          BY <3>1, <5>1
        <5>3. ~(q <= cap)
          BY <4>1, <4>4
        <5> HIDE DEF q
        <5> QED
          BY <3>1, <4>2, <5>2, <5>3
      <4> QED
        BY <4>3, <4>4
    <3> QED
      BY <1>0, <3>0, <3>2, <3>3, <3>4
  <2> QED
    BY <1>0, <2>2, <2>3
<1>3. 1..n \subseteq P
  <2> HIDE DEF P
  <2> QED
    BY <1>0, <1>2, GoDown
<1>4. 1 \in P
  BY <1>0, <1>3
<1> QED
  BY <1>1, <1>4 DEF Variants

-----------------------------------------------------------------------------
\* Induction from 1 up to n.
LEMMA GoUp ==
  ASSUME NEW n \in Nat, NEW P, \A i \in 1..n : (\A j \in 1..i - 1 : j \in P) => i \in P
  PROVE  1..n \subseteq P
<1> DEFINE Q == {i \in 1..n : (n + 1) - i \in P}
<1>1. ASSUME NEW i \in 1..n, \A j \in i + 1..n : j \in Q PROVE i \in Q
  <2>1. ASSUME NEW j \in 1..((n + 1) - i) - 1 PROVE j \in P
    <3>1. (n + 1) - j \in i + 1..n /\ (n + 1) - ((n + 1) - j) = j
      OBVIOUS
    <3> QED
      BY <1>1, <3>1
  <2>2. (n + 1) - i \in 1..n
    OBVIOUS
  <2> QED
    BY <2>1, <2>2
<1>2. 1..n \subseteq Q
  <2> HIDE DEF Q
  <2> QED
    BY <1>1, GoDown
<1>3. ASSUME NEW i \in 1..n PROVE i \in P
  <2>1. (n + 1) - i \in 1..n /\ (n + 1) - ((n + 1) - i) = i
    OBVIOUS
  <2> QED
    BY <1>2, <2>1
<1> QED
  BY <1>3

First(levels, q) ==
  CHOOSE i \in 1..Len(levels) : levels[i] = q /\ \A k \in 1..i - 1 : levels[k] # q

\* A level that is there has a first place.
LEMMA FirstIs ==
  ASSUME NEW levels \in Seq(Nat), NEW q \in Watching!SetOf(levels)
  PROVE  First(levels, q) \in 1..Len(levels) /\ levels[First(levels, q)] = q
<1> DEFINE P == {i \in 1..Len(levels) : levels[i] # q}
<1>1. \E i \in 1..Len(levels) : levels[i] = q /\ \A k \in 1..i - 1 : levels[k] # q
  <2> SUFFICES ASSUME \A i \in 1..Len(levels) : levels[i] = q => \E k \in 1..i - 1 : levels[k] = q
               PROVE  FALSE
    OBVIOUS
  <2>1. ASSUME NEW i \in 1..Len(levels), \A j \in 1..i - 1 : j \in P PROVE i \in P
    BY <2>1
  <2>2. 1..Len(levels) \subseteq P
    <3>1. Len(levels) \in Nat
      OBVIOUS
    <3> HIDE DEF P
    <3> QED
      BY <2>1, <3>1, GoUp
  <2> QED
    BY <2>2 DEF Watching!SetOf
<1> QED
  BY <1>1 DEF First

Above(S, q) == {r \in S : r > q}

At(S, n) == CHOOSE q \in S : Cardinality(Above(S, q)) = n - 1

\* How many are above a member of a finite set, and that there are fewer above a higher one.
LEMMA RankIs ==
  ASSUME NEW S, IsFiniteSet(S), S \in SUBSET Nat, NEW q \in S
  PROVE  /\ IsFiniteSet(Above(S, q)) /\ Cardinality(Above(S, q)) \in Nat
         /\ Cardinality(S) \in Nat /\ Cardinality(Above(S, q)) < Cardinality(S)
<1>1. Above(S, q) \in SUBSET S /\ q \notin Above(S, q)
  BY DEF Above
<1>2. /\ IsFiniteSet(Above(S, q)) /\ Cardinality(Above(S, q)) <= Cardinality(S)
      /\ Cardinality(S) = Cardinality(Above(S, q)) => S = Above(S, q)
  BY <1>1, FS_Subset
<1>3. Cardinality(Above(S, q)) \in Nat /\ Cardinality(S) \in Nat
  BY <1>2, FS_CardinalityType
<1> QED
  BY <1>1, <1>2, <1>3

LEMMA RanksFall ==
  ASSUME NEW S, IsFiniteSet(S), S \in SUBSET Nat, NEW p \in S, NEW q \in S, p < q
  PROVE  Cardinality(Above(S, q)) < Cardinality(Above(S, p))
<1>1. Above(S, q) \in SUBSET Above(S, p) /\ q \in Above(S, p) /\ q \notin Above(S, q)
  <2>1. p \in Nat /\ q \in Nat /\ q > p /\ ~(q > q)
    OBVIOUS
  <2>2. ASSUME NEW r \in S, r > q PROVE r > p
    <3>1. r \in Nat
      OBVIOUS
    <3> QED
      BY <2>1, <2>2, <3>1
  <2> QED
    BY <2>1, <2>2, Zenon DEF Above
<1>2. /\ IsFiniteSet(Above(S, p)) /\ Cardinality(Above(S, p)) \in Nat /\ Cardinality(Above(S, q)) \in Nat
  BY RankIs
<1>3. /\ Cardinality(Above(S, q)) <= Cardinality(Above(S, p))
      /\ Cardinality(Above(S, p)) = Cardinality(Above(S, q)) => Above(S, p) = Above(S, q)
  BY <1>1, <1>2, FS_Subset
<1> QED
  BY <1>1, <1>2, <1>3

\* The n-th highest of a finite set of numbers.
LEMMA AtIs ==
  ASSUME NEW S \in SUBSET Nat, IsFiniteSet(S), NEW n \in 1..Cardinality(S)
  PROVE  At(S, n) \in S /\ Cardinality(Above(S, At(S, n))) = n - 1
<1> DEFINE c == Cardinality(S)
           rank == [q \in S |-> Cardinality(Above(S, q))]
<1>1. c \in Nat
  BY FS_CardinalityType
<1>2. \A q \in S : rank[q] \in Nat /\ rank[q] < c
  BY RankIs
<1>3. ASSUME NEW p \in S, NEW q \in S, p < q PROVE rank[q] < rank[p]
  BY <1>3, RanksFall
<1>4. rank \in Injection(S, 0..c - 1)
  <2>1. rank \in [S -> 0..c - 1]
    BY <1>1, <1>2
  <2>2. ASSUME NEW p \in S, NEW q \in S, rank[p] = rank[q] PROVE p = q
    <3>1. p \in Nat /\ q \in Nat /\ rank[p] \in Nat
      BY <1>2
    <3>2. ~(p < q) /\ ~(q < p)
      <4> HIDE DEF rank
      <4> QED
        BY <1>3, <2>2, <3>1
    <3> QED
      BY <3>1, <3>2
  <2> HIDE DEF rank
  <2> QED
    BY <2>1, <2>2 DEF Injection, IsInjective
<1>5. IsFiniteSet(0..c - 1) /\ Cardinality(0..c - 1) = c
  <2>1. 0 \in Int /\ c - 1 \in Int
    BY <1>1
  <2> QED
    BY <1>1, <2>1, FS_Interval
<1>6. rank \in Surjection(S, 0..c - 1)
  <2> HIDE DEF rank
  <2> QED
    BY <1>4, <1>5, FS_Injection
<1>7. n - 1 \in 0..c - 1
  BY <1>1
<1>8. \E q \in S : rank[q] = n - 1
  <2> HIDE DEF rank
  <2> QED
    BY <1>6, <1>7 DEF Surjection
<1> QED
  BY <1>8 DEF At

\* The Cardinality that Playback has is this one.
LEMMA SameCardinality ==
  ASSUME NEW S
  PROVE  Watching!Cardinality(S) = Cardinality(S)
BY DEF Watching!Cardinality, Cardinality

LEMMA LevelsFinite ==
  ASSUME NEW levels \in Seq(Nat)
  PROVE  Watching!SetOf(levels) \in SUBSET Nat /\ IsFiniteSet(Watching!SetOf(levels))
<1> DEFINE S == Watching!SetOf(levels)
           f == [i \in 1..Len(levels) |-> levels[i]]
<1>1. IsFiniteSet(1..Len(levels))
  BY FS_Interval
<1>2. f \in Surjection(1..Len(levels), S)
  BY DEF Watching!SetOf, Surjection
<1>3. IsFiniteSet(S)
  <2> HIDE DEF f, S
  <2> QED
    BY <1>1, <1>2, FS_Surjection
<1> QED
  BY <1>3 DEF Watching!SetOf

\* What the menu is, with the parts of it named.
LEMMA MenuIs ==
  ASSUME NEW levels \in Seq(Nat), NEW S, S = Watching!SetOf(levels)
  PROVE  /\ Watching!qualityOptions(levels) =
              [k \in 1..Cardinality(S) |-> [idx |-> First(levels, At(S, k)), label |-> At(S, k)]]
         /\ Cardinality(S) \in Nat /\ S \in SUBSET Nat /\ IsFiniteSet(S)
         /\ Len(Watching!qualityOptions(levels)) = Cardinality(S)
<1>1. S \in SUBSET Nat /\ IsFiniteSet(S)
  BY LevelsFinite
<1>2. Watching!qualityOptions(levels) =
        [k \in 1..Cardinality(S) |-> [idx |-> First(levels, At(S, k)), label |-> At(S, k)]]
  <2> DEFINE T == Watching!SetOf(levels)
  <2>1. Watching!qualityOptions(levels) =
          [k \in 1..Cardinality(T) |-> [idx |-> First(levels, At(T, k)), label |-> At(T, k)]]
    BY SameCardinality, Zenon DEF Watching!qualityOptions, First, At, Above
  <2> QED
    BY <2>1
<1>3. Cardinality(S) \in Nat
  BY <1>1, FS_CardinalityType
<1> QED
  BY <1>1, <1>2, <1>3

\* An entry of the menu has the label of the level it stands for.
LEMMA OptionsAre ==
  ASSUME NEW levels \in Seq(Nat), NEW n \in 1..Len(Watching!qualityOptions(levels))
  PROVE  LET o == Watching!qualityOptions(levels)[n]
         IN  o.idx \in 1..Len(levels) /\ levels[o.idx] = o.label
<1>1. PICK S : S = Watching!SetOf(levels)
  OBVIOUS
<1>2. n \in 1..Cardinality(S)
  BY <1>1, MenuIs
<1>3. At(S, n) \in S
  BY <1>1, <1>2, MenuIs, AtIs
<1>4. First(levels, At(S, n)) \in 1..Len(levels) /\ levels[First(levels, At(S, n))] = At(S, n)
  BY <1>1, <1>3, FirstIs
<1> QED
  BY <1>1, <1>2, <1>4, MenuIs

\* The quality menu of a player, for any levels in any order: each label is there once, the
\* highest first, and stands for a level that has it.
THEOREM MenuIsWhole ==
  ASSUME NEW levels \in Seq(Nat)
  PROVE  LET O == Watching!qualityOptions(levels)
         IN  /\ \A n \in 1..Len(O), m \in 1..Len(O) : n < m => O[n].label > O[m].label
             /\ \A q \in Watching!SetOf(levels) : \E n \in 1..Len(O) : O[n].label = q
             /\ \A n \in 1..Len(O) : O[n].idx \in 1..Len(levels) /\ levels[O[n].idx] = O[n].label
<1> DEFINE O == Watching!qualityOptions(levels)
<1>0. \A n \in 1..Len(O) : O[n].idx \in 1..Len(levels) /\ levels[O[n].idx] = O[n].label
  BY OptionsAre
<1>1. PICK S : S = Watching!SetOf(levels)
  OBVIOUS
<1>2. /\ Len(O) = Cardinality(S) /\ Cardinality(S) \in Nat /\ S \in SUBSET Nat /\ IsFiniteSet(S)
      /\ \A n \in 1..Cardinality(S) : O[n].label = At(S, n)
  BY <1>1, MenuIs
<1> HIDE DEF O
<1>3. ASSUME NEW n \in 1..Cardinality(S), NEW m \in 1..Cardinality(S), n < m
      PROVE  At(S, n) > At(S, m)
  <2>1. /\ At(S, n) \in S /\ Cardinality(Above(S, At(S, n))) = n - 1
        /\ At(S, m) \in S /\ Cardinality(Above(S, At(S, m))) = m - 1
    BY <1>2, AtIs
  <2>2. SUFFICES ASSUME ~(At(S, n) > At(S, m)) PROVE FALSE
    OBVIOUS
  <2>3. At(S, n) \in Nat /\ At(S, m) \in Nat /\ n \in Nat /\ m \in Nat
    <3>1. Cardinality(S) \in Nat /\ At(S, n) \in S /\ At(S, m) \in S /\ S \in SUBSET Nat
      BY <1>2, <2>1
    <3>2. At(S, n) \in Nat /\ At(S, m) \in Nat
      BY <3>1, Zenon
    <3>3. n \in Nat /\ m \in Nat
      BY <3>1
    <3> QED
      BY <3>2, <3>3
  <2>4. At(S, n) # At(S, m)
    BY <1>3, <2>1, <2>3
  <2>5. At(S, n) < At(S, m)
    BY <2>2, <2>3, <2>4
  <2>6. Cardinality(Above(S, At(S, m))) < Cardinality(Above(S, At(S, n)))
    BY <1>2, <2>1, <2>5, RanksFall
  <2> QED
    BY <1>3, <2>1, <2>3, <2>6
<1>4. ASSUME NEW q \in S PROVE \E n \in 1..Cardinality(S) : At(S, n) = q
  <2>1. /\ Cardinality(Above(S, q)) \in Nat /\ Cardinality(Above(S, q)) < Cardinality(S)
    BY <1>2, RankIs
  <2> DEFINE n == Cardinality(Above(S, q)) + 1
  <2>2. n \in 1..Cardinality(S) /\ n - 1 = Cardinality(Above(S, q))
    BY <1>2, <2>1
  <2> HIDE DEF n
  <2>3. At(S, n) \in S /\ Cardinality(Above(S, At(S, n))) = Cardinality(Above(S, q))
    BY <1>2, <2>2, AtIs
  <2>4. At(S, n) = q
    <3>1. q \in Nat /\ At(S, n) \in Nat
      BY <1>2, <2>3
    <3>2. \A a \in S, b \in S : a < b => Cardinality(Above(S, b)) < Cardinality(Above(S, a))
      BY <1>2, RanksFall
    <3>3. ~(q < At(S, n)) /\ ~(At(S, n) < q)
      BY <2>1, <2>3, <3>2
    <3> QED
      BY <3>1, <3>3
  <2> QED
    BY <2>2, <2>4
<1>5. /\ \A n \in 1..Len(O), m \in 1..Len(O) : n < m => O[n].label > O[m].label
      /\ \A q \in S : \E n \in 1..Len(O) : O[n].label = q
  BY <1>2, <1>3, <1>4
<1> QED
  BY <1>0, <1>1, <1>5 DEF O

-----------------------------------------------------------------------------
\* What a player whose tier is capped at cap shows of the playlist.
Menu(lines, p, cap) ==
  /\ p.levels \in Seq(Nat)
  /\ p.held # 0 => p.held \in 1..Len(p.levels) /\ p.levels[p.held] = p.pressed
  /\ p.page \in {"away", "waits", "loading", "manifest"} => p.levels = <<>> /\ p.held = 0
  /\ p.page = "ready" /\ ~p.direct =>
       Watching!SetOf(p.levels) = {q \in Watching!SetOf(Watching!Levels(lines)) : q <= cap}

\* An answer of resume that is still to be heeded finds a player without a playlist.
Asking ==
  \A t \in Watching!Tabs : \A m \in inits[t] :
    m = mount[t] => tab[t].page \in {"away", "waits", "loading"}

Menus ==
  /\ Watching!IsPlaylist(master) /\ Asking
  /\ \A t \in Watching!Tabs : Menu(master, tab[t], Watching!Cap(t))

LEMMA CapIs == \A t \in Watching!Tabs : Watching!Cap(t) \in Nat
BY DEF Watching!Cap, Watching!QUALITY_CAPS, Watching!TierOf, Watching!AppOf

LEMMA MenusInit ==
  ASSUME Watching!Playlists, Watching!Init
  PROVE  Menus
<1>1. Watching!IsPlaylist(master)
  BY DEF Watching!Init, Watching!Playlists
<1>2. Asking
  BY DEF Watching!Init, Asking
<1>3. \A t \in Watching!Tabs : tab[t] = Watching!NoPlayer
  BY DEF Watching!Init
<1>4. ASSUME NEW t \in Watching!Tabs PROVE Menu(master, tab[t], Watching!Cap(t))
  <2>1. tab[t].page = "away" /\ tab[t].levels = <<>> /\ tab[t].held = 0
    BY <1>3, NoPlayerIs
  <2>2. <<>> \in Seq(Nat)
    OBVIOUS
  <2> QED
    BY <2>1, <2>2 DEF Menu
<1> QED
  BY <1>1, <1>2, <1>4 DEF Menus

\* The player of t becomes p, and waits for no answer unless it did.
LEMMA MenusKept ==
  ASSUME WInv, Menus, NEW t \in Watching!Tabs, NEW p, Watching!Becomes(t, p),
         UNCHANGED <<master, mount>>, \A u \in Watching!Tabs : inits'[u] \subseteq inits[u],
         Menu(master, p, Watching!Cap(t)),
         \/ p.page \in {"away", "waits", "loading"}
         \/ mount[t] \notin inits'[t]
  PROVE  Menus'
<1>1. \A u \in Watching!Tabs : tab'[u] = IF u = t THEN p ELSE tab[u]
  BY DEF WInv, Players, Watching!Becomes
<1>2. Asking'
  BY <1>1 DEF Menus, Asking
<1>3. ASSUME NEW u \in Watching!Tabs PROVE Menu(master, tab'[u], Watching!Cap(u))
  BY <1>1 DEF Menus
<1>4. Watching!IsPlaylist(master')
  BY DEF Menus
<1> QED
  BY <1>2, <1>3, <1>4 DEF Menus

\* Leaving a page, or waiting for its video, leaves no playlist.
LEMMA UnmountedMenu ==
  ASSUME NEW t \in Watching!Tabs, NEW p, NEW cap,
         p = Watching!Unmounted(t) \/ p = [Watching!Unmounted(t) EXCEPT !.page = "waits"]
  PROVE  Menu(master, p, cap) /\ p.page \in {"away", "waits"}
<1> DEFINE q == Left(Watching!NoPlayer, tab[t].timers \ {mount[t]}, tab[t].hls \ {mount[t]})
<1>1. q = Watching!Unmounted(t)
  BY DEF Watching!Unmounted, Left
<1>2. /\ IsPlayer(q) /\ q.page = Watching!NoPlayer.page /\ SameMenu(Watching!NoPlayer, q)
  BY NoPlayerIs, SetLeft
<1> HIDE DEF q
<1>3. q.page = "away" /\ q.levels = <<>> /\ q.held = 0
  BY <1>2, NoPlayerIs DEF SameMenu
<1>4. p.page \in {"away", "waits"} /\ p.levels = <<>> /\ p.held = 0
  <2>1. CASE p = q
    BY <1>3, <2>1
  <2>2. CASE p = [q EXCEPT !.page = "waits"]
    <3>1. p.page = "waits" /\ SameMenu(q, p)
      BY <1>2, <2>2, SetPage
    <3> QED
      BY <1>3, <3>1 DEF SameMenu
  <2> QED
    BY <1>1, <2>1, <2>2
<1>5. <<>> \in Seq(Nat)
  OBVIOUS
<1> QED
  BY <1>4, <1>5 DEF Menu

\* A mount begins without a playlist.
LEMMA MountsMenu ==
  ASSUME WInv, Menus, NEW t \in Watching!Tabs, tab[t].page \in {"away", "waits"},
         Watching!MountsPlayer(t), UNCHANGED master
  PROVE  Menus'
<1> DEFINE n == mount[t] + 1
           p == [tab[t] EXCEPT !.page = "loading"]
           q == Direct(tab[t], n)
<1>1. n \in Nat /\ n > mount[t] /\ \A u \in Watching!Tabs : mount'[u] = IF u = t THEN n ELSE mount[u]
  BY DEF Watching!MountsPlayer, WInv, Players
<1>2. IsPlayer(tab[t]) /\ tab[t].levels = <<>> /\ tab[t].held = 0
  BY DEF WInv, Players, Holds, Menus, Menu
<1>3. p.page = "loading" /\ SameMenu(tab[t], p)
  BY <1>2, SetPage, Zenon
<1>4. q.page = "manifest" /\ SameMenu(tab[t], q)
  BY <1>2, SetDirect
<1>5. \/ tab' = [tab EXCEPT ![t] = p] /\ inits' = [inits EXCEPT ![t] = @ \cup {n}]
      \/ tab' = [tab EXCEPT ![t] = q] /\ UNCHANGED inits
  BY DEF Watching!MountsPlayer, Watching!Becomes, Direct
<1> HIDE DEF p, q
<1>6. /\ \A u \in Watching!Tabs : u # t => tab'[u] = tab[u] /\ inits'[u] = inits[u]
      /\ tab'[t] = p \/ (tab'[t] = q /\ inits'[t] = inits[t])
  BY <1>5 DEF WInv, Players, Preparing
<1>7. Asking'
  <2> SUFFICES ASSUME NEW u \in Watching!Tabs, NEW m \in inits'[u], m = mount'[u]
               PROVE  tab'[u].page \in {"away", "waits", "loading"}
    BY DEF Asking
  <2>1. CASE u # t
    BY <1>1, <1>6, <2>1 DEF Menus, Asking
  <2>2. CASE u = t /\ tab'[t] = p
    BY <1>3, <2>2
  <2>3. CASE u = t /\ inits'[t] = inits[t]
    BY <1>1, <2>3 DEF WInv, Preparing, Players
  <2> QED
    BY <1>6, <2>1, <2>2, <2>3
<1>8. ASSUME NEW u \in Watching!Tabs PROVE Menu(master, tab'[u], Watching!Cap(u))
  <2>1. CASE u # t
    BY <1>6, <2>1 DEF Menus
  <2>2. CASE u = t
    <3>1. tab'[u].page \in {"loading", "manifest"} /\ tab'[u].levels = <<>> /\ tab'[u].held = 0
      BY <1>2, <1>3, <1>4, <1>6, <2>2 DEF SameMenu
    <3>2. <<>> \in Seq(Nat)
      OBVIOUS
    <3> QED
      BY <3>1, <3>2 DEF Menu
  <2> QED
    BY <2>1, <2>2
<1>9. Watching!IsPlaylist(master')
  BY DEF Menus
<1> QED
  BY <1>7, <1>8, <1>9 DEF Menus

\* init() goes on with a player that has no playlist yet.
LEMMA InitMenu ==
  ASSUME WInv, Menus, NEW t \in Watching!Tabs, NEW m \in Watching!Mounts, UNCHANGED master,
         Watching!InitGoesOn(t, m) \/ Watching!InitThrows(t, m)
  PROVE  Menus'
<1>1. /\ m \in inits[t] /\ inits' = [inits EXCEPT ![t] = @ \ {m}] /\ UNCHANGED mount
  BY Zenon DEF Watching!InitGoesOn, Watching!InitThrows
<1>2. /\ \A u \in Watching!Tabs : inits'[u] \subseteq inits[u]
      /\ inits'[t] = inits[t] \ {m}
  BY <1>1 DEF WInv, Preparing
<1>3. CASE UNCHANGED tab
  BY <1>1, <1>2, <1>3 DEF Menus, Asking
<1>4. ASSUME tab' # tab PROVE Menus'
  <2>1. m = mount[t] /\ tab[t].page \notin {"away", "waits"}
    BY <1>4, Zenon DEF Watching!InitGoesOn, Watching!InitThrows, Watching!Cancelled
  <2>2. IsPlayer(tab[t]) /\ tab[t].levels = <<>> /\ tab[t].held = 0
    <3>1. tab[t].page = "loading"
      BY <1>1, <2>1 DEF Menus, Asking
    <3> QED
      BY <3>1 DEF WInv, Players, Holds, Menus, Menu
  <2>3. PICK p : Watching!Becomes(t, p) /\ p.page \in {"manifest", "error"} /\ SameMenu(tab[t], p)
    <3>1. CASE Watching!InitThrows(t, m)
      <4>1. Watching!Becomes(t, [tab[t] EXCEPT !.page = "error"])
        BY <1>4, <3>1 DEF Watching!InitThrows
      <4> DEFINE p == [tab[t] EXCEPT !.page = "error"]
      <4>2. p.page = "error" /\ SameMenu(tab[t], p)
        BY <2>2, SetPage, Zenon
      <4> HIDE DEF p
      <4> QED
        BY <4>1, <4>2 DEF p
    <3>2. CASE Watching!InitGoesOn(t, m)
      <4>1. PICK s : Watching!Becomes(t, Prepared(tab[t], s, m))
        BY <1>4, <3>2, Zenon DEF Watching!InitGoesOn, Prepared
      <4>2. Prepared(tab[t], s, m).page = "manifest" /\ SameMenu(tab[t], Prepared(tab[t], s, m))
        BY <2>2, SetStart
      <4> QED
        BY <4>1, <4>2
    <3> QED
      BY <3>1, <3>2
  <2>4. Menu(master, p, Watching!Cap(t))
    <3>1. p.levels = <<>> /\ p.held = 0 /\ p.page \in {"manifest", "error"}
      BY <2>2, <2>3 DEF SameMenu
    <3>2. <<>> \in Seq(Nat)
      OBVIOUS
    <3> QED
      BY <3>1, <3>2 DEF Menu
  <2>5. mount[t] \notin inits'[t]
    BY <1>2, <2>1
  <2> QED
    BY <1>1, <1>2, <2>3, <2>4, <2>5, MenusKept
<1> QED
  BY <1>3, <1>4

\* What hls.js is offered are the variants up to the cap, or all of them.
LEMMA OfferedIs ==
  ASSUME Menus, NEW t \in Watching!Tabs
  PROVE  /\ Watching!Offered(t) \in Seq(Nat)
         /\ ~tab[t].direct => Watching!SetOf(Watching!Offered(t)) =
              {q \in Watching!SetOf(Watching!Levels(master)) : q <= Watching!Cap(t)}
<1> DEFINE f == Watching!filterMasterManifest(master, Watching!Cap(t))
<1>1. Watching!IsPlaylist(master) /\ Watching!Cap(t) \in Nat
  BY CapIs DEF Menus
<1>2. master \in Seq(Nat)
  BY <1>1 DEF Watching!IsPlaylist, Watching!Other, Watching!StreamInf, Watching!QUALITY_ORDER
<1>3. f \in Seq(Nat) /\ Variants(f) = {q \in Variants(master) : q <= Watching!Cap(t)}
  BY <1>1, FilterKeepsToCap
<1> HIDE DEF f
<1>4. /\ Watching!Levels(f) \in Seq(Nat) /\ Watching!SetOf(Watching!Levels(f)) = Variants(f)
  BY <1>3, LevelsAreVariants
<1>5. Watching!Levels(master) \in Seq(Nat) /\ Watching!SetOf(Watching!Levels(master)) = Variants(master)
  BY <1>2, LevelsAreVariants
<1>6. Watching!Offered(t) = IF tab[t].direct THEN Watching!Levels(master) ELSE Watching!Levels(f)
  BY DEF Watching!Offered, f
<1> QED
  BY <1>3, <1>4, <1>5, <1>6

\* Moving, pausing, seeking and failing leave the levels and the menu alone.
LEMMA SameMenuStep ==
  ASSUME WInv, Menus, NEW t \in Watching!Tabs, NEW p, Watching!Becomes(t, p),
         UNCHANGED <<master, mount, inits>>, SameMenu(tab[t], p), p.direct = tab[t].direct,
         p.page = tab[t].page \/ (p.page = "error" /\ tab[t].page \in {"manifest", "ready"})
  PROVE  Menus'
<1>1. Menu(master, p, Watching!Cap(t))
  BY DEF Menus, Menu, SameMenu
<1>2. p.page \in {"away", "waits", "loading"} \/ mount[t] \notin inits'[t]
  BY DEF Menus, Asking
<1>3. \A u \in Watching!Tabs : inits'[u] \subseteq inits[u]
  OBVIOUS
<1> QED
  BY <1>1, <1>2, <1>3, MenusKept

\* The levels are those on offer, and an entry of the menu names the one it picks.
LEMMA PlayingMenu ==
  ASSUME WInv, Menus, NEW t \in Watching!Tabs, UNCHANGED <<master, mount, inits>>,
         \/ Watching!ManifestParsed(t) \/ Watching!FatalError(t) \/ Watching!Moves(t)
         \/ Watching!togglePlay(t) \/ Watching!handleSeek(t) \/ Watching!setQuality(t)
  PROVE  Menus'
<1>0. IsPlayer(tab[t]) /\ Menu(master, tab[t], Watching!Cap(t))
  BY DEF WInv, Players, Holds, Menus
<1>a. \A u \in Watching!Tabs : inits'[u] \subseteq inits[u]
  OBVIOUS
<1>1. CASE Watching!ManifestParsed(t)
  <2>1. PICK g, x : Watching!Becomes(t, Shown(tab[t], Watching!Offered(t), g, x))
    BY <1>1, Zenon DEF Watching!ManifestParsed, Shown
  <2>2. tab[t].page = "manifest"
    BY <1>1, Zenon DEF Watching!ManifestParsed
  <2> DEFINE p == Shown(tab[t], Watching!Offered(t), g, x)
  <2>3. /\ p.page = "ready" /\ p.levels = Watching!Offered(t)
        /\ p.held = tab[t].held /\ p.direct = tab[t].direct
    BY <1>0, SetShown DEF Kept
  <2> HIDE DEF p
  <2>4. Menu(master, p, Watching!Cap(t))
    BY <1>0, <2>2, <2>3, OfferedIs DEF Menu
  <2>5. mount[t] \notin inits'[t]
    BY <2>2 DEF Menus, Asking
  <2>6. Watching!Becomes(t, p)
    BY <2>1 DEF p
  <2> QED
    BY <1>a, <2>4, <2>5, <2>6, MenusKept
<1>2. CASE Watching!FatalError(t)
  <2>1. Watching!Becomes(t, Broken(tab[t])) /\ tab[t].page \in {"manifest", "ready"}
    BY <1>2, Zenon DEF Watching!FatalError, Broken
  <2>2. /\ Broken(tab[t]).page = "error" /\ Broken(tab[t]).direct = tab[t].direct
        /\ SameMenu(tab[t], Broken(tab[t]))
    BY <1>0, SetBroken DEF Kept
  <2> QED
    BY <2>1, <2>2, SameMenuStep
<1>3. CASE Watching!Moves(t)
  <2>1. PICK x, g : Watching!Becomes(t, Moved(tab[t], x, g))
    BY <1>3, Zenon DEF Watching!Moves, Moved
  <2>2. /\ Moved(tab[t], x, g).page = tab[t].page /\ Moved(tab[t], x, g).direct = tab[t].direct
        /\ SameMenu(tab[t], Moved(tab[t], x, g))
    BY <1>0, SetMoved DEF Kept
  <2> QED
    BY <2>1, <2>2, SameMenuStep
<1>4. CASE Watching!togglePlay(t)
  <2>1. PICK g : Watching!Becomes(t, [tab[t] EXCEPT !.playing = g])
    BY <1>4, Zenon DEF Watching!togglePlay
  <2> DEFINE p == [tab[t] EXCEPT !.playing = g]
  <2>2. p.page = tab[t].page /\ p.direct = tab[t].direct /\ SameMenu(tab[t], p)
    BY <1>0, SetField DEF Keys, SameMenu
  <2> HIDE DEF p
  <2>3. Watching!Becomes(t, p)
    BY <2>1 DEF p
  <2> QED
    BY <2>2, <2>3, SameMenuStep
<1>5. CASE Watching!handleSeek(t)
  <2>1. PICK x : Watching!Becomes(t, [tab[t] EXCEPT !.pos = x])
    BY <1>5, Zenon DEF Watching!handleSeek
  <2> DEFINE p == [tab[t] EXCEPT !.pos = x]
  <2>2. p.page = tab[t].page /\ p.direct = tab[t].direct /\ SameMenu(tab[t], p)
    BY <1>0, SetField DEF Keys, SameMenu
  <2> HIDE DEF p
  <2>3. Watching!Becomes(t, p)
    BY <2>1 DEF p
  <2> QED
    BY <2>2, <2>3, SameMenuStep
<1>6. CASE Watching!setQuality(t)
  <2> DEFINE O == Watching!qualityOptions(tab[t].levels)
  <2>0. tab[t].levels \in Seq(Nat)
    BY <1>0 DEF Menu
  <2>1. PICK i, l : /\ Watching!Becomes(t, Chosen(tab[t], i, l))
                    /\ i = 0 \/ \E n \in 1..Len(O) : i = O[n].idx /\ l = O[n].label
    <3>1. PICK n \in 0..Watching!Len(O) :
             LET o == IF n = 0 THEN [idx |-> 0, label |-> 0] ELSE O[n]
             IN  Watching!Becomes(t, Chosen(tab[t], o.idx, o.label))
      BY <1>6, Zenon DEF Watching!setQuality, Chosen
    <3> QED
      BY <3>1
  <2>2. tab[t].page \in {"manifest", "ready"} /\ tab[t].levels # <<>>
    BY <1>6, Zenon DEF Watching!setQuality, Watching!Controls
  <2>3. i # 0 => i \in 1..Len(tab[t].levels) /\ tab[t].levels[i] = l
    BY <2>0, <2>1, OptionsAre
  <2> DEFINE p == Chosen(tab[t], i, l)
  <2>4. /\ p.page = tab[t].page /\ p.direct = tab[t].direct /\ p.levels = tab[t].levels
        /\ p.held = i /\ p.pressed = l
    BY <1>0, SetChosen DEF Kept
  <2> HIDE DEF p
  <2>5. Menu(master, p, Watching!Cap(t))
    BY <1>0, <2>2, <2>3, <2>4 DEF Menu
  <2>6. mount[t] \notin inits'[t]
    BY <2>2 DEF Menus, Asking
  <2>7. Watching!Becomes(t, p)
    BY <2>1 DEF p
  <2> QED
    BY <1>a, <2>5, <2>6, <2>7, MenusKept
<1> QED
  BY <1>1, <1>2, <1>3, <1>4, <1>5, <1>6

LEMMA MenusStep == WInv /\ Menus /\ [Watching!Next]_(Watching!vars) => Menus'
<1> SUFFICES ASSUME WInv, Menus, [Watching!Next]_(Watching!vars) PROVE Menus'
  OBVIOUS
<1>m. UNCHANGED master
  BY Zenon DEF Watching!Next, Watching!vars, Watching!SessionChanges, Watching!LoadsVideo,
     Watching!VideoLoaded, Watching!VideoFails, Watching!Open, Watching!Close, Watching!ManifestParsed,
     Watching!FatalError, Watching!Moves, Watching!togglePlay, Watching!handleSeek, Watching!setQuality,
     Watching!Heartbeat, Watching!InitGoesOn, Watching!InitThrows, Watching!savePosition,
     Watching!LoseHeartbeat, Watching!OnlyTabs, Watching!OnlyPage, Watching!OnlyPlayer
<1>0. CASE UNCHANGED <<mount, tab, inits>>
  BY <1>m, <1>0 DEF Menus, Asking
<1>1. ASSUME NEW t \in Watching!Tabs,
             Watching!LoadsVideo(t) \/ Watching!VideoFails(t) \/ Watching!Close(t)
      PROVE  Menus'
  <2>1. PICK p : /\ p = Watching!Unmounted(t) \/ p = [Watching!Unmounted(t) EXCEPT !.page = "waits"]
                 /\ Watching!Becomes(t, p)
    BY <1>1, Zenon DEF Watching!LoadsVideo, Watching!VideoFails, Watching!Close
  <2>2. UNCHANGED <<mount, inits>>
    BY <1>1, Zenon DEF Watching!LoadsVideo, Watching!VideoFails, Watching!Close, Watching!OnlyPage
  <2>3. Menu(master, p, Watching!Cap(t)) /\ p.page \in {"away", "waits", "loading"}
    BY <2>1, UnmountedMenu
  <2>4. \A u \in Watching!Tabs : inits'[u] \subseteq inits[u]
    BY <2>2
  <2> QED
    BY <1>m, <2>1, <2>2, <2>3, <2>4, MenusKept
<1>2. ASSUME NEW t \in Watching!Tabs, Watching!VideoLoaded(t) PROVE Menus'
  <2>1. CASE tab[t].page = "waits" /\ Watching!MountsPlayer(t)
    BY <1>m, <2>1, MountsMenu
  <2>2. CASE UNCHANGED <<mount, inits, tab>>
    BY <1>0, <2>2
  <2> QED
    BY <1>2, <2>1, <2>2, Zenon DEF Watching!VideoLoaded
<1>3. ASSUME NEW t \in Watching!Tabs, Watching!Open(t) PROVE Menus'
  <2>1. tab[t].page = "away" /\ Watching!MountsPlayer(t)
    BY <1>3, Zenon DEF Watching!Open
  <2> QED
    BY <1>m, <2>1, MountsMenu
<1>4. ASSUME NEW t \in Watching!Tabs,
             \/ Watching!ManifestParsed(t) \/ Watching!FatalError(t) \/ Watching!Moves(t)
             \/ Watching!togglePlay(t) \/ Watching!handleSeek(t) \/ Watching!setQuality(t)
      PROVE  Menus'
  <2>1. UNCHANGED <<mount, inits>>
    BY <1>4, Zenon DEF Watching!ManifestParsed, Watching!FatalError, Watching!Moves, Watching!togglePlay,
       Watching!handleSeek, Watching!setQuality, Watching!OnlyPlayer
  <2> QED
    BY <1>m, <1>4, <2>1, PlayingMenu
<1>5. ASSUME NEW t \in Watching!Tabs, NEW m \in Watching!Mounts,
             Watching!InitGoesOn(t, m) \/ Watching!InitThrows(t, m)
      PROVE  Menus'
  BY <1>m, <1>5, InitMenu
<1>6. ASSUME \/ Watching!SessionChanges
             \/ \E t \in Watching!Tabs : Watching!Heartbeat(t)
             \/ \E b \in Watching!AllBeats : Watching!savePosition(b) \/ Watching!LoseHeartbeat(b)
             \/ UNCHANGED Watching!vars
      PROVE  UNCHANGED <<mount, tab, inits>>
  BY <1>6, Zenon DEF Watching!SessionChanges, Watching!Heartbeat, Watching!savePosition,
                     Watching!LoseHeartbeat, Watching!vars
<1> QED
  BY <1>0, <1>1, <1>2, <1>3, <1>4, <1>5, <1>6, Zenon DEF Watching!Next

\* Whatever the playlist, when a player is ready its levels are the variants up to the cap of its
\* tier, all of them and no other, and it is held at the level whose label was pressed last.
THEOREM OfferedWithinCap ==
  ASSUME Watching!Playlists
  PROVE  Watching!Spec => []Watching!WithinCap
<1>1. Menus => Watching!WithinCap
  BY DEF Menus, Menu, Watching!WithinCap
<1>2. Watching!Init => Menus
  BY MenusInit
<1> QED
  BY <1>1, <1>2, MenusStep, WInvInit, WInvStep, PTL DEF Watching!Spec

=============================================================================
