----------------------------- MODULE LiveSession -----------------------------
(***************************************************************************)
(* The life of a live session in live-service: from the on_publish hook of *)
(* nginx-rtmp (or a browser socket) that creates it, through its encoder,  *)
(* to the replay that finalizeVod builds, registers and announces.         *)
(*                                                                         *)
(* live-service is one Node process.  A handler runs without interruption  *)
(* up to its next await, so one action stands for the code between two     *)
(* awaits, the database or remote call it waits for included.  The threads *)
(* of control that interleave are                                          *)
(*   - one hook per connection attempt of a broadcaster (Publishers),      *)
(*   - one close handler per encoder, named by the session it encodes,     *)
(*   - the sweeper, the retry job and the recovery of a boot, each of      *)
(*     which calls finalizeVod on one session after the other.             *)
(*                                                                         *)
(* Abstractions: segments are counted, not named, and a session has one    *)
(* rendition; a failing call has no effect unless its action says so.      *)
(***************************************************************************)
EXTENDS Naturals, FiniteSets

CONSTANTS
  Keys,         \* stream keys
  Sessions,     \* ids of live_sessions rows
  Publishers,   \* connection attempts of broadcasters
  Sweeps,       \* sweepStale runs that may overlap
  Retries,      \* retryStitchFailed runs that may overlap
  Recover,      \* the recoverOnStartup of the current process
  NoKey, NoSession,
  Attempts,     \* attempts registerReplay makes (5 in the code)
  MaxSegs,      \* bound: segments of one session
  MaxFaults,    \* bound: failing calls
  MaxCrashes,   \* bound: process crashes not caused by a failing call
  Faults,       \* the kinds of call that may fail
  Env           \* the optional events that may happen

FaultKinds == {"db", "s3", "video", "bus", "nginx", "launch"}
EnvEvents == {"revoke", "forceEnd", "browser", "quiet", "cap", "encoderCrash"}

Jobs == Sweeps \cup Retries \cup {Recover}
Threads == Sessions \cup Jobs

ASSUME ConstantsAssumption ==
  /\ Sessions \cap Jobs = {}
  /\ Sweeps \cap Retries = {}
  /\ Recover \notin Sweeps \cup Retries
  /\ NoKey \notin Keys
  /\ NoSession \notin Sessions
  /\ Attempts \in Nat \ {0}
  /\ MaxSegs \in Nat /\ MaxFaults \in Nat /\ MaxCrashes \in Nat
  /\ Faults \subseteq FaultKinds
  /\ Env \subseteq EnvEvents

VARIABLES
  \* PostgreSQL: stream_keys and live_sessions (segs counts live_segments rows,
  \* quiet says that last_segment_at is older than STALE_SECONDS)
  keyState, status, keyOf, segs, quiet,
  \* the replay's segments in S3, the videos in video-service, live.ended in Kafka
  replay, videos, announced,
  \* per session: its FFmpeg child (eof: its input has ended, term: SIGTERM sent),
  \* the restarted flag of its entry, its last exit code, the segments the child
  \* has written, numbered from 0, and those of them not uploaded yet
  enc, restarted, code, made, local,
  \* sessions whose encoder reads from a browser socket
  web,
  \* per thread: its place, the session it finalizes, the rest of a job's list,
  \* the segments finalizeVod has read, the failed attempts of registerReplay
  pc, cur, todo, snap, tries,
  \* per broadcaster: its connection and hook, its key, the session it created
  hook, hookKey, hookSess,
  up, jobsOn,        \* the process runs; startBackgroundJobs has run
  revoking, forced,  \* revocations half done; sessions an admin has ended
  gone,              \* sockets that have disconnected before startBroadcast was over
  faults, crashes

rowVars == <<status, keyOf, segs, quiet>>
outVars == <<replay, videos, announced>>
encVars == <<enc, restarted, code, made, local, web>>
thrVars == <<pc, cur, todo, snap, tries>>
hookVars == <<hook, hookKey, hookSess>>
process == <<up, jobsOn>>
requests == <<revoking, forced, gone>>
bounds == <<faults, crashes>>
vars == <<keyState, rowVars, outVars, encVars, thrVars, hookVars, process,
          requests, bounds>>

Statuses == {"none", "live", "stitching", "ended", "stitch_failed"}
\* finalizeVod past its beginStitching, in the order of the code
Building == {"segments", "empty", "playlists", "register", "mark"}
Finalizing == Building \cup {"announce", "fail"}
ThreadPCs == {"idle", "flush", "isLive", "restart", "list", "next", "begin"}
               \cup Finalizing
Answering == {"findKey", "findActive", "create", "launch", "accept",
              "mintKey", "webCreate", "webLaunch"}
HookPCs == Answering \cup {"idle", "streaming", "left", "webcast", "over"}

RowTypes ==
  /\ status \in [Sessions -> Statuses]
  /\ keyOf \in [Sessions -> Keys \cup {NoKey}]
  /\ segs \in [Sessions -> Nat]
  /\ quiet \in [Sessions -> BOOLEAN]

OutTypes ==
  /\ replay \in [Sessions -> Nat]
  /\ videos \in [Sessions -> Nat]
  /\ announced \in [Sessions -> BOOLEAN]

EncTypes ==
  /\ enc \in [Sessions -> {"off", "run", "eof", "term"}]
  /\ restarted \in [Sessions -> BOOLEAN]
  /\ code \in [Sessions -> {"ok", "crash", "killed"}]
  /\ made \in [Sessions -> Nat] /\ local \in [Sessions -> Nat]
  /\ web \subseteq Sessions

ThreadTypes ==
  /\ pc \in [Threads -> ThreadPCs]
  /\ cur \in [Threads -> Sessions \cup {NoSession}]
  /\ todo \in [Threads -> SUBSET Sessions]
  /\ snap \in [Threads -> Nat]
  /\ tries \in [Threads -> Nat]

HookTypes ==
  /\ keyState \in [Keys -> {"unborn", "active", "revoked"}]
  /\ hook \in [Publishers -> HookPCs]
  /\ hookKey \in [Publishers -> Keys \cup {NoKey}]
  /\ hookSess \in [Publishers -> Sessions \cup {NoSession}]

ProcessTypes ==
  /\ up \in BOOLEAN /\ jobsOn \in BOOLEAN
  /\ revoking \subseteq Keys /\ forced \subseteq Sessions /\ gone \subseteq Publishers
  /\ faults \in Nat /\ crashes \in Nat

TypeOK ==
  RowTypes /\ OutTypes /\ EncTypes /\ ThreadTypes /\ HookTypes /\ ProcessTypes

Init ==
  /\ keyState = [k \in Keys |-> "unborn"]
  /\ status = [s \in Sessions |-> "none"]
  /\ keyOf = [s \in Sessions |-> NoKey]
  /\ segs = [s \in Sessions |-> 0]
  /\ quiet = [s \in Sessions |-> FALSE]
  /\ replay = [s \in Sessions |-> 0]
  /\ videos = [s \in Sessions |-> 0]
  /\ announced = [s \in Sessions |-> FALSE]
  /\ enc = [s \in Sessions |-> "off"]
  /\ restarted = [s \in Sessions |-> FALSE]
  /\ code = [s \in Sessions |-> "ok"]
  /\ made = [s \in Sessions |-> 0] /\ local = [s \in Sessions |-> 0]
  /\ web = {}
  /\ pc = [t \in Threads |-> "idle"]
  /\ cur = [t \in Threads |-> NoSession]
  /\ todo = [t \in Threads |-> {}]
  /\ snap = [t \in Threads |-> 0]
  /\ tries = [t \in Threads |-> 0]
  /\ hook = [p \in Publishers |-> "idle"]
  /\ hookKey = [p \in Publishers |-> NoKey]
  /\ hookSess = [p \in Publishers |-> NoSession]
  /\ up = FALSE /\ jobsOn = FALSE
  /\ revoking = {} /\ forced = {} /\ gone = {}
  /\ faults = 0 /\ crashes = 0

-----------------------------------------------------------------------------
(* Faults, crashes and restarts of the process *)

\* A call of kind f fails, once more within the bound.
Fault(f) == f \in Faults /\ faults < MaxFaults /\ faults' = faults + 1

\* The process ends: its threads, its timers, its maps and its FFmpeg children
\* are gone, and nginx-rtmp gets no answer to the hooks in flight.  Segments not
\* uploaded yet stay in scratch, where no later process looks for them.
Die ==
  /\ up' = FALSE /\ jobsOn' = FALSE
  /\ pc' = [t \in Threads |-> "idle"]
  /\ cur' = [t \in Threads |-> NoSession]
  /\ todo' = [t \in Threads |-> {}]
  /\ snap' = [t \in Threads |-> 0]
  /\ tries' = [t \in Threads |-> 0]
  /\ enc' = [s \in Sessions |-> "off"]
  /\ restarted' = [s \in Sessions |-> FALSE]
  /\ code' = [s \in Sessions |-> "ok"]
  /\ made' = [s \in Sessions |-> 0] /\ local' = [s \in Sessions |-> 0]
  /\ hook' = [p \in Publishers |->
                IF hook[p] \in Answering \cup {"webcast"} THEN "over" ELSE hook[p]]
  /\ revoking' = {}
  /\ UNCHANGED <<web, hookKey, hookSess>>

\* SIGKILL, an out-of-memory kill, or the SIGTERM of a deployment: shutdown does
\* not wait for encoders or for finalizes.
Crash ==
  /\ up /\ crashes < MaxCrashes
  /\ crashes' = crashes + 1
  /\ Die
  /\ UNCHANGED <<keyState, rowVars, outVars, forced, gone, faults>>

\* start: the HTTP server listens before recoverOnStartup runs.
Boot ==
  /\ ~up
  /\ up' = TRUE
  /\ pc' = [pc EXCEPT ![Recover] = "list"]
  /\ UNCHANGED <<keyState, rowVars, outVars, encVars, cur, todo, snap, tries,
                 hookVars, jobsOn, requests, bounds>>

-----------------------------------------------------------------------------
(* sessions.repo and ffmpeg.service, as the handlers use them *)

LiveOn(k) == {s \in Sessions : status[s] = "live" /\ keyOf[s] = k}

\* Slip: no unique index behind the check that on_publish has made.
CreateRowUnchecked(s, k) ==
  /\ status[s] = "none"
  /\ status' = [status EXCEPT ![s] = "live"]
  /\ keyOf' = [keyOf EXCEPT ![s] = k]
  /\ UNCHANGED <<segs, quiet>>

\* INSERT of a session row, refused by the unique index on live keys.
CreateRow(s, k) ==
  /\ status[s] = "none"
  /\ LiveOn(k) = {}
  /\ status' = [status EXCEPT ![s] = "live"]
  /\ keyOf' = [keyOf EXCEPT ![s] = k]
  /\ UNCHANGED <<segs, quiet>>

SetStatus(s, st) ==
  /\ status' = [status EXCEPT ![s] = st]
  /\ UNCHANGED <<keyOf, segs, quiet>>

\* A browser feeds its own encoder, an RTMP broadcaster those that pull its key.
Feeds(p, s) ==
  \/ hook[p] = "webcast" /\ hookSess[p] = s
  \/ hook[p] = "streaming" /\ hookKey[p] = keyOf[s] /\ s \notin web

\* A new FFmpeg child with its entry in the active map: it may be restarted
\* once, unless it is the restart or reads from a browser.  It numbers its
\* segments from 0 again.
Launch(s, isRestart) ==
  /\ enc' = [enc EXCEPT ![s] = "run"]
  /\ restarted' = [restarted EXCEPT ![s] = isRestart]
  /\ made' = [made EXCEPT ![s] = 0]
  /\ UNCHANGED <<code, local>>

\* SIGTERM to the child of s, if the active map has an entry for it.
Stopped(s) == IF enc[s] = "off" THEN "off" ELSE "term"

\* What runSync does with the segments on disk: upload, index, touch.  A segment
\* with the number of an indexed one adds no row (ON CONFLICT DO NOTHING).
Sync(s) ==
  /\ segs' = [segs EXCEPT ![s] = IF local[s] > 0 /\ made[s] > @ THEN made[s] ELSE @]
  /\ quiet' = [quiet EXCEPT ![s] = @ /\ local[s] = 0]
  /\ local' = [local EXCEPT ![s] = 0]

-----------------------------------------------------------------------------
(* Stream keys, and what broadcasters and admins ask for *)

CreateStreamKey(k) ==
  /\ up /\ keyState[k] = "unborn"
  /\ keyState' = [keyState EXCEPT ![k] = "active"]
  /\ UNCHANGED <<rowVars, outVars, encVars, thrVars, hookVars, process, requests,
                 bounds>>

\* The broadcasters in P lose their connection: FFmpeg reads the end of its
\* input, and nginx-rtmp owes an on_publish_done for the RTMP ones.
Disconnect(P) ==
  /\ hook' = [p \in Publishers |->
                IF p \notin P THEN hook[p]
                ELSE IF hook[p] = "webcast" THEN "over" ELSE "left"]
  /\ enc' = [s \in Sessions |->
               IF enc[s] = "run" /\ \E p \in P : Feeds(p, s) THEN "eof" ELSE enc[s]]

PublisherLeaves(p) ==
  /\ hook[p] \in {"streaming", "webcast"}
  /\ Disconnect({p})
  /\ UNCHANGED <<keyState, rowVars, outVars, restarted, code, made, local, web,
                 thrVars, hookKey, hookSess, process, requests, bounds>>

\* nginx-rtmp's drop/publisher: best effort, and blind to browser sockets.
DropPublisher(k) ==
  \/ /\ Disconnect({p \in Publishers : hook[p] = "streaming" /\ hookKey[p] = k})
     /\ UNCHANGED faults
  \/ Fault("nginx") /\ UNCHANGED <<hook, enc>>

\* revokeStreamKey commits is_active = FALSE, then looks for a live session.
RevokeKey(k) ==
  /\ up /\ "revoke" \in Env
  /\ keyState[k] = "active"
  /\ keyState' = [keyState EXCEPT ![k] = "revoked"]
  /\ revoking' = revoking \cup {k}
  /\ UNCHANGED <<rowVars, outVars, encVars, thrVars, hookVars, process, forced, gone,
                 bounds>>

RevokeKick(k) ==
  /\ up /\ k \in revoking
  /\ revoking' = revoking \ {k}
  /\ IF LiveOn(k) = {} THEN UNCHANGED <<hook, enc, faults>> ELSE DropPublisher(k)
  /\ UNCHANGED <<keyState, rowVars, outVars, restarted, code, made, local, web,
                 thrVars, hookKey, hookSess, process, forced, gone, crashes>>

ForceEnd(s) ==
  /\ up /\ "forceEnd" \in Env
  /\ status[s] = "live" /\ s \notin forced
  /\ forced' = forced \cup {s}
  /\ DropPublisher(keyOf[s])
  /\ UNCHANGED <<keyState, rowVars, outVars, restarted, code, made, local, web,
                 thrVars, hookKey, hookSess, process, revoking, gone,
                 crashes>>

-----------------------------------------------------------------------------
(* on_publish: one action per await of the handler *)

\* The hook of p goes on at its next await, or ends.
HookAt(p, at) == hook' = [hook EXCEPT ![p] = at]

Publish(p, k) ==
  /\ up /\ hook[p] = "idle"
  /\ keyState[k] # "unborn"
  /\ HookAt(p, "findKey")
  /\ hookKey' = [hookKey EXCEPT ![p] = k]
  /\ UNCHANGED <<keyState, rowVars, outVars, encVars, thrVars, hookSess, process,
                 requests, bounds>>

OnPublishFindKey(p) ==
  /\ hook[p] = "findKey"
  /\ HookAt(p, IF keyState[hookKey[p]] = "active" THEN "findActive" ELSE "over")
  /\ UNCHANGED <<keyState, rowVars, outVars, encVars, thrVars, hookKey, hookSess,
                 process, requests, bounds>>

OnPublishFindActive(p) ==
  /\ hook[p] = "findActive"
  /\ HookAt(p, IF LiveOn(hookKey[p]) = {} THEN "create" ELSE "over")
  /\ UNCHANGED <<keyState, rowVars, outVars, encVars, thrVars, hookKey, hookSess,
                 process, requests, bounds>>

\* The hook or the browser socket p inserts its session, or fails on the index.
CreateSession(p, next) ==
  /\ \/ \E s \in Sessions :
          /\ CreateRow(s, hookKey[p])
          /\ HookAt(p, next)
          /\ hookSess' = [hookSess EXCEPT ![p] = s]
     \/ /\ LiveOn(hookKey[p]) # {}
        /\ HookAt(p, "over")
        /\ UNCHANGED <<rowVars, hookSess>>
  /\ UNCHANGED <<keyState, outVars, encVars, thrVars, hookKey, process, requests,
                 bounds>>

OnPublishCreate(p) == hook[p] = "create" /\ CreateSession(p, "launch")

\* ffmpeg.start: mkdirSync and spawn may throw, and then the handler answers 500
\* for a session whose row stays live.
OnPublishLaunch(p) ==
  /\ hook[p] = "launch"
  /\ \/ Launch(hookSess[p], FALSE) /\ HookAt(p, "accept") /\ UNCHANGED faults
     \/ /\ Fault("launch") /\ HookAt(p, "over")
        /\ UNCHANGED <<enc, restarted, code, made, local>>
  /\ UNCHANGED <<keyState, rowVars, outVars, web, thrVars, hookKey, hookSess,
                 process, requests, crashes>>

\* The 2xx reply reaches nginx-rtmp, which accepts the broadcaster unless its
\* short timeout has expired.
NginxAccepts(p) ==
  /\ hook[p] = "accept"
  /\ \/ HookAt(p, "streaming") /\ UNCHANGED faults
     \/ Fault("nginx") /\ HookAt(p, "over")
  /\ UNCHANGED <<keyState, rowVars, outVars, encVars, thrVars, hookKey, hookSess,
                 process, requests, crashes>>

\* on_publish_done looks the session up by stream key and stops its encoder.
OnPublishDone(p) ==
  /\ up /\ hook[p] = "left"
  /\ HookAt(p, "over")
  /\ enc' = [s \in Sessions |->
               IF s \in LiveOn(hookKey[p]) THEN Stopped(s) ELSE enc[s]]
  /\ UNCHANGED <<keyState, rowVars, outVars, restarted, code, made, local, web,
                 thrVars, hookKey, hookSess, process, requests, bounds>>

\* A database call of a hook or of startBroadcast fails: nginx-rtmp gets a 500 and
\* rejects the broadcaster, and on_publish_done stops no encoder.
HookFails(p) ==
  /\ up
  /\ hook[p] \in {"findKey", "findActive", "create", "mintKey", "webCreate", "left"}
  /\ Fault("db")
  /\ HookAt(p, "over")
  /\ UNCHANGED <<keyState, rowVars, outVars, encVars, thrVars, hookKey, hookSess,
                 process, requests, crashes>>

\* nginx-rtmp does not repeat the hook when nobody answers.
PublishDoneLost(p) ==
  /\ ~up /\ hook[p] = "left"
  /\ HookAt(p, "over")
  /\ UNCHANGED <<keyState, rowVars, outVars, encVars, thrVars, hookKey, hookSess,
                 process, requests, bounds>>

-----------------------------------------------------------------------------
(* startBroadcast: a browser socket mints its own key and creates a session *)

BrowserConnects(p) ==
  /\ up /\ "browser" \in Env
  /\ hook[p] = "idle"
  /\ HookAt(p, "mintKey")
  /\ UNCHANGED <<keyState, rowVars, outVars, encVars, thrVars, hookKey, hookSess,
                 process, requests, bounds>>

BroadcastMintsKey(p) ==
  /\ hook[p] = "mintKey"
  /\ \E k \in Keys :
       /\ keyState[k] = "unborn"
       /\ keyState' = [keyState EXCEPT ![k] = "active"]
       /\ hookKey' = [hookKey EXCEPT ![p] = k]
  /\ HookAt(p, "webCreate")
  /\ UNCHANGED <<rowVars, outVars, encVars, thrVars, hookSess, process, requests,
                 bounds>>

BroadcastCreate(p) == hook[p] = "webCreate" /\ CreateSession(p, "webLaunch")

\* The handlers of 'stop' and 'disconnect' are attached only after the launch: a
\* socket that disconnects before it never ends the input of its encoder.
BrowserDrops(p) ==
  /\ hook[p] \in {"mintKey", "webCreate", "webLaunch"} /\ p \notin gone
  /\ gone' = gone \cup {p}
  /\ UNCHANGED <<keyState, rowVars, outVars, encVars, thrVars, hookVars, process,
                 revoking, forced, bounds>>

BroadcastLaunch(p) ==
  /\ hook[p] = "webLaunch"
  /\ \/ /\ Launch(hookSess[p], TRUE)
        /\ web' = web \cup {hookSess[p]}
        /\ HookAt(p, IF p \in gone THEN "over" ELSE "webcast")
        /\ UNCHANGED faults
     \/ /\ Fault("launch") /\ HookAt(p, "over")
        /\ UNCHANGED encVars
  /\ UNCHANGED <<keyState, rowVars, outVars, thrVars, hookKey, hookSess, process,
                 requests, crashes>>

-----------------------------------------------------------------------------
(* The encoder and its segment-sync loop *)

Encode(s) ==
  /\ enc[s] = "run" /\ \E p \in Publishers : Feeds(p, s)
  /\ made[s] < MaxSegs
  /\ made' = [made EXCEPT ![s] = @ + 1]
  /\ local' = [local EXCEPT ![s] = @ + 1]
  /\ UNCHANGED <<keyState, rowVars, outVars, enc, restarted, code, web, thrVars,
                 hookVars, process, requests, bounds>>

\* A tick that fails is logged and changes nothing here.
SyncTick(s) ==
  /\ enc[s] # "off" /\ local[s] > 0
  /\ Sync(s)
  /\ UNCHANGED <<keyState, status, keyOf, outVars, enc, restarted, code, made, web,
                 thrVars, hookVars, process, requests, bounds>>

\* STALE_SECONDS pass without an uploaded segment.
GoQuiet(s) ==
  /\ "quiet" \in Env
  /\ status[s] = "live" /\ segs[s] > 0 /\ ~quiet[s]
  /\ quiet' = [quiet EXCEPT ![s] = TRUE]
  /\ UNCHANGED <<keyState, status, keyOf, segs, outVars, encVars, thrVars,
                 hookVars, process, requests, bounds>>

\* MAX_STREAM_DURATION_HOURS after the launch.
KillTimer(s) ==
  /\ "cap" \in Env
  /\ enc[s] \in {"run", "eof"}
  /\ enc' = [enc EXCEPT ![s] = "term"]
  /\ UNCHANGED <<keyState, rowVars, outVars, restarted, code, made, local, web,
                 thrVars, hookVars, process, requests, bounds>>

\* The 'close' event: the exit code is 0 only at the end of the input.  The entry
\* leaves the active map and stopLoop begins.
EncoderCloses(s) ==
  /\ \/ enc[s] \in {"eof", "term"}
     \/ enc[s] = "run" /\ "encoderCrash" \in Env
  /\ enc' = [enc EXCEPT ![s] = "off"]
  /\ code' = [code EXCEPT ![s] = CASE enc[s] = "eof"  -> "ok"
                                   [] enc[s] = "term" -> "killed"
                                   [] OTHER -> "crash"]
  /\ pc' = [pc EXCEPT ![s] = "flush"]
  /\ UNCHANGED <<keyState, rowVars, outVars, restarted, made, local, web, cur,
                 todo, snap, tries, hookVars, process, requests, bounds>>

\* The final flush.  Nothing catches a rejection of the close handler, which ends
\* the process: here, in isLive and in the database calls of finalizeVod.
StopLoop(s) ==
  /\ pc[s] = "flush"
  /\ \/ /\ Sync(s)
        /\ pc' = [pc EXCEPT ![s] = "isLive"]
        /\ UNCHANGED <<process, cur, todo, snap, tries, enc, restarted, code, made,
                       web, hookVars, revoking, faults>>
     \/ Fault("s3") /\ Die /\ UNCHANGED <<segs, quiet>>
  /\ UNCHANGED <<keyState, status, keyOf, outVars, forced, gone, crashes>>

\* Slip: nothing remembers that the encoder has been restarted already.
MayRestartAlways(s) == code[s] # "ok" /\ status[s] = "live"

MayRestart(s) == code[s] # "ok" /\ status[s] = "live" /\ ~restarted[s]

\* The restart is decided on the status read here and carried out after the await.
CheckLive(s) ==
  /\ pc[s] = "isLive"
  /\ \/ /\ pc' = [pc EXCEPT ![s] = IF MayRestart(s) THEN "restart" ELSE "begin"]
        /\ cur' = [cur EXCEPT ![s] = s]
        /\ UNCHANGED <<process, todo, snap, tries, encVars, hookVars, revoking,
                       faults>>
     \/ Fault("db") /\ Die
  /\ UNCHANGED <<keyState, rowVars, outVars, forced, gone, crashes>>

Restart(s) ==
  /\ pc[s] = "restart"
  /\ \/ /\ Launch(s, TRUE)
        /\ pc' = [pc EXCEPT ![s] = "idle"]
        /\ cur' = [cur EXCEPT ![s] = NoSession]
        /\ UNCHANGED <<process, todo, snap, tries, web, hookVars, revoking, faults>>
     \/ Fault("launch") /\ Die
  /\ UNCHANGED <<keyState, rowVars, outVars, forced, gone, crashes>>

-----------------------------------------------------------------------------
(* finalizeVod, run by thread t on session cur[t] *)

Goto(t, at) == pc' = [pc EXCEPT ![t] = at]

\* finalizeVod returns to the close handler, which ends, or to a job's loop.
Return(t) ==
  /\ Goto(t, IF t \in Sessions THEN "idle" ELSE "next")
  /\ cur' = [cur EXCEPT ![t] = NoSession]
  /\ snap' = [snap EXCEPT ![t] = 0]
  /\ tries' = [tries EXCEPT ![t] = 0]
  /\ UNCHANGED todo

\* finalizeVod rejects: the sweeper and the retry job log it and give up their
\* list, the recovery of a boot exits the process, a close handler takes it down.
Throw(t) ==
  IF t \in Sweeps \cup Retries
  THEN /\ Goto(t, "idle")
       /\ cur' = [cur EXCEPT ![t] = NoSession]
       /\ todo' = [todo EXCEPT ![t] = {}]
       /\ snap' = [snap EXCEPT ![t] = 0]
       /\ tries' = [tries EXCEPT ![t] = 0]
       /\ UNCHANGED <<process, encVars, hookVars, revoking>>
  ELSE Die

\* A step of finalizeVod touches the rest of the process only when it throws.
Quietly == UNCHANGED <<process, encVars, hookVars, revoking, faults>>

\* Slip: a session being stitched may be claimed again.
CanStitchAgain(s) == status[s] \in {"live", "stitching", "stitch_failed"}

\* The atomic UPDATE ... WHERE status IN ('live', 'stitch_failed').
CanStitch(s) == status[s] \in {"live", "stitch_failed"}

BeginStitching(t) ==
  /\ pc[t] = "begin"
  /\ \/ /\ CanStitch(cur[t])
        /\ SetStatus(cur[t], "stitching")
        /\ Goto(t, "segments")
        /\ UNCHANGED <<cur, todo, snap, tries>> /\ Quietly
     \/ ~CanStitch(cur[t]) /\ Return(t) /\ UNCHANGED rowVars /\ Quietly
     \/ Fault("db") /\ Throw(t) /\ UNCHANGED rowVars
  /\ UNCHANGED <<keyState, outVars, forced, gone, crashes>>

ReadSegments(t) ==
  /\ pc[t] = "segments"
  /\ \/ /\ segs[cur[t]] = 0 /\ Goto(t, "empty")
        /\ UNCHANGED <<snap, faults>>
     \/ /\ segs[cur[t]] > 0 /\ Goto(t, "playlists")
        /\ snap' = [snap EXCEPT ![t] = segs[cur[t]]]
        /\ UNCHANGED faults
     \/ Fault("db") /\ Goto(t, "fail") /\ UNCHANGED snap
  /\ UNCHANGED <<keyState, rowVars, outVars, encVars, cur, todo, tries, hookVars,
                 process, requests, crashes>>

\* Slip: a session without segments gets a status that no row may have.
MarkEmptyErrored(t) ==
  /\ pc[t] = "empty"
  /\ SetStatus(cur[t], "error") /\ Return(t)
  /\ UNCHANGED <<keyState, outVars, encVars, hookVars, process, requests, bounds>>

\* Slip: no return after the session without segments is marked.
MarkEmptyGoesOn(t) ==
  /\ pc[t] = "empty"
  /\ SetStatus(cur[t], "stitch_failed") /\ Goto(t, "playlists")
  /\ UNCHANGED <<keyState, outVars, encVars, cur, todo, snap, tries, hookVars, process,
                 requests, bounds>>

\* Nothing was captured: markStitchFailed inside the try.
MarkEmpty(t) ==
  /\ pc[t] = "empty"
  /\ \/ SetStatus(cur[t], "stitch_failed") /\ Return(t) /\ UNCHANGED faults
     \/ /\ Fault("db") /\ Goto(t, "fail")
        /\ UNCHANGED <<rowVars, cur, todo, snap, tries>>
  /\ UNCHANGED <<keyState, outVars, encVars, hookVars, process, requests, crashes>>

\* The media playlist, the master playlist and totalDuration: the second or the
\* third may fail after the first has replaced the replay.
PutPlaylists(t) ==
  /\ pc[t] = "playlists"
  /\ \/ /\ replay' = [replay EXCEPT ![cur[t]] = snap[t]]
        /\ \/ Goto(t, "register") /\ UNCHANGED faults
           \/ Goto(t, "fail") /\ (Fault("s3") \/ Fault("db"))
     \/ Fault("s3") /\ Goto(t, "fail") /\ UNCHANGED replay
  /\ UNCHANGED <<keyState, rowVars, videos, announced, encVars, cur, todo, snap,
                 tries, hookVars, process, requests, crashes>>

\* from_live: get_or_create on live_session_id.
FromLive(s) == videos' = [videos EXCEPT ![s] = IF @ = 0 THEN 1 ELSE @]

\* Slip: after its last attempt registerReplay returns instead of throwing.
AfterFailedAttemptReturns(t) == IF tries[t] + 1 < Attempts THEN "register" ELSE "mark"

\* The next attempt of registerReplay, or the error of the last one.
AfterFailedAttempt(t) == IF tries[t] + 1 < Attempts THEN "register" ELSE "fail"

\* One attempt of registerReplay.  A failed attempt may have reached
\* video-service, its reply lost.
Register(t) ==
  /\ pc[t] = "register"
  /\ \/ FromLive(cur[t]) /\ Goto(t, "mark") /\ UNCHANGED <<tries, faults>>
     \/ /\ Fault("video")
        /\ FromLive(cur[t]) \/ UNCHANGED videos
        /\ Goto(t, AfterFailedAttempt(t))
        /\ tries' = [tries EXCEPT ![t] = @ + 1]
  /\ UNCHANGED <<keyState, rowVars, replay, announced, encVars, cur, todo, snap,
                 hookVars, process, requests, crashes>>

MarkEnded(t) ==
  /\ pc[t] = "mark"
  /\ \/ SetStatus(cur[t], "ended") /\ Goto(t, "announce") /\ UNCHANGED faults
     \/ Fault("db") /\ Goto(t, "fail") /\ UNCHANGED rowVars
  /\ UNCHANGED <<keyState, outVars, encVars, cur, todo, snap, tries, hookVars,
                 process, requests, crashes>>

\* clearViewers and publishLiveEnded, still inside the try: a failing Redis or
\* Kafka sends an ended session to the catch, the event published or not.
Announce(t) ==
  /\ pc[t] = "announce"
  /\ \/ /\ announced' = [announced EXCEPT ![cur[t]] = TRUE]
        /\ Return(t)
        /\ UNCHANGED faults
     \/ /\ Fault("bus") /\ Goto(t, "fail")
        /\ UNCHANGED announced \/ announced' = [announced EXCEPT ![cur[t]] = TRUE]
        /\ UNCHANGED <<cur, todo, snap, tries>>
  /\ UNCHANGED <<keyState, rowVars, replay, videos, encVars, hookVars, process,
                 requests, crashes>>

\* The catch: markStitchFailed, whatever the status is by now.
MarkStitchFailed(t) ==
  /\ pc[t] = "fail"
  /\ \/ SetStatus(cur[t], "stitch_failed") /\ Return(t) /\ Quietly
     \/ Fault("db") /\ Throw(t) /\ UNCHANGED rowVars
  /\ UNCHANGED <<keyState, outVars, forced, gone, crashes>>

FinalizeStep(t) ==
  \/ BeginStitching(t) \/ ReadSegments(t) \/ MarkEmpty(t) \/ PutPlaylists(t)
  \/ Register(t) \/ MarkEnded(t) \/ Announce(t) \/ MarkStitchFailed(t)

-----------------------------------------------------------------------------
(* The jobs: recoverOnStartup, sweepStale and retryStitchFailed *)

\* A job reads its list, empty lists aside: they leave everything as it is.
StartList(t, S) ==
  /\ S # {}
  /\ todo' = [todo EXCEPT ![t] = S]
  /\ Goto(t, "next")
  /\ UNCHANGED <<keyState, rowVars, outVars, encVars, cur, snap, tries, hookVars,
                 process, requests, bounds>>

\* Thread t takes s off its list and calls finalizeVod on it.
Finalize(t, s) ==
  /\ todo' = [todo EXCEPT ![t] = @ \ {s}]
  /\ cur' = [cur EXCEPT ![t] = s]
  /\ Goto(t, "begin")

\* The sessions this list misses are left to the next boot.
RecoverList ==
  /\ pc[Recover] = "list"
  /\ \/ /\ todo' = [todo EXCEPT ![Recover] = {s \in Sessions : status[s] = "live"}]
        /\ Goto(Recover, "next")
        /\ UNCHANGED <<cur, snap, tries>> /\ Quietly
     \/ Fault("db") /\ Die
  /\ UNCHANGED <<keyState, rowVars, outVars, forced, gone, crashes>>

RecoverNext ==
  /\ pc[Recover] = "next"
  /\ \/ /\ todo[Recover] = {}
        /\ Goto(Recover, "idle")
        /\ jobsOn' = TRUE
        /\ UNCHANGED <<todo, cur>>
     \/ \E s \in todo[Recover] :
          /\ IF enc[s] = "off" THEN Finalize(Recover, s)
             ELSE /\ todo' = [todo EXCEPT ![Recover] = @ \ {s}]
                  /\ UNCHANGED <<pc, cur>>
          /\ UNCHANGED jobsOn
  /\ UNCHANGED <<keyState, rowVars, outVars, encVars, snap, tries, hookVars, up,
                 requests, bounds>>

SweepList(t) ==
  /\ jobsOn /\ pc[t] = "idle"
  /\ StartList(t, {s \in Sessions : status[s] = "live" /\ quiet[s]})

\* Slip: the retry job leaves out the sessions whose video is registered.
RetryListUnregistered(t) ==
  /\ jobsOn /\ pc[t] = "idle"
  /\ StartList(t, {s \in Sessions : status[s] = "stitch_failed" /\ videos[s] = 0})

RetryList(t) ==
  /\ jobsOn /\ pc[t] = "idle"
  /\ StartList(t, {s \in Sessions : status[s] = "stitch_failed"})

\* The next session of the list, by now perhaps in another state.  The sweeper
\* stops its encoder first.
JobNext(t) ==
  /\ pc[t] = "next"
  /\ \/ todo[t] = {} /\ Goto(t, "idle") /\ UNCHANGED <<todo, cur, enc>>
     \/ \E s \in todo[t] :
          /\ Finalize(t, s)
          /\ enc' = IF t \in Sweeps THEN [enc EXCEPT ![s] = Stopped(s)] ELSE enc
  /\ UNCHANGED <<keyState, rowVars, outVars, restarted, code, made, local, web,
                 snap, tries, hookVars, process, requests, bounds>>

-----------------------------------------------------------------------------
HookStep(p) ==
  \/ OnPublishFindKey(p) \/ OnPublishFindActive(p) \/ OnPublishCreate(p)
  \/ OnPublishLaunch(p) \/ NginxAccepts(p) \/ BroadcastMintsKey(p)
  \/ BroadcastCreate(p) \/ BroadcastLaunch(p) \/ OnPublishDone(p)

CloseStep(s) == StopLoop(s) \/ CheckLive(s) \/ Restart(s)

Next ==
  \/ Crash \/ Boot
  \/ \E k \in Keys : CreateStreamKey(k) \/ RevokeKey(k) \/ RevokeKick(k)
  \/ \E p \in Publishers :
       \/ HookStep(p) \/ HookFails(p) \/ BrowserConnects(p) \/ BrowserDrops(p)
       \/ PublisherLeaves(p) \/ PublishDoneLost(p)
       \/ \E k \in Keys : Publish(p, k)
  \/ \E s \in Sessions :
       \/ Encode(s) \/ SyncTick(s) \/ GoQuiet(s) \/ KillTimer(s) \/ EncoderCloses(s)
       \/ CloseStep(s) \/ ForceEnd(s)
  \/ \E t \in Threads : FinalizeStep(t)
  \/ RecoverList \/ RecoverNext
  \/ \E t \in Sweeps : SweepList(t) \/ JobNext(t)
  \/ \E t \in Retries : RetryList(t) \/ JobNext(t)

Spec == Init /\ [][Next]_vars

\* What the scheduling justifies: Kubernetes restarts the container, Node runs
\* every continuation and every timer (the sync loop, the jobs, the cap on the
\* duration), FFmpeg exits on SIGTERM or at the end of its input, and a session
\* nobody feeds goes quiet.  Broadcasters and admins need never act again.
FairSpec ==
  /\ Spec
  /\ WF_vars(Boot)
  /\ \A p \in Publishers : WF_vars(HookStep(p))
  /\ \A k \in Keys : WF_vars(RevokeKick(k))
  /\ \A s \in Sessions :
       /\ WF_vars(SyncTick(s)) /\ WF_vars(KillTimer(s)) /\ WF_vars(CloseStep(s))
       /\ WF_vars(enc[s] # "run" /\ EncoderCloses(s))
       /\ WF_vars(~(\E p \in Publishers : Feeds(p, s)) /\ GoQuiet(s))
  /\ \A t \in Threads : WF_vars(FinalizeStep(t))
  /\ WF_vars(RecoverList) /\ WF_vars(RecoverNext)
  /\ \A t \in Sweeps : WF_vars(SweepList(t)) /\ WF_vars(JobNext(t))
  /\ \A t \in Retries : WF_vars(RetryList(t)) /\ WF_vars(JobNext(t))

-----------------------------------------------------------------------------
(* The specification that LiveSession implements: a session is claimed by the *)
(* threads that are inside finalizeVod for it.                                *)

Holders == [s \in Sessions |-> {t \in Threads : pc[t] \in Finalizing /\ cur[t] = s}]

Lifecycle == INSTANCE SessionLifecycle WITH Workers <- Threads, owners <- Holders

\* finalizeVod, registerReplay, the close handlers and the jobs together: whatever
\* interleaves, fails or crashes, every change of a session's row, replay or video
\* is one that SessionLifecycle allows the worker that has claimed it.
LifecycleSpec == Lifecycle!Spec

-----------------------------------------------------------------------------
(* Properties *)

\* vod-finalize.handler.ts and beginStitching: of the close handler, the sweeper,
\* the retry job and the recovery of a boot, at most one is inside finalizeVod for
\* a session, from beginStitching until it has announced the end or given up.
OneFinalizer ==
  \A t1, t2 \in Threads :
    pc[t1] \in Finalizing /\ pc[t2] \in Finalizing /\ cur[t1] = cur[t2] => t1 = t2

\* idx_live_sessions_active_key: two concurrent hooks that both saw no live
\* session still leave one live session per stream key.
OneLivePerKey ==
  \A s1, s2 \in Sessions :
    status[s1] = "live" /\ status[s2] = "live" /\ keyOf[s1] = keyOf[s2] => s1 = s2

\* An ended session links a video that exists, once, and whose manifest is
\* written: whatever failed, was retried or crashed on the way.
EndedHasReplay ==
  \A s \in Sessions : status[s] = "ended" => videos[s] = 1 /\ replay[s] > 0

\* from_live is idempotent: lost replies, retries and later finalizes of the same
\* session never register a second video.
OneVideo == \A s \in Sessions : videos[s] <= 1

\* A finalize that runs again never replaces a replay by a shorter one.
ReplayNeverShrinks ==
  [][\A s \in Sessions : replay'[s] >= replay[s]]_vars

\* Every session leaves live: by its broadcaster, by an error, by the cap on its
\* duration or by the recovery after a crash.
LiveEnds == \A s \in Sessions : status[s] = "live" ~> status[s] # "live"

\* Left behind by a process that died inside finalizeVod: no thread moves it on.
Abandoned(s) ==
  /\ \/ status[s] = "stitching"
     \/ status[s] = "ended" /\ ~announced[s]
  /\ \A t \in Threads : ~(pc[t] \in Finalizing /\ cur[t] = s)

\* A session of which something was captured ends with its replay published and
\* announced, unless a process died while it was finalizing it.
ReplayEventually ==
  \A s \in Sessions :
    segs[s] > 0 ~> ((status[s] = "ended" /\ announced[s]) \/ Abandoned(s))
=============================================================================
