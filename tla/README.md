# noxrel: TLA+ models of the streaming platform

noxrel is a video platform made of small services (Node/TypeScript and Python)
behind a gateway, with PostgreSQL, Redis, Kafka and S3, and two web front ends
(Next.js). These modules model where it is concurrent: callbacks, requests,
jobs and messages that overlap, fail and come late.

    tlc -workers 2 -config MCLiveSession_finalize.cfg MCLiveSession
    tlapm LiveSession_proofs.tla

Paths are relative to `src/services/`, or to `src/frontend/` where they begin
with `web-`.

## 1. Inventory

| Component | State | Operations | What is hard | What makes it correct | Module |
|---|---|---|---|---|---|
| live sessions and replays (`live-service`: `vod-finalize.handler`, `sessions.repo`, `vod-register.service`) | `live_sessions`, playlists in S3, the video in video-service | `createSession`, `finalizeVod` and what it calls | four kinds of callers of `finalizeVod`, each of its calls may fail, the process may die inside it | one finalizer per session; an ended session has its replay and one video; replays never get shorter | `LiveSession`, `SessionLifecycle` |
| RTMP hooks, stream keys, admin requests | `stream_keys`, nginx-rtmp's publishers | `on_publish`, `on_publish_done`, create and revoke a key, force-end | check-then-act across awaits; hooks delivered once | one live session per key; a session leaves live | `LiveSession` |
| browser ingest (`ingest.gateway`) | a socket, its key, its encoder's stdin | `startBroadcast`, `stop`, `disconnect` | handlers attached after awaits | a session leaves live | `LiveSession` |
| encoder and segment sync (`ffmpeg.service`, `segment-sync.service`, `hls`) | map `active`, scratch directory, `live_segments`, S3 | `start`, `stop`, the `close` handler, one restart, the cap, ticks, the final flush | overlapping runs of `runSync`, numbering from 0 again | the index holds what S3 holds; the flush leaves nothing out | `LiveSession`, `SegmentSync` |
| reconciliation jobs (`reconcile.service`, `index.ts`) | lists read from the database | boot recovery, `sweepStale`, `retryStitchFailed`, `snapshotViewers` | lists that are stale when used, overlapping runs, boot order | nothing captured is left behind; counts settle | `LiveSession`, `LivePages` |
| chat and viewers (`chat/`, `redis.service`) | counters and sorted sets in Redis | messages, heartbeats | two-command counters, late beats | limits expire; viewers who left are forgotten | `LivePages` |
| video-service (`uploaders`, `videos`) | `videos`, `transcode_jobs`, multipart uploads | upload init and complete, edit, publish, delete, `from_live`, outcomes | S3, database and Kafka without a transaction; duplicated and reordered events | a complete upload is transcoded; what the catalogue shows can be played | `VideoPipeline`, `VideoLifecycle` |
| transcode-worker (`app/`) | offsets, renditions in S3 | consume, transcode, retry, publish | at-least-once delivery | every event gets an outcome | `VideoPipeline`, `VideoLifecycle` |
| streaming-service (`handlers/`) | positions in Redis | manifest, resume, heartbeat | heartbeats lost and out of order, one key for two tabs | a tier gets its variants; progress is saved | `Playback` |
| billing-service (`billing`, `jobs`, `consumers`) | subscriptions, invoices, advisory locks | webhooks, checkout, cancel, resume, `expire_trials` | webhooks in any order and repeated, check-then-write, locks on pooled connections | renewals and expiries announced once; only a webhook revives | `Billing` |
| user-service (`auth_api`, `accounts`, `roles`, `core/permissions.py`) | users, roles, cache, tokens | registration, login, Google callback, refresh, logout, changes of roles | statements that interleave, a cache filled after it was invalidated | granted roles only; old claims go; announced once | `Accounts` |
| sessions of the front ends (`web-user`, `web-admin`: `proxy.ts`, `lib/api.ts`, `lib/auth-client.ts`, `AuthContext`, `api/auth`) | cookies, context, a refresh in flight | sign-in, sign-out, refresh, navigation, calls | cookies change under a tab's feet; late answers | the cookies are of one user; no call waits for ever | `WebSession` |
| players (`VideoPlayer` of both) | `hls`, interval, mount | mount, resume, seek, quality, heartbeat, unmount | an effect cleaned up while it awaits | nothing of a player that is gone stays | `Playback` |
| live pages (`go-live`, `live/[sessionId]`, `LiveChat`, `LivePlayer`) | refs, phase, sockets, polls | capture, connect, record, end, poll, chat | callbacks of superseded sockets and polls | live means recording; connecting ends; the watcher reaches the replay | `LivePages` |
| upload dialog (`web-admin`: `VideoUploadDialog`) | form, phase | choose, fill in, submit, close | a chain of awaits that outlives its page | done means whole | `AdminUpload` |
| pages of `web-admin` | rows, dialogs, timers | load, search, page, poll, refund, edit, publish | loads applied in the order of their answers | the rows are what was asked; a refund is what was typed for it | `AdminConsole` |
| nginx-rtmp, Stripe, S3, FFmpeg, hls.js, Redis' expiry | | | | | external, in the module that uses them |

The services call each other over HTTP (live-service calls `from_live` of
video-service), over Kafka (`video.uploaded`, `video.transcoded`,
`video.transcode_failed`, `live.ended`, `user.registered`, ...) and through
shared stores (S3 keys; the stream key that nginx-rtmp passes to the hooks; the
cookies of a browser, which the `/api` routes of the front ends set and read).
`ai`, `search`, `social` and `notification` services are empty directories.

## 2. Modules

Each module has an `MC` module, and one configuration per run. A module models
a component together with what surrounds it closely enough to disturb it:
`Billing` has the consumer, Stripe, the webhooks, the job and the page that
write one row; `LivePages` has the pages and the part of live-service they poll.

| Module | How its steps are cut |
|---|---|
| `LiveSession` | one Node process: an action is the code up to the next await, with the effect of the call awaited |
| `SessionLifecycle` | abstract: a session is claimed by one worker, which alone changes its status, replay and video |
| `VideoLifecycle` | abstract: a file is assembled, owed, transcoded and answered for, by whoever has found the row so; a request changes the row as it was allowed to when it looked |
| `SegmentSync` | `runSync` at each of its awaits; a tick and the flush of the same encoder are two threads |
| `VideoPipeline` | each statement, S3 call and publish of a request is a step; events form a bag until committed |
| `Billing` | a webhook is the call of Stripe, the query, the commit, the publish; the job is query, commit, one publish per row, unlock |
| `Accounts` | a statement on the database or the cache is a step; there is no transaction around a request |
| `WebSession`, `Playback`, `LivePages`, `AdminUpload`, `AdminConsole` | a tab runs one callback at a time: an event handler, an effect, the continuation of an await |

### LiveSession

Threads of control are explicit. `pc[t]` is the place of a thread that may call
`finalizeVod`: the close handler of a session's encoder (named by the session),
the sweeper, the retry job, the recovery of a boot. `hook[p]` is the place of
one connection attempt of a broadcaster, RTMP or browser.

| In the model | In the code |
|---|---|
| `status`, `keyOf`, `quiet`, `segs` | the row of `live_sessions`, `last_segment_at` older than `STALE_SECONDS`, the number of its `live_segments` rows |
| `replay`, `videos`, `announced` | segments in the replay's playlist, videos with that `live_session_id`, `live.ended` published |
| `enc`, `restarted`, `code` | the FFmpeg child and its entry in `active`, `eof` and `term` being a child about to exit |
| `made`, `local` | segments the present child has written, and those not uploaded yet |
| `pc`, `cur`, `todo`, `snap`, `tries` | local variables of `finalizeVod`, `registerReplay` and the loops of `reconcile.service.ts` |
| `hook`, `hookKey`, `hookSess`, `gone` | local variables of `onPublish` and `startBroadcast`, and sockets closed before their handlers are attached |
| `Publish ... NginxAccepts` | `onPublish`, one action per await: key, live session, insert, `ffmpeg.start`, reply |
| `OnPublishDone`, `PublishDoneLost` | `onPublishDone`, which nginx-rtmp calls once |
| `StopLoop`, `CheckLive`, `Restart` | the `close` handler of `ffmpeg.service.ts`: final flush, `isLive`, restart or `finalizeVod` |
| `BeginStitching ... MarkStitchFailed` | `finalizeVod` with its `try`/`catch`, one action per call that may fail |
| `RecoverList`, `SweepList`, `RetryList`, `JobNext` | `recoverOnStartup`, `sweepStale`, `retryStitchFailed`: the list is read once, its sessions are taken one by one |
| `Die`, `Crash`, `Boot` | the end of the process (nothing catches a rejected close handler, so a failing call there ends it too) and its restart |

`Faults` names the kinds of call that may fail in a run, `Env` the optional
events. A failing call has no effect unless its action says otherwise:
`Register` and `PutPlaylists` may have taken effect and `Announce` may have been
published although the caller sees an error.

### SegmentSync

`LiveSession` counts segments and takes a tick as one step. Here they have the
number FFmpeg gives them and the encoder that wrote them (`disk`, `objects`,
`index`: who wrote number n), so that a restarted encoder, which begins at 0
again, meets what the first one left.

| In the model | In the code |
|---|---|
| `enc`, `running`, `made`, `playlist` | the FFmpeg child, and the playlist it rewrites |
| `loop` | `SyncState` of `segment-sync.service.ts`: `active`, `running`, `uploaded` |
| `thread` | one `runSync`: `Begin`, `SyncNext`, `SyncRead`, `SyncPut`, `SyncRecord`, `SyncUnlink`, `SyncPlaylist` are its awaits |
| `closing` | the `close` handler: `EncoderCloses`, `StopLoop`, `CheckLive`, `Restart`, `Finalize` |
| `BuildReplay`, `Sweep` | what `finalizeVod` reads of the index, called by the close handler or by the sweeper at any time |

### VideoPipeline

The requests run in gunicorn's processes, without a transaction around a view.
`rpc[r]` is the next statement of process `r`. What a request has read and uses
later is kept: the whole row for an edit (`read`), because `serializer.save()`
writes all of it back; the other views save named columns.

| In the model | In the code |
|---|---|
| `row` | `videos`: `status`, `is_published`, `deleted_at`, whether `hls_manifest_url` is set, whether the row is a replay |
| `upload` | the session's row and the multipart upload: none, open, assembled by S3 |
| `jobs`, `renditions` | the pending `transcode_jobs`; the videos all of whose files are in the bucket of the manifests |
| `events` | per topic and video, the events whose offset is not committed |
| `buffer`, `Delivers`, `Unbuffers`, `unsent` | `publish()` of `core/kafka.py` only enqueues: what is in the producer of a gunicorn process, sent later, or gone with the process; `unsent` is history |
| `wpc`, `wvid`, `tries` | `worker.main` with `run_with_retry` inside |
| `cpc`, `ctopic`, `cvid` | `consume_transcode_events`: the event in the hands of the handler |
| `InitVideo ... CompletePublish` | `UploadInitView`, `UploadCompleteView` |
| `PatchRead ... PublishSave` | `VideoDetailView`, `VideoPublishView` |
| `RequestCut`, `ServiceCrash`, `WorkerCrash` | a gunicorn process, the container of video-service, or the worker ends |

`VideoLifecycle` knows no processes, loops, retries or crashes. `VideoPipeline` implements
it under this mapping:

| In `VideoLifecycle` | In `VideoPipeline` |
|---|---|
| `row`, `files` | `row`, `renditions` |
| `pending` | `Pending`: what each request that has passed its checks is still going to write or publish (`Wish`), for an edit with the row it has read |
| `stored` | `Assembled`: the uploads that S3 has assembled |
| `owed` | `HandedOver`: the videos with an event of `video.uploaded` that is not committed |
| `answers` | `Told`: the topics of outcomes that hold an event of the video |

A second copy of an event, a retry, a failed publish and a crash are stutters or lose
wishes; what is written follows from a wish, and what is told from what is owed.

Any event may be overtaken by any other (the outcomes have two topics, and a
crash repeats old events). `ConsumerCommit` has the one way in which the
consumer ends alone: an error of the commit leads to a second commit in the
`except` branch, whose error nobody catches.

### Billing

| In the model | In the code |
|---|---|
| `rows`, `invoices` | `subscriptions` of one user (`stripe_subscription_id`, `status`, `cancel_at_period_end`), `invoices` |
| `stripe`, `events` | Stripe's subscription, and its events until a 200 |
| `hooks` | webhook requests; `seen` is the row as it was read: SQLAlchemy's UPDATE names the columns that differ from it (`Updated`) |
| `message`, `members`, `group`, `RegisterRead ... RegisterDies` | `user.registered` and the loop of `run_consumer` in each replica; `group` bounds how often the partition changes hands |
| `jobs`, `held`, `JobRead ... JobDies` | `expire_trials` in each replica, and how often each pooled connection holds the advisory lock |
| `page`, `request`, `PressCancel`, `Modify`, `CommitFlag` | the billing page, and the endpoints that cancel and reactivate |
| `paidSent`, `expiredSent` | `payment.succeeded` per payment, which the checkout sends for the first one and `invoice.paid` for each; `billing.trial_expired` per row |

### Accounts

| In the model | In the code |
|---|---|
| `rows`, `profiles`, `conns` | `users`, `user_profiles`, `oauth_connections` |
| `held`, `until`, `grants` | `user_roles` without and with `expires_at`; which roles grant the permission |
| `cache`, `CacheGet ... CacheSet`, `CacheExpires` | `get_user_permissions` and its key in Redis with a timeout |
| `refresh`, `access`, `Issue`, `Refresh` | the claims embedded in tokens; a refresh copies the old ones |
| `work` | the request a worker serves, with the claims it has read |
| `Google`, `GoogleUser`, `GoogleConnects`, `GoogleProfile` | the callback, `_get_or_create_oauth_user` statement by statement |
| `AssignRole`, `UpdatePermissions`, `Holders`, `Invalidate` | the admin views that change roles and clear the cache afterwards |

### WebSession

| In the model | In the code |
|---|---|
| `access`, `refresh` | the two token cookies of the browser, and whom they name |
| `asked`, `RefreshAnswered` | requests to `api/auth/refresh`: of the proxy, of `lib/api.ts`, of `lib/auth-client.ts` |
| `page`, `nav`, `target`, `Navigate`, `ProxyDecides`, `ProxyAsks` | `proxy.ts` before every page |
| `load`, `LoadBegins`, `LoadReads`, `LoadAsks`, `LoadRereads`, `ready` | the effect of `AuthContext`, due after those of the page that is its child (until it runs the page sees the context of the page before), and `loadSession` as it runs it |
| `refused`, `NewTokens` | a refresh token that user-service has blacklisted; the tokens it gives |
| `call`, `Send`, `Answered`, `CallRefreshes` | `apiFetch` with its one retry |
| `filled`, `sent`, `LogsIn`, `SignsUp`, `logout` | the forms, and what this tab has submitted |
| `SignIn`, `Register`, `SignOut` | the same of other tabs |

### Playback

| In the model | In the code |
|---|---|
| `master`, `filterMasterManifest` | `master.m3u8`, and `quality.ts` line by line |
| `tab[t]` | the state and refs of a `VideoPlayer`; `mount[t]` numbers its effects |
| `inits`, `InitGoesOn`, `InitThrows` | `init()` waiting for `resume`, with `cancelled` of its own effect |
| `saved`, `beats`, `Heartbeat`, `savePosition` | the position in Redis, posts every 30 s |
| `LoadsVideo ... MountsPlayer` | the page of web-user, which loads again when the token changes |

### LivePages

| In the model | In the code |
|---|---|
| `phase`, `stream`, `alive`, `sock`, `timer`, `ref`, `rec`, `feeds` | `go-live/page.tsx`: state, `streamRef`, sockets and their connect timers, `socketRef`, `recorderRef` |
| `GoLive`, `Connect`, `TimedOut`, `Failed`, `LiveStarted`, `EndBroadcast` | the callbacks of that page |
| `status`, `shown`, `notFound`, `loads`, `Poll`, `Polled` | `live/[sessionId]/page.tsx` and its answers on the way |
| `waits`, `chats` | effects of `LiveChat` that wait for a token, and open sockets |
| `key`, `ttl`, `first`, `ChatMessage`, `ChatExpire` | `checkChatRateLimit`: `INCR`, then `EXPIRE` |
| `age`, `beats`, `snap`, `count`, `Beat`, `BeatArrives`, `Snapshot...` | the sorted set of viewers, `countViewers`, `snapshotViewers` |

### AdminUpload

`at`, `given`, `on` and `part` are the local variables of each `onSubmit`; the
rest of the tab is the state of the dialog. A stored part is the range of the
file it holds (`stored`), so that the object S3 assembles (`object`) can be
compared with the file. `UploadInit` and `UploadComplete` are the two endpoints
of video-service. The service counts the parts by its own setting
(`ServiceChunk`), the dialog cuts the file by a constant (`Chunk`).

### AdminConsole

`address` and `field` are the query of a list and its search field, `timers` the
debounce timers, `loads` the requests in flight with the page they were sent
from, `calls` the changes in flight with what the server has made of them.
An edit and a publication read the row first (`Reads`) and write it in another step
(`Serve`, `Effect`), an edit with all the columns that were read; the answer is applied
in a third. `overtaken`, `strayed` and `undone` are history: an answer was overtaken on this
page, a timer came from another, the server has lost a publication since the page was
opened.

## 3. Runs

| Run | Instance | Shows |
|---|---|---|
| `finalize` | one session, close handler, two sweeps, retry job, boot; two failing calls, a crash | `OneFinalizer`, `EndedHasReplay`, `ReplayNeverShrinks`, types, and the refinement `LifecycleSpec` (of `SessionLifecycle`) |
| `hooks` | two broadcasters (RTMP or browser), two sessions, one key; revocation, force-end, failing nginx-rtmp and `spawn` | `OneLivePerKey` |
| `live` | one session with every job, one failing call and one crash, browser or RTMP, under `FairSpec` | `LiveEnds`, `ReplayEventually` |
| `segments` | two encoders of three segments, a window of two, a failing call, the sweeper | `IndexedIsStored`, `FlushCatchesUp` |
| `videos` | one video, two processes, four requests of any kind, two runs per event, one failing call and one crash, under `FairSpec` | `VisibleIsPlayable`, `UploadedIsStored`, `EventIsAnswered`, `JobsSettle`, and the refinement `LifecycleSpec` (of `VideoLifecycle`) |
| `subscription` | one user, one Stripe subscription with two invoices, one fault; two webhook requests, or two runs of the job in two replicas with two connections each, or the consumers of both replicas | `TrialsWithinMembers`, `RenewalsAnnouncedOnce`, `ExpiredOnce`, `OnlyStripeRevives` |
| `accounts` | an admin and a new address, two workers, three requests, one crash, under `FairSpec` | `AnnouncedOnce`, `OnlyGranted`, `StaleCacheEnds` |
| `session` | two users, one call, three navigations, one submission in flight, one fault | `TokensOfOneUser`, `ReadyMeansLoaded`, `CallsEnd` |
| `playback` | a tab of each front end, two mounts, sign-ins, two heartbeats in flight, one fault | `NothingLeaks`, `WithinCap`, `ProgressSaved` |
| `pages` | one tab: two captures and two sockets, or list, watch page and chat; one fault | `LiveHasRecorder`, `ConnectingEnds`, `WatcherReachesReplay`, `LeavesForGood`, `MutedForAWhile`, `CountSettles` |
| `upload` | two submissions of files of 0, 1 or 5 units in parts of 2 (for both), two failures | `DoneIsWhole` |
| `console` | two pages after one another (that of a video through the list), two loads and two changes in flight, one failure | `RefundIsMeant`, `RowsOfPage`, `BadgeIsTrue`, `EndedLeavesList`, `ListSettles` |

Why the bounds are enough to be worth something:

- `LiveSession`: two sweeps, a retry job, a boot and a close handler are every
  kind of caller of `finalizeVod`, with the one that may overlap itself twice; two
  failing calls are enough to fail, to retry and to fail again. A session depends
  on others through the key only, for which two sessions race in `hooks`.
- `SegmentSync`: the second encoder overwrites numbers of the first; with a window
  of two and three segments one leaves the playlist; a tick and the flush overlap,
  and no third run of `runSync` can.
- `VideoPipeline`: no step reads two rows; two processes are a pair that races;
  four requests are an upload, one or two completions, and the rest among edit,
  deletion and publication; two runs per event are a first and a last one.
- `Billing`: two webhook requests work on one event, or on two. Two runs of the job
  are needed to be told twice, and a lock leaks from the first into a pool of two.
  Two members of the consumer group are a partition that is taken over while its event is
  being worked on.
- `Accounts`: a reader and a writer of roles, or two callbacks for one address; the
  third request reads what these left. `WebSession`: a late refresh of one user
  meets the cookies of another (one call: that several share a refresh is in the actions only); three pages are an old one, the one that is left and the one
  that is shown. `Playback`: a late `init` of the first mount meets the second; of two
  heartbeats in flight one overtakes the other.
- `LivePages`: a superseded capture or socket and the one that counts.
  `AdminUpload`: 5 in parts of 2 has a first, a middle and a short last part; 0 is
  the empty file. `AdminConsole`: two loads are enough to overtake, two changes to read and
  write one row between each other; that a change outlives the page of its video is left to the proof.

`CHECK_DEADLOCK FALSE` is in every run because the system may stop: all
broadcasters gone, no event left, the user done, or a bound used up.

### Fairness

There is weak fairness of the schedulers only, and none of users, admins,
failures and crashes, so that no progress rests on somebody pressing a button.

- `LiveSession`: Kubernetes restarts the container (`Boot`). Node runs each
  continuation and timer. FFmpeg exits once it has been signalled or its input has
  ended. A session that nobody feeds goes quiet. `LiveEnds` rests on the cap
  (`KillTimer`, `MAX_STREAM_DURATION_HOURS`) and assumes that `ffmpeg.start` does
  not throw (`launch` is not among the `Faults` of the run): `listStaleLive` skips a
  session without segments. `ReplayEventually` exempts a session whose finalizer died
  with the process (`Abandoned`), because no job lists `stitching`.
- `VideoPipeline`: a request that has begun, the worker's loop and the consumer's.
  docker-compose restarts both containers (`restart: unless-stopped`); a consumer that
  has ended alone is a background command beside gunicorn, and nobody owes its
  restart. `EventIsAnswered` and `JobsSettle` hold as long as no call fails and no
  request is cut off: the code repeats nothing that it has logged. Crashes of the
  worker, and of video-service between requests, are not exempt. A producer sends what it
  has buffered unless its process ends first; `JobsSettle` exempts the videos whose event
  was lost that way (`unsent`).
- `Accounts`: a request that is served goes on, and Redis drops a key whose time is
  over; the sixty seconds of `RBAC_CACHE_TTL` are what `StaleCacheEnds` rests on.
- `WebSession`: requests are answered (the proxy and the routes give up after a
  while) and settled promises are continued.
- `Playback`: a request that is not lost arrives; the interval of a player ticks,
  which is a strong condition only because the bound on posts in flight may withhold a tick.
  Losses are bounded, so a viewer who rests is saved again.
- `LivePages`: timers, polls, beats in flight, time and the snapshot job.
  `ConnectingEnds` does not ask the server for anything: the page's own timer ends it.
  `MutedForAWhile` (safety) exempts a live-service that dies between `INCR` and `EXPIRE` (`died`).
- `AdminConsole`: timers fire, loads are answered or fail, the interval of the live
  page goes on. `ListSettles` and `EndedLeavesList` speak of a page that is kept open.

## 4. Proofs

TLAPS proves these for all values of the constants, from the named assumption
about constants of each module alone (natural bounds, distinct placeholders, seeds
among the users). `UploadIsWhole` and `OfferedWithinCap` are about instances, so that the
assumptions of `AdminUpload` and `Playback` are their hypotheses: `Bounds`, to which
`ChunksAgree` adds that the parts the dialog cuts are not smaller than those the service
counts (both are 5 MiB as deployed; section 6), and `Playlists`, which says that in the master playlists the transcoder writes each
STREAM-INF line is followed by the variant it describes (`transcoder/ffmpeg.py:75`). TLC evaluates
every assumption on the constants of the runs.

| Module | Theorems |
|---|---|
| `LiveSession_proofs` | `TypeCorrect`, `FinalizeIsExclusive`, `KeyIsExclusive`, `EndedIsReplayable`, `VideoIsUnique`, `ReplayIsKept`, `Refinement` (of `SessionLifecycle`) |
| `VideoPipeline_proofs` | `TypeCorrect`, `CatalogueIsPlayable`, `WorkIsStored`, `Refinement` (of `VideoLifecycle`) |
| `SegmentSync_proofs` | `SegmentsTyped`, `IndexedSegmentsAreStored`, `FlushLeavesNothing` |
| `Billing_proofs` | `BillingTyped`, `RenewalsAreAnnouncedOnce`, `TrialsExpireOnce`, `NoFreeRevival`, `NoMoreTrialsThanMembers` |
| `Accounts_proofs` | `AccountsTyped`, `ClaimsAreGranted`, `AccountAnnouncedOnce` |
| `WebSession_proofs` | `WebSessionTyped`, `CookiesOfOneUser`, `ReadyIsLoaded` |
| `LivePages_proofs` | `PagesTyped`, `LivePhaseHasRecorder`, `NobodyMutedForever`, `WhatIsLeftIsLeft`; of `Playback` `NothingOfGonePlayers`, `FilterKeepsToCap`, `MenuIsWhole`, `OfferedWithinCap` |
| `AdminConsole_proofs` | `ConsoleTyped`, `RefundsAreMeant`, `RowsAreOfPage`, `BadgesAreTrue`; of `AdminUpload` `UploadIsWhole` |

None of the properties is inductive. The strengthenings, and why they are needed:

- **LiveSession**, `IInv == TypeOK /\ Claims /\ Created /\ OneFinalizer /\
  OneLivePerKey /\ Replays`. `Claims`: the status of a session records the claim of
  the thread inside `finalizeVod`, `stitching` while it builds the replay, `ended`
  while it announces. With it `beginStitching`, which lets a thread in from `live`
  and `stitch_failed` only, excludes a second one: the only steps that leave
  `stitching` are those of the claiming thread, and a crash, after which nobody is
  inside. `Replays` relates what a thread has read to the index, which only grows,
  and what it has written to where it stands, so that `markEnded` finds a replay and a
  video. The refinement maps the workers of `SessionLifecycle` to the threads and
  the owners of a session to the threads inside `finalizeVod` for it; a crash, and an
  error that ends a job, are `Lose`.
- **VideoPipeline**, `IInv == TypeOK /\ Held /\ Stored /\ Sendable /\ Playable`. A row becomes
  ready in three ways: from an outcome, from a stale edit, from live-service.
  `Playable` therefore also speaks of the row that an edit has read, of outcomes on
  their way and of a run that has succeeded. `Stored` follows a complete request from
  S3's answer to its publish, `Sendable` from there to the topic; `Held` says that a loop's event is in its topic until it
  commits it. The refinement needs all three: a request that queues a video or hands it
  over does so for a file that is stored, the worker tells an outcome of a video that
  is owed, `transcoded` only when the files are there, and the consumer writes an
  outcome that is still an answer. The other half of it is that a step of a request
  changes no wish but its own.
- **SegmentSync**, `SInv`. A file goes from disk to S3 to the index and is unlinked,
  in two threads that may hold the same one. `Known`: what was written is on disk or
  in the index, since only a `runSync` that has recorded a file removes it
  (`InHand`), even if another encoder has written it anew. `Accounted`: what a
  `runSync` has read in its playlist is still to do, in its hands, or in the index;
  when the flush has nothing left, `FlushCatchesUp` follows. `Uploaded`: what a loop
  has marked as uploaded, and will not look at again, is in the index.
- **Billing**, `BInv == Typed /\ Known /\ Paid /\ Locked /\ Told`. `Paid`: the request
  about to announce the invoice of a renewal is the only one and has it recorded, because the
  unique index refuses the second commit; of the first payment that would be false, which its
  checkout announces too. `Locked`: the connections that hold the lock are
  at most one, and belong to the replica between the job's query and its last message;
  a lock that leaks only keeps others out. `Told`: a row whose user was told, or is
  about to be, is linked or no longer trialing, and `RowsGo` says that no step undoes
  that. `Known` (a row that a webhook writes is linked after it), with the steps of all others, which leave a
  cancelled row cancelled, makes every revival the write of a webhook to a linked row. The types (`TInv`) are an invariant alone: an UPDATE by columns, or
  an event read late, leaves a row of the table. `TrialInv` counts: a trial in the table and a member that has found
  none and is about to insert one together are never more than the members, since a
  member that begins while there is a trial finds it.
- **WebSession**, `WInv` adds the types and `Room`: a page the proxy is asked for has a number
  left. Any load but that of the page shown is cancelled once the effect of this page has run,
  and until then `ReadyMeansLoaded` says nothing.
- **Accounts**, `AInv == Typed /\ Recorded /\ Tokens /\ Claimed`: the claims in the hands of a
  worker, between its query and what it writes, name only roles their user has held.
  `NInv` adds who will announce an account: at most one worker, which has made it and has
  not announced it yet (`Announcers`). The unique columns of the tables make the others
  fail; that the last statements of a callback are those of a Google sign-in (`OfGoogle`)
  tells them from a registration that is at the same place. `TInv` adds how the tables fit
  together between two statements (`Tables`: roles, profiles and connections are of
  accounts, no role is held both for good and for a while) and that a worker that is busy
  serves somebody (`Busy`); a statement that writes for an account has found or made it.
- **LivePages**: an invariant per property. `Recording`: a page that was left is not in
  the phase live, whatever its callbacks still do. `Cancelled`: a tab without a page that
  polls has no answer on its way that would be heeded. `Counted`: the counter is a number.
  `TInv` adds that an open prompt of getUserMedia has a capture left to be given.
- **Playback**, `Players /\ Preparing`: a tab holds at most an interval and an hls object of
  its last mount, none before `init()` has gone on, and an `init()` of that mount that is
  still waiting excludes a playlist of its own. Therefore the cleanup, which knows its own
  mount only, leaves nothing. For `WithinCap`, `Menus`: the levels of a player are what the
  filter has left for the cap of its tier, and an answer of resume that would still be
  heeded finds a player without a playlist. What the filter leaves is `FilterKeepsToCap`:
  the recursive functions it and the search for the levels are made of are shown to exist
  and to have the values they should, by induction over the lines that are left, which are
  intervals ordered by strict inclusion (that order is well-founded on finite sets).
  `MenuIsWhole` is about the menu made of levels in any order.
- **AdminConsole**, `RInv`: the amount outlives its dialog, but while a dialog is open
  it is of this dialog (`OfTarget`). `CInv` adds `CallsHere`: what the answer of a change can
  still touch belongs to the page that is shown. `SInv` adds that the pages of the subscriptions
  and of a video have one load at a time, for the address they show (`OneLoad`,
  `RowsLoaded`). `VInv` adds that whatever is shown of the video, or on its way to be, was
  published only if the video has been since the page was opened, be it undone or not (`Past`,
  `Seen`), that a save writes a row that has been read, and that a publication which is done
  has been made (`Answers`). `TInv` needs
  all of it: the badge is changed in a video that is shown only because the page that has
  asked to publish it shows it (`CallsTyped`), and an amount is typed for a subscription
  only because a dialog of that page is about one (`DialogTyped`).
- **AdminUpload**, `UInv == Shapes /\ Frozen /\ Sent /\ Over /\ DoneIsWhole`. `Frozen`: of the
  submissions that go on, one at most was begun on the page that is shown, and the form is
  what it was given, since the dialog takes no change meanwhile. `Sent`: the parts a
  submission has stored are the first ones of its file, one after the other; that all
  `totalParts` of them reach the last byte is `PartsReachTheEnd`, which needs `ChunksAgree`. `Over`: the video a dialog calls done is one
  whose submission is over, so that nothing writes it any more.

Each proof that a step keeps an invariant has one step per action or group of
actions, and lemmas for the groups that leave it alone.

`Playback` and `AdminUpload` are instances in the modules of their theorems, with variables
of their own: their theorems are about `Watching!NothingLeaks`, `Watching!WithinCap` and
`Uploading!DoneIsWhole`, which the runs `playback` and `upload` check on small instances.

Model-checked only: every liveness property (`LiveEnds`, `ReplayEventually`,
`EventIsAnswered`, `JobsSettle`, `StaleCacheEnds`, `CallsEnd`, `ProgressSaved`,
`ConnectingEnds`, `WatcherReachesReplay`, `CountSettles`, `EndedLeavesList`,
`ListSettles`), which is out of reach of the prover.

## 5. Abstractions, and what is not modelled

- One session has one rendition. `SegmentSync` takes the status of the session as live
  or not; `LiveSession` has the rest of it.
- One live-service process at a time: `live-service.yml` asks for a single replica;
  the two pods of a rolling update are not modelled.
- nginx-rtmp is external: it accepts on a 2xx reply, calls `on_publish_done` once,
  drops on request. `nginx.conf` has `deny play all`, which would also refuse the
  local pull of FFmpeg; the model takes the pull to work. FFmpeg writes segments while
  its input is fed, exits with 0 at the end of its input and otherwise with a signal or an error.
- `VideoPipeline`: who may do what is left out, and every column that no step looks at.
  Commits take effect or fail at once. The consumer is the one docker-compose starts:
  the Kubernetes manifest starts gunicorn only, so there no outcome would be consumed.
- `Billing`: amounts, periods, invoices' PDFs, payment methods and the refund on the
  server; the reminders and the other jobs only send mails.
- `Accounts`: an address, its user and its Google identity are one; admin and superadmin are one
  role. Lockouts, password resets and profile fields are left out.
- `WebSession`: expiry is a cookie that goes and a call that is refused; of the context
  there is whether it is ready and has a session.
- `Playback`: the resume request is one step with its answer; volume, full screen,
  the mark in the menu and the hiding of controls are left out.
- `LivePages`: the audience is one tab; the page of a broadcaster's own keys is left out.
- `AdminUpload`, `AdminConsole`: fields are versions of a text; the dashboard is a page
  that loads; what a server reads for the answer to a load it reads when it is asked.
- Not modelled: `getProducer` of the Kafka clients (a failed connect leaves `connecting`
  set, so later callers get a producer that is not connected; `LiveSession` has
  publishes that fail), watch events of streaming-service, catalogue queries, layout and
  themes, deployment. The clean-up of errored sessions is left out because the code
  never sets the status `error`.

## 6. Where the code and its texts part

The models have these behaviours, and no property forbids them, because they are what the code does. No run exhibits them as
counterexamples either: every run is one that passes.

- `clearViewers` or `publishLiveEnded` failing after `markEnded` makes an ended session
  `stitch_failed`, and it is finalized and announced again (`vod-finalize.handler.ts:55`;
  line 15 takes an ended session to be refused).
- No job lists `stitching`: a session whose finalizer died stays there
  (`reconcile.service.ts:19`, 53; `docs/features.md:137` says "Crash recovery").
- FFmpeg stopped by our own SIGTERM exits with a code that counts as a crash and is
  restarted once (`ffmpeg.service.ts:121`).
- `sweepStale` never drops the publisher (`reconcile.service.ts:39` says it does).
- A revocation between the look-up of a key and the insert of its session kicks nobody
  (`stream-keys.handler.ts:58`); force-end does nothing to a browser session
  (`sessions.handler.ts:74`).
- The server listens before `recoverOnStartup`, which takes every live session for an
  orphan (`index.ts:41`).
- PATCH of a video writes back every column it has read (`videos/views.py:55`): a deletion
  or a publication in between is undone, and the page that has published it goes on showing it as live
  (`web-admin/.../videos/[videoId]/page.tsx:161`).
- `publish()` of video-service enqueues and polls without waiting, and nothing calls `flush()`
  (`core/kafka.py:44`): a process that ends after its answer takes `video.uploaded` with it,
  and the video stays `processing`.
- The service counts the parts of an upload by `S3_MULTIPART_CHUNK_SIZE_MB`
  (`uploaders/views.py:54`), the dialog cuts the file into parts of 5 MiB
  (`VideoUploadDialog.tsx:159`): with a larger setting the end of the file would be missing.
- The first payment is announced by the checkout and by its invoice (`billing/webhooks.py:49`,
  81-83; `tests/test_webhooks.py:43`), and once more by each repetition of the checkout. Two
  requests for one checkout may link the row one after the other, the later over the earlier.
- A webhook of a failed payment that comes after the deletion makes a cancelled subscription
  `past_due` (`billing/webhooks.py:98`).
- The web players claim the tier `basic_subscriber` for every visitor
  (`web-user/src/lib/streaming.ts:11`), and `QUALITY_CAPS` (`quality.ts:1`) gives it 1080p, a guest
  240p;
  `docs/features.md:112` has 480p for guests, 720p for basic and 1080p for premium subscribers.
  `WithinCap` is about the caps of the code.
- Between the effects of a page and the one of `AuthContext` (`AuthContext.tsx:39`) the page
  sees the context of the page before as ready.
- `expire_trials` cancels a trial that a checkout has linked since it was read
  (`jobs/tasks.py:61`); its lock is released on whichever connection the pool gives
  (`jobs/tasks.py:39`), so it may stay held; while it does, other replicas skip the job.
- Every replica of billing-service starts a consumer of its group (`main.py:31`;
  `jobs/scheduler.py:5` says of the jobs that several replicas are safe). Two members that work on one
  `user.registered`, after a rebalance, both find no subscription and open a trial each;
  there are at most as many trials as members (`TrialsWithinMembers`).
- Of two Google callbacks for a new address one may create the account and the other the
  connection and the profile; then neither announces it (`auth_api/views.py:207`).
- A refresh token that is refused but not expired keeps a visitor of web-admin from the login
  page: the proxy redirects it to itself (`web-admin/src/proxy.ts:116`). A refresh answered after
  a sign-out restores the session.
- A live player whose playlist is not there yet stays dead and goes on counting as a viewer
  (`LivePlayer.tsx:56`). Loads of the admin lists are applied in the order of their answers
  (`videos/page.tsx:132`): `ListSettles` exempts a page on which one was overtaken. A refund of 0
  is sent as a full one (`subscriptions/page.tsx:75`).

## 7. Left to do

- The Kafka producers, and two overlapping pods of live-service.
