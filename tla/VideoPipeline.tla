---------------------------- MODULE VideoPipeline ----------------------------
(***************************************************************************)
(* The life of an uploaded video: the requests to video-service that       *)
(* create, complete, edit, publish and delete it, the transcode-worker     *)
(* that makes its renditions, and the consumer in video-service that       *)
(* writes the outcome into its row.  Kafka delivers at least once: an      *)
(* event stays in its topic until its consumer commits the offset.  But    *)
(* publish() of video-service only leaves it in the buffer of the          *)
(* producer, which sends it later, or not at all if its process ends.      *)
(*                                                                         *)
(* Requests run in several gunicorn processes without a transaction, so    *)
(* each statement on the database is a step: a view reads a row, and what  *)
(* it saves later it saves over whatever is there by then.                 *)
(*                                                                         *)
(* Abstractions: who may do what, and the data that no step looks at.      *)
(***************************************************************************)
EXTENDS Naturals

CONSTANTS
  Videos,       \* ids of videos rows
  Requests,     \* the gunicorn processes, each with at most one request
  NoVideo,
  MaxRetries,   \* TRANSCODE_MAX_RETRIES
  MaxRequests,  \* bound: requests that are made
  MaxFaults,    \* bound: failing calls and requests cut off
  MaxCrashes,   \* bound: crashes of the worker and of video-service
  Faults        \* the kinds of fault that may happen

FaultKinds == {"s3", "db", "kafka", "request"}

ASSUME ConstantsAssumption ==
  /\ NoVideo \notin Videos
  /\ MaxRetries \in Nat \ {0}
  /\ MaxRequests \in Nat /\ MaxFaults \in Nat /\ MaxCrashes \in Nat
  /\ Faults \subseteq FaultKinds

VARIABLES
  row,                \* videos: one row per id
  upload,             \* the multipart upload of a video and its session's row
  jobs,               \* transcode_jobs: how many of a video are pending
  renditions,         \* videos whose HLS files are all in transcoded-videos
  events,             \* per topic and video: events not committed yet
  buffer,             \* per gunicorn process and video: events its producer still holds
  unsent,             \* history: videos whose event ended with the process that held it
  rpc, rvid, read,    \* per request: its place, its video, the row a patch has read
  wpc, wvid, tries,   \* the worker: its place, its event's video, failed runs
  cpc, ctopic, cvid,  \* the consumer: its place, the topic and video of its event
  served, faults, crashes

tables == <<row, upload, jobs>>
reqVars == <<rpc, rvid, read>>
workerVars == <<wpc, wvid, tries>>
consumerVars == <<cpc, ctopic, cvid>>
producers == <<buffer, unsent>>
kafka == <<events, producers>>
bounds == <<served, faults, crashes>>
vars == <<tables, renditions, kafka, reqVars, workerVars, consumerVars, bounds>>

Statuses == {"none", "uploading", "processing", "ready", "failed", "deleted"}

\* deleted stands for deleted_at, manifest for hls_manifest_url and its companions,
\* live for a replay that from_live has registered.
Row == [status : Statuses, manifest : BOOLEAN, published : BOOLEAN,
        deleted : BOOLEAN, live : BOOLEAN]

NoRow == [status |-> "none", manifest |-> FALSE, published |-> FALSE,
          deleted |-> FALSE, live |-> FALSE]

Outcomes == {"transcoded", "failed"}
Topics == {"uploaded"} \cup Outcomes

RequestPCs == {"idle", "session", "s3", "save", "job", "event", "patch", "delete",
               "publish"}

TableTypes ==
  /\ row \in [Videos -> Row]
  /\ upload \in [Videos -> {"none", "open", "stored"}]
  /\ jobs \in [Videos -> Nat]
  /\ renditions \subseteq Videos
  /\ events \in [Topics -> [Videos -> Nat]]
  /\ buffer \in [Requests -> [Videos -> Nat]]
  /\ unsent \subseteq Videos

RequestTypes ==
  /\ rpc \in [Requests -> RequestPCs]
  /\ rvid \in [Requests -> Videos \cup {NoVideo}]
  /\ read \in [Requests -> Row]

LoopTypes ==
  /\ wpc \in {"idle", "run", "success", "failure", "commit"}
  /\ wvid \in Videos \cup {NoVideo}
  /\ tries \in Nat
  /\ cpc \in {"idle", "save", "jobs", "commit", "down"}
  /\ ctopic \in Outcomes
  /\ cvid \in Videos \cup {NoVideo}
  /\ served \in Nat /\ faults \in Nat /\ crashes \in Nat

TypeOK == TableTypes /\ RequestTypes /\ LoopTypes

Init ==
  /\ row = [v \in Videos |-> NoRow]
  /\ upload = [v \in Videos |-> "none"]
  /\ jobs = [v \in Videos |-> 0]
  /\ renditions = {}
  /\ events = [topic \in Topics |-> [v \in Videos |-> 0]]
  /\ buffer = [r \in Requests |-> [v \in Videos |-> 0]] /\ unsent = {}
  /\ rpc = [r \in Requests |-> "idle"]
  /\ rvid = [r \in Requests |-> NoVideo]
  /\ read = [r \in Requests |-> NoRow]
  /\ wpc = "idle" /\ wvid = NoVideo /\ tries = 0
  /\ cpc = "idle" /\ ctopic = "transcoded" /\ cvid = NoVideo
  /\ served = 0 /\ faults = 0 /\ crashes = 0

Fault(f) == f \in Faults /\ faults < MaxFaults /\ faults' = faults + 1

\* Kafka: an event is sent, and gone when its offset is committed.
Send(topic, v) == events' = [events EXCEPT ![topic][v] = @ + 1]
Commit(topic, v) == events' = [events EXCEPT ![topic][v] = @ - 1]

-----------------------------------------------------------------------------
(* Requests to video-service *)

\* Process r takes a request.
Arrives(r) ==
  /\ rpc[r] = "idle"
  /\ served < MaxRequests
  /\ served' = served + 1
  /\ UNCHANGED <<faults, crashes>>

\* r goes on at its next statement.
At(r, place) ==
  /\ rpc' = [rpc EXCEPT ![r] = place]
  /\ UNCHANGED <<rvid, read, served, crashes>>

\* r is answered, with success or with an error.
Over(r) ==
  /\ rpc' = [rpc EXCEPT ![r] = "idle"]
  /\ rvid' = [rvid EXCEPT ![r] = NoVideo]
  /\ read' = [read EXCEPT ![r] = NoRow]
  /\ UNCHANGED <<served, crashes>>

\* A request finds v in the state it asks for, and goes on to place.
Begins(r, v, place) ==
  /\ Arrives(r)
  /\ rpc' = [rpc EXCEPT ![r] = place]
  /\ rvid' = [rvid EXCEPT ![r] = v]
  /\ UNCHANGED <<upload, jobs, renditions, kafka, workerVars, consumerVars>>

Exists(v) == row[v].status # "none" /\ ~row[v].deleted

\* UploadInit: the row, then the multipart upload and its session.
InitVideo(r, v) ==
  /\ row[v].status = "none"
  /\ Begins(r, v, "session")
  /\ row' = [row EXCEPT ![v].status = "uploading"]
  /\ UNCHANGED read

\* When it fails, the row stays behind in uploading without a session.
InitSession(r) ==
  /\ rpc[r] = "session"
  /\ Over(r)
  /\ \/ upload' = [upload EXCEPT ![rvid[r]] = "open"] /\ UNCHANGED faults
     \/ (Fault("s3") \/ Fault("db")) /\ UNCHANGED upload
  /\ UNCHANGED <<row, jobs, renditions, kafka, workerVars, consumerVars>>

\* UploadComplete looks at the status once, before its calls.
CompleteRead(r, v) ==
  /\ upload[v] # "none" /\ row[v].status = "uploading"
  /\ Begins(r, v, "s3")
  /\ UNCHANGED <<row, read>>

\* Slip: a failing CompleteMultipartUpload is logged and forgotten.
CompleteS3Unchecked(r) ==
  /\ rpc[r] = "s3"
  /\ At(r, "save")
  /\ \/ upload' = [upload EXCEPT ![rvid[r]] = "stored"] /\ UNCHANGED faults
     \/ Fault("s3") /\ UNCHANGED upload
  /\ UNCHANGED <<row, jobs, renditions, kafka, workerVars, consumerVars>>

\* CompleteMultipartUpload: it may fail, before or after it has taken effect, and a
\* repetition may be answered again or refused (NoSuchUpload).
CompleteS3(r) ==
  /\ rpc[r] = "s3"
  /\ \/ /\ upload' = [upload EXCEPT ![rvid[r]] = "stored"]
        /\ \/ At(r, "save") /\ UNCHANGED faults
           \/ Over(r) /\ Fault("s3")
     \/ upload[rvid[r]] = "stored" /\ Over(r) /\ UNCHANGED <<upload, faults>>
     \/ Fault("s3") /\ Over(r) /\ UNCHANGED upload
  /\ UNCHANGED <<row, jobs, renditions, kafka, workerVars, consumerVars>>

\* save(update_fields = raw_s3_key, status): the other columns stay as they are.
CompleteSave(r) ==
  /\ rpc[r] = "save"
  /\ \/ /\ row' = [row EXCEPT ![rvid[r]].status = "processing"]
        /\ At(r, "job") /\ UNCHANGED faults
     \/ Fault("db") /\ Over(r) /\ UNCHANGED row
  /\ UNCHANGED <<upload, jobs, renditions, kafka, workerVars, consumerVars>>

CompleteJob(r) ==
  /\ rpc[r] = "job"
  /\ \/ /\ jobs' = [jobs EXCEPT ![rvid[r]] = @ + 1]
        /\ At(r, "event") /\ UNCHANGED faults
     \/ Fault("db") /\ Over(r) /\ UNCHANGED jobs
  /\ UNCHANGED <<row, upload, renditions, kafka, workerVars, consumerVars>>

\* publish: produce() and poll(0), and the request is answered while the producer holds
\* the event.  An error of produce() is logged, and the event is lost.
CompletePublish(r) ==
  /\ rpc[r] = "event"
  /\ Over(r)
  /\ \/ buffer' = [buffer EXCEPT ![r][rvid[r]] = @ + 1] /\ UNCHANGED faults
     \/ Fault("kafka") /\ UNCHANGED buffer
  /\ UNCHANGED <<tables, renditions, events, unsent, workerVars, consumerVars>>

\* The producer of process r sends v's event, or gives it up after its retries.
Delivers(r, v) ==
  /\ buffer[r][v] > 0
  /\ buffer' = [buffer EXCEPT ![r][v] = @ - 1]
  /\ \/ Send("uploaded", v) /\ UNCHANGED faults
     \/ Fault("kafka") /\ UNCHANGED events
  /\ UNCHANGED <<tables, renditions, unsent, reqVars, workerVars, consumerVars, served,
                 crashes>>

\* The processes in ended: nothing flushes what their producers hold.
Unbuffers(ended) ==
  /\ buffer' = [r \in Requests |->
                 IF r \in ended THEN [v \in Videos |-> 0] ELSE buffer[r]]
  /\ unsent' = unsent \cup {v \in Videos : \E r \in ended : buffer[r][v] > 0}

PatchRead(r, v) ==
  /\ Exists(v)
  /\ Begins(r, v, "patch")
  /\ read' = [read EXCEPT ![r] = row[v]]
  /\ UNCHANGED row

\* A save of r, which answers it, or fails.
Saves(r, newRow) ==
  /\ Over(r)
  /\ \/ row' = newRow /\ UNCHANGED faults
     \/ Fault("db") /\ UNCHANGED row
  /\ UNCHANGED <<upload, jobs, renditions, kafka, workerVars, consumerVars>>

\* serializer.save() names no columns: the whole row it has read goes back.
PatchSave(r) ==
  /\ rpc[r] = "patch"
  /\ Saves(r, [row EXCEPT ![rvid[r]] = read[r]])

DeleteRead(r, v) ==
  /\ Exists(v)
  /\ Begins(r, v, "delete")
  /\ UNCHANGED <<row, read>>

\* A soft delete: the renditions, the jobs and the events in flight stay.
DeleteSave(r) ==
  /\ rpc[r] = "delete"
  /\ Saves(r, [row EXCEPT ![rvid[r]].status = "deleted", ![rvid[r]].deleted = TRUE])

\* Slip: a video is published whatever its status.
PublishReadAny(r, v) ==
  /\ Exists(v)
  /\ Begins(r, v, "publish")
  /\ UNCHANGED <<row, read>>

PublishRead(r, v) ==
  /\ Exists(v) /\ row[v].status = "ready"
  /\ Begins(r, v, "publish")
  /\ UNCHANGED <<row, read>>

PublishSave(r) ==
  /\ rpc[r] = "publish"
  /\ Saves(r, [row EXCEPT ![rvid[r]].published = TRUE])

\* from_live registers a replay, whose files live-service has written.
FromLive(r, v) ==
  /\ row[v].status = "none"
  /\ Arrives(r)
  /\ row' = [row EXCEPT ![v] = [status |-> "ready", manifest |-> TRUE,
               published |-> TRUE, deleted |-> FALSE, live |-> TRUE]]
  /\ UNCHANGED <<upload, jobs, renditions, kafka, reqVars, workerVars,
                 consumerVars>>

\* A gunicorn process is killed with its request and what its producer holds.
RequestCut(r) ==
  /\ rpc[r] # "idle" \/ \E v \in Videos : buffer[r][v] > 0
  /\ Fault("request")
  /\ Over(r)
  /\ Unbuffers({r})
  /\ UNCHANGED <<tables, renditions, events, workerVars, consumerVars>>

RequestStep(r) ==
  \/ InitSession(r) \/ CompleteS3(r) \/ CompleteSave(r) \/ CompleteJob(r)
  \/ CompletePublish(r) \/ PatchSave(r) \/ DeleteSave(r) \/ PublishSave(r)

NewRequest(r, v) ==
  \/ InitVideo(r, v) \/ CompleteRead(r, v) \/ PatchRead(r, v) \/ DeleteRead(r, v)
  \/ PublishRead(r, v) \/ FromLive(r, v)

-----------------------------------------------------------------------------
(* transcode-worker: one event at a time, committed when it is dealt with *)

WorkerPoll(v) ==
  /\ wpc = "idle"
  /\ events["uploaded"][v] > 0
  /\ wpc' = "run" /\ wvid' = v /\ tries' = 0
  /\ UNCHANGED <<tables, renditions, kafka, reqVars, consumerVars, bounds>>

\* Slip: the last failed run is announced like a successful one.
AfterFailedRunSucceeds == IF tries + 1 < MaxRetries THEN "run" ELSE "success"

\* tenacity runs the pipeline again, or gives up.
AfterFailedRun == IF tries + 1 < MaxRetries THEN "run" ELSE "failure"

\* One run of the pipeline: download, probe, transcode and upload may each fail,
\* and the files count when the last of them is uploaded.
WorkerRun ==
  /\ wpc = "run"
  /\ \/ /\ renditions' = renditions \cup {wvid}
        /\ wpc' = "success"
        /\ UNCHANGED tries
     \/ /\ wpc' = AfterFailedRun
        /\ tries' = tries + 1
        /\ UNCHANGED renditions
  /\ UNCHANGED <<tables, kafka, reqVars, wvid, consumerVars, bounds>>

\* video.transcoded, or video.transcode_failed and a copy in the dead letter queue;
\* a publish that fails is logged.
WorkerPublish ==
  /\ wpc \in {"success", "failure"}
  /\ wpc' = "commit"
  /\ \/ /\ Send(IF wpc = "success" THEN "transcoded" ELSE "failed", wvid)
        /\ UNCHANGED faults
     \/ Fault("kafka") /\ UNCHANGED events
  /\ UNCHANGED <<tables, renditions, producers, reqVars, wvid, tries, consumerVars,
                 served, crashes>>

WorkerCommit ==
  /\ wpc = "commit"
  /\ Commit("uploaded", wvid)
  /\ wpc' = "idle" /\ wvid' = NoVideo /\ tries' = 0
  /\ UNCHANGED <<tables, renditions, producers, reqVars, consumerVars, bounds>>

\* Slip: enable.auto.commit is left on.
WorkerCrashCommits ==
  /\ wpc # "idle" /\ crashes < MaxCrashes
  /\ crashes' = crashes + 1
  /\ Commit("uploaded", wvid)
  /\ wpc' = "idle" /\ wvid' = NoVideo /\ tries' = 0
  /\ UNCHANGED <<tables, renditions, producers, reqVars, consumerVars, served, faults>>

\* The event is delivered again to the next worker.
WorkerCrash ==
  /\ wpc # "idle" /\ crashes < MaxCrashes
  /\ crashes' = crashes + 1
  /\ wpc' = "idle" /\ wvid' = NoVideo /\ tries' = 0
  /\ UNCHANGED <<tables, renditions, kafka, reqVars, consumerVars, served, faults>>

WorkerStep == (\E v \in Videos : WorkerPoll(v)) \/ WorkerRun \/ WorkerPublish \/ WorkerCommit

-----------------------------------------------------------------------------
(* consume_transcode_events: the outcome goes into the row of the video *)

ConsumerPoll(topic, v) ==
  /\ cpc = "idle"
  /\ events[topic][v] > 0
  /\ cpc' = "save" /\ ctopic' = topic /\ cvid' = v
  /\ UNCHANGED <<tables, renditions, kafka, reqVars, workerVars, bounds>>

\* _handle_transcoded and _handle_failed look at no status, and an error only
\* leads to the commit of the event.
ConsumerSave ==
  /\ cpc = "save"
  /\ \/ /\ row' = IF ctopic = "transcoded"
                  THEN [row EXCEPT ![cvid].status = "ready", ![cvid].manifest = TRUE]
                  ELSE [row EXCEPT ![cvid].status = "failed"]
        /\ cpc' = "jobs" /\ UNCHANGED faults
     \/ Fault("db") /\ cpc' = "commit" /\ UNCHANGED row
  /\ UNCHANGED <<upload, jobs, renditions, kafka, reqVars, workerVars, ctopic, cvid,
                 served, crashes>>

\* Every job of the video gets the outcome.
ConsumerJobs ==
  /\ cpc = "jobs"
  /\ cpc' = "commit"
  /\ \/ jobs' = [jobs EXCEPT ![cvid] = 0] /\ UNCHANGED faults
     \/ Fault("db") /\ UNCHANGED jobs
  /\ UNCHANGED <<row, upload, renditions, kafka, reqVars, workerVars, ctopic, cvid,
                 served, crashes>>

\* When the commit fails, the handler of that error commits again and fails for good:
\* the consumer is gone, and gunicorn beside it keeps the container up.
ConsumerCommit ==
  /\ cpc = "commit"
  /\ cvid' = NoVideo
  /\ \/ Commit(ctopic, cvid) /\ cpc' = "idle" /\ UNCHANGED faults
     \/ Fault("kafka") /\ cpc' = "down" /\ UNCHANGED events
  /\ UNCHANGED <<tables, renditions, producers, reqVars, workerVars, ctopic, served,
                 crashes>>

ConsumerStep ==
  \/ \E topic \in Outcomes, v \in Videos : ConsumerPoll(topic, v)
  \/ ConsumerSave \/ ConsumerJobs \/ ConsumerCommit

-----------------------------------------------------------------------------
(* The container of video-service, which Docker restarts *)

\* Between requests this is no fault of a call, though the producers may hold events.
ServiceRestart ==
  /\ \/ /\ \A r \in Requests : rpc[r] = "idle"
        /\ cpc # "idle" \/ \E r \in Requests, v \in Videos : buffer[r][v] > 0
        /\ UNCHANGED faults
     \/ (\E r \in Requests : rpc[r] # "idle") /\ Fault("request")
  /\ crashes < MaxCrashes
  /\ crashes' = crashes + 1
  /\ rpc' = [r \in Requests |-> "idle"]
  /\ rvid' = [r \in Requests |-> NoVideo]
  /\ read' = [r \in Requests |-> NoRow]
  /\ cpc' = "idle" /\ cvid' = NoVideo
  /\ Unbuffers(Requests)
  /\ UNCHANGED <<tables, renditions, workerVars, ctopic, served>>

\* Slip: the event polled before a crash counts as consumed.
ServiceCrashCommits ==
  /\ ServiceRestart
  /\ events' = IF cpc \in {"save", "jobs", "commit"}
               THEN [events EXCEPT ![ctopic][cvid] = @ - 1] ELSE events

\* Requests end where they are; an event that is not committed is polled again.
ServiceCrash == ServiceRestart /\ UNCHANGED events

-----------------------------------------------------------------------------
Next ==
  \/ \E r \in Requests :
       \/ RequestStep(r) \/ RequestCut(r)
       \/ \E v \in Videos : NewRequest(r, v) \/ Delivers(r, v)
  \/ WorkerStep \/ WorkerCrash
  \/ ConsumerStep
  \/ ServiceCrash

Spec == Init /\ [][Next]_vars

\* A request once begun goes on, and so do the producer of a process that lives and the
\* loops of the worker and of a consumer that is up: docker-compose restarts their
\* containers.  Nobody makes a request, and
\* nobody restarts a consumer that has ended beside gunicorn.
FairSpec ==
  /\ Spec
  /\ \A r \in Requests : WF_vars(RequestStep(r)) /\ WF_vars(\E v \in Videos : Delivers(r, v))
  /\ WF_vars(WorkerStep) /\ WF_vars(ConsumerStep)

-----------------------------------------------------------------------------
(* The specification that VideoPipeline implements: what the requests in flight *)
(* and the producers may still do, and what the topics hold.                   *)

Wish == [s3 |-> "complete", save |-> "complete", job |-> "send", event |-> "send",
         patch |-> "patch", delete |-> "delete", publish |-> "publish"]

Buffered(v) == \E r \in Requests : buffer[r][v] > 0

Pending ==
  [v \in Videos |->
     {[kind |-> Wish[rpc[r]], row |-> IF rpc[r] = "patch" THEN read[r] ELSE NoRow] :
        r \in {q \in Requests : rvid[q] = v /\ rpc[q] \in DOMAIN Wish}}
     \cup {w \in {[kind |-> "send", row |-> NoRow]} : Buffered(v)}]

Assembled == {v \in Videos : upload[v] = "stored"}
HandedOver == {v \in Videos : events["uploaded"][v] > 0}
Told == [v \in Videos |-> {outcome \in Outcomes : events[outcome][v] > 0}]

Lifecycle == INSTANCE VideoLifecycle WITH
  pending <- Pending, stored <- Assembled, owed <- HandedOver, files <- renditions,
  answers <- Told

\* The views, the worker and the consumer together: whatever interleaves, is repeated,
\* fails or crashes, a file is assembled, handed over, transcoded and answered for in this
\* order, and no request changes a row otherwise than it was free to when it read it.
LifecycleSpec == Lifecycle!Spec

-----------------------------------------------------------------------------
(* Properties *)

\* _PUBLISHED_BASE: what the catalogue shows.
Visible(v) == row[v].status = "ready" /\ row[v].published /\ ~row[v].deleted

\* What viewers find can be played: whatever order stale edits, publications,
\* repeated runs and repeated or swapped outcomes have written its row in, a
\* visible video has its manifest, and the files the manifest names exist.
VisibleIsPlayable ==
  \A v \in Videos :
    Visible(v) => row[v].manifest /\ (v \in renditions \/ row[v].live)

\* UploadComplete: no video is handed to the worker before S3 has assembled its
\* file, whichever of several complete requests fails, is refused or repeated.
UploadedIsStored ==
  \A v \in Videos : events["uploaded"][v] > 0 \/ wvid = v => upload[v] = "stored"

\* A video.uploaded event that no run has dealt with yet.
Owed(v) == events["uploaded"][v] > 0 /\ ~(wvid = v /\ wpc = "commit")

\* A video.uploaded event is followed by an outcome in the row of its video, across
\* crashes of the worker and of video-service, as long as no call fails.
EventIsAnswered ==
  \A v \in Videos :
    Owed(v) ~> row[v].status \in {"ready", "failed"} \/ faults > 0

\* The jobs of a video do not stay pending: a job is created before its event is
\* sent, so even with several complete requests the last outcome closes them all, as
\* long as no call fails and no process ends with the event in its buffer.
JobsSettle ==
  \A v \in Videos : jobs[v] > 0 ~> jobs[v] = 0 \/ faults > 0 \/ v \in unsent
=============================================================================
