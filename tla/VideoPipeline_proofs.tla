------------------------ MODULE VideoPipeline_proofs ------------------------
(***************************************************************************)
(* Proofs about VideoPipeline, for every number of videos, requests,       *)
(* retries, failing calls and crashes.                                     *)
(*                                                                         *)
(* IInv is the inductive invariant: an event in the hands of a loop is     *)
(* still in its topic (Held), an event is sent or buffered for a stored    *)
(* file only (Stored, Sendable), and a row, a row that a patch has read,   *)
(* an outcome on its way and a run that has succeeded all know files that  *)
(* exist (Playable).                                                       *)
(*                                                                         *)
(* The refinement reads the wishes of VideoLifecycle off the requests: one *)
(* that is about to write a row wants what it has found allowed (Wanted,   *)
(* Wishing).  IInv gives each step what its abstract step requires: a      *)
(* request that queues or hands over a video has its file stored (Stored), *)
(* the worker's event is owed and the consumer's is an answer (Held), and  *)
(* a success is told when the files are there (Playable).                  *)
(***************************************************************************)
EXTENDS VideoPipeline, TLAPS

Held ==
  /\ wpc # "idle" => wvid \in Videos /\ events["uploaded"][wvid] > 0
  /\ wpc = "idle" => wvid = NoVideo
  /\ cpc \notin {"idle", "down"} => cvid \in Videos /\ events[ctopic][cvid] > 0
  /\ \A r \in Requests : rpc[r] # "idle" => rvid[r] \in Videos

\* Only one request can be opening the upload of a video, before any other needs it.
Stored ==
  /\ \A v \in Videos : events["uploaded"][v] > 0 => upload[v] = "stored"
  /\ \A v \in Videos : upload[v] # "none" => row[v].status # "none"
  /\ \A r \in Requests :
       /\ rpc[r] \in {"save", "job", "event"} => upload[rvid[r]] = "stored"
       /\ rpc[r] = "s3" => upload[rvid[r]] # "none"
       /\ rpc[r] = "patch" => read[r].status # "none"
       /\ rpc[r] = "session" => upload[rvid[r]] = "none" /\ row[rvid[r]].status # "none"
  /\ \A q, r \in Requests :
       rpc[q] = "session" /\ rpc[r] = "session" /\ rvid[q] = rvid[r] => q = r

\* A producer holds events of stored files only.
Sendable == \A r \in Requests, v \in Videos : buffer[r][v] > 0 => upload[v] = "stored"

\* A row that says ready names files that exist.
Good(v, w) == w.status = "ready" => w.manifest /\ (v \in renditions \/ w.live)

Playable ==
  /\ \A v \in Videos : Good(v, row[v])
  /\ \A r \in Requests : rpc[r] = "patch" => Good(rvid[r], read[r])
  /\ \A v \in Videos : events["transcoded"][v] > 0 => v \in renditions
  /\ wpc = "success" => wvid \in renditions

IInv == TypeOK /\ Held /\ Stored /\ Sendable /\ Playable

-----------------------------------------------------------------------------
(* What a save leaves in a row.                                               *)

\* The rows after each kind of save.
WithStatus(v, st) == [row EXCEPT ![v].status = st]
SoftDeleted(v) == [row EXCEPT ![v].status = "deleted", ![v].deleted = TRUE]
Published(v) == [row EXCEPT ![v].published = TRUE]
Transcoded(v) == [row EXCEPT ![v].status = "ready", ![v].manifest = TRUE]

\* A save of the status alone.
LEMMA StatusRow ==
  ASSUME row \in [Videos -> Row], NEW v \in Videos, NEW st \in Statuses,
         row' = WithStatus(v, st)
  PROVE  /\ row' \in [Videos -> Row]
         /\ row'[v].status = st
         /\ \A u \in Videos : u # v => row'[u] = row[u]
<1>1. \A u \in Videos : row[u] \in Row
  OBVIOUS
<1>2. row'[v] = [row[v] EXCEPT !.status = st]
  BY DEF WithStatus
<1>3. \A u \in Videos : u # v => row'[u] = row[u]
  BY DEF WithStatus
<1>4. row'[v] \in Row
  BY <1>1, <1>2 DEF Row
<1>5. row'[v].status = st
  BY <1>1, <1>2 DEF Row
<1>6. row' \in [Videos -> Row]
  BY <1>1, <1>3, <1>4 DEF WithStatus
<1> QED
  BY <1>3, <1>4, <1>5, <1>6

\* A soft delete.
LEMMA DeletedRow ==
  ASSUME row \in [Videos -> Row], NEW v \in Videos,
         row' = SoftDeleted(v)
  PROVE  /\ row' \in [Videos -> Row]
         /\ row'[v].status = "deleted"
         /\ \A u \in Videos : u # v => row'[u] = row[u]
<1>1. \A u \in Videos : row[u] \in Row
  OBVIOUS
<1>2. row'[v] = [row[v] EXCEPT !.status = "deleted", !.deleted = TRUE]
  BY DEF SoftDeleted
<1>3. \A u \in Videos : u # v => row'[u] = row[u]
  BY DEF SoftDeleted
<1>4. row'[v] \in Row
  BY <1>1, <1>2 DEF Row, Statuses
<1>5. row'[v].status = "deleted"
  BY <1>1, <1>2 DEF Row
<1>6. row' \in [Videos -> Row]
  BY <1>1, <1>3, <1>4 DEF SoftDeleted
<1> QED
  BY <1>3, <1>4, <1>5, <1>6

\* A publication.
LEMMA PublishedRow ==
  ASSUME row \in [Videos -> Row], NEW v \in Videos,
         row' = Published(v)
  PROVE  /\ row' \in [Videos -> Row]
         /\ row'[v].status = row[v].status
         /\ row'[v].manifest = row[v].manifest
         /\ row'[v].live = row[v].live
         /\ \A u \in Videos : u # v => row'[u] = row[u]
<1>1. \A u \in Videos : row[u] \in Row
  OBVIOUS
<1>2. row'[v] = [row[v] EXCEPT !.published = TRUE]
  BY DEF Published
<1>3. \A u \in Videos : u # v => row'[u] = row[u]
  BY DEF Published
<1>4. /\ row'[v] \in Row /\ row'[v].status = row[v].status
      /\ row'[v].manifest = row[v].manifest /\ row'[v].live = row[v].live
  BY <1>1, <1>2 DEF Row, Statuses
<1>5. row' \in [Videos -> Row]
  BY <1>1, <1>3, <1>4 DEF Published
<1> QED
  BY <1>3, <1>4, <1>5

\* The outcome of a successful run.
LEMMA ReadyRow ==
  ASSUME row \in [Videos -> Row], NEW v \in Videos,
         row' = Transcoded(v)
  PROVE  /\ row' \in [Videos -> Row]
         /\ row'[v].status = "ready" /\ row'[v].manifest
         /\ \A u \in Videos : u # v => row'[u] = row[u]
<1>1. \A u \in Videos : row[u] \in Row
  OBVIOUS
<1>2. row'[v] = [row[v] EXCEPT !.status = "ready", !.manifest = TRUE]
  BY DEF Transcoded
<1>3. \A u \in Videos : u # v => row'[u] = row[u]
  BY DEF Transcoded
<1>4. row'[v] \in Row /\ row'[v].status = "ready" /\ row'[v].manifest
  BY <1>1, <1>2 DEF Row, Statuses
<1>5. row' \in [Videos -> Row]
  BY <1>1, <1>3, <1>4 DEF Transcoded
<1> QED
  BY <1>3, <1>4, <1>5

\* One event more in a topic.
LEMMA SendType ==
  ASSUME events \in [Topics -> [Videos -> Nat]], NEW topic \in Topics,
         NEW v \in Videos, Send(topic, v)
  PROVE  /\ events' \in [Topics -> [Videos -> Nat]]
         /\ \A t \in Topics, u \in Videos :
              events'[t][u] > 0 <=> events[t][u] > 0 \/ (t = topic /\ u = v)
<1>1. [events[topic] EXCEPT ![v] = events[topic][v] + 1] \in [Videos -> Nat]
  OBVIOUS
<1>2. events' = [events EXCEPT ![topic][v] = events[topic][v] + 1]
  BY DEF Send
<1>3. \A t \in Topics, u \in Videos : events[t][u] \in Nat
  OBVIOUS
<1>4. ASSUME NEW t \in Topics, NEW u \in Videos
      PROVE  events'[t][u] > 0 <=> events[t][u] > 0 \/ (t = topic /\ u = v)
  BY <1>2, <1>3
<1> QED
  BY <1>1, <1>2, <1>4

\* One event fewer in the buffer of a producer.
LEMMA Unbuffered ==
  ASSUME buffer \in [Requests -> [Videos -> Nat]], NEW r \in Requests, NEW v \in Videos,
         Delivers(r, v)
  PROVE  /\ buffer' \in [Requests -> [Videos -> Nat]]
         /\ \A q \in Requests, u \in Videos : buffer'[q][u] > 0 => buffer[q][u] > 0
<1>1. buffer' = [buffer EXCEPT ![r][v] = buffer[r][v] - 1] /\ buffer[r][v] > 0
  BY DEF Delivers
<1>2. [buffer[r] EXCEPT ![v] = buffer[r][v] - 1] \in [Videos -> Nat]
  BY <1>1
<1>3. ASSUME NEW q \in Requests, NEW u \in Videos, buffer'[q][u] > 0
      PROVE  buffer[q][u] > 0
  BY <1>1, <1>3
<1> QED
  BY <1>1, <1>2, <1>3

\* One event more.
LEMMA BufferedType ==
  ASSUME buffer \in [Requests -> [Videos -> Nat]], NEW r \in Requests, NEW v \in Videos,
         buffer' = [buffer EXCEPT ![r][v] = buffer[r][v] + 1]
  PROVE  /\ buffer' \in [Requests -> [Videos -> Nat]]
         /\ \A q \in Requests, u \in Videos :
              buffer'[q][u] > 0 => buffer[q][u] > 0 \/ (q = r /\ u = v)
<1>1. [buffer[r] EXCEPT ![v] = buffer[r][v] + 1] \in [Videos -> Nat]
  OBVIOUS
<1>2. ASSUME NEW q \in Requests, NEW u \in Videos, buffer'[q][u] > 0
      PROVE  buffer[q][u] > 0 \/ (q = r /\ u = v)
  BY <1>2
<1> QED
  BY <1>1, <1>2

\* Processes that end leave nothing in their buffers.
LEMMA UnbufferedAll ==
  ASSUME buffer \in [Requests -> [Videos -> Nat]], unsent \subseteq Videos,
         NEW ended, Unbuffers(ended)
  PROVE  /\ buffer' \in [Requests -> [Videos -> Nat]] /\ unsent' \subseteq Videos
         /\ \A q \in Requests, u \in Videos :
              buffer'[q][u] > 0 => buffer[q][u] > 0 /\ q \notin ended
BY DEF Unbuffers

-----------------------------------------------------------------------------
(* Type correctness, with the events that the loops hold.                     *)

\* The empty system has its types.
LEMMA TypeInit == Init => TypeOK
  BY DEF Init, TypeOK, TableTypes, RequestTypes, LoopTypes, Row, NoRow, RequestPCs,
     Outcomes, Statuses

\* A failing call counts within the naturals.
LEMMA FaultNat == ASSUME LoopTypes, NEW f, Fault(f) PROVE faults' \in Nat
  BY DEF Fault, LoopTypes

\* Every step keeps the types: one case per action of VideoPipeline.
LEMMA TypeStep == ASSUME TypeOK, Held, [Next]_vars PROVE TypeOK'
<1> USE DEF tables, reqVars, workerVars, consumerVars, bounds, kafka, producers
<1> USE FaultNat DEF TypeOK, TableTypes, RequestTypes, LoopTypes
<1>1. ASSUME NEW r \in Requests, InitSession(r) PROVE TypeOK'
  BY <1>1
     DEF InitSession, Over, Row, NoRow, RequestPCs, Statuses, Outcomes, Topics, Held
<1>2. ASSUME NEW r \in Requests, CompleteS3(r) PROVE TypeOK'
  <2>1. /\ rvid[r] \in Videos
        /\ UNCHANGED <<row, jobs, renditions, kafka, workerVars, consumerVars>>
    BY <1>2 DEF CompleteS3, Held
  <2>2. upload' \in [Videos -> {"none", "open", "stored"}]
    BY <1>2 DEF CompleteS3
  <2>3. faults' \in Nat
    BY <1>2 DEF CompleteS3
  <2>4. CASE Over(r)
    BY <2>1, <2>2, <2>3, <2>4 DEF Over, NoRow, Row, Statuses, RequestPCs
  <2>5. CASE At(r, "save")
    BY <2>1, <2>2, <2>3, <2>5 DEF At, RequestPCs
  <2> QED
    BY <1>2, <2>4, <2>5 DEF CompleteS3
<1>3. ASSUME NEW r \in Requests, CompleteSave(r) PROVE TypeOK'
  <2>1. rvid[r] \in Videos
    BY <1>3 DEF CompleteSave, Held
  <2>2. /\ rpc[r] = "save"
        /\ UNCHANGED <<upload, jobs, renditions, kafka, workerVars, consumerVars>>
    BY <1>3 DEF CompleteSave
  <2>3. CASE row' = WithStatus(rvid[r], "processing") /\ At(r, "job") /\ UNCHANGED faults
    <3>1. /\ row' \in [Videos -> Row]
          /\ row'[rvid[r]].status = "processing"
          /\ \A u \in Videos : u # rvid[r] => row'[u] = row[u]
      BY <2>1, <2>3, StatusRow DEF Statuses
    <3>2. At(r, "job") /\ UNCHANGED faults
      BY <2>3
    <3> QED
      BY <2>1, <2>2, <3>1, <3>2
         DEF At, Over, Row, NoRow, RequestPCs, Statuses, Outcomes, Topics, Held
  <2>4. CASE Fault("db") /\ Over(r) /\ UNCHANGED row
    BY <2>1, <2>2, <2>4
       DEF At, Over, Row, NoRow, RequestPCs, Statuses, Outcomes, Topics, Held
  <2> QED
    BY <1>3, <2>3, <2>4 DEF CompleteSave, WithStatus
<1>4. ASSUME NEW r \in Requests, CompleteJob(r) PROVE TypeOK'
  <2>1. /\ rvid[r] \in Videos
        /\ UNCHANGED <<row, upload, renditions, kafka, workerVars, consumerVars>>
    BY <1>4 DEF CompleteJob, Held
  <2>2. jobs' \in [Videos -> Nat]
    BY <1>4 DEF CompleteJob
  <2>3. faults' \in Nat
    BY <1>4 DEF CompleteJob
  <2>4. CASE Over(r)
    BY <2>1, <2>2, <2>3, <2>4 DEF Over, NoRow, Row, Statuses, RequestPCs
  <2>5. CASE At(r, "event")
    BY <2>1, <2>2, <2>3, <2>5 DEF At, RequestPCs
  <2> QED
    BY <1>4, <2>4, <2>5 DEF CompleteJob
<1>5. ASSUME NEW r \in Requests, CompletePublish(r) PROVE TypeOK'
  <2>1. /\ rvid[r] \in Videos /\ Over(r)
        /\ UNCHANGED <<tables, renditions, events, unsent, workerVars, consumerVars>>
    BY <1>5 DEF CompletePublish, Held
  <2>2. buffer' \in [Requests -> [Videos -> Nat]]
    BY <1>5, <2>1, BufferedType DEF CompletePublish
  <2>3. faults' \in Nat
    BY <1>5 DEF CompletePublish
  <2> QED
    BY <2>1, <2>2, <2>3 DEF Over, NoRow, Row, RequestPCs, Statuses
<1>6. ASSUME NEW r \in Requests, PatchSave(r) PROVE TypeOK'
  <2>1. /\ rvid[r] \in Videos /\ Over(r)
        /\ UNCHANGED <<upload, jobs, renditions, kafka, workerVars, consumerVars>>
    BY <1>6 DEF PatchSave, Saves, Held
  <2>2. row' \in [Videos -> Row] /\ faults' \in Nat
    BY <1>6, <2>1 DEF PatchSave, Saves
  <2> QED
    BY <2>1, <2>2 DEF Over, Row, NoRow, RequestPCs, Statuses
<1>7. ASSUME NEW r \in Requests, DeleteSave(r) PROVE TypeOK'
  <2>1. rvid[r] \in Videos
    BY <1>7 DEF DeleteSave, Held
  <2>2. /\ rpc[r] = "delete" /\ Over(r)
        /\ UNCHANGED <<upload, jobs, renditions, kafka, workerVars, consumerVars>>
    BY <1>7 DEF DeleteSave, Saves
  <2>3. CASE row' = SoftDeleted(rvid[r]) /\ UNCHANGED faults
    <3>1. /\ row' \in [Videos -> Row]
          /\ row'[rvid[r]].status = "deleted"
          /\ \A u \in Videos : u # rvid[r] => row'[u] = row[u]
      BY <2>1, <2>3, DeletedRow
    <3>2. UNCHANGED faults
      BY <2>3
    <3> QED
      BY <2>1, <2>2, <3>1, <3>2
         DEF Over, Row, NoRow, RequestPCs, Statuses, Outcomes, Topics, Held
  <2>4. CASE Fault("db") /\ UNCHANGED row
    BY <2>1, <2>2, <2>4
       DEF Over, Row, NoRow, RequestPCs, Statuses, Outcomes, Topics, Held
  <2> QED
    BY <1>7, <2>3, <2>4 DEF DeleteSave, Saves, SoftDeleted
<1>8. ASSUME NEW r \in Requests, PublishSave(r) PROVE TypeOK'
  <2>1. rvid[r] \in Videos
    BY <1>8 DEF PublishSave, Held
  <2>2. /\ rpc[r] = "publish" /\ Over(r)
        /\ UNCHANGED <<upload, jobs, renditions, kafka, workerVars, consumerVars>>
    BY <1>8 DEF PublishSave, Saves
  <2>3. CASE row' = Published(rvid[r]) /\ UNCHANGED faults
    <3>1. /\ row' \in [Videos -> Row]
          /\ /\ row'[rvid[r]].status = row[rvid[r]].status
             /\ row'[rvid[r]].manifest = row[rvid[r]].manifest
             /\ row'[rvid[r]].live = row[rvid[r]].live
          /\ \A u \in Videos : u # rvid[r] => row'[u] = row[u]
      BY <2>1, <2>3, PublishedRow
    <3>2. UNCHANGED faults
      BY <2>3
    <3> QED
      BY <2>1, <2>2, <3>1, <3>2
         DEF Over, Row, NoRow, RequestPCs, Statuses, Outcomes, Topics, Held
  <2>4. CASE Fault("db") /\ UNCHANGED row
    BY <2>1, <2>2, <2>4
       DEF Over, Row, NoRow, RequestPCs, Statuses, Outcomes, Topics, Held
  <2> QED
    BY <1>8, <2>3, <2>4 DEF PublishSave, Saves, Published
<1>9. ASSUME NEW r \in Requests, RequestCut(r) PROVE TypeOK'
  BY <1>9, UnbufferedAll DEF RequestCut, Over, Row, NoRow, RequestPCs, Statuses, Outcomes, Topics, Held
<1>10. ASSUME NEW r \in Requests, NEW v \in Videos, InitVideo(r, v) PROVE TypeOK'
  <2>1. row' = WithStatus(v, "uploading")
    BY <1>10 DEF InitVideo, WithStatus
  <2>2. row' \in [Videos -> Row]
    BY <2>1, StatusRow DEF Statuses
  <2>3. Begins(r, v, "session") /\ UNCHANGED read
    BY <1>10 DEF InitVideo
  <2> QED
    BY <2>2, <2>3 DEF Begins, Arrives, RequestPCs
<1>11. ASSUME NEW r \in Requests, NEW v \in Videos, CompleteRead(r, v) PROVE TypeOK'
  BY <1>11
     DEF CompleteRead, Begins, Arrives, Row, NoRow, RequestPCs, Statuses, Outcomes,
         Topics, Held
<1>12. ASSUME NEW r \in Requests, NEW v \in Videos, PatchRead(r, v) PROVE TypeOK'
  BY <1>12
     DEF PatchRead, Begins, Arrives, Row, NoRow, RequestPCs, Statuses, Outcomes, Topics,
         Held
<1>13. ASSUME NEW r \in Requests, NEW v \in Videos, DeleteRead(r, v) PROVE TypeOK'
  BY <1>13
     DEF DeleteRead, Begins, Arrives, Row, NoRow, RequestPCs, Statuses, Outcomes,
         Topics, Held
<1>14. ASSUME NEW r \in Requests, NEW v \in Videos, PublishRead(r, v) PROVE TypeOK'
  BY <1>14
     DEF PublishRead, Begins, Arrives, Row, NoRow, RequestPCs, Statuses, Outcomes,
         Topics, Held
<1>15. ASSUME NEW r \in Requests, NEW v \in Videos, FromLive(r, v) PROVE TypeOK'
  BY <1>15
     DEF FromLive, Arrives, Row, NoRow, RequestPCs, Statuses, Outcomes, Topics, Held
<1>16. ASSUME NEW v \in Videos, WorkerPoll(v) PROVE TypeOK'
  BY <1>16 DEF WorkerPoll, Row, NoRow, RequestPCs, Statuses, Outcomes, Topics, Held
<1>17. ASSUME NEW topic \in Outcomes, NEW v \in Videos, ConsumerPoll(topic, v)
      PROVE TypeOK'
  BY <1>17 DEF ConsumerPoll, Row, NoRow, RequestPCs, Statuses, Outcomes, Topics, Held
<1>18. CASE WorkerRun
  BY <1>18
     DEF WorkerRun, AfterFailedRun, Row, NoRow, RequestPCs, Statuses, Outcomes, Topics,
         Held
<1>19. CASE WorkerPublish
  <2>1. wvid \in Videos /\ wpc' = "commit"
    BY <1>19 DEF WorkerPublish, Held
  <2>2. events' \in [Topics -> [Videos -> Nat]]
    BY <1>19, <2>1, SendType DEF WorkerPublish, Topics, Outcomes
  <2>3. faults' \in Nat
    BY <1>19 DEF WorkerPublish
  <2>4. UNCHANGED <<tables, renditions, producers, reqVars, wvid, tries, consumerVars,
                  served, crashes>>
    BY <1>19 DEF WorkerPublish
  <2> QED
    BY <2>1, <2>2, <2>3, <2>4
<1>20. CASE WorkerCommit
  BY <1>20
     DEF WorkerCommit, Commit, Row, NoRow, RequestPCs, Statuses, Outcomes, Topics, Held
<1>21. CASE WorkerCrash
  BY <1>21 DEF WorkerCrash, Row, NoRow, RequestPCs, Statuses, Outcomes, Topics, Held
<1>22. CASE ConsumerSave
  <2>1. cvid \in Videos /\ cpc = "save" /\ events[ctopic][cvid] > 0
    BY <1>22 DEF ConsumerSave, Held
  <2>2. UNCHANGED <<upload, jobs, renditions, kafka, reqVars, workerVars, ctopic, cvid,
                    served, crashes>>
    BY <1>22 DEF ConsumerSave
  <2>3. CASE Fault("db") /\ cpc' = "commit" /\ UNCHANGED row
    BY <2>1, <2>2, <2>3 DEF Row, NoRow, RequestPCs, Statuses, Outcomes, Topics, Held
  <2>4. CASE /\ ctopic = "transcoded" /\ cpc' = "jobs" /\ UNCHANGED faults
             /\ row' = Transcoded(cvid)
    <3>1. /\ row' \in [Videos -> Row]
          /\ row'[cvid].status = "ready" /\ row'[cvid].manifest
          /\ \A u \in Videos : u # cvid => row'[u] = row[u]
      BY <2>1, <2>4, ReadyRow
    <3>2. ctopic = "transcoded" /\ cpc' = "jobs" /\ UNCHANGED faults
      BY <2>4
    <3> QED
      BY <2>1, <2>2, <3>1, <3>2
         DEF Row, NoRow, RequestPCs, Statuses, Outcomes, Topics, Held
  <2>5. CASE /\ ctopic # "transcoded" /\ cpc' = "jobs" /\ UNCHANGED faults
             /\ row' = WithStatus(cvid, "failed")
    <3>1. /\ row' \in [Videos -> Row]
          /\ row'[cvid].status = "failed"
          /\ \A u \in Videos : u # cvid => row'[u] = row[u]
      BY <2>1, <2>5, StatusRow DEF Statuses
    <3>2. ctopic # "transcoded" /\ cpc' = "jobs" /\ UNCHANGED faults
      BY <2>5
    <3> QED
      BY <2>1, <2>2, <3>1, <3>2
         DEF Row, NoRow, RequestPCs, Statuses, Outcomes, Topics, Held
  <2> QED
    BY <1>22, <2>3, <2>4, <2>5 DEF ConsumerSave, WithStatus, Transcoded
<1>23. CASE ConsumerJobs
  <2>1. cvid \in Videos /\ cpc' = "commit" /\ jobs' \in [Videos -> Nat] /\ faults' \in Nat
    BY <1>23 DEF ConsumerJobs, Held
  <2>2. UNCHANGED <<row, upload, renditions, kafka, reqVars, workerVars, ctopic, cvid,
                    served, crashes>>
    BY <1>23 DEF ConsumerJobs
  <2> QED
    BY <2>1, <2>2
<1>24. CASE ConsumerCommit
  <2>1. cvid \in Videos /\ ctopic \in Topics /\ events[ctopic][cvid] > 0
    BY <1>24 DEF ConsumerCommit, Held, Topics
  <2>2. /\ UNCHANGED <<tables, renditions, producers, reqVars, workerVars, ctopic, served,
                       crashes>>
        /\ cvid' = NoVideo
    BY <1>24 DEF ConsumerCommit
  <2>3. CASE Commit(ctopic, cvid) /\ cpc' = "idle" /\ UNCHANGED faults
    <3>1. events' \in [Topics -> [Videos -> Nat]]
      BY <2>1, <2>3 DEF Commit
    <3> QED
      BY <2>2, <2>3, <3>1
  <2>4. CASE Fault("kafka") /\ cpc' = "down" /\ UNCHANGED events
    BY <2>2, <2>4
  <2> QED
    BY <1>24, <2>3, <2>4 DEF ConsumerCommit
<1>25. CASE ServiceCrash
  BY <1>25, UnbufferedAll
     DEF ServiceCrash, ServiceRestart, Fault, Row, NoRow, RequestPCs, Statuses,
         Outcomes, Topics, Held
<1>26. CASE UNCHANGED vars
  BY <1>26 DEF vars, Row, NoRow, RequestPCs, Statuses, Outcomes, Topics, Held
<1>27. ASSUME NEW r \in Requests, NEW v \in Videos, Delivers(r, v) PROVE TypeOK'
  <2>1. /\ buffer' \in [Requests -> [Videos -> Nat]]
        /\ UNCHANGED <<tables, renditions, unsent, reqVars, workerVars, consumerVars,
                       served, crashes>>
    BY <1>27, Unbuffered DEF Delivers
  <2>2. events' \in [Topics -> [Videos -> Nat]]
    BY <1>27, SendType DEF Delivers, Topics
  <2>3. faults' \in Nat
    BY <1>27 DEF Delivers
  <2> QED
    BY <2>1, <2>2, <2>3
<1> QED
  BY <1>1, <1>2, <1>3, <1>4, <1>5, <1>6, <1>7, <1>8, <1>9, <1>10, <1>11, <1>12, <1>13,
     <1>14, <1>15, <1>16, <1>17, <1>18, <1>19, <1>20, <1>21, <1>22, <1>23, <1>24, <1>25,
     <1>26, <1>27
     DEF Next, RequestStep, NewRequest, WorkerStep, ConsumerStep

\* A loop that holds an event keeps it in its topic until it commits it, and nobody
\* else commits it.
LEMMA HeldStep == ASSUME TypeOK, Held, [Next]_vars PROVE Held'
<1> USE DEF tables, reqVars, workerVars, consumerVars, bounds, kafka, producers
<1> USE DEF TypeOK, TableTypes, RequestTypes, LoopTypes
<1>1. ASSUME NEW r \in Requests, InitSession(r) PROVE Held'
  BY <1>1 DEF InitSession, Over, Held, Outcomes, Topics
<1>2. ASSUME NEW r \in Requests, CompleteS3(r) PROVE Held'
  BY <1>2 DEF CompleteS3, Over, At, Held, Outcomes, Topics
<1>3. ASSUME NEW r \in Requests, CompleteSave(r) PROVE Held'
  BY <1>3 DEF CompleteSave, Over, At, Held, Outcomes, Topics
<1>4. ASSUME NEW r \in Requests, CompleteJob(r) PROVE Held'
  BY <1>4 DEF CompleteJob, Over, At, Held, Outcomes, Topics
<1>5. ASSUME NEW r \in Requests, CompletePublish(r) PROVE Held'
  BY <1>5 DEF CompletePublish, Over, Send, Held, Outcomes, Topics
<1>6. ASSUME NEW r \in Requests, PatchSave(r) PROVE Held'
  BY <1>6 DEF PatchSave, Saves, Over, Held, Outcomes, Topics
<1>7. ASSUME NEW r \in Requests, DeleteSave(r) PROVE Held'
  BY <1>7 DEF DeleteSave, Saves, Over, Held, Outcomes, Topics
<1>8. ASSUME NEW r \in Requests, PublishSave(r) PROVE Held'
  BY <1>8 DEF PublishSave, Saves, Over, Held, Outcomes, Topics
<1>9. ASSUME NEW r \in Requests, RequestCut(r) PROVE Held'
  BY <1>9 DEF RequestCut, Over, Held, Outcomes, Topics
<1>10. ASSUME NEW r \in Requests, NEW v \in Videos, InitVideo(r, v) PROVE Held'
  BY <1>10 DEF InitVideo, Begins, Arrives, Held, Outcomes, Topics
<1>11. ASSUME NEW r \in Requests, NEW v \in Videos, CompleteRead(r, v) PROVE Held'
  BY <1>11 DEF CompleteRead, Begins, Arrives, Held, Outcomes, Topics
<1>12. ASSUME NEW r \in Requests, NEW v \in Videos, PatchRead(r, v) PROVE Held'
  BY <1>12 DEF PatchRead, Begins, Arrives, Held, Outcomes, Topics
<1>13. ASSUME NEW r \in Requests, NEW v \in Videos, DeleteRead(r, v) PROVE Held'
  BY <1>13 DEF DeleteRead, Begins, Arrives, Held, Outcomes, Topics
<1>14. ASSUME NEW r \in Requests, NEW v \in Videos, PublishRead(r, v) PROVE Held'
  BY <1>14 DEF PublishRead, Begins, Arrives, Held, Outcomes, Topics
<1>15. ASSUME NEW r \in Requests, NEW v \in Videos, FromLive(r, v) PROVE Held'
  BY <1>15 DEF FromLive, Arrives, Held, Outcomes, Topics
<1>16. ASSUME NEW v \in Videos, WorkerPoll(v) PROVE Held'
  BY <1>16 DEF WorkerPoll, Held, Outcomes, Topics
<1>17. ASSUME NEW topic \in Outcomes, NEW v \in Videos, ConsumerPoll(topic, v)
      PROVE Held'
  BY <1>17 DEF ConsumerPoll, Held, Outcomes, Topics
<1>18. CASE WorkerRun
  BY <1>18 DEF WorkerRun, AfterFailedRun, Held, Outcomes, Topics
<1>19. CASE WorkerPublish
  <2>1. wvid \in Videos /\ events' \in [Topics -> [Videos -> Nat]]
    BY <1>19, SendType DEF WorkerPublish, Held, Topics, Outcomes
  <2> QED
    BY <1>19, <2>1, SendType DEF WorkerPublish, Held, Outcomes, Topics
<1>20. CASE WorkerCommit
  BY <1>20 DEF WorkerCommit, Commit, Held, Outcomes, Topics
<1>21. CASE WorkerCrash
  BY <1>21 DEF WorkerCrash, Held, Outcomes, Topics
<1>22. CASE ConsumerSave
  BY <1>22 DEF ConsumerSave, Held, Outcomes, Topics
<1>23. CASE ConsumerJobs
  BY <1>23 DEF ConsumerJobs, Held, Outcomes, Topics
<1>24. CASE ConsumerCommit
  BY <1>24 DEF ConsumerCommit, Commit, Fault, Held, Outcomes, Topics
<1>25. CASE ServiceCrash
  BY <1>25 DEF ServiceCrash, ServiceRestart, Fault, Held, Outcomes, Topics
<1>26. CASE UNCHANGED vars
  BY <1>26 DEF vars, Held, Outcomes, Topics
<1>27. ASSUME NEW r \in Requests, NEW v \in Videos, Delivers(r, v) PROVE Held'
  BY <1>27, SendType DEF Delivers, Held, Outcomes, Topics
<1> QED
  BY <1>1, <1>2, <1>3, <1>4, <1>5, <1>6, <1>7, <1>8, <1>9, <1>10, <1>11, <1>12, <1>13,
     <1>14, <1>15, <1>16, <1>17, <1>18, <1>19, <1>20, <1>21, <1>22, <1>23, <1>24, <1>25,
     <1>26, <1>27
     DEF Next, RequestStep, NewRequest, WorkerStep, ConsumerStep

-----------------------------------------------------------------------------
(* Files and events.                                                          *)

\* Most steps leave uploads and topics alone; a request goes on, ends or stays.
LEMMA StoredKept ==
  ASSUME Held, Stored, UNCHANGED <<upload, events>>,
         \A v \in Videos : row[v].status # "none" => row'[v].status # "none",
         \A q \in Requests :
           \/ rpc'[q] = "idle"
           \/ /\ rvid'[q] = rvid[q]
              /\ \/ rpc'[q] = rpc[q] /\ read'[q] = read[q]
                 \/ {rpc[q], rpc'[q]} \subseteq {"save", "job", "event"}
  PROVE  Stored'
<1>1. ASSUME NEW q \in Requests, rpc'[q] # "idle"
      PROVE  rvid[q] \in Videos /\ rvid'[q] = rvid[q]
  BY <1>1 DEF Held
<1>2. ASSUME NEW q \in Requests
      PROVE  /\ rpc'[q] \in {"save", "job", "event"} => upload'[rvid'[q]] = "stored"
             /\ rpc'[q] = "s3" => upload'[rvid'[q]] # "none"
             /\ rpc'[q] = "patch" => read'[q].status # "none"
             /\ rpc'[q] = "session" =>
                  upload'[rvid'[q]] = "none" /\ row'[rvid'[q]].status # "none"
  BY <1>1, <1>2 DEF Stored
<1>3. ASSUME NEW q \in Requests, NEW r \in Requests,
             rpc'[q] = "session", rpc'[r] = "session", rvid'[q] = rvid'[r]
      PROVE  q = r
  BY <1>1, <1>3 DEF Stored
<1> QED
  BY <1>2, <1>3 DEF Stored

\* An upload that is stored stays stored: the request that opens it is the only one
\* that knows the video by then.
LEMMA StoredStep == ASSUME TypeOK, Held, Stored, Sendable, [Next]_vars PROVE Stored'
<1> USE DEF tables, reqVars, workerVars, consumerVars, bounds, kafka, producers
<1> USE DEF TypeOK, TableTypes, RequestTypes, LoopTypes
<1>1. ASSUME NEW r \in Requests, InitSession(r) PROVE Stored'
  BY <1>1 DEF InitSession, Over, Stored, Held, Outcomes, Topics, Exists
<1>2. ASSUME NEW r \in Requests, CompleteS3(r) PROVE Stored'
  <2>1. /\ rpc[r] = "s3" /\ rvid[r] \in Videos /\ UNCHANGED <<row, events>>
        /\ upload' = upload \/ upload' = [upload EXCEPT ![rvid[r]] = "stored"]
    BY <1>2 DEF CompleteS3, Held
  <2>2. /\ \A v \in Videos : upload[v] = "stored" => upload'[v] = "stored"
        /\ \A v \in Videos : upload'[v] # "none" <=> upload[v] # "none"
        /\ \A v \in Videos : upload[v] = "none" => upload'[v] = "none"
    BY <2>1 DEF Stored
  <2>3. \A q \in Requests \ {r} : rpc'[q] = rpc[q] /\ rvid'[q] = rvid[q] /\ read'[q] = read[q]
    BY <1>2 DEF CompleteS3, At, Over
  <2>4. \/ rpc'[r] = "idle"
        \/ rpc'[r] = "save" /\ rvid'[r] = rvid[r] /\ upload'[rvid[r]] = "stored"
    BY <1>2, <2>1 DEF CompleteS3, At, Over
  <2>5. \A q \in Requests : rpc[q] # "idle" => rvid[q] \in Videos
    BY DEF Held
  <2>6. ASSUME NEW q \in Requests
        PROVE  /\ rpc'[q] \in {"save", "job", "event"} => upload'[rvid'[q]] = "stored"
               /\ rpc'[q] = "s3" => upload'[rvid'[q]] # "none"
               /\ rpc'[q] = "patch" => read'[q].status # "none"
               /\ rpc'[q] = "session" =>
                    upload'[rvid'[q]] = "none" /\ row'[rvid'[q]].status # "none"
    <3>1. CASE q = r
      BY <2>4, <3>1
    <3>2. CASE q # r
      BY <2>1, <2>2, <2>3, <2>5, <3>2 DEF Stored
    <3> QED
      BY <3>1, <3>2
  <2>7. ASSUME NEW q \in Requests, NEW p \in Requests,
               rpc'[q] = "session", rpc'[p] = "session", rvid'[q] = rvid'[p]
        PROVE  q = p
    BY <2>3, <2>4, <2>7 DEF Stored
  <2>8. /\ \A v \in Videos : events'["uploaded"][v] > 0 => upload'[v] = "stored"
        /\ \A v \in Videos : upload'[v] # "none" => row'[v].status # "none"
    BY <2>1, <2>2 DEF Stored
  <2> QED
    BY <2>6, <2>7, <2>8 DEF Stored
<1>3. ASSUME NEW r \in Requests, CompleteSave(r) \/ CompleteJob(r) PROVE Stored'
  <2>1. /\ rvid[r] \in Videos /\ UNCHANGED <<upload, events>>
        /\ \/ At(r, "job") /\ rpc[r] = "save"
           \/ At(r, "event") /\ rpc[r] = "job"
           \/ Over(r)
    BY <1>3 DEF CompleteSave, CompleteJob, Held
  <2>2. \A v \in Videos : row[v].status # "none" => row'[v].status # "none"
    BY <1>3, <2>1, StatusRow DEF CompleteSave, CompleteJob, WithStatus, Statuses
  <2> QED
    BY <2>1, <2>2, StoredKept DEF At, Over
<1>5. ASSUME NEW r \in Requests, CompletePublish(r) PROVE Stored'
  BY <1>5 DEF CompletePublish, Over, Stored, Held, Outcomes, Topics, Exists
<1>6. ASSUME NEW r \in Requests, PatchSave(r) \/ DeleteSave(r) \/ PublishSave(r)
      PROVE  Stored'
  <2>1. rvid[r] \in Videos /\ Over(r) /\ UNCHANGED <<upload, events>>
    BY <1>6 DEF PatchSave, DeleteSave, PublishSave, Saves, Held
  <2>2. ASSUME NEW v \in Videos, row[v].status # "none" PROVE row'[v].status # "none"
    <3>1. CASE PatchSave(r)
      BY <2>1, <2>2, <3>1 DEF PatchSave, Saves, Stored
    <3>2. CASE DeleteSave(r)
      BY <2>1, <2>2, <3>2, DeletedRow DEF DeleteSave, Saves, SoftDeleted
    <3>3. CASE PublishSave(r)
      BY <2>1, <2>2, <3>3, PublishedRow DEF PublishSave, Saves, Published
    <3> QED
      BY <1>6, <3>1, <3>2, <3>3
  <2> QED
    BY <2>1, <2>2, StoredKept DEF Over
<1>9. ASSUME NEW r \in Requests, RequestCut(r) PROVE Stored'
  BY <1>9 DEF RequestCut, Over, Stored, Held, Outcomes, Topics, Exists
<1>10. ASSUME NEW r \in Requests, NEW v \in Videos, InitVideo(r, v) PROVE Stored'
  BY <1>10 DEF InitVideo, Begins, Arrives, Stored, Held, Outcomes, Topics, Exists
<1>11. ASSUME NEW r \in Requests, NEW v \in Videos, CompleteRead(r, v) PROVE Stored'
  BY <1>11 DEF CompleteRead, Begins, Arrives, Stored, Held, Outcomes, Topics, Exists
<1>12. ASSUME NEW r \in Requests, NEW v \in Videos, PatchRead(r, v) PROVE Stored'
  BY <1>12 DEF PatchRead, Begins, Arrives, Stored, Held, Outcomes, Topics, Exists
<1>13. ASSUME NEW r \in Requests, NEW v \in Videos, DeleteRead(r, v) PROVE Stored'
  BY <1>13 DEF DeleteRead, Begins, Arrives, Stored, Held, Outcomes, Topics, Exists
<1>14. ASSUME NEW r \in Requests, NEW v \in Videos, PublishRead(r, v) PROVE Stored'
  BY <1>14 DEF PublishRead, Begins, Arrives, Stored, Held, Outcomes, Topics, Exists
<1>15. ASSUME NEW r \in Requests, NEW v \in Videos, FromLive(r, v) PROVE Stored'
  BY <1>15 DEF FromLive, Arrives, Stored, Held, Outcomes, Topics, Exists
<1>16. ASSUME NEW v \in Videos, WorkerPoll(v) PROVE Stored'
  BY <1>16 DEF WorkerPoll, Stored, Held, Outcomes, Topics, Exists
<1>17. ASSUME NEW topic \in Outcomes, NEW v \in Videos, ConsumerPoll(topic, v)
      PROVE Stored'
  BY <1>17 DEF ConsumerPoll, Stored, Held, Outcomes, Topics, Exists
<1>18. CASE WorkerRun
  BY <1>18 DEF WorkerRun, AfterFailedRun, Stored, Held, Outcomes, Topics, Exists
<1>19. CASE WorkerPublish
  BY <1>19 DEF WorkerPublish, Send, Stored, Held, Outcomes, Topics, Exists
<1>20. CASE WorkerCommit
  BY <1>20 DEF WorkerCommit, Commit, Stored, Held, Outcomes, Topics, Exists
<1>21. CASE WorkerCrash
  BY <1>21 DEF WorkerCrash, Stored, Held, Outcomes, Topics, Exists
<1>22. CASE ConsumerSave
  <2>1. cvid \in Videos /\ UNCHANGED <<upload, events, reqVars>>
    BY <1>22 DEF ConsumerSave, Held
  <2>2. ASSUME NEW v \in Videos, row[v].status # "none" PROVE row'[v].status # "none"
    BY <1>22, <2>1, <2>2, ReadyRow, StatusRow
       DEF ConsumerSave, Transcoded, WithStatus, Statuses
  <2> QED
    BY <2>1, <2>2, StoredKept
<1>23. CASE ConsumerJobs
  BY <1>23 DEF ConsumerJobs, Stored, Held, Outcomes, Topics, Exists
<1>24. CASE ConsumerCommit
  BY <1>24 DEF ConsumerCommit, Commit, Fault, Stored, Held, Outcomes, Topics, Exists
<1>25. CASE ServiceCrash
  BY <1>25
     DEF ServiceCrash, ServiceRestart, Fault, Stored, Held, Outcomes, Topics, Exists
<1>26. CASE UNCHANGED vars
  BY <1>26 DEF vars, Stored, Held, Outcomes, Topics, Exists
<1>27. ASSUME NEW r \in Requests, NEW v \in Videos, Delivers(r, v) PROVE Stored'
  <2>1. /\ upload[v] = "stored"
        /\ UNCHANGED <<tables, reqVars>>
    BY <1>27 DEF Delivers, Sendable
  <2>2. \A u \in Videos :
          events'["uploaded"][u] > 0 => events["uploaded"][u] > 0 \/ u = v
    BY <1>27, SendType DEF Delivers, Topics
  <2> QED
    BY <2>1, <2>2 DEF Stored
<1> QED
  BY <1>1, <1>2, <1>3, <1>5, <1>6, <1>9, <1>10, <1>11, <1>12, <1>13,
     <1>14, <1>15, <1>16, <1>17, <1>18, <1>19, <1>20, <1>21, <1>22, <1>23, <1>24, <1>25,
     <1>26, <1>27
     DEF Next, RequestStep, NewRequest, WorkerStep, ConsumerStep

\* An event is buffered once its file is stored, and sent or lost after that.
LEMMA SendableStep ==
  ASSUME TypeOK, Held, Stored, Sendable, [Next]_vars PROVE Sendable'
<1> USE DEF TypeOK, TableTypes
<1>1. CASE UNCHANGED <<upload, buffer>>
  BY <1>1 DEF Sendable
<1>2. ASSUME NEW r \in Requests, InitSession(r) \/ CompleteS3(r) PROVE Sendable'
  <2>1. UNCHANGED buffer
    BY <1>2 DEF InitSession, CompleteS3, kafka, producers
  <2>2. \A v \in Videos : upload[v] = "stored" => upload'[v] = "stored"
    BY <1>2 DEF InitSession, CompleteS3, Stored, Held
  <2> QED
    BY <2>1, <2>2 DEF Sendable
<1>3. ASSUME NEW r \in Requests, CompletePublish(r) PROVE Sendable'
  <2>1. rvid[r] \in Videos /\ upload[rvid[r]] = "stored" /\ UNCHANGED upload
    BY <1>3 DEF CompletePublish, Held, Stored, tables
  <2>2. \A q \in Requests, u \in Videos :
          buffer'[q][u] > 0 => buffer[q][u] > 0 \/ u = rvid[r]
    BY <1>3, <2>1, BufferedType DEF CompletePublish
  <2> QED
    BY <2>1, <2>2 DEF Sendable
<1>4. ASSUME NEW r \in Requests, NEW v \in Videos, Delivers(r, v) PROVE Sendable'
  <2>1. UNCHANGED upload
    BY <1>4 DEF Delivers, tables
  <2> QED
    BY <1>4, <2>1, Unbuffered DEF Sendable
<1>5. ASSUME NEW ended, Unbuffers(ended), UNCHANGED tables PROVE Sendable'
  BY <1>5, UnbufferedAll DEF Sendable, tables
<1>6. ASSUME NEW r \in Requests, RequestStep(r) PROVE Sendable'
  BY <1>1, <1>2, <1>3, <1>6
     DEF RequestStep, CompleteSave, CompleteJob, PatchSave, DeleteSave, PublishSave, Saves,
         kafka, producers
<1>7. ASSUME NEW r \in Requests, NEW v \in Videos, NewRequest(r, v) PROVE Sendable'
  BY <1>1, <1>7
     DEF NewRequest, InitVideo, CompleteRead, PatchRead, DeleteRead, PublishRead, FromLive,
         Begins, kafka, producers
<1>8. CASE WorkerStep \/ WorkerCrash \/ ConsumerStep
  BY <1>1, <1>8
     DEF WorkerStep, WorkerPoll, WorkerRun, WorkerPublish, WorkerCommit, WorkerCrash,
         ConsumerStep, ConsumerPoll, ConsumerSave, ConsumerJobs, ConsumerCommit, tables,
         kafka, producers
<1>9. CASE ServiceCrash \/ \E r \in Requests : RequestCut(r)
  BY <1>5, <1>9 DEF ServiceCrash, ServiceRestart, RequestCut, tables
<1>10. CASE UNCHANGED vars
  BY <1>1, <1>10 DEF vars, tables, kafka, producers
<1> QED
  BY <1>4, <1>6, <1>7, <1>8, <1>9, <1>10 DEF Next

\* What is written as ready comes from an event of a finished run, from a row that
\* was ready, or from live-service.
LEMMA PlayableStep == ASSUME TypeOK, Held, Playable, [Next]_vars PROVE Playable'
<1> USE DEF tables, reqVars, workerVars, consumerVars, bounds, kafka, producers
<1> USE DEF TypeOK, TableTypes, RequestTypes, LoopTypes
<1>1. ASSUME NEW r \in Requests, InitSession(r) PROVE Playable'
  BY <1>1 DEF InitSession, Over, Playable, Good, Held, Outcomes, Topics
<1>2. ASSUME NEW r \in Requests, CompleteS3(r) PROVE Playable'
  BY <1>2 DEF CompleteS3, Over, At, Playable, Good, Held, Outcomes, Topics
<1>3. ASSUME NEW r \in Requests, CompleteSave(r) PROVE Playable'
  <2>1. rvid[r] \in Videos
    BY <1>3 DEF CompleteSave, Held
  <2>2. /\ rpc[r] = "save"
        /\ UNCHANGED <<upload, jobs, renditions, kafka, workerVars, consumerVars>>
    BY <1>3 DEF CompleteSave
  <2>3. CASE row' = WithStatus(rvid[r], "processing") /\ At(r, "job") /\ UNCHANGED faults
    <3>1. /\ row' \in [Videos -> Row]
          /\ row'[rvid[r]].status = "processing"
          /\ \A u \in Videos : u # rvid[r] => row'[u] = row[u]
      BY <2>1, <2>3, StatusRow DEF Statuses
    <3>2. At(r, "job") /\ UNCHANGED faults
      BY <2>3
    <3> QED
      BY <2>1, <2>2, <3>1, <3>2
         DEF At, Over, Playable, Good, Held, Outcomes, Topics, Fault
  <2>4. CASE Fault("db") /\ Over(r) /\ UNCHANGED row
    BY <2>1, <2>2, <2>4 DEF At, Over, Playable, Good, Held, Outcomes, Topics, Fault
  <2> QED
    BY <1>3, <2>3, <2>4 DEF CompleteSave, WithStatus
<1>4. ASSUME NEW r \in Requests, CompleteJob(r) PROVE Playable'
  <2>1. UNCHANGED <<row, renditions, kafka, workerVars>>
    BY <1>4 DEF CompleteJob
  <2>2. \A q \in Requests : rpc'[q] = "patch" =>
          rpc[q] = "patch" /\ read'[q] = read[q] /\ rvid'[q] = rvid[q]
    BY <1>4 DEF CompleteJob, At, Over
  <2> QED
    BY <2>1, <2>2 DEF Playable, Good
<1>5. ASSUME NEW r \in Requests, CompletePublish(r) PROVE Playable'
  BY <1>5 DEF CompletePublish, Over, Send, Playable, Good, Held, Outcomes, Topics
<1>6. ASSUME NEW r \in Requests, PatchSave(r) PROVE Playable'
  BY <1>6 DEF PatchSave, Saves, Over, Playable, Good, Held, Outcomes, Topics
<1>7. ASSUME NEW r \in Requests, DeleteSave(r) PROVE Playable'
  <2>1. rvid[r] \in Videos
    BY <1>7 DEF DeleteSave, Held
  <2>2. /\ rpc[r] = "delete" /\ Over(r)
        /\ UNCHANGED <<upload, jobs, renditions, kafka, workerVars, consumerVars>>
    BY <1>7 DEF DeleteSave, Saves
  <2>3. CASE row' = SoftDeleted(rvid[r]) /\ UNCHANGED faults
    <3>1. /\ row' \in [Videos -> Row]
          /\ row'[rvid[r]].status = "deleted"
          /\ \A u \in Videos : u # rvid[r] => row'[u] = row[u]
      BY <2>1, <2>3, DeletedRow
    <3>2. UNCHANGED faults
      BY <2>3
    <3> QED
      BY <2>1, <2>2, <3>1, <3>2 DEF Over, Playable, Good, Held, Outcomes, Topics, Fault
  <2>4. CASE Fault("db") /\ UNCHANGED row
    BY <2>1, <2>2, <2>4 DEF Over, Playable, Good, Held, Outcomes, Topics, Fault
  <2> QED
    BY <1>7, <2>3, <2>4 DEF DeleteSave, Saves, SoftDeleted
<1>8. ASSUME NEW r \in Requests, PublishSave(r) PROVE Playable'
  <2>1. rvid[r] \in Videos
    BY <1>8 DEF PublishSave, Held
  <2>2. /\ rpc[r] = "publish" /\ Over(r)
        /\ UNCHANGED <<upload, jobs, renditions, kafka, workerVars, consumerVars>>
    BY <1>8 DEF PublishSave, Saves
  <2>3. CASE row' = Published(rvid[r]) /\ UNCHANGED faults
    <3>1. /\ row' \in [Videos -> Row]
          /\ /\ row'[rvid[r]].status = row[rvid[r]].status
             /\ row'[rvid[r]].manifest = row[rvid[r]].manifest
             /\ row'[rvid[r]].live = row[rvid[r]].live
          /\ \A u \in Videos : u # rvid[r] => row'[u] = row[u]
      BY <2>1, <2>3, PublishedRow
    <3>2. UNCHANGED faults
      BY <2>3
    <3> QED
      BY <2>1, <2>2, <3>1, <3>2 DEF Over, Playable, Good, Held, Outcomes, Topics, Fault
  <2>4. CASE Fault("db") /\ UNCHANGED row
    BY <2>1, <2>2, <2>4 DEF Over, Playable, Good, Held, Outcomes, Topics, Fault
  <2> QED
    BY <1>8, <2>3, <2>4 DEF PublishSave, Saves, Published
<1>9. ASSUME NEW r \in Requests, RequestCut(r) PROVE Playable'
  BY <1>9 DEF RequestCut, Over, Playable, Good, Held, Outcomes, Topics
<1>10. ASSUME NEW r \in Requests, NEW v \in Videos, InitVideo(r, v) PROVE Playable'
  BY <1>10 DEF InitVideo, Begins, Arrives, Playable, Good, Held, Outcomes, Topics
<1>11. ASSUME NEW r \in Requests, NEW v \in Videos, CompleteRead(r, v) PROVE Playable'
  BY <1>11 DEF CompleteRead, Begins, Arrives, Playable, Good, Held, Outcomes, Topics
<1>12. ASSUME NEW r \in Requests, NEW v \in Videos, PatchRead(r, v) PROVE Playable'
  BY <1>12 DEF PatchRead, Begins, Arrives, Playable, Good, Held, Outcomes, Topics
<1>13. ASSUME NEW r \in Requests, NEW v \in Videos, DeleteRead(r, v) PROVE Playable'
  BY <1>13 DEF DeleteRead, Begins, Arrives, Playable, Good, Held, Outcomes, Topics
<1>14. ASSUME NEW r \in Requests, NEW v \in Videos, PublishRead(r, v) PROVE Playable'
  BY <1>14 DEF PublishRead, Begins, Arrives, Playable, Good, Held, Outcomes, Topics
<1>15. ASSUME NEW r \in Requests, NEW v \in Videos, FromLive(r, v) PROVE Playable'
  BY <1>15 DEF FromLive, Arrives, Playable, Good, Held, Outcomes, Topics
<1>16. ASSUME NEW v \in Videos, WorkerPoll(v) PROVE Playable'
  BY <1>16 DEF WorkerPoll, Playable, Good, Held, Outcomes, Topics
<1>17. ASSUME NEW topic \in Outcomes, NEW v \in Videos, ConsumerPoll(topic, v)
      PROVE Playable'
  BY <1>17 DEF ConsumerPoll, Playable, Good, Held, Outcomes, Topics
<1>18. CASE WorkerRun
  BY <1>18 DEF WorkerRun, AfterFailedRun, Playable, Good, Held, Outcomes, Topics
<1>19. CASE WorkerPublish
  <2>1. wvid \in Videos /\ events' \in [Topics -> [Videos -> Nat]]
    BY <1>19, SendType DEF WorkerPublish, Held, Topics, Outcomes
  <2> QED
    BY <1>19, <2>1, SendType DEF WorkerPublish, Playable, Good, Held, Outcomes, Topics
<1>20. CASE WorkerCommit
  BY <1>20 DEF WorkerCommit, Commit, Playable, Good, Held, Outcomes, Topics
<1>21. CASE WorkerCrash
  BY <1>21 DEF WorkerCrash, Playable, Good, Held, Outcomes, Topics
<1>22. CASE ConsumerSave
  <2>1. cvid \in Videos /\ cpc = "save" /\ events[ctopic][cvid] > 0
    BY <1>22 DEF ConsumerSave, Held
  <2>2. UNCHANGED <<upload, jobs, renditions, kafka, reqVars, workerVars, ctopic, cvid,
                    served, crashes>>
    BY <1>22 DEF ConsumerSave
  <2>3. CASE Fault("db") /\ cpc' = "commit" /\ UNCHANGED row
    BY <2>1, <2>2, <2>3 DEF Playable, Good, Held, Outcomes, Topics, Fault
  <2>4. CASE /\ ctopic = "transcoded" /\ cpc' = "jobs" /\ UNCHANGED faults
             /\ row' = Transcoded(cvid)
    <3>1. /\ row' \in [Videos -> Row]
          /\ row'[cvid].status = "ready" /\ row'[cvid].manifest
          /\ \A u \in Videos : u # cvid => row'[u] = row[u]
      BY <2>1, <2>4, ReadyRow
    <3>2. ctopic = "transcoded" /\ cpc' = "jobs" /\ UNCHANGED faults
      BY <2>4
    <3> QED
      BY <2>1, <2>2, <3>1, <3>2 DEF Playable, Good, Held, Outcomes, Topics, Fault
  <2>5. CASE /\ ctopic # "transcoded" /\ cpc' = "jobs" /\ UNCHANGED faults
             /\ row' = WithStatus(cvid, "failed")
    <3>1. /\ row' \in [Videos -> Row]
          /\ row'[cvid].status = "failed"
          /\ \A u \in Videos : u # cvid => row'[u] = row[u]
      BY <2>1, <2>5, StatusRow DEF Statuses
    <3>2. ctopic # "transcoded" /\ cpc' = "jobs" /\ UNCHANGED faults
      BY <2>5
    <3> QED
      BY <2>1, <2>2, <3>1, <3>2 DEF Playable, Good, Held, Outcomes, Topics, Fault
  <2> QED
    BY <1>22, <2>3, <2>4, <2>5 DEF ConsumerSave, WithStatus, Transcoded
<1>23. CASE ConsumerJobs
  BY <1>23 DEF ConsumerJobs, Playable, Good, Held, Outcomes, Topics
<1>24. CASE ConsumerCommit
  BY <1>24 DEF ConsumerCommit, Commit, Fault, Playable, Good, Held, Outcomes, Topics
<1>25. CASE ServiceCrash
  BY <1>25
     DEF ServiceCrash, ServiceRestart, Fault, Playable, Good, Held, Outcomes, Topics
<1>26. CASE UNCHANGED vars
  BY <1>26 DEF vars, Playable, Good, Held, Outcomes, Topics
<1>27. ASSUME NEW r \in Requests, NEW v \in Videos, Delivers(r, v) PROVE Playable'
  BY <1>27, SendType DEF Delivers, Playable, Good, Held, Outcomes, Topics
<1> QED
  BY <1>1, <1>2, <1>3, <1>4, <1>5, <1>6, <1>7, <1>8, <1>9, <1>10, <1>11, <1>12, <1>13,
     <1>14, <1>15, <1>16, <1>17, <1>18, <1>19, <1>20, <1>21, <1>22, <1>23, <1>24, <1>25,
     <1>26, <1>27
     DEF Next, RequestStep, NewRequest, WorkerStep, ConsumerStep

-----------------------------------------------------------------------------
(* The theorems.                                                              *)

\* The invariant holds initially.
LEMMA InitIInv == Init => IInv
<1> SUFFICES ASSUME Init PROVE IInv
  OBVIOUS
<1>1. TypeOK
  BY TypeInit
<1>2. Held /\ Stored /\ Sendable
  BY DEF Init, Held, Stored, Sendable, Topics
<1>3. Playable
  BY DEF Init, Playable, Good, NoRow, Topics, Outcomes
<1> QED
  BY <1>1, <1>2, <1>3 DEF IInv

\* The inductive invariant holds, through crashes and lost or failing calls.
THEOREM Invariance == Spec => []IInv
<1>1. IInv /\ [Next]_vars => IInv'
  BY TypeStep, HeldStep, StoredStep, SendableStep, PlayableStep DEF IInv
<1> QED
  BY <1>1, InitIInv, PTL DEF Spec

\* Rows, requests, events and loops keep their types.
THEOREM TypeCorrect == Spec => []TypeOK
<1>1. IInv => TypeOK
  BY DEF IInv
<1> QED
  BY <1>1, Invariance, PTL

\* What the catalogue shows can be played, however many requests, runs and outcomes
\* write a row at once.
THEOREM CatalogueIsPlayable == Spec => []VisibleIsPlayable
<1>1. IInv => VisibleIsPlayable
  BY DEF IInv, Playable, Good, VisibleIsPlayable, Visible
<1> QED
  BY <1>1, Invariance, PTL

\* The worker never gets a video whose file S3 has not assembled.
THEOREM WorkIsStored == Spec => []UploadedIsStored
<1>1. IInv => UploadedIsStored
  BY ConstantsAssumption DEF IInv, Held, Stored, UploadedIsStored
<1> QED
  BY <1>1, Invariance, PTL

-----------------------------------------------------------------------------
(* VideoPipeline implements VideoLifecycle.                                   *)

\* What request r may still do to its video.
Wanted(r) == [kind |-> Wish[rpc[r]], row |-> IF rpc[r] = "patch" THEN read[r] ELSE NoRow]
Wishing(r, v) == rvid[r] = v /\ rpc[r] \in DOMAIN Wish

\* The wishes for a video are those of the requests that have it, and to send what is
\* in a buffer.
LEMMA PendingIs ==
  ASSUME NEW v \in Videos
  PROVE  Pending[v] = {Wanted(r) : r \in {q \in Requests : Wishing(q, v)}}
                      \cup {w \in {Lifecycle!Want("send")} : Buffered(v)}
BY DEF Pending, Wanted, Wishing, Lifecycle!Want

\* Where a later wish comes from.
LEMMA PendingNext ==
  ASSUME NEW v \in Videos, NEW d \in Pending'[v]
  PROVE  \/ \E q \in Requests : Wishing(q, v)' /\ d = Wanted(q)'
         \/ Buffered(v)' /\ d = Lifecycle!Want("send")
BY DEF Pending, Wanted, Wishing, Lifecycle!Want

\* The places of a request that still has a wish.
LEMMA Wishful ==
  /\ DOMAIN Wish = {"s3", "save", "job", "event", "patch", "delete", "publish"}
  /\ Wish["s3"] = "complete" /\ Wish["save"] = "complete"
  /\ Wish["job"] = "send" /\ Wish["event"] = "send"
  /\ Wish["patch"] = "patch" /\ Wish["delete"] = "delete" /\ Wish["publish"] = "publish"
BY DEF Wish

\* Where the requests do not move, neither do their wishes.
LEMMA WishesKept == ASSUME UNCHANGED <<reqVars, buffer>> PROVE Pending' = Pending
BY DEF reqVars, Pending, Buffered

\* Only r moves: the wishes for v gain at most what r wants then.
LEMMA WishesOfOne ==
  ASSUME NEW r \in Requests, NEW v \in Videos, NEW c,
         \A q \in Requests \ {r} :
           rpc'[q] = rpc[q] /\ rvid'[q] = rvid[q] /\ read'[q] = read[q],
         Wishing(r, v)' => Wanted(r)' = c,
         \A u \in Videos \ {v} : ~Wishing(r, u)',
         UNCHANGED buffer
  PROVE  Lifecycle!Wishes(v, c)
<1>1. Pending' = [u \in Videos |-> Pending'[u]]
  BY DEF Pending
<1>2. ASSUME NEW u \in Videos, NEW d \in Pending'[u]
      PROVE  d \in Pending[u] \cup (IF u = v THEN {c} ELSE {})
  <2>1. CASE Buffered(u)' /\ d = Lifecycle!Want("send")
    BY <2>1, PendingIs DEF Buffered
  <2>2. ASSUME NEW q \in Requests, Wishing(q, u)', d = Wanted(q)'
        PROVE  d \in Pending[u] \cup (IF u = v THEN {c} ELSE {})
    <3>1. CASE q = r
      BY <2>2, <3>1
    <3>2. CASE q # r
      <4>1. Wishing(q, u) /\ d = Wanted(q)
        BY <2>2, <3>2 DEF Wishing, Wanted
      <4> QED
        BY <4>1, PendingIs
    <3> QED
      BY <3>1, <3>2
  <2> QED
    BY <1>2, <2>1, <2>2, PendingNext
<1> QED
  BY <1>1, <1>2 DEF Lifecycle!Wishes

\* A wish that was there already is no new one.
LEMMA NothingNew ==
  ASSUME NEW v \in Videos, NEW c \in Pending[v], Lifecycle!Wishes(v, c)
  PROVE  Lifecycle!Fewer
BY DEF Lifecycle!Wishes, Lifecycle!Fewer

\* A request that ends takes its wish along, unless it is buffered now.
LEMMA WishesOver ==
  ASSUME RequestTypes, NEW r \in Requests, Over(r),
         \A u \in Videos : Buffered(u)' => Lifecycle!Want("send") \in Pending[u]
  PROVE  Lifecycle!Fewer
<1>1. Pending' = [u \in Videos |-> Pending'[u]]
  BY DEF Pending
<1>2. ASSUME NEW u \in Videos, NEW d \in Pending'[u] PROVE d \in Pending[u]
  <2>1. ASSUME NEW q \in Requests, Wishing(q, u)', d = Wanted(q)' PROVE d \in Pending[u]
    <3>1. q # r
      BY <2>1, Wishful DEF Over, RequestTypes, Wishing
    <3>2. Wishing(q, u) /\ d = Wanted(q)
      BY <2>1, <3>1 DEF Over, RequestTypes, Wishing, Wanted
    <3> QED
      BY <3>2, PendingIs
  <2> QED
    BY <1>2, <2>1, PendingNext
<1> QED
  BY <1>1, <1>2 DEF Lifecycle!Fewer

\* Nothing is buffered that was not.
LEMMA BufferKept ==
  ASSUME UNCHANGED buffer, NEW u \in Videos, Buffered(u)'
  PROVE  Lifecycle!Want("send") \in Pending[u]
BY PendingIs DEF Buffered

\* A request that ends and buffers nothing.
LEMMA WishesEnd ==
  ASSUME RequestTypes, NEW r \in Requests, Over(r), UNCHANGED buffer
  PROVE  Lifecycle!Fewer
BY WishesOver, BufferKept

\* A request r that begins with v wants what its first place says.
LEMMA WishesBegin ==
  ASSUME RequestTypes, NEW r \in Requests, NEW v \in Videos, NEW place, NEW c,
         Begins(r, v, place), \A q \in Requests \ {r} : read'[q] = read[q],
         place \in DOMAIN Wish => Wanted(r)' = c
  PROVE  Lifecycle!Wishes(v, c)
<1>1. /\ rpc'[r] = place /\ rvid'[r] = v
      /\ \A q \in Requests \ {r} : rpc'[q] = rpc[q] /\ rvid'[q] = rvid[q]
  BY DEF Begins, RequestTypes
<1>2. UNCHANGED buffer
  BY DEF Begins, kafka, producers
<1> QED
  BY <1>1, <1>2, WishesOfOne DEF Wishing

\* A request that goes on wants what its next place says.
LEMMA WishesOn ==
  ASSUME RequestTypes, NEW r \in Requests, rvid[r] \in Videos, NEW place, NEW c,
         At(r, place), UNCHANGED buffer, place \in DOMAIN Wish => Wanted(r)' = c
  PROVE  Lifecycle!Wishes(rvid[r], c)
<1>1. /\ rpc'[r] = place
      /\ \A q \in Requests \ {r} : rpc'[q] = rpc[q]
      /\ UNCHANGED <<rvid, read>>
  BY DEF At, RequestTypes
<1> QED
  BY <1>1, WishesOfOne DEF Wishing

\* What the data that a step leaves alone means for the abstract state.
LEMMA WorkKept ==
  /\ UNCHANGED upload => Assembled' = Assembled
  /\ UNCHANGED events => HandedOver' = HandedOver /\ Told' = Told
  /\ UNCHANGED kafka => UNCHANGED <<events, buffer, HandedOver, Told>>
BY DEF Assembled, HandedOver, Told, kafka, producers

\* A topic changes for one video: so do its outcomes.
LEMMA ToldOfOne ==
  ASSUME NEW v \in Videos, NEW S,
         \A u \in Videos \ {v}, o \in Outcomes : events'[o][u] > 0 <=> events[o][u] > 0,
         S = {o \in Outcomes : events'[o][v] > 0}
  PROVE  Told' = [Told EXCEPT ![v] = S]
<1>1. \A u \in Videos : Told'[u] = {o \in Outcomes : events'[o][u] > 0}
  BY DEF Told
<1>2. \A u \in Videos : Told[u] = {o \in Outcomes : events[o][u] > 0}
  BY DEF Told
<1>3. ASSUME NEW u \in Videos PROVE Told'[u] = [Told EXCEPT ![v] = S][u]
  <2>1. CASE u = v
    BY <1>1, <2>1 DEF Told
  <2>2. CASE u # v
    BY <1>1, <1>2, <2>2 DEF Told
  <2> QED
    BY <2>1, <2>2
<1> QED
  BY <1>3 DEF Told

\* The wish of a request that is at work.
LEMMA HasWish ==
  ASSUME Held, NEW r \in Requests, rpc[r] \in DOMAIN Wish
  PROVE  rvid[r] \in Videos /\ Wanted(r) \in Pending[rvid[r]]
<1>1. rvid[r] \in Videos
  BY Wishful DEF Held
<1> QED
  BY <1>1, PendingIs DEF Wishing

\* UploadInit makes the row; its session and upload change nothing yet.
LEMMA InitRefines ==
  ASSUME IInv, NEW r \in Requests
  PROVE  /\ \A v \in Videos : InitVideo(r, v) => Lifecycle!Create(v)
         /\ InitSession(r) => Lifecycle!Forget
<1> USE DEF IInv, TypeOK
<1>1. ASSUME NEW v \in Videos, InitVideo(r, v) PROVE Lifecycle!Create(v)
  <2>1. /\ rpc[r] = "idle" /\ rpc' = [rpc EXCEPT ![r] = "session"]
        /\ rvid' = [rvid EXCEPT ![r] = v] /\ UNCHANGED <<read, upload, renditions, kafka>>
    BY <1>1 DEF InitVideo, Begins, Arrives
  <2>2. \A q \in Requests, u \in Videos :
          /\ Wishing(q, u)' <=> Wishing(q, u)
          /\ Wishing(q, u) => Wanted(q)' = Wanted(q)
    BY <2>1, Wishful DEF Wishing, Wanted, RequestTypes
  <2>3. ASSUME NEW u \in Videos PROVE Pending'[u] = Pending[u]
    <3>1. Pending'[u] = {Wanted(q)' : q \in {p \in Requests : Wishing(p, u)'}}
                        \cup {w \in {Lifecycle!Want("send")} : Buffered(u)'}
      BY DEF Pending, Wishing, Wanted, Lifecycle!Want
    <3>2. Pending[u] = {Wanted(q) : q \in {p \in Requests : Wishing(p, u)}}
                       \cup {w \in {Lifecycle!Want("send")} : Buffered(u)}
      BY PendingIs
    <3>3. Buffered(u)' <=> Buffered(u)
      BY <2>1, WorkKept DEF Buffered
    <3> QED
      BY <2>2, <3>1, <3>2, <3>3
  <2>4. UNCHANGED Pending
    BY <2>3 DEF Pending
  <2>5. /\ row[v].status = "none" /\ row' = [row EXCEPT ![v].status = "uploading"]
    BY <1>1 DEF InitVideo
  <2> QED
    BY <2>1, <2>4, <2>5, WorkKept DEF Lifecycle!Create, Lifecycle!work
<1>2. ASSUME InitSession(r) PROVE Lifecycle!Forget
  <2>1. Over(r) /\ UNCHANGED <<row, renditions, kafka>>
    BY <1>2 DEF InitSession
  <2>2. rvid[r] \in Videos /\ upload[rvid[r]] = "none"
    BY <1>2 DEF InitSession, Held, Stored
  <2>3. upload' = upload \/ upload' = [upload EXCEPT ![rvid[r]] = "open"]
    BY <1>2 DEF InitSession
  <2>4. Assembled' = Assembled
    BY <2>2, <2>3 DEF Assembled, TableTypes
  <2> QED
    BY <2>1, <2>4, WishesEnd, WorkKept DEF Lifecycle!Forget, Lifecycle!work
<1> QED
  BY <1>1, <1>2

\* A view that reads a row asks for what the row allows then.
LEMMA ReadRefines ==
  ASSUME IInv, NEW r \in Requests, NEW v \in Videos
  PROVE  /\ CompleteRead(r, v) => Lifecycle!Ask(v, Lifecycle!Want("complete"))
         /\ PublishRead(r, v) => Lifecycle!Ask(v, Lifecycle!Want("publish"))
         /\ DeleteRead(r, v) => Lifecycle!Ask(v, Lifecycle!Want("delete"))
         /\ PatchRead(r, v) => Lifecycle!Ask(v, Lifecycle!Edit(row[v]))
         /\ FromLive(r, v) => Lifecycle!Register(v)
<1> USE DEF IInv, TypeOK
<1>1. ASSUME CompleteRead(r, v) PROVE Lifecycle!Ask(v, Lifecycle!Want("complete"))
  <2>1. Begins(r, v, "s3") /\ row[v].status = "uploading" /\ UNCHANGED <<row, read>>
    BY <1>1 DEF CompleteRead
  <2>2. rpc'[r] = "s3" /\ UNCHANGED <<upload, kafka, renditions>>
    BY <2>1 DEF Begins, RequestTypes
  <2>3. Wanted(r)' = Lifecycle!Want("complete")
    BY <2>2, Wishful DEF Wanted, Lifecycle!Want
  <2>4. Lifecycle!Wishes(v, Lifecycle!Want("complete"))
    BY <2>1, <2>3, WishesBegin
  <2> QED
    BY <2>1, <2>2, <2>4, WorkKept DEF Lifecycle!Ask, Lifecycle!work
<1>2. ASSUME PublishRead(r, v) PROVE Lifecycle!Ask(v, Lifecycle!Want("publish"))
  <2>1. /\ Begins(r, v, "publish") /\ Exists(v) /\ row[v].status = "ready"
        /\ UNCHANGED <<row, read>>
    BY <1>2 DEF PublishRead
  <2>2. rpc'[r] = "publish" /\ UNCHANGED <<upload, kafka, renditions>>
    BY <2>1 DEF Begins, RequestTypes
  <2>3. Wanted(r)' = Lifecycle!Want("publish")
    BY <2>2, Wishful DEF Wanted, Lifecycle!Want
  <2>4. Lifecycle!Wishes(v, Lifecycle!Want("publish"))
    BY <2>1, <2>3, WishesBegin
  <2> QED
    BY <2>1, <2>2, <2>4, WorkKept
       DEF Lifecycle!Ask, Lifecycle!work, Lifecycle!Exists, Exists
<1>3. ASSUME DeleteRead(r, v) PROVE Lifecycle!Ask(v, Lifecycle!Want("delete"))
  <2>1. Begins(r, v, "delete") /\ Exists(v) /\ UNCHANGED <<row, read>>
    BY <1>3 DEF DeleteRead
  <2>2. rpc'[r] = "delete" /\ UNCHANGED <<upload, kafka, renditions>>
    BY <2>1 DEF Begins, RequestTypes
  <2>3. Wanted(r)' = Lifecycle!Want("delete")
    BY <2>2, Wishful DEF Wanted, Lifecycle!Want
  <2>4. Lifecycle!Wishes(v, Lifecycle!Want("delete"))
    BY <2>1, <2>3, WishesBegin
  <2> QED
    BY <2>1, <2>2, <2>4, WorkKept
       DEF Lifecycle!Ask, Lifecycle!work, Lifecycle!Exists, Exists
<1>4. ASSUME PatchRead(r, v) PROVE Lifecycle!Ask(v, Lifecycle!Edit(row[v]))
  <2>1. /\ Begins(r, v, "patch") /\ Exists(v) /\ UNCHANGED row
        /\ read' = [read EXCEPT ![r] = row[v]]
    BY <1>4 DEF PatchRead
  <2>2. /\ rpc'[r] = "patch" /\ read'[r] = row[v]
        /\ \A q \in Requests \ {r} : read'[q] = read[q]
        /\ UNCHANGED <<upload, kafka, renditions>>
    BY <2>1 DEF Begins, RequestTypes
  <2>3. Wanted(r)' = Lifecycle!Edit(row[v])
    BY <2>2, Wishful DEF Wanted, Lifecycle!Edit
  <2>4. Lifecycle!Wishes(v, Lifecycle!Edit(row[v]))
    BY <2>1, <2>2, <2>3, WishesBegin
  <2> QED
    BY <2>1, <2>2, <2>4, WorkKept
       DEF Lifecycle!Ask, Lifecycle!work, Lifecycle!Exists, Exists
<1>5. ASSUME FromLive(r, v) PROVE Lifecycle!Register(v)
  <2>1. /\ row[v].status = "none" /\ UNCHANGED <<upload, kafka, renditions, reqVars>>
        /\ row' = [row EXCEPT ![v] = [status |-> "ready", manifest |-> TRUE,
                     published |-> TRUE, deleted |-> FALSE, live |-> TRUE]]
    BY <1>5 DEF FromLive
  <2> QED
    BY <2>1, WorkKept, WishesKept DEF Lifecycle!Register, Lifecycle!work
<1> QED
  BY <1>1, <1>2, <1>3, <1>4, <1>5

\* UploadComplete fulfils its wish call by call: assemble, queue.  What it publishes
\* is a wish still.
LEMMA CompleteRefines ==
  ASSUME IInv, NEW r \in Requests
  PROVE  /\ CompleteS3(r) => Lifecycle!Forget \/ Lifecycle!Assemble(rvid[r])
         /\ CompleteSave(r) => Lifecycle!Forget \/ Lifecycle!Queue(rvid[r])
         /\ CompleteJob(r) => Lifecycle!Forget
         /\ CompletePublish(r) => Lifecycle!Forget
<1> DEFINE v == rvid[r]
<1> USE DEF IInv, TypeOK
<1>1. ASSUME CompleteS3(r) PROVE Lifecycle!Forget \/ Lifecycle!Assemble(v)
  <2>1. rpc[r] = "s3"
    BY <1>1 DEF CompleteS3
  <2>2. /\ v \in Videos /\ UNCHANGED <<row, renditions, kafka>>
        /\ Lifecycle!Want("complete") \in Pending[v]
    BY <1>1, <2>1, HasWish, Wishful DEF CompleteS3, Wanted, Lifecycle!Want
  <2>3. Lifecycle!Fewer
    <3>1. CASE At(r, "save")
      <4>1. Wanted(r)' = Lifecycle!Want("complete")
        BY <3>1, Wishful DEF At, RequestTypes, Wanted, Lifecycle!Want
      <4> QED
        BY <2>2, <3>1, <4>1, WishesOn, WorkKept, NothingNew
    <3> QED
      BY <1>1, <3>1, WishesEnd, WorkKept DEF CompleteS3
  <2>4. CASE UNCHANGED upload
    BY <2>2, <2>3, <2>4, WorkKept DEF Lifecycle!Forget, Lifecycle!work
  <2>5. CASE upload' = [upload EXCEPT ![v] = "stored"]
    <3>1. Assembled' = Assembled \cup {v}
      BY <2>2, <2>5 DEF Assembled, TableTypes
    <3> QED
      BY <2>2, <2>3, <3>1, WorkKept DEF Lifecycle!Assemble
  <2> QED
    BY <1>1, <2>4, <2>5 DEF CompleteS3
<1>2. ASSUME CompleteSave(r) PROVE Lifecycle!Forget \/ Lifecycle!Queue(v)
  <2>1. rpc[r] = "save" /\ UNCHANGED <<upload, renditions, kafka>>
    BY <1>2 DEF CompleteSave
  <2>2. UNCHANGED <<Assembled, HandedOver, renditions, Told>>
    BY <2>1, WorkKept
  <2>3. CASE Over(r) /\ UNCHANGED row
    BY <2>1, <2>2, <2>3, WishesEnd, WorkKept DEF Lifecycle!Forget, Lifecycle!work
  <2>4. CASE At(r, "job") /\ row' = [row EXCEPT ![v].status = "processing"]
    <3>1. v \in Videos /\ Lifecycle!Want("complete") \in Pending[v] /\ v \in Assembled
      BY <2>1, HasWish, Wishful DEF Wanted, Lifecycle!Want, Stored, Assembled
    <3>2. Wanted(r)' = Lifecycle!Want("send")
      BY <2>4, Wishful DEF At, RequestTypes, Wanted, Lifecycle!Want
    <3>3. Lifecycle!Wishes(v, Lifecycle!Want("send"))
      BY <2>1, <2>4, <3>1, <3>2, WishesOn, WorkKept
    <3> QED
      BY <2>2, <2>4, <3>1, <3>3 DEF Lifecycle!Queue, Lifecycle!work
  <2> QED
    BY <1>2, <2>3, <2>4 DEF CompleteSave
<1>3. ASSUME CompleteJob(r) PROVE Lifecycle!Forget
  <2>1. rpc[r] = "job" /\ UNCHANGED <<row, upload, renditions, kafka>>
    BY <1>3 DEF CompleteJob
  <2>2. Lifecycle!Fewer
    <3>1. CASE At(r, "event")
      <4>1. v \in Videos /\ Lifecycle!Want("send") \in Pending[v]
        BY <2>1, HasWish, Wishful DEF Wanted, Lifecycle!Want
      <4>2. Wanted(r)' = Lifecycle!Want("send")
        BY <3>1, Wishful DEF At, RequestTypes, Wanted, Lifecycle!Want
      <4> QED
        BY <2>1, <3>1, <4>1, <4>2, WishesOn, WorkKept, NothingNew
    <3> QED
      BY <1>3, <3>1, WishesEnd, WorkKept DEF CompleteJob
  <2> QED
    BY <2>1, <2>2, WorkKept DEF Lifecycle!Forget, Lifecycle!work
<1>4. ASSUME CompletePublish(r) PROVE Lifecycle!Forget
  <2>1. rpc[r] = "event" /\ Over(r) /\ UNCHANGED <<row, upload, renditions, events>>
    BY <1>4 DEF CompletePublish, tables
  <2>2. v \in Videos /\ Lifecycle!Want("send") \in Pending[v]
    BY <2>1, HasWish, Wishful DEF Wanted, Lifecycle!Want
  <2>3. ASSUME NEW u \in Videos, Buffered(u)' PROVE Lifecycle!Want("send") \in Pending[u]
    <3>1. CASE u = v
      BY <2>2, <3>1
    <3>2. CASE u # v
      <4>1. \A q \in Requests : buffer'[q][u] > 0 => buffer[q][u] > 0
        BY <1>4, <2>2, <3>2, BufferedType DEF CompletePublish, TableTypes
      <4> QED
        BY <2>3, <4>1, PendingIs DEF Buffered
    <3> QED
      BY <3>1, <3>2
  <2>4. Lifecycle!Fewer
    BY <2>1, <2>3, WishesOver
  <2> QED
    BY <2>1, <2>4, WorkKept DEF Lifecycle!Forget, Lifecycle!work
<1> QED
  BY <1>1, <1>2, <1>3, <1>4

\* The producer hands a video over, or gives the event up.
LEMMA DeliveryRefines ==
  ASSUME IInv, NEW r \in Requests, NEW v \in Videos, Delivers(r, v)
  PROVE  Lifecycle!Forget \/ Lifecycle!HandOver(v)
<1> USE DEF IInv, TypeOK
<1>1. UNCHANGED <<row, upload, renditions, reqVars>>
  BY DEF Delivers, tables
<1>2. Lifecycle!Want("send") \in Pending[v]
  BY PendingIs DEF Delivers, Buffered
<1>3. \A u \in Videos : Buffered(u)' => Buffered(u)
  BY Unbuffered DEF Buffered, TableTypes
<1>4. Lifecycle!Fewer
  <2>1. Pending' = [u \in Videos |-> Pending'[u]]
    BY DEF Pending
  <2>2. ASSUME NEW u \in Videos, NEW d \in Pending'[u] PROVE d \in Pending[u]
    <3>1. CASE Buffered(u)' /\ d = Lifecycle!Want("send")
      BY <1>3, <3>1, PendingIs
    <3>2. ASSUME NEW q \in Requests, Wishing(q, u)', d = Wanted(q)' PROVE d \in Pending[u]
      <4>1. Wishing(q, u) /\ d = Wanted(q)
        BY <1>1, <3>2 DEF reqVars, Wishing, Wanted
      <4> QED
        BY <4>1, PendingIs
    <3> QED
      BY <2>2, <3>1, <3>2, PendingNext
  <2> QED
    BY <2>1, <2>2 DEF Lifecycle!Fewer
<1>5. CASE UNCHANGED events
  BY <1>1, <1>4, <1>5, WorkKept DEF Lifecycle!Forget, Lifecycle!work
<1>6. CASE Send("uploaded", v)
  <2>1. HandedOver' = HandedOver \cup {v} /\ Told' = Told
    BY <1>6, SendType DEF HandedOver, Told, TableTypes, Topics, Outcomes
  <2> QED
    BY <1>1, <1>2, <1>4, <2>1, WorkKept DEF Lifecycle!HandOver
<1> QED
  BY <1>5, <1>6 DEF Delivers

\* A save changes the row as the request has wished, and nothing else.
LEMMA SaveRefines ==
  ASSUME IInv, NEW r \in Requests, PatchSave(r) \/ DeleteSave(r) \/ PublishSave(r)
  PROVE  \/ Lifecycle!Forget
         \/ rvid[r] \in Videos /\ \E c \in Pending[rvid[r]] : Lifecycle!Save(rvid[r], c)
<1> DEFINE v == rvid[r]
<1> USE DEF IInv, TypeOK
<1>1. /\ Over(r) /\ UNCHANGED <<upload, renditions, kafka>>
      /\ rpc[r] \in {"patch", "delete", "publish"}
  BY DEF PatchSave, DeleteSave, PublishSave, Saves
<1>2. Lifecycle!Fewer /\ UNCHANGED <<Assembled, HandedOver, renditions, Told>>
  BY <1>1, WishesEnd, WorkKept
<1>3. v \in Videos /\ Wanted(r) \in Pending[v]
  BY <1>1, HasWish, Wishful
<1>4. CASE UNCHANGED row
  BY <1>2, <1>4 DEF Lifecycle!Forget, Lifecycle!work
<1>5. CASE rpc[r] = "patch" /\ row' = [row EXCEPT ![v] = read[r]]
  <2>1. Wanted(r) = Lifecycle!Edit(Wanted(r).row) /\ Wanted(r).row = read[r]
    BY <1>5, Wishful DEF Wanted, Lifecycle!Edit
  <2> QED
    BY <1>2, <1>3, <1>5, <2>1 DEF Lifecycle!Save, Lifecycle!work
<1>6. CASE /\ rpc[r] = "delete"
           /\ row' = [row EXCEPT ![v].status = "deleted", ![v].deleted = TRUE]
  <2>1. Wanted(r) = Lifecycle!Want("delete")
    BY <1>6, Wishful DEF Wanted, Lifecycle!Want
  <2> QED
    BY <1>2, <1>3, <1>6, <2>1 DEF Lifecycle!Save, Lifecycle!work
<1>7. CASE rpc[r] = "publish" /\ row' = [row EXCEPT ![v].published = TRUE]
  <2>1. Wanted(r) = Lifecycle!Want("publish")
    BY <1>7, Wishful DEF Wanted, Lifecycle!Want
  <2> QED
    BY <1>2, <1>3, <1>7, <2>1 DEF Lifecycle!Save, Lifecycle!work
<1> QED
  BY <1>4, <1>5, <1>6, <1>7 DEF PatchSave, DeleteSave, PublishSave, Saves

\* The worker: files before the outcome, and the outcome before the commit.
LEMMA WorkerRefines ==
  ASSUME IInv, WorkerStep \/ WorkerCrash
  PROVE  \/ UNCHANGED Lifecycle!vars
         \/ /\ wvid \in Videos
            /\ \/ Lifecycle!Transcode(wvid) \/ Lifecycle!Settle(wvid)
               \/ \E outcome \in Outcomes : Lifecycle!Tell(wvid, outcome)
<1> USE DEF IInv, TypeOK
<1>1. UNCHANGED <<row, upload, buffer, reqVars>>
  BY DEF WorkerStep, WorkerPoll, WorkerRun, WorkerPublish, WorkerCommit, WorkerCrash, tables,
         kafka, producers
<1>2. UNCHANGED <<row, Pending, Assembled>>
  BY <1>1, WishesKept, WorkKept
<1>3. CASE UNCHANGED <<renditions, events>>
  BY <1>2, <1>3, WorkKept DEF Lifecycle!vars, Lifecycle!work
<1>4. CASE WorkerRun
  <2>1. wvid \in Videos /\ wvid \in HandedOver /\ UNCHANGED events
    BY <1>4, WorkKept DEF WorkerRun, Held, HandedOver
  <2>2. CASE renditions' = renditions \cup {wvid}
    BY <1>2, <2>1, <2>2, WorkKept DEF Lifecycle!Transcode
  <2> QED
    BY <1>3, <1>4, <2>1, <2>2 DEF WorkerRun
<1>5. CASE WorkerPublish
  <2> DEFINE outcome == IF wpc = "success" THEN "transcoded" ELSE "failed"
  <2>1. /\ wvid \in Videos /\ wvid \in HandedOver /\ outcome \in Outcomes
        /\ outcome = "transcoded" => wvid \in renditions
    BY <1>5 DEF WorkerPublish, Held, HandedOver, Outcomes, Playable
  <2>2. CASE Send(outcome, wvid)
    <3>1. HandedOver' = HandedOver /\ UNCHANGED renditions
      BY <1>5, <2>1, <2>2 DEF WorkerPublish, Send, HandedOver, TableTypes, Topics, Outcomes
    <3>2. Told' = [Told EXCEPT ![wvid] = Told[wvid] \cup {outcome}]
      <4> HIDE DEF outcome
      <4>1. \A u \in Videos, o \in Outcomes :
              events'[o][u] > 0 <=> events[o][u] > 0 \/ (u = wvid /\ o = outcome)
        BY <2>1, <2>2 DEF Send, TableTypes, Topics, Outcomes
      <4>2. Told[wvid] \cup {outcome} = {o \in Outcomes : events'[o][wvid] > 0}
        BY <2>1, <4>1 DEF Told
      <4> QED
        BY <2>1, <4>1, <4>2, ToldOfOne
    <3> QED
      BY <1>2, <2>1, <3>1, <3>2 DEF Lifecycle!Tell
  <2> QED
    BY <1>3, <1>5, <2>2 DEF WorkerPublish
<1>6. CASE WorkerCommit
  <2>1. /\ wvid \in Videos /\ wvid \in HandedOver /\ UNCHANGED renditions
        /\ Commit("uploaded", wvid)
    BY <1>6 DEF WorkerCommit, Held, HandedOver
  <2>2. Told' = Told
    BY <2>1 DEF Commit, Told, TableTypes, Topics, Outcomes
  <2>3. HandedOver' = HandedOver \/ HandedOver' = HandedOver \ {wvid}
    BY <2>1 DEF Commit, HandedOver, TableTypes, Topics
  <2> QED
    BY <1>2, <2>1, <2>2, <2>3 DEF Lifecycle!Settle, Lifecycle!vars, Lifecycle!work
<1> QED
  BY <1>3, <1>4, <1>5, <1>6 DEF WorkerStep, WorkerPoll, WorkerCrash, kafka

\* The consumer: the row follows an outcome that is still in its topic.
LEMMA ConsumerRefines ==
  ASSUME IInv, ConsumerStep
  PROVE  \/ UNCHANGED Lifecycle!vars
         \/ /\ cvid \in Videos
            /\ Lifecycle!Answer(cvid, ctopic) \/ Lifecycle!Commit(cvid, ctopic)
<1> USE DEF IInv, TypeOK
<1>1. UNCHANGED <<upload, renditions, buffer, reqVars>>
  BY DEF ConsumerStep, ConsumerPoll, ConsumerSave, ConsumerJobs, ConsumerCommit, tables,
         kafka, producers
<1>2. UNCHANGED <<Pending, Assembled, renditions>>
  BY <1>1, WishesKept, WorkKept
<1>3. CASE UNCHANGED <<row, events>>
  BY <1>2, <1>3, WorkKept DEF Lifecycle!vars, Lifecycle!work
<1>4. CASE ConsumerSave
  <2>1. cvid \in Videos /\ UNCHANGED events /\ ctopic \in Told[cvid]
    BY <1>4, WorkKept DEF ConsumerSave, Held, Told, LoopTypes
  <2>2. UNCHANGED <<HandedOver, Told>>
    BY <2>1, WorkKept
  <2>3. CASE row' = IF ctopic = "transcoded"
                   THEN [row EXCEPT ![cvid].status = "ready", ![cvid].manifest = TRUE]
                   ELSE [row EXCEPT ![cvid].status = "failed"]
    BY <1>2, <2>1, <2>2, <2>3 DEF Lifecycle!Answer, Lifecycle!work
  <2> QED
    BY <1>3, <1>4, <2>1, <2>3 DEF ConsumerSave
<1>5. CASE ConsumerCommit
  <2>1. cvid \in Videos /\ ctopic \in Outcomes /\ UNCHANGED row
    BY <1>5 DEF ConsumerCommit, Held, LoopTypes, tables
  <2>2. CASE Commit(ctopic, cvid)
    <3>1. HandedOver' = HandedOver
      BY <2>1, <2>2 DEF Commit, HandedOver, TableTypes, Topics, Outcomes
    <3>2. UNCHANGED Told \/ Told' = [Told EXCEPT ![cvid] = Told[cvid] \ {ctopic}]
      <4>1. \A u \in Videos, o \in Outcomes : u # cvid \/ o # ctopic =>
              (events'[o][u] > 0 <=> events[o][u] > 0)
        BY <2>1, <2>2 DEF Commit, TableTypes, Topics, Outcomes
      <4>2. CASE events'[ctopic][cvid] > 0 <=> events[ctopic][cvid] > 0
        BY <4>1, <4>2 DEF Told
      <4>3. CASE ~(events'[ctopic][cvid] > 0)
        <5>1. Told[cvid] \ {ctopic} = {o \in Outcomes : events'[o][cvid] > 0}
          BY <2>1, <4>1, <4>3 DEF Told
        <5> QED
          BY <2>1, <4>1, <5>1, ToldOfOne
      <4>4. events'[ctopic][cvid] > 0 => events[ctopic][cvid] > 0
        BY <2>1, <2>2 DEF Commit, TableTypes, Topics, Outcomes
      <4> QED
        BY <4>2, <4>3, <4>4
    <3> QED
      BY <1>2, <2>1, <3>1, <3>2 DEF Lifecycle!Commit, Lifecycle!vars, Lifecycle!work
  <2> QED
    BY <1>3, <1>5, <2>1, <2>2 DEF ConsumerCommit
<1> QED
  BY <1>3, <1>4, <1>5 DEF ConsumerStep, ConsumerPoll, ConsumerJobs, tables, kafka

\* Requests that are cut off, and what they leave in a buffer, are only forgotten.
LEMMA CutRefines ==
  ASSUME IInv, ServiceCrash \/ \E r \in Requests : RequestCut(r)
  PROVE  Lifecycle!Forget
<1> USE DEF IInv, TypeOK
<1>1. UNCHANGED <<row, upload, renditions, events>>
  BY DEF ServiceCrash, ServiceRestart, RequestCut, tables
<1>2. ASSUME NEW ended, Unbuffers(ended), NEW u \in Videos, Buffered(u)'
      PROVE  /\ Lifecycle!Want("send") \in Pending[u]
             /\ \E q \in Requests : q \notin ended
  BY <1>2, UnbufferedAll, PendingIs DEF Buffered, TableTypes
<1>3. ASSUME ServiceCrash PROVE Lifecycle!Fewer
  <2>1. \A r \in Requests, v \in Videos : ~Wishing(r, v)'
    BY <1>3, Wishful DEF ServiceCrash, ServiceRestart, Wishing
  <2>2. \A v \in Videos : ~Buffered(v)'
    BY <1>2, <1>3 DEF ServiceCrash, ServiceRestart
  <2>3. \A v \in Videos : Pending'[v] = {}
    BY <2>1, <2>2, PendingNext
  <2>4. Pending' = [v \in Videos |-> Pending'[v]]
    BY DEF Pending
  <2> QED
    BY <2>3, <2>4 DEF Lifecycle!Fewer
<1>4. ASSUME NEW r \in Requests, RequestCut(r) PROVE Lifecycle!Fewer
  BY <1>2, <1>4, WishesOver DEF RequestCut
<1> QED
  BY <1>1, <1>3, <1>4, WorkKept DEF Lifecycle!Forget, Lifecycle!work

\* Every step of the services is a step of the lifecycle, or changes nothing in it.
LEMMA StepRefines ==
  ASSUME IInv, [Next]_vars PROVE [Lifecycle!Next]_(Lifecycle!vars)
<1>1. ASSUME NEW r \in Requests, RequestStep(r) PROVE Lifecycle!Next
  <2>1. CASE PatchSave(r) \/ DeleteSave(r) \/ PublishSave(r)
    BY <2>1, SaveRefines DEF Lifecycle!Next
  <2>2. CASE InitSession(r) \/ CompleteJob(r) \/ CompletePublish(r)
    BY <2>2, InitRefines, CompleteRefines DEF Lifecycle!Next
  <2>3. CASE CompleteS3(r) \/ CompleteSave(r)
    <3>1. rvid[r] \in Videos
      BY <2>3 DEF CompleteS3, CompleteSave, IInv, Held
    <3> QED
      BY <2>3, <3>1, CompleteRefines DEF Lifecycle!Next
  <2> QED
    BY <1>1, <2>1, <2>2, <2>3 DEF RequestStep
<1>2. ASSUME NEW r \in Requests, NEW v \in Videos, NewRequest(r, v) \/ Delivers(r, v)
      PROVE  Lifecycle!Next
  BY <1>2, InitRefines, ReadRefines, DeliveryRefines DEF NewRequest, Lifecycle!Next
<1>3. ASSUME ServiceCrash \/ \E r \in Requests : RequestCut(r) PROVE Lifecycle!Next
  BY <1>3, CutRefines DEF Lifecycle!Next
<1>4. ASSUME WorkerStep \/ WorkerCrash PROVE [Lifecycle!Next]_(Lifecycle!vars)
  BY <1>4, WorkerRefines DEF Lifecycle!Next, Outcomes
<1>5. ASSUME ConsumerStep PROVE [Lifecycle!Next]_(Lifecycle!vars)
  <2>1. ctopic \in Outcomes
    BY DEF IInv, TypeOK, LoopTypes
  <2> QED
    BY <1>5, <2>1, ConsumerRefines DEF Lifecycle!Next, Outcomes
<1>6. ASSUME UNCHANGED vars PROVE UNCHANGED Lifecycle!vars
  <2>1. UNCHANGED <<row, upload, renditions, events, buffer, reqVars>>
    BY <1>6 DEF vars, tables, kafka, producers
  <2> QED
    BY <2>1, WishesKept, WorkKept DEF Lifecycle!vars, Lifecycle!work
<1> QED
  BY <1>1, <1>2, <1>3, <1>4, <1>5, <1>6 DEF Next

\* video-service and the worker keep the lifecycle of a video, whatever interleaves, is
\* repeated, fails or crashes.
THEOREM Refinement == Spec => LifecycleSpec
<1>1. Init => Lifecycle!Init
  <2> SUFFICES ASSUME Init PROVE Lifecycle!Init
    OBVIOUS
  <2>1. \A r \in Requests, v \in Videos : ~Wishing(r, v) /\ buffer[r][v] = 0
    <3> SUFFICES ASSUME NEW r \in Requests, NEW v \in Videos
                 PROVE  ~Wishing(r, v) /\ buffer[r][v] = 0
      OBVIOUS
    <3> QED
      BY Wishful DEF Init, Wishing
  <2>2. Pending = [v \in Videos |-> {}]
    BY <2>1 DEF Pending, Wishing, Buffered
  <2>3. Assembled = {} /\ HandedOver = {} /\ Told = [v \in Videos |-> {}]
    BY DEF Init, Assembled, HandedOver, Told, Topics, Outcomes
  <2> QED
    BY <2>2, <2>3 DEF Init, Lifecycle!Init
<1>2. IInv /\ [Next]_vars => [Lifecycle!Next]_(Lifecycle!vars)
  BY StepRefines
<1> QED
  BY <1>1, <1>2, Invariance, PTL DEF Spec, LifecycleSpec, Lifecycle!Spec

=============================================================================
