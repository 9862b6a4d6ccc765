----------------------------- MODULE SegmentSync -----------------------------
(***************************************************************************)
(* How the segments of one live session get from the disk of live-service  *)
(* to S3 and into the index live_segments, from which the replay is built. *)
(*                                                                         *)
(* FFmpeg writes numbered segment files and a playlist of the latest ones. *)
(* A timer starts runSync, which uploads what the playlist lists and goes  *)
(* on after each await; when FFmpeg has closed, stopLoop starts runSync    *)
(* once more, without asking whether a tick is still at work.  A restarted *)
(* FFmpeg numbers its segments from the start again.                       *)
(*                                                                         *)
(* Abstractions: one rendition, no master playlist; the status of the      *)
(* session is live or not (LiveSession has the rest of it); of a segment   *)
(* only its number and the encoder that made it.                           *)
(***************************************************************************)
EXTENDS Naturals

CONSTANTS
  MaxSeg,     \* bound: segments that one encoder writes
  Window,     \* hls_list_size
  MaxFaults   \* bound: failing calls to S3, the database or the disk

ASSUME ConstantsAssumption ==
  MaxSeg \in Nat /\ Window \in Nat \ {0} /\ MaxFaults \in Nat

Encoders == {1, 2}     \* the first encoder and the one that onCrash starts
None == 0
Segs == 1..MaxSeg
Content == Encoders \cup {None}
Threads == Encoders \X {"tick", "flush"}

VARIABLES
  enc, running, made,    \* the latest encoder, whether it runs, how many segments it wrote
  playlist, disk,        \* on disk: the segments listed, and by whom each file was written
  loop,                  \* SyncState of each encoder: active, running, uploaded
  thread,                \* runSync: its place, its playlist, what is left, file and content
  closing,               \* the close handler, by the exit it has seen
  objects, index, live,  \* S3 objects, rows of live_segments, the live playlist in S3
  isLive, replay,        \* the session's status, and the segments of its replay
  dead, faults

encoderVars == <<enc, running, made, playlist>>
stored == <<objects, index, live>>
session == <<isLive, replay>>
vars == <<encoderVars, disk, loop, thread, closing, stored, session, dead, faults>>

Idle == [pc |-> "idle", text |-> {}, todo |-> {}, seg |-> 0, buf |-> None]
Fresh == [active |-> TRUE, running |-> FALSE, uploaded |-> {}]

TypeOK ==
  /\ enc \in Encoders /\ running \in BOOLEAN /\ made \in Nat /\ playlist \subseteq Segs
  /\ disk \in [Segs -> Content]
  /\ loop \in [Encoders -> [active : BOOLEAN, running : BOOLEAN, uploaded : SUBSET Segs]]
  /\ thread \in [Threads -> [pc : {"idle", "next", "read", "put", "record", "unlink"},
                             text : SUBSET Segs, todo : SUBSET Segs,
                             seg : Segs \cup {0}, buf : Content]]
  /\ closing \in {"no", "failed", "clean", "flushed", "restart", "finalize"}
  /\ objects \in [Segs -> Content] /\ index \in [Segs -> Content] /\ live \subseteq Segs
  /\ isLive \in BOOLEAN /\ replay \subseteq Segs /\ dead \in BOOLEAN /\ faults \in Nat

Init ==
  /\ enc = 1 /\ running = TRUE /\ made = 0 /\ playlist = {} /\ disk = [n \in Segs |-> None]
  /\ loop = [e \in Encoders |-> [Fresh EXCEPT !.active = (e = 1)]]
  /\ thread = [t \in Threads |-> Idle] /\ closing = "no"
  /\ objects = [n \in Segs |-> None] /\ index = [n \in Segs |-> None] /\ live = {}
  /\ isLive = TRUE /\ replay = {} /\ dead = FALSE /\ faults = 0

(***************************************************************************)
(* FFmpeg                                                                  *)
(***************************************************************************)
\* What parseMediaPlaylist finds after segment n: the window that ends with it.
Listed(n) == {k \in Segs : k <= n /\ n < k + Window}

Encode ==
  /\ ~dead /\ running /\ made < MaxSeg /\ made' = made + 1
  /\ disk' = [disk EXCEPT ![made + 1] = enc] /\ playlist' = Listed(made + 1)
  /\ UNCHANGED <<enc, running, loop, thread, closing, stored, session, dead, faults>>

\* It exits by itself with 0, or after an error or a signal with another code.
EncoderCloses ==
  /\ ~dead /\ running /\ running' = FALSE /\ closing' \in {"failed", "clean"}
  /\ UNCHANGED <<enc, made, playlist, disk, loop, thread, stored, session, dead, faults>>

(***************************************************************************)
(* runSync                                                                 *)
(***************************************************************************)
\* Whatever runs in the process needs it alive.
Elsewhere == ~dead /\ UNCHANGED <<encoderVars, closing, session>>

Begin(t) == thread' = [thread EXCEPT ![t] = [Idle EXCEPT !.pc = "next", !.text = playlist,
                                                         !.todo = playlist]]

\* The timer is cleared when the close handler calls stopLoop.
Tick(e) ==
  /\ e = enc /\ closing = "no" /\ loop[e].active /\ ~loop[e].running
  /\ loop' = [loop EXCEPT ![e].running = TRUE] /\ Begin(<<e, "tick">>)
  /\ UNCHANGED <<disk, stored, dead, faults>> /\ Elsewhere

StopLoop(e) ==
  /\ e = enc /\ closing \in {"failed", "clean"} /\ loop[e].active
  /\ thread[<<e, "flush">>].pc = "idle" /\ Begin(<<e, "flush">>)
  /\ UNCHANGED <<loop, disk, stored, dead, faults>> /\ Elsewhere

\* An error ends a tick, but nobody catches one of the flush: the process dies of it.
Throws(t) ==
  /\ thread' = [thread EXCEPT ![t] = Idle]
  /\ dead' = (t[2] = "flush")
  /\ loop' = IF t[2] = "tick" THEN [loop EXCEPT ![t[1]].running = FALSE] ELSE loop
  /\ UNCHANGED <<disk, stored>>

Fails(t) ==
  /\ thread[t].pc \in {"next", "put", "record"} /\ faults < MaxFaults /\ faults' = faults + 1
  /\ Throws(t) /\ Elsewhere

Awaits(t, pc) == thread' = [thread EXCEPT ![t].pc = pc]

\* The next listed segment that is neither uploaded nor missing on disk.
SyncNext(t) ==
  LET todo == thread[t].todo \ loop[t[1]].uploaded IN
  /\ thread[t].pc = "next" /\ todo # {}
  /\ \E n \in todo :
       /\ \A k \in todo : n <= k
       /\ thread' = IF disk[n] = None
                    THEN [thread EXCEPT ![t].todo = todo \ {n}]
                    ELSE [thread EXCEPT ![t].todo = todo \ {n}, ![t].seg = n, ![t].pc = "read"]
  /\ UNCHANGED <<loop, disk, stored, dead, faults>> /\ Elsewhere

\* Slip: the row is written when the upload begins.
SyncReadRecords(t) ==
  /\ thread[t].pc = "read"
  /\ IF disk[thread[t].seg] = None THEN Throws(t) ELSE
       /\ thread' = [thread EXCEPT ![t].pc = "put", ![t].buf = disk[thread[t].seg]]
       /\ index' = [index EXCEPT ![thread[t].seg] = disk[thread[t].seg]]
       /\ UNCHANGED <<loop, disk, objects, live, dead>>
  /\ UNCHANGED faults /\ Elsewhere

\* uploadFile reads the whole file first; by then it may be gone.
SyncRead(t) ==
  /\ thread[t].pc = "read"
  /\ IF disk[thread[t].seg] = None THEN Throws(t)
     ELSE /\ thread' = [thread EXCEPT ![t].pc = "put", ![t].buf = disk[thread[t].seg]]
          /\ UNCHANGED <<loop, disk, stored, dead>>
  /\ UNCHANGED faults /\ Elsewhere

\* Slip: the file is removed and the segment taken for uploaded before the row is written.
SyncPutUnlinks(t) ==
  /\ thread[t].pc = "put" /\ Awaits(t, "record")
  /\ objects' = [objects EXCEPT ![thread[t].seg] = thread[t].buf]
  /\ disk' = [disk EXCEPT ![thread[t].seg] = None]
  /\ UNCHANGED <<loop, index, live, dead, faults>> /\ Elsewhere

SyncPut(t) ==
  /\ thread[t].pc = "put" /\ Awaits(t, "record")
  /\ objects' = [objects EXCEPT ![thread[t].seg] = thread[t].buf]
  /\ UNCHANGED <<loop, disk, index, live, dead, faults>> /\ Elsewhere

\* ON CONFLICT (session_id, rendition, seq) DO NOTHING.
SyncRecord(t) ==
  /\ thread[t].pc = "record" /\ Awaits(t, "unlink")
  /\ index' = [index EXCEPT ![thread[t].seg] = IF @ = None THEN thread[t].buf ELSE @]
  /\ loop' = [loop EXCEPT ![t[1]].uploaded = @ \cup {thread[t].seg}]
  /\ UNCHANGED <<disk, objects, live, dead, faults>> /\ Elsewhere

SyncUnlink(t) ==
  /\ thread[t].pc = "unlink"
  /\ thread' = [thread EXCEPT ![t].pc = "next", ![t].seg = 0, ![t].buf = None]
  /\ disk' = [disk EXCEPT ![thread[t].seg] = None]
  /\ UNCHANGED <<loop, stored, dead, faults>> /\ Elsewhere

\* The live playlist, then the end of the run; an active loop is left by the flush.
SyncPlaylist(t) ==
  /\ ~dead /\ thread[t].pc = "next" /\ thread[t].todo \ loop[t[1]].uploaded = {}
  /\ live' = thread[t].text /\ thread' = [thread EXCEPT ![t] = Idle]
  /\ IF t[2] = "tick"
     THEN loop' = [loop EXCEPT ![t[1]].running = FALSE] /\ UNCHANGED closing
     ELSE /\ loop' = [loop EXCEPT ![t[1]].active = FALSE]
          /\ closing' = IF closing = "failed" THEN "flushed" ELSE "finalize"
  /\ UNCHANGED <<encoderVars, disk, objects, index, session, dead, faults>>

(***************************************************************************)
(* The close handler after the flush                                       *)
(***************************************************************************)
Settled == ~dead /\ UNCHANGED <<disk, thread, stored, dead, faults>>

\* isLive is asked, and answered before anything is done about it.
CheckLive ==
  /\ closing = "flushed"
  /\ closing' = IF isLive /\ enc = 1 THEN "restart" ELSE "finalize"
  /\ UNCHANGED <<encoderVars, loop, session>> /\ Settled

Restart ==
  /\ closing = "restart" /\ closing' = "no"
  /\ enc' = 2 /\ running' = TRUE /\ made' = 0 /\ loop' = [loop EXCEPT ![2] = Fresh]
  /\ UNCHANGED <<playlist, session>> /\ Settled

\* beginStitching, then the replay from the rows of the index.
BuildReplay == isLive /\ isLive' = FALSE /\ replay' = {n \in Segs : index[n] # None}

Finalize ==
  /\ closing = "finalize" /\ closing' = "no"
  /\ IF isLive THEN BuildReplay ELSE UNCHANGED session
  /\ UNCHANGED <<encoderVars, loop>> /\ Settled

\* The sweeper, whatever the encoder and its sync are doing.
Sweep == BuildReplay /\ UNCHANGED <<encoderVars, loop, closing>> /\ Settled

Next ==
  \/ Encode \/ EncoderCloses \/ CheckLive \/ Restart \/ Finalize \/ Sweep
  \/ \E e \in Encoders : Tick(e) \/ StopLoop(e)
  \/ \E t \in Threads : \/ SyncNext(t) \/ SyncRead(t) \/ SyncPut(t) \/ SyncRecord(t)
                        \/ SyncUnlink(t) \/ SyncPlaylist(t) \/ Fails(t)

Spec == Init /\ [][Next]_vars

(***************************************************************************)
(* Properties                                                              *)
(***************************************************************************)
\* However ticks, the flush and a restarted encoder overlap, and whatever fails: a segment
\* in the index has its object in S3, so a replay names nothing that is missing.
IndexedIsStored ==
  \A n \in Segs :
    index[n] # None \/ n \in replay \/ n \in live => objects[n] # None

\* When the flush has ended, all that the last playlist lists is in the index, also what a
\* tick had in its hands: a replay built from here on misses nothing of it.  It says nothing of
\* segments that slid out of the window of the playlist before any run had seen them.
FlushCatchesUp ==
  closing \in {"flushed", "restart", "finalize"} => \A n \in playlist : index[n] # None
=============================================================================
