-------------------------- MODULE SegmentSync_proofs --------------------------
(***************************************************************************)
(* Proofs about SegmentSync, for every number of segments, every window    *)
(* and every number of failing calls.                                      *)
(*                                                                         *)
(* The invariant follows a segment on its way.  What has been written is   *)
(* on disk or in the index (Known), since a file is removed only by a      *)
(* runSync that has recorded it (InHand), even if another encoder has      *)
(* written it anew meanwhile.  What a runSync has read in its playlist is  *)
(* still to do, in its hands, or in the index (Accounted).                 *)
(***************************************************************************)
EXTENDS SegmentSync, TLAPS

Places == {"idle", "next", "read", "put", "record", "unlink"}
Loops == [Encoders -> [active : BOOLEAN, running : BOOLEAN, uploaded : SUBSET Segs]]
Run == [pc : Places, text : SUBSET Segs, todo : SUBSET Segs, seg : Segs \cup {0}, buf : Content]
Runs == [Threads -> Run]

Known ==
  /\ \A n \in Segs : n <= made => disk[n] # None \/ index[n] # None
  /\ \A n \in playlist : disk[n] # None \/ index[n] # None
  /\ \A t \in Threads : \A n \in thread[t].text : disk[n] # None \/ index[n] # None

Uploaded == \A e \in Encoders : \A n \in loop[e].uploaded : index[n] # None

Accounted ==
  \A t \in Threads : \A n \in thread[t].text :
    \/ n \in thread[t].todo
    \/ n = thread[t].seg /\ thread[t].pc \notin {"idle", "next"}
    \/ index[n] # None

InHand ==
  \A t \in Threads :
    /\ thread[t].pc \notin {"idle", "next"} => thread[t].seg \in Segs
    /\ thread[t].pc \in {"put", "record"} => thread[t].buf # None
    /\ thread[t].pc \in {"record", "unlink"} => objects[thread[t].seg] # None
    /\ thread[t].pc = "unlink" => index[thread[t].seg] # None

\* The last playlist of an encoder does not change while it is flushed.
Flushing ==
  /\ closing # "no" => ~running
  /\ \A e \in Encoders :
       thread[<<e, "flush">>].pc # "idle" =>
         /\ e = enc /\ closing \in {"failed", "clean"}
         /\ thread[<<e, "flush">>].text = playlist

SInv == /\ TypeOK /\ Known /\ Uploaded /\ Accounted /\ InHand /\ Flushing
        /\ IndexedIsStored /\ FlushCatchesUp

-----------------------------------------------------------------------------
LEMMA SInvInit == Init => SInv
<1> SUFFICES ASSUME Init PROVE SInv
  OBVIOUS
<1> USE DEF Init, Encoders, Threads, Segs, Content, None, Idle, Fresh
<1>1. TypeOK
  BY DEF TypeOK
<1>2. Known /\ Uploaded /\ Accounted /\ InHand /\ Flushing
  BY DEF Known, Uploaded, Accounted, InHand, Flushing
<1>3. IndexedIsStored /\ FlushCatchesUp
  BY DEF IndexedIsStored, FlushCatchesUp
<1> QED
  BY <1>1, <1>2, <1>3 DEF SInv

-----------------------------------------------------------------------------
(* FFmpeg and the close handler.                                              *)

LEMMA EncodeStep == SInv /\ Encode => SInv'
<1> SUFFICES ASSUME SInv, Encode PROVE SInv'
  OBVIOUS
<1>1. made + 1 \in Segs /\ enc \in Content /\ enc # None
  BY ConstantsAssumption DEF SInv, TypeOK, Encode, Segs, Content, Encoders, None
<1>2. Listed(made + 1) \subseteq Segs
  BY DEF Listed
<1>3. TypeOK'
  BY <1>1, <1>2 DEF SInv, TypeOK, Encode, stored, session
<1>4. Known'
  <2>1. \A n \in Segs : n <= made + 1 => disk'[n] # None \/ index[n] # None
    BY <1>1 DEF SInv, TypeOK, Known, Encode, Segs
  <2>2. \A n \in Listed(made + 1) : disk'[n] # None \/ index[n] # None
    BY <2>1 DEF Listed
  <2>3. \A t \in Threads : \A n \in thread[t].text : disk'[n] # None \/ index[n] # None
    BY <1>1 DEF SInv, TypeOK, Known, Encode
  <2> QED
    BY <2>1, <2>2, <2>3 DEF Known, Encode, stored
<1>5. Uploaded' /\ Accounted' /\ InHand' /\ Flushing' /\ IndexedIsStored' /\ FlushCatchesUp'
  BY DEF SInv, Uploaded, Accounted, InHand, Flushing, IndexedIsStored, FlushCatchesUp, Encode, stored, session
<1> QED
  BY <1>3, <1>4, <1>5 DEF SInv

LEMMA CloseSteps ==
  ASSUME SInv, EncoderCloses \/ CheckLive \/ Restart \/ Finalize \/ Sweep
  PROVE  SInv'
<1> USE DEF stored, session, encoderVars, Settled
<1>1. TypeOK'
  <2>1. loop' \in Loops
    <3>1. Fresh \in [active : BOOLEAN, running : BOOLEAN, uploaded : SUBSET Segs]
      BY DEF Fresh
    <3>2. loop \in Loops
      BY DEF SInv, TypeOK, Loops
    <3>3. loop' = loop \/ loop' = [loop EXCEPT ![2] = Fresh]
      BY DEF EncoderCloses, CheckLive, Restart, Finalize, Sweep
    <3> QED
      BY <3>1, <3>2, <3>3 DEF Loops
  <2>2. CASE EncoderCloses \/ CheckLive \/ Restart
    <3>1. running' = running \/ running' = FALSE \/ running' = TRUE
      BY <2>2 DEF EncoderCloses, CheckLive, Restart
    <3>3. enc' \in Encoders /\ made' \in Nat
      BY <2>2 DEF SInv, TypeOK, EncoderCloses, CheckLive, Restart, Encoders
    <3>2. closing' \in {"no", "failed", "clean", "flushed", "restart", "finalize"}
      BY <2>2 DEF EncoderCloses, CheckLive, Restart
    <3> QED
      BY <2>1, <2>2, <3>1, <3>2, <3>3 DEF SInv, TypeOK, EncoderCloses, CheckLive, Restart, Loops
  <2>3. CASE Finalize \/ Sweep
    BY <2>1, <2>3 DEF SInv, TypeOK, Finalize, Sweep, BuildReplay, Loops
  <2> QED
    BY <2>2, <2>3
<1>2. UNCHANGED <<playlist, disk, thread, index, objects, live>>
  BY DEF EncoderCloses, CheckLive, Restart, Finalize, Sweep
<1>3. Known'
  <2>1. made' = made \/ made' = 0
    BY DEF EncoderCloses, CheckLive, Restart, Finalize, Sweep
  <2> QED
    BY <1>2, <2>1 DEF SInv, Known, Segs
<1>4. Uploaded'
  BY <1>2 DEF SInv, TypeOK, Uploaded, EncoderCloses, CheckLive, Restart, Finalize, Sweep, Fresh
<1>5. Accounted' /\ InHand'
  BY <1>2 DEF SInv, Accounted, InHand
<1>6. Flushing'
  BY <1>2 DEF SInv, Flushing, EncoderCloses, CheckLive, Restart, Finalize, Sweep
<1>7. IndexedIsStored'
  BY <1>2 DEF SInv, IndexedIsStored, EncoderCloses, CheckLive, Restart, Finalize, Sweep, BuildReplay
<1>8. FlushCatchesUp'
  BY <1>2 DEF SInv, FlushCatchesUp, EncoderCloses, CheckLive, Restart, Finalize, Sweep
<1> QED
  BY <1>1, <1>3, <1>4, <1>5, <1>6, <1>7, <1>8 DEF SInv

-----------------------------------------------------------------------------
(* runSync.                                                                   *)

LEMMA BeginSteps ==
  ASSUME SInv, NEW e \in Encoders, Tick(e) \/ StopLoop(e)
  PROVE  SInv'
<1> USE DEF stored, session, encoderVars, Elsewhere
<1> DEFINE new == [Idle EXCEPT !.pc = "next", !.text = playlist, !.todo = playlist]
<1>1. PICK k \in {"tick", "flush"} :
         /\ thread' = [thread EXCEPT ![<<e, k>>] = new]
         /\ k = "flush" => closing \in {"failed", "clean"} /\ e = enc
  BY DEF Tick, StopLoop, Begin
<1>2. <<e, k>> \in Threads
  BY DEF Threads
<1>3. new.pc = "next" /\ new.text = playlist /\ new.todo = playlist
  BY DEF Idle
<1>4. new \in Run
  BY DEF SInv, TypeOK, Run, Idle, Places, Content
<1>5. thread \in Runs
  BY DEF SInv, TypeOK, Runs, Run, Places
<1>6. thread' \in Runs
  BY <1>1, <1>4, <1>5 DEF Runs
<1>7. UNCHANGED <<enc, running, made, playlist, disk, closing, objects, index, live, isLive, replay,
                  dead, faults>>
  BY DEF Tick, StopLoop
<1>8. loop' \in Loops /\ \A f \in Encoders : loop'[f].uploaded = loop[f].uploaded
  <2>1. loop' = loop \/ loop' = [loop EXCEPT ![e].running = TRUE]
    BY DEF Tick, StopLoop
  <2>2. loop \in Loops
    BY DEF SInv, TypeOK, Loops
  <2>3. CASE loop' = [loop EXCEPT ![e].running = TRUE]
    <3>1. loop' = [loop EXCEPT ![e] = [loop[e] EXCEPT !.running = TRUE]]
      BY <2>3
    <3>2. [loop[e] EXCEPT !.running = TRUE]
            \in [active : BOOLEAN, running : BOOLEAN, uploaded : SUBSET Segs]
      BY <2>2 DEF Loops
    <3>3. loop' \in Loops
      BY <2>2, <3>1, <3>2 DEF Loops
    <3> QED
      BY <2>2, <3>1, <3>3 DEF Loops
  <2> QED
    BY <2>1, <2>2, <2>3
<1>9. TypeOK'
  BY <1>6, <1>7, <1>8 DEF SInv, TypeOK, Runs, Run, Loops, Places
<1> HIDE DEF new
<1>10. \A t \in Threads : thread'[t] = IF t = <<e, k>> THEN new ELSE thread[t]
  BY <1>1, <1>2, <1>5 DEF Runs
<1>11. Known' /\ Uploaded' /\ Accounted' /\ InHand'
  BY <1>3, <1>7, <1>8, <1>10 DEF SInv, Known, Uploaded, Accounted, InHand
<1>12. Flushing'
  <2>1. \A f \in Encoders : <<f, "flush">> \in Threads
    BY DEF Threads
  <2>2. \A f \in Encoders : (thread'[<<f, "flush">>] = thread[<<f, "flush">>])
                           \/ (f = e /\ k = "flush" /\ thread'[<<f, "flush">>] = new)
    BY <1>10, <2>1
  <2> QED
    BY <1>1, <1>3, <1>7, <2>2 DEF SInv, Flushing
<1>13. IndexedIsStored' /\ FlushCatchesUp'
  BY <1>7 DEF SInv, IndexedIsStored, FlushCatchesUp
<1> QED
  BY <1>9, <1>11, <1>12, <1>13 DEF SInv

\* A runSync that ends or gives up forgets what it was doing.
LEMMA IdleStep ==
  ASSUME SInv, NEW t \in Threads, thread' = [thread EXCEPT ![t] = Idle],
         UNCHANGED <<enc, running, made, playlist, disk, objects, index, isLive, replay>>,
         loop' \in Loops, \A e \in Encoders : loop'[e].uploaded = loop[e].uploaded,
         dead' \in BOOLEAN, faults' \in Nat,
         \/ UNCHANGED <<live, closing>>
         \/ /\ thread[t].pc = "next" /\ live' = thread[t].text
            /\ thread[t].todo \ loop[t[1]].uploaded = {}
            /\ \/ closing' = closing
               \/ t[2] = "flush" /\ closing' \in {"flushed", "finalize"}
  PROVE  SInv'
<1>1. thread \in Runs
  BY DEF SInv, TypeOK, Runs, Run, Places
<1>2. Idle \in Run
  BY DEF Run, Idle, Places, Content
<1>3. thread' \in Runs /\ \A u \in Threads : thread'[u] = IF u = t THEN Idle ELSE thread[u]
  BY <1>1, <1>2 DEF Runs
<1>4. Idle.pc = "idle" /\ Idle.text = {} /\ Idle.todo = {}
  BY DEF Idle
<1>5. t[1] \in Encoders /\ t[2] \in {"tick", "flush"} /\ t = <<t[1], t[2]>>
  BY DEF Threads
<1>6. \A n \in thread[t].text : thread[t].pc = "next" /\ thread[t].todo \ loop[t[1]].uploaded = {}
                                 => index[n] # None
  BY <1>5 DEF SInv, Accounted, Uploaded
<1>7. TypeOK'
  <2>1. live' \subseteq Segs
    BY <1>1 DEF SInv, TypeOK, Runs, Run
  <2>2. closing' \in {"no", "failed", "clean", "flushed", "restart", "finalize"}
    BY DEF SInv, TypeOK
  <2> QED
    BY <1>3, <2>1, <2>2 DEF SInv, TypeOK, Runs, Run, Loops, Places
<1>8. Known' /\ Uploaded' /\ Accounted' /\ InHand'
  BY <1>3, <1>4 DEF SInv, Known, Uploaded, Accounted, InHand
<1>9. IndexedIsStored'
  BY <1>6 DEF SInv, TypeOK, IndexedIsStored
<1>10. CASE closing' = closing
  <2>1. Flushing'
    BY <1>3, <1>4, <1>10 DEF SInv, Flushing, Threads
  <2>2. FlushCatchesUp'
    BY <1>10 DEF SInv, FlushCatchesUp
  <2> QED
    BY <1>7, <1>8, <1>9, <2>1, <2>2 DEF SInv
<1>11. CASE /\ thread[t].pc = "next" /\ thread[t].todo \ loop[t[1]].uploaded = {}
            /\ t[2] = "flush" /\ closing' \in {"flushed", "finalize"}
  <2>1. thread[t].text = playlist /\ closing \in {"failed", "clean"}
    BY <1>5, <1>11 DEF SInv, Flushing
  <2>4. \A f \in Encoders : f # t[1] => thread[<<f, "flush">>].pc = "idle"
    BY <1>5, <1>11 DEF SInv, Flushing
  <2>2. FlushCatchesUp'
    BY <1>6, <1>11, <2>1 DEF FlushCatchesUp
  <2>3. Flushing'
    <3>1. \A f \in Encoders : thread'[<<f, "flush">>].pc = "idle"
      <4>1. \A f \in Encoders : <<f, "flush">> \in Threads /\ (f = t[1] => <<f, "flush">> = t)
        BY <1>5, <1>11 DEF Threads
      <4> QED
        BY <1>3, <1>4, <2>4, <4>1
    <3> QED
      BY <1>11, <2>1, <3>1 DEF SInv, Flushing
  <2> QED
    BY <1>7, <1>8, <1>9, <2>2, <2>3 DEF SInv
<1> QED
  BY <1>10, <1>11

\* A runSync on its way: the rows, the objects and the segments that are known only grow.
LEMMA OnStep ==
  ASSUME SInv, NEW t \in Threads, NEW r \in Run, thread' = [thread EXCEPT ![t] = r],
         thread[t].pc # "idle", r.pc # "idle", r.text = thread[t].text,
         UNCHANGED <<enc, running, made, playlist, closing, live, isLive, replay, dead, faults>>,
         disk' \in [Segs -> Content], index' \in [Segs -> Content], objects' \in [Segs -> Content],
         loop' \in Loops,
         \A n \in Segs : /\ index[n] # None => index'[n] # None
                         /\ objects[n] # None => objects'[n] # None
                         /\ index'[n] # None => objects'[n] # None
                         /\ disk[n] # None => disk'[n] # None \/ index'[n] # None,
         \A e \in Encoders : \A n \in loop'[e].uploaded : index'[n] # None,
         \A n \in r.text : n \in r.todo \/ (n = r.seg /\ r.pc # "next") \/ index'[n] # None,
         r.pc # "next" => r.seg \in Segs,
         r.pc \in {"put", "record"} => r.buf # None,
         r.pc \in {"record", "unlink"} => objects'[r.seg] # None,
         r.pc = "unlink" => index'[r.seg] # None
  PROVE  SInv'
<1>1. thread \in Runs
  BY DEF SInv, TypeOK, Runs, Run, Places
<1>2. thread' \in Runs /\ \A u \in Threads : thread'[u] = IF u = t THEN r ELSE thread[u]
  BY <1>1 DEF Runs
<1>3. TypeOK'
  BY <1>2 DEF SInv, TypeOK, Runs, Run, Loops, Places
<1>4. Known'
  <2>1. playlist \subseteq Segs /\ \A u \in Threads : thread[u].text \subseteq Segs
    BY <1>1 DEF SInv, TypeOK, Runs, Run
  <2> QED
    BY <1>2, <2>1 DEF SInv, Known
<1>5. Uploaded'
  BY DEF Uploaded
<1>6. Accounted'
  <2>1. \A u \in Threads : thread[u].text \subseteq Segs
    BY <1>1 DEF Runs, Run
  <2> QED
    BY <1>2, <2>1 DEF SInv, Accounted
<1>7. InHand'
  BY <1>2 DEF SInv, InHand
<1>8. Flushing'
  <2>1. \A e \in Encoders : <<e, "flush">> \in Threads
    BY DEF Threads
  <2>2. \A e \in Encoders : /\ thread'[<<e, "flush">>].text = thread[<<e, "flush">>].text
                           /\ thread'[<<e, "flush">>].pc # "idle" => thread[<<e, "flush">>].pc # "idle"
    BY <1>2, <2>1
  <2> QED
    BY <2>2 DEF SInv, Flushing
<1>9. IndexedIsStored' /\ FlushCatchesUp'
  <2>1. playlist \subseteq Segs
    BY DEF SInv, TypeOK
  <2> QED
    BY <2>1 DEF SInv, IndexedIsStored, FlushCatchesUp
<1> QED
  BY <1>3, <1>4, <1>5, <1>6, <1>7, <1>8, <1>9 DEF SInv

\* What the steps below start from.
LEMMA Before ==
  ASSUME SInv, NEW t \in Threads
  PROVE  /\ thread \in Runs /\ thread[t] \in Run /\ loop \in Loops /\ t[1] \in Encoders
         /\ {disk, index, objects} \subseteq [Segs -> Content]
         /\ \A n \in Segs : index[n] # None => objects[n] # None
         /\ \A e \in Encoders : loop[e].uploaded \subseteq Segs
BY DEF SInv, TypeOK, Runs, Run, Places, Loops, Threads, IndexedIsStored

\* What is on disk, or else in the index, is skipped or taken in hand.
LEMMA SyncNextStep ==
  ASSUME SInv, NEW t \in Threads, SyncNext(t)
  PROVE  SInv'
<1> DEFINE todo == thread[t].todo \ loop[t[1]].uploaded
<1>1. PICK n \in todo :
         thread' = IF disk[n] = None
                   THEN [thread EXCEPT ![t].todo = todo \ {n}]
                   ELSE [thread EXCEPT ![t].todo = todo \ {n}, ![t].seg = n, ![t].pc = "read"]
  BY DEF SyncNext
<1> DEFINE r == IF disk[n] = None
                THEN [thread[t] EXCEPT !.todo = todo \ {n}]
                ELSE [thread[t] EXCEPT !.todo = todo \ {n}, !.seg = n, !.pc = "read"]
<1>2. thread[t].pc = "next" /\ UNCHANGED <<loop, disk, objects, index, live, dead, faults>>
       /\ UNCHANGED <<enc, running, made, playlist, closing, isLive, replay>>
  BY DEF SyncNext, Elsewhere, stored, encoderVars, session
<1>3. thread' = [thread EXCEPT ![t] = r]
  BY <1>1, Before DEF Runs
<1>4. n \in Segs
  BY Before DEF Run
<1>5. r \in Run /\ r.text = thread[t].text /\ r.pc \in {"next", "read"} /\ (r.pc = "read" => r.seg \in Segs)
       /\ r.todo = todo \ {n} /\ (disk[n] # None => r.seg = n /\ r.pc = "read")
  BY <1>2, <1>4, Before DEF Run, Places
<1> HIDE DEF r
<1>6. \A k \in r.text : k \in r.todo \/ (k = r.seg /\ r.pc # "next") \/ index[k] # None
  <2>1. \A k \in thread[t].text : k \in thread[t].todo \/ index[k] # None
    BY <1>2 DEF SInv, Accounted
  <2>2. \A k \in loop[t[1]].uploaded : index[k] # None
    BY Before DEF SInv, Uploaded
  <2>3. n \in thread[t].text /\ disk[n] = None => index[n] # None
    BY DEF SInv, Known
  <2> QED
    BY <1>5, <2>1, <2>2, <2>3
<1>7. \A e \in Encoders : \A k \in loop[e].uploaded : index[k] # None
  BY DEF SInv, Uploaded
<1> QED
  BY <1>2, <1>3, <1>5, <1>6, <1>7, Before, OnStep

\* A loop whose flags change keeps what it has uploaded.
LEMMA FlagKeeps ==
  ASSUME SInv, NEW e \in Encoders,
         \/ loop' = loop
         \/ loop' = [loop EXCEPT ![e].running = FALSE]
         \/ loop' = [loop EXCEPT ![e].active = FALSE]
  PROVE  loop' \in Loops /\ \A f \in Encoders : loop'[f].uploaded = loop[f].uploaded
<1>1. loop \in Loops
  BY DEF SInv, TypeOK, Loops
<1>2. CASE loop' = [loop EXCEPT ![e].running = FALSE]
  <2>1. loop' = [loop EXCEPT ![e] = [loop[e] EXCEPT !.running = FALSE]]
    BY <1>2
  <2>2. [loop[e] EXCEPT !.running = FALSE] \in [active : BOOLEAN, running : BOOLEAN, uploaded : SUBSET Segs]
    BY <1>1 DEF Loops
  <2>3. loop' \in Loops
    BY <1>1, <2>1, <2>2 DEF Loops
  <2> QED
    BY <1>1, <2>1, <2>3 DEF Loops
<1>3. CASE loop' = [loop EXCEPT ![e].active = FALSE]
  <2>1. loop' = [loop EXCEPT ![e] = [loop[e] EXCEPT !.active = FALSE]]
    BY <1>3
  <2>2. [loop[e] EXCEPT !.active = FALSE] \in [active : BOOLEAN, running : BOOLEAN, uploaded : SUBSET Segs]
    BY <1>1 DEF Loops
  <2>3. loop' \in Loops
    BY <1>1, <2>1, <2>2 DEF Loops
  <2> QED
    BY <1>1, <2>1, <2>3 DEF Loops
<1> QED
  BY <1>1, <1>2, <1>3

\* A runSync that throws, also because the file has gone since it looked.
LEMMA ThrowsStep ==
  ASSUME SInv, NEW t \in Threads, Throws(t), Elsewhere, faults' \in Nat
  PROVE  SInv'
<1>1. loop' \in Loops /\ \A f \in Encoders : loop'[f].uploaded = loop[f].uploaded
  BY Before, FlagKeeps DEF Throws
<1>2. dead' \in BOOLEAN
  <2>1. dead' = TRUE \/ dead' = FALSE
    BY Zenon DEF Throws
  <2> QED
    BY <2>1
<1> QED
  BY <1>1, <1>2, IdleStep DEF Throws, Elsewhere, stored, encoderVars, session

LEMMA FailsStep ==
  ASSUME SInv, NEW t \in Threads, Fails(t)
  PROVE  SInv'
<1>1. faults' \in Nat
  BY DEF SInv, TypeOK, Fails
<1> QED
  BY <1>1, ThrowsStep DEF Fails

\* The end of a run, and of the flush.
LEMMA SyncPlaylistStep ==
  ASSUME SInv, NEW t \in Threads, SyncPlaylist(t)
  PROVE  SInv'
<1>1. loop' \in Loops /\ \A f \in Encoders : loop'[f].uploaded = loop[f].uploaded
  <2>1. \/ loop' = [loop EXCEPT ![t[1]].running = FALSE]
        \/ loop' = [loop EXCEPT ![t[1]].active = FALSE]
    BY DEF SyncPlaylist
  <2> QED
    BY <2>1, Before, FlagKeeps
<1>2. t[2] \in {"tick", "flush"}
  BY DEF Threads
<1>3. \/ closing' = closing
      \/ t[2] = "flush" /\ closing' \in {"flushed", "finalize"}
  BY <1>2 DEF SyncPlaylist
<1>4. dead' \in BOOLEAN /\ faults' \in Nat
  BY DEF SInv, TypeOK, SyncPlaylist
<1> QED
  BY <1>1, <1>3, <1>4, IdleStep DEF SyncPlaylist, encoderVars, session

LEMMA SyncReadStep ==
  ASSUME SInv, NEW t \in Threads, SyncRead(t)
  PROVE  SInv'
<1>1. CASE disk[thread[t].seg] = None
  <2>1. faults' \in Nat
    BY DEF SInv, TypeOK, SyncRead
  <2> QED
    BY <1>1, <2>1, ThrowsStep DEF SyncRead
<1>2. CASE disk[thread[t].seg] # None
  <2> DEFINE r == [thread[t] EXCEPT !.pc = "put", !.buf = disk[thread[t].seg]]
  <2>1. thread[t].pc = "read" /\ thread[t].seg \in Segs
    BY DEF SInv, SyncRead, InHand
  <2>2. thread' = [thread EXCEPT ![t] = r]
    BY <1>2, Before DEF SyncRead, Runs
  <2>3. /\ UNCHANGED <<loop, disk, objects, index, live, dead, faults>>
        /\ UNCHANGED <<enc, running, made, playlist, closing, isLive, replay>>
    BY <1>2 DEF SyncRead, Elsewhere, stored, encoderVars, session
  <2>4. r \in Run /\ r.text = thread[t].text /\ r.todo = thread[t].todo /\ r.seg = thread[t].seg
        /\ r.pc = "put" /\ r.buf # None
    BY <1>2, <2>1, Before DEF Run, Places
  <2> HIDE DEF r
  <2>5. \A n \in r.text : n \in r.todo \/ (n = r.seg /\ r.pc # "next") \/ index[n] # None
    BY <2>1, <2>4 DEF SInv, Accounted
  <2>6. \A e \in Encoders : \A n \in loop[e].uploaded : index[n] # None
    BY DEF SInv, Uploaded
  <2> QED
    BY <2>1, <2>2, <2>3, <2>4, <2>5, <2>6, Before, OnStep
<1> QED
  BY <1>1, <1>2

LEMMA SyncPutStep ==
  ASSUME SInv, NEW t \in Threads, SyncPut(t)
  PROVE  SInv'
<1> DEFINE r == [thread[t] EXCEPT !.pc = "record"]
<1>1. thread[t].pc = "put" /\ thread[t].seg \in Segs /\ thread[t].buf # None
  BY DEF SInv, SyncPut, InHand
<1>2. thread' = [thread EXCEPT ![t] = r]
  BY Before DEF SyncPut, Awaits, Runs
<1>3. /\ UNCHANGED <<loop, disk, index, live, dead, faults>>
      /\ UNCHANGED <<enc, running, made, playlist, closing, isLive, replay>>
      /\ objects' = [objects EXCEPT ![thread[t].seg] = thread[t].buf]
  BY DEF SyncPut, Elsewhere, encoderVars, session
<1>4. r \in Run /\ r.text = thread[t].text /\ r.todo = thread[t].todo /\ r.seg = thread[t].seg
      /\ r.pc = "record" /\ r.buf = thread[t].buf
  BY <1>1, Before DEF Run, Places
<1> HIDE DEF r
<1>5. \A n \in r.text : n \in r.todo \/ (n = r.seg /\ r.pc # "next") \/ index[n] # None
  BY <1>1, <1>4 DEF SInv, Accounted
<1>6. \A e \in Encoders : \A n \in loop[e].uploaded : index[n] # None
  BY DEF SInv, Uploaded
<1>7. /\ objects' \in [Segs -> Content] /\ objects'[thread[t].seg] # None
      /\ \A n \in Segs : objects[n] # None => objects'[n] # None
  BY <1>1, <1>3, Before DEF Run
<1> QED
  BY <1>1, <1>2, <1>3, <1>4, <1>5, <1>6, <1>7, Before, OnStep

LEMMA SyncRecordStep ==
  ASSUME SInv, NEW t \in Threads, SyncRecord(t)
  PROVE  SInv'
<1> DEFINE r == [thread[t] EXCEPT !.pc = "unlink"]
<1>1. thread[t].pc = "record" /\ thread[t].seg \in Segs /\ thread[t].buf # None /\ objects[thread[t].seg] # None
  BY DEF SInv, SyncRecord, InHand
<1>2. thread' = [thread EXCEPT ![t] = r]
  BY Before DEF SyncRecord, Awaits, Runs
<1>3. /\ UNCHANGED <<disk, objects, live, dead, faults>>
      /\ UNCHANGED <<enc, running, made, playlist, closing, isLive, replay>>
      /\ index' = [index EXCEPT ![thread[t].seg] = IF @ = None THEN thread[t].buf ELSE @]
  BY DEF SyncRecord, Elsewhere, encoderVars, session
<1>4. r \in Run /\ r.text = thread[t].text /\ r.todo = thread[t].todo /\ r.seg = thread[t].seg
      /\ r.pc = "unlink" /\ r.buf = thread[t].buf
  BY <1>1, Before DEF Run, Places
<1> HIDE DEF r
<1>5. /\ index' \in [Segs -> Content] /\ index'[thread[t].seg] # None
      /\ \A n \in Segs : index[n] # None => index'[n] # None
      /\ \A n \in Segs : index'[n] # None => n = thread[t].seg \/ index[n] # None
  BY <1>1, <1>3, Before DEF Run
<1>6. \A n \in r.text : n \in r.todo \/ (n = r.seg /\ r.pc # "next") \/ index'[n] # None
  BY <1>1, <1>4, <1>5, Before DEF SInv, Accounted, Run
<1>7. /\ loop' \in Loops
      /\ \A e \in Encoders : loop'[e].uploaded \subseteq loop[e].uploaded \cup {thread[t].seg}
  <2>1. loop' = [loop EXCEPT ![t[1]] = [loop[t[1]] EXCEPT !.uploaded = @ \cup {thread[t].seg}]]
    BY DEF SyncRecord
  <2>2. [loop[t[1]] EXCEPT !.uploaded = @ \cup {thread[t].seg}]
          \in [active : BOOLEAN, running : BOOLEAN, uploaded : SUBSET Segs]
    BY <1>1, Before DEF Loops
  <2>3. loop' \in Loops
    BY <2>1, <2>2, Before DEF Loops
  <2> QED
    BY <2>1, <2>3, Before DEF Loops
<1>8. \A e \in Encoders : \A n \in loop'[e].uploaded : index'[n] # None
  BY <1>5, <1>7, Before DEF SInv, Uploaded
<1> QED
  BY <1>1, <1>2, <1>3, <1>4, <1>5, <1>6, <1>7, <1>8, Before, OnStep

LEMMA SyncUnlinkStep ==
  ASSUME SInv, NEW t \in Threads, SyncUnlink(t)
  PROVE  SInv'
<1> DEFINE r == [thread[t] EXCEPT !.pc = "next", !.seg = 0, !.buf = None]
<1>1. thread[t].pc = "unlink" /\ thread[t].seg \in Segs /\ index[thread[t].seg] # None
  BY DEF SInv, SyncUnlink, InHand
<1>2. thread' = [thread EXCEPT ![t] = r]
  BY Before DEF SyncUnlink, Runs
<1>3. /\ UNCHANGED <<loop, objects, index, live, dead, faults>>
      /\ UNCHANGED <<enc, running, made, playlist, closing, isLive, replay>>
      /\ disk' = [disk EXCEPT ![thread[t].seg] = None]
  BY DEF SyncUnlink, Elsewhere, stored, encoderVars, session
<1>4. r \in Run /\ r.text = thread[t].text /\ r.todo = thread[t].todo /\ r.pc = "next"
  BY <1>1, Before DEF Run, Places, Content
<1> HIDE DEF r
<1>5. \A n \in r.text : n \in r.todo \/ (n = r.seg /\ r.pc # "next") \/ index[n] # None
  BY <1>1, <1>4 DEF SInv, Accounted
<1>6. \A e \in Encoders : \A n \in loop[e].uploaded : index[n] # None
  BY DEF SInv, Uploaded
<1>7. disk' \in [Segs -> Content] /\ \A n \in Segs : disk[n] # None => disk'[n] # None \/ index[n] # None
  BY <1>1, <1>3, Before DEF Content
<1> QED
  BY <1>1, <1>2, <1>3, <1>4, <1>5, <1>6, <1>7, Before, OnStep

-----------------------------------------------------------------------------
LEMMA SInvStep == SInv /\ [Next]_vars => SInv'
<1> SUFFICES ASSUME SInv, [Next]_vars PROVE SInv'
  OBVIOUS
<1>1. CASE Next
  BY <1>1, EncodeStep, CloseSteps, BeginSteps, SyncNextStep, SyncReadStep, SyncPutStep, SyncRecordStep,
     SyncUnlinkStep, SyncPlaylistStep, FailsStep DEF Next
<1>2. CASE UNCHANGED vars
  BY <1>2 DEF vars, encoderVars, stored, session, SInv, TypeOK, Known, Uploaded, Accounted, InHand, Flushing,
              IndexedIsStored, FlushCatchesUp
<1> QED
  BY <1>1, <1>2

LEMMA SInvAlways == Spec => []SInv
BY SInvInit, SInvStep, PTL DEF Spec

\* Type correctness, for segment-sync.service.ts and the close handler of ffmpeg.service.ts.
THEOREM SegmentsTyped == Spec => []TypeOK
<1>1. SInv => TypeOK
  BY DEF SInv
<1> QED
  BY <1>1, SInvAlways, PTL

\* runSync: however ticks, flushes and encoders overlap and whatever fails, what the index,
\* the replay and the live playlist name has its object in S3.
THEOREM IndexedSegmentsAreStored == Spec => []IndexedIsStored
<1>1. SInv => IndexedIsStored
  BY DEF SInv
<1> QED
  BY <1>1, SInvAlways, PTL

\* stopLoop: when it returns, the index has all that the last playlist names.
THEOREM FlushLeavesNothing == Spec => []FlushCatchesUp
<1>1. SInv => FlushCatchesUp
  BY DEF SInv
<1> QED
  BY <1>1, SInvAlways, PTL
=============================================================================
