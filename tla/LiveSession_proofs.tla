------------------------- MODULE LiveSession_proofs -------------------------
(***************************************************************************)
(* Proofs about LiveSession, for every number of keys, sessions, broad-    *)
(* casters, jobs, segments, failing calls and crashes.                     *)
(*                                                                         *)
(* IInv is the inductive invariant.  A thread inside finalizeVod holds its *)
(* session through the status (Claims), so that two of them never hold the *)
(* same one (OneFinalizer) and what one of them has written about it is    *)
(* still there when it marks the session ended (Replays).                  *)
(***************************************************************************)
EXTENDS LiveSession, TLAPS

\* The status that a thread inside finalizeVod has given its session stays until
\* the thread moves it on.
Claims ==
  \A t \in Threads :
    /\ pc[t] \in Finalizing \cup {"begin"} => cur[t] \in Sessions
    /\ pc[t] \in Building => status[cur[t]] = "stitching"
    /\ pc[t] = "announce" => status[cur[t]] = "ended"
    /\ pc[t] = "fail" => status[cur[t]] \in {"stitching", "ended"}

\* A hook looks up and creates sessions of the key it was called with, and
\* startBroadcast starts the encoder of a session it has created.
Created ==
  \A p \in Publishers :
    /\ hook[p] \in {"findKey", "findActive", "create", "webCreate"} => hookKey[p] \in Keys
    /\ hook[p] = "webLaunch" => hookSess[p] \in Sessions

\* Past these places a thread relies on what it has read or written before.
Working == {"playlists", "register", "mark", "announce"}

\* What is known of a replay and its video on the way to an ended session.
Replays ==
  /\ \A s \in Sessions : replay[s] <= segs[s] /\ videos[s] <= 1
  /\ EndedHasReplay
  /\ \A t \in Threads :
       /\ pc[t] = "playlists" => /\ 0 < snap[t] /\ snap[t] <= segs[cur[t]]
                                /\ replay[cur[t]] <= snap[t]
       /\ pc[t] \in Working \ {"playlists"} => replay[cur[t]] > 0
       /\ pc[t] \in {"mark", "announce"} => videos[cur[t]] = 1

IInv ==
  TypeOK /\ Claims /\ Created /\ OneFinalizer /\ OneLivePerKey /\ Replays

-----------------------------------------------------------------------------
(* Type correctness.  It needs Claims and Created: a thread reads the row of  *)
(* cur[t], a socket the session it has created.                               *)

\* The close handlers, the jobs and the recovery are threads.
LEMMA ThreadKinds ==
  /\ \A s \in Sessions : s \in Threads
  /\ \A t \in Sweeps \cup Retries : t \in Threads
  /\ Recover \in Threads
  BY DEF Threads, Jobs

\* A failing call counts within the naturals.
LEMMA FaultNat == ASSUME TypeOK, NEW f, Fault(f) PROVE faults' \in Nat
  BY DEF Fault, TypeOK, ProcessTypes

\* A process that dies leaves its memory with its types.
LEMMA DieTypes ==
  ASSUME TypeOK, Die, UNCHANGED <<keyState, forced, gone>>,
         faults' \in Nat, crashes' \in Nat
  PROVE  EncTypes' /\ ThreadTypes' /\ HookTypes' /\ ProcessTypes'
<1> USE DEF TypeOK, Die
<1>1. EncTypes'
  BY DEF EncTypes
<1>2. ThreadTypes'
  BY DEF ThreadTypes, ThreadPCs
<1>3. HookTypes'
  BY DEF HookTypes, HookPCs, Answering
<1>4. ProcessTypes'
  BY DEF ProcessTypes
<1> QED
  BY <1>1, <1>2, <1>3, <1>4

\* So does a finalizeVod that rejects, whether a job survives it or not.
LEMMA ThrowTypes ==
  ASSUME TypeOK, NEW t \in Threads, Throw(t),
         UNCHANGED <<keyState, forced, gone, crashes>>, faults' \in Nat
  PROVE  EncTypes' /\ ThreadTypes' /\ HookTypes' /\ ProcessTypes'
<1>1. CASE Die
  BY <1>1, DieTypes DEF TypeOK, ProcessTypes
<1>2. CASE ~Die
  BY <1>2 DEF Throw, Goto, TypeOK, EncTypes, ThreadTypes, ThreadPCs, HookTypes,
     ProcessTypes, process, encVars, hookVars
<1> QED
  BY <1>1, <1>2

\* A tick or the final flush of the segment-sync loop keeps the types.
LEMMA SyncTypes ==
  ASSUME RowTypes, EncTypes, NEW s \in Sessions, Sync(s),
         UNCHANGED <<status, keyOf, enc, restarted, code, made, web>>
  PROVE  RowTypes' /\ EncTypes'
<1>1. segs' \in [Sessions -> Nat] /\ local' \in [Sessions -> Nat]
  BY DEF RowTypes, EncTypes, Sync
<1>2. quiet' \in [Sessions -> BOOLEAN]
  BY Zenon DEF RowTypes, EncTypes, Sync
<1> QED
  BY <1>1, <1>2 DEF RowTypes, EncTypes

\* A new FFmpeg child keeps the types.
LEMMA LaunchTypes ==
  ASSUME EncTypes, NEW s, NEW r \in BOOLEAN, Launch(s, r), web' \subseteq Sessions
  PROVE  EncTypes'
<1>1. enc' \in [Sessions -> {"off", "run", "eof", "term"}]
  BY DEF Launch, EncTypes
<1>2. restarted' \in [Sessions -> BOOLEAN]
  BY Zenon DEF Launch, EncTypes
<1>3. made' \in [Sessions -> Nat]
  BY DEF Launch, EncTypes
<1> QED
  BY <1>1, <1>2, <1>3 DEF Launch, EncTypes

\* The empty database has its types.
LEMMA TypeInit == Init => TypeOK
<1> SUFFICES ASSUME Init PROVE TypeOK
  OBVIOUS
<1>1. RowTypes /\ OutTypes /\ EncTypes
  BY DEF Init, RowTypes, OutTypes, EncTypes, Statuses
<1>2. ThreadTypes /\ HookTypes
  BY DEF Init, ThreadTypes, ThreadPCs, HookTypes, HookPCs
<1>3. ProcessTypes
  BY DEF Init, ProcessTypes
<1> QED
  BY <1>1, <1>2, <1>3 DEF TypeOK

\* Every step keeps the types: one case per action of LiveSession.
LEMMA TypeStep ==
  ASSUME TypeOK, Claims, Created, [Next]_vars
  PROVE  TypeOK'
<1>1. CASE Crash
  <2>1. crashes' \in Nat /\ faults' \in Nat
    BY <1>1 DEF Crash, TypeOK, ProcessTypes
  <2>2. EncTypes' /\ ThreadTypes' /\ HookTypes' /\ ProcessTypes'
    BY <1>1, <2>1, DieTypes DEF Crash
  <2> QED
    BY <1>1, <2>2 DEF Crash, TypeOK, RowTypes, OutTypes, rowVars, outVars
<1>2. CASE Boot
  BY <1>2, ThreadKinds DEF Boot, TypeOK, RowTypes, OutTypes, EncTypes,
       ThreadTypes, HookTypes, ProcessTypes, rowVars, outVars, encVars,
       hookVars, requests, bounds, ThreadPCs
<1>3. ASSUME NEW k \in Keys, CreateStreamKey(k) PROVE TypeOK'
  BY <1>3 DEF CreateStreamKey, TypeOK, RowTypes, OutTypes, EncTypes,
       ThreadTypes, HookTypes, ProcessTypes, rowVars, outVars, encVars, thrVars,
       hookVars, process, requests, bounds
<1>4. ASSUME NEW k \in Keys, RevokeKey(k) PROVE TypeOK'
  BY <1>4 DEF RevokeKey, TypeOK, RowTypes, OutTypes, EncTypes, ThreadTypes,
       HookTypes, ProcessTypes, rowVars, outVars, encVars, thrVars, hookVars,
       process, bounds
<1>5. ASSUME NEW k \in Keys, RevokeKick(k) PROVE TypeOK'
  BY <1>5 DEF RevokeKick, DropPublisher, Disconnect, LiveOn, Fault, Feeds,
       TypeOK, RowTypes, OutTypes, EncTypes, ThreadTypes, HookTypes,
       ProcessTypes, rowVars, outVars, thrVars, process, HookPCs, Answering
<1>6. ASSUME NEW p \in Publishers, PublisherLeaves(p) PROVE TypeOK'
  BY <1>6 DEF PublisherLeaves, Disconnect, TypeOK, RowTypes, OutTypes, EncTypes,
       ThreadTypes, HookTypes, ProcessTypes, rowVars, outVars, thrVars, process,
       requests, bounds, HookPCs, Answering
<1>7. ASSUME NEW s \in Sessions, ForceEnd(s) PROVE TypeOK'
  BY <1>7 DEF ForceEnd, DropPublisher, Disconnect, Fault, TypeOK, RowTypes,
       OutTypes, EncTypes, ThreadTypes, HookTypes, ProcessTypes, rowVars,
       outVars, thrVars, process, HookPCs, Answering
<1>8. ASSUME NEW p \in Publishers, NEW k \in Keys, Publish(p,k) PROVE TypeOK'
  BY <1>8 DEF Publish, HookAt, TypeOK, RowTypes, OutTypes, EncTypes,
       ThreadTypes, HookTypes, ProcessTypes, rowVars, outVars, encVars, thrVars,
       process, requests, bounds, HookPCs, Answering
<1>9. ASSUME NEW p \in Publishers, OnPublishFindKey(p) PROVE TypeOK'
  BY <1>9 DEF OnPublishFindKey, HookAt, TypeOK, RowTypes, OutTypes, EncTypes,
       ThreadTypes, HookTypes, ProcessTypes, rowVars, outVars, encVars, thrVars,
       process, requests, bounds, HookPCs, Answering
<1>10. ASSUME NEW p \in Publishers, OnPublishFindActive(p) PROVE TypeOK'
  BY <1>10 DEF OnPublishFindActive, HookAt, TypeOK, RowTypes, OutTypes,
       EncTypes, ThreadTypes, HookTypes, ProcessTypes, rowVars, outVars,
       encVars, thrVars, process, requests, bounds, HookPCs, Answering
<1>11. ASSUME NEW p \in Publishers, OnPublishCreate(p) PROVE TypeOK'
  <2>1. RowTypes'
    BY <1>11 DEF OnPublishCreate, CreateSession, CreateRow, TypeOK, RowTypes,
       HookTypes, rowVars, Statuses
  <2> QED
    BY <1>11, <2>1 DEF OnPublishCreate, CreateSession, CreateRow, HookAt, TypeOK,
       OutTypes, EncTypes, ThreadTypes, HookTypes, HookPCs, Answering, ProcessTypes,
       outVars, encVars, thrVars, process, requests, bounds
<1>12. ASSUME NEW p \in Publishers, OnPublishLaunch(p) PROVE TypeOK'
  <2>1. EncTypes'
    <3>1. CASE Launch(hookSess[p], FALSE)
      BY <1>12, <3>1, LaunchTypes DEF OnPublishLaunch, TypeOK, EncTypes
    <3>2. CASE UNCHANGED <<enc, restarted, code, made, local>>
      BY <1>12, <3>2 DEF OnPublishLaunch, TypeOK, EncTypes
    <3> QED
      BY <1>12, <3>1, <3>2 DEF OnPublishLaunch
  <2> QED
    BY <1>12, <2>1, FaultNat DEF OnPublishLaunch, HookAt, TypeOK, RowTypes, OutTypes,
       ThreadTypes, HookTypes, HookPCs, Answering, ProcessTypes, rowVars, outVars,
       thrVars, process, requests
<1>13. ASSUME NEW p \in Publishers, NginxAccepts(p) PROVE TypeOK'
  BY <1>13 DEF NginxAccepts, HookAt, Fault, TypeOK, RowTypes, OutTypes,
       EncTypes, ThreadTypes, HookTypes, ProcessTypes, rowVars, outVars,
       encVars, thrVars, process, requests, HookPCs, Answering
<1>14. ASSUME NEW p \in Publishers, OnPublishDone(p) PROVE TypeOK'
  BY <1>14 DEF OnPublishDone, HookAt, Stopped, TypeOK, RowTypes, OutTypes,
       EncTypes, ThreadTypes, HookTypes, ProcessTypes, rowVars, outVars,
       thrVars, process, requests, bounds, HookPCs, Answering
<1>15. ASSUME NEW p \in Publishers, PublishDoneLost(p) PROVE TypeOK'
  BY <1>15 DEF PublishDoneLost, HookAt, TypeOK, RowTypes, OutTypes, EncTypes,
       ThreadTypes, HookTypes, ProcessTypes, rowVars, outVars, encVars, thrVars,
       process, requests, bounds, HookPCs, Answering
<1>16. ASSUME NEW p \in Publishers, HookFails(p) PROVE TypeOK'
  BY <1>16 DEF HookFails, HookAt, Fault, TypeOK, RowTypes, OutTypes, EncTypes,
       ThreadTypes, HookTypes, ProcessTypes, rowVars, outVars, encVars, thrVars,
       process, requests, HookPCs, Answering
<1>17. ASSUME NEW p \in Publishers, BrowserConnects(p) PROVE TypeOK'
  BY <1>17 DEF BrowserConnects, HookAt, TypeOK, RowTypes, OutTypes, EncTypes,
       ThreadTypes, HookTypes, ProcessTypes, rowVars, outVars, encVars, thrVars,
       process, requests, bounds, HookPCs, Answering
<1>18. ASSUME NEW p \in Publishers, BroadcastMintsKey(p) PROVE TypeOK'
  BY <1>18 DEF BroadcastMintsKey, HookAt, TypeOK, RowTypes, OutTypes, EncTypes,
       ThreadTypes, HookTypes, ProcessTypes, rowVars, outVars, encVars, thrVars,
       process, requests, bounds, HookPCs, Answering
<1>19. ASSUME NEW p \in Publishers, BrowserDrops(p) PROVE TypeOK'
  BY <1>19 DEF BrowserDrops, TypeOK, RowTypes, OutTypes, EncTypes, ThreadTypes,
       HookTypes, ProcessTypes, rowVars, outVars, encVars, thrVars, hookVars,
       process, bounds, HookPCs, Answering
<1>20. ASSUME NEW p \in Publishers, BroadcastCreate(p) PROVE TypeOK'
  <2>1. RowTypes'
    BY <1>20 DEF BroadcastCreate, CreateSession, CreateRow, TypeOK, RowTypes,
       HookTypes, rowVars, Statuses
  <2> QED
    BY <1>20, <2>1 DEF BroadcastCreate, CreateSession, CreateRow, HookAt, TypeOK,
       OutTypes, EncTypes, ThreadTypes, HookTypes, HookPCs, Answering, ProcessTypes,
       outVars, encVars, thrVars, process, requests, bounds
<1>21. ASSUME NEW p \in Publishers, BroadcastLaunch(p) PROVE TypeOK'
  <2>1. EncTypes'
    <3>1. CASE Launch(hookSess[p], TRUE) /\ web' = web \cup {hookSess[p]}
      <4>1. web' \subseteq Sessions
        BY <1>21, <3>1 DEF BroadcastLaunch, Created, TypeOK, EncTypes
      <4> QED
        BY <3>1, <4>1, LaunchTypes DEF TypeOK
    <3>2. CASE UNCHANGED encVars
      BY <1>21, <3>2 DEF TypeOK, EncTypes, encVars
    <3> QED
      BY <1>21, <3>1, <3>2 DEF BroadcastLaunch
  <2> QED
    BY <1>21, <2>1, FaultNat DEF BroadcastLaunch, HookAt, TypeOK, RowTypes, OutTypes,
       ThreadTypes, HookTypes, HookPCs, Answering, ProcessTypes, rowVars, outVars,
       thrVars, process, requests
<1>22. ASSUME NEW s \in Sessions, Encode(s) PROVE TypeOK'
  BY <1>22 DEF Encode, TypeOK, RowTypes, OutTypes, EncTypes, ThreadTypes,
       HookTypes, ProcessTypes, rowVars, outVars, thrVars, hookVars, process,
       requests, bounds
<1>23. ASSUME NEW s \in Sessions, SyncTick(s) PROVE TypeOK'
  BY <1>23 DEF SyncTick, Sync, TypeOK, RowTypes, OutTypes, EncTypes,
       ThreadTypes, HookTypes, ProcessTypes, outVars, thrVars, hookVars,
       process, requests, bounds
<1>24. ASSUME NEW s \in Sessions, GoQuiet(s) PROVE TypeOK'
  BY <1>24 DEF GoQuiet, TypeOK, RowTypes, OutTypes, EncTypes, ThreadTypes,
       HookTypes, ProcessTypes, outVars, encVars, thrVars, hookVars, process,
       requests, bounds
<1>25. ASSUME NEW s \in Sessions, KillTimer(s) PROVE TypeOK'
  BY <1>25 DEF KillTimer, TypeOK, RowTypes, OutTypes, EncTypes, ThreadTypes,
       HookTypes, ProcessTypes, rowVars, outVars, thrVars, hookVars, process,
       requests, bounds
<1>26. ASSUME NEW s \in Sessions, EncoderCloses(s) PROVE TypeOK'
  BY <1>26, ThreadKinds DEF EncoderCloses, TypeOK, RowTypes, OutTypes, EncTypes,
       ThreadTypes, HookTypes, ProcessTypes, rowVars, outVars, hookVars,
       process, requests, bounds, ThreadPCs
<1>27. ASSUME NEW s \in Sessions, StopLoop(s) PROVE TypeOK'
  <2>1. CASE Fault("s3") /\ Die /\ UNCHANGED <<segs, quiet>>
    <3>1. EncTypes' /\ ThreadTypes' /\ HookTypes' /\ ProcessTypes'
      BY <1>27, <2>1, FaultNat, DieTypes DEF StopLoop, TypeOK, ProcessTypes
    <3> QED
      BY <1>27, <2>1, <3>1 DEF StopLoop, TypeOK, RowTypes, OutTypes, outVars
  <2>2. CASE Sync(s) /\ pc' = [pc EXCEPT ![s] = "isLive"]
             /\ UNCHANGED <<process, cur, todo, snap, tries, enc, restarted, code, made,
                            web, hookVars, revoking, faults>>
    <3>1. RowTypes' /\ EncTypes'
      BY <1>27, <2>2, SyncTypes DEF StopLoop, TypeOK
    <3>2. ThreadTypes'
      BY <2>2, ThreadKinds DEF TypeOK, ThreadTypes, ThreadPCs
    <3> QED
      BY <1>27, <2>2, <3>1, <3>2 DEF StopLoop, TypeOK, OutTypes, HookTypes,
         ProcessTypes, process, outVars, hookVars
  <2> QED
    BY <1>27, <2>1, <2>2 DEF StopLoop
<1>28. ASSUME NEW s \in Sessions, CheckLive(s) PROVE TypeOK'
  <2>1. CASE Die
    BY <1>28, <2>1, DieTypes, FaultNat DEF CheckLive, TypeOK, RowTypes, OutTypes,
       ProcessTypes, rowVars, outVars
  <2>2. CASE ~Die
    <3>1. ThreadTypes'
      BY <1>28, <2>2, ThreadKinds DEF CheckLive, TypeOK, ThreadTypes, ThreadPCs
    <3>2. RowTypes' /\ OutTypes' /\ EncTypes'
      BY <1>28, <2>2 DEF CheckLive, TypeOK, RowTypes, OutTypes, EncTypes, rowVars,
         outVars, encVars
    <3> QED
      BY <1>28, <2>2, <3>1, <3>2 DEF CheckLive, TypeOK, HookTypes, ProcessTypes, hookVars,
         process
  <2> QED
    BY <2>1, <2>2
<1>29. ASSUME NEW s \in Sessions, Restart(s) PROVE TypeOK'
  <2>1. CASE Die
    BY <1>29, <2>1, DieTypes, FaultNat DEF Restart, TypeOK, RowTypes, OutTypes,
       ProcessTypes, rowVars, outVars
  <2>2. CASE ~Die
    <3>1. EncTypes'
      BY <1>29, <2>2, LaunchTypes DEF Restart, TypeOK, EncTypes
    <3> QED
      BY <1>29, <2>2, <3>1, ThreadKinds DEF Restart, TypeOK, RowTypes, OutTypes,
         ThreadTypes, HookTypes, ProcessTypes, rowVars, outVars, hookVars, process,
         ThreadPCs
  <2> QED
    BY <2>1, <2>2
<1>30. ASSUME NEW t \in Threads, BeginStitching(t) PROVE TypeOK'
  <2> USE <1>30 DEF TypeOK, BeginStitching
  <2>1. RowTypes'
    BY DEF RowTypes, SetStatus, Statuses, rowVars
  <2>2. CASE Quietly
    <3>1. ThreadTypes'
      BY <2>2 DEF ThreadTypes, ThreadPCs, Finalizing, Building, Goto, Return, Throw,
         Die, Quietly
    <3> QED
      BY <2>1, <2>2, <3>1 DEF Quietly, OutTypes, EncTypes, HookTypes, ProcessTypes,
         outVars, encVars, hookVars, process
  <2>3. CASE ~Quietly
    BY <2>1, <2>3, FaultNat, ThrowTypes DEF OutTypes, outVars
  <2> QED
    BY <2>2, <2>3
<1>31. ASSUME NEW t \in Threads, ReadSegments(t) PROVE TypeOK'
  <2> USE <1>31 DEF TypeOK, ReadSegments
  <2>1. ThreadTypes'
    BY DEF Claims, RowTypes, ThreadTypes, ThreadPCs, Finalizing, Building, Goto
  <2> QED
    BY <2>1, FaultNat DEF RowTypes, OutTypes, EncTypes, HookTypes, ProcessTypes,
       rowVars, outVars, encVars, hookVars, process, requests
<1>32. ASSUME NEW t \in Threads, MarkEmpty(t) PROVE TypeOK'
  <2> USE <1>32 DEF TypeOK, MarkEmpty
  <2>1. RowTypes'
    BY DEF RowTypes, SetStatus, Statuses, rowVars
  <2>2. ThreadTypes'
    BY DEF ThreadTypes, ThreadPCs, Finalizing, Building, Goto, Return
  <2> QED
    BY <2>1, <2>2, FaultNat DEF OutTypes, EncTypes, HookTypes, ProcessTypes, outVars,
       encVars, hookVars, process, requests
<1>33. ASSUME NEW t \in Threads, PutPlaylists(t) PROVE TypeOK'
  BY <1>33 DEF PutPlaylists, Goto, Fault, TypeOK, RowTypes, OutTypes, EncTypes,
       ThreadTypes, HookTypes, ProcessTypes, rowVars, encVars, hookVars,
       process, requests, ThreadPCs, Finalizing, Building
<1>34. ASSUME NEW t \in Threads, Register(t) PROVE TypeOK'
  <2> USE <1>34 DEF TypeOK, Register
  <2>1. OutTypes'
    BY DEF OutTypes, FromLive
  <2>2. ThreadTypes'
    BY DEF ThreadTypes, ThreadPCs, Finalizing, Building, Goto, AfterFailedAttempt
  <2> QED
    BY <2>1, <2>2, FaultNat DEF RowTypes, EncTypes, HookTypes, ProcessTypes, rowVars,
       encVars, hookVars, process, requests
<1>35. ASSUME NEW t \in Threads, MarkEnded(t) PROVE TypeOK'
  BY <1>35 DEF MarkEnded, SetStatus, Goto, Fault, TypeOK, RowTypes, OutTypes,
       EncTypes, ThreadTypes, HookTypes, ProcessTypes, rowVars, outVars,
       encVars, hookVars, process, requests, Statuses, ThreadPCs, Finalizing,
       Building
<1>36. ASSUME NEW t \in Threads, Announce(t) PROVE TypeOK'
  <2> USE <1>36 DEF TypeOK, Announce
  <2>1. OutTypes'
    BY DEF OutTypes
  <2>2. ThreadTypes'
    BY DEF ThreadTypes, ThreadPCs, Finalizing, Building, Goto, Return
  <2> QED
    BY <2>1, <2>2, FaultNat DEF RowTypes, EncTypes, HookTypes, ProcessTypes, rowVars,
       encVars, hookVars, process, requests
<1>37. ASSUME NEW t \in Threads, MarkStitchFailed(t) PROVE TypeOK'
  <2> USE <1>37 DEF TypeOK, MarkStitchFailed
  <2>1. RowTypes'
    BY DEF RowTypes, SetStatus, Statuses, rowVars
  <2>2. CASE Quietly
    <3>1. ThreadTypes'
      BY <2>2 DEF ThreadTypes, ThreadPCs, Finalizing, Building, Goto, Return, Throw,
         Die, Quietly
    <3> QED
      BY <2>1, <2>2, <3>1 DEF Quietly, OutTypes, EncTypes, HookTypes, ProcessTypes,
         outVars, encVars, hookVars, process
  <2>3. CASE ~Quietly
    BY <2>1, <2>3, FaultNat, ThrowTypes DEF OutTypes, outVars
  <2> QED
    BY <2>2, <2>3
<1>38. CASE RecoverList
  <2> USE <1>38 DEF TypeOK, RecoverList
  <2>1. CASE Quietly
    <3>1. ThreadTypes'
      BY <2>1, ThreadKinds DEF ThreadTypes, ThreadPCs, Finalizing, Building, Goto,
         Die, Quietly
    <3> QED
      BY <2>1, <3>1 DEF Quietly, RowTypes, OutTypes, EncTypes, HookTypes,
         ProcessTypes, rowVars, outVars, encVars, hookVars, process
  <2>2. CASE ~Quietly
    BY <2>2, FaultNat, DieTypes DEF RowTypes, OutTypes, ProcessTypes, rowVars, outVars
  <2> QED
    BY <2>1, <2>2
<1>39. CASE RecoverNext
  <2> USE <1>39 DEF TypeOK, RecoverNext
  <2>1. ThreadTypes'
    BY ThreadKinds DEF ThreadTypes, ThreadPCs, Finalizing, Building, Goto, Finalize
  <2> QED
    BY <2>1 DEF RowTypes, OutTypes, EncTypes, HookTypes, ProcessTypes, rowVars,
       outVars, encVars, hookVars, requests, bounds
<1>40. ASSUME NEW t \in Sweeps, SweepList(t) PROVE TypeOK'
  BY <1>40, ThreadKinds DEF SweepList, StartList, Goto, TypeOK, RowTypes,
       OutTypes, EncTypes, ThreadTypes, HookTypes, ProcessTypes, rowVars,
       outVars, encVars, hookVars, process, requests, bounds, ThreadPCs
<1>41. ASSUME NEW t \in Retries, RetryList(t) PROVE TypeOK'
  BY <1>41, ThreadKinds DEF RetryList, StartList, Goto, TypeOK, RowTypes,
       OutTypes, EncTypes, ThreadTypes, HookTypes, ProcessTypes, rowVars,
       outVars, encVars, hookVars, process, requests, bounds, ThreadPCs
<1>42. ASSUME NEW t \in Sweeps \cup Retries, JobNext(t) PROVE TypeOK'
  <2> USE <1>42 DEF TypeOK, JobNext
  <2>1. ThreadTypes'
    BY ThreadKinds DEF ThreadTypes, ThreadPCs, Finalizing, Building, Goto, Finalize
  <2>2. EncTypes'
    BY DEF EncTypes, Stopped
  <2> QED
    BY <2>1, <2>2 DEF RowTypes, OutTypes, HookTypes, ProcessTypes, rowVars, outVars,
       hookVars, process, requests, bounds
<1>43. CASE UNCHANGED vars
  BY <1>43 DEF vars, TypeOK, RowTypes, OutTypes, EncTypes, ThreadTypes,
       HookTypes, ProcessTypes, rowVars, outVars, encVars, thrVars, hookVars,
       process, requests, bounds
<1> QED
  BY <1>1, <1>2, <1>3, <1>4, <1>5, <1>6, <1>7, <1>8, <1>9, <1>10, <1>11, <1>12,
       <1>13, <1>14, <1>15, <1>16, <1>17, <1>18, <1>19, <1>20, <1>21, <1>22,
       <1>23, <1>24, <1>25, <1>26, <1>27, <1>28, <1>29, <1>30, <1>31, <1>32,
       <1>33, <1>34, <1>35, <1>36, <1>37, <1>38, <1>39, <1>40, <1>41, <1>42,
       <1>43, ThreadKinds DEF Next, HookStep, CloseStep, FinalizeStep

-----------------------------------------------------------------------------
(* The actions that touch the part of the state the invariants speak of.      *)

core == <<status, keyOf, segs, replay, videos, announced, pc, cur, snap>>

CoreStep ==
  \/ Crash \/ Boot
  \/ \E p \in Publishers : OnPublishCreate(p) \/ BroadcastCreate(p)
  \/ \E s \in Sessions : SyncTick(s) \/ EncoderCloses(s) \/ CloseStep(s)
  \/ \E t \in Threads : FinalizeStep(t)
  \/ RecoverList \/ RecoverNext
  \/ \E t \in Sweeps : SweepList(t)
  \/ \E t \in Retries : RetryList(t)
  \/ \E t \in Sweeps \cup Retries : JobNext(t)

\* A step that is not a CoreStep touches nothing that the invariant speaks of.
LEMMA OtherSteps == [Next]_vars => CoreStep \/ UNCHANGED core
<1> SUFFICES ASSUME [Next]_vars PROVE CoreStep \/ UNCHANGED core
  OBVIOUS
<1> USE DEF core
<1>1. ASSUME NEW k \in Keys, CreateStreamKey(k) PROVE UNCHANGED core
  BY <1>1 DEF CreateStreamKey, rowVars, outVars, thrVars
<1>2. ASSUME NEW k \in Keys, RevokeKey(k) PROVE UNCHANGED core
  BY <1>2 DEF RevokeKey, rowVars, outVars, thrVars
<1>3. ASSUME NEW k \in Keys, RevokeKick(k) PROVE UNCHANGED core
  BY <1>3 DEF RevokeKick, rowVars, outVars, thrVars
<1>4. ASSUME NEW p \in Publishers, PublisherLeaves(p) PROVE UNCHANGED core
  BY <1>4 DEF PublisherLeaves, rowVars, outVars, thrVars
<1>5. ASSUME NEW s \in Sessions, ForceEnd(s) PROVE UNCHANGED core
  BY <1>5 DEF ForceEnd, rowVars, outVars, thrVars
<1>6. ASSUME NEW p \in Publishers, NEW k \in Keys, Publish(p,k)
      PROVE  UNCHANGED core
  BY <1>6 DEF Publish, rowVars, outVars, thrVars
<1>7. ASSUME NEW p \in Publishers, OnPublishFindKey(p) PROVE UNCHANGED core
  BY <1>7 DEF OnPublishFindKey, rowVars, outVars, thrVars
<1>8. ASSUME NEW p \in Publishers, OnPublishFindActive(p) PROVE UNCHANGED core
  BY <1>8 DEF OnPublishFindActive, rowVars, outVars, thrVars
<1>9. ASSUME NEW p \in Publishers, OnPublishLaunch(p) PROVE UNCHANGED core
  BY <1>9 DEF OnPublishLaunch, rowVars, outVars, thrVars
<1>10. ASSUME NEW p \in Publishers, NginxAccepts(p) PROVE UNCHANGED core
  BY <1>10 DEF NginxAccepts, rowVars, outVars, thrVars
<1>11. ASSUME NEW p \in Publishers, OnPublishDone(p) PROVE UNCHANGED core
  BY <1>11 DEF OnPublishDone, rowVars, outVars, thrVars
<1>12. ASSUME NEW p \in Publishers, PublishDoneLost(p) PROVE UNCHANGED core
  BY <1>12 DEF PublishDoneLost, rowVars, outVars, thrVars
<1>13. ASSUME NEW p \in Publishers, HookFails(p) PROVE UNCHANGED core
  BY <1>13 DEF HookFails, rowVars, outVars, thrVars
<1>14. ASSUME NEW p \in Publishers, BrowserConnects(p) PROVE UNCHANGED core
  BY <1>14 DEF BrowserConnects, rowVars, outVars, thrVars
<1>15. ASSUME NEW p \in Publishers, BroadcastMintsKey(p) PROVE UNCHANGED core
  BY <1>15 DEF BroadcastMintsKey, rowVars, outVars, thrVars
<1>16. ASSUME NEW p \in Publishers, BrowserDrops(p) PROVE UNCHANGED core
  BY <1>16 DEF BrowserDrops, rowVars, outVars, thrVars
<1>17. ASSUME NEW p \in Publishers, BroadcastLaunch(p) PROVE UNCHANGED core
  BY <1>17 DEF BroadcastLaunch, rowVars, outVars, thrVars
<1>18. ASSUME NEW s \in Sessions, Encode(s) PROVE UNCHANGED core
  BY <1>18 DEF Encode, rowVars, outVars, thrVars
<1>19. ASSUME NEW s \in Sessions, GoQuiet(s) PROVE UNCHANGED core
  BY <1>19 DEF GoQuiet, outVars, thrVars
<1>20. ASSUME NEW s \in Sessions, KillTimer(s) PROVE UNCHANGED core
  BY <1>20 DEF KillTimer, rowVars, outVars, thrVars
<1>21. CASE UNCHANGED vars
  BY <1>21 DEF vars, rowVars, outVars, thrVars
<1> QED
  BY <1>1, <1>2, <1>3, <1>4, <1>5, <1>6, <1>7, <1>8, <1>9, <1>10, <1>11, <1>12,
       <1>13, <1>14, <1>15, <1>16, <1>17, <1>18, <1>19, <1>20, <1>21 DEF Next,
       CoreStep, HookStep, CloseStep, FinalizeStep

-----------------------------------------------------------------------------
(* One finalizer: the status of a session is the lock that a thread takes in  *)
(* beginStitching.                                                            *)

\* The types that the lock is about.
ThreadsOK ==
  /\ status \in [Sessions -> Statuses]
  /\ pc \in [Threads -> ThreadPCs]
  /\ cur \in [Threads -> Sessions \cup {NoSession}]
  /\ todo \in [Threads -> SUBSET Sessions]

\* beginStitching lets one thread in, and only that thread moves the status on.
LEMMA ClaimStep ==
  ASSUME ThreadsOK, Claims, OneFinalizer, [Next]_vars
  PROVE  Claims' /\ OneFinalizer'
<1> USE ConstantsAssumption
     DEF ThreadsOK, Claims, OneFinalizer, Statuses, ThreadPCs, Finalizing, Building,
         Threads, Jobs
<1>1. CASE Crash
  BY <1>1 DEF Crash, Die, rowVars
<1>2. CASE Boot
  BY <1>2 DEF Boot, rowVars
<1>3. ASSUME NEW p \in Publishers, OnPublishCreate(p)
      PROVE  Claims' /\ OneFinalizer'
  BY <1>3 DEF OnPublishCreate, CreateSession, CreateRow, HookAt, rowVars,
       thrVars
<1>4. ASSUME NEW p \in Publishers, BroadcastCreate(p)
      PROVE  Claims' /\ OneFinalizer'
  BY <1>4 DEF BroadcastCreate, CreateSession, CreateRow, HookAt, rowVars,
       thrVars
<1>5. ASSUME NEW s \in Sessions, SyncTick(s) PROVE Claims' /\ OneFinalizer'
  BY <1>5 DEF SyncTick, Sync, thrVars
<1>6. ASSUME NEW s \in Sessions, EncoderCloses(s) PROVE Claims' /\ OneFinalizer'
  BY <1>6 DEF EncoderCloses, rowVars
<1>7. ASSUME NEW s \in Sessions, StopLoop(s) PROVE Claims' /\ OneFinalizer'
  BY <1>7 DEF StopLoop, Sync, Die, Fault
<1>8. ASSUME NEW s \in Sessions, CheckLive(s) PROVE Claims' /\ OneFinalizer'
  BY <1>8 DEF CheckLive, Die, Fault, rowVars
<1>9. ASSUME NEW s \in Sessions, Restart(s) PROVE Claims' /\ OneFinalizer'
  BY <1>9 DEF Restart, Launch, Die, Fault, rowVars
<1>10. ASSUME NEW t \in Threads, BeginStitching(t)
      PROVE  Claims' /\ OneFinalizer'
  BY <1>10 DEF BeginStitching, SetStatus, Goto, Return, Quietly, Throw, Die,
       Fault, CanStitch, rowVars
<1>11. ASSUME NEW t \in Threads, ReadSegments(t) PROVE Claims' /\ OneFinalizer'
  BY <1>11 DEF ReadSegments, SetStatus, Goto, Return, Fault, rowVars
<1>12. ASSUME NEW t \in Threads, MarkEmpty(t) PROVE Claims' /\ OneFinalizer'
  BY <1>12 DEF MarkEmpty, SetStatus, Goto, Return, Fault, rowVars
<1>13. ASSUME NEW t \in Threads, PutPlaylists(t) PROVE Claims' /\ OneFinalizer'
  BY <1>13 DEF PutPlaylists, Goto, Fault, rowVars
<1>14. ASSUME NEW t \in Threads, Register(t) PROVE Claims' /\ OneFinalizer'
  BY <1>14 DEF Register, Goto, FromLive, AfterFailedAttempt, Fault, rowVars
<1>15. ASSUME NEW t \in Threads, MarkEnded(t) PROVE Claims' /\ OneFinalizer'
  BY <1>15 DEF MarkEnded, SetStatus, Goto, Fault, rowVars
<1>16. ASSUME NEW t \in Threads, Announce(t) PROVE Claims' /\ OneFinalizer'
  BY <1>16 DEF Announce, Goto, Return, Fault, rowVars
<1>17. ASSUME NEW t \in Threads, MarkStitchFailed(t)
      PROVE  Claims' /\ OneFinalizer'
  BY <1>17 DEF MarkStitchFailed, SetStatus, Return, Goto, Quietly, Throw, Die,
       Fault, rowVars
<1>18. CASE RecoverList
  BY <1>18 DEF RecoverList, Goto, Quietly, Die, Fault, rowVars
<1>19. CASE RecoverNext
  BY <1>19 DEF RecoverNext, Goto, Finalize, rowVars
<1>20. ASSUME NEW t \in Sweeps, SweepList(t) PROVE Claims' /\ OneFinalizer'
  BY <1>20 DEF SweepList, StartList, Goto, rowVars
<1>21. ASSUME NEW t \in Retries, RetryList(t) PROVE Claims' /\ OneFinalizer'
  BY <1>21 DEF RetryList, StartList, Goto, rowVars
<1>22. ASSUME NEW t \in Sweeps \cup Retries, JobNext(t)
      PROVE  Claims' /\ OneFinalizer'
  BY <1>22 DEF JobNext, Finalize, Goto, Stopped, rowVars
<1>23. CASE UNCHANGED core
  BY <1>23 DEF core
<1> QED
  BY <1>1, <1>2, <1>3, <1>4, <1>5, <1>6, <1>7, <1>8, <1>9, <1>10, <1>11, <1>12,
       <1>13, <1>14, <1>15, <1>16, <1>17, <1>18, <1>19, <1>20, <1>21, <1>22,
       <1>23, OtherSteps DEF CoreStep, CloseStep, FinalizeStep

\* A hook knows its key, and a socket its session, until it is answered.
LEMMA CreatedStep == ASSUME TypeOK, Created, [Next]_vars PROVE Created'
<1> USE DEF TypeOK, HookTypes, Created
<1>1. CASE Die
  BY <1>1 DEF Die, Answering
<1>2. CASE UNCHANGED <<hook, hookKey, hookSess>>
  BY <1>2
<1>3. ASSUME NEW k \in Keys, RevokeKick(k) PROVE Created'
  BY <1>3 DEF RevokeKick, DropPublisher, Disconnect
<1>4. ASSUME NEW p \in Publishers, PublisherLeaves(p) PROVE Created'
  BY <1>4 DEF PublisherLeaves, Disconnect
<1>5. ASSUME NEW s \in Sessions, ForceEnd(s) PROVE Created'
  BY <1>5 DEF ForceEnd, DropPublisher, Disconnect
<1>6. ASSUME NEW p \in Publishers, NEW k \in Keys, Publish(p,k) PROVE Created'
  BY <1>6 DEF Publish, HookAt
<1>7. ASSUME NEW p \in Publishers, OnPublishFindKey(p) PROVE Created'
  BY <1>7 DEF OnPublishFindKey, HookAt
<1>8. ASSUME NEW p \in Publishers, OnPublishFindActive(p) PROVE Created'
  BY <1>8 DEF OnPublishFindActive, HookAt
<1>9. ASSUME NEW p \in Publishers, OnPublishCreate(p) PROVE Created'
  BY <1>9 DEF OnPublishCreate, CreateSession, CreateRow, HookAt
<1>10. ASSUME NEW p \in Publishers, OnPublishLaunch(p) PROVE Created'
  BY <1>10 DEF OnPublishLaunch, HookAt
<1>11. ASSUME NEW p \in Publishers, NginxAccepts(p) PROVE Created'
  BY <1>11 DEF NginxAccepts, HookAt
<1>12. ASSUME NEW p \in Publishers, OnPublishDone(p) PROVE Created'
  BY <1>12 DEF OnPublishDone, HookAt
<1>13. ASSUME NEW p \in Publishers, HookFails(p) PROVE Created'
  BY <1>13 DEF HookFails, HookAt
<1>14. ASSUME NEW p \in Publishers, PublishDoneLost(p) PROVE Created'
  BY <1>14 DEF PublishDoneLost, HookAt
<1>15. ASSUME NEW p \in Publishers, BrowserConnects(p) PROVE Created'
  BY <1>15 DEF BrowserConnects, HookAt
<1>16. ASSUME NEW p \in Publishers, BroadcastMintsKey(p) PROVE Created'
  BY <1>16 DEF BroadcastMintsKey, HookAt
<1>17. ASSUME NEW p \in Publishers, BroadcastCreate(p) PROVE Created'
  BY <1>17 DEF BroadcastCreate, CreateSession, CreateRow, HookAt
<1>18. ASSUME NEW p \in Publishers, BroadcastLaunch(p) PROVE Created'
  BY <1>18 DEF BroadcastLaunch, HookAt
<1>19. CASE UNCHANGED vars
  BY <1>19 DEF vars, hookVars
<1>20. CASE Crash
  BY <1>20, <1>1, <1>2 DEF Crash
<1>21. CASE Boot
  BY <1>21, <1>1, <1>2 DEF Boot, hookVars
<1>22. ASSUME NEW k \in Keys, CreateStreamKey(k) PROVE Created'
  BY <1>22, <1>1, <1>2 DEF CreateStreamKey, hookVars
<1>23. ASSUME NEW k \in Keys, RevokeKey(k) PROVE Created'
  BY <1>23, <1>1, <1>2 DEF RevokeKey, hookVars
<1>24. ASSUME NEW p \in Publishers, BrowserDrops(p) PROVE Created'
  BY <1>24, <1>1, <1>2 DEF BrowserDrops, hookVars
<1>25. ASSUME NEW s \in Sessions, Encode(s) PROVE Created'
  BY <1>25, <1>1, <1>2 DEF Encode, hookVars
<1>26. ASSUME NEW s \in Sessions, SyncTick(s) PROVE Created'
  BY <1>26, <1>1, <1>2 DEF SyncTick, hookVars
<1>27. ASSUME NEW s \in Sessions, GoQuiet(s) PROVE Created'
  BY <1>27, <1>1, <1>2 DEF GoQuiet, hookVars
<1>28. ASSUME NEW s \in Sessions, KillTimer(s) PROVE Created'
  BY <1>28, <1>1, <1>2 DEF KillTimer, hookVars
<1>29. ASSUME NEW s \in Sessions, EncoderCloses(s) PROVE Created'
  BY <1>29, <1>1, <1>2 DEF EncoderCloses, hookVars
<1>30. ASSUME NEW s \in Sessions, StopLoop(s) PROVE Created'
  BY <1>30, <1>1, <1>2 DEF StopLoop, hookVars
<1>31. ASSUME NEW s \in Sessions, CheckLive(s) PROVE Created'
  BY <1>31, <1>1, <1>2 DEF CheckLive, hookVars
<1>32. ASSUME NEW s \in Sessions, Restart(s) PROVE Created'
  BY <1>32, <1>1, <1>2 DEF Restart, hookVars
<1>33. ASSUME NEW t \in Threads, BeginStitching(t) PROVE Created'
  BY <1>33, <1>1, <1>2 DEF BeginStitching, Quietly, Throw, hookVars
<1>34. ASSUME NEW t \in Threads, ReadSegments(t) PROVE Created'
  BY <1>34, <1>1, <1>2 DEF ReadSegments, hookVars
<1>35. ASSUME NEW t \in Threads, MarkEmpty(t) PROVE Created'
  BY <1>35, <1>1, <1>2 DEF MarkEmpty, hookVars
<1>36. ASSUME NEW t \in Threads, PutPlaylists(t) PROVE Created'
  BY <1>36, <1>1, <1>2 DEF PutPlaylists, hookVars
<1>37. ASSUME NEW t \in Threads, Register(t) PROVE Created'
  BY <1>37, <1>1, <1>2 DEF Register, hookVars
<1>38. ASSUME NEW t \in Threads, MarkEnded(t) PROVE Created'
  BY <1>38, <1>1, <1>2 DEF MarkEnded, hookVars
<1>39. ASSUME NEW t \in Threads, Announce(t) PROVE Created'
  BY <1>39, <1>1, <1>2 DEF Announce, hookVars
<1>40. ASSUME NEW t \in Threads, MarkStitchFailed(t) PROVE Created'
  BY <1>40, <1>1, <1>2 DEF MarkStitchFailed, Quietly, Throw, hookVars
<1>41. CASE RecoverList
  BY <1>41, <1>1, <1>2 DEF RecoverList, Quietly, hookVars
<1>42. CASE RecoverNext
  BY <1>42, <1>1, <1>2 DEF RecoverNext, hookVars
<1>43. ASSUME NEW t \in Sweeps, SweepList(t) PROVE Created'
  BY <1>43, <1>1, <1>2 DEF SweepList, StartList, hookVars
<1>44. ASSUME NEW t \in Retries, RetryList(t) PROVE Created'
  BY <1>44, <1>1, <1>2 DEF RetryList, StartList, hookVars
<1>45. ASSUME NEW t \in Sweeps \cup Retries, JobNext(t) PROVE Created'
  BY <1>45, <1>1, <1>2 DEF JobNext, hookVars
<1> QED
  BY <1>3, <1>4, <1>5, <1>6, <1>7, <1>8, <1>9, <1>10, <1>11, <1>12, <1>13,
       <1>14, <1>15, <1>16, <1>17, <1>18, <1>19, <1>20, <1>21, <1>22, <1>23,
       <1>24, <1>25, <1>26, <1>27, <1>28, <1>29, <1>30, <1>31, <1>32, <1>33,
       <1>34, <1>35, <1>36, <1>37, <1>38, <1>39, <1>40, <1>41, <1>42, <1>43,
       <1>44, <1>45 DEF Next, HookStep, CloseStep, FinalizeStep

-----------------------------------------------------------------------------
(* One live session per key.                                                  *)

\* Only an insert makes a session live, and the unique index refuses a second one.
LEMMA KeyStep ==
  ASSUME TypeOK, OneLivePerKey, [Next]_vars
  PROVE  OneLivePerKey'
<1> USE DEF TypeOK, RowTypes, OneLivePerKey
<1>1. CASE Crash
  BY <1>1 DEF Crash, Die, rowVars
<1>2. CASE Boot
  BY <1>2 DEF Boot, rowVars
<1>3. ASSUME NEW p \in Publishers, OnPublishCreate(p) PROVE OneLivePerKey'
  BY <1>3 DEF OnPublishCreate, CreateSession, CreateRow, HookAt, rowVars, LiveOn
<1>4. ASSUME NEW p \in Publishers, BroadcastCreate(p) PROVE OneLivePerKey'
  BY <1>4 DEF BroadcastCreate, CreateSession, CreateRow, HookAt, rowVars, LiveOn
<1>5. ASSUME NEW s \in Sessions, SyncTick(s) PROVE OneLivePerKey'
  BY <1>5 DEF SyncTick, Sync
<1>6. ASSUME NEW s \in Sessions, EncoderCloses(s) PROVE OneLivePerKey'
  BY <1>6 DEF EncoderCloses, rowVars
<1>7. ASSUME NEW s \in Sessions, StopLoop(s) PROVE OneLivePerKey'
  BY <1>7 DEF StopLoop, Sync, Die, Fault
<1>8. ASSUME NEW s \in Sessions, CheckLive(s) PROVE OneLivePerKey'
  BY <1>8 DEF CheckLive, Die, Fault, rowVars
<1>9. ASSUME NEW s \in Sessions, Restart(s) PROVE OneLivePerKey'
  BY <1>9 DEF Restart, Launch, Die, Fault, rowVars
<1>10. ASSUME NEW t \in Threads, BeginStitching(t) PROVE OneLivePerKey'
  BY <1>10 DEF BeginStitching, SetStatus, Goto, Return, Quietly, Throw, Die,
       Fault, rowVars
<1>11. ASSUME NEW t \in Threads, ReadSegments(t) PROVE OneLivePerKey'
  BY <1>11 DEF ReadSegments, SetStatus, Goto, Return, Fault, rowVars
<1>12. ASSUME NEW t \in Threads, MarkEmpty(t) PROVE OneLivePerKey'
  BY <1>12 DEF MarkEmpty, SetStatus, Goto, Return, Fault, rowVars
<1>13. ASSUME NEW t \in Threads, PutPlaylists(t) PROVE OneLivePerKey'
  BY <1>13 DEF PutPlaylists, Goto, Fault, rowVars
<1>14. ASSUME NEW t \in Threads, Register(t) PROVE OneLivePerKey'
  BY <1>14 DEF Register, Goto, FromLive, AfterFailedAttempt, Fault, rowVars
<1>15. ASSUME NEW t \in Threads, MarkEnded(t) PROVE OneLivePerKey'
  BY <1>15 DEF MarkEnded, SetStatus, Goto, Fault, rowVars
<1>16. ASSUME NEW t \in Threads, Announce(t) PROVE OneLivePerKey'
  BY <1>16 DEF Announce, Goto, Return, Fault, rowVars
<1>17. ASSUME NEW t \in Threads, MarkStitchFailed(t) PROVE OneLivePerKey'
  BY <1>17 DEF MarkStitchFailed, SetStatus, Return, Goto, Quietly, Throw, Die,
       Fault, rowVars
<1>18. CASE RecoverList
  BY <1>18 DEF RecoverList, Goto, Quietly, Die, Fault, rowVars
<1>19. CASE RecoverNext
  BY <1>19 DEF RecoverNext, Goto, Finalize, rowVars
<1>20. ASSUME NEW t \in Sweeps, SweepList(t) PROVE OneLivePerKey'
  BY <1>20 DEF SweepList, StartList, Goto, rowVars
<1>21. ASSUME NEW t \in Retries, RetryList(t) PROVE OneLivePerKey'
  BY <1>21 DEF RetryList, StartList, Goto, rowVars
<1>22. ASSUME NEW t \in Sweeps \cup Retries, JobNext(t) PROVE OneLivePerKey'
  BY <1>22 DEF JobNext, Finalize, Goto, Stopped, rowVars
<1>23. CASE UNCHANGED core
  BY <1>23 DEF core
<1> QED
  BY <1>1, <1>2, <1>3, <1>4, <1>5, <1>6, <1>7, <1>8, <1>9, <1>10, <1>11, <1>12,
       <1>13, <1>14, <1>15, <1>16, <1>17, <1>18, <1>19, <1>20, <1>21, <1>22,
       <1>23, OtherSteps DEF CoreStep, CloseStep, FinalizeStep

-----------------------------------------------------------------------------
(* The replay of an ended session.                                            *)

\* The types that the replay is about.
ReplayTypes ==
  /\ status \in [Sessions -> Statuses]
  /\ segs \in [Sessions -> Nat] /\ made \in [Sessions -> Nat]
  /\ replay \in [Sessions -> Nat] /\ videos \in [Sessions -> Nat]
  /\ pc \in [Threads -> ThreadPCs] /\ snap \in [Threads -> Nat]
  /\ cur \in [Threads -> Sessions \cup {NoSession}]

\* No thread reaches a place where it relies on what it has done.
NoNewWork ==
  \A t \in Threads :
    pc'[t] \in Working => pc'[t] = pc[t] /\ cur'[t] = cur[t] /\ snap'[t] = snap[t]

\* Steps that put no thread at a later place of finalizeVod.
LEMMA NoNewWorkSteps ==
  ASSUME ReplayTypes, NoNewWork, Replays, UNCHANGED <<segs, replay, videos>>,
         \A s \in Sessions : status'[s] = "ended" => status[s] = "ended"
  PROVE  Replays'
  BY DEF Replays, EndedHasReplay, NoNewWork, Working

\* A dying process has no thread inside finalizeVod.
LEMMA DieNoNewWork == Die => NoNewWork
  BY DEF Die, NoNewWork, Working

\* A finalizeVod that returns is outside of it.
LEMMA ReturnNoNewWork ==
  ASSUME ReplayTypes, NEW t \in Threads, Return(t) PROVE NoNewWork
  BY DEF Return, Goto, ReplayTypes, NoNewWork, Working

\* A finalizeVod that rejects is outside of it.
LEMMA ThrowNoNewWork ==
  ASSUME ReplayTypes, NEW t \in Threads, Throw(t) PROVE NoNewWork
<1>1. CASE Die
  BY <1>1, DieNoNewWork
<1>2. CASE ~Die
  BY <1>2 DEF Throw, Goto, ReplayTypes, NoNewWork, Working
<1> QED
  BY <1>1, <1>2

\* What a thread inside finalizeVod has read and written holds until it marks the
\* session ended.
LEMMA ReplayStep ==
  ASSUME ReplayTypes, Claims, OneFinalizer, Replays, [Next]_vars
  PROVE  Replays'
<1> USE DEF ReplayTypes, ThreadPCs, Finalizing, Building
<1>1. CASE Crash
  BY <1>1, ThreadKinds DEF Crash, Die, Replays, EndedHasReplay, Working,
       rowVars, outVars
<1>2. CASE Boot
  BY <1>2, ThreadKinds DEF Boot, Replays, EndedHasReplay, Working, rowVars,
       outVars
<1>3. ASSUME NEW p \in Publishers, OnPublishCreate(p) PROVE Replays'
  BY <1>3, ThreadKinds DEF OnPublishCreate, CreateSession, CreateRow, HookAt,
       Replays, EndedHasReplay, Working, rowVars, outVars, thrVars
<1>4. ASSUME NEW p \in Publishers, BroadcastCreate(p) PROVE Replays'
  BY <1>4, ThreadKinds DEF BroadcastCreate, CreateSession, CreateRow, HookAt,
       Replays, EndedHasReplay, Working, rowVars, outVars, thrVars
<1>5. ASSUME NEW s \in Sessions, SyncTick(s) PROVE Replays'
  BY <1>5 DEF SyncTick, Sync, Replays, EndedHasReplay, Working, outVars, thrVars
<1>6. ASSUME NEW s \in Sessions, EncoderCloses(s) PROVE Replays'
  BY <1>6, ThreadKinds DEF EncoderCloses, Replays, EndedHasReplay, Working,
       rowVars, outVars
<1>7. ASSUME NEW s \in Sessions, StopLoop(s) PROVE Replays'
  <2>1. CASE Die /\ UNCHANGED <<segs, quiet>>
    BY <1>7, <2>1, DieNoNewWork, NoNewWorkSteps DEF StopLoop, outVars
  <2>2. CASE Sync(s) /\ pc' = [pc EXCEPT ![s] = "isLive"] /\ UNCHANGED <<cur, snap>>
    BY <1>7, <2>2 DEF StopLoop, Sync, Replays, EndedHasReplay, Working, outVars
  <2> QED
    BY <1>7, <2>1, <2>2 DEF StopLoop
<1>8. ASSUME NEW s \in Sessions, CheckLive(s) PROVE Replays'
  <2>1. NoNewWork
    <3>1. CASE ~Die
      BY <1>8, <3>1, ThreadKinds DEF CheckLive, NoNewWork, Working
    <3> QED
      BY <3>1, DieNoNewWork
  <2> QED
    BY <1>8, <2>1, NoNewWorkSteps DEF CheckLive, rowVars, outVars
<1>9. ASSUME NEW s \in Sessions, Restart(s) PROVE Replays'
  <2>1. NoNewWork
    <3>1. CASE ~Die
      BY <1>9, <3>1, ThreadKinds DEF Restart, NoNewWork, Working
    <3> QED
      BY <3>1, DieNoNewWork
  <2> QED
    BY <1>9, <2>1, NoNewWorkSteps DEF Restart, rowVars, outVars
<1>10. ASSUME NEW t \in Threads, BeginStitching(t) PROVE Replays'
  <2>1. NoNewWork
    BY <1>10, ReturnNoNewWork, ThrowNoNewWork DEF BeginStitching, Goto,
         NoNewWork, Working
  <2>2. \A s \in Sessions : status'[s] = "ended" => status[s] = "ended"
    BY <1>10 DEF BeginStitching, SetStatus, rowVars
  <2> QED
    BY <1>10, <2>1, <2>2, NoNewWorkSteps DEF BeginStitching, SetStatus, rowVars,
         outVars
<1>11. ASSUME NEW t \in Threads, ReadSegments(t) PROVE Replays'
  <2>1. CASE segs[cur[t]] > 0 /\ snap' = [snap EXCEPT ![t] = segs[cur[t]]]
             /\ Goto(t, "playlists")
    BY <1>11, <2>1 DEF ReadSegments, Replays, EndedHasReplay, Working, Claims,
         Goto, rowVars, outVars
  <2>2. CASE NoNewWork
    BY <1>11, <2>2, NoNewWorkSteps DEF ReadSegments, rowVars, outVars
  <2> QED
    BY <1>11, <2>1, <2>2 DEF ReadSegments, Goto, NoNewWork, Working
<1>12. ASSUME NEW t \in Threads, MarkEmpty(t) PROVE Replays'
  <2>1. NoNewWork
    BY <1>12, ReturnNoNewWork DEF MarkEmpty, Goto, NoNewWork, Working
  <2>2. \A s \in Sessions : status'[s] = "ended" => status[s] = "ended"
    BY <1>12 DEF MarkEmpty, SetStatus, rowVars
  <2> QED
    BY <1>12, <2>1, <2>2, NoNewWorkSteps DEF MarkEmpty, SetStatus, rowVars,
         outVars
<1>13. ASSUME NEW t \in Threads, PutPlaylists(t) PROVE Replays'
  BY <1>13, ThreadKinds DEF PutPlaylists, Goto, Fault, Replays, EndedHasReplay,
       Working, Claims, OneFinalizer, rowVars
<1>14. ASSUME NEW t \in Threads, Register(t) PROVE Replays'
  BY <1>14, ThreadKinds DEF Register, Goto, FromLive, AfterFailedAttempt, Fault,
       Replays, EndedHasReplay, Working, Claims, OneFinalizer, rowVars
<1>15. ASSUME NEW t \in Threads, MarkEnded(t) PROVE Replays'
  BY <1>15, ThreadKinds DEF MarkEnded, SetStatus, Goto, Fault, Replays,
       EndedHasReplay, Working, Claims, OneFinalizer, rowVars, outVars
<1>16. ASSUME NEW t \in Threads, Announce(t) PROVE Replays'
  <2>1. NoNewWork
    BY <1>16, ReturnNoNewWork DEF Announce, Goto, NoNewWork, Working
  <2> QED
    BY <1>16, <2>1, NoNewWorkSteps DEF Announce, rowVars
<1>17. ASSUME NEW t \in Threads, MarkStitchFailed(t) PROVE Replays'
  <2>1. NoNewWork
    BY <1>17, ReturnNoNewWork, ThrowNoNewWork DEF MarkStitchFailed
  <2>2. \A s \in Sessions : status'[s] = "ended" => status[s] = "ended"
    BY <1>17 DEF MarkStitchFailed, SetStatus, rowVars
  <2> QED
    BY <1>17, <2>1, <2>2, NoNewWorkSteps DEF MarkStitchFailed, SetStatus,
         rowVars, outVars
<1>18. CASE RecoverList
  <2>1. NoNewWork
    <3>1. CASE ~Die
      BY <1>18, <3>1, ThreadKinds DEF RecoverList, Goto, Quietly, NoNewWork,
           Working
    <3> QED
      BY <3>1, DieNoNewWork
  <2> QED
    BY <1>18, <2>1, NoNewWorkSteps DEF RecoverList, rowVars, outVars
<1>19. CASE RecoverNext
  <2>1. NoNewWork
    BY <1>19, ThreadKinds DEF RecoverNext, Finalize, Goto, NoNewWork, Working
  <2> QED
    BY <1>19, <2>1, NoNewWorkSteps DEF RecoverNext, rowVars, outVars
<1>20. ASSUME NEW t \in Sweeps, SweepList(t) PROVE Replays'
  BY <1>20, ThreadKinds DEF SweepList, StartList, Goto, Replays, EndedHasReplay,
       Working, rowVars, outVars
<1>21. ASSUME NEW t \in Retries, RetryList(t) PROVE Replays'
  BY <1>21, ThreadKinds DEF RetryList, StartList, Goto, Replays, EndedHasReplay,
       Working, rowVars, outVars
<1>22. ASSUME NEW t \in Sweeps \cup Retries, JobNext(t) PROVE Replays'
  <2>1. NoNewWork
    BY <1>22, ThreadKinds DEF JobNext, Finalize, Goto, NoNewWork, Working
  <2> QED
    BY <1>22, <2>1, NoNewWorkSteps DEF JobNext, rowVars, outVars
<1>23. CASE UNCHANGED core
  BY <1>23 DEF core, Replays, EndedHasReplay
<1> QED
  BY <1>1, <1>2, <1>3, <1>4, <1>5, <1>6, <1>7, <1>8, <1>9, <1>10, <1>11, <1>12,
       <1>13, <1>14, <1>15, <1>16, <1>17, <1>18, <1>19, <1>20, <1>21, <1>22,
       <1>23, OtherSteps DEF CoreStep, CloseStep, FinalizeStep

-----------------------------------------------------------------------------
(* The refinement: each step of LiveSession is a step of SessionLifecycle, or *)
(* leaves what it sees as it is.                                              *)

\* A thread that is inside finalizeVod after a step was inside it before.
NoNewHolder ==
  \A t \in Threads :
    pc'[t] \in Finalizing => pc[t] \in Finalizing /\ cur'[t] = cur[t]

\* Steps in which workers at most lose their claims are Lose, or a stutter.
LEMMA LoseSteps ==
  ASSUME NoNewHolder, UNCHANGED <<status, keyOf, replay, videos, announced>>
  PROVE  Lifecycle!Lose
<1>1. \A s \in Sessions : Holders'[s] \subseteq Holders[s]
  BY DEF Holders, NoNewHolder
<1>2. Holders' = [s \in Sessions |-> Holders'[s]]
  BY DEF Holders
<1> QED
  BY <1>1, <1>2 DEF Lifecycle!Lose, Lifecycle!row, Lifecycle!out

\* A dying process only loses claims.
LEMMA DieNoNewHolder == Die => NoNewHolder
  BY DEF Die, NoNewHolder, Finalizing, Building

\* A finalizeVod that rejects only loses its own claim.
LEMMA ThrowNoNewHolder ==
  ASSUME ThreadsOK, NEW t \in Threads, Throw(t) PROVE NoNewHolder
<1>1. CASE Die
  BY <1>1, DieNoNewHolder
<1>2. CASE ~Die
  BY <1>2 DEF Throw, Goto, ThreadsOK, NoNewHolder, Finalizing, Building
<1> QED
  BY <1>1, <1>2

\* A thread that goes on inside finalizeVod, or leaves it.
LEMMA GotoHolders ==
  ASSUME ThreadsOK, NEW t \in Threads, pc[t] \in Finalizing,
         NEW at \in Finalizing, Goto(t, at), UNCHANGED cur
  PROVE  UNCHANGED Holders
<1>1. \A u \in Threads : pc'[u] \in Finalizing <=> pc[u] \in Finalizing
  BY DEF Goto, ThreadsOK
<1> QED
  BY <1>1 DEF Holders

\* A finalizeVod that returns gives up its claim, and no other.
LEMMA ReturnHolders ==
  ASSUME ThreadsOK, Claims, OneFinalizer, NEW t \in Threads, pc[t] \in Finalizing,
         Return(t)
  PROVE  /\ cur[t] \in Sessions /\ t \in Holders[cur[t]]
         /\ Holders' = [Holders EXCEPT ![cur[t]] = {}]
<1>1. cur[t] \in Sessions
  BY DEF Claims
<1>2. t \in Holders[cur[t]]
  BY <1>1 DEF Holders
<1>3. \A u \in Threads : pc'[u] \in Finalizing <=> pc[u] \in Finalizing /\ u # t
  BY DEF Return, Goto, ThreadsOK, Finalizing, Building
<1>4. \A u \in Threads \ {t} : cur'[u] = cur[u]
  BY DEF Return, ThreadsOK
<1>5. \A s \in Sessions :
        Holders'[s] = IF s = cur[t] THEN {} ELSE Holders[s]
  BY <1>1, <1>3, <1>4 DEF Holders, OneFinalizer
<1> QED
  BY <1>1, <1>2, <1>5 DEF Holders

\* A thread inside finalizeVod has claimed its session.
LEMMA Holds ==
  ASSUME Claims, NEW t \in Threads, pc[t] \in Finalizing
  PROVE  cur[t] \in Sessions /\ Lifecycle!Claimed(cur[t])
  BY DEF Claims, Holders, Lifecycle!Claimed

\* Every step of LiveSession is a step of SessionLifecycle or a stutter.
LEMMA LifecycleStep ==
  ASSUME IInv, [Next]_vars
  PROVE  [Lifecycle!Next]_(Lifecycle!vars)
<1> USE DEF ThreadsOK, ReplayTypes, Lifecycle!row, Lifecycle!out
<1>0. /\ ThreadsOK /\ ReplayTypes /\ Claims /\ Created /\ OneFinalizer /\ Replays
      /\ keyOf \in [Sessions -> Keys \cup {NoKey}]
      /\ announced \in [Sessions -> BOOLEAN]
  BY DEF IInv, TypeOK, RowTypes, OutTypes, EncTypes, ThreadTypes
<1>1. CASE Crash
  BY <1>1, DieNoNewHolder, LoseSteps DEF Crash, rowVars, outVars, Lifecycle!Next
<1>2. CASE Boot
  <2>1. NoNewHolder
    BY <1>2, <1>0, ThreadKinds DEF Boot, NoNewHolder, Finalizing, Building
  <2> QED
    BY <1>2, <2>1, LoseSteps DEF Boot, rowVars, outVars, Lifecycle!Next
<1>3. ASSUME NEW p \in Publishers, OnPublishCreate(p) PROVE [Lifecycle!Next]_(Lifecycle!vars)
  <2>1. ASSUME NEW s \in Sessions, CreateRow(s, hookKey[p]), UNCHANGED <<thrVars, outVars>>
        PROVE  Lifecycle!GoLive(s, hookKey[p])
    BY <1>0, <2>1 DEF CreateRow, LiveOn, Holders, Lifecycle!GoLive, thrVars, outVars
  <2>2. hookKey[p] \in Keys
    BY <1>3, <1>0 DEF OnPublishCreate, Created
  <2>3. CASE UNCHANGED rowVars
    <3>1. NoNewHolder
      BY <1>3 DEF OnPublishCreate, CreateSession, NoNewHolder, thrVars
    <3> QED
      BY <1>3, <2>3, <3>1, LoseSteps DEF OnPublishCreate, CreateSession, rowVars, outVars,
         Lifecycle!Next
  <2> QED
    BY <1>3, <2>1, <2>2, <2>3 DEF OnPublishCreate, CreateSession, Lifecycle!Next
<1>4. ASSUME NEW p \in Publishers, BroadcastCreate(p) PROVE [Lifecycle!Next]_(Lifecycle!vars)
  <2>1. ASSUME NEW s \in Sessions, CreateRow(s, hookKey[p]), UNCHANGED <<thrVars, outVars>>
        PROVE  Lifecycle!GoLive(s, hookKey[p])
    BY <1>0, <2>1 DEF CreateRow, LiveOn, Holders, Lifecycle!GoLive, thrVars, outVars
  <2>2. hookKey[p] \in Keys
    BY <1>4, <1>0 DEF BroadcastCreate, Created
  <2>3. CASE UNCHANGED rowVars
    <3>1. NoNewHolder
      BY <1>4 DEF BroadcastCreate, CreateSession, NoNewHolder, thrVars
    <3> QED
      BY <1>4, <2>3, <3>1, LoseSteps DEF BroadcastCreate, CreateSession, rowVars, outVars,
         Lifecycle!Next
  <2> QED
    BY <1>4, <2>1, <2>2, <2>3 DEF BroadcastCreate, CreateSession, Lifecycle!Next
<1>5. ASSUME NEW s \in Sessions, SyncTick(s) PROVE [Lifecycle!Next]_(Lifecycle!vars)
  <2>1. NoNewHolder
    BY <1>5, <1>0, ThreadKinds DEF SyncTick, NoNewHolder, Finalizing, Building,
         thrVars
  <2> QED
    BY <1>5, <2>1, LoseSteps DEF SyncTick, Sync, rowVars, outVars,
         Lifecycle!Next
<1>6. ASSUME NEW s \in Sessions, EncoderCloses(s) PROVE [Lifecycle!Next]_(Lifecycle!vars)
  <2>1. NoNewHolder
    BY <1>6, <1>0, ThreadKinds DEF EncoderCloses, NoNewHolder, Finalizing,
         Building
  <2> QED
    BY <1>6, <2>1, LoseSteps DEF EncoderCloses, rowVars, outVars, Lifecycle!Next
<1>7. ASSUME NEW s \in Sessions, StopLoop(s) PROVE [Lifecycle!Next]_(Lifecycle!vars)
  <2>1. NoNewHolder
    <3>1. CASE ~Die
      BY <1>7, <3>1, <1>0, ThreadKinds DEF StopLoop, NoNewHolder, Finalizing,
           Building
    <3> QED
      BY <3>1, DieNoNewHolder
  <2> QED
    BY <1>7, <2>1, LoseSteps DEF StopLoop, Sync, rowVars, outVars,
         Lifecycle!Next
<1>8. ASSUME NEW s \in Sessions, CheckLive(s) PROVE [Lifecycle!Next]_(Lifecycle!vars)
  <2>1. NoNewHolder
    <3>1. CASE ~Die
      BY <1>8, <3>1, <1>0, ThreadKinds DEF CheckLive, NoNewHolder, Finalizing,
           Building
    <3> QED
      BY <3>1, DieNoNewHolder
  <2> QED
    BY <1>8, <2>1, LoseSteps DEF CheckLive, rowVars, outVars, Lifecycle!Next
<1>9. ASSUME NEW s \in Sessions, Restart(s) PROVE [Lifecycle!Next]_(Lifecycle!vars)
  <2>1. NoNewHolder
    <3>1. CASE ~Die
      BY <1>9, <3>1, <1>0, ThreadKinds DEF Restart, Launch, NoNewHolder,
           Finalizing, Building
    <3> QED
      BY <3>1, DieNoNewHolder
  <2> QED
    BY <1>9, <2>1, LoseSteps DEF Restart, rowVars, outVars, Lifecycle!Next
<1>10. ASSUME NEW t \in Threads, BeginStitching(t) PROVE [Lifecycle!Next]_(Lifecycle!vars)
  <2>1. CASE CanStitch(cur[t]) /\ SetStatus(cur[t], "stitching")
             /\ Goto(t, "segments") /\ UNCHANGED cur
    <3>1. cur[t] \in Sessions
      BY <1>10, <1>0 DEF BeginStitching, Claims
    <3>2. Holders[cur[t]] = {}
      BY <2>1, <3>1, <1>0 DEF CanStitch, Holders, Claims, Finalizing, Building
    <3>3. \A u \in Threads : pc'[u] \in Finalizing <=> pc[u] \in Finalizing \/ u = t
      BY <2>1, <1>0 DEF Goto, Finalizing, Building
    <3>4. \A s \in Sessions : Holders'[s] = IF s = cur[t] THEN {t} ELSE Holders[s]
      BY <1>10, <2>1, <3>1, <3>2, <3>3 DEF Holders, BeginStitching, Finalizing, Building
    <3>5. Holders' = [Holders EXCEPT ![cur[t]] = {t}]
      BY <3>1, <3>4 DEF Holders
    <3>6. Lifecycle!Claim(cur[t], t)
      BY <1>10, <2>1, <3>2, <3>5 DEF BeginStitching, CanStitch, SetStatus,
         Lifecycle!Claim, Lifecycle!Claimed, outVars
    <3> QED
      BY <3>1, <3>6 DEF Lifecycle!Next
  <2>2. CASE Return(t) /\ UNCHANGED rowVars
    <3>1. NoNewHolder
      BY <2>2, <1>0 DEF Return, Goto, NoNewHolder, Finalizing, Building
    <3> QED
      BY <1>10, <2>2, <3>1, LoseSteps DEF BeginStitching, rowVars, outVars, Lifecycle!Next
  <2>3. CASE Throw(t) /\ UNCHANGED rowVars
    BY <1>10, <2>3, <1>0, ThrowNoNewHolder, LoseSteps DEF BeginStitching, rowVars,
       outVars, Lifecycle!Next
  <2> QED
    BY <1>10, <2>1, <2>2, <2>3 DEF BeginStitching
<1>11. ASSUME NEW t \in Threads, ReadSegments(t) PROVE [Lifecycle!Next]_(Lifecycle!vars)
  <2>1. UNCHANGED Holders
    <3>1. UNCHANGED cur /\ \E at \in Finalizing : Goto(t, at)
      BY <1>11 DEF ReadSegments, Finalizing, Building
    <3> QED
      BY <1>11, <3>1, <1>0, GotoHolders DEF ReadSegments, Finalizing, Building
  <2> QED
    BY <1>11, <2>1 DEF ReadSegments, rowVars, outVars, Lifecycle!vars
<1>12. ASSUME NEW t \in Threads, MarkEmpty(t) PROVE [Lifecycle!Next]_(Lifecycle!vars)
  <2>1. CASE SetStatus(cur[t], "stitch_failed") /\ Return(t)
    <3>1. /\ cur[t] \in Sessions /\ Lifecycle!Claimed(cur[t])
          /\ Holders' = [Holders EXCEPT ![cur[t]] = {}]
      BY <1>12, <2>1, <1>0, ReturnHolders DEF MarkEmpty, Finalizing, Building,
         Lifecycle!Claimed
    <3> QED
      BY <1>12, <2>1, <3>1 DEF MarkEmpty, SetStatus, outVars, Lifecycle!GiveUp,
         Lifecycle!Next
  <2>2. CASE UNCHANGED <<rowVars, cur>> /\ Goto(t, "fail")
    <3>1. UNCHANGED Holders
      BY <1>12, <2>2, <1>0, GotoHolders DEF MarkEmpty, Finalizing, Building
    <3> QED
      BY <1>12, <2>2, <3>1 DEF MarkEmpty, rowVars, outVars, Lifecycle!vars
  <2> QED
    BY <1>12, <2>1, <2>2 DEF MarkEmpty
<1>13. ASSUME NEW t \in Threads, PutPlaylists(t) PROVE [Lifecycle!Next]_(Lifecycle!vars)
  <2>1. UNCHANGED Holders
    <3>1. UNCHANGED cur /\ \E at \in Finalizing : Goto(t, at)
      BY <1>13 DEF PutPlaylists, Finalizing, Building
    <3> QED
      BY <1>13, <3>1, <1>0, GotoHolders DEF PutPlaylists, Finalizing, Building
  <2>2. /\ cur[t] \in Sessions /\ status[cur[t]] = "stitching"
        /\ Lifecycle!Claimed(cur[t])
    BY <1>13, <1>0, Holds DEF PutPlaylists, Claims, Finalizing, Building
  <2>3. CASE replay' = [replay EXCEPT ![cur[t]] = snap[t]]
    <3>1. Lifecycle!WriteReplay(cur[t])
      BY <1>13, <2>1, <2>2, <2>3, <1>0 DEF PutPlaylists, Replays, Working, Lifecycle!WriteReplay,
         rowVars, outVars
    <3> QED
      BY <2>2, <3>1 DEF Lifecycle!Next
  <2>4. CASE UNCHANGED replay
    BY <1>13, <2>1, <2>4 DEF PutPlaylists, rowVars, outVars, Lifecycle!vars
  <2> QED
    BY <1>13, <2>3, <2>4 DEF PutPlaylists
<1>14. ASSUME NEW t \in Threads, Register(t) PROVE [Lifecycle!Next]_(Lifecycle!vars)
  <2>1. UNCHANGED Holders
    <3>1. UNCHANGED cur /\ \E at \in Finalizing : Goto(t, at)
      BY <1>14 DEF Register, AfterFailedAttempt, Finalizing, Building
    <3> QED
      BY <1>14, <3>1, <1>0, GotoHolders DEF Register, Finalizing, Building
  <2>2. /\ cur[t] \in Sessions /\ status[cur[t]] = "stitching"
        /\ Lifecycle!Claimed(cur[t])
    BY <1>14, <1>0, Holds DEF Register, Claims, Finalizing, Building
  <2>3. CASE FromLive(cur[t])
    <3>1. Lifecycle!RegisterVideo(cur[t])
      <4>1. videos[cur[t]] = 0 \/ videos[cur[t]] = 1
        BY <2>2, <1>0 DEF Replays
      <4>2. videos' = [videos EXCEPT ![cur[t]] = 1]
        BY <2>3, <4>1 DEF FromLive
      <4>3. replay[cur[t]] > 0
        BY <1>14, <1>0 DEF Register, Replays, Working
      <4> QED
        BY <1>14, <2>1, <2>2, <4>2, <4>3 DEF Register, Lifecycle!RegisterVideo, rowVars
    <3> QED
      BY <2>2, <3>1 DEF Lifecycle!Next
  <2>4. CASE UNCHANGED videos
    BY <1>14, <2>1, <2>4 DEF Register, rowVars, outVars, Lifecycle!vars
  <2> QED
    BY <1>14, <2>3, <2>4 DEF Register
<1>15. ASSUME NEW t \in Threads, MarkEnded(t) PROVE [Lifecycle!Next]_(Lifecycle!vars)
  <2>1. UNCHANGED Holders
    <3>1. UNCHANGED cur /\ \E at \in Finalizing : Goto(t, at)
      BY <1>15 DEF MarkEnded, Finalizing, Building
    <3> QED
      BY <1>15, <3>1, <1>0, GotoHolders DEF MarkEnded, Finalizing, Building
  <2>2. /\ cur[t] \in Sessions /\ status[cur[t]] = "stitching"
        /\ Lifecycle!Claimed(cur[t])
    BY <1>15, <1>0, Holds DEF MarkEnded, Claims, Finalizing, Building
  <2>3. CASE SetStatus(cur[t], "ended")
    <3>1. Lifecycle!End(cur[t])
      BY <1>15, <2>1, <2>2, <2>3, <1>0 DEF MarkEnded, SetStatus, Replays, Working, Lifecycle!End,
         rowVars, outVars
    <3> QED
      BY <2>2, <3>1 DEF Lifecycle!Next
  <2>4. CASE UNCHANGED rowVars
    BY <1>15, <2>1, <2>4 DEF MarkEnded, rowVars, outVars, Lifecycle!vars
  <2> QED
    BY <1>15, <2>3, <2>4 DEF MarkEnded
<1>16. ASSUME NEW t \in Threads, Announce(t) PROVE [Lifecycle!Next]_(Lifecycle!vars)
  <2>1. cur[t] \in Sessions /\ status[cur[t]] = "ended" /\ Lifecycle!Claimed(cur[t])
    BY <1>16, <1>0, Holds DEF Announce, Claims, Finalizing, Building
  <2>2. \/ Holders' = [Holders EXCEPT ![cur[t]] = {}]
           /\ announced' = [announced EXCEPT ![cur[t]] = TRUE]
        \/ UNCHANGED Holders
    BY <1>16, <1>0, GotoHolders, ReturnHolders DEF Announce, Finalizing
  <2>3. CASE announced' = [announced EXCEPT ![cur[t]] = TRUE]
    <3>1. Lifecycle!Announce(cur[t])
      BY <1>16, <2>1, <2>2, <2>3 DEF Announce, rowVars, Lifecycle!Announce
    <3> QED
      BY <2>1, <3>1 DEF Lifecycle!Next
  <2>4. CASE UNCHANGED <<announced, Holders>>
    BY <1>16, <2>4 DEF Announce, rowVars, Lifecycle!vars
  <2> QED
    BY <1>16, <2>2, <2>3, <2>4 DEF Announce
<1>17. ASSUME NEW t \in Threads, MarkStitchFailed(t) PROVE [Lifecycle!Next]_(Lifecycle!vars)
  <2>1. CASE SetStatus(cur[t], "stitch_failed") /\ Return(t)
    <3>1. /\ cur[t] \in Sessions /\ Lifecycle!Claimed(cur[t])
          /\ Holders' = [Holders EXCEPT ![cur[t]] = {}]
      BY <1>17, <2>1, <1>0, ReturnHolders DEF MarkStitchFailed, Finalizing,
         Lifecycle!Claimed
    <3> QED
      BY <1>17, <2>1, <3>1 DEF MarkStitchFailed, SetStatus, outVars, Lifecycle!GiveUp,
         Lifecycle!Next
  <2>2. CASE Throw(t) /\ UNCHANGED rowVars
    BY <1>17, <2>2, <1>0, ThrowNoNewHolder, LoseSteps DEF MarkStitchFailed, rowVars,
       outVars, Lifecycle!Next
  <2> QED
    BY <1>17, <2>1, <2>2 DEF MarkStitchFailed
<1>18. CASE RecoverList
  <2>1. NoNewHolder
    <3>1. CASE ~Die
      BY <1>18, <3>1, <1>0, ThreadKinds DEF RecoverList, Goto, Quietly,
           NoNewHolder, Finalizing, Building
    <3> QED
      BY <3>1, DieNoNewHolder
  <2> QED
    BY <1>18, <2>1, LoseSteps DEF RecoverList, rowVars, outVars, Lifecycle!Next
<1>19. CASE RecoverNext
  <2>1. NoNewHolder
    BY <1>19, <1>0, ThreadKinds DEF RecoverNext, Goto, Finalize, NoNewHolder,
         Finalizing, Building
  <2> QED
    BY <1>19, <2>1, LoseSteps DEF RecoverNext, rowVars, outVars, Lifecycle!Next
<1>20. ASSUME NEW t \in Sweeps, SweepList(t) PROVE [Lifecycle!Next]_(Lifecycle!vars)
  <2>1. NoNewHolder
    BY <1>20, <1>0, ThreadKinds DEF SweepList, StartList, Goto, NoNewHolder,
         Finalizing, Building
  <2> QED
    BY <1>20, <2>1, LoseSteps DEF SweepList, StartList, rowVars, outVars,
         Lifecycle!Next
<1>21. ASSUME NEW t \in Retries, RetryList(t) PROVE [Lifecycle!Next]_(Lifecycle!vars)
  <2>1. NoNewHolder
    BY <1>21, <1>0, ThreadKinds DEF RetryList, StartList, Goto, NoNewHolder,
         Finalizing, Building
  <2> QED
    BY <1>21, <2>1, LoseSteps DEF RetryList, StartList, rowVars, outVars,
         Lifecycle!Next
<1>22. ASSUME NEW t \in Sweeps \cup Retries, JobNext(t) PROVE [Lifecycle!Next]_(Lifecycle!vars)
  <2>1. NoNewHolder
    BY <1>22, <1>0, ThreadKinds DEF JobNext, Finalize, Goto, NoNewHolder,
         Finalizing, Building
  <2> QED
    BY <1>22, <2>1, LoseSteps DEF JobNext, rowVars, outVars, Lifecycle!Next
<1>23. CASE UNCHANGED core
  BY <1>23 DEF core, Holders, Lifecycle!vars
<1> QED
  BY <1>1, <1>2, <1>3, <1>4, <1>5, <1>6, <1>7, <1>8, <1>9, <1>10, <1>11, <1>12,
       <1>13, <1>14, <1>15, <1>16, <1>17, <1>18, <1>19, <1>20, <1>21, <1>22,
       <1>23, OtherSteps DEF CoreStep, CloseStep, FinalizeStep
-----------------------------------------------------------------------------
(* The theorems.                                                              *)

\* The invariant holds before the first boot.
LEMMA InitIInv == Init => IInv
<1> SUFFICES ASSUME Init PROVE IInv
  OBVIOUS
<1>1. TypeOK
  BY TypeInit
<1>2. Claims /\ Created /\ OneFinalizer /\ OneLivePerKey
  BY DEF Init, Claims, Created, OneFinalizer, OneLivePerKey, Finalizing, Building
<1>3. Replays
  BY DEF Init, Replays, EndedHasReplay, Working
<1> QED
  BY <1>1, <1>2, <1>3 DEF IInv

\* Every step of LiveSession preserves the invariant.
LEMMA NextIInv == IInv /\ [Next]_vars => IInv'
<1> SUFFICES ASSUME IInv, [Next]_vars PROVE IInv'
  OBVIOUS
<1>1. TypeOK'
  BY TypeStep DEF IInv
<1>2. ThreadsOK /\ ReplayTypes
  BY DEF IInv, TypeOK, RowTypes, OutTypes, EncTypes, ThreadTypes, ThreadsOK,
     ReplayTypes
<1>3. Claims' /\ OneFinalizer'
  BY <1>2, ClaimStep DEF IInv
<1>4. Created' /\ OneLivePerKey'
  BY CreatedStep, KeyStep DEF IInv
<1>5. Replays'
  BY <1>2, ReplayStep DEF IInv
<1> QED
  BY <1>1, <1>3, <1>4, <1>5 DEF IInv

\* The inductive invariant holds of the whole service, crashes included.
THEOREM Invariance == Spec => []IInv
  BY InitIInv, NextIInv, PTL DEF Spec

\* The types of the rows, of the threads of control and of the hooks.
THEOREM TypeCorrect == Spec => []TypeOK
<1>1. IInv => TypeOK
  BY DEF IInv
<1> QED
  BY <1>1, Invariance, PTL

\* Of all the threads that may call finalizeVod, however many jobs overlap, at
\* most one is past beginStitching for a session.
THEOREM FinalizeIsExclusive == Spec => []OneFinalizer
<1>1. IInv => OneFinalizer
  BY DEF IInv
<1> QED
  BY <1>1, Invariance, PTL

\* However many hooks and sockets race, a key has one live session.
THEOREM KeyIsExclusive == Spec => []OneLivePerKey
<1>1. IInv => OneLivePerKey
  BY DEF IInv
<1> QED
  BY <1>1, Invariance, PTL

\* An ended session has a replay and one video, through any number of failures,
\* retries and crashes.
THEOREM EndedIsReplayable == Spec => []EndedHasReplay
<1>1. IInv => EndedHasReplay
  BY DEF IInv, Replays
<1> QED
  BY <1>1, Invariance, PTL

\* A session has at most one video in video-service.
THEOREM VideoIsUnique == Spec => []OneVideo
<1>1. IInv => OneVideo
  BY DEF IInv, Replays, OneVideo
<1> QED
  BY <1>1, Invariance, PTL

\* The index of segments only grows, and a replay is a copy of it.
LEMMA ReplayGrows ==
  ASSUME IInv, [Next]_vars, NEW s \in Sessions PROVE replay'[s] >= replay[s]
<1>1. CASE UNCHANGED replay
  BY <1>1 DEF IInv, TypeOK, OutTypes
<1>2. ASSUME NEW t \in Threads, PutPlaylists(t) PROVE replay'[s] >= replay[s]
  BY <1>2 DEF PutPlaylists, IInv, TypeOK, OutTypes, ThreadTypes, Replays, Claims,
     Finalizing, Building
<1>3. CASE CoreStep /\ ~UNCHANGED replay
  BY <1>2, <1>3 DEF CoreStep, Crash, Boot, OnPublishCreate, BroadcastCreate, CreateSession,
     SyncTick, EncoderCloses, CloseStep, StopLoop, CheckLive, Restart, FinalizeStep,
     BeginStitching, ReadSegments, MarkEmpty, Register, MarkEnded, Announce, MarkStitchFailed,
     RecoverList, RecoverNext, SweepList, RetryList, StartList, JobNext, outVars
<1> QED
  BY <1>1, <1>3, OtherSteps DEF core

\* Whoever finalizes a session again writes a replay at least as long.
THEOREM ReplayIsKept == Spec => ReplayNeverShrinks
<1>1. IInv /\ [Next]_vars => [\A s \in Sessions : replay'[s] >= replay[s]]_vars
  BY ReplayGrows
<1> QED
  BY <1>1, Invariance, PTL DEF Spec, ReplayNeverShrinks

\* LiveSession implements SessionLifecycle.
THEOREM Refinement == Spec => LifecycleSpec
<1>1. Init => Lifecycle!Init
  BY DEF Init, Holders, Lifecycle!Init, Finalizing, Building
<1>2. IInv /\ [Next]_vars => [Lifecycle!Next]_(Lifecycle!vars)
  BY LifecycleStep
<1> QED
  BY <1>1, <1>2, Invariance, PTL DEF Spec, LifecycleSpec, Lifecycle!Spec
=============================================================================
