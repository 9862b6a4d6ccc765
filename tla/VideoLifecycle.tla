---------------------------- MODULE VideoLifecycle ----------------------------
(***************************************************************************)
(* What video-service and the transcode-worker promise of a video,         *)
(* whichever requests, workers and consumers are there to keep it: its     *)
(* file is assembled for somebody who has found it uploading, handed over  *)
(* by somebody who has queued it, transcoded while it is owed, and its row *)
(* follows an outcome.  A request changes a row the way it was free to     *)
(* when it looked; an edit may bring back what it has read.  Wishes,       *)
(* handovers and outcomes may be lost.  VideoPipeline implements this.     *)
(***************************************************************************)

CONSTANTS Videos, NoRow

VARIABLES
  row,      \* videos
  pending,  \* what requests in flight may still do to a video
  stored,   \* the videos whose file S3 has assembled
  owed,     \* the videos that are handed over, and not settled yet
  files,    \* the videos whose renditions are all there
  answers   \* the outcomes on their way to the row of a video

work == <<stored, owed, files, answers>>
vars == <<row, pending, work>>

\* A wish to edit knows the row that was read.
Want(kind) == [kind |-> kind, row |-> NoRow]
Edit(w) == [kind |-> "patch", row |-> w]

Init ==
  /\ row = [v \in Videos |-> NoRow]
  /\ pending = [v \in Videos |-> {}] /\ answers = [v \in Videos |-> {}]
  /\ stored = {} /\ owed = {} /\ files = {}

Exists(v) == row[v].status # "none" /\ ~row[v].deleted

\* Some wishes are fulfilled or forgotten.
Fewer ==
  /\ pending' = [v \in Videos |-> pending'[v]]
  /\ \A v \in Videos : pending'[v] \subseteq pending[v]

\* And one may be new.
Wishes(v, c) ==
  /\ pending' = [u \in Videos |-> pending'[u]]
  /\ \A u \in Videos : pending'[u] \subseteq pending[u] \cup (IF u = v THEN {c} ELSE {})

Create(v) ==
  /\ row[v].status = "none"
  /\ row' = [row EXCEPT ![v].status = "uploading"]
  /\ UNCHANGED <<pending, work>>

\* A replay comes with its files.
Register(v) ==
  /\ row[v].status = "none"
  /\ row' = [row EXCEPT ![v] = [status |-> "ready", manifest |-> TRUE,
               published |-> TRUE, deleted |-> FALSE, live |-> TRUE]]
  /\ UNCHANGED <<pending, work>>

Ask(v, c) ==
  /\ \/ c = Want("complete") /\ row[v].status = "uploading"
     \/ c = Want("publish") /\ Exists(v) /\ row[v].status = "ready"
     \/ c \in {Want("delete"), Edit(row[v])} /\ Exists(v)
  /\ Wishes(v, c)
  /\ UNCHANGED <<row, work>>

Forget == Fewer /\ UNCHANGED <<row, work>>

Assemble(v) ==
  /\ Want("complete") \in pending[v]
  /\ stored' = stored \cup {v}
  /\ Fewer /\ UNCHANGED <<row, owed, files, answers>>

Queue(v) ==
  /\ Want("complete") \in pending[v] /\ v \in stored
  /\ row' = [row EXCEPT ![v].status = "processing"]
  /\ Wishes(v, Want("send")) /\ UNCHANGED work

HandOver(v) ==
  /\ Want("send") \in pending[v]
  /\ owed' = owed \cup {v}
  /\ Fewer /\ UNCHANGED <<row, stored, files, answers>>

Save(v, c) ==
  /\ c \in pending[v]
  /\ \/ c = Edit(c.row) /\ row' = [row EXCEPT ![v] = c.row]
     \/ c = Want("delete") /\ row' = [row EXCEPT ![v].status = "deleted", ![v].deleted = TRUE]
     \/ c = Want("publish") /\ row' = [row EXCEPT ![v].published = TRUE]
  /\ Fewer /\ UNCHANGED work

Transcode(v) ==
  /\ v \in owed
  /\ files' = files \cup {v}
  /\ UNCHANGED <<row, pending, stored, owed, answers>>

Tell(v, outcome) ==
  /\ v \in owed /\ (outcome = "transcoded" => v \in files)
  /\ answers' = [answers EXCEPT ![v] = @ \cup {outcome}]
  /\ UNCHANGED <<row, pending, stored, owed, files>>

Settle(v) ==
  /\ v \in owed /\ owed' = owed \ {v}
  /\ UNCHANGED <<row, pending, stored, files, answers>>

\* An outcome is written into the row, perhaps again and again, until it is committed.
Answer(v, outcome) ==
  /\ outcome \in answers[v]
  /\ row' = IF outcome = "transcoded"
            THEN [row EXCEPT ![v].status = "ready", ![v].manifest = TRUE]
            ELSE [row EXCEPT ![v].status = "failed"]
  /\ UNCHANGED <<pending, work>>

Commit(v, outcome) ==
  /\ answers' = [answers EXCEPT ![v] = @ \ {outcome}]
  /\ UNCHANGED <<row, pending, stored, owed, files>>

Next ==
  \/ Forget
  \/ \E v \in Videos :
       \/ Create(v) \/ Register(v) \/ Assemble(v) \/ Queue(v) \/ HandOver(v)
       \/ \E c \in {Want("complete"), Want("publish"), Want("delete"), Edit(row[v])} : Ask(v, c)
       \/ \E c \in pending[v] : Save(v, c)
       \/ Transcode(v) \/ Settle(v)
       \/ \E outcome \in {"transcoded", "failed"} :
            Tell(v, outcome) \/ Answer(v, outcome) \/ Commit(v, outcome)

Spec == Init /\ [][Next]_vars
=============================================================================
