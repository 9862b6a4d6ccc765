------------------------------ MODULE AdminUpload ------------------------------
(***************************************************************************)
(* Uploading a file from web-admin: the dialog on the videos page, the two *)
(* endpoints of video-service it calls, and the multipart upload in S3.    *)
(*                                                                         *)
(* A submission is a chain of awaits that outlives the render it began in: *)
(* it keeps the file it was given, and writes into the state of the dialog *)
(* as long as the page it was begun on is there.  What happens to a video  *)
(* once it is processing is in VideoPipeline.                              *)
(*                                                                         *)
(* Abstractions: of a file there is its size, in units; of a stored part   *)
(* the range of the file it holds; of the fields of the form which version *)
(* of them is typed; the tags are a set, their order is left out.          *)
(***************************************************************************)
EXTENDS Integers, Sequences, FiniteSetsExt, SequencesExt

CONSTANTS
  Sizes,        \* sizes of the files an admin may choose
  Fields,       \* what may be typed into title, description, category and age rating
  Tags,         \* the tags an admin may add
  MaxTags,      \* the form takes no more: 10 in the code
  Chunk,        \* CHUNK_SIZE of the dialog: 5 MiB in the code
  ServiceChunk, \* S3_MULTIPART_CHUNK_SIZE_MB of the service: 5 MiB unless the environment says otherwise
  MaxSubmits,   \* bound: submissions, each of which makes a video
  MaxFaults     \* bound: requests that fail, or whose answer is lost

ASSUME UploadAssumption ==
  /\ Sizes \subseteq Nat /\ Chunk \in Nat \ {0} /\ ServiceChunk \in Nat \ {0}
  /\ MaxSubmits \in Nat /\ MaxTags \in Nat

Submits == 1..MaxSubmits
NoFile == -1
Untitled == "untitled"      \* no title is typed: the schema refuses the form

VARIABLES
  mount,            \* how often the videos page has been left: state before that is gone
  open, phase,      \* of the dialog
  file, videoId,    \* the file that is chosen, and the video it says is done (0: none)
  fields, tags,     \* the form
  at, given, on,    \* of each submission: where it waits, what it got, the page it is on
  part,             \* the part it sends
  status, row,      \* of the row of its video: its status, and what upload/init got
  stored, object,   \* in S3: parts, and the assembled object as the ranges in it
  faults

form == <<file, fields, tags>>
dialog == <<mount, open, phase, form, videoId>>
server == <<status, row, stored, object>>
vars == <<dialog, at, given, on, part, server, faults>>

Filled == [size |-> file, fields |-> fields, tags |-> tags]
Empty == [size |-> NoFile, fields |-> Untitled, tags |-> {}]

Fresh ==
  /\ phase' = "idle" /\ videoId' = 0 /\ open' = FALSE
  /\ file' = NoFile /\ fields' = Untitled /\ tags' = {}

Init ==
  /\ mount = 0 /\ open = FALSE /\ phase = "idle" /\ file = NoFile /\ videoId = 0
  /\ fields = Untitled /\ tags = {}
  /\ at = [i \in Submits |-> "none"] /\ given = [i \in Submits |-> Empty]
  /\ on = [i \in Submits |-> 0] /\ part = [i \in Submits |-> 0]
  /\ status = [i \in Submits |-> "none"] /\ row = [i \in Submits |-> Empty]
  /\ stored = [i \in Submits |-> <<>>] /\ object = [i \in Submits |-> <<>>] /\ faults = 0

Fault == faults < MaxFaults /\ faults' = faults + 1

(***************************************************************************)
(* The dialog                                                              *)
(***************************************************************************)
OnlyDialog == UNCHANGED <<at, given, on, part, server, faults>>

isSubmitting == phase \in {"uploading", "completing"}

\* The form and its button are there until the upload is done, and frozen meanwhile.
Form == open /\ phase \in {"idle", "error"}

Opens == ~open /\ open' = TRUE /\ UNCHANGED <<mount, phase, form, videoId>> /\ OnlyDialog

\* The drop zone, the fields, and the tags are disabled while it uploads.
CanEdit == Form

FillsIn == CanEdit /\ UNCHANGED <<mount, open, phase, videoId>> /\ OnlyDialog

Choose == FillsIn /\ file' \in Sizes /\ UNCHANGED <<fields, tags>>

TypeFields == FillsIn /\ fields' \in Fields /\ UNCHANGED <<file, tags>>

\* Enter, a comma, or leaving the input; a tag that is there is not added again.
commitTag ==
  /\ FillsIn /\ Cardinality(tags) < MaxTags
  /\ \E t \in Tags \ tags : tags' = tags \cup {t}
  /\ UNCHANGED <<file, fields>>

removeTag == FillsIn /\ (\E t \in tags : tags' = tags \ {t}) /\ UNCHANGED <<file, fields>>

\* Slip: the dialog closes while it uploads.
ClosesAlways == open

CanClose == open /\ ~isSubmitting

\* Cancel, Close, View Video and the backdrop: everything is reset.
HandleClose == CanClose /\ Fresh /\ UNCHANGED mount /\ OnlyDialog

DismissError ==
  /\ open /\ phase = "error" /\ phase' = "idle" /\ UNCHANGED <<mount, open, form, videoId>>
  /\ OnlyDialog

\* The browser's back button leaves the page also while it uploads; nothing is aborted.
LeavePage == isSubmitting /\ mount' = mount + 1 /\ Fresh /\ OnlyDialog

\* The button needs a file, and the schema of the form a title.
CanSubmit == Form /\ file # NoFile /\ fields # Untitled

Submit(i) ==
  /\ CanSubmit
  /\ at[i] = "none" /\ \A j \in 1..(i - 1) : at[j] # "none"
  /\ at' = [at EXCEPT ![i] = "init"] /\ given' = [given EXCEPT ![i] = Filled]
  /\ on' = [on EXCEPT ![i] = mount] /\ phase' = "uploading"
  /\ UNCHANGED <<mount, open, form, videoId, part, server, faults>>

\* A submission writes its phase where it was begun.
SetPhase(i, p) ==
  /\ phase' = IF on[i] = mount THEN p ELSE phase
  /\ UNCHANGED <<mount, open, form>>

\* The catch block: abortRef is never set, so the error is always shown.
Fails(i) ==
  /\ at' = [at EXCEPT ![i] = "over"] /\ SetPhase(i, "error") /\ UNCHANGED <<videoId, part>>

(***************************************************************************)
(* upload/init                                                             *)
(***************************************************************************)
\* The service counts the parts by its own setting; their sizes it does not say.
totalParts(size) == Max({1, (size + ServiceChunk - 1) \div ServiceChunk})

\* An empty file has no file_size_bytes for the service: refused, and no row is made.
Init400(i) ==
  /\ at[i] = "init" /\ given[i].size = 0 /\ Fails(i) /\ UNCHANGED <<given, on, server, faults>>

\* The row comes before S3 is asked: if S3 fails, or the answer is lost, it stays uploading.
UploadInit(i) ==
  /\ at[i] = "init" /\ given[i].size # 0
  /\ status' = [status EXCEPT ![i] = "uploading"] /\ row' = [row EXCEPT ![i] = given[i]]
  /\ \/ /\ at' = [at EXCEPT ![i] = "parts"] /\ part' = [part EXCEPT ![i] = 1]
        /\ UNCHANGED <<dialog, faults>>
     \/ Fault /\ Fails(i)
  /\ UNCHANGED <<given, on, stored, object>>

(***************************************************************************)
(* The parts                                                               *)
(***************************************************************************)
\* File.slice: what begins behind the end of the file is empty.
rangeOf(n, size) == [from |-> Min({(n - 1) * Chunk, size}), to |-> Min({n * Chunk, size})]

NextPart(i) == part' = [part EXCEPT ![i] = @ + 1]

\* One PUT after the other; the first that fails ends the submission.
PutPart(i) ==
  /\ at[i] = "parts"
  /\ \/ /\ stored' = [stored EXCEPT ![i] = Append(@, rangeOf(part[i], given[i].size))]
        /\ IF part[i] < totalParts(given[i].size)
           THEN NextPart(i) /\ UNCHANGED <<dialog, at>>
           ELSE /\ at' = [at EXCEPT ![i] = "complete"] /\ SetPhase(i, "completing")
                /\ UNCHANGED <<part, videoId>>
        /\ UNCHANGED faults
     \/ Fault /\ Fails(i) /\ UNCHANGED stored
  /\ UNCHANGED <<given, on, status, row, object>>

(***************************************************************************)
(* upload/complete                                                         *)
(***************************************************************************)
Assembles(i) ==
  /\ object' = [object EXCEPT ![i] = stored[i]]
  /\ status' = [status EXCEPT ![i] = "processing"]

\* A lost answer is an error for the dialog, and the video is processed all the same.
UploadComplete(i) ==
  /\ at[i] = "complete"
  /\ \/ /\ Assembles(i) /\ at' = [at EXCEPT ![i] = "over"] /\ SetPhase(i, "done")
        /\ videoId' = (IF on[i] = mount THEN i ELSE videoId) /\ UNCHANGED <<part, faults>>
     \/ Fault /\ Fails(i) /\ (Assembles(i) \/ UNCHANGED <<object, status>>)
  /\ UNCHANGED <<given, on, row, stored>>

Next ==
  \/ Opens \/ Choose \/ TypeFields \/ commitTag \/ removeTag \/ HandleClose \/ DismissError \/ LeavePage
  \/ \E i \in Submits :
       Submit(i) \/ Init400(i) \/ UploadInit(i) \/ PutPart(i) \/ UploadComplete(i)

Spec == Init /\ [][Next]_vars

(***************************************************************************)
(* Properties                                                              *)
(***************************************************************************)
Whole(parts, size) ==
  /\ parts # <<>> /\ Head(parts).from = 0 /\ Last(parts).to = size
  /\ \A n \in 1..(Len(parts) - 1) : parts[n].to = parts[n + 1].from

\* Whatever submissions failed, were given up by leaving the page or go on behind it: when
\* the dialog says the upload is complete, the video it names is processing, and its object
\* in S3 is the file of the dialog, every byte of it once and in order, and its row has the
\* fields and the tags that were filled in for that file.
DoneIsWhole ==
  phase = "done" => /\ videoId # 0 /\ status[videoId] = "processing"
                    /\ Whole(object[videoId], file) /\ row[videoId] = Filled
=============================================================================
