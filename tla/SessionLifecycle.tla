--------------------------- MODULE SessionLifecycle ---------------------------
(***************************************************************************)
(* What live-service promises of its sessions, whichever of the close      *)
(* handlers, jobs and boots works on them: a session is claimed by one     *)
(* worker at a time, only its worker changes its status, its replay and    *)
(* its video, and it ends with both.  A worker may be lost, and then its   *)
(* session stays as it is.  LiveSession implements this specification.     *)
(***************************************************************************)
EXTENDS Naturals

CONSTANTS Keys, Sessions, Workers, NoKey

VARIABLES
  status, keyOf,    \* the row of a session
  owners,           \* the workers that have claimed it
  replay, videos,   \* its replay's segments, its videos in video-service
  announced         \* live.ended is published

vars == <<status, keyOf, owners, replay, videos, announced>>
row == <<status, keyOf>>
out == <<replay, videos, announced>>

Init ==
  /\ status = [s \in Sessions |-> "none"]
  /\ keyOf = [s \in Sessions |-> NoKey]
  /\ owners = [s \in Sessions |-> {}]
  /\ replay = [s \in Sessions |-> 0]
  /\ videos = [s \in Sessions |-> 0]
  /\ announced = [s \in Sessions |-> FALSE]

Claimed(s) == owners[s] # {}

\* A key goes live in one session at a time.
GoLive(s, k) ==
  /\ status[s] = "none"
  /\ \A r \in Sessions : status[r] = "live" => keyOf[r] # k
  /\ status' = [status EXCEPT ![s] = "live"]
  /\ keyOf' = [keyOf EXCEPT ![s] = k]
  /\ UNCHANGED <<owners, out>>

Claim(s, w) ==
  /\ ~Claimed(s)
  /\ status[s] \in {"live", "stitch_failed"}
  /\ status' = [status EXCEPT ![s] = "stitching"]
  /\ owners' = [owners EXCEPT ![s] = {w}]
  /\ UNCHANGED <<keyOf, out>>

\* A replay is replaced by one at least as long.
WriteReplay(s) ==
  /\ Claimed(s) /\ status[s] = "stitching"
  /\ replay'[s] > 0 /\ replay'[s] >= replay[s]
  /\ replay' = [replay EXCEPT ![s] = replay'[s]]
  /\ UNCHANGED <<row, owners, videos, announced>>

RegisterVideo(s) ==
  /\ Claimed(s) /\ status[s] = "stitching"
  /\ replay[s] > 0
  /\ videos' = [videos EXCEPT ![s] = 1]
  /\ UNCHANGED <<row, owners, replay, announced>>

End(s) ==
  /\ Claimed(s) /\ status[s] = "stitching"
  /\ replay[s] > 0 /\ videos[s] = 1
  /\ status' = [status EXCEPT ![s] = "ended"]
  /\ UNCHANGED <<keyOf, owners, out>>

\* The worker is done with the session, unless the reply of the broker is lost.
Announce(s) ==
  /\ Claimed(s) /\ status[s] = "ended"
  /\ announced' = [announced EXCEPT ![s] = TRUE]
  /\ owners' = [owners EXCEPT ![s] = {}] \/ UNCHANGED owners
  /\ UNCHANGED <<row, replay, videos>>

\* The session is left to a later worker, even after its end.
GiveUp(s) ==
  /\ Claimed(s)
  /\ status' = [status EXCEPT ![s] = "stitch_failed"]
  /\ owners' = [owners EXCEPT ![s] = {}]
  /\ UNCHANGED <<keyOf, out>>

\* A crash, or an error in a job: workers vanish with their claims.
Lose ==
  /\ \A s \in Sessions : owners'[s] \subseteq owners[s]
  /\ owners' = [s \in Sessions |-> owners'[s]]
  /\ UNCHANGED <<row, out>>

Next ==
  \/ Lose
  \/ \E s \in Sessions :
       \/ \E k \in Keys : GoLive(s, k)
       \/ \E w \in Workers : Claim(s, w)
       \/ WriteReplay(s) \/ RegisterVideo(s) \/ End(s) \/ Announce(s) \/ GiveUp(s)

Spec == Init /\ [][Next]_vars
=============================================================================
