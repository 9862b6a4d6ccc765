------------------------------ MODULE MCPlayback ------------------------------
(***************************************************************************)
(* Model-checking of Playback with playlists as the transcoder writes them *)
(***************************************************************************)
EXTENDS Playback

\* A playlist on both sides of web-user's cap, and one that is all above it.
Both == <<Other, StreamInf, 4, StreamInf, 5>>
Above == <<Other, Other, StreamInf, 5>>

Only(u, n) == [t \in Tabs |-> IF t = u THEN n ELSE 0]

\* Each tab mounts a player at the same time, or one tab does alone; or one mounts a player twice
\* while people sign in and out.
MCScenes ==
  {[master |-> Both, plan |-> [t \in Tabs |-> 1], signs |-> 0]} \cup
  {[master |-> Above, plan |-> Only(u, 1), signs |-> 0] : u \in Tabs} \cup
  {[master |-> Both, plan |-> Only(u, MaxOpens), signs |-> 2] : u \in Tabs}
=============================================================================
