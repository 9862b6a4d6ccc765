----------------------------- MODULE MCLiveSession -----------------------------
(***************************************************************************)
(* Model-checking of LiveSession: the symmetries of the runs that check    *)
(* safety only.                                                            *)
(***************************************************************************)
EXTENDS LiveSession, TLC

\* Keys, sessions, connections and sweeps are interchangeable.
Symmetry ==
  Permutations(Keys) \cup Permutations(Sessions) \cup Permutations(Publishers)
    \cup Permutations(Sweeps)
================================================================================
