------------------------------ MODULE MCLivePages ------------------------------
(***************************************************************************)
(* Model-checking of LivePages.                                            *)
(***************************************************************************)
EXTENDS LivePages
=============================================================================
