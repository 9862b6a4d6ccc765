----------------------------- MODULE MCSegmentSync -----------------------------
(***************************************************************************)
(* Model-checking of SegmentSync; the bounds are in the configurations.    *)
(***************************************************************************)
EXTENDS SegmentSync
================================================================================
