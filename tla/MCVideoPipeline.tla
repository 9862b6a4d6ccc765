---------------------------- MODULE MCVideoPipeline ----------------------------
(***************************************************************************)
(* Model-checking of VideoPipeline; the bounds are in the configurations.  *)
(***************************************************************************)
EXTENDS VideoPipeline
================================================================================
