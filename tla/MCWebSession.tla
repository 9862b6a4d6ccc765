----------------------------- MODULE MCWebSession -----------------------------
(***************************************************************************)
(* Model-checking of WebSession; the bounds are in the configurations.     *)
(***************************************************************************)
EXTENDS WebSession
===============================================================================
