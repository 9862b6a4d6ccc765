----------------------------- MODULE MCAdminConsole -----------------------------
(***************************************************************************)
(* Model-checking of AdminConsole; the bounds are in the configuration.    *)
(***************************************************************************)
EXTENDS AdminConsole
=================================================================================
