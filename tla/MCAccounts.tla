------------------------------ MODULE MCAccounts ------------------------------
(***************************************************************************)
(* Model-checking of Accounts; the bounds are in the configurations.       *)
(***************************************************************************)
EXTENDS Accounts
===============================================================================
