----------------------------- MODULE MCAdminUpload -----------------------------
(***************************************************************************)
(* Model-checking of AdminUpload.                                          *)
(***************************************************************************)
EXTENDS AdminUpload
=============================================================================
