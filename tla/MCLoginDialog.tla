----------------------------- MODULE MCLoginDialog -----------------------------
(***************************************************************************)
(* Instances of LoginDialog for TLC.                                       *)
(***************************************************************************)
EXTENDS LoginDialog
=============================================================================
