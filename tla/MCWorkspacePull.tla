---------------------------- MODULE MCWorkspacePull ----------------------------
(***************************************************************************)
(* Instances of WorkspacePull for TLC.                                     *)
(***************************************************************************)
EXTENDS WorkspacePull
=============================================================================
