------------------------------ MODULE Projects ------------------------------
(***************************************************************************)
(* The project directories a client opens                                  *)
(* (client/src/workspace/workspace_manager.cpp).                           *)
(***************************************************************************)
EXTENDS Naturals, Sequences

CONSTANTS
  Project,  \* project directories
  NoProject \* the root of a widget before a project was opened

ASSUME ProjectAssumption == NoProject \notin Project
=============================================================================
