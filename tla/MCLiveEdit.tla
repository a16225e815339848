------------------------------ MODULE MCLiveEdit ------------------------------
(***************************************************************************)
(* Instances of LiveEdit for TLC.  Clients and projects are alike.         *)
(***************************************************************************)
EXTENDS LiveEdit, TLC

Symmetric == Permutations(Client) \cup Permutations(Project)
=============================================================================
