----------------------------- MODULE MCClientSync -----------------------------
(***************************************************************************)
(* Instances of ClientSync for TLC.                                        *)
(***************************************************************************)
EXTENDS ClientSync, TLC

\* Clients, places for queries and texts are interchangeable.
Symmetry ==
  Permutations(Client) \cup Permutations(Query) \cup Permutations(Text)
=============================================================================
