----------------------------- MODULE MCPresenceSet -----------------------------
(***************************************************************************)
(* Instances of PresenceSet for TLC.                                       *)
(***************************************************************************)
EXTENDS PresenceSet, TLC

CONSTANTS c1, c2, l1, l2

TwoLoops == [c \in Conn |-> IF c = c1 THEN l1 ELSE l2]

\* The guest ids are interchangeable, and so are the projects.
Symmetry == Permutations(GuestId) \cup Permutations(Project)
=============================================================================
