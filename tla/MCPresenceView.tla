---------------------------- MODULE MCPresenceView ----------------------------
(***************************************************************************)
(* Instances of PresenceView for TLC.                                      *)
(***************************************************************************)
EXTENDS PresenceView, TLC

CONSTANTS c1, c2, c3, l1, l2

OneLoop  == [c \in Conn |-> l1]
TwoLoops == [c \in Conn |-> IF c = c1 THEN l1 ELSE l2]

\* The users are interchangeable, and so are the guest ids.
Symmetry == Permutations(User) \cup Permutations(GuestId)
=============================================================================
