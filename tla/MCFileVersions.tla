---------------------------- MODULE MCFileVersions ----------------------------
(***************************************************************************)
(* Instances of FileVersions for TLC.                                      *)
(***************************************************************************)
EXTENDS FileVersions

CONSTANTS r1, r2, r3, l1, l2

TwoLoops == [r \in Request |-> IF r = r1 THEN l1 ELSE l2]
=============================================================================
