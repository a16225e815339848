---------------------------- MODULE MCChannelClient ----------------------------
(***************************************************************************)
(* Instances of ChannelClient for TLC.                                     *)
(***************************************************************************)
EXTENDS ChannelClient, TLC

\* Tokens are interchangeable, and so are projects.
Symmetry == Permutations(Token) \cup Permutations(Project)
=============================================================================
