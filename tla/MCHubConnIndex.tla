---------------------------- MODULE MCHubConnIndex ----------------------------
(***************************************************************************)
(* The hub's connection index for TLC: its connections, users and channels *)
(* are interchangeable.  Only safety properties are checked with this.     *)
(***************************************************************************)
EXTENDS HubConnIndex, TLC

Symmetry == Permutations(Conns) \cup Permutations(Users) \cup Permutations(Channels)
=============================================================================
