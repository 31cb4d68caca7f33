-------------------------- MODULE MCFriendRequests --------------------------
(* Alice and bob act at the same time, alice and carol one after the other. *)
EXTENDS FriendRequests, TLC

CONSTANTS alice, bob, carol

MCCalm == {{alice, carol}}

TaskSymmetry == Permutations(Task)
=============================================================================
