----------------------------- MODULE MCUnread -----------------------------
(***************************************************************************)
(* Unread on small instances.                                              *)
(***************************************************************************)
EXTENDS Unread, TLC

CONSTANTS p1, p2

Symmetry == Permutations(Slots)
=============================================================================
