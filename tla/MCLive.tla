------------------------------- MODULE MCLive -------------------------------
(***************************************************************************)
(* Live on small instances: one or two people with a page each.  Pages and *)
(* the people they belong to are told apart, so only the store operations  *)
(* are symmetric.                                                          *)
(***************************************************************************)
EXTENDS Live, TLC

CONSTANTS u1, u2, p1, p2

Symmetry == Permutations(Writers)

OnePage == [p \in {p1} |-> u1]
PageEach == (p1 :> u1) @@ (p2 :> u2)

\* What happens in each model.
SharedDoings == {"join", "remove", "claim", "trash", "form", "restart"}
RepairDoings == AllDoings \ {"join", "latejoin", "remove", "claim", "form"}
=============================================================================
