------------------------------- MODULE MCPush -------------------------------
(***************************************************************************)
(* Push on small instances.  A liveness property is checked, so there is   *)
(* no symmetry.                                                            *)
(***************************************************************************)
EXTENDS Push, TLC

CONSTANTS p1, p2, b1, b2, s1, s2
=============================================================================
