------------------------------ MODULE MCSignUp ------------------------------
(***************************************************************************)
(* SignUp on small instances.                                              *)
(***************************************************************************)
EXTENDS SignUp, TLC

CONSTANTS a1, a2, q1, q2

Symmetry == Permutations(Addresses) \cup Permutations(Slots)
=============================================================================
