------------------------------ MODULE MCBoard ------------------------------
(***************************************************************************)
(* Board on small instances.  Messages are sent in a fixed order, and no   *)
(* symmetry is used: the workers have roles, and liveness is checked.      *)
(***************************************************************************)
EXTENDS Board, TLC

CONSTANTS w1, w2

\* One goroutine looks at the board, the other answers people.
LookerAndAnswerer == (w1 :> {"sync"}) @@ (w2 :> AllHandlers \ {"sync"})
TwoPressers == [w \in Workers |-> {"add", "done"}]

\* What does not start from a card read before the lock.
LockedFirst == AllHandlers \ {"done", "assign"}
=============================================================================
