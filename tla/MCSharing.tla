----------------------------- MODULE MCSharing -----------------------------
(***************************************************************************)
(* Sharing on small instances.  Users, requests, tasks and codes are only  *)
(* ever compared for equality, so permuting them changes nothing; all the  *)
(* properties checked with this symmetry are safety properties.            *)
(***************************************************************************)
EXTENDS Sharing, TLC

Symmetry == Permutations(Users) \cup Permutations(Requests)
            \cup Permutations(Tasks) \cup Permutations(Codes)

\* Handlers of the run in which a claim overtakes its victim.
ListHandlers == {"createList", "claim", "join", "leave", "remove",
                 "resetInvite", "deleteList", "restoreList"}

\* Handlers of the run in which a removal overtakes an assignment.
AssignHandlers == {"claim", "join", "leave", "remove", "addTask", "assign",
                   "deleteTask", "restoreTask"}

AllHandlers == Operations
=============================================================================
