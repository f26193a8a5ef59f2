------------------------- MODULE SharingRefinement -------------------------
(***************************************************************************)
(* Sharing implements Belonging, for any number of users, lists, tasks,    *)
(* codes and concurrent requests.                                          *)
(*                                                                         *)
(* A statement of Store that writes a list row or a membership is a step   *)
(* of Belonging if the tables keep their invariant (first part); what the  *)
(* handlers add is that the statement is run only when it may be: a member *)
(* is only ever added to a list that has an owner.  That is what a request *)
(* knows of the list it read (KnowsItsList in IInv), however long ago.     *)
(***************************************************************************)
EXTENDS SharingProofs

\* The circle of a list is its row's and its membership's.
LEMMA CircleOf ==
    ASSUME NEW l \in Lists
    PROVE  Circle[l] = [stage |-> Stage(lists[l]), owner |-> lists[l].owner,
                        members |-> members[l]]
BY DEF Circle

\* What Belonging does not see: codes, the trash, tasks, the requests.
LEMMA HiddenStutters ==
    ASSUME TablesKept,
           \/ UNCHANGED <<lists, members>>
           \/ \E l \in Lists : \/ TrashList(l) \/ UntrashList(l) \/ ListExpires(l)
                               \/ \E c \in Codes : ResetInvite(l, c)
    PROVE  UNCHANGED Circle
<1>1. CASE UNCHANGED <<lists, members>>
  BY <1>1 DEF Circle
<1>2. ASSUME NEW l \in Lists,
             \/ TrashList(l) \/ UntrashList(l) \/ ListExpires(l)
             \/ \E c \in Codes : ResetInvite(l, c)
      PROVE  UNCHANGED Circle
  <2>1. /\ members' = members
        /\ \A k \in Lists : Stage(lists'[k]) = Stage(lists[k])
        /\ \A k \in Lists : lists'[k].owner = lists[k].owner
    BY <1>2 DEF TrashList, UntrashList, ListExpires, ResetInvite, TablesKept, TablesTyped,
       ListRow, Stage, Exists, Trashed
  <2> QED
    BY <2>1 DEF Circle
<1> QED
  BY <1>1, <1>2

\* Creating and claiming are the two ways to own.
LEMMA CreateListOwns ==
    ASSUME TablesKept, NEW l \in Lists, NEW u \in Users, NEW c \in Codes,
           CreateList(l, u, c)
    PROVE  Promise!Own(l, u)
<1> USE StoreConstants DEF TablesKept, TablesTyped, CreateList
<1>1. Circle[l] = Promise!None
  BY DEF Circle, Promise!None, ListsKept, Public, Exists, Trashed, Stage, ListRow
<1>2. Circle' = [Circle EXCEPT ![l] = Promise!Owned(u, {u})]
  BY DEF Circle, Promise!Owned, Stage, ListRow
<1> QED
  BY <1>1, <1>2 DEF Promise!Own

\* A claim is one step of owning.
LEMMA ClaimListOwns ==
    ASSUME TablesKept, NEW l \in Lists, NEW u \in Users, ClaimList(l, u)
    PROVE  Promise!Own(l, u)
<1> USE StoreConstants DEF TablesKept, TablesTyped, ClaimList
<1>1. Circle[l] = Promise!Everyones
  BY DEF Circle, Promise!Everyones, ListsKept, Public, Exists, Trashed, Stage, ListRow
<1>2. Circle' = [Circle EXCEPT ![l] = Promise!Owned(u, {u})]
  BY DEF Circle, Promise!Owned, Stage, ListRow, ListsKept, Public, Exists, Trashed
<1> QED
  BY <1>1, <1>2 DEF Promise!Own

\* Members come to owned lists, and go unless they own them.
LEMMA AddMemberJoins ==
    ASSUME TablesKept, NEW l \in Lists, NEW u \in Users, AddMember(l, u), ~Public(l)
    PROVE  Promise!Join(l, u)
<1> USE DEF TablesKept, TablesTyped, AddMember
<1>1. Circle[l].stage = "owned"
  BY DEF Circle, Public, Exists, Trashed, Stage, ListRow
<1>2. Circle' = [Circle EXCEPT ![l].members = @ \cup {u}]
  BY DEF Circle
<1> QED
  BY <1>1, <1>2 DEF Promise!Join

\* A removal is one of leaving.
LEMMA RemoveMemberLeaves ==
    ASSUME TablesKept, NEW l \in Lists, NEW u, RemoveMember(l, u)
    PROVE  u \in Users /\ Promise!Leave(l, u)
<1> USE DEF TablesKept, TablesTyped, RemoveMember
<1>1. u \in Users /\ ~Public(l) /\ Exists(lists[l])
  BY DEF ListsKept
<1>2. Circle[l].stage = "owned" /\ Circle[l].owner = lists[l].owner
  BY <1>1 DEF Circle, Public, Exists, Trashed, Stage, ListRow
<1>3. Circle' = [Circle EXCEPT ![l].members = @ \ {u}]
  BY DEF Circle
<1> QED
  BY <1>1, <1>2, <1>3 DEF Promise!Leave

\* A purge takes lists that were there, and leaves nothing of them.
LEMMA DestroyVanishes ==
    ASSUME TablesKept, NEW ts, NEW ls \in SUBSET Lists, Destroy(ts, ls),
           \A l \in ls : Exists(lists[l])
    PROVE  Promise!Vanish(ls)
<1> USE DEF TablesKept, TablesTyped, Destroy
<1>1. \A l \in ls : Circle[l].stage \in {"public", "owned"}
  BY DEF Circle, Exists, Trashed, Stage, ListRow
<1>2. Circle' = [l \in Lists |-> IF l \in ls THEN Promise!Gone ELSE Circle[l]]
  <2>1. \A l \in ls : Circle'[l] = Promise!Gone
    BY DEF Circle, Promise!Gone, Stage, AbsentList
  <2>2. \A l \in Lists \ ls : Circle'[l] = Circle[l]
    BY DEF Circle
  <2> QED
    BY <2>1, <2>2 DEF Circle
<1> QED
  BY <1>1, <1>2 DEF Promise!Vanish

\* A purge makes lists vanish, several at once.
LEMMA PurgeVanishes ==
    ASSUME TablesKept, PurgeTasks \/ PurgeLists \/ PurgeOnOpen
    PROVE  [Promise!Next]_Circle
<1>1. ExpiredLists \in SUBSET Lists /\ \A l \in ExpiredLists : Exists(lists[l])
  BY DEF ExpiredLists, Exists, Trashed
<1>2. \E ts : Destroy(ts, {}) \/ Destroy(ts, ExpiredLists)
  BY DEF PurgeTasks, PurgeLists, PurgeOnOpen
<1>3. Promise!Vanish({}) \/ Promise!Vanish(ExpiredLists)
  BY <1>1, <1>2, DestroyVanishes
<1> QED
  BY <1>1, <1>3 DEF Promise!Next

----------------------------------------------------------------------------
(* The handlers.                                                           *)

\* A request runs a statement that Belonging does not see, or one of its steps.
LEMMA WriteKeepsPromise ==
    ASSUME IInv, NEW r \in Requests, Write(r)
    PROVE  [Promise!Next]_Circle
<1> DEFINE q == requests[r]
<1>1. q \in Request /\ KnowsAll(q, lists, tasks)
  BY MoverKnows
<1>2. TablesKept
  BY DEF IInv, TypeOK, TablesKept, TablesTyped
<1>3. CASE UNCHANGED <<lists, members>>
  BY <1>2, <1>3, HiddenStutters
<1>4. q.step = "write" => q.list \in Lists
  BY <1>1 DEF KnowsAll, KnowsItsList, PastTask
<1>5. ASSUME WriteJoin(r), ~UNCHANGED db
      PROVE  Promise!Next
  <2>1. /\ q.op = "join" /\ q.step = "write" /\ q.actor \in Users /\ q.owner # Nobody
        /\ AddMember(q.list, q.actor)
    BY <1>1, <1>5 DEF WriteJoin, Writing, At, KnowsAll, KnowsItself, KnowsItsList
  <2>2. ~Public(q.list)
    BY <1>1, <2>1 DEF AddMember, KnowsAll, KnowsItsList, PastList, Public
  <2> QED
    BY <1>2, <1>4, <2>1, <2>2, AddMemberJoins DEF Promise!Next
<1>6. ASSUME WriteClaim(r), ~UNCHANGED db
      PROVE  Promise!Next
  <2>1. q.step = "write" /\ q.actor \in Users /\ ClaimList(q.list, q.actor)
    BY <1>1, <1>6 DEF WriteClaim, Writing, At, KnowsAll, KnowsItself
  <2> QED
    BY <1>2, <1>4, <2>1, ClaimListOwns DEF Promise!Next
<1>7. ASSUME WriteRemoveMember(r), ~UNCHANGED db
      PROVE  Promise!Next
  <2>1. q.step = "write" /\ RemoveMember(q.list, q.target)
    BY <1>7 DEF WriteRemoveMember, Writing, At
  <2> QED
    BY <1>2, <1>4, <2>1, RemoveMemberLeaves DEF Promise!Next
<1>8. ASSUME \/ WriteDeleteList(r) \/ WriteRestoreList(r)
             \/ \E c \in Codes : WriteResetInvite(r, c)
      PROVE  UNCHANGED Circle
  <2>1. \/ UNCHANGED db
        \/ q.step = "write" /\ (TrashList(q.list) \/ UntrashList(q.list)
                                \/ \E c \in Codes : ResetInvite(q.list, c))
    BY <1>8 DEF WriteDeleteList, WriteRestoreList, WriteResetInvite, Writing, At
  <2> QED
    BY <1>2, <1>4, <2>1, HiddenStutters DEF db
<1>9. ASSUME \/ \E t \in Tasks : WriteAddTask(r, t)
             \/ WriteAssign(r) \/ WriteDeleteTask(r) \/ WriteRestoreTask(r)
      PROVE  UNCHANGED <<lists, members>>
  BY <1>9 DEF WriteAddTask, WriteAssign, WriteDeleteTask, WriteRestoreTask, AddTask,
     AssignTask, TrashTask, UntrashTask, db
<1>10. ASSUME RunPurgeTasks(r) \/ RunPurgeLists(r)
       PROVE  [Promise!Next]_Circle
  BY <1>2, <1>10, PurgeVanishes DEF RunPurgeTasks, RunPurgeLists
<1> HIDE DEF q
<1> QED
  BY <1>3, <1>5, <1>6, <1>7, <1>8, <1>9, <1>10 DEF Write, db

\* A request that arrives writes nothing, unless it creates a list.
LEMMA ArriveKeepsPromise ==
    ASSUME IInv, NEW r \in Requests, Arrive(r) \/ Read(r)
    PROVE  [Promise!Next]_Circle
<1>1. TablesKept
  BY DEF IInv, TypeOK, TablesKept, TablesTyped
<1>2. ASSUME NEW u \in Users, NEW l \in Lists, NEW c \in Codes, Create(r, u, l, c)
      PROVE  Promise!Next
  BY <1>1, <1>2, CreateListOwns DEF Create, Promise!Next
<1>3. CASE UNCHANGED db
  BY <1>1, <1>3, HiddenStutters DEF db
<1>4. Read(r) => UNCHANGED db
  BY DEF Read, ReadInvite, ReadTask, ReadList, ReadMembership, ReadTrashedList,
     ReadTaskAgain, ReadAssignee
<1>5. Arrive(r) => \/ UNCHANGED db
                   \/ \E u \in Users, l \in Lists, c \in Codes : Create(r, u, l, c)
  BY DEF Arrive, BeginOnList, BeginOnTask, BeginJoin
<1> QED
  BY <1>2, <1>3, <1>4, <1>5

----------------------------------------------------------------------------
(* The theorem.                                                            *)

\* An empty database and a migrated one have no owners.
LEMMA InitPromise == Init => Promise!Init
<1> SUFFICES ASSUME Init
             PROVE  \A l \in Lists : Circle[l] \in {Promise!None, Promise!Everyones}
  BY DEF Circle, Promise!Init
<1> TAKE l \in Lists
<1>1. /\ lists[l].owner = Nobody /\ members[l] = {}
      /\ lists[l].state \in {"unmade", "live"}
  BY DEF Init, StoreInit, AbsentList
<1>2. Stage(lists[l]) \in {"none", "public"}
  BY <1>1 DEF Stage
<1> QED
  BY <1>1, <1>2 DEF Circle, Promise!None, Promise!Everyones

\* Each step of Sharing is a step of Belonging, or none.
LEMMA StepPromise == IInv /\ [Next]_vars => [Promise!Next]_Circle
<1> SUFFICES ASSUME IInv, [Next]_vars
             PROVE  [Promise!Next]_Circle
  OBVIOUS
<1>1. TablesKept
  BY DEF IInv, TypeOK, TablesKept, TablesTyped
<1>2. ASSUME NEW r \in Requests, Arrive(r) \/ Read(r) \/ Write(r)
      PROVE  [Promise!Next]_Circle
  BY <1>2, ArriveKeepsPromise, WriteKeepsPromise
<1>3. CASE Restart
  BY <1>1, <1>3, PurgeVanishes DEF Restart
<1>4. CASE ADayPasses
  BY <1>1, <1>4, HiddenStutters DEF ADayPasses, TaskExpires
<1>5. CASE UNCHANGED vars
  BY <1>1, <1>5, HiddenStutters DEF vars
<1> QED
  BY <1>2, <1>3, <1>4, <1>5 DEF Next

\* Sharing implements Belonging (KeepsThePromise): however requests overlap,
\* lists are owned once, by somebody who belongs to them from then on, and
\* only owned lists have members (ClaimList, AddMember and RemoveMember of
\* store.go, and the handlers that call them after reads of their own).
THEOREM Refinement == Spec => KeepsThePromise
<1>1. Spec => Promise!Init
  BY InitPromise DEF Spec
<1>2. Spec => [][Promise!Next]_Circle
  BY Invariance, StepPromise, PTL DEF Spec
<1> QED
  BY <1>1, <1>2, PTL DEF KeepsThePromise, Promise!Spec
=============================================================================
