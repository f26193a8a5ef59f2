------------------------------ MODULE Sharing ------------------------------
(***************************************************************************)
(* The handlers of internal/web/web.go that decide who is on a list, what  *)
(* is in the trash and whose job a task is, as sequences of the statements *)
(* of Store.tla.                                                           *)
(*                                                                         *)
(* Every handler checks first and acts later: it reads the task, the list  *)
(* and the membership (TaskAccess, Access), decides in memory, and then    *)
(* writes.  Up to |Requests| of them run at once, each step of one may be  *)
(* followed by a step of another, and a restart forgets them all.          *)
(***************************************************************************)
EXTENDS Store

CONSTANTS
    Requests,   \* the requests the server works on at once (a bound)
    Handlers    \* the operations clients call in this model (a bound)

ListOps == {"claim", "deleteList", "resetInvite", "remove", "leave", "addTask"}
TaskOps == {"assign", "deleteTask"}
Operations == ListOps \cup TaskOps
              \cup {"createList", "join", "restoreList", "restoreTask"}

ASSUME SharingConstants == Handlers \subseteq Operations

\* Behind manageList, or canManage in the API: "only its owner may take".
ManagerOps == {"deleteList", "resetInvite", "remove"}

\* Served by the API too, where a caller without a token is user 0.
AnonymousOps == {"deleteList", "restoreList", "addTask", "assign",
                 "deleteTask", "restoreTask"}

VARIABLES
    requests    \* requests[r]: what request r is and how far it has got

vars == <<lists, members, tasks, issued, requests>>

Steps == {"idle",
          "invite",      \* ListByInvite
          "task",        \* Task, in TaskAccess or RestoreTask
          "list",        \* the list row, in Access or RestoreList
          "member",      \* the membership, in Access
          "again",       \* Task once more, in AssignTask and DeleteTask
          "assignee",    \* isMember, in AssignTask
          "write",       \* the statement or transaction that acts
          "purgeTasks", "purgeLists"}   \* purgeTrash

Request == [op: Operations \cup {"none"}, step: Steps,
            actor: Actors,                \* whose token it carries
            list: Lists \cup {NoId},
            task: Tasks \cup {NoId},
            target: Actors,               \* member to remove, or assignee
            code: Codes \cup {NoCode},
            owner: Actors]                \* List.OwnerID as this request read it

Idle == [op |-> "none", step |-> "idle", actor |-> Nobody, list |-> NoId,
         task |-> NoId, target |-> Nobody, code |-> NoCode, owner |-> Nobody]

Init == StoreInit /\ requests = [r \in Requests |-> Idle]

----------------------------------------------------------------------------
(* How a request moves on.                                                 *)

At(r, step) == requests[r].step = step
Writing(r, op) == At(r, "write") /\ requests[r].op = op

Goto(r, step) == requests' = [requests EXCEPT ![r].step = step]

\* The response is sent, whether the handler succeeded or gave up.
Finish(r) == requests' = [requests EXCEPT ![r] = Idle]

\* A slip: any member may manage a list.
AnyoneCanManage(q, owner) == TRUE

\* canManage, of the list as this request read it.
CanManage(q, owner) == owner = Nobody \/ owner = q.actor

\* A slip: the API's delete, or the form's reset, without its canManage.
AllowedUnmanaged(q, owner) == q.op = "claim" => owner = Nobody

\* What a handler decides from the list row once Access has granted it.
Allowed(q, owner) ==
    /\ q.op \in ManagerOps => CanManage(q, owner)
    /\ q.op = "claim" => owner = Nobody

\* Access granted: on to the store operation, or an early return.
Proceed(r, owner) ==
    LET q == requests[r] IN
    IF Allowed(q, owner)
    THEN requests' = [requests EXCEPT
             ![r].owner = owner,
             ![r].step = IF q.op \in TaskOps THEN "again" ELSE "write"]
    ELSE Finish(r)

----------------------------------------------------------------------------
(* A request arrives.                                                      *)

\* A slip: a form without its authed wrapper.
MayCallUnsigned(r, op, a) == At(r, "idle") /\ op \in Handlers

MayCall(r, op, a) ==
    /\ At(r, "idle")
    /\ op \in Handlers
    /\ a = Nobody => op \in AnonymousOps

\* The member a request is about: leaving removes oneself.
TargetsOf(op, a) == CASE op = "leave"  -> {a}
                      [] op = "remove" -> Users
                      [] op = "assign" -> Actors
                      [] OTHER         -> {Nobody}

BeginOnList(r, op, a, l) ==
    /\ op \in ListOps \cup {"restoreList"}
    /\ MayCall(r, op, a)
    /\ \E v \in TargetsOf(op, a) :
           requests' = [requests EXCEPT ![r] =
               [Idle EXCEPT !.op = op, !.step = "list", !.actor = a,
                            !.list = l, !.target = v]]
    /\ UNCHANGED db

BeginOnTask(r, op, a, t) ==
    /\ op \in TaskOps \cup {"restoreTask"}
    /\ MayCall(r, op, a)
    /\ \E v \in TargetsOf(op, a) :
           requests' = [requests EXCEPT ![r] =
               [Idle EXCEPT !.op = op, !.step = "task", !.actor = a,
                            !.task = t, !.target = v]]
    /\ UNCHANGED db

BeginJoin(r, u, c) ==
    /\ MayCall(r, "join", u)
    /\ c \in issued
    /\ requests' = [requests EXCEPT ![r] =
           [Idle EXCEPT !.op = "join", !.step = "invite", !.actor = u, !.code = c]]
    /\ UNCHANGED db

\* formCreateList, apiCreateList: no check to go stale, one transaction.
Create(r, u, l, c) ==
    /\ MayCall(r, "createList", u)
    /\ CreateList(l, u, c)
    /\ UNCHANGED requests

----------------------------------------------------------------------------
(* The reads.  One that finds nothing ends the request (404).              *)

\* A slip: the page posts the list's id, and any code it ever had will do.
ReadInviteAnyCode(r) ==
    /\ At(r, "invite")
    /\ \E l \in Lists :
           /\ lists[l].state = "live" /\ ~Public(l)
           /\ requests' = [requests EXCEPT ![r].list = l, ![r].step = "write",
                                           ![r].owner = lists[l].owner]
    /\ UNCHANGED db

\* A slip: AddMember even when the list that was looked up is public.
ReadInviteOfPublic(r) ==
    /\ At(r, "invite")
    /\ \E l \in Lists :
           /\ lists[l].state = "live" /\ lists[l].code = requests[r].code
           /\ requests' = [requests EXCEPT ![r].list = l, ![r].step = "write",
                                           ![r].owner = lists[l].owner]
    /\ UNCHANGED db

\* joinPost, apiJoin: a public list needs no joining.
ReadInvite(r) ==
    /\ At(r, "invite")
    /\ LET found == {l \in Lists : /\ lists[l].state = "live"
                                   /\ lists[l].code = requests[r].code
                                   /\ ~Public(l)}
       IN \/ \E l \in found :
                requests' = [requests EXCEPT ![r].list = l, ![r].step = "write",
                                             ![r].owner = lists[l].owner]
          \/ found = {} /\ Finish(r)
    /\ UNCHANGED db

\* TaskAccess reads a task that is not trashed, RestoreTask one that is.
ReadTask(r) ==
    /\ At(r, "task")
    /\ LET q == requests[r]
           row == tasks[q.task]
           found == IF q.op = "restoreTask" THEN Trashed(row) ELSE row.state = "live"
       IN \/ /\ found
             /\ requests' = [requests EXCEPT ![r].list = row.list, ![r].step = "list"]
          \/ ~found /\ Finish(r)
    /\ UNCHANGED db

\* Access, first half: a list that is not trashed.  A public one is open to all.
ReadList(r) ==
    /\ At(r, "list")
    /\ requests[r].op # "restoreList"
    /\ LET row == lists[requests[r].list]
       IN \/ row.state = "live" /\ row.owner = Nobody /\ Proceed(r, Nobody)
          \/ /\ row.state = "live" /\ row.owner # Nobody
             /\ requests' = [requests EXCEPT ![r].owner = row.owner,
                                             ![r].step = "member"]
          \/ row.state # "live" /\ Finish(r)
    /\ UNCHANGED db

\* Access, second half: the caller belongs to it.
ReadMembership(r) ==
    /\ At(r, "member")
    /\ LET q == requests[r]
       IN \/ IsMember(q.list, q.actor) /\ Proceed(r, q.owner)
          \/ ~IsMember(q.list, q.actor) /\ Finish(r)
    /\ UNCHANGED db

\* RestoreList: a trashed list, its owner's to bring back, or anyone's if public.
ReadTrashedList(r) ==
    /\ At(r, "list")
    /\ requests[r].op = "restoreList"
    /\ LET q == requests[r]
           row == lists[q.list]
           granted == Trashed(row) /\ CanManage(q, row.owner)
       IN \/ granted /\ requests' = [requests EXCEPT ![r].owner = row.owner,
                                                     ![r].step = "write"]
          \/ ~granted /\ Finish(r)
    /\ UNCHANGED db

\* AssignTask and DeleteTask read the task for themselves.
ReadTaskAgain(r) ==
    /\ At(r, "again")
    /\ LET q == requests[r]
           found == tasks[q.task].state = "live"
       IN \/ /\ found
             /\ Goto(r, IF q.op = "assign" /\ q.target # Nobody
                        THEN "assignee" ELSE "write")
          \/ ~found /\ Finish(r)
    /\ UNCHANGED db

\* A slip: the assignee only has to be somebody who may use the list.
ReadAssigneeByAccess(r) ==
    /\ At(r, "assignee")
    /\ LET q == requests[r]
       IN \/ /\ IsMember(q.list, q.target) \/ Public(q.list)
             /\ Goto(r, "write")
          \/ ~IsMember(q.list, q.target) /\ ~Public(q.list) /\ Finish(r)
    /\ UNCHANGED db

\* AssignTask: work is only given to a member (ErrInvalid otherwise).
ReadAssignee(r) ==
    /\ At(r, "assignee")
    /\ LET q == requests[r]
       IN \/ IsMember(q.list, q.target) /\ Goto(r, "write")
          \/ ~IsMember(q.list, q.target) /\ Finish(r)
    /\ UNCHANGED db

----------------------------------------------------------------------------
(* The writes.  One that touches no row (ErrNotFound) or breaks a foreign  *)
(* key changes nothing and ends the request.                               *)

\* joinPost, apiJoin -> AddMember
WriteJoin(r) ==
    /\ Writing(r, "join")
    /\ LET q == requests[r]
       IN \/ AddMember(q.list, q.actor)
          \/ ~Exists(lists[q.list]) /\ UNCHANGED db
    /\ Finish(r)

\* formClaimList -> ClaimList
WriteClaim(r) ==
    /\ Writing(r, "claim")
    /\ LET q == requests[r]
       IN \/ ClaimList(q.list, q.actor)
          \/ ~(Exists(lists[q.list]) /\ Public(q.list)) /\ UNCHANGED db
    /\ Finish(r)

\* formDeleteList, apiDeleteList -> DeleteList, which purges once it has trashed
WriteDeleteList(r) ==
    /\ Writing(r, "deleteList")
    /\ LET l == requests[r].list
       IN \/ TrashList(l) /\ Goto(r, "purgeTasks")
          \/ lists[l].state # "live" /\ UNCHANGED db /\ Finish(r)

\* formRestoreList, apiRestoreList -> RestoreList
WriteRestoreList(r) ==
    /\ Writing(r, "restoreList")
    /\ LET l == requests[r].list
       IN \/ UntrashList(l)
          \/ ~Exists(lists[l]) /\ UNCHANGED db
    /\ Finish(r)

\* formResetInvite -> ResetInvite
WriteResetInvite(r, c) ==
    /\ Writing(r, "resetInvite")
    /\ LET l == requests[r].list
       IN \/ ResetInvite(l, c)
          \/ ~Exists(lists[l]) /\ UNCHANGED db
    /\ Finish(r)

\* formLeaveList, formRemoveMember -> RemoveMember
WriteRemoveMember(r) ==
    /\ \/ Writing(r, "leave")
       \/ Writing(r, "remove")
    /\ LET q == requests[r]
       IN \/ RemoveMember(q.list, q.target)
          \/ /\ q.target \notin members[q.list] \/ q.target = lists[q.list].owner
             /\ UNCHANGED db
    /\ Finish(r)

\* formAddTask, apiAddTask -> AddTask
WriteAddTask(r, t) ==
    /\ Writing(r, "addTask")
    /\ LET l == requests[r].list
       IN \/ AddTask(t, l)
          \/ ~Exists(lists[l]) /\ UNCHANGED db
    /\ Finish(r)

\* formAssignTask, apiPatchTask -> AssignTask; touching no row is no error
WriteAssign(r) ==
    /\ Writing(r, "assign")
    /\ LET q == requests[r]
       IN \/ AssignTask(q.task, q.target)
          \/ tasks[q.task].state # "live" /\ UNCHANGED db
    /\ Finish(r)

\* formDeleteTask, apiDeleteTask -> DeleteTask, which purges once it has trashed
WriteDeleteTask(r) ==
    /\ Writing(r, "deleteTask")
    /\ LET t == requests[r].task
       IN \/ TrashTask(t) /\ Goto(r, "purgeTasks")
          \/ tasks[t].state # "live" /\ UNCHANGED db /\ Finish(r)

\* formRestoreTask -> RestoreTask
WriteRestoreTask(r) ==
    /\ Writing(r, "restoreTask")
    /\ LET t == requests[r].task
       IN \/ UntrashTask(t)
          \/ ~Exists(tasks[t]) /\ UNCHANGED db
    /\ Finish(r)

\* purgeTrash, at the end of DeleteList and DeleteTask
RunPurgeTasks(r) == At(r, "purgeTasks") /\ PurgeTasks /\ Goto(r, "purgeLists")
RunPurgeLists(r) == At(r, "purgeLists") /\ PurgeLists /\ Finish(r)

----------------------------------------------------------------------------
(* The process stops, by a crash or a deploy, and starts again: requests   *)
(* are lost wherever they were, and opening the database purges the trash. *)
Restart ==
    /\ PurgeOnOpen
    /\ requests' = [r \in Requests |-> Idle]

ADayPasses ==
    /\ \/ \E l \in Lists : ListExpires(l)
       \/ \E t \in Tasks : TaskExpires(t)
    /\ UNCHANGED requests

Arrive(r) ==
    \/ \E op \in Operations, a \in Actors :
           \/ \E l \in Lists : BeginOnList(r, op, a, l)
           \/ \E t \in Tasks : BeginOnTask(r, op, a, t)
    \/ \E u \in Users, c \in Codes :
           \/ BeginJoin(r, u, c)
           \/ \E l \in Lists : Create(r, u, l, c)

Read(r) ==
    \/ ReadInvite(r)
    \/ ReadTask(r)
    \/ ReadList(r)
    \/ ReadMembership(r)
    \/ ReadTrashedList(r)
    \/ ReadTaskAgain(r)
    \/ ReadAssignee(r)

Write(r) ==
    \/ WriteJoin(r)
    \/ WriteClaim(r)
    \/ WriteDeleteList(r)
    \/ WriteRestoreList(r)
    \/ \E c \in Codes : WriteResetInvite(r, c)
    \/ WriteRemoveMember(r)
    \/ \E t \in Tasks : WriteAddTask(r, t)
    \/ WriteAssign(r)
    \/ WriteDeleteTask(r)
    \/ WriteRestoreTask(r)
    \/ RunPurgeTasks(r)
    \/ RunPurgeLists(r)

Next ==
    \/ \E r \in Requests : Arrive(r) \/ Read(r) \/ Write(r)
    \/ Restart
    \/ ADayPasses

Spec == Init /\ [][Next]_vars

----------------------------------------------------------------------------
(* Types.                                                                  *)

\* Every table and every request record holds values of its kind.
TypeOK ==
    /\ lists \in [Lists -> ListRow]
    /\ members \in [Lists -> SUBSET Users]
    /\ tasks \in [Tasks -> TaskRow]
    /\ issued \subseteq Codes
    /\ requests \in [Requests -> Request]

----------------------------------------------------------------------------
(* Invariants.                                                             *)

\* "An owned list with no members is invisible to everyone, its owner
\* included" (store.go:625): whoever owns a list belongs to it, however
\* claims, joins, leaves, removals and restarts interleave.
OwnerBelongs ==
    \A l \in Lists : ~Public(l) => lists[l].owner \in members[l]

\* "A public list has no members, so nothing can be assigned in one until
\* somebody claims it" (store.go:977): joining, which reads the list long
\* before it inserts the membership, never adds anyone to a public list, and
\* no task of one is anybody's job.
PublicListsAreNobodys ==
    /\ \A l \in Lists : Public(l) => members[l] = {}
    /\ \A t \in Tasks : tasks[t].assignee # Nobody => ~Public(tasks[t].list)

\* Deleting for good takes everything along: a task or a membership that a
\* stale request writes while its list is being purged is never left behind
\* on a list that is gone (the foreign keys of store.go:151-176).
NoOrphans ==
    /\ \A t \in Tasks : Exists(tasks[t]) => /\ tasks[t].list \in Lists
                                            /\ Exists(lists[tasks[t].list])
    /\ \A l \in Lists : members[l] # {} => Exists(lists[l])

\* "The assignee must be a member of the task's list" (store.go:957) and
\* "removing someone from a list frees whatever was theirs" (README.md:135).
\* True while requests run one at a time; AssignTask checks and writes in two
\* statements, so it fails once they overlap.
AssigneeIsMember ==
    \A t \in Tasks :
        tasks[t].assignee # Nobody => tasks[t].assignee \in members[tasks[t].list]

\* A request that is past its checks and manages a list does so for the
\* list's owner, or read the list while it was still public: the authority
\* a slow request carries can be out of date in that one way only.
AuthorityIsOwnersOrPublic ==
    \A r \in Requests :
        LET q == requests[r] IN
        /\ q.op \in ManagerOps \cup {"restoreList"}
        /\ q.step = "write"
        /\ Exists(lists[q.list])
        => q.owner = Nobody \/ lists[q.list].owner = q.actor

----------------------------------------------------------------------------
(* Action properties: what a step may never do.                            *)

\* The request that takes the current step.
Moves(r) == requests'[r] # requests[r]

\* Of several people claiming a public list at once one wins, and an owner is
\* for life: nothing but purging the list takes it from them (ClaimList's
\* WHERE owner_id IS NULL, inside its transaction).
ClaimsAreFinal ==
    [][\A l \in Lists : ~Public(l) /\ Exists(lists'[l])
                            => lists'[l].owner = lists[l].owner]_vars

\* l is managed in this step: trashed, brought back, or its invite replaced.
Managed(l) ==
    /\ Exists(lists[l]) /\ Exists(lists'[l])
    /\ \/ lists[l].state = "live" /\ lists'[l].state = "trash"
       \/ Trashed(lists[l]) /\ lists'[l].state = "live"
       \/ lists'[l].code # lists[l].code

\* "manageList loads a list for an action only its owner may take"
\* (web.go:1197), and only the owner, or whoever is leaving, takes a member
\* off a list.  The check reads the list and the write does not, so this
\* holds for requests one at a time and fails across a claim.
OnlyOwnerManages ==
    [][\A l \in Lists : ~Public(l) =>
          /\ Managed(l) => \E r \in Requests :
                               Moves(r) /\ requests[r].actor = lists[l].owner
          /\ \A u \in members[l] \ members'[l] :
                 \/ ~Exists(lists'[l])
                 \/ \E r \in Requests :
                        Moves(r) /\ requests[r].actor \in {lists[l].owner, u}]_vars

\* "The owner can ... create a new invite link (which stops the old one
\* working)" (README.md:229): nobody but an owner gets onto a list except with
\* the code it has at that moment.  True one request at a time; joining looks
\* the code up in one statement and adds the member in a later one.
JoinNeedsCurrentInvite ==
    [][\A l \in Lists : \A u \in members'[l] \ members[l] :
          \/ u = lists'[l].owner
          \/ \E r \in Requests : Moves(r) /\ requests[r].code = lists[l].code]_vars

\* "It can be brought back for a day" (store.go:666, 1118): nothing is lost
\* for good unless it, or the list it is on, has been in the trash for a day;
\* in particular nothing that is still visible is.
KeptForADay ==
    [][/\ \A l \in Lists : Exists(lists[l]) /\ ~Exists(lists'[l])
                               => lists[l].state = "expired"
       /\ \A t \in Tasks : Exists(tasks[t]) /\ ~Exists(tasks'[t])
                               => \/ tasks[t].state = "expired"
                                  \/ lists[tasks[t].list].state = "expired"]_vars

----------------------------------------------------------------------------
(* Refinement.                                                             *)

\* Where list l stands, as Belonging sees it.
Stage(row) ==
    CASE row.state = "unmade" -> "none"
      [] row.state = "purged" -> "gone"
      [] OTHER -> IF row.owner = Nobody THEN "public" ELSE "owned"

Circle == [l \in Lists |->
    [stage |-> Stage(lists[l]), owner |-> lists[l].owner, members |-> members[l]]]

Promise == INSTANCE Belonging WITH circle <- Circle

\* The tables and the handlers, with all their overlapping, crashes and purges,
\* keep the promise of Belonging: ownership is taken once, in one step with the
\* owner's membership, and nobody gets onto a list that is everyone's.
KeepsThePromise == Promise!Spec

----------------------------------------------------------------------------
(* The inductive invariant behind the theorems of SharingProofs.           *)

\* What the tables keep to.
ListsKept ==
    \A l \in Lists :
        /\ ~Exists(lists[l]) => Public(l)
        /\ Public(l) => members[l] = {}
        /\ ~Public(l) => lists[l].owner \in members[l]

TasksKept ==
    \A t \in Tasks :
        /\ Exists(tasks[t]) => /\ tasks[t].list \in Lists
                               /\ Exists(lists[tasks[t].list])
        /\ tasks[t].assignee # Nobody => Exists(tasks[t]) /\ ~Public(tasks[t].list)

PastTask == {"list", "member", "again", "assignee", "write"}
PastList == {"member", "again", "assignee", "write"}

\* What a request q may still believe about the list it read, in ls ...
KnowsItsList(q, ls) ==
    /\ q.step \in PastTask => q.list \in Lists
    /\ q.step \in PastList =>
           /\ ls[q.list].state # "unmade"
           /\ q.owner # Nobody /\ Exists(ls[q.list]) => ls[q.list].owner = q.owner
    /\ q.op = "join" /\ q.step = "write" => q.owner # Nobody
    /\ q.op \in ManagerOps \cup {"restoreList"} /\ q.step = "write"
           => q.owner \in {Nobody, q.actor}

\* ... about the task it read, in ts ...
KnowsItsTask(q, ls, ts) ==
    /\ q.op \in TaskOps \cup {"restoreTask"} /\ q.step # "idle" => q.task \in Tasks
    /\ q.op \in TaskOps \cup {"restoreTask"} /\ q.step \in PastTask =>
           /\ ts[q.task].state # "unmade"
           /\ Exists(ts[q.task]) => ts[q.task].list = q.list
    /\ q.op = "assign" /\ q.step = "write" /\ q.target # Nobody
           /\ Exists(ls[q.list]) => ls[q.list].owner # Nobody

\* ... and about itself.
KnowsItself(q) ==
    /\ q.op \in {"claim", "join"} => q.actor \in Users
    /\ q.step = "again" => q.op \in TaskOps
    /\ q.step = "assignee" => q.op = "assign"
    /\ q.step = "invite" => q.op = "join"
    /\ q.step = "list" => q.op # "join"
    /\ q.step = "member" => q.op \notin {"join", "restoreList"}
    /\ q.step = "task" => q.op \in TaskOps \cup {"restoreTask"}

KnowsAll(q, ls, ts) ==
    KnowsItsList(q, ls) /\ KnowsItsTask(q, ls, ts) /\ KnowsItself(q)

RequestsKept == \A r \in Requests : KnowsAll(requests[r], lists, tasks)

\* Everything above at once: what is true before a step makes it true after.
IInv == TypeOK /\ ListsKept /\ TasksKept /\ RequestsKept

=============================================================================
