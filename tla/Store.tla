------------------------------- MODULE Store -------------------------------
(***************************************************************************)
(* The tables of internal/store/store.go that decide who may see and do    *)
(* what: lists (their owner, invite code and trash mark), list_members,    *)
(* and tasks (their list, assignee and trash mark).                        *)
(*                                                                         *)
(* SQLite runs one statement, or one call of Store.tx, at a time, and a    *)
(* request may be overtaken between two of its statements.  So each action *)
(* operator below is ONE statement or ONE transaction: its guard is what   *)
(* makes it affect a row (or pass the foreign-key check), its effect is    *)
(* the whole write.  Sharing.tla strings them together into handlers.      *)
(*                                                                         *)
(* Row ids are AUTOINCREMENT and never reused: a list or a task goes from  *)
(* "unmade" to "live", back and forth between "live" and the trash, and    *)
(* ends as "purged".  The age of a trashed row is kept to what purgeTrash  *)
(* can tell apart: "trash" is younger than trashRetention (a day),         *)
(* "expired" is older.  Names, titles and dates are left out.              *)
(***************************************************************************)

CONSTANTS
    Users,      \* registered people (users.id)
    Lists,      \* list ids
    Tasks,      \* task ids
    Codes,      \* invite codes; each is handed out once
    Nobody,     \* user id 0: no owner, no assignee, an anonymous caller
    NoCode,     \* the code of a list that does not exist
    NoId        \* id 0: no list, no task

ASSUME StoreConstants ==
    /\ Nobody \notin Users
    /\ NoCode \notin Codes
    /\ NoId \notin Lists

VARIABLES
    lists,      \* lists[l]: state, owner (Nobody = public) and invite code
    members,    \* members[l]: the user ids in list_members
    tasks,      \* tasks[t]: state, list and assignee
    issued      \* every invite code ever generated (newInviteCode is random)

db == <<lists, members, tasks, issued>>

Actors == Users \cup {Nobody}

States == {"unmade", "live", "trash", "expired", "purged"}

ListRow == [state: States, owner: Actors, code: Codes \cup {NoCode}]
TaskRow == [state: States, list: Lists \cup {NoId}, assignee: Actors]

AbsentList(state) == [state |-> state, owner |-> Nobody, code |-> NoCode]
AbsentTask(state) == [state |-> state, list |-> NoId, assignee |-> Nobody]

Trashed(row) == row.state \in {"trash", "expired"}
Exists(row) == row.state = "live" \/ Trashed(row)

(***************************************************************************)
(* A fresh database is empty.  One that predates sharing holds lists with  *)
(* no owner, and migrate has given each of them a code of its own.         *)
(***************************************************************************)
StoreInit ==
    /\ lists \in [Lists -> {AbsentList("unmade")}
                           \cup [state: {"live"}, owner: {Nobody}, code: Codes]]
    /\ \A l, k \in Lists :
           l # k /\ lists[l].state = "live" => lists[l].code # lists[k].code
    /\ members = [l \in Lists |-> {}]
    /\ tasks = [t \in Tasks |-> AbsentTask("unmade")]
    /\ issued = {lists[l].code : l \in Lists} \ {NoCode}

----------------------------------------------------------------------------
(* Reads the handlers base their decisions on.                             *)

Public(l) == lists[l].owner = Nobody

\* isMember: SELECT COUNT(*) FROM list_members
IsMember(l, u) == u \in members[l]

\* A slip: purging whatever is in the trash, however new.
TrashedTasks == {t \in Tasks : Trashed(tasks[t])}

ExpiredTasks == {t \in Tasks : tasks[t].state = "expired"}
ExpiredLists == {l \in Lists : lists[l].state = "expired"}
TasksOn(ls) == {t \in Tasks : Exists(tasks[t]) /\ tasks[t].list \in ls}

----------------------------------------------------------------------------
(* Statements and transactions on lists and members.                       *)

\* CreateList: the row and its owner's membership, in one transaction.
CreateList(l, u, c) ==
    /\ lists[l].state = "unmade"
    /\ c \notin issued
    /\ lists' = [lists EXCEPT ![l] = [state |-> "live", owner |-> u, code |-> c]]
    /\ members' = [members EXCEPT ![l] = {u}]
    /\ issued' = issued \cup {c}
    /\ UNCHANGED tasks

\* A slip: claiming without WHERE owner_id IS NULL.
ClaimListAnyway(l, u) ==
    /\ Exists(lists[l])
    /\ lists' = [lists EXCEPT ![l].owner = u]
    /\ members' = [members EXCEPT ![l] = @ \cup {u}]
    /\ UNCHANGED <<tasks, issued>>

\* ClaimList: UPDATE ... WHERE owner_id IS NULL and the membership, in one
\* transaction that is rolled back when the UPDATE touches no row.
ClaimList(l, u) ==
    /\ Exists(lists[l])
    /\ Public(l)
    /\ lists' = [lists EXCEPT ![l].owner = u]
    /\ members' = [members EXCEPT ![l] = @ \cup {u}]
    /\ UNCHANGED <<tasks, issued>>

\* DeleteList: UPDATE ... SET deleted_at WHERE deleted_at IS NULL
TrashList(l) ==
    /\ lists[l].state = "live"
    /\ lists' = [lists EXCEPT ![l].state = "trash"]
    /\ UNCHANGED <<members, tasks, issued>>

\* RestoreList: UPDATE ... SET deleted_at = NULL WHERE id = ?
UntrashList(l) ==
    /\ Exists(lists[l])
    /\ lists' = [lists EXCEPT ![l].state = "live"]
    /\ UNCHANGED <<members, tasks, issued>>

\* ResetInvite: UPDATE ... SET invite_code, to a code never used before
ResetInvite(l, c) ==
    /\ Exists(lists[l])
    /\ c \notin issued
    /\ lists' = [lists EXCEPT ![l].code = c]
    /\ issued' = issued \cup {c}
    /\ UNCHANGED <<members, tasks>>

\* AddMember: INSERT OR IGNORE; the foreign key refuses a list that is gone.
AddMember(l, u) ==
    /\ Exists(lists[l])
    /\ members' = [members EXCEPT ![l] = @ \cup {u}]
    /\ UNCHANGED <<lists, tasks, issued>>

\* A slip: nothing keeps the owner from being removed.
RemoveAnyMember(l, u) ==
    /\ u \in members[l]
    /\ members' = [members EXCEPT ![l] = @ \ {u}]
    /\ tasks' = [t \in Tasks |->
                    IF tasks[t].list = l /\ tasks[t].assignee = u
                    THEN [tasks[t] EXCEPT !.assignee = Nobody]
                    ELSE tasks[t]]
    /\ UNCHANGED <<lists, issued>>

\* A slip: the assignments in the trash stay, to come back with an undo.
RemoveMemberFromLiveTasks(l, u) ==
    /\ u \in members[l]
    /\ u # lists[l].owner
    /\ members' = [members EXCEPT ![l] = @ \ {u}]
    /\ tasks' = [t \in Tasks |->
                    IF /\ tasks[t].state = "live"
                       /\ tasks[t].list = l /\ tasks[t].assignee = u
                    THEN [tasks[t] EXCEPT !.assignee = Nobody]
                    ELSE tasks[t]]
    /\ UNCHANGED <<lists, issued>>

\* RemoveMember's transaction: the membership goes, unless it is the owner's,
\* and with it every assignment on the list, trashed tasks included.
RemoveMember(l, u) ==
    /\ u \in members[l]
    /\ u # lists[l].owner
    /\ members' = [members EXCEPT ![l] = @ \ {u}]
    /\ tasks' = [t \in Tasks |->
                    IF tasks[t].list = l /\ tasks[t].assignee = u
                    THEN [tasks[t] EXCEPT !.assignee = Nobody]
                    ELSE tasks[t]]
    /\ UNCHANGED <<lists, issued>>

----------------------------------------------------------------------------
(* Statements on tasks.                                                    *)

\* A slip: the foreign keys are not switched on for this connection.
AddTaskUnchecked(t, l) ==
    /\ tasks[t].state = "unmade"
    /\ tasks' = [tasks EXCEPT ![t] = [state |-> "live", list |-> l,
                                      assignee |-> Nobody]]
    /\ UNCHANGED <<lists, members, issued>>

\* AddTask: INSERT; the foreign key refuses a list that is gone, but not one
\* in the trash.
AddTask(t, l) ==
    /\ tasks[t].state = "unmade"
    /\ Exists(lists[l])
    /\ tasks' = [tasks EXCEPT ![t] = [state |-> "live", list |-> l,
                                      assignee |-> Nobody]]
    /\ UNCHANGED <<lists, members, issued>>

\* AssignTask: UPDATE ... SET assigned_to WHERE deleted_at IS NULL
AssignTask(t, u) ==
    /\ tasks[t].state = "live"
    /\ tasks' = [tasks EXCEPT ![t].assignee = u]
    /\ UNCHANGED <<lists, members, issued>>

\* DeleteTask: UPDATE ... SET deleted_at WHERE deleted_at IS NULL
TrashTask(t) ==
    /\ tasks[t].state = "live"
    /\ tasks' = [tasks EXCEPT ![t].state = "trash"]
    /\ UNCHANGED <<lists, members, issued>>

\* RestoreTask: UPDATE ... SET deleted_at = NULL WHERE id = ?
UntrashTask(t) ==
    /\ Exists(tasks[t])
    /\ tasks' = [tasks EXCEPT ![t].state = "live"]
    /\ UNCHANGED <<lists, members, issued>>

----------------------------------------------------------------------------
(* purgeTrash is two statements: expired tasks, then expired lists, whose  *)
(* members and tasks go by ON DELETE CASCADE.                              *)

Destroy(ts, ls) ==
    /\ tasks' = [t \in Tasks |-> IF t \in ts THEN AbsentTask("purged") ELSE tasks[t]]
    /\ lists' = [l \in Lists |-> IF l \in ls THEN AbsentList("purged") ELSE lists[l]]
    /\ members' = [l \in Lists |-> IF l \in ls THEN {} ELSE members[l]]
    /\ UNCHANGED issued

PurgeTasks == Destroy(ExpiredTasks, {})
PurgeLists == Destroy(TasksOn(ExpiredLists), ExpiredLists)

\* Open -> migrate -> purgeTrash, before anything else can use the database.
PurgeOnOpen == Destroy(ExpiredTasks \cup TasksOn(ExpiredLists), ExpiredLists)

\* A day passes since a row was put in the trash.
ListExpires(l) ==
    /\ lists[l].state = "trash"
    /\ lists' = [lists EXCEPT ![l].state = "expired"]
    /\ UNCHANGED <<members, tasks, issued>>

TaskExpires(t) ==
    /\ tasks[t].state = "trash"
    /\ tasks' = [tasks EXCEPT ![t].state = "expired"]
    /\ UNCHANGED <<lists, members, issued>>

=============================================================================
