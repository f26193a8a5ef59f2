--------------------------- MODULE SharingProofs ---------------------------
(***************************************************************************)
(* What Sharing guarantees for any number of users, lists, tasks, codes    *)
(* and concurrent requests.  The invariant IInv (in Sharing) is shown to   *)
(* hold initially and to survive every step; the theorems at the end read  *)
(* the properties off it.                                                  *)
(*                                                                         *)
(* A write of one request meets two obligations: the tables keep their own *)
(* invariant (TablesKept), and no row changes in a way another request,    *)
(* which has read it, does not expect (RowsKept).  The first part proves   *)
(* both for each statement of Store; the second adds the requests.  What   *)
(* holds only of requests that do not overlap, or that take nobody off a   *)
(* list, comes last.                                                       *)
(***************************************************************************)
EXTENDS Sharing, TLAPS

TablesTyped ==
    /\ lists \in [Lists -> ListRow]
    /\ members \in [Lists -> SUBSET Users]
    /\ tasks \in [Tasks -> TaskRow]
    /\ issued \subseteq Codes

TablesKept == TablesTyped /\ ListsKept /\ TasksKept

\* A row that was once made is not unmade, a purged one does not come back,
\* an owner stays, and a task stays on its list.
RowsKept ==
    /\ \A l \in Lists : lists[l].state # "unmade" =>
           /\ lists'[l].state # "unmade"
           /\ Exists(lists'[l]) => Exists(lists[l])
           /\ Exists(lists'[l]) /\ ~Public(l) => lists'[l].owner = lists[l].owner
    /\ \A t \in Tasks : tasks[t].state # "unmade" =>
           /\ tasks'[t].state # "unmade"
           /\ Exists(tasks'[t]) => Exists(tasks[t]) /\ tasks'[t].list = tasks[t].list

----------------------------------------------------------------------------
(* Statements on lists and members.                                        *)

\* A new list comes with its owner's membership (CreateList's transaction).
LEMMA CreateListKeeps ==
    ASSUME TablesKept, NEW l \in Lists, NEW u \in Users, NEW c \in Codes,
           CreateList(l, u, c)
    PROVE  TablesKept' /\ RowsKept
<1> USE StoreConstants DEF TablesKept, CreateList
<1>1. TablesTyped'
  BY DEF TablesTyped, ListRow, States, Actors
<1>2. ListsKept'
  BY DEF TablesTyped, ListsKept, Exists, Trashed, Public, ListRow, States, Actors
<1>3. TasksKept'
  BY DEF TablesTyped, TasksKept, Exists, Trashed, Public, ListRow, TaskRow, States, Actors
<1>4. RowsKept
  BY DEF TablesTyped, RowsKept, Exists, Trashed, Public, ListRow, States, Actors
<1> QED
  BY <1>1, <1>2, <1>3, <1>4

\* Claiming sets the owner and adds them in one transaction.
LEMMA ClaimListKeeps ==
    ASSUME TablesKept, NEW l \in Lists, NEW u \in Users, ClaimList(l, u)
    PROVE  TablesKept' /\ RowsKept
<1> USE StoreConstants DEF TablesKept, ClaimList
<1>1. TablesTyped'
  BY DEF TablesTyped, ListRow, States, Actors
<1>2. ListsKept'
  BY DEF TablesTyped, ListsKept, Exists, Trashed, Public, ListRow, States, Actors
<1>3. TasksKept'
  BY DEF TablesTyped, TasksKept, Exists, Trashed, Public, ListRow, TaskRow, States, Actors
<1>4. RowsKept
  BY DEF TablesTyped, RowsKept, Exists, Trashed, Public, ListRow, States, Actors
<1> QED
  BY <1>1, <1>2, <1>3, <1>4

\* The statements that only touch a list's trash mark or its code.
LEMMA ListMarkKeeps ==
    ASSUME TablesKept, NEW l \in Lists,
           \/ TrashList(l) \/ UntrashList(l) \/ ListExpires(l)
           \/ \E c \in Codes : ResetInvite(l, c)
    PROVE  TablesKept' /\ RowsKept
<1> USE DEF TablesKept, TrashList, UntrashList, ListExpires, ResetInvite
<1>1. TablesTyped'
  BY DEF TablesTyped, ListRow, States
<1>2. ListsKept'
  BY DEF TablesTyped, ListsKept, Exists, Trashed, Public, ListRow
<1>3. TasksKept'
  BY DEF TablesTyped, TasksKept, Exists, Trashed, Public, ListRow, TaskRow
<1>4. RowsKept
  BY DEF TablesTyped, RowsKept, Exists, Trashed, Public, ListRow
<1> QED
  BY <1>1, <1>2, <1>3, <1>4

\* A public list stays without members because whoever joins read an owner.
LEMMA AddMemberKeeps ==
    ASSUME TablesKept, NEW l \in Lists, NEW u \in Users, AddMember(l, u), ~Public(l)
    PROVE  TablesKept' /\ RowsKept
<1> USE DEF TablesKept, AddMember
<1>1. TablesTyped'
  BY DEF TablesTyped
<1>2. ListsKept'
  BY DEF TablesTyped, ListsKept, Exists, Trashed, Public
<1>3. TasksKept' /\ RowsKept
  BY DEF TasksKept, RowsKept, Exists, Trashed, Public
<1> QED
  BY <1>1, <1>2, <1>3

\* Removing somebody never takes the owner, so an owned list keeps them.
LEMMA RemoveMemberKeeps ==
    ASSUME TablesKept, NEW l \in Lists, NEW u, RemoveMember(l, u)
    PROVE  TablesKept' /\ RowsKept
<1> USE DEF TablesKept, RemoveMember
<1>1. TablesTyped'
  BY DEF TablesTyped, TaskRow, Actors
<1>2. ListsKept'
  BY DEF TablesTyped, ListsKept, Exists, Trashed, Public
<1>3. TasksKept'
  BY DEF TablesTyped, TasksKept, Exists, Trashed, Public, TaskRow
<1>4. RowsKept
  BY DEF TablesTyped, RowsKept, Exists, Trashed, Public, TaskRow
<1> QED
  BY <1>1, <1>2, <1>3, <1>4

----------------------------------------------------------------------------
(* Statements on tasks, and the purge.                                     *)

\* A new task goes on a list that exists, and is nobody's job.
LEMMA AddTaskKeeps ==
    ASSUME TablesKept, NEW t \in Tasks, NEW l \in Lists, AddTask(t, l)
    PROVE  TablesKept' /\ RowsKept
<1> USE DEF TablesKept, AddTask
<1>1. TablesTyped'
  BY DEF TablesTyped, TaskRow, States, Actors
<1>2. ListsKept'
  BY DEF ListsKept, Exists, Trashed, Public
<1>3. TasksKept'
  BY DEF TablesTyped, TasksKept, Exists, Trashed, Public, TaskRow
<1>4. RowsKept
  BY DEF TablesTyped, RowsKept, Exists, Trashed, Public, TaskRow
<1> QED
  BY <1>1, <1>2, <1>3, <1>4

\* Work is only written to a list that is still public if it is nobody's.
LEMMA AssignTaskKeeps ==
    ASSUME TablesKept, NEW t \in Tasks, NEW u \in Actors, AssignTask(t, u),
           u # Nobody => ~Public(tasks[t].list)
    PROVE  TablesKept' /\ RowsKept
<1> USE DEF TablesKept, AssignTask
<1>1. TablesTyped'
  BY DEF TablesTyped, TaskRow, States
<1>2. ListsKept'
  BY DEF ListsKept, Exists, Trashed, Public
<1>3. TasksKept'
  BY DEF TablesTyped, TasksKept, Exists, Trashed, Public, TaskRow
<1>4. RowsKept
  BY DEF TablesTyped, RowsKept, Exists, Trashed, Public, TaskRow
<1> QED
  BY <1>1, <1>2, <1>3, <1>4

\* The statements that only touch a task's trash mark.
LEMMA TaskMarkKeeps ==
    ASSUME TablesKept, NEW t \in Tasks,
           TrashTask(t) \/ UntrashTask(t) \/ TaskExpires(t)
    PROVE  TablesKept' /\ RowsKept
<1> USE DEF TablesKept, TrashTask, UntrashTask, TaskExpires
<1>1. TablesTyped'
  BY DEF TablesTyped, TaskRow, States
<1>2. ListsKept'
  BY DEF ListsKept, Exists, Trashed, Public
<1>3. TasksKept'
  BY DEF TablesTyped, TasksKept, Exists, Trashed, Public, TaskRow
<1>4. RowsKept
  BY DEF TablesTyped, RowsKept, Exists, Trashed, Public, TaskRow
<1> QED
  BY <1>1, <1>2, <1>3, <1>4

\* Rows may be destroyed if they exist and no task outlives its list.
LEMMA DestroyKeeps ==
    ASSUME TablesKept, NEW ts \in SUBSET Tasks, NEW ls \in SUBSET Lists,
           Destroy(ts, ls), TasksOn(ls) \subseteq ts
    PROVE  TablesKept' /\ RowsKept
<1> USE StoreConstants DEF TablesKept, Destroy, AbsentTask, AbsentList
<1>1. TablesTyped'
  BY DEF TablesTyped, ListRow, TaskRow, States, Actors
<1>2. ListsKept'
  BY DEF TablesTyped, ListsKept, Exists, Trashed, Public
<1>3. TasksKept'
  BY DEF TablesTyped, TasksKept, TasksOn, Exists, Trashed, Public, TaskRow
<1>4. RowsKept
  BY DEF TablesTyped, RowsKept, Exists, Trashed, Public, TaskRow
<1> QED
  BY <1>1, <1>2, <1>3, <1>4

\* Each statement of purgeTrash, and both at once, keep the tables.
LEMMA PurgeKeeps ==
    ASSUME TablesKept, PurgeTasks \/ PurgeLists \/ PurgeOnOpen
    PROVE  TablesKept' /\ RowsKept
<1>1. /\ TasksOn({}) \subseteq ExpiredTasks
      /\ ExpiredTasks \subseteq Tasks
      /\ ExpiredLists \subseteq Lists
      /\ TasksOn(ExpiredLists) \subseteq Tasks
  BY DEF TasksOn, ExpiredTasks, ExpiredLists
<1>2. CASE PurgeTasks
  BY <1>1, <1>2, DestroyKeeps DEF PurgeTasks
<1>3. CASE PurgeLists
  BY <1>1, <1>3, DestroyKeeps DEF PurgeLists
<1>4. CASE PurgeOnOpen
  BY <1>1, <1>4, DestroyKeeps DEF PurgeOnOpen
<1> QED
  BY <1>2, <1>3, <1>4

\* No statement at all.
LEMMA UnchangedKeeps ==
    ASSUME TablesKept, UNCHANGED db
    PROVE  TablesKept' /\ RowsKept
BY DEF db, TablesKept, TablesTyped, ListsKept, TasksKept, RowsKept,
       Exists, Trashed, Public

----------------------------------------------------------------------------
(* Requests.                                                               *)

\* What a request knows survives any change that keeps the rows.
LEMMA KnowledgeLasts ==
    ASSUME RowsKept, NEW q, KnowsAll(q, lists, tasks)
    PROVE  KnowsAll(q, lists', tasks')
<1>1. KnowsItsList(q, lists')
  BY DEF KnowsAll, KnowsItsList, RowsKept, PastTask, PastList, Public
<1>2. q.op \in TaskOps \cup {"restoreTask"} /\ q.step \in PastTask =>
          /\ tasks'[q.task].state # "unmade"
          /\ Exists(tasks'[q.task]) => tasks'[q.task].list = q.list
  BY DEF KnowsAll, KnowsItsTask, RowsKept, PastTask
<1>3. q.op = "assign" /\ q.step = "write" /\ q.target # Nobody
      /\ Exists(lists'[q.list]) => lists'[q.list].owner # Nobody
  BY DEF KnowsAll, KnowsItsTask, KnowsItsList, RowsKept, PastTask, PastList, Public
<1> QED
  BY <1>1, <1>2, <1>3 DEF KnowsAll, KnowsItsTask

\* A step of one request: the tables are kept, and the request becomes q.
LEMMA OneRequestMoves ==
    ASSUME IInv, TablesKept', RowsKept, NEW r \in Requests, NEW q \in Request,
           requests' = [requests EXCEPT ![r] = q],
           KnowsAll(q, lists', tasks')
    PROVE  IInv' /\ RowsKept
<1>1. TypeOK'
  BY DEF IInv, TypeOK, TablesKept, TablesTyped
<1>2. ASSUME NEW k \in Requests
      PROVE  KnowsAll(requests'[k], lists', tasks')
  <2>1. CASE k = r
    BY <2>1 DEF IInv, TypeOK
  <2>2. CASE k # r
    <3>1. requests'[k] = requests[k] /\ KnowsAll(requests[k], lists, tasks)
      BY <2>2 DEF IInv, TypeOK, RequestsKept
    <3> QED
      BY <3>1, KnowledgeLasts
  <2> QED
    BY <2>1, <2>2
<1>3. RequestsKept'
  BY <1>2 DEF RequestsKept
<1> QED
  BY <1>1, <1>3 DEF IInv, TablesKept

\* A request that is answered knows nothing any more.
LEMMA IdleKnows ==
    Idle \in Request /\ \A ls, ts : KnowsAll(Idle, ls, ts)
BY DEF Idle, Request, Operations, ListOps, TaskOps, ManagerOps, Steps, Actors,
       KnowsAll, KnowsItsList, KnowsItsTask, KnowsItself, PastTask, PastList

\* Answering a request breaks nothing.
LEMMA FinishKeeps ==
    ASSUME IInv, TablesKept', RowsKept, NEW r \in Requests, Finish(r)
    PROVE  IInv' /\ RowsKept
BY OneRequestMoves, IdleKnows DEF Finish

\* A request that goes on to the purge only remembers what it is.
LEMMA PurgeStepKeeps ==
    ASSUME IInv, TablesKept', RowsKept, NEW r \in Requests,
           NEW step \in {"purgeTasks", "purgeLists"},
           requests[r].step # "idle", Goto(r, step)
    PROVE  IInv' /\ RowsKept
<1> DEFINE q == [requests[r] EXCEPT !.step = step]
<1>1. requests[r] \in Request /\ KnowsAll(requests[r], lists, tasks)
  BY DEF IInv, TypeOK, RequestsKept
<1>2. q \in Request
  BY <1>1 DEF Request, Steps
<1>3. KnowsAll(q, lists', tasks')
  BY <1>1 DEF Request, KnowsAll, KnowsItsList, KnowsItsTask, KnowsItself,
              PastTask, PastList
<1>4. requests' = [requests EXCEPT ![r] = q]
  BY DEF Goto, IInv, TypeOK
<1> HIDE DEF q
<1> QED
  BY <1>2, <1>3, <1>4, OneRequestMoves

----------------------------------------------------------------------------
(* Arrivals and reads leave the tables alone.                              *)

\* The tables have not changed and request r becomes q.
LEMMA ReadKeeps ==
    ASSUME IInv, UNCHANGED db, NEW r \in Requests, NEW q \in Request,
           requests' = [requests EXCEPT ![r] = q],
           KnowsAll(q, lists, tasks)
    PROVE  IInv' /\ RowsKept
<1>1. TablesKept
  BY DEF IInv, TypeOK, TablesKept, TablesTyped
<1> QED
  BY <1>1, UnchangedKeeps, OneRequestMoves DEF db

\* A read that finds nothing ends the request.
LEMMA ReadFinishKeeps ==
    ASSUME IInv, UNCHANGED db, NEW r \in Requests, Finish(r)
    PROVE  IInv' /\ RowsKept
BY ReadKeeps, IdleKnows DEF Finish

\* A request that has just come in claims to know nothing.
LEMMA ArriveKeeps ==
    ASSUME IInv, NEW r \in Requests, Arrive(r)
    PROVE  IInv' /\ RowsKept
<1> USE DEF Request, Idle, Operations, ListOps, TaskOps, ManagerOps, AnonymousOps,
            Steps, Actors
<1>1. ASSUME NEW op \in Operations, NEW a \in Actors, NEW l \in Lists,
             BeginOnList(r, op, a, l)
      PROVE  IInv' /\ RowsKept
  <2>1. PICK v \in TargetsOf(op, a) :
            requests' = [requests EXCEPT ![r] =
               [Idle EXCEPT !.op = op, !.step = "list", !.actor = a,
                            !.list = l, !.target = v]]
    BY <1>1 DEF BeginOnList
  <2> DEFINE q == [Idle EXCEPT !.op = op, !.step = "list", !.actor = a,
                               !.list = l, !.target = v]
  <2>2. v \in Actors
    BY DEF TargetsOf
  <2>3. q \in Request
    BY <2>2
  <2>4. KnowsAll(q, lists, tasks)
    BY <1>1 DEF BeginOnList, MayCall, KnowsAll, KnowsItsList, KnowsItsTask,
                KnowsItself, PastTask, PastList
  <2> HIDE DEF q
  <2> QED
    BY <1>1, <2>1, <2>3, <2>4, ReadKeeps DEF BeginOnList, q
<1>2. ASSUME NEW op \in Operations, NEW a \in Actors, NEW t \in Tasks,
             BeginOnTask(r, op, a, t)
      PROVE  IInv' /\ RowsKept
  <2>1. PICK v \in TargetsOf(op, a) :
            requests' = [requests EXCEPT ![r] =
               [Idle EXCEPT !.op = op, !.step = "task", !.actor = a,
                            !.task = t, !.target = v]]
    BY <1>2 DEF BeginOnTask
  <2> DEFINE q == [Idle EXCEPT !.op = op, !.step = "task", !.actor = a,
                               !.task = t, !.target = v]
  <2>2. v \in Actors
    BY DEF TargetsOf
  <2>3. q \in Request
    BY <2>2
  <2>4. KnowsAll(q, lists, tasks)
    BY <1>2 DEF BeginOnTask, MayCall, KnowsAll, KnowsItsList, KnowsItsTask,
                KnowsItself, PastTask, PastList
  <2> HIDE DEF q
  <2> QED
    BY <1>2, <2>1, <2>3, <2>4, ReadKeeps DEF BeginOnTask, q
<1>3. ASSUME NEW u \in Users, NEW c \in Codes, BeginJoin(r, u, c)
      PROVE  IInv' /\ RowsKept
  <2> DEFINE q == [Idle EXCEPT !.op = "join", !.step = "invite", !.actor = u,
                               !.code = c]
  <2>1. q \in Request /\ KnowsAll(q, lists, tasks)
    BY DEF KnowsAll, KnowsItsList, KnowsItsTask, KnowsItself, PastTask, PastList
  <2>2. requests' = [requests EXCEPT ![r] = q] /\ UNCHANGED db
    BY <1>3 DEF BeginJoin
  <2> HIDE DEF q
  <2> QED
    BY <2>1, <2>2, ReadKeeps
<1>4. ASSUME NEW u \in Users, NEW l \in Lists, NEW c \in Codes, Create(r, u, l, c)
      PROVE  IInv' /\ RowsKept
  <2>1. TablesKept' /\ RowsKept
    BY <1>4, CreateListKeeps DEF Create, IInv, TypeOK, TablesKept, TablesTyped
  <2>2. requests' = [requests EXCEPT ![r] = requests[r]]
    BY <1>4 DEF Create, IInv, TypeOK
  <2>3. KnowsAll(requests[r], lists', tasks')
    BY <2>1, KnowledgeLasts DEF IInv, RequestsKept
  <2>4. requests[r] \in Request
    BY DEF IInv, TypeOK
  <2> QED
    BY <2>1, <2>2, <2>3, <2>4, OneRequestMoves
<1> QED
  BY <1>1, <1>2, <1>3, <1>4 DEF Arrive

\* What the invariant says of the request that moves.
LEMMA MoverKnows ==
    ASSUME IInv, NEW r \in Requests
    PROVE  /\ requests[r] \in Request
           /\ KnowsAll(requests[r], lists, tasks)
BY DEF IInv, TypeOK, RequestsKept

\* Access is granted with an owner that was read from the list.
LEMMA ProceedKeeps ==
    ASSUME IInv, UNCHANGED db, NEW r \in Requests, NEW owner \in Actors,
           requests[r].step \in {"list", "member"},
           requests[r].op # "restoreList",
           requests[r].op # "join",
           lists[requests[r].list].state # "unmade",
           owner # Nobody /\ Exists(lists[requests[r].list])
               => lists[requests[r].list].owner = owner,
           Proceed(r, owner)
    PROVE  IInv' /\ RowsKept
<1> DEFINE q == requests[r]
           step == IF q.op \in TaskOps THEN "again" ELSE "write"
           p == [q EXCEPT !.owner = owner, !.step = step]
<1>1. q \in Request /\ KnowsAll(q, lists, tasks)
  BY MoverKnows
<1>2. CASE Allowed(q, owner)
  <2>1. p \in Request
    BY <1>1 DEF Request, Steps
  <2>2. /\ p.owner = owner /\ p.step = step /\ p.op = q.op /\ p.list = q.list
        /\ p.task = q.task /\ p.target = q.target /\ p.actor = q.actor
    BY <1>1 DEF Request
  <2> HIDE DEF p
  <2>3. KnowsItsList(p, lists)
    BY <1>1, <1>2, <2>2 DEF KnowsAll, KnowsItsList, PastTask, PastList,
                            Allowed, CanManage
  <2>4. KnowsItsTask(p, lists, tasks) /\ KnowsItself(p)
    BY <1>1, <2>2 DEF KnowsAll, KnowsItsTask, KnowsItself, PastTask, TaskOps
  <2>5. requests' = [requests EXCEPT ![r] = p]
    BY <1>2 DEF Proceed, IInv, TypeOK, p
  <2> QED
    BY <2>1, <2>3, <2>4, <2>5, ReadKeeps DEF KnowsAll
<1>3. CASE ~Allowed(q, owner)
  BY <1>3, ReadFinishKeeps DEF Proceed
<1> QED
  BY <1>2, <1>3

\* Every read leaves its request with knowledge that is true when it is made.
LEMMA ReadKeepsIInv ==
    ASSUME IInv, NEW r \in Requests, Read(r)
    PROVE  IInv' /\ RowsKept
<1> DEFINE q == requests[r]
<1>1. q \in Request /\ KnowsAll(q, lists, tasks)
  BY MoverKnows
<1>2. lists \in [Lists -> ListRow] /\ tasks \in [Tasks -> TaskRow]
  BY DEF IInv, TypeOK
<1>3. CASE Finish(r) /\ UNCHANGED db
  BY <1>3, ReadFinishKeeps
<1>4. ASSUME ReadInvite(r), ~Finish(r)
      PROVE  IInv' /\ RowsKept
  <2>1. PICK l \in Lists :
            /\ lists[l].state = "live" /\ ~Public(l)
            /\ requests' = [requests EXCEPT ![r].list = l, ![r].step = "write",
                                            ![r].owner = lists[l].owner]
    BY <1>4 DEF ReadInvite
  <2> DEFINE p == [q EXCEPT !.list = l, !.step = "write", !.owner = lists[l].owner]
  <2>2. p \in Request
    BY <1>1, <1>2 DEF Request, ListRow, Steps
  <2>3. q.op = "join" /\ q.step = "invite"
    BY <1>1, <1>4 DEF ReadInvite, At, KnowsAll, KnowsItself
  <2>4. KnowsAll(p, lists, tasks)
    BY <1>1, <2>1, <2>3 DEF Request, KnowsAll, KnowsItsList, KnowsItsTask, KnowsItself,
         PastTask, PastList, Public, ManagerOps, TaskOps
  <2>5. requests' = [requests EXCEPT ![r] = p] /\ UNCHANGED db
    BY <1>4, <2>1 DEF ReadInvite, IInv, TypeOK
  <2> HIDE DEF p
  <2> QED
    BY <2>2, <2>4, <2>5, ReadKeeps
<1>5. ASSUME ReadTask(r), ~Finish(r)
      PROVE  IInv' /\ RowsKept
  <2> DEFINE p == [q EXCEPT !.list = tasks[q.task].list, !.step = "list"]
  <2>1. q.op \in TaskOps \cup {"restoreTask"} /\ q.step = "task" /\ q.task \in Tasks
    BY <1>1, <1>5 DEF ReadTask, At, KnowsAll, KnowsItself, KnowsItsTask
  <2>2. Exists(tasks[q.task]) /\ tasks[q.task].state # "unmade"
    BY <1>5 DEF ReadTask, Exists, Trashed
  <2>3. tasks[q.task].list \in Lists
    BY <2>1, <2>2 DEF IInv, TasksKept
  <2>4. p \in Request
    BY <1>1, <2>3 DEF Request, Steps
  <2>5. KnowsAll(p, lists, tasks)
    BY <1>1, <2>1, <2>2, <2>3 DEF Request, KnowsAll, KnowsItsList, KnowsItsTask,
         KnowsItself, PastTask, PastList, TaskOps
  <2>6. requests' = [requests EXCEPT ![r] = p] /\ UNCHANGED db
    BY <1>5 DEF ReadTask, IInv, TypeOK
  <2> HIDE DEF p
  <2> QED
    BY <2>4, <2>5, <2>6, ReadKeeps
<1>6. ASSUME ReadList(r), ~Finish(r)
      PROVE  IInv' /\ RowsKept
  <2>1. /\ q.step = "list" /\ q.op # "restoreList" /\ q.op # "join"
        /\ q.list \in Lists /\ lists[q.list].state = "live"
    BY <1>1, <1>6 DEF ReadList, At, KnowsAll, KnowsItsList, KnowsItself, PastTask
  <2>2. CASE Proceed(r, Nobody)
    BY <1>6, <2>1, <2>2, ProceedKeeps DEF ReadList, Actors
  <2>3. CASE ~Proceed(r, Nobody)
    <3> DEFINE p == [q EXCEPT !.owner = lists[q.list].owner, !.step = "member"]
    <3>1. p \in Request
      BY <1>1, <1>2, <2>1 DEF Request, ListRow, Steps
    <3>2. KnowsAll(p, lists, tasks)
      BY <1>1, <2>1 DEF Request, KnowsAll, KnowsItsList, KnowsItsTask,
           KnowsItself, PastTask, PastList
    <3>3. requests' = [requests EXCEPT ![r] = p] /\ UNCHANGED db
      BY <1>6, <2>3 DEF ReadList, IInv, TypeOK
    <3> HIDE DEF p
    <3> QED
      BY <3>1, <3>2, <3>3, ReadKeeps
  <2> QED
    BY <2>2, <2>3
<1>7. ASSUME ReadMembership(r), ~Finish(r)
      PROVE  IInv' /\ RowsKept
  <2>1. /\ q.step = "member" /\ q.list \in Lists
        /\ lists[q.list].state # "unmade"
        /\ q.owner # Nobody /\ Exists(lists[q.list]) => lists[q.list].owner = q.owner
    BY <1>1, <1>7 DEF ReadMembership, At, KnowsAll, KnowsItsList, PastTask, PastList
  <2>2. Proceed(r, q.owner) /\ UNCHANGED db /\ q.owner \in Actors
    BY <1>1, <1>7 DEF ReadMembership, Request
  <2>3. q.op # "restoreList" /\ q.op # "join"
    BY <1>1, <2>1 DEF KnowsAll, KnowsItself
  <2> QED
    BY <2>1, <2>2, <2>3, ProceedKeeps
<1>8. ASSUME ReadTrashedList(r), ~Finish(r)
      PROVE  IInv' /\ RowsKept
  <2> DEFINE p == [q EXCEPT !.owner = lists[q.list].owner, !.step = "write"]
  <2>1. /\ q.step = "list" /\ q.op = "restoreList" /\ q.list \in Lists
        /\ Trashed(lists[q.list]) /\ CanManage(q, lists[q.list].owner)
    BY <1>1, <1>8 DEF ReadTrashedList, At, KnowsAll, KnowsItsList, PastTask
  <2>2. p \in Request
    BY <1>1, <1>2, <2>1 DEF Request, ListRow, Steps
  <2>3. KnowsAll(p, lists, tasks)
    BY <1>1, <2>1 DEF Request, KnowsAll, KnowsItsList, KnowsItsTask, KnowsItself,
         PastTask, PastList, CanManage, Trashed, TaskOps
  <2>4. requests' = [requests EXCEPT ![r] = p] /\ UNCHANGED db
    BY <1>8 DEF ReadTrashedList, IInv, TypeOK
  <2> HIDE DEF p
  <2> QED
    BY <2>2, <2>3, <2>4, ReadKeeps
<1>9. ASSUME ReadTaskAgain(r), ~Finish(r)
      PROVE  IInv' /\ RowsKept
  <2> DEFINE step == IF q.op = "assign" /\ q.target # Nobody THEN "assignee" ELSE "write"
             p == [q EXCEPT !.step = step]
  <2>1. q.step = "again" /\ q.op \in TaskOps
    BY <1>1, <1>9 DEF ReadTaskAgain, At, KnowsAll, KnowsItself
  <2>2. p \in Request
    BY <1>1 DEF Request, Steps
  <2>3. KnowsAll(p, lists, tasks)
    BY <1>1, <2>1 DEF Request, KnowsAll, KnowsItsList, KnowsItsTask, KnowsItself,
         PastTask, PastList, TaskOps, ManagerOps
  <2>4. requests' = [requests EXCEPT ![r] = p] /\ UNCHANGED db
    BY <1>9 DEF ReadTaskAgain, Goto, IInv, TypeOK
  <2> HIDE DEF p
  <2> QED
    BY <2>2, <2>3, <2>4, ReadKeeps
<1>10. ASSUME ReadAssignee(r), ~Finish(r)
       PROVE  IInv' /\ RowsKept
  <2> DEFINE p == [q EXCEPT !.step = "write"]
  <2>1. q.step = "assignee" /\ q.op = "assign" /\ q.list \in Lists
    BY <1>1, <1>10 DEF ReadAssignee, At, KnowsAll, KnowsItself, KnowsItsList, PastTask
  <2>2. q.target \in members[q.list]
    BY <1>10 DEF ReadAssignee, IsMember
  <2>3. lists[q.list].owner # Nobody
    BY <2>1, <2>2 DEF IInv, ListsKept, Public
  <2>4. p \in Request
    BY <1>1 DEF Request, Steps
  <2>5. KnowsAll(p, lists, tasks)
    BY <1>1, <2>1, <2>3 DEF Request, KnowsAll, KnowsItsList, KnowsItsTask, KnowsItself,
         PastTask, PastList, TaskOps, ManagerOps
  <2>6. requests' = [requests EXCEPT ![r] = p] /\ UNCHANGED db
    BY <1>10 DEF ReadAssignee, Goto, IInv, TypeOK
  <2> HIDE DEF p
  <2> QED
    BY <2>4, <2>5, <2>6, ReadKeeps
<1>11. UNCHANGED db
  BY DEF Read, ReadInvite, ReadTask, ReadList, ReadMembership, ReadTrashedList,
         ReadTaskAgain, ReadAssignee
<1> HIDE DEF q
<1> QED
  BY <1>3, <1>4, <1>5, <1>6, <1>7, <1>8, <1>9, <1>10, <1>11 DEF Read

----------------------------------------------------------------------------
(* Writes: the statement keeps the tables, the request ends or purges.     *)

\* A write whose statement changed nothing ends the request like a read.
LEMMA WriteKeepsIInv ==
    ASSUME IInv, NEW r \in Requests, Write(r)
    PROVE  IInv' /\ RowsKept
<1> DEFINE q == requests[r]
<1>1. q \in Request /\ KnowsAll(q, lists, tasks)
  BY MoverKnows
<1>2. TablesKept
  BY DEF IInv, TypeOK, TablesKept, TablesTyped
<1>3. CASE Finish(r) /\ UNCHANGED db
  BY <1>3, ReadFinishKeeps
<1>4. ASSUME TablesKept', RowsKept, Finish(r)
      PROVE  IInv' /\ RowsKept
  BY <1>4, FinishKeeps
<1>5. q.step = "write" => q.list \in Lists
  BY <1>1 DEF KnowsAll, KnowsItsList, PastTask
<1>6. q.step = "write" /\ q.op \in TaskOps \cup {"restoreTask"} => q.task \in Tasks
  BY <1>1 DEF KnowsAll, KnowsItsTask
<1>7. ASSUME WriteJoin(r), ~UNCHANGED db
      PROVE  IInv' /\ RowsKept
  <2>1. /\ q.op = "join" /\ q.step = "write" /\ q.actor \in Users /\ q.owner # Nobody
        /\ AddMember(q.list, q.actor)
    BY <1>1, <1>7 DEF WriteJoin, Writing, At, KnowsAll, KnowsItself, KnowsItsList
  <2>2. ~Public(q.list)
    BY <1>1, <2>1 DEF AddMember, KnowsAll, KnowsItsList, PastList, Public
  <2> QED
    BY <1>2, <1>4, <1>5, <1>7, <2>1, <2>2, AddMemberKeeps DEF WriteJoin
<1>8. ASSUME WriteClaim(r), ~UNCHANGED db
      PROVE  IInv' /\ RowsKept
  <2>1. q.step = "write" /\ q.actor \in Users /\ ClaimList(q.list, q.actor)
    BY <1>1, <1>8 DEF WriteClaim, Writing, At, KnowsAll, KnowsItself
  <2> QED
    BY <1>2, <1>4, <1>5, <1>8, <2>1, ClaimListKeeps DEF WriteClaim
<1>9. ASSUME WriteDeleteList(r), ~(Finish(r) /\ UNCHANGED db)
      PROVE  IInv' /\ RowsKept
  <2>1. q.step = "write" /\ TrashList(q.list) /\ Goto(r, "purgeTasks")
    BY <1>9 DEF WriteDeleteList, Writing, At
  <2>2. TablesKept' /\ RowsKept
    BY <1>2, <1>5, <2>1, ListMarkKeeps
  <2> QED
    BY <2>1, <2>2, PurgeStepKeeps
<1>10. ASSUME WriteRestoreList(r), ~UNCHANGED db
       PROVE  IInv' /\ RowsKept
  <2>1. q.step = "write" /\ UntrashList(q.list)
    BY <1>10 DEF WriteRestoreList, Writing, At
  <2> QED
    BY <1>2, <1>4, <1>5, <1>10, <2>1, ListMarkKeeps DEF WriteRestoreList
<1>11. ASSUME NEW c \in Codes, WriteResetInvite(r, c), ~UNCHANGED db
       PROVE  IInv' /\ RowsKept
  <2>1. q.step = "write" /\ ResetInvite(q.list, c)
    BY <1>11 DEF WriteResetInvite, Writing, At
  <2> QED
    BY <1>2, <1>4, <1>5, <1>11, <2>1, ListMarkKeeps DEF WriteResetInvite
<1>12. ASSUME WriteRemoveMember(r), ~UNCHANGED db
       PROVE  IInv' /\ RowsKept
  <2>1. q.step = "write" /\ RemoveMember(q.list, q.target)
    BY <1>12 DEF WriteRemoveMember, Writing, At
  <2> QED
    BY <1>2, <1>4, <1>5, <1>12, <2>1, RemoveMemberKeeps DEF WriteRemoveMember
<1>13. ASSUME NEW t \in Tasks, WriteAddTask(r, t), ~UNCHANGED db
       PROVE  IInv' /\ RowsKept
  <2>1. q.step = "write" /\ AddTask(t, q.list)
    BY <1>13 DEF WriteAddTask, Writing, At
  <2> QED
    BY <1>2, <1>4, <1>5, <1>13, <2>1, AddTaskKeeps DEF WriteAddTask
<1>14. ASSUME WriteAssign(r), ~UNCHANGED db
       PROVE  IInv' /\ RowsKept
  <2>1. q.step = "write" /\ q.op = "assign" /\ AssignTask(q.task, q.target)
    BY <1>14 DEF WriteAssign, Writing, At
  <2>2. q.task \in Tasks /\ q.target \in Actors
    BY <1>1, <1>6, <2>1 DEF TaskOps, Request
  <2>3. Exists(tasks[q.task]) /\ tasks[q.task].list = q.list /\ Exists(lists[q.list])
    BY <1>1, <1>2, <2>1, <2>2 DEF AssignTask, Exists, KnowsAll, KnowsItsTask, TaskOps,
                                  PastTask, TablesKept, TasksKept
  <2>4. q.target # Nobody => ~Public(tasks[q.task].list)
    BY <1>1, <2>1, <2>3 DEF KnowsAll, KnowsItsTask, Public
  <2> QED
    BY <1>2, <1>4, <1>14, <2>1, <2>2, <2>4, AssignTaskKeeps DEF WriteAssign
<1>15. ASSUME WriteDeleteTask(r), ~(Finish(r) /\ UNCHANGED db)
       PROVE  IInv' /\ RowsKept
  <2>1. q.step = "write" /\ q.task \in Tasks /\ TrashTask(q.task) /\ Goto(r, "purgeTasks")
    BY <1>6, <1>15 DEF WriteDeleteTask, Writing, At, TaskOps
  <2>2. TablesKept' /\ RowsKept
    BY <1>2, <2>1, TaskMarkKeeps
  <2> QED
    BY <2>1, <2>2, PurgeStepKeeps
<1>16. ASSUME WriteRestoreTask(r), ~UNCHANGED db
       PROVE  IInv' /\ RowsKept
  <2>1. q.step = "write" /\ q.task \in Tasks /\ UntrashTask(q.task)
    BY <1>6, <1>16 DEF WriteRestoreTask, Writing, At
  <2> QED
    BY <1>2, <1>4, <1>16, <2>1, TaskMarkKeeps DEF WriteRestoreTask
<1>17. ASSUME RunPurgeTasks(r)
       PROVE  IInv' /\ RowsKept
  <2>1. TablesKept' /\ RowsKept
    BY <1>2, <1>17, PurgeKeeps DEF RunPurgeTasks
  <2> QED
    BY <1>17, <2>1, PurgeStepKeeps DEF RunPurgeTasks, At
<1>18. ASSUME RunPurgeLists(r)
       PROVE  IInv' /\ RowsKept
  BY <1>2, <1>4, <1>18, PurgeKeeps DEF RunPurgeLists
<1>19. ASSUME \/ WriteJoin(r) \/ WriteClaim(r) \/ WriteRestoreList(r)
              \/ \E c \in Codes : WriteResetInvite(r, c)
              \/ WriteRemoveMember(r)
              \/ \E t \in Tasks : WriteAddTask(r, t)
              \/ WriteAssign(r) \/ WriteRestoreTask(r)
       PROVE  Finish(r)
  BY <1>19 DEF WriteJoin, WriteClaim, WriteRestoreList, WriteResetInvite,
       WriteRemoveMember, WriteAddTask, WriteAssign, WriteRestoreTask
<1> HIDE DEF q
<1> QED
  BY <1>3, <1>7, <1>8, <1>9, <1>10, <1>11, <1>12, <1>13, <1>14, <1>15, <1>16, <1>17,
     <1>18, <1>19 DEF Write

\* A restart purges and forgets all requests.
LEMMA RestartKeepsIInv ==
    ASSUME IInv, Restart
    PROVE  IInv' /\ RowsKept
<1>1. TablesKept' /\ RowsKept
  BY PurgeKeeps DEF Restart, IInv, TypeOK, TablesKept, TablesTyped
<1>2. requests' \in [Requests -> Request] /\ RequestsKept'
  BY IdleKnows DEF Restart, RequestsKept
<1> QED
  BY <1>1, <1>2 DEF IInv, TypeOK, TablesKept, TablesTyped

\* Time passing only ages what is in the trash.
LEMMA DayKeepsIInv ==
    ASSUME IInv, ADayPasses
    PROVE  IInv' /\ RowsKept
<1>1. TablesKept' /\ RowsKept
  BY ListMarkKeeps, TaskMarkKeeps DEF ADayPasses, IInv, TypeOK, TablesKept, TablesTyped
<1>2. RequestsKept'
  BY <1>1, KnowledgeLasts DEF ADayPasses, IInv, RequestsKept
<1> QED
  BY <1>1, <1>2 DEF ADayPasses, IInv, TypeOK, TablesKept, TablesTyped

----------------------------------------------------------------------------
(* The theorems.                                                           *)

\* A new database, and a migrated one, keep the invariant.
LEMMA InitIInv == Init => IInv
<1> SUFFICES ASSUME Init
             PROVE  IInv
  OBVIOUS
<1> USE StoreConstants DEF Init, StoreInit, AbsentList, AbsentTask
<1>1. TypeOK
  <2>1. requests \in [Requests -> Request]
    BY IdleKnows
  <2>2. lists \in [Lists -> ListRow]
    BY DEF ListRow, States, Actors
  <2>3. tasks \in [Tasks -> TaskRow]
    BY DEF TaskRow, States, Actors
  <2>4. issued \subseteq Codes /\ members \in [Lists -> SUBSET Users]
    BY <2>2 DEF ListRow
  <2> QED
    BY <2>1, <2>2, <2>3, <2>4 DEF TypeOK
<1>2. ListsKept
  BY DEF ListsKept, Public
<1>3. TasksKept
  BY DEF TasksKept, Exists, Trashed
<1>4. RequestsKept
  BY IdleKnows DEF RequestsKept
<1> QED
  BY <1>1, <1>2, <1>3, <1>4 DEF IInv

\* Every step keeps the invariant and what other requests count on.
LEMMA NextIInv == IInv /\ [Next]_vars => IInv' /\ RowsKept
<1> SUFFICES ASSUME IInv, [Next]_vars
             PROVE  IInv' /\ RowsKept
  OBVIOUS
<1>1. ASSUME NEW r \in Requests, Arrive(r) \/ Read(r) \/ Write(r)
      PROVE  IInv' /\ RowsKept
  BY <1>1, ArriveKeeps, ReadKeepsIInv, WriteKeepsIInv
<1>2. CASE Restart
  BY <1>2, RestartKeepsIInv
<1>3. CASE ADayPasses
  BY <1>3, DayKeepsIInv
<1>4. CASE UNCHANGED vars
  BY <1>4 DEF vars, IInv, TypeOK, ListsKept, TasksKept, RequestsKept, RowsKept,
              Public, Exists, Trashed
<1> QED
  BY <1>1, <1>2, <1>3, <1>4 DEF Next

\* The strengthened invariant holds in every reachable state.
THEOREM Invariance == Spec => []IInv
BY InitIInv, NextIInv, PTL DEF Spec

\* Every table and request record keeps to its type (TypeOK).
THEOREM TypeCorrect == Spec => []TypeOK
<1>1. IInv => TypeOK
  BY DEF IInv
<1> QED
  BY Invariance, <1>1, PTL

\* Whoever owns a list belongs to it: CreateList, ClaimList and RemoveMember
\* never leave a list that its own owner cannot see (OwnerBelongs).
THEOREM OwnersBelong == Spec => []OwnerBelongs
<1>1. IInv => OwnerBelongs
  BY DEF IInv, ListsKept, OwnerBelongs
<1> QED
  BY Invariance, <1>1, PTL

\* A public list has no members and nothing on it is anybody's job, for any
\* number of joins, claims and assignments in flight (PublicListsAreNobodys).
THEOREM PublicStaysNobodys == Spec => []PublicListsAreNobodys
<1>1. IInv => PublicListsAreNobodys
  BY DEF IInv, ListsKept, TasksKept, PublicListsAreNobodys
<1> QED
  BY Invariance, <1>1, PTL

\* No task or membership outlives its list (NoOrphans).
THEOREM NothingOrphaned == Spec => []NoOrphans
<1>1. IInv => NoOrphans
  BY DEF IInv, ListsKept, TasksKept, NoOrphans, Public
<1> QED
  BY Invariance, <1>1, PTL

\* A request that manages a list acts for its owner, or read it when public:
\* no other stale authority exists (AuthorityIsOwnersOrPublic).
THEOREM AuthorityBounded == Spec => []AuthorityIsOwnersOrPublic
<1>1. IInv => AuthorityIsOwnersOrPublic
  BY DEF IInv, RequestsKept, KnowsAll, KnowsItsList, PastList, AuthorityIsOwnersOrPublic
<1> QED
  BY Invariance, <1>1, PTL

----------------------------------------------------------------------------
(* What a step may never do.                                               *)

\* However many claims race, an owner is for life (ClaimsAreFinal).
THEOREM OwnersAreForLife == Spec => ClaimsAreFinal
<1> DEFINE Final == \A l \in Lists : ~Public(l) /\ Exists(lists'[l])
                                         => lists'[l].owner = lists[l].owner
<1>1. IInv /\ [Next]_vars => [Final]_vars
  BY NextIInv DEF IInv, ListsKept, RowsKept, Exists, Trashed
<1> QED
  BY Invariance, <1>1, PTL DEF Spec, ClaimsAreFinal

\* What a step makes disappear for good had been in the trash for a day.
LostIsExpired ==
    /\ \A l \in Lists : Exists(lists[l]) /\ ~Exists(lists'[l])
                            => lists[l].state = "expired"
    /\ \A t \in Tasks : Exists(tasks[t]) /\ ~Exists(tasks'[t])
                            => \/ tasks[t].state = "expired"
                               \/ lists[tasks[t].list].state = "expired"

\* The purge takes only what has been in the trash for a day.
LEMMA PurgeLosesExpired ==
    ASSUME TypeOK, PurgeTasks \/ PurgeLists \/ PurgeOnOpen
    PROVE  LostIsExpired
BY DEF PurgeTasks, PurgeLists, PurgeOnOpen, Destroy, ExpiredTasks, ExpiredLists,
       TasksOn, LostIsExpired, TypeOK

\* No statement but the purge takes a row out of the tables.
LEMMA StatementsLoseNothing ==
    ASSUME TypeOK,
           \/ UNCHANGED db
           \/ \E l \in Lists : \/ TrashList(l) \/ UntrashList(l) \/ ListExpires(l)
                               \/ \E u \in Users, c \in Codes : CreateList(l, u, c)
                               \/ \E c \in Codes : ResetInvite(l, c)
                               \/ \E t \in Tasks : AddTask(t, l)
           \/ \E l, u : ClaimList(l, u) \/ AddMember(l, u) \/ RemoveMember(l, u)
           \/ \E t \in Tasks : TrashTask(t) \/ UntrashTask(t) \/ TaskExpires(t)
           \/ \E t, u : AssignTask(t, u)
    PROVE  LostIsExpired
<1> USE DEF LostIsExpired, TypeOK, ListRow, TaskRow, Exists, Trashed
<1>1. CASE UNCHANGED db
  BY <1>1 DEF db
<1>2. CASE \E l \in Lists : \/ TrashList(l) \/ UntrashList(l) \/ ListExpires(l)
                            \/ \E c \in Codes : ResetInvite(l, c)
  BY <1>2 DEF TrashList, UntrashList, ListExpires, ResetInvite
<1>3. CASE \E l \in Lists, u \in Users, c \in Codes : CreateList(l, u, c)
  BY <1>3 DEF CreateList
<1>4. CASE \E l \in Lists, t \in Tasks : AddTask(t, l)
  BY <1>4 DEF AddTask
<1>5. CASE \E l, u : ClaimList(l, u)
  BY <1>5 DEF ClaimList
<1>6. CASE \E l, u : AddMember(l, u)
  BY <1>6 DEF AddMember
<1>7. CASE \E l, u : RemoveMember(l, u)
  BY <1>7 DEF RemoveMember
<1>8. CASE \E t \in Tasks : TrashTask(t) \/ UntrashTask(t) \/ TaskExpires(t)
  BY <1>8 DEF TrashTask, UntrashTask, TaskExpires
<1>9. CASE \E t, u : AssignTask(t, u)
  BY <1>9 DEF AssignTask
<1> QED
  BY <1>1, <1>2, <1>3, <1>4, <1>5, <1>6, <1>7, <1>8, <1>9

\* Undo works for a day: no interleaving of deletes, restores, purges and
\* restarts destroys anything sooner (KeptForADay).
THEOREM NothingLostEarly == Spec => KeptForADay
<1>1. ASSUME IInv, Next
      PROVE  LostIsExpired
  <2>0. TypeOK
    BY <1>1 DEF IInv
  <2>1. ASSUME NEW r \in Requests, Arrive(r)
        PROVE  LostIsExpired
    BY <2>0, <2>1, StatementsLoseNothing DEF Arrive, BeginOnList, BeginOnTask, BeginJoin, Create
  <2>2. ASSUME NEW r \in Requests, Read(r)
        PROVE  LostIsExpired
    BY <2>0, <2>2, StatementsLoseNothing DEF Read, ReadInvite, ReadTask, ReadList,
         ReadMembership, ReadTrashedList, ReadTaskAgain, ReadAssignee
  <2>3. ASSUME NEW r \in Requests, Write(r)
        PROVE  LostIsExpired
    <3> DEFINE q == requests[r]
    <3>1. /\ q.step = "write" => q.list \in Lists
          /\ q.step = "write" /\ q.op \in TaskOps \cup {"restoreTask"} => q.task \in Tasks
      BY <1>1, MoverKnows DEF KnowsAll, KnowsItsList, KnowsItsTask, PastTask
    <3>2. CASE WriteJoin(r) \/ WriteClaim(r) \/ WriteRemoveMember(r) \/ WriteAssign(r)
      BY <2>0, <3>2, StatementsLoseNothing
         DEF WriteJoin, WriteClaim, WriteRemoveMember, WriteAssign
    <3>3. CASE \/ WriteDeleteList(r) \/ WriteRestoreList(r)
               \/ \E c \in Codes : WriteResetInvite(r, c)
               \/ \E t \in Tasks : WriteAddTask(r, t)
      BY <2>0, <3>1, <3>3, StatementsLoseNothing
         DEF WriteDeleteList, WriteRestoreList, WriteResetInvite, WriteAddTask, Writing, At
    <3>4. CASE WriteDeleteTask(r) \/ WriteRestoreTask(r)
      BY <2>0, <3>1, <3>4, StatementsLoseNothing
         DEF WriteDeleteTask, WriteRestoreTask, Writing, At, TaskOps
    <3>5. CASE RunPurgeTasks(r) \/ RunPurgeLists(r)
      BY <2>0, <3>5, PurgeLosesExpired DEF RunPurgeTasks, RunPurgeLists
    <3> QED
      BY <2>3, <3>2, <3>3, <3>4, <3>5 DEF Write
  <2>4. CASE Restart
    BY <2>0, <2>4, PurgeLosesExpired DEF Restart
  <2>5. CASE ADayPasses
    BY <2>0, <2>5, StatementsLoseNothing DEF ADayPasses
  <2> QED
    BY <1>1, <2>1, <2>2, <2>3, <2>4, <2>5 DEF Next
<1>2. IInv /\ [Next]_vars => [LostIsExpired]_vars
  BY <1>1
<1>3. Spec => [][LostIsExpired]_vars
  BY Invariance, <1>2, PTL DEF Spec
<1> QED
  BY <1>3 DEF KeptForADay, LostIsExpired

----------------------------------------------------------------------------
(* One request at a time.  What a request has read is then still true when *)
(* it writes: only days pass in between, and they move no row's owner,     *)
(* code or members.                                                        *)

\* What a request that runs alone knows, beyond what KnowsAll says of any.
Fresh(q) ==
    /\ q.step \in PastList => lists[q.list].owner = q.owner
    /\ q.op = "leave" => q.target = q.actor
    /\ q.op = "join" /\ q.step = "write" => lists[q.list].code = q.code
    /\ q.op = "assign" /\ q.step = "write" /\ q.target # Nobody
           => q.target \in members[q.list]

Serial == AssigneeIsMember /\ \A r \in Requests : Fresh(requests[r])

OneAtATime == \A r, s \in Requests : r = s

\* No statement leaves a task with somebody who is not on its list, if
\* AssignTask is given a member.
LEMMA StatementKeepsAssignees ==
    ASSUME IInv, AssigneeIsMember,
           \/ UNCHANGED db
           \/ \E l \in Lists : \/ TrashList(l) \/ UntrashList(l) \/ ListExpires(l)
                               \/ \E u \in Users, c \in Codes : CreateList(l, u, c)
                               \/ \E c \in Codes : ResetInvite(l, c)
                               \/ \E t \in Tasks : AddTask(t, l)
           \/ \E l, u : ClaimList(l, u) \/ AddMember(l, u) \/ RemoveMember(l, u)
           \/ \E t \in Tasks : TrashTask(t) \/ UntrashTask(t) \/ TaskExpires(t)
           \/ \E t \in Tasks : \E u \in members[tasks[t].list] \cup {Nobody} : AssignTask(t, u)
           \/ PurgeTasks \/ PurgeLists \/ PurgeOnOpen
    PROVE  AssigneeIsMember'
<1> USE DEF AssigneeIsMember, IInv, TypeOK
<1>1. CASE UNCHANGED db
  BY <1>1 DEF db
<1>2. CASE \E l \in Lists : \/ TrashList(l) \/ UntrashList(l) \/ ListExpires(l)
                            \/ \E c \in Codes : ResetInvite(l, c)
  BY <1>2 DEF TrashList, UntrashList, ListExpires, ResetInvite
<1>3. CASE \E l \in Lists, u \in Users, c \in Codes : CreateList(l, u, c)
  <2>1. PICK l \in Lists : /\ lists[l].state = "unmade"
                           /\ tasks' = tasks
                           /\ \A k \in Lists \ {l} : members'[k] = members[k]
    BY <1>3 DEF CreateList
  <2>2. Public(l)
    BY <2>1 DEF ListsKept, Exists, Trashed
  <2>3. ASSUME NEW t \in Tasks, tasks[t].assignee # Nobody
        PROVE  tasks[t].list \in Lists \ {l}
    BY <2>2, <2>3 DEF TasksKept
  <2> QED
    BY <2>1, <2>3
<1>4. CASE \E l \in Lists, t \in Tasks : AddTask(t, l)
  BY <1>4 DEF AddTask, TaskRow
<1>5. CASE \E l, u : ClaimList(l, u) \/ AddMember(l, u)
  <2>1. tasks' = tasks /\ \A k \in Lists : members[k] \subseteq members'[k]
    BY <1>5 DEF ClaimList, AddMember
  <2>2. \A t \in Tasks : tasks[t].assignee # Nobody => tasks[t].list \in Lists
    BY DEF TasksKept
  <2> QED
    BY <2>1, <2>2
<1>6. CASE \E l, u : RemoveMember(l, u)
  <2>1. PICK l, u : RemoveMember(l, u)
    BY <1>6
  <2>2. ASSUME NEW t \in Tasks, tasks'[t].assignee # Nobody
        PROVE  tasks'[t].assignee \in members'[tasks'[t].list]
    <3>1. tasks'[t] = tasks[t] /\ ~(tasks[t].list = l /\ tasks[t].assignee = u)
      BY <2>1, <2>2 DEF RemoveMember, TaskRow
    <3>2. tasks[t].list \in Lists /\ tasks[t].assignee \in members[tasks[t].list]
      BY <2>2, <3>1 DEF TasksKept
    <3> QED
      BY <2>1, <3>1, <3>2 DEF RemoveMember
  <2> QED
    BY <2>2
<1>7. CASE \E t \in Tasks : TrashTask(t) \/ UntrashTask(t) \/ TaskExpires(t)
  BY <1>7 DEF TrashTask, UntrashTask, TaskExpires, TaskRow
<1>8. CASE \E t \in Tasks : \E u \in members[tasks[t].list] \cup {Nobody} : AssignTask(t, u)
  BY <1>8 DEF AssignTask, TaskRow
<1>9. CASE PurgeTasks \/ PurgeLists \/ PurgeOnOpen
  <2>1. ASSUME NEW t \in Tasks, tasks'[t].assignee # Nobody
        PROVE  tasks'[t].assignee \in members'[tasks'[t].list]
    <3>1. tasks'[t] = tasks[t]
      BY <1>9, <2>1 DEF PurgeTasks, PurgeLists, PurgeOnOpen, Destroy, AbsentTask
    <3>2. /\ Exists(tasks[t]) /\ tasks[t].list \in Lists
          /\ tasks[t].assignee \in members[tasks[t].list]
      BY <2>1, <3>1 DEF TasksKept
    <3>3. members'[tasks[t].list] = members[tasks[t].list]
      BY <1>9, <2>1, <3>1, <3>2
         DEF PurgeTasks, PurgeLists, PurgeOnOpen, Destroy, AbsentTask, TasksOn
    <3> QED
      BY <3>1, <3>2, <3>3
  <2> QED
    BY <2>1
<1> QED
  BY <1>1, <1>2, <1>3, <1>4, <1>5, <1>6, <1>7, <1>8, <1>9

\* A request that has been answered, or has just come in, has read nothing.
LEMMA IdleIsFresh == Fresh(Idle)
BY DEF Idle, Fresh, PastList

\* A request that comes in alone.
LEMMA ArriveStaysSerial ==
    ASSUME IInv, Serial, OneAtATime, NEW r \in Requests, Arrive(r)
    PROVE  Serial'
<1> USE DEF OneAtATime
<1>1. requests[r].step = "idle" /\ \A s \in Requests : s = r
  BY DEF Arrive, BeginOnList, BeginOnTask, BeginJoin, Create, MayCall, At
<1>2. AssigneeIsMember'
  BY StatementKeepsAssignees
     DEF Serial, Arrive, BeginOnList, BeginOnTask, BeginJoin, Create
<1>3. ASSUME NEW op \in Operations, NEW a \in Actors, NEW l \in Lists,
             BeginOnList(r, op, a, l)
      PROVE  Fresh(requests[r])'
  BY <1>3 DEF BeginOnList, TargetsOf, ListOps, Idle, Fresh, PastList, IInv, TypeOK
<1>4. ASSUME NEW op \in Operations, NEW a \in Actors, NEW t \in Tasks,
             BeginOnTask(r, op, a, t)
      PROVE  Fresh(requests[r])'
  BY <1>4 DEF BeginOnTask, TaskOps, Idle, Fresh, PastList, IInv, TypeOK
<1>5. ASSUME NEW u \in Users, NEW c \in Codes, BeginJoin(r, u, c)
      PROVE  Fresh(requests[r])'
  BY <1>5 DEF BeginJoin, Idle, Fresh, PastList, IInv, TypeOK
<1>6. ASSUME NEW u \in Users, NEW l \in Lists, NEW c \in Codes, Create(r, u, l, c)
      PROVE  Fresh(requests[r])'
  BY <1>1, <1>6 DEF Create, Serial, Fresh, PastList
<1> QED
  BY <1>1, <1>2, <1>3, <1>4, <1>5, <1>6 DEF Arrive, Serial

\* A read tells the request what is so, and changes nothing.
LEMMA ReadStaysSerial ==
    ASSUME IInv, Serial, OneAtATime, NEW r \in Requests, Read(r)
    PROVE  Serial'
<1> DEFINE q == requests[r]
<1>1. q \in Request /\ KnowsAll(q, lists, tasks) /\ Fresh(q)
  BY MoverKnows DEF Serial
<1>2. UNCHANGED db
  BY DEF Read, ReadInvite, ReadTask, ReadList, ReadMembership, ReadTrashedList,
         ReadTaskAgain, ReadAssignee
<1>3. AssigneeIsMember'
  BY <1>2, StatementKeepsAssignees DEF Serial
<1>4. requests \in [Requests -> Request]
  BY DEF IInv, TypeOK
<1>5. ASSUME Finish(r)
      PROVE  Fresh(requests[r])'
  BY <1>2, <1>4, <1>5, IdleIsFresh DEF Finish, Fresh, db
<1>6. ASSUME ReadInvite(r) /\ ~Finish(r)
      PROVE  Fresh(requests[r])'
  <2>1. PICK l \in Lists :
            /\ lists[l].code = q.code
            /\ requests' = [requests EXCEPT ![r].list = l, ![r].step = "write",
                                            ![r].owner = lists[l].owner]
    BY <1>6 DEF ReadInvite
  <2>2. q.op = "join"
    BY <1>1, <1>6 DEF ReadInvite, At, KnowsAll, KnowsItself
  <2> QED
    BY <1>1, <1>2, <1>4, <2>1, <2>2 DEF Request, Fresh, db
<1>7. ASSUME ReadTask(r) /\ ~Finish(r)
      PROVE  Fresh(requests[r])'
  <2>1. requests' = [requests EXCEPT ![r].list = tasks[q.task].list, ![r].step = "list"]
    BY <1>7 DEF ReadTask
  <2> QED
    BY <1>1, <1>2, <1>4, <2>1 DEF Request, Fresh, PastList, db
<1>8. ASSUME NEW owner, lists[q.list].owner = owner, q.op # "join", Proceed(r, owner)
      PROVE  Fresh(requests[r])'
  <2>1. CASE ~Allowed(q, owner)
    BY <1>5, <1>8, <2>1 DEF Proceed
  <2>2. CASE Allowed(q, owner)
    <3>1. requests' = [requests EXCEPT
             ![r].owner = owner,
             ![r].step = IF q.op \in TaskOps THEN "again" ELSE "write"]
      BY <1>8, <2>2 DEF Proceed
    <3> QED
      BY <1>1, <1>2, <1>4, <1>8, <3>1 DEF Request, Fresh, TaskOps, db
  <2> QED
    BY <2>1, <2>2
<1>9. ASSUME ReadList(r) /\ ~Finish(r)
      PROVE  Fresh(requests[r])'
  <2>1. q.op # "join" /\ q.step = "list"
    BY <1>1, <1>9 DEF ReadList, At, KnowsAll, KnowsItself
  <2>2. CASE lists[q.list].owner = Nobody /\ Proceed(r, Nobody)
    BY <1>8, <2>1, <2>2
  <2>3. CASE requests' = [requests EXCEPT ![r].owner = lists[q.list].owner,
                                          ![r].step = "member"]
    BY <1>1, <1>2, <1>4, <2>1, <2>3 DEF Request, Fresh, db
  <2> QED
    BY <1>9, <2>2, <2>3 DEF ReadList
<1>10. ASSUME ReadMembership(r) /\ ~Finish(r)
       PROVE  Fresh(requests[r])'
  <2>1. q.op # "join" /\ q.step = "member" /\ Proceed(r, q.owner)
    BY <1>1, <1>10 DEF ReadMembership, At, KnowsAll, KnowsItself
  <2>2. lists[q.list].owner = q.owner
    BY <1>1, <2>1 DEF Fresh, PastList
  <2> QED
    BY <1>8, <2>1, <2>2
<1>11. ASSUME ReadTrashedList(r) /\ ~Finish(r)
       PROVE  Fresh(requests[r])'
  BY <1>1, <1>2, <1>4, <1>11 DEF ReadTrashedList, At, Request, Fresh, db
<1>12. ASSUME ReadTaskAgain(r) /\ ~Finish(r)
       PROVE  Fresh(requests[r])'
  <2>1. /\ q.step = "again" /\ q.op \in TaskOps
        /\ Goto(r, IF q.op = "assign" /\ q.target # Nobody THEN "assignee" ELSE "write")
    BY <1>1, <1>12 DEF ReadTaskAgain, At, KnowsAll, KnowsItself
  <2> QED
    BY <1>1, <1>2, <1>4, <2>1 DEF Goto, Request, Fresh, PastList, TaskOps, db
<1>13. ASSUME ReadAssignee(r) /\ ~Finish(r)
       PROVE  Fresh(requests[r])'
  <2>1. /\ q.step = "assignee" /\ q.op = "assign" /\ q.target \in members[q.list]
        /\ Goto(r, "write")
    BY <1>1, <1>13 DEF ReadAssignee, At, IsMember, KnowsAll, KnowsItself
  <2> QED
    BY <1>1, <1>2, <1>4, <2>1 DEF Goto, Request, Fresh, PastList, db
<1>14. Fresh(requests[r])'
  BY <1>5, <1>6, <1>7, <1>9, <1>10, <1>11, <1>12, <1>13 DEF Read
<1> QED
  BY <1>3, <1>14 DEF Serial, OneAtATime


\* A write, if an assignment about to be written is to a member or to nobody.
LEMMA WriteKeepsAssignees ==
    ASSUME IInv, AssigneeIsMember, NEW r \in Requests, Write(r),
           WriteAssign(r) /\ ~UNCHANGED db =>
               requests[r].target \in members[tasks[requests[r].task].list] \cup {Nobody}
    PROVE  AssigneeIsMember'
<1> DEFINE q == requests[r]
<1>1. /\ q.step = "write" => q.list \in Lists
      /\ q.step = "write" /\ q.op \in TaskOps \cup {"restoreTask"} => q.task \in Tasks
  BY MoverKnows DEF KnowsAll, KnowsItsList, KnowsItsTask, PastTask
<1>2. CASE WriteJoin(r) \/ WriteClaim(r) \/ WriteRemoveMember(r)
  BY <1>2, StatementKeepsAssignees DEF WriteJoin, WriteClaim, WriteRemoveMember
<1>3. CASE \/ WriteDeleteList(r) \/ WriteRestoreList(r)
           \/ \E c \in Codes : WriteResetInvite(r, c)
           \/ \E t \in Tasks : WriteAddTask(r, t)
  BY <1>1, <1>3, StatementKeepsAssignees
     DEF WriteDeleteList, WriteRestoreList, WriteResetInvite, WriteAddTask, Writing, At
<1>4. CASE WriteDeleteTask(r) \/ WriteRestoreTask(r)
  BY <1>1, <1>4, StatementKeepsAssignees
     DEF WriteDeleteTask, WriteRestoreTask, Writing, At, TaskOps
<1>5. CASE RunPurgeTasks(r) \/ RunPurgeLists(r)
  BY <1>5, StatementKeepsAssignees DEF RunPurgeTasks, RunPurgeLists
<1>6. CASE WriteAssign(r) /\ ~UNCHANGED db
  <2>1. q.task \in Tasks /\ AssignTask(q.task, q.target)
    BY <1>1, <1>6 DEF WriteAssign, Writing, At, TaskOps
  <2> QED
    BY <1>6, <2>1, StatementKeepsAssignees
<1>7. CASE UNCHANGED db
  BY <1>7, StatementKeepsAssignees
<1> QED
  BY <1>2, <1>3, <1>4, <1>5, <1>6, <1>7 DEF Write

\* A write ends its request, or takes it to the purge, where it knows nothing.
LEMMA WriteStaysSerial ==
    ASSUME IInv, Serial, OneAtATime, NEW r \in Requests, Write(r)
    PROVE  Serial'
<1> DEFINE q == requests[r]
<1>1. q \in Request /\ KnowsAll(q, lists, tasks) /\ Fresh(q)
  BY MoverKnows DEF Serial
<1>2. requests \in [Requests -> Request]
  BY DEF IInv, TypeOK
<1>3. /\ q.step = "write" => q.list \in Lists
      /\ q.step = "write" /\ q.op \in TaskOps \cup {"restoreTask"} => q.task \in Tasks
  BY <1>1 DEF KnowsAll, KnowsItsList, KnowsItsTask, PastTask
<1>4. AssigneeIsMember'
  <2>1. ASSUME WriteAssign(r), ~UNCHANGED db
        PROVE  q.target \in members[tasks[q.task].list] \cup {Nobody}
    <3>1. q.op = "assign" /\ q.step = "write" /\ AssignTask(q.task, q.target)
      BY <2>1 DEF WriteAssign, Writing, At
    <3>2. q.task \in Tasks /\ tasks[q.task].list = q.list
      BY <1>1, <1>3, <3>1
         DEF AssignTask, Exists, KnowsAll, KnowsItsTask, TaskOps, PastTask
    <3> QED
      BY <1>1, <3>1, <3>2 DEF Fresh
  <2> QED
    BY <2>1, WriteKeepsAssignees DEF Serial
<1>5. \/ Finish(r)
      \/ Goto(r, "purgeTasks") /\ q.op # "leave"
      \/ Goto(r, "purgeLists") /\ q.step = "purgeTasks"
  BY DEF Write, WriteJoin, WriteClaim, WriteDeleteList, WriteRestoreList, WriteResetInvite,
         WriteRemoveMember, WriteAddTask, WriteAssign, WriteDeleteTask, WriteRestoreTask,
         RunPurgeTasks, RunPurgeLists, Writing, At
<1>6. Fresh(requests[r])'
  <2>1. CASE Finish(r)
    BY <1>2, <2>1 DEF Finish, Idle, Fresh, PastList
  <2>2. ASSUME NEW step \in {"purgeTasks", "purgeLists"}, Goto(r, step)
        PROVE  Fresh(requests[r])'
    BY <1>1, <1>2, <2>2 DEF Goto, Request, Fresh, PastList
  <2> QED
    BY <1>5, <2>1, <2>2
<1> QED
  BY <1>4, <1>6 DEF Serial, OneAtATime

\* The invariant of a server that works on one request at a time.
LEMMA NextSerial ==
    ASSUME OneAtATime, IInv, Serial, [Next]_vars
    PROVE  Serial'
<1>1. ASSUME NEW r \in Requests, Arrive(r) \/ Read(r) \/ Write(r)
      PROVE  Serial'
  BY <1>1, ArriveStaysSerial, ReadStaysSerial, WriteStaysSerial
<1>2. CASE Restart
  <2>1. AssigneeIsMember'
    BY <1>2, StatementKeepsAssignees DEF Restart, Serial
  <2> QED
    BY <1>2, <2>1 DEF Restart, Serial, Idle, Fresh, PastList
<1>3. CASE ADayPasses
  <2>1. AssigneeIsMember'
    BY <1>3, StatementKeepsAssignees DEF ADayPasses, Serial
  <2>2. /\ requests' = requests /\ members' = members
        /\ \A l \in Lists : /\ lists'[l].owner = lists[l].owner
                            /\ lists'[l].code = lists[l].code
    BY <1>3 DEF ADayPasses, ListExpires, TaskExpires, IInv, TypeOK, ListRow
  <2>3. \A r \in Requests : requests[r].step \in PastList => requests[r].list \in Lists
    BY MoverKnows DEF KnowsAll, KnowsItsList, PastTask, PastList
  <2> QED
    BY <2>1, <2>2, <2>3 DEF Serial, Fresh, PastList
<1>4. CASE UNCHANGED vars
  BY <1>4 DEF vars, Serial, AssigneeIsMember, Fresh
<1> QED
  BY <1>1, <1>2, <1>3, <1>4 DEF Next

\* A new database assigns nothing and works on nothing.
LEMMA InitSerial == Init => Serial
BY DEF Init, StoreInit, AbsentTask, Serial, AssigneeIsMember, Idle, Fresh, PastList

\* Both invariants hold in every state of such a server.
LEMMA SerialInvariance ==
    ASSUME OneAtATime
    PROVE  Spec => [](IInv /\ Serial)
<1>1. IInv /\ Serial /\ [Next]_vars => Serial'
  BY NextSerial
<1>2. Spec => []Serial
  BY <1>1, InitSerial, Invariance, PTL DEF Spec
<1> QED
  BY <1>2, Invariance, PTL

\* When requests do not overlap, work is only ever left with somebody who is
\* on the list, through claims, removals, the trash, purges and restarts
\* (AssigneeIsMember).  When they do overlap it is not: AssignTask checks and
\* writes in two statements.
THEOREM AssigneesBelong ==
    ASSUME OneAtATime
    PROVE  Spec => []AssigneeIsMember
<1>1. Serial => AssigneeIsMember
  BY DEF Serial
<1> QED
  BY SerialInvariance, <1>1, PTL

----------------------------------------------------------------------------
(* Who may do what, one request at a time.                                 *)

\* What OnlyOwnerManages asks of one step ...
ManagedByOwner ==
    \A l \in Lists : ~Public(l) =>
          /\ Managed(l) => \E r \in Requests :
                               Moves(r) /\ requests[r].actor = lists[l].owner
          /\ \A u \in members[l] \ members'[l] :
                 \/ ~Exists(lists'[l])
                 \/ \E r \in Requests :
                        Moves(r) /\ requests[r].actor \in {lists[l].owner, u}

\* ... and what JoinNeedsCurrentInvite does.
JoinedByInvite ==
    \A l \in Lists : \A u \in members'[l] \ members[l] :
          \/ u = lists'[l].owner
          \/ \E r \in Requests : Moves(r) /\ requests[r].code = lists[l].code

\* Statements that trash, restore or re-invite nothing and touch no member, or
\* that only an owner's new membership or the purge comes with.
LEMMA QuietStatements ==
    ASSUME IInv,
           \/ UNCHANGED db
           \/ \E l, u, c : CreateList(l, u, c)
           \/ \E l, u : ClaimList(l, u)
           \/ \E l : ListExpires(l)
           \/ \E t, l : AddTask(t, l)
           \/ \E t, u : AssignTask(t, u)
           \/ \E t : TrashTask(t) \/ UntrashTask(t) \/ TaskExpires(t)
           \/ PurgeTasks \/ PurgeLists \/ PurgeOnOpen
    PROVE  ManagedByOwner /\ JoinedByInvite
<1> USE DEF IInv, TypeOK, ManagedByOwner, JoinedByInvite, Managed, Exists, Trashed, Public
<1>1. CASE \/ UNCHANGED db
           \/ \E t, l : AddTask(t, l)
           \/ \E t, u : AssignTask(t, u)
           \/ \E t : TrashTask(t) \/ UntrashTask(t) \/ TaskExpires(t)
  <2>1. lists' = lists /\ members' = members
    BY <1>1 DEF db, AddTask, AssignTask, TrashTask, UntrashTask, TaskExpires
  <2> QED
    BY <2>1
<1>2. CASE \E l, u, c : CreateList(l, u, c)
  <2>1. PICK l, u, c : CreateList(l, u, c)
    BY <1>2
  <2>2. /\ \A k \in Lists \ {l} : lists'[k] = lists[k] /\ members'[k] = members[k]
        /\ l \in Lists => /\ lists[l].state = "unmade" /\ members'[l] = {u}
                          /\ lists'[l].owner = u
    BY <2>1 DEF CreateList
  <2>3. l \in Lists => Public(l)
    BY <2>2 DEF ListsKept
  <2> QED
    BY <2>2, <2>3
<1>3. CASE \E l, u : ClaimList(l, u)
  <2>1. PICK l, u : ClaimList(l, u)
    BY <1>3
  <2>2. /\ \A k \in Lists \ {l} : lists'[k] = lists[k] /\ members'[k] = members[k]
        /\ l \in Lists => /\ lists[l].owner = Nobody /\ lists'[l].owner = u
                          /\ members'[l] = members[l] \cup {u}
    BY <2>1 DEF ClaimList, ListRow
  <2> QED
    BY <2>2
<1>4. CASE \E l : ListExpires(l)
  <2>1. /\ members' = members
        /\ \A k \in Lists : /\ lists'[k].code = lists[k].code
                            /\ \/ lists'[k].state = lists[k].state
                               \/ lists'[k].state = "expired"
    BY <1>4 DEF ListExpires, ListRow
  <2> QED
    BY <2>1
<1>5. CASE PurgeTasks \/ PurgeLists \/ PurgeOnOpen
  <2>1. \A l \in Lists : \/ lists'[l] = lists[l] /\ members'[l] = members[l]
                         \/ lists'[l].state = "purged" /\ members'[l] = {}
    BY <1>5 DEF PurgeTasks, PurgeLists, PurgeOnOpen, Destroy, AbsentList
  <2> QED
    BY <2>1
<1> QED
  BY <1>1, <1>2, <1>3, <1>4, <1>5

\* A request that writes is one that moves.
LEMMA WriterMoves ==
    ASSUME IInv, NEW r \in Requests, requests[r].step = "write",
           Finish(r) \/ Goto(r, "purgeTasks")
    PROVE  Moves(r)
BY DEF IInv, TypeOK, Finish, Goto, Idle, Moves, Request

\* What a manager's request read of the owner is still so when it writes.
LEMMA ManagerIsOwner ==
    ASSUME IInv, Serial, NEW r \in Requests, requests[r].step = "write",
           requests[r].op \in ManagerOps \cup {"restoreList"}
    PROVE  /\ requests[r].list \in Lists
           /\ ~Public(requests[r].list)
                  => requests[r].actor = lists[requests[r].list].owner
<1>1. KnowsAll(requests[r], lists, tasks) /\ Fresh(requests[r])
  BY MoverKnows DEF Serial
<1> QED
  BY <1>1 DEF KnowsAll, KnowsItsList, PastTask, PastList, Fresh, Public

\* The writes that manage a list or change who is on it.
LEMMA WriteIsAllowed ==
    ASSUME IInv, Serial, NEW r \in Requests, Write(r)
    PROVE  ManagedByOwner /\ JoinedByInvite
<1> DEFINE q == requests[r]
           l == q.list
<1>1. q \in Request /\ KnowsAll(q, lists, tasks) /\ Fresh(q)
  BY MoverKnows DEF Serial
<1>2. /\ lists \in [Lists -> ListRow] /\ members \in [Lists -> SUBSET Users]
      /\ q.step = "write" => l \in Lists
  BY <1>1 DEF IInv, TypeOK, KnowsAll, KnowsItsList, PastTask
<1>3. CASE UNCHANGED db
  BY <1>3, QuietStatements
<1>4. CASE \/ WriteClaim(r) \/ \E t \in Tasks : WriteAddTask(r, t)
           \/ WriteAssign(r) \/ WriteDeleteTask(r) \/ WriteRestoreTask(r)
           \/ RunPurgeTasks(r) \/ RunPurgeLists(r)
  <2>1. \/ UNCHANGED db
        \/ \E k, u : ClaimList(k, u)
        \/ \E t, k : AddTask(t, k)
        \/ \E t, u : AssignTask(t, u)
        \/ \E t : TrashTask(t) \/ UntrashTask(t)
        \/ PurgeTasks \/ PurgeLists
    BY <1>4 DEF WriteClaim, WriteAddTask, WriteAssign, WriteDeleteTask,
                WriteRestoreTask, RunPurgeTasks, RunPurgeLists
  <2> QED
    BY <2>1, QuietStatements
<1>5. CASE WriteJoin(r) /\ ~UNCHANGED db
  <2>1. q.op = "join" /\ q.step = "write" /\ AddMember(l, q.actor) /\ Moves(r)
    BY <1>5, WriterMoves DEF WriteJoin, Writing, At
  <2>2. lists[l].code = q.code
    BY <1>1, <2>1 DEF Fresh
  <2>3. /\ lists' = lists
        /\ \A k \in Lists : members[k] \subseteq members'[k]
        /\ \A k \in Lists \ {l} : members'[k] = members[k]
    BY <1>2, <2>1 DEF AddMember
  <2> HIDE DEF l
  <2>4. ManagedByOwner
    BY <2>3 DEF ManagedByOwner, Managed, Trashed
  <2>5. JoinedByInvite
    BY <2>1, <2>2, <2>3 DEF JoinedByInvite
  <2> QED
    BY <2>4, <2>5
<1>6. CASE \/ WriteDeleteList(r) \/ WriteRestoreList(r)
           \/ \E c \in Codes : WriteResetInvite(r, c)
  <2>1. /\ q.op \in ManagerOps \cup {"restoreList"} /\ q.step = "write"
        /\ Finish(r) \/ Goto(r, "purgeTasks")
    BY <1>6 DEF WriteDeleteList, WriteRestoreList, WriteResetInvite, Writing, At,
                ManagerOps
  <2>2. Moves(r) /\ (~Public(l) => q.actor = lists[l].owner)
    BY <2>1, WriterMoves, ManagerIsOwner
  <2>3. members' = members /\ \A k \in Lists \ {l} : lists'[k] = lists[k]
    BY <1>2, <1>6 DEF WriteDeleteList, WriteRestoreList, WriteResetInvite,
                      TrashList, UntrashList, ResetInvite, db
  <2> HIDE DEF l
  <2>4. ManagedByOwner
    BY <2>2, <2>3 DEF ManagedByOwner, Managed, Trashed
  <2>5. JoinedByInvite
    BY <2>3 DEF JoinedByInvite
  <2> QED
    BY <2>4, <2>5
<1>7. CASE WriteRemoveMember(r) /\ ~UNCHANGED db
  <2>1. /\ q.op \in {"leave", "remove"} /\ q.step = "write"
        /\ RemoveMember(l, q.target) /\ Moves(r)
    BY <1>7, WriterMoves DEF WriteRemoveMember, Writing, At
  <2>2. q.op = "remove" /\ ~Public(l) => q.actor = lists[l].owner
    BY <2>1, ManagerIsOwner DEF ManagerOps
  <2>3. q.op = "leave" => q.actor = q.target
    BY <1>1 DEF Fresh
  <2>4. /\ lists' = lists
        /\ \A k \in Lists \ {l} : members'[k] = members[k]
        /\ members'[l] = members[l] \ {q.target}
    BY <1>2, <2>1 DEF RemoveMember
  <2> HIDE DEF l
  <2>5. ManagedByOwner
    BY <2>1, <2>2, <2>3, <2>4 DEF ManagedByOwner, Managed, Trashed
  <2>6. JoinedByInvite
    BY <2>4 DEF JoinedByInvite
  <2> QED
    BY <2>5, <2>6
<1> QED
  BY <1>3, <1>4, <1>5, <1>6, <1>7 DEF Write

\* Every step of a server that works on one request at a time.
LEMMA StepIsAllowed ==
    ASSUME IInv, Serial, Next
    PROVE  ManagedByOwner /\ JoinedByInvite
<1>1. ASSUME NEW r \in Requests, Arrive(r)
      PROVE  ManagedByOwner /\ JoinedByInvite
  <2>1. UNCHANGED db \/ \E l, u, c : CreateList(l, u, c)
    BY <1>1 DEF Arrive, BeginOnList, BeginOnTask, BeginJoin, Create
  <2> QED
    BY <2>1, QuietStatements
<1>2. ASSUME NEW r \in Requests, Read(r)
      PROVE  ManagedByOwner /\ JoinedByInvite
  <2>1. UNCHANGED db
    BY <1>2 DEF Read, ReadInvite, ReadTask, ReadList, ReadMembership, ReadTrashedList,
                ReadTaskAgain, ReadAssignee
  <2> QED
    BY <2>1, QuietStatements
<1>3. ASSUME NEW r \in Requests, Write(r)
      PROVE  ManagedByOwner /\ JoinedByInvite
  BY <1>3, WriteIsAllowed
<1>4. CASE Restart \/ ADayPasses
  <2>1. PurgeOnOpen \/ (\E l : ListExpires(l)) \/ (\E t : TaskExpires(t))
    BY <1>4 DEF Restart, ADayPasses
  <2> QED
    BY <2>1, QuietStatements
<1> QED
  BY <1>1, <1>2, <1>3, <1>4 DEF Next

\* When requests do not overlap, only its owner deletes a list that has one,
\* brings it back, replaces its invite or puts anybody out (OnlyOwnerManages).
THEOREM OwnersManage ==
    ASSUME OneAtATime
    PROVE  Spec => OnlyOwnerManages
<1>1. IInv /\ Serial /\ [Next]_vars => [ManagedByOwner]_vars
  BY StepIsAllowed
<1>2. Spec => [][ManagedByOwner]_vars
  BY SerialInvariance, <1>1, PTL DEF Spec
<1> QED
  BY <1>2 DEF OnlyOwnerManages, ManagedByOwner

\* When requests do not overlap, an invite that was replaced lets nobody in
\* (JoinNeedsCurrentInvite).
THEOREM InvitesAreCurrent ==
    ASSUME OneAtATime
    PROVE  Spec => JoinNeedsCurrentInvite
<1>1. IInv /\ Serial /\ [Next]_vars => [JoinedByInvite]_vars
  BY StepIsAllowed
<1>2. Spec => [][JoinedByInvite]_vars
  BY SerialInvariance, <1>1, PTL DEF Spec
<1> QED
  BY <1>2 DEF JoinNeedsCurrentInvite, JoinedByInvite

----------------------------------------------------------------------------
(* Any number of requests, but nobody is put out or leaves: what           *)
(* ReadAssignee found is then still true when WriteAssign acts on it.      *)

NobodyLeaves == Handlers \cap {"remove", "leave"} = {}

\* An assignment about to be written is to a member, if its list exists.
Checked(q) ==
    /\ q.op = "assign" /\ q.step = "write" /\ q.target # Nobody
    /\ Exists(lists[q.list])
    => q.target \in members[q.list]

Settled ==
    /\ AssigneeIsMember
    /\ \A r \in Requests : /\ requests[r].op \in Handlers \cup {"none"}
                           /\ Checked(requests[r])

\* Only a removal takes somebody off a list that stays.
LEMMA MembersStay ==
    ASSUME NobodyLeaves, IInv, Settled, Next
    PROVE  \A l \in Lists : lists[l].state # "unmade" /\ Exists(lists'[l])
                                => members[l] \subseteq members'[l]
<1> USE DEF IInv, TypeOK
<1>1. CASE UNCHANGED members
  BY <1>1
<1>2. CASE \E l, u, c : CreateList(l, u, c)
  BY <1>2 DEF CreateList
<1>3. CASE \E l, u : ClaimList(l, u) \/ AddMember(l, u)
  BY <1>3 DEF ClaimList, AddMember
<1>4. CASE PurgeTasks \/ PurgeLists \/ PurgeOnOpen
  BY <1>4 DEF PurgeTasks, PurgeLists, PurgeOnOpen, Destroy, AbsentList, Exists, Trashed
<1>5. ASSUME NEW r \in Requests, WriteRemoveMember(r)
      PROVE  FALSE
  BY <1>5 DEF WriteRemoveMember, Writing, Settled, NobodyLeaves
<1>6. ASSUME NEW r \in Requests, Arrive(r) \/ Read(r)
      PROVE  UNCHANGED members \/ \E l, u, c : CreateList(l, u, c)
  BY <1>6 DEF Arrive, BeginOnList, BeginOnTask, BeginJoin, Create, Read, ReadInvite,
         ReadTask, ReadList, ReadMembership, ReadTrashedList, ReadTaskAgain,
         ReadAssignee, db
<1>7. ASSUME NEW r \in Requests, Write(r)
      PROVE  \/ UNCHANGED members
             \/ \E l, u : ClaimList(l, u) \/ AddMember(l, u)
             \/ PurgeTasks \/ PurgeLists
  BY <1>5, <1>7 DEF Write, WriteJoin, WriteClaim, WriteDeleteList, WriteRestoreList,
         WriteResetInvite, WriteAddTask, WriteAssign, WriteDeleteTask, WriteRestoreTask,
         RunPurgeTasks, RunPurgeLists, TrashList, UntrashList, ResetInvite, AddTask,
         AssignTask, TrashTask, UntrashTask, db
<1>8. CASE Restart \/ ADayPasses
  BY <1>4, <1>8 DEF Restart, ADayPasses, ListExpires, TaskExpires
<1> QED
  BY <1>1, <1>2, <1>3, <1>4, <1>6, <1>7, <1>8 DEF Next

\* How a request comes to be about to give a task to somebody: ReadAssignee.
LEMMA OnlyCheckedAssign ==
    ASSUME IInv, Settled, Next, NEW s \in Requests
    PROVE  /\ requests'[s].op \in Handlers \cup {"none"}
           /\ \/ requests'[s] = requests[s]
              \/ requests'[s].op # "assign"
              \/ requests'[s].step # "write"
              \/ requests'[s].target = Nobody
              \/ /\ UNCHANGED db
                 /\ requests'[s].target \in members[requests'[s].list]
<1> DEFINE Goal == /\ requests'[s].op \in Handlers \cup {"none"}
                   /\ \/ requests'[s] = requests[s]
                      \/ requests'[s].op # "assign"
                      \/ requests'[s].step # "write"
                      \/ requests'[s].target = Nobody
                      \/ /\ UNCHANGED db
                         /\ requests'[s].target \in members[requests'[s].list]
<1>1. requests \in [Requests -> Request] /\ requests[s].op \in Handlers \cup {"none"}
  BY DEF IInv, TypeOK, Settled
<1>2. CASE requests'[s] = requests[s]
  BY <1>1, <1>2
<1>3. CASE requests'[s] = Idle
  BY <1>3 DEF Idle
<1>4. ASSUME NEW r \in Requests, Finish(r)
      PROVE  requests'[s] \in {requests[s], Idle}
  BY <1>1, <1>4 DEF Finish
<1>5. ASSUME NEW r \in Requests, NEW step, Goto(r, step),
             step # "write" \/ requests[r].op # "assign" \/ requests[r].target = Nobody
      PROVE  Goal
  BY <1>1, <1>5 DEF Goto, Request
<1>6. ASSUME NEW r \in Requests, Arrive(r)
      PROVE  Goal
  <2>1. ASSUME NEW op \in Operations, NEW a \in Actors, NEW l \in Lists,
               BeginOnList(r, op, a, l)
        PROVE  Goal
    BY <1>1, <2>1 DEF BeginOnList, MayCall, Idle
  <2>2. ASSUME NEW op \in Operations, NEW a \in Actors, NEW t \in Tasks,
               BeginOnTask(r, op, a, t)
        PROVE  Goal
    BY <1>1, <2>2 DEF BeginOnTask, MayCall, Idle
  <2>3. ASSUME NEW u \in Users, NEW c \in Codes, BeginJoin(r, u, c)
        PROVE  Goal
    BY <1>1, <2>3 DEF BeginJoin, MayCall, Idle
  <2>4. ASSUME NEW u \in Users, NEW l \in Lists, NEW c \in Codes, Create(r, u, l, c)
        PROVE  Goal
    BY <1>2, <2>4 DEF Create
  <2> QED
    BY <1>6, <2>1, <2>2, <2>3, <2>4 DEF Arrive
<1>7. ASSUME NEW r \in Requests, Read(r)
      PROVE  Goal
  <2> DEFINE q == requests[r]
  <2>1. q \in Request /\ KnowsAll(q, lists, tasks)
    BY MoverKnows
  <2>2. CASE Finish(r)
    BY <1>2, <1>3, <1>4, <2>2
  <2>3. ASSUME ReadInvite(r), ~Finish(r)
        PROVE  Goal
    <3>1. PICK l \in Lists :
              requests' = [requests EXCEPT ![r].list = l, ![r].step = "write",
                                           ![r].owner = lists[l].owner]
      BY <2>3 DEF ReadInvite
    <3>2. q.op = "join"
      BY <2>1, <2>3 DEF ReadInvite, At, KnowsAll, KnowsItself
    <3> QED
      BY <1>1, <3>1, <3>2 DEF Request
  <2>4. ASSUME ReadTask(r), ~Finish(r)
        PROVE  Goal
    <3>1. requests' = [requests EXCEPT ![r].list = tasks[q.task].list, ![r].step = "list"]
      BY <2>4 DEF ReadTask
    <3> QED
      BY <1>1, <3>1 DEF Request
  <2>5. ASSUME NEW owner, Proceed(r, owner)
        PROVE  Goal
    BY <1>1, <1>2, <1>3, <1>4, <2>5 DEF Proceed, Request, TaskOps
  <2>6. ASSUME ReadList(r), ~Finish(r)
        PROVE  Goal
    <3>1. CASE Proceed(r, Nobody)
      BY <2>5, <3>1
    <3>2. CASE requests' = [requests EXCEPT ![r].owner = lists[q.list].owner,
                                            ![r].step = "member"]
      BY <1>1, <3>2 DEF Request
    <3> QED
      BY <2>6, <3>1, <3>2 DEF ReadList
  <2>7. ASSUME ReadMembership(r), ~Finish(r)
        PROVE  Goal
    BY <2>5, <2>7 DEF ReadMembership
  <2>8. ASSUME ReadTrashedList(r), ~Finish(r)
        PROVE  Goal
    BY <1>1, <2>8 DEF ReadTrashedList, Request
  <2>9. ASSUME ReadTaskAgain(r), ~Finish(r)
        PROVE  Goal
    BY <1>5, <2>9 DEF ReadTaskAgain
  <2>10. ASSUME ReadAssignee(r), ~Finish(r)
         PROVE  Goal
    BY <1>1, <2>10 DEF ReadAssignee, IsMember, Goto, Request
  <2> HIDE DEF Goal
  <2> QED
    BY <1>7, <2>2, <2>3, <2>4, <2>6, <2>7, <2>8, <2>9, <2>10 DEF Read
<1>8. ASSUME NEW r \in Requests, Write(r)
      PROVE  Goal
  <2>1. Finish(r) \/ Goto(r, "purgeTasks") \/ Goto(r, "purgeLists")
    BY <1>8 DEF Write, WriteJoin, WriteClaim, WriteDeleteList, WriteRestoreList,
         WriteResetInvite, WriteRemoveMember, WriteAddTask, WriteAssign, WriteDeleteTask,
         WriteRestoreTask, RunPurgeTasks, RunPurgeLists
  <2> QED
    BY <1>2, <1>3, <1>4, <1>5, <2>1
<1>9. CASE Restart \/ ADayPasses
  BY <1>2, <1>3, <1>9 DEF Restart, ADayPasses
<1> HIDE DEF Goal
<1> QED
  BY <1>6, <1>7, <1>8, <1>9 DEF Next, Goal

\* Every statement leaves assignments with members.
LEMMA StepKeepsAssignees ==
    ASSUME IInv, Settled, Next
    PROVE  AssigneeIsMember'
<1>1. ASSUME NEW r \in Requests, Arrive(r)
      PROVE  AssigneeIsMember'
  BY <1>1, StatementKeepsAssignees
     DEF Settled, Arrive, BeginOnList, BeginOnTask, BeginJoin, Create
<1>2. ASSUME NEW r \in Requests, Read(r)
      PROVE  AssigneeIsMember'
  BY <1>2, StatementKeepsAssignees
     DEF Settled, Read, ReadInvite, ReadTask, ReadList, ReadMembership, ReadTrashedList,
         ReadTaskAgain, ReadAssignee
<1>3. ASSUME NEW r \in Requests, Write(r)
      PROVE  AssigneeIsMember'
  <2>1. requests[r] \in Request /\ KnowsAll(requests[r], lists, tasks) /\ Checked(requests[r])
    BY MoverKnows DEF Settled
  <2>2. ASSUME WriteAssign(r), ~UNCHANGED db
        PROVE  requests[r].target \in members[tasks[requests[r].task].list] \cup {Nobody}
    <3>1. /\ requests[r].op = "assign" /\ requests[r].step = "write"
          /\ AssignTask(requests[r].task, requests[r].target)
      BY <2>2 DEF WriteAssign, Writing, At
    <3>2. /\ requests[r].task \in Tasks /\ Exists(tasks[requests[r].task])
          /\ tasks[requests[r].task].list = requests[r].list
      BY <2>1, <3>1 DEF AssignTask, Exists, KnowsAll, KnowsItsTask, TaskOps, PastTask
    <3>3. Exists(lists[requests[r].list])
      BY <3>2 DEF IInv, TasksKept
    <3> QED
      BY <2>1, <3>1, <3>2, <3>3 DEF Checked
  <2> QED
    BY <1>3, <2>1, <2>2, WriteKeepsAssignees DEF Settled
<1>4. CASE Restart \/ ADayPasses
  BY <1>4, StatementKeepsAssignees DEF Settled, Restart, ADayPasses
<1> QED
  BY <1>1, <1>2, <1>3, <1>4 DEF Next

\* The invariant of a server from whose lists nobody is taken.
LEMMA NextSettled ==
    ASSUME NobodyLeaves, IInv, Settled, [Next]_vars
    PROVE  Settled'
<1>1. CASE Next
  <2>1. AssigneeIsMember'
    BY <1>1, StepKeepsAssignees
  <2>2. ASSUME NEW s \in Requests
        PROVE  requests'[s].op \in Handlers \cup {"none"} /\ Checked(requests[s])'
    <3>1. KnowsAll(requests[s], lists, tasks) /\ Checked(requests[s]) /\ RowsKept
      BY <1>1, MoverKnows, NextIInv DEF Settled
    <3>2. requests[s].step = "write" => /\ requests[s].list \in Lists
                                        /\ lists[requests[s].list].state # "unmade"
      BY <3>1 DEF KnowsAll, KnowsItsList, PastTask, PastList
    <3>3. requests'[s] = requests[s] => Checked(requests[s])'
      BY <1>1, <3>1, <3>2, MembersStay DEF Checked, RowsKept
    <3> QED
      BY <1>1, <3>3, OnlyCheckedAssign DEF Checked, db
  <2> QED
    BY <2>1, <2>2 DEF Settled
<1>2. CASE UNCHANGED vars
  BY <1>2 DEF vars, Settled, AssigneeIsMember, Checked, Exists, Trashed
<1> QED
  BY <1>1, <1>2

\* While nobody is removed and nobody leaves, work is only ever left with
\* members however many requests overlap (AssigneeIsMember): an assignment
\* overtaken by a removal is the only way it comes to be otherwise.
THEOREM OnlyRemovalsOvertake ==
    ASSUME NobodyLeaves
    PROVE  Spec => []AssigneeIsMember
<1>1. Init => Settled
  BY DEF Init, StoreInit, AbsentTask, Settled, AssigneeIsMember, Idle, Checked
<1>2. IInv /\ Settled /\ [Next]_vars => Settled'
  BY NextSettled
<1>3. Settled => AssigneeIsMember
  BY DEF Settled
<1> QED
  BY <1>1, <1>2, <1>3, Invariance, PTL DEF Spec

=============================================================================
