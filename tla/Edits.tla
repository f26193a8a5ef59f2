------------------------------- MODULE Edits -------------------------------
(***************************************************************************)
(* Editing, assigning and finishing tasks (internal/store/store.go), by    *)
(* requests that read a task, decide, and write some of its columns.       *)
(*                                                                         *)
(* SQLite runs one statement at a time, and requests come between each     *)
(* other's statements.  A column holds the number of the request that      *)
(* wrote it last, so that two edits are never taken for one another.  Who  *)
(* may see the list, and whether an assignee stays on it, is in Sharing.   *)
(***************************************************************************)
EXTENDS Naturals, FiniteSets

CONSTANTS
    Tasks,
    Columns,      \* what UpdateTask writes: title, description, due_date
    Asks,         \* what requests ask for in this model (a bound)
    Slots,        \* requests at work at once (a bound)
    MaxRequests,  \* requests in all (a bound)
    MaxTime,      \* how far the clock may get (a bound)
    MaxRestarts,  \* how often the server starts again (a bound)
    None

\* One request body: the columns it names, whom it gives the task to, and
\* whether it ticks it.  "toggle" is the page's tick box.
Ask == [task: Tasks, names: SUBSET Columns,
        to: {"nobody asked", "a member", "a stranger"},
        done: {"as it is", "done", "not done", "toggle"},
        trash: {"no", "delete", "restore"}]

ASSUME EditsConstants ==
    /\ Asks \subseteq Ask
    /\ Columns \cap {"assignee", "done"} = {}
    /\ IsFiniteSet(Slots)
    /\ MaxRequests \in Nat /\ MaxTime \in Nat \ {0} /\ MaxRestarts \in Nat

Requests == 1 .. MaxRequests
Writers == {0} \cup Requests     \* 0: as it was when the task was added
Never == 0                       \* done_at is NULL; times start at 1
Times == 1 .. MaxTime + MaxRequests

VARIABLES
    tasks,      \* tasks[t]: live or in the trash, columns, assignee, done_at
    requests,   \* requests[s]: the request in slot s
    begun,      \* how many requests there have been
    clock,      \* what time.Now() says, in steps of the machine's clock
    lastDone,   \* Store.lastDone
    restarts    \* how often the server was started again

TaskRow == [live: BOOLEAN, columns: [Columns -> Writers], assignee: Writers,
            done: BOOLEAN, at: Times \cup {Never}]

Steps == {"access", "read", "update", "reread", "assign", "time", "finish",
          "trash", "answer"}
Request == [step: Steps, id: Requests, ask: Ask,
            row: TaskRow,                \* the task as it was last read
            at: Times \cup {Never},      \* the finish time it was given
            refused: BOOLEAN,
            after: SUBSET (Times \cup {Never}),   \* history: the finish times
                                         \* in the tables when it began
            wrote: SUBSET (Columns \cup {"assignee", "done"}),   \* history
            beside: SUBSET Requests]     \* history: the requests at work when it
                                         \* began, or that began since

ASSUME NoneIsNoRequest == None \notin Request

NewTask == [live |-> TRUE, columns |-> [c \in Columns |-> 0], assignee |-> 0,
            done |-> FALSE, at |-> Never]

Init ==
    /\ tasks = [t \in Tasks |-> NewTask]
    /\ requests = [s \in Slots |-> None]
    /\ begun = 0 /\ clock = 1 /\ lastDone = Never /\ restarts = 0

server == <<begun, clock, lastDone, restarts>>
vars == <<tasks, requests, server>>

At(s, step) == requests[s] # None /\ requests[s].step = step
Working == {s \in Slots : requests[s] # None}
Task(s) == tasks[requests[s].ask.task]
Put(s, r) == requests' = [requests EXCEPT ![s] = r]
Set(s, row) == tasks' = [tasks EXCEPT ![requests[s].ask.task] = row]
Refuse(s) == Put(s, [requests[s] EXCEPT !.step = "answer", !.refused = TRUE])

----------------------------------------------------------------------------
(* apiPatchTask: edit, assign and tick, in this order, each its own        *)
(* commit.  The forms and the tick box each do one of the three.           *)

\* A slip: a request that edits a task does not assign it as well.
NextPartOfOne(r, parts) ==
    IF "edit" \in parts /\ r.ask.names # {} THEN "read"
    ELSE IF "assign" \in parts /\ r.ask.to # "nobody asked" /\ r.ask.names = {} THEN "reread"
    ELSE IF r.ask.done = "as it is" THEN "answer"
    ELSE IF r.ask.done = "done" THEN "time" ELSE "finish"

\* The tick is the last part, so it is always still to come here.
NextPart(r, parts) ==
    IF "edit" \in parts /\ r.ask.names # {} THEN "read"
    ELSE IF "assign" \in parts /\ r.ask.to # "nobody asked" THEN "reread"
    ELSE IF r.ask.done = "as it is" THEN "answer"
    ELSE IF r.ask.done = "done" THEN "time" ELSE "finish"

Begin(s, ask) ==
    /\ requests[s] = None /\ begun < MaxRequests
    /\ begun' = begun + 1
    /\ LET r == [step |-> "access", id |-> begun + 1, ask |-> ask, row |-> NewTask,
                 at |-> Never, refused |-> FALSE, wrote |-> {},
                 after |-> {tasks[t].at : t \in Tasks},
                 beside |-> {requests[v].id : v \in Working}]
       IN requests' = [v \in Slots |->
              IF v = s THEN r
              ELSE IF v \in Working THEN [requests[v] EXCEPT !.beside = @ \cup {r.id}]
              ELSE None]
    /\ UNCHANGED <<tasks, clock, lastDone, restarts>>

\* TaskAccess; RestoreTask looks for a task in the trash.  formToggleTask asks
\* for the opposite of what it finds.
Access(s) ==
    /\ At(s, "access")
    /\ LET r == requests[s]
           toggled == IF r.ask.done # "toggle" THEN r
                      ELSE [r EXCEPT !.ask.done = IF Task(s).done THEN "not done" ELSE "done"]
       IN IF Task(s).live = (r.ask.trash = "restore") THEN Refuse(s)
          ELSE Put(s, [toggled EXCEPT
                   !.row = Task(s),
                   !.step = IF r.ask.trash # "no" THEN "trash"
                            ELSE NextPart(toggled, {"edit", "assign"})])
    /\ UNCHANGED <<tasks, server>>

\* UpdateTask and AssignTask read the task themselves.
Reread(s, from, to) ==
    /\ At(s, from)
    /\ IF Task(s).live
       THEN Put(s, [requests[s] EXCEPT !.row = Task(s), !.step = to])
       ELSE Refuse(s)
    /\ UNCHANGED <<tasks, server>>

\* A slip: only the columns that were named are kept.
ColumnsForgotten(r) == [c \in Columns |-> IF c \in r.ask.names THEN r.id ELSE 0]

ColumnsOf(r) == [c \in Columns |-> IF c \in r.ask.names THEN r.id ELSE r.row.columns[c]]

\* UpdateTask's UPDATE: all columns, wherever the task is by now.
Update(s) ==
    /\ At(s, "update")
    /\ LET r == requests[s] IN
           /\ Set(s, [Task(s) EXCEPT !.columns = ColumnsOf(r)])
           /\ IF Task(s).live
              THEN Put(s, [r EXCEPT !.wrote = @ \cup r.ask.names,
                                    !.step = NextPart(r, {"assign"})])
              ELSE Refuse(s)
    /\ UNCHANGED server

\* A slip: a task in the trash is given away all the same.
AssignAnyway(s) ==
    /\ At(s, "assign")
    /\ LET r == requests[s] IN
           /\ Set(s, [Task(s) EXCEPT !.assignee = r.id])
           /\ Put(s, [r EXCEPT !.wrote = @ \cup {"assignee"}, !.step = NextPart(r, {})])
    /\ UNCHANGED server

\* AssignTask: whoever is not on the list is refused; then UPDATE ... WHERE
\* deleted_at IS NULL, and the task is read once more.
Assign(s) ==
    /\ At(s, "assign")
    /\ LET r == requests[s] IN
           IF r.ask.to = "a stranger" \/ ~Task(s).live
           THEN Refuse(s) /\ UNCHANGED tasks
           ELSE /\ Set(s, [Task(s) EXCEPT !.assignee = r.id])
                /\ Put(s, [r EXCEPT !.wrote = @ \cup {"assignee"},
                                    !.step = NextPart(r, {})])
    /\ UNCHANGED server

\* A slip: the clock is all a finish time is.
ClockOnly(now) == now

\* A slip: a finish time is only kept apart from the one before it.
ClockUnlessSame(now) == IF now # lastDone THEN now ELSE lastDone + 1

\* A slip: the last finish time is added, not compared.
ClockAdded(now) == lastDone + now + 1

\* now, or just after the last finish time handed out
FinishTime(now) == IF now > lastDone THEN now ELSE lastDone + 1

\* SetDone -> finishTime, under its mutex
TakeTime(s) ==
    /\ At(s, "time")
    /\ lastDone' = FinishTime(clock)
    /\ Put(s, [requests[s] EXCEPT !.at = lastDone', !.step = "finish"])
    /\ UNCHANGED <<tasks, begun, clock, restarts>>

\* SetDone's UPDATE ... WHERE deleted_at IS NULL
Finish(s) ==
    /\ At(s, "finish")
    /\ LET r == requests[s] IN
           IF Task(s).live
           THEN /\ Set(s, [Task(s) EXCEPT !.done = (r.ask.done = "done"), !.at = r.at])
                /\ Put(s, [r EXCEPT !.wrote = @ \cup {"done"}, !.step = "answer"])
           ELSE Refuse(s) /\ UNCHANGED tasks
    /\ UNCHANGED server

\* DeleteTask and RestoreTask; what purging does is in Sharing.
Trash(s) ==
    /\ At(s, "trash")
    /\ Set(s, [Task(s) EXCEPT !.live = (requests[s].ask.trash = "restore")])
    /\ Put(s, [requests[s] EXCEPT !.step = "answer"])
    /\ UNCHANGED server

Answer(s) ==
    /\ At(s, "answer")
    /\ requests' = [requests EXCEPT ![s] = None]
    /\ UNCHANGED <<tasks, server>>

Serve(s) ==
    \/ Access(s) \/ Reread(s, "read", "update") \/ Update(s)
    \/ Reread(s, "reread", "assign") \/ Assign(s)
    \/ TakeTime(s) \/ Finish(s) \/ Trash(s) \/ Answer(s)

----------------------------------------------------------------------------
(* The clock moves in steps and may be set back; a restart forgets the     *)
(* requests and lastDone.                                                  *)

Tick ==
    /\ clock < MaxTime /\ clock' = clock + 1
    /\ UNCHANGED <<tasks, requests, begun, lastDone, restarts>>

SetBack ==
    /\ clock > 1 /\ clock' = clock - 1
    /\ UNCHANGED <<tasks, requests, begun, lastDone, restarts>>

Restart ==
    /\ restarts < MaxRestarts /\ restarts' = restarts + 1
    /\ requests' = [s \in Slots |-> None]
    /\ lastDone' = Never
    /\ UNCHANGED <<tasks, begun, clock>>

Next ==
    \/ \E s \in Slots : Serve(s) \/ \E ask \in Asks : Begin(s, ask)
    \/ Tick \/ SetBack \/ Restart

Spec == Init /\ [][Next]_vars

----------------------------------------------------------------------------
(* Properties.                                                             *)

\* Every table and request holds values of its kind.
TypeOK ==
    /\ tasks \in [Tasks -> TaskRow]
    /\ requests \in [Slots -> Request \cup {None}]
    /\ begun \in 0 .. MaxRequests
    /\ clock \in 1 .. MaxTime
    /\ lastDone \in Times \cup {Never}
    /\ restarts \in 0 .. MaxRestarts

\* "two ticked in the same instant ... must still get different ones"
\* (store.go:127-128): finished tasks of one run of the server have different
\* finish times, whatever the clock does and however the requests overlap.
FinishTimesDiffer ==
    restarts = 0 =>
        \A t, u \in Tasks : tasks[t].done /\ tasks[u].done /\ t # u
                            => tasks[t].at # tasks[u].at

\* "most recently finished first" (README.md:159-160, order_test.go): a tick
\* that begins when another has been made gets the later finish time, even
\* when the clock was set back in between, as long as the server was up.
FinishedInOrder ==
    [][\A s \in Slots : At(s, "finish") /\ Task(s).live /\ restarts = 0
           => LET t == requests[s].ask.task IN
              Finish(s) /\ tasks'[t].done => \A x \in requests[s].after : tasks'[t].at > x]_vars

\* "WHERE id = ? AND deleted_at IS NULL" (store.go:947, 969): a task that is
\* in the trash keeps its assignee and its tick, whoever was in the middle of
\* changing them when it was deleted, so that an undo brings back what was
\* deleted.  (Its columns it does not keep: UpdateTask has no such condition.)
TrashKeepsTheTask ==
    [][\A t \in Tasks : ~tasks[t].live
           => /\ tasks'[t].assignee = tasks[t].assignee
              /\ tasks'[t].done = tasks[t].done /\ tasks'[t].at = tasks[t].at]_vars

\* "nil fields are left alone" (store.go:115): an edit leaves what it does not
\* name as it is, unless other requests were at work at the same time.  (Then it
\* may not: UpdateTask writes all columns as it read them, and two edits of
\* different columns at once lose one.)
NilFieldsLeftAlone ==
    [][\A s \in Slots : At(s, "update") /\ Update(s) =>
           LET r == requests[s] IN
           r.beside = {} => \A c \in Columns \ r.ask.names :
                                tasks'[r.ask.task].columns[c] = Task(s).columns[c]]_vars

\* apiPatchTask answers with a task only when all it was asked has been done,
\* and one that is turned down part of the way has not ticked the task
\* (web.go:1733-1753): the parts are three commits, and anything may happen to
\* the task between them.
AnsweredForAll ==
    \A s \in Slots : At(s, "answer") /\ requests[s].ask.trash = "no" =>
        LET r == requests[s]
            asked == r.ask.names \cup (IF r.ask.to = "nobody asked" THEN {} ELSE {"assignee"})
                                 \cup (IF r.ask.done = "as it is" THEN {} ELSE {"done"})
        IN IF r.refused THEN "done" \notin r.wrote ELSE r.wrote = asked
=============================================================================
