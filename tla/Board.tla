------------------------------- MODULE Board -------------------------------
(***************************************************************************)
(* The Discord bot (internal/discordbot): one task board, that is a        *)
(* channel with a card for each task of a Doables list and a thread under  *)
(* each card that mirrors the task's comments.                             *)
(*                                                                         *)
(* The bot keeps its cards in a database of its own and works through two  *)
(* HTTP APIs, Doables' and Discord's.  Between any two of its calls people *)
(* change the list in the web app or remove messages in Discord, and the   *)
(* bot may be stopped.  boardLocks keeps its own handlers apart.  Who the  *)
(* people are in Doables, and whether they are on the list, is left open.  *)
(***************************************************************************)
EXTENDS Naturals, FiniteSets

CONSTANTS
    Tasks, People,
    Comments,    \* what may ever be said (a bound)
    Messages,    \* the messages the bot may ever send (a bound)
    Workers,     \* the handlers and looks at the list running at once (a bound)
    Roles,       \* Roles[w]: what w does in this model (a bound)
    Overlapping, \* what may run while something else does (a bound)
    Mishaps,     \* what may go wrong in this model (a bound)
    MaxMishaps,  \* and how often (a bound)
    Nobody, None

AllHandlers == {"add", "done", "assign", "sync", "message"}
AllMishaps == {"stop",      \* the bot is stopped and started again
               "lost",      \* a call is carried out, its answer never comes
               "refused",   \* a call is turned down, or never arrives
               "removed"}   \* somebody deletes a message of the bot

ASSUME BoardConstants ==
    /\ Roles \in [Workers -> SUBSET AllHandlers]
    /\ Overlapping \subseteq AllHandlers /\ Mishaps \subseteq AllMishaps
    /\ MaxMishaps \in Nat
    /\ IsFiniteSet(Comments)
    /\ Nobody \notin People
    /\ None \notin Tasks \cup Messages \cup Comments \cup Workers
    /\ Tasks \cap (Messages \cup Comments) = {}

VARIABLES
    tasks,      \* Doables' database
    shown,      \* shown[m]: what the bot's message m looks like in Discord
    copies,     \* copies[c]: how often comment c can be read in a thread
    cards,      \* the bot's table of cards
    mirrored,   \* the bot's table of comments that are in their thread
    lock,       \* who holds the board's lock
    jobs,       \* the handlers at work
    mishaps,    \* how many things have gone wrong
    unsure      \* history: what the bot cannot know, as it was stopped or got
                \* no answer: messages it sent, tasks whose card it edited,
                \* comments it put in a thread or took from one

discord == <<shown, copies>>
state == <<cards, mirrored>>
aux == <<mishaps, unsure>>
vars == <<tasks, discord, state, lock, jobs, aux>>

----------------------------------------------------------------------------
(* Tasks, cards and jobs.                                                  *)

TaskRow == [there: {"no", "live", "trashed"}, done: BOOLEAN,
            assignee: People \cup {Nobody}, comments: SUBSET Comments]
NoTask == [there |-> "no", done |-> FALSE, assignee |-> Nobody, comments |-> {}]

\* Go's zero Task: number 0, which does not exist, but not done either.
Zero == None
ZeroTask == [NoTask EXCEPT !.there = "live"]
Subjects == Tasks \cup {Zero}

\* What a card can show; a gone one has no buttons.
View == [state: {"todo", "done", "gone"}, whose: People \cup {Nobody}]
Gone == [state |-> "gone", whose |-> Nobody]

\* What a message can look like that is not a card.
Unsent == [state |-> "unsent", whose |-> Nobody]
Removed == [state |-> "removed", whose |-> Nobody]

\* render: a row that is not there, or in the trash, is shown as gone.
Render(row) ==
    IF row.there # "live" THEN Gone
    ELSE [state |-> IF row.done THEN "done" ELSE "todo", whose |-> row.assignee]

\* The cards table; msg is None where there is no row.
Card == [msg: Messages \cup {None}, thread: BOOLEAN, render: View,
         comments: 0 .. Cardinality(Comments), gone: BOOLEAN]
NoCard == [msg |-> None, thread |-> FALSE, render |-> Gone, comments |-> 0,
           gone |-> FALSE]

Steps == {"idle", "lock", "find", "write", "add", "list", "look", "edit", "save",
          "post", "thread", "fetch", "copy", "mark", "said", "record"}

Job == [op: AllHandlers \cup {"none"}, step: Steps,
        task: Subjects,
        card: Card,                   \* as this handler read or made it
        row: TaskRow,                 \* as this handler last read it
        whose: People \cup {Nobody},  \* whom the task is to be given to
        rows: [Tasks -> TaskRow],     \* a look: the list as it was fetched
        left: SUBSET Subjects,        \* a look: what is still to be looked at
        queue: SUBSET Comments,       \* comments still to be copied
        count: 0 .. Cardinality(Comments)]   \* of how many in all

NoRows == [t \in Tasks |-> NoTask]
Idle == [op |-> "none", step |-> "idle", task |-> Zero, card |-> NoCard,
         row |-> NoTask, whose |-> Nobody, rows |-> NoRows, left |-> {},
         queue |-> {}, count |-> 0]

Init ==
    /\ tasks = NoRows
    /\ shown = [m \in Messages |-> Unsent]
    /\ copies = [c \in Comments |-> 0]
    /\ cards = [t \in Subjects |-> NoCard]
    /\ mirrored = {}
    /\ lock = None
    /\ jobs = [w \in Workers |-> Idle]
    /\ mishaps = 0 /\ unsure = {}

At(w, step) == jobs[w].step = step
Doing(w, op) == jobs[w].op = op
Becomes(w, job) == jobs' = [jobs EXCEPT ![w] = job] /\ UNCHANGED lock
Goto(w, step) == Becomes(w, [jobs[w] EXCEPT !.step = step])

\* The handler returns, and lets the lock go.
Return(w) == jobs' = [jobs EXCEPT ![w] = Idle] /\ lock' = None

\* One card is dealt with: a look goes on to the next, a handler returns.
Dealt(w) ==
    IF Doing(w, "sync")
    THEN Becomes(w, [Idle EXCEPT !.op = "sync", !.step = "look",
                                 !.rows = jobs[w].rows, !.left = jobs[w].left])
    ELSE Return(w)

Fine == UNCHANGED aux
Mishap(kind, what) ==
    /\ kind \in Mishaps /\ mishaps < MaxMishaps
    /\ mishaps' = mishaps + 1
    /\ unsure' = unsure \cup what

Live(t) == t # Zero /\ tasks[t].there = "live"
Said(c) == copies[c] > 0 \/ \E t \in Tasks : c \in tasks[t].comments

----------------------------------------------------------------------------
(* A handler starts.                                                       *)

Begin(w, job) ==
    /\ At(w, "idle") /\ job.op \in Roles[w]
    /\ \A v \in Workers : At(v, "idle") \/ {job.op, jobs[v].op} \subseteq Overlapping
    /\ Becomes(w, [job EXCEPT !.step = "lock"])
    /\ UNCHANGED <<tasks, shown, state, aux>>

\* pressDone, chooseAssignee: the card is read before the lock is taken.
Press(w, t, p) ==
    /\ cards[t].msg # None
    /\ \E op \in {"done", "assign"} :
           /\ op = "done" => p = Nobody
           /\ Begin(w, [Idle EXCEPT !.op = op, !.task = t, !.card = cards[t],
                                    !.whose = p])
    /\ UNCHANGED copies

\* cmdTask, for somebody or for nobody in particular
AddCommand(w, t, p) ==
    /\ tasks[t].there = "no" /\ \A v \in Workers : jobs[v].task # t
    /\ Begin(w, [Idle EXCEPT !.op = "add", !.task = t, !.whose = p])
    /\ UNCHANGED copies

\* HandleMessage: somebody says c in a task's thread.
Message(w, t, c) ==
    /\ cards[t].thread /\ ~Said(c)
    /\ Begin(w, [Idle EXCEPT !.op = "message", !.task = t, !.queue = {c}])
    /\ copies' = [copies EXCEPT ![c] = 1]

\* Run's ticker or the owner's live updates: syncAll, syncBoard
Look(w) == Begin(w, [Idle EXCEPT !.op = "sync"]) /\ UNCHANGED copies

FirstStep == [done |-> "find", assign |-> "write", add |-> "add",
              message |-> "said", sync |-> "list"]

\* lockBoard
Lock(w) ==
    /\ At(w, "lock") /\ lock = None
    /\ lock' = w
    /\ jobs' = [jobs EXCEPT ![w].step = FirstStep[jobs[w].op]]
    /\ UNCHANGED <<tasks, discord, state, aux>>

----------------------------------------------------------------------------
(* Buttons and /task: the calls to Doables.                                *)

\* pressDone -> findTask; a task that is not listed is shown as gone.
Find(w) ==
    /\ At(w, "find")
    /\ LET row == IF Live(jobs[w].task) THEN tasks[jobs[w].task] ELSE NoTask
       IN \/ /\ Fine
             /\ Becomes(w, [jobs[w] EXCEPT
                    !.row = row,
                    !.step = IF row.there = "live" THEN "write" ELSE "edit"])
          \/ Mishap("refused", {}) /\ Return(w)
    /\ UNCHANGED <<tasks, discord, state>>

\* SetDone to the opposite of what was found, or Assign.
Written(job) ==
    IF job.op = "done" THEN [tasks[job.task] EXCEPT !.done = ~job.row.done]
                       ELSE [tasks[job.task] EXCEPT !.assignee = job.whose]

\* The call failed.  cmdTask goes on, with what Assign returned: a zero Task.
CallFailed(w) ==
    IF Doing(w, "add")
    THEN Becomes(w, [jobs[w] EXCEPT !.task = Zero, !.row = ZeroTask, !.step = "post"])
    ELSE Return(w)

Write(w) ==
    /\ At(w, "write")
    /\ LET job == jobs[w]
           commit == /\ Live(job.task)
                     /\ tasks' = [tasks EXCEPT ![job.task] = Written(job)]
       IN \/ /\ commit /\ Fine
             /\ Becomes(w, [job EXCEPT
                    !.row = Written(job),
                    !.step = IF job.op = "add" THEN "post" ELSE "edit"])
          \/ commit /\ Mishap("lost", {}) /\ CallFailed(w)
          \/ /\ \/ ~Live(job.task) /\ Fine
                \/ Mishap("refused", {})
             /\ UNCHANGED tasks /\ CallFailed(w)
    /\ UNCHANGED <<discord, state>>

\* cmdTask -> AddTask, then Assign if it is for somebody
Add(w) ==
    /\ At(w, "add")
    /\ LET job == jobs[w]
       IN /\ tasks' = [tasks EXCEPT ![job.task] = ZeroTask]
          /\ \/ /\ Fine
                /\ Becomes(w, [job EXCEPT
                       !.row = ZeroTask,
                       !.step = IF job.whose = Nobody THEN "post" ELSE "write"])
             \/ Mishap("lost", {}) /\ Return(w)
    /\ UNCHANGED <<discord, state>>

----------------------------------------------------------------------------
(* syncBoard.                                                              *)

\* A slip: a card that was crossed out is never looked at again.
WantedNotGone(rows, t) ==
    LET live == t # Zero /\ rows[t].there = "live"
        carded == cards[t].msg # None
    IN \/ live /\ carded /\ ~cards[t].gone
       \/ live /\ ~carded /\ ~rows[t].done
       \/ ~live /\ carded /\ ~cards[t].gone

\* Listed tasks with a card or something left to do, and cards of tasks that
\* are not listed any more.
Wanted(rows, t) ==
    LET live == t # Zero /\ rows[t].there = "live"
        carded == cards[t].msg # None
    IN \/ live /\ (carded \/ ~rows[t].done)
       \/ ~live /\ carded /\ ~cards[t].gone

List(w) ==
    /\ At(w, "list")
    /\ \/ /\ Fine
          /\ Becomes(w, [jobs[w] EXCEPT
                 !.rows = tasks, !.step = "look",
                 !.left = {t \in Subjects : Wanted(tasks, t)}])
       \/ Mishap("refused", {}) /\ Return(w)
    /\ UNCHANGED <<tasks, discord, state>>

LookAt(w) ==
    /\ At(w, "look")
    /\ LET job == jobs[w]
       IN \/ job.left = {} /\ Return(w)
          \/ \E t \in job.left :
                 Becomes(w, [job EXCEPT
                     !.task = t, !.left = @ \ {t}, !.card = cards[t],
                     !.row = IF t = Zero THEN NoTask ELSE job.rows[t],
                     !.step = IF cards[t].msg = None THEN "post" ELSE "edit"])
    /\ UNCHANGED <<tasks, discord, state, aux>>

----------------------------------------------------------------------------
(* refresh: the card is edited if its view has changed, and then saved.    *)

\* A slip: only fewer comments than last time count as a change.
RefreshedIfFewer(w, card) ==
    IF Doing(w, "sync") /\ jobs[w].row.there = "live"
       /\ Cardinality(jobs[w].row.comments) < card.comments
    THEN Becomes(w, [jobs[w] EXCEPT !.card = card, !.step = "fetch"])
    ELSE Dealt(w)

\* syncBoard after refresh, which may have failed: copies comments if there
\* are more or fewer of them than last time.
Refreshed(w, card) ==
    IF Doing(w, "sync") /\ jobs[w].row.there = "live"
       /\ Cardinality(jobs[w].row.comments) # card.comments
    THEN Becomes(w, [jobs[w] EXCEPT !.card = card, !.step = "fetch"])
    ELSE Dealt(w)

\* A slip: what the card should show is saved although it was not edited.
EditRefusedButSaved(w) ==
    Becomes(w, [jobs[w] EXCEPT !.card.render = Render(jobs[w].row), !.step = "save"])

\* A slip: any error of Discord's is taken for a message that is not there.
EditRefusedSoPosted(w) == Goto(w, "post")

\* The card is not saved, so that the next look tries again.
EditRefused(w) == Refreshed(w, jobs[w].card)

Edit(w) ==
    /\ At(w, "edit")
    /\ LET job == jobs[w]
           view == Render(job.row)
           edit == [shown EXCEPT ![job.card.msg] = view]
           saved == Becomes(w, [job EXCEPT !.card.render = view, !.step = "save"])
       IN \/ /\ view = job.card.render
             /\ Goto(w, "save") /\ UNCHANGED shown /\ Fine
          \/ /\ view # job.card.render /\ shown[job.card.msg] \in View
             /\ \/ shown' = edit /\ saved /\ Fine
                \/ shown' = edit /\ Mishap("lost", {job.task}) /\ Refreshed(w, job.card)
                \/ UNCHANGED shown /\ Mishap("refused", {}) /\ EditRefused(w)
          \/ \* Deleted in Discord: put back, unless the task is deleted too.
             /\ view # job.card.render /\ shown[job.card.msg] = Removed
             /\ IF view = Gone THEN Refreshed(w, job.card) ELSE Goto(w, "post")
             /\ UNCHANGED shown /\ Fine
    /\ UNCHANGED <<tasks, copies, state>>

\* refresh -> saveCard
Save(w) ==
    /\ At(w, "save")
    /\ LET job == jobs[w]
           card == [job.card EXCEPT !.gone = (job.row.there # "live")]
       IN /\ cards' = [cards EXCEPT ![job.task] = card]
          /\ unsure' = IF shown[job.card.msg] = job.card.render
                       THEN unsure \ {job.task} ELSE unsure
          /\ Refreshed(w, card)
    /\ UNCHANGED <<tasks, discord, mirrored, mishaps>>

----------------------------------------------------------------------------
(* postCard: a message, a thread under it, and only then a saved card.     *)

\* postCard's error: refresh goes on with the card it had, a look stops.
PostFailed(w) == IF jobs[w].card.msg # None THEN Refreshed(w, jobs[w].card) ELSE Return(w)

Post(w) ==
    /\ At(w, "post")
    /\ LET job == jobs[w]
           unsent == {m \in Messages : shown[m] = Unsent}
           m == CHOOSE n \in unsent : TRUE
           view == Render(job.row)
       IN \/ /\ unsent # {}
             /\ shown' = [shown EXCEPT ![m] = view]
             /\ \/ /\ Fine
                   /\ Becomes(w, [job EXCEPT
                          !.step = "thread",
                          !.card = [NoCard EXCEPT
                              !.msg = m, !.render = view,
                              !.comments = Cardinality(job.row.comments)]])
                \/ Mishap("lost", {m}) /\ PostFailed(w)
          \/ /\ \/ unsent = {} /\ Fine
                \/ Mishap("refused", {})
             /\ UNCHANGED shown /\ PostFailed(w)
    /\ UNCHANGED <<tasks, copies, state>>

\* A slip: a card is saved as if its comments and one more were copied.
ThreadCountingOneMore(w) ==
    /\ At(w, "thread")
    /\ LET job == jobs[w]
           card == [job.card EXCEPT !.thread = TRUE, !.comments = @ + 1]
       IN cards' = [cards EXCEPT ![job.task] = card] /\ Dealt(w) /\ Fine
    /\ UNCHANGED <<tasks, discord, mirrored>>

\* A card without a thread is saved all the same.
Thread(w) ==
    /\ At(w, "thread")
    /\ \E opened \in BOOLEAN :
           LET job == jobs[w]
               card == [job.card EXCEPT !.thread = opened]
           IN /\ \/ opened /\ Fine
                 \/ ~opened /\ Mishap("refused", {})
              /\ cards' = [cards EXCEPT ![job.task] = card]
              /\ IF job.row.comments = {} THEN Dealt(w)
                 ELSE Becomes(w, [job EXCEPT !.card = card, !.step = "fetch"])
    /\ UNCHANGED <<tasks, discord, mirrored>>

----------------------------------------------------------------------------
(* copyComments and HandleMessage.                                         *)

\* The comments that are not in the thread yet, if there is a thread.
Fetch(w) ==
    /\ At(w, "fetch")
    /\ LET job == jobs[w]
           asked == job.card.thread /\ Live(job.task)
           said == tasks[job.task].comments
       IN \/ /\ asked /\ Fine
             /\ Becomes(w, [job EXCEPT !.queue = said \ mirrored, !.step = "copy",
                                       !.count = Cardinality(said)])
          \/ ~asked /\ Fine /\ Dealt(w)
          \/ asked /\ Mishap("refused", {}) /\ Dealt(w)
    /\ UNCHANGED <<tasks, discord, state>>

NextComment(w) == CHOOSE c \in jobs[w].queue : TRUE

\* One more comment goes into the thread; after the last the card is saved.
Copy(w) ==
    /\ At(w, "copy")
    /\ LET job == jobs[w]
           c == NextComment(w)
           copied == [copies EXCEPT ![c] = @ + 1]
       IN \/ /\ job.queue = {}
             /\ cards' = [cards EXCEPT ![job.task] =
                    [job.card EXCEPT !.comments = job.count]]
             /\ Dealt(w) /\ UNCHANGED copies /\ Fine
          \/ /\ job.queue # {}
             /\ \/ copies' = copied /\ Goto(w, "mark") /\ Fine
                \/ copies' = copied /\ Mishap("lost", {c}) /\ Dealt(w)
                \/ UNCHANGED copies /\ Mishap("refused", {}) /\ Dealt(w)
             /\ UNCHANGED cards
    /\ UNCHANGED <<tasks, shown, mirrored>>

Mark(w) ==
    /\ At(w, "mark")
    /\ mirrored' = mirrored \cup {NextComment(w)}
    /\ Becomes(w, [jobs[w] EXCEPT !.queue = @ \ {NextComment(w)}, !.step = "copy"])
    /\ UNCHANGED <<tasks, discord, cards, aux>>

\* HandleMessage -> AddComment; what cannot be added stays in Discord only.
Say(w) ==
    /\ At(w, "said")
    /\ LET t == jobs[w].task
           said == /\ Live(t)
                   /\ tasks' = [tasks EXCEPT ![t].comments = @ \cup jobs[w].queue]
       IN \/ said /\ Goto(w, "record") /\ Fine
          \/ said /\ Mishap("lost", jobs[w].queue) /\ Return(w)
          \/ /\ \/ ~Live(t) /\ Fine
                \/ Mishap("refused", {})
             /\ UNCHANGED tasks /\ Return(w)
    /\ UNCHANGED <<discord, state>>

\* A slip: the lock is let go without a note of the comment.
RecordNothing(w) ==
    /\ At(w, "record")
    /\ Return(w)
    /\ UNCHANGED <<tasks, discord, state, aux>>

\* "Recorded before the lock is let go": markMirrored
Record(w) ==
    /\ At(w, "record")
    /\ mirrored' = mirrored \cup jobs[w].queue
    /\ Return(w)
    /\ UNCHANGED <<tasks, discord, cards, aux>>

----------------------------------------------------------------------------
(* What other people do, and what goes wrong.                              *)

\* In the web app: a task is added, ticked, deleted or restored, or something
\* is said about it.  (To a card, giving it away is one more change of view;
\* only the bot's people do that here.)
InTheWebApp(t) ==
    /\ \/ /\ tasks[t].there = "no" /\ \A w \in Workers : jobs[w].task # t
          /\ tasks' = [tasks EXCEPT ![t] = ZeroTask]
       \/ /\ Live(t)
          /\ \/ tasks' = [tasks EXCEPT ![t].done = ~@]
             \/ tasks' = [tasks EXCEPT ![t].there = "trashed"]
             \/ \E c \in Comments :
                    /\ ~Said(c)
                    /\ tasks' = [tasks EXCEPT ![t].comments = @ \cup {c}]
       \/ tasks[t].there = "trashed" /\ tasks' = [tasks EXCEPT ![t].there = "live"]
    /\ UNCHANGED <<discord, state, lock, jobs, aux>>

RemoveInDiscord(m) ==
    /\ shown[m] \in View
    /\ shown' = [shown EXCEPT ![m] = Removed]
    /\ Mishap("removed", {})
    /\ UNCHANGED <<tasks, copies, state, lock, jobs>>

\* What the handler had done and not written down yet.
Unwritten(w) ==
    LET job == jobs[w]
        edited == job.card.render # cards[job.task].render
    IN (IF job.step = "thread" THEN {job.card.msg} ELSE {})
       \cup (IF job.step = "save" /\ edited THEN {job.task} ELSE {})
       \cup (IF job.step = "mark" THEN {NextComment(w)} ELSE {})
       \cup (IF job.step = "record" THEN job.queue ELSE {})

\* The process stops, with everything it had in mind, and starts again.
Stop ==
    /\ Mishap("stop", UNION {Unwritten(w) : w \in Workers})
    /\ jobs' = [w \in Workers |-> Idle]
    /\ lock' = None
    /\ UNCHANGED <<tasks, discord, state>>

Start(w) ==
    \/ Look(w)
    \/ \E t \in Subjects, p \in People \cup {Nobody} : Press(w, t, p)
    \/ \E t \in Tasks :
           \/ \E p \in People \cup {Nobody} : AddCommand(w, t, p)
           \/ \E c \in Comments : Message(w, t, c)

Work(w) ==
    \/ Lock(w)   \/ Find(w) \/ Write(w) \/ Add(w)
    \/ List(w)   \/ LookAt(w)
    \/ Edit(w)   \/ Save(w)
    \/ Post(w)   \/ Thread(w)
    \/ Fetch(w)  \/ Copy(w) \/ Mark(w)
    \/ Say(w)    \/ Record(w)

Next ==
    \/ \E w \in Workers : Start(w) \/ Work(w)
    \/ \E t \in Tasks : InTheWebApp(t)
    \/ \E m \in Messages : RemoveInDiscord(m)
    \/ Stop

Spec == Init /\ [][Next]_vars

\* The bot's goroutines run, Go's mutexes let everybody in some time, and the
\* ticker looks at the board again and again.  People need not do anything.
Fairness == \A w \in Workers : WF_vars(Work(w)) /\ SF_vars(Look(w))

LiveSpec == Spec /\ Fairness

----------------------------------------------------------------------------
(* Properties.                                                             *)

\* Every table, message and job holds values of its kind.
TypeOK ==
    /\ tasks \in [Tasks -> TaskRow]
    /\ shown \in [Messages -> View \cup {Unsent, Removed}]
    /\ copies \in [Comments -> Nat]
    /\ cards \in [Subjects -> Card]
    /\ mirrored \subseteq Comments
    /\ lock \in Workers \cup {None}
    /\ jobs \in [Workers -> Job]
    /\ mishaps \in 0 .. MaxMishaps
    /\ unsure \subseteq Messages \cup Tasks \cup Comments \cup {Zero}

\* "Render string // what the message last showed, to tell whether it needs
\* editing" (state.go:163): a card that is not being edited shows in Discord
\* what its row says it does, or was removed there, unless the bot was stopped
\* or left without an answer in the middle of an edit.
RenderIsShown ==
    \A t \in Subjects \ unsure :
        LET card == cards[t]
        IN card.msg # None /\ (\A w \in Workers : ~(At(w, "save") /\ jobs[w].task = t))
           => shown[card.msg] \in {card.render, Removed}

\* "a card is posted and recorded before the next look at the list could post
\* it a second time" (bot.go:64-65): every message in the channel is the one
\* its task's row knows, or about to be saved as it, unless the bot was stopped
\* or left without an answer before it could save it.  (A second card for task 0,
\* which should not have one, takes the row of the first: see NoGhostCards.)
OneCardEach ==
    cards[Zero].msg = None =>
        \A m \in Messages \ unsure :
            shown[m] \in View =>
                \/ \E t \in Tasks : cards[t].msg = m
                \/ \E w \in Workers : At(w, "thread") /\ jobs[w].card.msg = m

\* "the next look at the list does not copy it straight back into the thread"
\* (bot.go:781): nobody reads a comment twice, whichever side it came from,
\* unless the bot was stopped or left without an answer while copying it.
CopiedOnce == \A c \in Comments \ unsure : copies[c] <= 1

\* "The task exists; it is only nobody's yet, which the card says"
\* (bot.go:433): no card is ever about a task that does not exist.
NoGhostCards == cards[Zero].msg = None

\* "when anything changes their boards are looked at again and the cards
\* brought up to date" (sync.go:18-20): a task that stays as it is ends up on
\* a card that shows it, unless somebody removed the card in Discord or an
\* edit of it was cut short.  A task done before its first look needs none.
BoardCatchesUp ==
    \A t \in Tasks : \A v \in View :
        <>[](tasks[t].there # "no" /\ Render(tasks[t]) = v /\ t \notin unsure)
        => <>[](IF cards[t].msg = None THEN v.state # "todo"
                ELSE shown[cards[t].msg] \in {v, Removed})

\* copyComments posts "the comments that were written in Doables and are not
\* there yet" (sync.go:267): what is said about a task that already has its
\* card can be read in the card's thread in the end, if no call fails.  (What
\* was said before the card was posted may never be: postCard saves how many
\* comments there are before it tries to copy them.)
CommentsArrive ==
    \A t \in Tasks, c \in Comments :
        [](/\ cards[t].thread /\ ~Said(c)
           /\ <>[](Live(t) /\ c \in tasks[t].comments /\ mishaps = 0)
           => <>(copies[c] > 0))
=============================================================================
