----------------------------- MODULE BoardProofs -----------------------------
(***************************************************************************)
(* What the bot guarantees for any number of tasks, comments, messages and *)
(* handlers at once, and however much goes wrong: no comment is copied     *)
(* twice; and, as long as no button overlaps with anything, what a row     *)
(* says is what its message shows, and no task has two cards.              *)
(*                                                                         *)
(* The board's lock is what all of it rests on: whoever works on the board *)
(* has it (OneAtATime), so what they read of the tables stays true until   *)
(* they write.  KnowsItsCard and CopyInv say what that is at each step of  *)
(* a job.  The first part of the module says what each step does to its    *)
(* job; the invariants only use that.                                      *)
(***************************************************************************)
EXTENDS Board, FiniteSetTheorems, TLAPS

----------------------------------------------------------------------------
(* Values.                                                                 *)

\* Only finitely many comments are counted.
LEMMA Sizes ==
    /\ Cardinality(Comments) \in Nat
    /\ \A S \in SUBSET Comments : Cardinality(S) \in 0 .. Cardinality(Comments)
<1>1. IsFiniteSet(Comments)
  BY BoardConstants
<1>2. Cardinality(Comments) \in Nat
  BY <1>1, FS_CardinalityType
<1>3. ASSUME NEW S \in SUBSET Comments
      PROVE  Cardinality(S) \in 0 .. Cardinality(Comments)
  <2>1. IsFiniteSet(S) /\ Cardinality(S) <= Cardinality(Comments)
    BY <1>1, FS_Subset
  <2>2. Cardinality(S) \in Nat
    BY <2>1, FS_CardinalityType
  <2> QED
    BY <1>2, <2>1, <2>2
<1> QED
  BY <1>2, <1>3

\* The constants of Board are of their types, and the sentinels are not views.
LEMMA Values ==
    /\ NoTask \in TaskRow /\ ZeroTask \in TaskRow /\ ZeroTask.comments = {}
    /\ ZeroTask.there = "live" /\ NoTask.there = "no" /\ NoTask.comments = {}
    /\ Gone \in View /\ Removed \notin View /\ Unsent \notin View /\ Unsent # Removed
    /\ NoCard \in Card /\ NoCard.msg = None /\ ~NoCard.thread /\ NoRows \in [Tasks -> TaskRow]
    /\ Idle \in Job /\ Idle.op = "none" /\ Idle.step = "idle" /\ Idle.task = Zero
    /\ Idle.left = {} /\ Idle.card = NoCard /\ Idle.queue = {}
    /\ None \notin Tasks /\ None \notin Messages /\ None \notin Workers
<1>1. /\ NoTask \in TaskRow /\ ZeroTask \in TaskRow /\ ZeroTask.comments = {}
      /\ ZeroTask.there = "live" /\ NoTask.there = "no" /\ NoTask.comments = {}
  BY DEF NoTask, ZeroTask, TaskRow
<1>2. Gone \in View /\ Removed \notin View /\ Unsent \notin View /\ Unsent # Removed
  BY DEF Gone, View, Removed, Unsent
<1>3. 0 \in 0 .. Cardinality(Comments)
  BY Sizes
<1>4. NoCard \in Card /\ NoCard.msg = None /\ ~NoCard.thread
  BY <1>2, <1>3 DEF NoCard, Card
<1>5. NoRows \in [Tasks -> TaskRow]
  BY <1>1 DEF NoRows
<1>6. Idle \in Job /\ Idle.op = "none" /\ Idle.step = "idle" /\ Idle.task = Zero
      /\ Idle.left = {} /\ Idle.card = NoCard /\ Idle.queue = {}
  BY <1>1, <1>3, <1>4, <1>5 DEF Idle, Job, Steps, Subjects
<1> QED
  BY <1>1, <1>2, <1>4, <1>5, <1>6, BoardConstants

\* What a row is rendered to is a view, never "removed" or "unsent".
LEMMA Rendered ==
    ASSUME NEW row \in TaskRow
    PROVE  Render(row) \in View
<1>1. row.assignee \in People \cup {Nobody}
  BY DEF TaskRow
<1> QED
  BY <1>1, Values DEF Render, View

----------------------------------------------------------------------------
(* Jobs.                                                                   *)

\* Types, and that a job at work has something to do.
TypeInv ==
    /\ TypeOK
    /\ \A w \in Workers : At(w, "idle") \/ jobs[w].op # "none"
    /\ \A w \in Workers : At(w, "mark") => jobs[w].queue # {}
    /\ \A w \in Workers :
           /\ At(w, "find") => jobs[w].op = "done"
           /\ At(w, "write") => jobs[w].op \in {"done", "assign", "add"}
           /\ At(w, "add") => jobs[w].op = "add"

\* The fields of a job, one by one.
LEMMA JobFields ==
    ASSUME TypeInv, NEW w \in Workers
    PROVE  /\ jobs[w] \in Job /\ jobs[w].task \in Subjects /\ jobs[w].card \in Card
           /\ jobs[w].row \in TaskRow /\ jobs[w].whose \in People \cup {Nobody}
           /\ jobs[w].rows \in [Tasks -> TaskRow] /\ jobs[w].left \subseteq Subjects
           /\ jobs[w].queue \subseteq Comments /\ jobs[w].count \in 0 .. Cardinality(Comments)
           /\ jobs[w].op \in AllHandlers \cup {"none"}
BY DEF TypeInv, TypeOK, Job

\* w's job becomes j, and nobody else's changes.
Moves(w, j) == j \in Job /\ jobs' = [jobs EXCEPT ![w] = j]

\* The same job, one step on.
Continues(w, j) ==
    /\ j.op = jobs[w].op /\ j.task = jobs[w].task /\ j.left = jobs[w].left
    /\ lock' = lock

\* The handler is done, or the look goes on to the next card.
Finished(w, j) ==
    \/ j = Idle /\ lock' = None
    \/ /\ j.op = "sync" /\ jobs[w].op = "sync" /\ j.step = "look" /\ j.task = Zero
       /\ j.left = jobs[w].left /\ lock' = lock

\* A return ends the job and unlocks, or goes on with what a look has left.
LEMMA ReturnDoes ==
    ASSUME TypeInv, NEW w \in Workers, Return(w)
    PROVE  \E j : Moves(w, j) /\ Finished(w, j)
BY Values DEF Return, Moves, Finished

\* So does a task that is dealt with.
LEMMA DealtDoes ==
    ASSUME TypeInv, NEW w \in Workers, Dealt(w)
    PROVE  \E j : Moves(w, j) /\ Finished(w, j)
<1> DEFINE j == [Idle EXCEPT !.op = "sync", !.step = "look",
                             !.rows = jobs[w].rows, !.left = jobs[w].left]
<1>1. CASE Doing(w, "sync")
  <2>1. jobs' = [jobs EXCEPT ![w] = j] /\ lock' = lock
    BY <1>1 DEF Dealt, Becomes
  <2>2. /\ j \in Job /\ j.op = "sync" /\ j.step = "look" /\ j.task = Zero
        /\ j.left = jobs[w].left
    BY Values, JobFields DEF Job, Steps, AllHandlers
  <2> HIDE DEF j
  <2> QED
    BY <1>1, <2>1, <2>2 DEF Moves, Finished, Doing
<1>2. CASE ~Doing(w, "sync")
  BY <1>2, ReturnDoes DEF Dealt
<1> QED
  BY <1>1, <1>2

\* A look may go on to the comments, with the card it has.
Refreshes(w, card, j) ==
    \/ Finished(w, j)
    \/ Continues(w, j) /\ j.op = "sync" /\ j.step = "fetch" /\ j.card = card

\* A refresh of a card goes on to its comments if there is a thread.
LEMMA RefreshedDoes ==
    ASSUME TypeInv, NEW w \in Workers, NEW card \in Card, Refreshed(w, card)
    PROVE  \E j : Moves(w, j) /\ Refreshes(w, card, j)
<1> DEFINE j == [jobs[w] EXCEPT !.card = card, !.step = "fetch"]
<1>1. CASE Dealt(w)
  BY <1>1, DealtDoes DEF Refreshes
<1>2. CASE Doing(w, "sync") /\ Becomes(w, j)
  <2>1. jobs' = [jobs EXCEPT ![w] = j] /\ lock' = lock /\ jobs[w].op = "sync"
    BY <1>2 DEF Becomes, Doing
  <2>2. /\ j \in Job /\ j.op = jobs[w].op /\ j.step = "fetch" /\ j.task = jobs[w].task
        /\ j.left = jobs[w].left /\ j.card = card
    BY JobFields DEF Job, Steps
  <2> HIDE DEF j
  <2> QED
    BY <2>1, <2>2 DEF Moves, Refreshes, Continues
<1> QED
  BY <1>1, <1>2 DEF Refreshed

\* Going on to another step changes nothing else.
LEMMA GotoDoes ==
    ASSUME TypeInv, NEW w \in Workers, NEW step \in Steps, Goto(w, step)
    PROVE  \E j : /\ Moves(w, j) /\ Continues(w, j) /\ j.step = step
                  /\ j.card = jobs[w].card /\ j.row = jobs[w].row /\ j.queue = jobs[w].queue
                  /\ j.count = jobs[w].count
<1> DEFINE j == [jobs[w] EXCEPT !.step = step]
<1>1. jobs' = [jobs EXCEPT ![w] = j] /\ lock' = lock
  BY DEF Goto, Becomes
<1>2. /\ j \in Job /\ j.op = jobs[w].op /\ j.step = step /\ j.task = jobs[w].task
      /\ j.left = jobs[w].left /\ j.card = jobs[w].card /\ j.row = jobs[w].row
      /\ j.queue = jobs[w].queue /\ j.count = jobs[w].count
  BY JobFields DEF Job
<1> HIDE DEF j
<1> QED
  BY <1>1, <1>2 DEF Moves, Continues

\* What the bot cannot know any more, if something went wrong.
Unsure(what) == unsure' = unsure \cup what /\ mishaps' \in 0 .. MaxMishaps

\* A call that is answered leaves the bot in the dark about nothing.
LEMMA NothingWrong == TypeInv /\ Fine => Unsure({})
BY DEF Fine, aux, Unsure, TypeInv, TypeOK

\* A mishap leaves it in the dark about what that call was for at most.
LEMMA SomethingWrong ==
    ASSUME TypeInv, NEW kind, NEW what, Mishap(kind, what)
    PROVE  Unsure(what)
BY BoardConstants DEF Mishap, Unsure, TypeInv, TypeOK

----------------------------------------------------------------------------
(* What each step does.                                                    *)

\* The lock is free when it is taken; each handler then goes to its own first step.
LEMMA LockDoes ==
    ASSUME TypeInv, NEW w \in Workers, Lock(w)
    PROVE  /\ At(w, "lock") /\ lock = None /\ lock' = w
           /\ UNCHANGED <<tasks, discord, state, aux>>
           /\ \E j : /\ Moves(w, j) /\ j.op = jobs[w].op /\ j.task = jobs[w].task
                     /\ j.left = jobs[w].left /\ j.card = jobs[w].card
                     /\ j.queue = jobs[w].queue
                     /\ \/ j.op = "done" /\ j.step = "find"
                        \/ j.op = "assign" /\ j.step = "write"
                        \/ j.op = "add" /\ j.step = "add"
                        \/ j.op = "message" /\ j.step = "said"
                        \/ j.op = "sync" /\ j.step = "list"
<1> DEFINE step == FirstStep[jobs[w].op]
           j == [jobs[w] EXCEPT !.step = step]
<1>1. At(w, "lock") /\ lock = None /\ lock' = w /\ jobs' = [jobs EXCEPT ![w].step = step]
      /\ UNCHANGED <<tasks, discord, state, aux>>
  BY DEF Lock
<1>2. jobs[w].op \in AllHandlers
  BY <1>1, JobFields DEF TypeInv, At
<1>3. \/ jobs[w].op = "done" /\ step = "find"
      \/ jobs[w].op = "assign" /\ step = "write"
      \/ jobs[w].op = "add" /\ step = "add"
      \/ jobs[w].op = "message" /\ step = "said"
      \/ jobs[w].op = "sync" /\ step = "list"
  BY <1>2 DEF AllHandlers, FirstStep
<1>4. jobs' = [jobs EXCEPT ![w] = j]
  BY <1>1
<1>5. step \in Steps
  BY <1>3 DEF Steps
<1> HIDE DEF step
<1>6. /\ j \in Job /\ j.op = jobs[w].op /\ j.step = step /\ j.task = jobs[w].task
      /\ j.left = jobs[w].left /\ j.card = jobs[w].card /\ j.queue = jobs[w].queue
  BY <1>5, JobFields DEF Job
<1> HIDE DEF j
<1> QED
  BY <1>1, <1>3, <1>4, <1>6 DEF Moves

\* The look at the task before the lock: it may be gone, or go on.
LEMMA FindDoes ==
    ASSUME TypeInv, NEW w \in Workers, Find(w)
    PROVE  /\ At(w, "find") /\ UNCHANGED <<tasks, discord, state>> /\ Unsure({})
           /\ \E j : /\ Moves(w, j)
                     /\ \/ Finished(w, j)
                        \/ /\ Continues(w, j) /\ j.step \in {"write", "edit"}
                           /\ j.card = jobs[w].card
<1> DEFINE row == IF Live(jobs[w].task) THEN tasks[jobs[w].task] ELSE NoTask
           step == IF row.there = "live" THEN "write" ELSE "edit"
           j == [jobs[w] EXCEPT !.row = row, !.step = step]
<1>1. At(w, "find") /\ UNCHANGED <<tasks, discord, state>>
  BY DEF Find
<1>2. CASE Mishap("refused", {}) /\ Return(w)
  BY <1>1, <1>2, ReturnDoes, SomethingWrong
<1>3. CASE Fine /\ Becomes(w, j)
  <2>1. row \in TaskRow
    <3>1. CASE Live(jobs[w].task)
      BY <3>1, JobFields DEF Live, Subjects, TypeInv, TypeOK
    <3> QED
      BY <3>1, Values
  <2>2. step \in {"write", "edit"} /\ step \in Steps
    BY DEF Steps
  <2> HIDE DEF row, step
  <2>3. /\ j \in Job /\ j.op = jobs[w].op /\ j.step = step /\ j.task = jobs[w].task
        /\ j.left = jobs[w].left /\ j.card = jobs[w].card
    BY <2>1, <2>2, JobFields DEF Job
  <2>4. jobs' = [jobs EXCEPT ![w] = j] /\ lock' = lock
    BY <1>3 DEF Becomes
  <2> HIDE DEF j
  <2> QED
    BY <1>1, <1>3, <2>2, <2>3, <2>4, NothingWrong DEF Moves, Continues
<1> HIDE DEF row, step, j
<1> QED
  BY <1>2, <1>3 DEF Find, row, step, j

\* The rows' state stays, and so do their comments.
Rewritten ==
    /\ tasks' \in [Tasks -> TaskRow]
    /\ \A t \in Tasks : tasks'[t].there = tasks[t].there /\ tasks'[t].comments = tasks[t].comments

\* The write of a button changes the task only; an add goes on to a post.
LEMMA WriteDoes ==
    ASSUME TypeInv, NEW w \in Workers, Write(w)
    PROVE  /\ At(w, "write") /\ Rewritten /\ UNCHANGED <<discord, state>> /\ Unsure({})
           /\ \E j : /\ Moves(w, j)
                     /\ \/ Finished(w, j)
                        \/ /\ Continues(w, j) /\ j.card = jobs[w].card
                           /\ \/ j.op = "add" /\ j.step = "post"
                              \/ j.op # "add" /\ j.step = "edit"
                        \/ /\ jobs[w].op = "add" /\ j.op = "add" /\ j.task = Zero
                           /\ j.left = jobs[w].left /\ lock' = lock
                           /\ j.step = "post" /\ j.card = jobs[w].card
<1> DEFINE row == Written(jobs[w])
           commit == Live(jobs[w].task) /\ tasks' = [tasks EXCEPT ![jobs[w].task] = row]
           step == IF jobs[w].op = "add" THEN "post" ELSE "edit"
           j == [jobs[w] EXCEPT !.row = row, !.step = step]
           zero == [jobs[w] EXCEPT !.task = Zero, !.row = ZeroTask, !.step = "post"]
<1>1. At(w, "write") /\ UNCHANGED <<discord, state>>
  BY DEF Write
<1>2. ASSUME commit
      PROVE  Rewritten /\ row \in TaskRow
  <2>1. jobs[w].task \in Tasks /\ tasks[jobs[w].task] \in TaskRow
    BY <1>2, JobFields DEF Live, Subjects, TypeInv, TypeOK
  <2>2. jobs[w].row \in TaskRow /\ jobs[w].whose \in People \cup {Nobody}
    BY JobFields
  <2>3. /\ row \in TaskRow /\ row.there = tasks[jobs[w].task].there
        /\ row.comments = tasks[jobs[w].task].comments
    BY <2>1, <2>2 DEF Written, TaskRow
  <2> HIDE DEF row
  <2> QED
    BY <1>2, <2>1, <2>3 DEF Rewritten, TypeInv, TypeOK
<1>3. UNCHANGED tasks => Rewritten
  BY DEF Rewritten, TypeInv, TypeOK
<1>4. ASSUME CallFailed(w)
      PROVE  \E k : /\ Moves(w, k)
                    /\ \/ Finished(w, k)
                       \/ /\ jobs[w].op = "add" /\ k.op = "add" /\ k.task = Zero
                          /\ k.left = jobs[w].left /\ lock' = lock
                          /\ k.step = "post" /\ k.card = jobs[w].card
  <2>1. CASE Doing(w, "add")
    <3>1. jobs' = [jobs EXCEPT ![w] = zero] /\ lock' = lock
      BY <1>4, <2>1 DEF CallFailed, Becomes
    <3>2. /\ zero \in Job /\ zero.op = jobs[w].op /\ zero.task = Zero /\ zero.step = "post"
          /\ zero.left = jobs[w].left /\ zero.card = jobs[w].card
      BY JobFields, Values DEF Job, Steps, Subjects
    <3> HIDE DEF zero
    <3> QED
      BY <2>1, <3>1, <3>2 DEF Moves, Doing
  <2>2. CASE ~Doing(w, "add")
    BY <1>4, <2>2, ReturnDoes DEF CallFailed
  <2> QED
    BY <2>1, <2>2
<1>5. ASSUME commit, Fine, Becomes(w, j)
      PROVE  \E k : /\ Moves(w, k) /\ Continues(w, k) /\ k.card = jobs[w].card
                    /\ \/ k.op = "add" /\ k.step = "post"
                       \/ k.op # "add" /\ k.step = "edit"
  <2>1. row \in TaskRow
    BY <1>2, <1>5
  <2>2. step \in Steps /\ (\/ jobs[w].op = "add" /\ step = "post"
                           \/ jobs[w].op # "add" /\ step = "edit")
    BY DEF Steps
  <2> HIDE DEF row, step
  <2>3. /\ j \in Job /\ j.op = jobs[w].op /\ j.step = step /\ j.task = jobs[w].task
        /\ j.left = jobs[w].left /\ j.card = jobs[w].card
    BY <2>1, <2>2, JobFields DEF Job
  <2>4. jobs' = [jobs EXCEPT ![w] = j] /\ lock' = lock
    BY <1>5 DEF Becomes
  <2> HIDE DEF j
  <2> QED
    BY <2>2, <2>3, <2>4 DEF Moves, Continues
<1>6. \/ commit /\ Fine /\ Becomes(w, j)
      \/ commit /\ Mishap("lost", {}) /\ CallFailed(w)
      \/ (Fine \/ Mishap("refused", {})) /\ UNCHANGED tasks /\ CallFailed(w)
  BY DEF Write
<1> HIDE DEF commit, row, step, j, zero
<1> QED
  BY <1>1, <1>2, <1>3, <1>4, <1>5, <1>6, NothingWrong, SomethingWrong

\* AddTask makes one task and changes nothing of the bot's.
LEMMA AddDoes ==
    ASSUME TypeInv, NEW w \in Workers, Add(w)
    PROVE  /\ At(w, "add") /\ tasks' = [tasks EXCEPT ![jobs[w].task] = ZeroTask]
           /\ UNCHANGED <<discord, state>> /\ Unsure({})
           /\ \E j : /\ Moves(w, j)
                     /\ \/ Finished(w, j)
                        \/ /\ Continues(w, j) /\ j.step \in {"post", "write"}
                           /\ j.card = jobs[w].card
<1> DEFINE step == IF jobs[w].whose = Nobody THEN "post" ELSE "write"
           j == [jobs[w] EXCEPT !.row = ZeroTask, !.step = step]
<1>1. At(w, "add") /\ tasks' = [tasks EXCEPT ![jobs[w].task] = ZeroTask]
      /\ UNCHANGED <<discord, state>>
  BY DEF Add
<1>2. CASE Mishap("lost", {}) /\ Return(w)
  BY <1>1, <1>2, ReturnDoes, SomethingWrong
<1>3. CASE Fine /\ Becomes(w, j)
  <2>1. step \in {"post", "write"} /\ step \in Steps
    BY DEF Steps
  <2> HIDE DEF step
  <2>2. /\ j \in Job /\ j.op = jobs[w].op /\ j.step = step /\ j.task = jobs[w].task
        /\ j.left = jobs[w].left /\ j.card = jobs[w].card
    BY <2>1, JobFields, Values DEF Job
  <2>3. jobs' = [jobs EXCEPT ![w] = j] /\ lock' = lock
    BY <1>3 DEF Becomes
  <2> HIDE DEF j
  <2> QED
    BY <1>1, <1>3, <2>1, <2>2, <2>3, NothingWrong DEF Moves, Continues
<1> HIDE DEF step, j
<1> QED
  BY <1>2, <1>3 DEF Add, step, j

\* The list of tasks is what a look will go through.
LEMMA ListDoes ==
    ASSUME TypeInv, NEW w \in Workers, List(w)
    PROVE  /\ At(w, "list") /\ UNCHANGED <<tasks, discord, state>> /\ Unsure({})
           /\ \E j : /\ Moves(w, j)
                     /\ \/ Finished(w, j)
                        \/ /\ j.op = jobs[w].op /\ j.task = jobs[w].task /\ lock' = lock
                           /\ j.left = {t \in Subjects : Wanted(tasks, t)} /\ j.step = "look"
<1> DEFINE left == {t \in Subjects : Wanted(tasks, t)}
           j == [jobs[w] EXCEPT !.rows = tasks, !.step = "look", !.left = left]
<1>1. At(w, "list") /\ UNCHANGED <<tasks, discord, state>>
  BY DEF List
<1>2. CASE Mishap("refused", {}) /\ Return(w)
  BY <1>1, <1>2, ReturnDoes, SomethingWrong
<1>3. CASE Fine /\ Becomes(w, j)
  <2>1. left \subseteq Subjects /\ tasks \in [Tasks -> TaskRow]
    BY DEF TypeInv, TypeOK
  <2> HIDE DEF left
  <2>2. /\ j \in Job /\ j.op = jobs[w].op /\ j.step = "look" /\ j.task = jobs[w].task
        /\ j.left = left
    BY <2>1, JobFields DEF Job, Steps
  <2>3. jobs' = [jobs EXCEPT ![w] = j] /\ lock' = lock
    BY <1>3 DEF Becomes
  <2> HIDE DEF j
  <2> QED
    BY <1>1, <1>3, <2>2, <2>3, NothingWrong DEF Moves, left
<1> HIDE DEF left, j
<1> QED
  BY <1>2, <1>3 DEF List, left, j

\* A look takes up one of the tasks it has left, with the row as it is.
LEMMA LookAtDoes ==
    ASSUME TypeInv, NEW w \in Workers, LookAt(w)
    PROVE  /\ At(w, "look") /\ UNCHANGED <<tasks, discord, state, aux>>
           /\ \E j : /\ Moves(w, j)
                     /\ \/ Finished(w, j)
                        \/ \E t \in jobs[w].left :
                              /\ j.op = jobs[w].op /\ j.task = t /\ j.card = cards[t]
                              /\ j.left = jobs[w].left \ {t} /\ lock' = lock
                              /\ j.step = IF cards[t].msg = None THEN "post" ELSE "edit"
<1> DEFINE next(t) ==
        [jobs[w] EXCEPT !.task = t, !.left = @ \ {t}, !.card = cards[t],
                        !.row = IF t = Zero THEN NoTask ELSE jobs[w].rows[t],
                        !.step = IF cards[t].msg = None THEN "post" ELSE "edit"]
<1>1. At(w, "look") /\ UNCHANGED <<tasks, discord, state, aux>>
  BY DEF LookAt
<1>2. CASE jobs[w].left = {} /\ Return(w)
  BY <1>1, <1>2, ReturnDoes
<1>3. ASSUME NEW t \in jobs[w].left,
             Becomes(w, next(t))
      PROVE  \E j : /\ Moves(w, j)
                    /\ j.op = jobs[w].op /\ j.task = t /\ j.card = cards[t]
                    /\ j.left = jobs[w].left \ {t} /\ lock' = lock
                    /\ j.step = IF cards[t].msg = None THEN "post" ELSE "edit"
  <2> DEFINE row == IF t = Zero THEN NoTask ELSE jobs[w].rows[t]
             step == IF cards[t].msg = None THEN "post" ELSE "edit"
             left == jobs[w].left \ {t}
             j == [jobs[w] EXCEPT !.task = t, !.left = left, !.card = cards[t],
                                  !.row = row, !.step = step]
  <2>1. jobs' = [jobs EXCEPT ![w] = j] /\ lock' = lock
    BY <1>3 DEF Becomes
  <2>2. t \in Subjects /\ left \subseteq Subjects
    BY JobFields
  <2>3. row \in TaskRow
    BY <2>2, JobFields, Values DEF Subjects
  <2>4. cards[t] \in Card
    BY <2>2 DEF TypeInv, TypeOK
  <2>5. step \in Steps
    BY DEF Steps
  <2> HIDE DEF row, step, left
  <2>6. /\ j \in Job /\ j.op = jobs[w].op /\ j.step = step /\ j.task = t
        /\ j.left = left /\ j.card = cards[t]
    BY <2>2, <2>3, <2>4, <2>5, JobFields DEF Job
  <2> HIDE DEF j
  <2> QED
    BY <2>1, <2>6 DEF Moves, left, step
<1>4. \/ jobs[w].left = {} /\ Return(w)
      \/ \E t \in jobs[w].left :
             Becomes(w, next(t))
  BY DEF LookAt
<1> HIDE DEF next
<1>5. CASE \E t \in jobs[w].left :
             Becomes(w, next(t))
  <2>1. PICK t \in jobs[w].left :
            \E j : /\ Moves(w, j)
                  /\ j.op = jobs[w].op /\ j.task = t /\ j.card = cards[t]
                  /\ j.left = jobs[w].left \ {t} /\ lock' = lock
                  /\ j.step = IF cards[t].msg = None THEN "post" ELSE "edit"
    BY <1>3, <1>5
  <2> QED
    BY <1>1, <2>1
<1> QED
  BY <1>2, <1>4, <1>5

\* An edit that is not needed is none; one that is shows the view or fails.
LEMMA EditDoes ==
    ASSUME TypeInv, NEW w \in Workers, Edit(w)
    PROVE  LET job == jobs[w]
               msg == job.card.msg
               view == Render(job.row)
           IN /\ At(w, "edit") /\ UNCHANGED <<tasks, copies, state>> /\ view \in View
              /\ \E j : /\ Moves(w, j)
                        /\ \/ /\ view = job.card.render /\ UNCHANGED shown /\ Unsure({})
                              /\ Continues(w, j) /\ j.step = "save" /\ j.card = job.card
                           \/ /\ shown[msg] \in View /\ Unsure({})
                              /\ shown' = [shown EXCEPT ![msg] = view]
                              /\ Continues(w, j) /\ j.step = "save" /\ j.card.render = view
                              /\ j.card.msg = msg /\ j.card.thread = job.card.thread
                           \/ /\ shown[msg] \in View /\ Unsure({job.task})
                              /\ shown' = [shown EXCEPT ![msg] = view]
                              /\ Refreshes(w, job.card, j)
                           \/ UNCHANGED shown /\ Unsure({}) /\ Refreshes(w, job.card, j)
                           \/ /\ shown[msg] = Removed /\ UNCHANGED shown /\ Unsure({})
                              /\ Continues(w, j) /\ j.step = "post" /\ j.card = job.card
<1> DEFINE card == jobs[w].card
           msg == card.msg
           view == Render(jobs[w].row)
           edit == [shown EXCEPT ![msg] = view]
           j == [jobs[w] EXCEPT !.card.render = view, !.step = "save"]
<1>1. At(w, "edit") /\ UNCHANGED <<tasks, copies, state>> /\ view \in View
      /\ card \in Card
  BY JobFields, Rendered DEF Edit
<1>2. \/ view = card.render /\ Goto(w, "save") /\ UNCHANGED shown /\ Fine
      \/ shown[msg] \in View /\ shown' = edit /\ Becomes(w, j) /\ Fine
      \/ shown[msg] \in View /\ shown' = edit /\ Mishap("lost", {jobs[w].task}) /\ Refreshed(w, card)
      \/ UNCHANGED shown /\ (Fine \/ Mishap("refused", {})) /\ Refreshed(w, card)
      \/ shown[msg] = Removed /\ UNCHANGED shown /\ Fine /\ Goto(w, "post")
  BY DEF Edit, EditRefused
<1> HIDE DEF view, edit
<1>3. CASE view = card.render /\ Goto(w, "save") /\ UNCHANGED shown /\ Fine
  <2>1. \E k : Moves(w, k) /\ Continues(w, k) /\ k.step = "save" /\ k.card = card
    BY <1>3, GotoDoes DEF Steps
  <2> QED
    BY <1>1, <1>3, <2>1, NothingWrong DEF view
<1>4. CASE shown[msg] \in View /\ shown' = edit /\ Becomes(w, j) /\ Fine
  <2>1. jobs' = [jobs EXCEPT ![w] = j] /\ lock' = lock
    BY <1>4 DEF Becomes
  <2>2. /\ j \in Job /\ j.op = jobs[w].op /\ j.step = "save" /\ j.task = jobs[w].task
        /\ j.left = jobs[w].left /\ j.card.render = view /\ j.card.msg = msg
        /\ j.card.thread = card.thread
    <3>1. jobs[w] \in Job
      BY JobFields
    <3>2. [card EXCEPT !.render = view] \in Card
      BY <1>1 DEF Card
    <3>3. j.card = [card EXCEPT !.render = view]
      BY <3>1 DEF Job
    <3>4. j.card.render = view /\ j.card.msg = msg /\ j.card.thread = card.thread
      BY <1>1, <3>3 DEF Card
    <3>5. j = [[jobs[w] EXCEPT !.card = [card EXCEPT !.render = view]] EXCEPT !.step = "save"]
      BY <3>1 DEF Job
    <3> QED
      BY <3>1, <3>2, <3>4, <3>5 DEF Job, Steps
  <2> HIDE DEF j, card
  <2>3. Moves(w, j) /\ Continues(w, j)
    BY <2>1, <2>2 DEF Moves, Continues
  <2> QED
    BY <1>1, <1>4, <2>2, <2>3, NothingWrong DEF view, edit, card
<1>5. CASE shown[msg] \in View /\ shown' = edit /\ Mishap("lost", {jobs[w].task}) /\ Refreshed(w, card)
  <2>1. \E k : Moves(w, k) /\ Refreshes(w, card, k)
    BY <1>1, <1>5, RefreshedDoes
  <2>2. Unsure({jobs[w].task})
    BY <1>5, SomethingWrong
  <2> QED
    BY <1>1, <1>5, <2>1, <2>2 DEF view, edit
<1>6. CASE UNCHANGED shown /\ (Fine \/ Mishap("refused", {})) /\ Refreshed(w, card)
  <2>1. \E k : Moves(w, k) /\ Refreshes(w, card, k)
    BY <1>1, <1>6, RefreshedDoes
  <2>2. Unsure({})
    BY <1>6, NothingWrong, SomethingWrong
  <2> QED
    BY <1>1, <1>6, <2>1, <2>2 DEF view
<1>7. CASE shown[msg] = Removed /\ UNCHANGED shown /\ Fine /\ Goto(w, "post")
  <2>1. \E k : Moves(w, k) /\ Continues(w, k) /\ k.step = "post" /\ k.card = card
    BY <1>7, GotoDoes DEF Steps
  <2> QED
    BY <1>1, <1>7, <2>1, NothingWrong DEF view
<1> QED
  BY <1>2, <1>3, <1>4, <1>5, <1>6, <1>7

\* Saving a card writes the row of the job's own task.
LEMMA SaveDoes ==
    ASSUME TypeInv, NEW w \in Workers, Save(w)
    PROVE  LET job == jobs[w] IN
           /\ At(w, "save") /\ UNCHANGED <<tasks, discord, mirrored, mishaps>>
           /\ unsure' = IF shown[job.card.msg] = job.card.render
                        THEN unsure \ {job.task} ELSE unsure
           /\ \E c \in Card : \E j :
                 /\ cards' = [cards EXCEPT ![job.task] = c]
                 /\ c.msg = job.card.msg /\ c.render = job.card.render
                 /\ c.thread = job.card.thread
                 /\ Moves(w, j) /\ Refreshes(w, c, j)
<1> DEFINE c == [jobs[w].card EXCEPT !.gone = (jobs[w].row.there # "live")]
<1>1. jobs[w].card \in Card
  BY JobFields
<1>2. /\ c \in Card /\ c.msg = jobs[w].card.msg /\ c.render = jobs[w].card.render
      /\ c.thread = jobs[w].card.thread
  BY <1>1 DEF Card
<1>3. cards' = [cards EXCEPT ![jobs[w].task] = c] /\ Refreshed(w, c)
  BY DEF Save
<1> HIDE DEF c
<1>4. \E j : Moves(w, j) /\ Refreshes(w, c, j)
  BY <1>2, <1>3, RefreshedDoes
<1> QED
  BY <1>2, <1>3, <1>4 DEF Save

\* postCard's error, by whether there was a card.
LEMMA PostFailedDoes ==
    ASSUME TypeInv, NEW w \in Workers, PostFailed(w)
    PROVE  \E j : /\ Moves(w, j)
                  /\ \/ Finished(w, j)
                     \/ jobs[w].card.msg # None /\ Refreshes(w, jobs[w].card, j)
<1>1. CASE jobs[w].card.msg # None
  BY <1>1, JobFields, RefreshedDoes DEF PostFailed
<1>2. CASE jobs[w].card.msg = None
  BY <1>2, ReturnDoes DEF PostFailed
<1> QED
  BY <1>1, <1>2

\* A post uses a message never sent before, with or without an answer.
LEMMA PostDoes ==
    ASSUME TypeInv, NEW w \in Workers, Post(w)
    PROVE  /\ At(w, "post") /\ UNCHANGED <<tasks, copies, state>>
           /\ \E m, view, j :
                 /\ Moves(w, j)
                 /\ \/ /\ m \in Messages /\ shown[m] = Unsent /\ view \in View
                       /\ shown' = [shown EXCEPT ![m] = view] /\ Unsure({})
                       /\ Continues(w, j) /\ j.step = "thread"
                       /\ j.card.msg = m /\ j.card.render = view
                    \/ /\ m \in Messages /\ shown[m] = Unsent /\ view \in View
                       /\ shown' = [shown EXCEPT ![m] = view] /\ Unsure({m})
                       /\ \/ Finished(w, j)
                          \/ jobs[w].card.msg # None /\ Refreshes(w, jobs[w].card, j)
                    \/ /\ UNCHANGED shown /\ Unsure({})
                       /\ \/ Finished(w, j)
                          \/ jobs[w].card.msg # None /\ Refreshes(w, jobs[w].card, j)
<1> DEFINE unsent == {n \in Messages : shown[n] = Unsent}
           m == CHOOSE n \in unsent : TRUE
           view == Render(jobs[w].row)
           size == Cardinality(jobs[w].row.comments)
           card == [NoCard EXCEPT !.msg = m, !.render = view, !.comments = size]
           j == [jobs[w] EXCEPT !.step = "thread", !.card = card]
<1>1. At(w, "post") /\ UNCHANGED <<tasks, copies, state>> /\ view \in View
      /\ size \in 0 .. Cardinality(Comments)
  <2>1. jobs[w].row \in TaskRow /\ jobs[w].row.comments \subseteq Comments
    BY JobFields DEF TaskRow
  <2> QED
    BY <2>1, Rendered, Sizes DEF Post
<1>2. unsent # {} => m \in Messages /\ shown[m] = Unsent
  <2>1. unsent # {} => m \in unsent
    OBVIOUS
  <2> QED
    BY <2>1
<1>3. \/ /\ unsent # {} /\ shown' = [shown EXCEPT ![m] = view]
         /\ \/ Fine /\ Becomes(w, j)
            \/ Mishap("lost", {m}) /\ PostFailed(w)
      \/ (Fine \/ Mishap("refused", {})) /\ UNCHANGED shown /\ PostFailed(w)
  BY DEF Post
<1> HIDE DEF unsent, m, view, size
<1>4. CASE unsent # {} /\ shown' = [shown EXCEPT ![m] = view] /\ Fine /\ Becomes(w, j)
  <2>1. jobs' = [jobs EXCEPT ![w] = j] /\ lock' = lock
    BY <1>4 DEF Becomes
  <2>2. card \in Card /\ card.msg = m /\ card.render = view
    BY <1>1, <1>2, <1>4, Values DEF Card
  <2> HIDE DEF card
  <2>3. /\ j \in Job /\ j.op = jobs[w].op /\ j.step = "thread" /\ j.task = jobs[w].task
        /\ j.left = jobs[w].left /\ j.card = card
    BY <2>2, JobFields DEF Job, Steps
  <2> HIDE DEF j
  <2>4. Moves(w, j) /\ Continues(w, j)
    BY <2>1, <2>3 DEF Moves, Continues
  <2> QED
    BY <1>1, <1>2, <1>4, <2>2, <2>3, <2>4, NothingWrong
<1>5. CASE unsent # {} /\ shown' = [shown EXCEPT ![m] = view] /\ Mishap("lost", {m}) /\ PostFailed(w)
  <2>1. Unsure({m})
    BY <1>5, SomethingWrong
  <2> QED
    BY <1>1, <1>2, <1>5, <2>1, PostFailedDoes
<1>6. CASE (Fine \/ Mishap("refused", {})) /\ UNCHANGED shown /\ PostFailed(w)
  <2>1. Unsure({})
    BY <1>6, NothingWrong, SomethingWrong
  <2> QED
    BY <1>1, <1>6, <2>1, PostFailedDoes
<1> QED
  BY <1>3, <1>4, <1>5, <1>6

\* After a post its card is saved, with a thread or without.
LEMMA ThreadDoes ==
    ASSUME TypeInv, NEW w \in Workers, Thread(w)
    PROVE  LET job == jobs[w] IN
           /\ At(w, "thread") /\ UNCHANGED <<tasks, discord, mirrored>> /\ Unsure({})
           /\ \E c \in Card : \E j :
                 /\ cards' = [cards EXCEPT ![job.task] = c]
                 /\ c.msg = job.card.msg /\ c.render = job.card.render
                 /\ Moves(w, j)
                 /\ \/ Finished(w, j)
                    \/ Continues(w, j) /\ j.step = "fetch" /\ j.card = c
<1>1. PICK opened \in BOOLEAN :
          LET card == [jobs[w].card EXCEPT !.thread = opened]
          IN /\ Fine \/ Mishap("refused", {})
             /\ cards' = [cards EXCEPT ![jobs[w].task] = card]
             /\ Dealt(w) \/ Becomes(w, [jobs[w] EXCEPT !.card = card, !.step = "fetch"])
  BY DEF Thread
<1> DEFINE c == [jobs[w].card EXCEPT !.thread = opened]
           j == [jobs[w] EXCEPT !.card = c, !.step = "fetch"]
<1>2. jobs[w].card \in Card
  BY JobFields
<1>3. c \in Card /\ c.msg = jobs[w].card.msg /\ c.render = jobs[w].card.render
  BY <1>2 DEF Card
<1>4. At(w, "thread") /\ UNCHANGED <<tasks, discord, mirrored>>
  BY DEF Thread
<1>5. Unsure({})
  BY <1>1, NothingWrong, SomethingWrong
<1>6. cards' = [cards EXCEPT ![jobs[w].task] = c] /\ (Dealt(w) \/ Becomes(w, j))
  BY <1>1
<1> HIDE DEF c
<1>7. CASE Dealt(w)
  BY <1>3, <1>4, <1>5, <1>6, <1>7, DealtDoes
<1>8. CASE Becomes(w, j)
  <2>1. jobs' = [jobs EXCEPT ![w] = j] /\ lock' = lock
    BY <1>8 DEF Becomes
  <2>2. /\ j \in Job /\ j.op = jobs[w].op /\ j.step = "fetch" /\ j.task = jobs[w].task
        /\ j.left = jobs[w].left /\ j.card = c
    BY <1>3, JobFields DEF Job, Steps
  <2> HIDE DEF j
  <2>3. Moves(w, j) /\ Continues(w, j)
    BY <2>1, <2>2 DEF Moves, Continues
  <2> QED
    BY <1>3, <1>4, <1>5, <1>6, <2>2, <2>3
<1> QED
  BY <1>6, <1>7, <1>8

\* What is to be copied is what nobody has recorded as copied.
LEMMA FetchDoes ==
    ASSUME TypeInv, NEW w \in Workers, Fetch(w)
    PROVE  LET job == jobs[w] IN
           /\ At(w, "fetch") /\ UNCHANGED <<tasks, discord, state>> /\ Unsure({})
           /\ \E j : /\ Moves(w, j)
                     /\ \/ Finished(w, j)
                        \/ /\ Live(job.task) /\ job.task \in Tasks
                           /\ j.queue = tasks[job.task].comments \ mirrored
                           /\ Continues(w, j) /\ j.step = "copy" /\ j.card = job.card
<1> DEFINE said == tasks[jobs[w].task].comments
           queue == said \ mirrored
           size == Cardinality(said)
           j == [jobs[w] EXCEPT !.queue = queue, !.step = "copy", !.count = size]
<1>1. At(w, "fetch") /\ UNCHANGED <<tasks, discord, state>>
  BY DEF Fetch
<1>2. \/ Live(jobs[w].task) /\ Fine /\ Becomes(w, j)
      \/ (Fine \/ Mishap("refused", {})) /\ Dealt(w)
  BY DEF Fetch
<1>3. CASE (Fine \/ Mishap("refused", {})) /\ Dealt(w)
  <2>1. Unsure({})
    BY <1>3, NothingWrong, SomethingWrong
  <2> QED
    BY <1>1, <1>3, <2>1, DealtDoes
<1>4. CASE Live(jobs[w].task) /\ Fine /\ Becomes(w, j)
  <2>1. jobs[w].task \in Tasks
    BY <1>4, JobFields DEF Live, Subjects
  <2>2. said \subseteq Comments
    BY <2>1 DEF TypeInv, TypeOK, TaskRow
  <2>3. queue \subseteq Comments /\ size \in 0 .. Cardinality(Comments)
    BY <2>2, Sizes
  <2>4. jobs' = [jobs EXCEPT ![w] = j] /\ lock' = lock
    BY <1>4 DEF Becomes
  <2> HIDE DEF queue, size
  <2>5. /\ j \in Job /\ j.op = jobs[w].op /\ j.step = "copy" /\ j.task = jobs[w].task
        /\ j.left = jobs[w].left /\ j.card = jobs[w].card /\ j.queue = queue
    BY <2>3, JobFields DEF Job, Steps
  <2> HIDE DEF j
  <2>6. Moves(w, j) /\ Continues(w, j)
    BY <2>4, <2>5 DEF Moves, Continues
  <2> QED
    BY <1>1, <1>4, <2>1, <2>5, <2>6, NothingWrong DEF queue
<1> QED
  BY <1>2, <1>3, <1>4

\* A copy adds the next comment once, perhaps unanswered, or nothing.
LEMMA CopyDoes ==
    ASSUME TypeInv, NEW w \in Workers, Copy(w)
    PROVE  LET job == jobs[w]
               next == NextComment(w)
           IN /\ At(w, "copy") /\ UNCHANGED <<tasks, shown, mirrored>>
              /\ \/ /\ UNCHANGED copies /\ Unsure({})
                    /\ \E c \in Card : \E j :
                          /\ cards' = [cards EXCEPT ![job.task] = c]
                          /\ c.msg = job.card.msg /\ c.render = job.card.render
                          /\ c.thread = job.card.thread
                          /\ Moves(w, j) /\ Finished(w, j)
                 \/ /\ next \in job.queue /\ UNCHANGED cards
                    /\ \E j :
                          /\ Moves(w, j)
                          /\ \/ /\ copies' = [copies EXCEPT ![next] = @ + 1] /\ Unsure({})
                                /\ Continues(w, j) /\ j.step = "mark"
                                /\ j.card = job.card /\ j.queue = job.queue
                             \/ /\ copies' = [copies EXCEPT ![next] = @ + 1] /\ Unsure({next})
                                /\ Finished(w, j)
                             \/ UNCHANGED copies /\ Unsure({}) /\ Finished(w, j)
<1> DEFINE job == jobs[w]
           next == NextComment(w)
           c == [job.card EXCEPT !.comments = job.count]
           copied == [copies EXCEPT ![next] = @ + 1]
<1>1. At(w, "copy") /\ UNCHANGED <<tasks, shown, mirrored>>
  BY DEF Copy
<1>2. \/ /\ cards' = [cards EXCEPT ![job.task] = c] /\ Dealt(w) /\ UNCHANGED copies /\ Fine
      \/ /\ job.queue # {} /\ UNCHANGED cards
         /\ \/ copies' = copied /\ Goto(w, "mark") /\ Fine
            \/ copies' = copied /\ Mishap("lost", {next}) /\ Dealt(w)
            \/ UNCHANGED copies /\ Mishap("refused", {}) /\ Dealt(w)
  BY DEF Copy
<1>3. job.queue # {} => next \in job.queue
  BY DEF NextComment
<1>4. /\ c \in Card /\ c.msg = job.card.msg /\ c.render = job.card.render
      /\ c.thread = job.card.thread
  <2>1. job.card \in Card /\ job.count \in 0 .. Cardinality(Comments)
    BY JobFields
  <2> HIDE DEF job
  <2> QED
    BY <2>1 DEF Card
<1> HIDE DEF c, next, copied
<1>5. CASE cards' = [cards EXCEPT ![job.task] = c] /\ Dealt(w) /\ UNCHANGED copies /\ Fine
  <2>1. \E j : Moves(w, j) /\ Finished(w, j)
    BY <1>5, DealtDoes
  <2> QED
    BY <1>1, <1>4, <1>5, <2>1, NothingWrong
<1>6. CASE job.queue # {} /\ UNCHANGED cards /\ copies' = copied /\ Goto(w, "mark") /\ Fine
  <2>1. \E j : /\ Moves(w, j) /\ Continues(w, j) /\ j.step = "mark"
               /\ j.card = job.card /\ j.queue = job.queue
    BY <1>6, GotoDoes DEF Steps
  <2> QED
    BY <1>1, <1>3, <1>6, <2>1, NothingWrong DEF copied, next
<1>7. CASE /\ job.queue # {} /\ UNCHANGED cards
           /\ copies' = copied /\ Mishap("lost", {next}) /\ Dealt(w)
  <2>1. Unsure({next}) /\ \E j : Moves(w, j) /\ Finished(w, j)
    BY <1>7, DealtDoes, SomethingWrong
  <2> QED
    BY <1>1, <1>3, <1>7, <2>1 DEF copied, next
<1>8. CASE /\ job.queue # {} /\ UNCHANGED cards
           /\ UNCHANGED copies /\ Mishap("refused", {}) /\ Dealt(w)
  <2>1. Unsure({}) /\ \E j : Moves(w, j) /\ Finished(w, j)
    BY <1>8, DealtDoes, SomethingWrong
  <2> QED
    BY <1>1, <1>3, <1>8, <2>1 DEF next
<1> QED
  BY <1>2, <1>5, <1>6, <1>7, <1>8

\* A copied comment is recorded before the next one is.
LEMMA MarkDoes ==
    ASSUME TypeInv, NEW w \in Workers, Mark(w)
    PROVE  LET next == NextComment(w) IN
           /\ At(w, "mark") /\ next \in jobs[w].queue /\ mirrored' = mirrored \cup {next}
           /\ UNCHANGED <<tasks, discord, cards, aux>>
           /\ \E j : /\ Moves(w, j) /\ Continues(w, j) /\ j.step = "copy"
                     /\ j.card = jobs[w].card /\ j.queue = jobs[w].queue \ {next}
<1> DEFINE next == NextComment(w)
           queue == jobs[w].queue \ {next}
           j == [jobs[w] EXCEPT !.queue = queue, !.step = "copy"]
<1>1. At(w, "mark") /\ UNCHANGED <<tasks, discord, cards, aux>>
      /\ mirrored' = mirrored \cup {next} /\ Becomes(w, j)
  BY DEF Mark
<1>2. next \in jobs[w].queue
  <2>1. jobs[w].queue # {}
    BY <1>1 DEF TypeInv
  <2> QED
    BY <2>1 DEF NextComment
<1>3. queue \subseteq Comments
  BY JobFields
<1>4. jobs' = [jobs EXCEPT ![w] = j] /\ lock' = lock
  BY <1>1 DEF Becomes
<1> HIDE DEF next, queue
<1>5. /\ j \in Job /\ j.op = jobs[w].op /\ j.step = "copy" /\ j.task = jobs[w].task
      /\ j.left = jobs[w].left /\ j.card = jobs[w].card /\ j.queue = queue
  BY <1>3, JobFields DEF Job, Steps
<1> HIDE DEF j
<1>6. Moves(w, j) /\ Continues(w, j)
  BY <1>4, <1>5 DEF Moves, Continues
<1> QED
  BY <1>1, <1>2, <1>5, <1>6 DEF queue, next

\* A comment said in a thread reaches the task whole, or not at all.
LEMMA SayDoes ==
    ASSUME TypeInv, NEW w \in Workers, Say(w)
    PROVE  LET t == jobs[w].task
               queue == jobs[w].queue
           IN /\ At(w, "said") /\ UNCHANGED <<discord, state>>
              /\ \E j :
                    /\ Moves(w, j)
                    /\ \/ /\ Live(t) /\ t \in Tasks
                          /\ tasks' = [tasks EXCEPT ![t].comments = @ \cup queue]
                          /\ \/ /\ Continues(w, j) /\ j.step = "record" /\ j.queue = queue
                                /\ Unsure({})
                             \/ Finished(w, j) /\ Unsure(queue)
                       \/ UNCHANGED tasks /\ Finished(w, j) /\ Unsure({})
<1> DEFINE t == jobs[w].task
           queue == jobs[w].queue
           said == Live(t) /\ tasks' = [tasks EXCEPT ![t].comments = @ \cup queue]
<1>1. At(w, "said") /\ UNCHANGED <<discord, state>>
  BY DEF Say
<1>2. \/ said /\ Goto(w, "record") /\ Fine
      \/ said /\ Mishap("lost", queue) /\ Return(w)
      \/ (Fine \/ Mishap("refused", {})) /\ UNCHANGED tasks /\ Return(w)
  BY DEF Say
<1>3. said => t \in Tasks
  BY JobFields DEF Live, Subjects
<1>4. CASE said /\ Goto(w, "record") /\ Fine
  <2>1. \E j : /\ Moves(w, j) /\ Continues(w, j) /\ j.step = "record" /\ j.queue = queue
    BY <1>4, GotoDoes DEF Steps
  <2> QED
    BY <1>1, <1>3, <1>4, <2>1, NothingWrong
<1>5. CASE said /\ Mishap("lost", queue) /\ Return(w)
  <2>1. Unsure(queue) /\ \E j : Moves(w, j) /\ Finished(w, j)
    BY <1>5, SomethingWrong, ReturnDoes
  <2> QED
    BY <1>1, <1>3, <1>5, <2>1
<1>6. CASE (Fine \/ Mishap("refused", {})) /\ UNCHANGED tasks /\ Return(w)
  <2>1. Unsure({}) /\ \E j : Moves(w, j) /\ Finished(w, j)
    BY <1>6, NothingWrong, SomethingWrong, ReturnDoes
  <2> QED
    BY <1>1, <1>6, <2>1
<1> QED
  BY <1>2, <1>4, <1>5, <1>6

\* What came from a thread is recorded as being there.
LEMMA RecordDoes ==
    ASSUME TypeInv, NEW w \in Workers, Record(w)
    PROVE  /\ At(w, "record") /\ mirrored' = mirrored \cup jobs[w].queue
           /\ UNCHANGED <<tasks, discord, cards, aux>>
           /\ \E j : Moves(w, j) /\ Finished(w, j)
BY ReturnDoes DEF Record

\* A handler starts, alone or beside others that may run beside it.
Starts(w, j) ==
    /\ At(w, "idle") /\ UNCHANGED <<tasks, shown, state, lock, aux>>
    /\ Moves(w, j) /\ j.op \in AllHandlers /\ j.step = "lock" /\ j.left = {}
    /\ \A v \in Workers : At(v, "idle") \/ {j.op, jobs[v].op} \subseteq Overlapping

\* A handler begins with its own first step.
LEMMA BeginDoes ==
    ASSUME TypeInv, NEW w \in Workers, NEW job \in Job, job.left = {}, Begin(w, job)
    PROVE  \E j : /\ Starts(w, j) /\ j.op = job.op /\ j.task = job.task
                  /\ j.card = job.card /\ j.queue = job.queue
<1> DEFINE j == [job EXCEPT !.step = "lock"]
<1>1. /\ j \in Job /\ j.op = job.op /\ j.step = "lock" /\ j.left = {}
      /\ j.task = job.task /\ j.card = job.card /\ j.queue = job.queue
  BY DEF Job, Steps
<1>2. job.op \in AllHandlers
  BY BoardConstants DEF Begin
<1>3. /\ At(w, "idle") /\ UNCHANGED <<tasks, shown, state, lock, aux>>
      /\ jobs' = [jobs EXCEPT ![w] = j]
      /\ \A v \in Workers : At(v, "idle") \/ {job.op, jobs[v].op} \subseteq Overlapping
  BY DEF Begin, Becomes
<1> HIDE DEF j
<1> QED
  BY <1>1, <1>2, <1>3 DEF Starts, Moves

\* What each kind of handler starts with.
LEMMA StartDoes ==
    ASSUME TypeInv, NEW w \in Workers, Start(w)
    PROVE  \E j :
              /\ Starts(w, j)
              /\ \/ j.op = "sync" /\ j.task = Zero /\ UNCHANGED copies
                 \/ /\ j.op \in {"done", "assign"} /\ j.card = cards[j.task]
                    /\ cards[j.task].msg # None /\ UNCHANGED copies
                 \/ /\ j.op = "add" /\ j.task \in Tasks /\ tasks[j.task].there = "no"
                    /\ \A v \in Workers : jobs[v].task # j.task
                    /\ j.card = NoCard /\ UNCHANGED copies
                 \/ /\ j.op = "message" /\ j.task \in Tasks /\ cards[j.task].thread
                    /\ \E c \in Comments : /\ ~Said(c) /\ j.queue = {c}
                                           /\ copies' = [copies EXCEPT ![c] = 1]
<1>2. CASE Look(w)
  <2> DEFINE job == [Idle EXCEPT !.op = "sync"]
  <2>1. job \in Job /\ job.left = {} /\ job.op = "sync" /\ job.task = Zero
    BY Values DEF Job, AllHandlers
  <2>2. Begin(w, job) /\ UNCHANGED copies
    BY <1>2 DEF Look
  <2> HIDE DEF job
  <2>3. PICK j : Starts(w, j) /\ j.op = job.op /\ j.task = job.task
    BY <2>1, <2>2, BeginDoes
  <2> QED
    BY <2>1, <2>2, <2>3
<1>3. ASSUME NEW t \in Subjects, NEW p \in People \cup {Nobody}, Press(w, t, p)
      PROVE  \E j : /\ Starts(w, j) /\ j.op \in {"done", "assign"} /\ j.card = cards[j.task]
                    /\ cards[j.task].msg # None /\ UNCHANGED copies
  <2>1. PICK op \in {"done", "assign"} :
            Begin(w, [Idle EXCEPT !.op = op, !.task = t, !.card = cards[t], !.whose = p])
    BY <1>3 DEF Press
  <2> DEFINE job == [Idle EXCEPT !.op = op, !.task = t, !.card = cards[t], !.whose = p]
  <2>2. cards[t] \in Card
    BY DEF TypeInv, TypeOK
  <2>3. job \in Job /\ job.left = {} /\ job.op = op /\ job.task = t /\ job.card = cards[t]
    BY <2>2, Values DEF Job, AllHandlers
  <2>4. Begin(w, job)
    BY <2>1
  <2> HIDE DEF job
  <2>5. PICK j : Starts(w, j) /\ j.op = job.op /\ j.task = job.task /\ j.card = job.card
    BY <2>3, <2>4, BeginDoes
  <2> QED
    BY <1>3, <2>3, <2>5 DEF Press
<1>4. ASSUME NEW t \in Tasks, NEW p \in People \cup {Nobody}, AddCommand(w, t, p)
      PROVE  \E j : /\ Starts(w, j) /\ j.op = "add" /\ j.task \in Tasks /\ tasks[j.task].there = "no"
                    /\ \A v \in Workers : jobs[v].task # j.task
                    /\ j.card = NoCard /\ UNCHANGED copies
  <2> DEFINE job == [Idle EXCEPT !.op = "add", !.task = t, !.whose = p]
  <2>1. job \in Job /\ job.left = {} /\ job.op = "add" /\ job.task = t /\ job.card = NoCard
    BY Values DEF Job, AllHandlers, Subjects
  <2>2. Begin(w, job)
    BY <1>4 DEF AddCommand
  <2> HIDE DEF job
  <2>3. PICK j : Starts(w, j) /\ j.op = job.op /\ j.task = job.task /\ j.card = job.card
    BY <2>1, <2>2, BeginDoes
  <2> QED
    BY <1>4, <2>1, <2>3 DEF AddCommand
<1>5. ASSUME NEW t \in Tasks, NEW c \in Comments, Message(w, t, c)
      PROVE  \E j : /\ Starts(w, j) /\ j.op = "message" /\ j.task \in Tasks /\ cards[j.task].thread
                    /\ ~Said(c) /\ j.queue = {c} /\ copies' = [copies EXCEPT ![c] = 1]
  <2> DEFINE job == [Idle EXCEPT !.op = "message", !.task = t, !.queue = {c}]
  <2>1. job \in Job /\ job.left = {} /\ job.op = "message" /\ job.task = t /\ job.queue = {c}
    BY Values DEF Job, AllHandlers, Subjects
  <2>2. Begin(w, job)
    BY <1>5 DEF Message
  <2> HIDE DEF job
  <2>3. PICK j : Starts(w, j) /\ j.op = job.op /\ j.task = job.task /\ j.queue = job.queue
    BY <2>1, <2>2, BeginDoes
  <2> QED
    BY <1>5, <2>1, <2>3 DEF Message
<1>6. CASE \E t \in Subjects, p \in People \cup {Nobody} : Press(w, t, p)
  BY <1>3, <1>6
<1>7. CASE \E t \in Tasks, p \in People \cup {Nobody} : AddCommand(w, t, p)
  BY <1>4, <1>7
<1>8. CASE \E t \in Tasks, c \in Comments : Message(w, t, c)
  BY <1>5, <1>8
<1> QED
  BY <1>2, <1>6, <1>7, <1>8 DEF Start

\* In the web app a task is added, its row changes or something new is said.
LEMMA WebDoes ==
    ASSUME TypeInv, NEW t \in Tasks, InTheWebApp(t)
    PROVE  /\ tasks' \in [Tasks -> TaskRow] /\ UNCHANGED <<discord, state, lock, jobs, aux>>
           /\ \E row \in TaskRow :
                 /\ tasks' = [tasks EXCEPT ![t] = row] /\ row.there # "no"
                 /\ \/ /\ tasks[t].there = "no" /\ row = ZeroTask
                       /\ \A w \in Workers : jobs[w].task # t
                    \/ /\ tasks[t].there # "no"
                       /\ \/ row.comments = tasks[t].comments
                          \/ \E c \in Comments : /\ ~Said(c)
                                                 /\ row.comments = tasks[t].comments \cup {c}
<1> DEFINE old == tasks[t]
           Result(row) ==
               /\ tasks' = [tasks EXCEPT ![t] = row] /\ row.there # "no"
               /\ \/ /\ tasks[t].there = "no" /\ row = ZeroTask
                     /\ \A w \in Workers : jobs[w].task # t
                  \/ /\ tasks[t].there # "no"
                     /\ \/ row.comments = tasks[t].comments
                        \/ \E c \in Comments : /\ ~Said(c)
                                               /\ row.comments = tasks[t].comments \cup {c}
<1>1. tasks \in [Tasks -> TaskRow] /\ old \in TaskRow
      /\ UNCHANGED <<discord, state, lock, jobs, aux>>
  BY DEF TypeInv, TypeOK, InTheWebApp
<1>2. CASE /\ tasks[t].there = "no" /\ \A w \in Workers : jobs[w].task # t
           /\ tasks' = [tasks EXCEPT ![t] = ZeroTask]
  <2>1. ZeroTask \in TaskRow /\ Result(ZeroTask)
    BY <1>2, Values
  <2> QED
    BY <1>1, <2>1
<1>3. CASE Live(t) /\ tasks' = [tasks EXCEPT ![t].done = ~@]
  <2> DEFINE row == [old EXCEPT !.done = ~@]
  <2>1. /\ row \in TaskRow /\ row.there = old.there /\ row.comments = old.comments
        /\ old.there = "live"
    BY <1>1, <1>3 DEF TaskRow, Live
  <2>2. tasks' = [tasks EXCEPT ![t] = row]
    BY <1>3
  <2> HIDE DEF row
  <2> QED
    BY <1>1, <2>1, <2>2
<1>4. CASE Live(t) /\ tasks' = [tasks EXCEPT ![t].there = "trashed"]
  <2> DEFINE row == [old EXCEPT !.there = "trashed"]
  <2>1. /\ row \in TaskRow /\ row.there = "trashed" /\ row.comments = old.comments
        /\ old.there = "live"
    BY <1>1, <1>4 DEF TaskRow, Live
  <2>2. tasks' = [tasks EXCEPT ![t] = row]
    BY <1>4
  <2> HIDE DEF row
  <2> QED
    BY <1>1, <2>1, <2>2
<1>5. ASSUME Live(t), NEW c \in Comments, ~Said(c),
             tasks' = [tasks EXCEPT ![t].comments = @ \cup {c}]
      PROVE  \E row \in TaskRow : Result(row)
  <2> DEFINE row == [old EXCEPT !.comments = @ \cup {c}]
  <2>1. /\ row \in TaskRow /\ row.there = old.there /\ row.comments = old.comments \cup {c}
        /\ old.there = "live"
    BY <1>1, <1>5 DEF TaskRow, Live
  <2>2. tasks' = [tasks EXCEPT ![t] = row]
    BY <1>5
  <2> HIDE DEF row
  <2> QED
    BY <1>1, <1>5, <2>1, <2>2
<1>6. CASE tasks[t].there = "trashed" /\ tasks' = [tasks EXCEPT ![t].there = "live"]
  <2> DEFINE row == [old EXCEPT !.there = "live"]
  <2>1. /\ row \in TaskRow /\ row.there = "live" /\ row.comments = old.comments
        /\ old.there = "trashed"
    BY <1>1, <1>6 DEF TaskRow, Live
  <2>2. tasks' = [tasks EXCEPT ![t] = row]
    BY <1>6
  <2> HIDE DEF row
  <2> QED
    BY <1>1, <2>1, <2>2
<1>7. \E row \in TaskRow : Result(row)
  BY <1>2, <1>3, <1>4, <1>5, <1>6 DEF InTheWebApp
<1> QED
  BY <1>1, <1>7

\* Somebody removes a message in Discord: only what is shown changes.
LEMMA RemoveDoes ==
    ASSUME TypeInv, NEW m \in Messages, RemoveInDiscord(m)
    PROVE  /\ shown[m] \in View /\ shown' = [shown EXCEPT ![m] = Removed] /\ Unsure({})
           /\ UNCHANGED <<tasks, copies, state, lock, jobs>>
BY SomethingWrong DEF RemoveInDiscord

\* The bot stops: the jobs and the lock are gone, the tables are not.
LEMMA StopDoes ==
    ASSUME TypeInv, Stop
    PROVE  /\ UNCHANGED <<tasks, discord, state>> /\ lock' = None
           /\ jobs' = [w \in Workers |-> Idle]
           /\ Unsure(UNION {Unwritten(w) : w \in Workers})
BY SomethingWrong DEF Stop

\* Only who has the lock takes a step past Lock, and either keeps it or is done.
Working(w) == jobs[w].step \notin {"idle", "lock"}

\* A job at work keeps the lock until it ends, and its operation.
LEMMA WorkDoes ==
    ASSUME TypeInv, NEW w \in Workers, Work(w)
    PROVE  \/ Lock(w)
           \/ /\ Working(w)
              /\ \E j : /\ Moves(w, j)
                        /\ \/ j = Idle /\ lock' = None
                           \/ /\ j.op = jobs[w].op /\ j.step \notin {"idle", "lock"}
                              /\ lock' = lock
<1> SUFFICES ASSUME ~Lock(w)
             PROVE  Working(w)
                    /\ \E j : /\ Moves(w, j)
                              /\ \/ j = Idle /\ lock' = None
                                 \/ /\ j.op = jobs[w].op /\ j.step \notin {"idle", "lock"}
                                    /\ lock' = lock
  OBVIOUS
<1>1. \A j : Finished(w, j) => \/ j = Idle /\ lock' = None
                               \/ j.op = jobs[w].op /\ j.step \notin {"idle", "lock"} /\ lock' = lock
  BY DEF Finished
<1>2. \A j, card : Refreshes(w, card, j) =>
          \/ j = Idle /\ lock' = None
          \/ j.op = jobs[w].op /\ j.step \notin {"idle", "lock"} /\ lock' = lock
  BY <1>1 DEF Refreshes, Continues
<1> HIDE DEF Finished, Refreshes
<1>3. CASE Find(w)
  BY <1>1, <1>3, FindDoes DEF At, Working, Continues
<1>4. CASE Write(w)
  BY <1>1, <1>4, WriteDoes DEF At, Working, Continues
<1>5. CASE Add(w)
  BY <1>1, <1>5, AddDoes DEF At, Working, Continues
<1>6. CASE List(w)
  BY <1>1, <1>6, ListDoes DEF At, Working, Continues
<1>7. CASE LookAt(w)
  BY <1>1, <1>7, LookAtDoes DEF At, Working, Continues
<1>8. CASE Edit(w)
  BY <1>1, <1>2, <1>8, EditDoes DEF At, Working, Continues
<1>9. CASE Save(w)
  BY <1>1, <1>2, <1>9, SaveDoes DEF At, Working, Continues
<1>10. CASE Post(w)
  BY <1>1, <1>2, <1>10, PostDoes DEF At, Working, Continues
<1>11. CASE Thread(w)
  BY <1>1, <1>11, ThreadDoes DEF At, Working, Continues
<1>12. CASE Fetch(w)
  BY <1>1, <1>12, FetchDoes DEF At, Working, Continues
<1>13. CASE Copy(w)
  BY <1>1, <1>13, CopyDoes DEF At, Working, Continues
<1>14. CASE Mark(w)
  BY <1>1, <1>14, MarkDoes DEF At, Working, Continues
<1>15. CASE Say(w)
  BY <1>1, <1>15, SayDoes DEF At, Working, Continues
<1>16. CASE Record(w)
  BY <1>1, <1>16, RecordDoes DEF At, Working, Continues
<1> QED
  BY <1>3, <1>4, <1>5, <1>6, <1>7, <1>8, <1>9, <1>10, <1>11, <1>12, <1>13, <1>14,
     <1>15, <1>16 DEF Work

----------------------------------------------------------------------------
(* Types.                                                                  *)

\* What TypeInv says of everything but the jobs, and of one job.
Tables ==
    /\ tasks \in [Tasks -> TaskRow]
    /\ shown \in [Messages -> View \cup {Unsent, Removed}]
    /\ copies \in [Comments -> Nat]
    /\ cards \in [Subjects -> Card]
    /\ mirrored \subseteq Comments
    /\ lock \in Workers \cup {None}
    /\ mishaps \in 0 .. MaxMishaps
    /\ unsure \subseteq Messages \cup Tasks \cup Comments \cup {Zero}

JobFine(j) ==
    /\ j.step = "idle" \/ j.op # "none"
    /\ j.step = "mark" => j.queue # {}
    /\ j.step = "find" => j.op = "done"
    /\ j.step = "write" => j.op \in {"done", "assign", "add"}
    /\ j.step = "add" => j.op = "add"

\* Types, taken apart into the tables and the jobs.
LEMMA Parts == TypeInv => Tables /\ \A w \in Workers : JobFine(jobs[w])
BY DEF TypeInv, TypeOK, Tables, JobFine, At

\* Types, put together again after one job moved.
LEMMA Typed ==
    ASSUME TypeInv, NEW w \in Workers, NEW j, Moves(w, j), JobFine(j), Tables'
    PROVE  TypeInv'
<1>1. jobs \in [Workers -> Job] /\ j \in Job /\ jobs' = [jobs EXCEPT ![w] = j]
  BY DEF Moves, TypeInv, TypeOK
<1>2. jobs' \in [Workers -> Job] /\ \A v \in Workers : jobs'[v] = IF v = w THEN j ELSE jobs[v]
  BY <1>1
<1>3. TypeOK'
  BY <1>2 DEF TypeOK, Tables
<1>4. \A v \in Workers : JobFine(jobs'[v])
  BY <1>2, Parts
<1> QED
  BY <1>3, <1>4 DEF TypeInv, JobFine, At

\* What every step but Start and Lock keeps is the kind of job it is.
LEMMA StillFine ==
    ASSUME TypeInv, NEW w \in Workers, NEW j, Working(w)
    PROVE  /\ Finished(w, j) => JobFine(j)
           /\ j.op = jobs[w].op /\ j.step \notin {"mark", "find", "write", "add"} => JobFine(j)
           /\ \A card : Refreshes(w, card, j) => JobFine(j)
<1>1. jobs[w].op # "none"
  BY DEF TypeInv, At, Working
<1>2. Finished(w, j) => JobFine(j)
  BY Values DEF Finished, JobFine
<1>3. j.op = jobs[w].op /\ j.step \notin {"mark", "find", "write", "add"} => JobFine(j)
  BY <1>1 DEF JobFine
<1> QED
  BY <1>2, <1>3 DEF Refreshes, Continues

\* Types of what mishaps leave behind.
LEMMA UnsureTyped ==
    ASSUME TypeInv, NEW what \in SUBSET (Messages \cup Tasks \cup Comments \cup {Zero}),
           Unsure(what)
    PROVE  /\ mishaps' \in 0 .. MaxMishaps
           /\ unsure' \subseteq Messages \cup Tasks \cup Comments \cup {Zero}
BY DEF Unsure, TypeInv, TypeOK

\* A job at work keeps the types.
LEMMA TypeWorks ==
    ASSUME TypeInv, NEW w \in Workers, Work(w), Working(w)
    PROVE  TypeInv'
<1> USE DEF discord, state, aux
<1>1. Tables
  BY Parts
<1>2. Unsure({}) => /\ mishaps' \in 0 .. MaxMishaps
                    /\ unsure' \subseteq Messages \cup Tasks \cup Comments \cup {Zero}
  BY UnsureTyped
<1>3. lock' \in Workers \cup {None}
  BY <1>1, WorkDoes DEF Tables, Working, Lock, At
<1>4. CASE Find(w)
  <2>1. PICK j : /\ Moves(w, j)
                 /\ \/ Finished(w, j)
                    \/ j.op = jobs[w].op /\ j.op = "done" /\ j.step \in {"write", "edit"}
    BY <1>4, FindDoes DEF Continues, TypeInv
  <2>2. JobFine(j)
    BY <2>1, StillFine DEF JobFine
  <2>3. Tables'
    BY <1>1, <1>2, <1>3, <1>4, FindDoes DEF Tables
  <2> QED
    BY <2>1, <2>2, <2>3, Typed
<1>5. CASE Write(w)
  <2>1. PICK j : /\ Moves(w, j)
                 /\ \/ Finished(w, j)
                    \/ j.op = jobs[w].op /\ j.step \in {"post", "edit"}
    BY <1>5, WriteDoes DEF Continues
  <2>2. JobFine(j)
    BY <2>1, StillFine
  <2>3. Tables'
    BY <1>1, <1>2, <1>3, <1>5, WriteDoes DEF Tables, Rewritten
  <2> QED
    BY <2>1, <2>2, <2>3, Typed
<1>6. CASE Add(w)
  <2>1. PICK j : /\ Moves(w, j)
                 /\ \/ Finished(w, j)
                    \/ j.op = "add" /\ j.step \in {"post", "write"}
    BY <1>6, AddDoes DEF Continues, TypeInv
  <2>2. JobFine(j)
    BY <2>1, StillFine DEF JobFine
  <2>3. Tables'
    BY <1>1, <1>2, <1>3, <1>6, AddDoes, Values DEF Tables
  <2> QED
    BY <2>1, <2>2, <2>3, Typed
<1>7. CASE List(w)
  <2>1. PICK j : Moves(w, j) /\ (Finished(w, j) \/ (j.op = jobs[w].op /\ j.step = "look"))
    BY <1>7, ListDoes
  <2>2. JobFine(j)
    BY <2>1, StillFine
  <2>3. Tables'
    BY <1>1, <1>2, <1>3, <1>7, ListDoes DEF Tables
  <2> QED
    BY <2>1, <2>2, <2>3, Typed
<1>8. CASE LookAt(w)
  <2>1. PICK j : /\ Moves(w, j)
                 /\ Finished(w, j) \/ (j.op = jobs[w].op /\ j.step \in {"post", "edit"})
    BY <1>8, LookAtDoes
  <2>2. JobFine(j)
    BY <2>1, StillFine
  <2>3. Tables'
    BY <1>1, <1>3, <1>8, LookAtDoes DEF Tables
  <2> QED
    BY <2>1, <2>2, <2>3, Typed
<1>9. CASE Edit(w)
  <2>1. PICK j : /\ Moves(w, j)
                 /\ \/ Refreshes(w, jobs[w].card, j)
                    \/ j.op = jobs[w].op /\ j.step \in {"save", "post"}
    BY <1>9, EditDoes DEF Continues
  <2>2. JobFine(j)
    BY <2>1, StillFine
  <2>3. Tables'
    <3>1. UNCHANGED <<tasks, copies, cards, mirrored>>
          /\ shown' \in [Messages -> View \cup {Unsent, Removed}]
      BY <1>1, <1>9, EditDoes DEF Tables
    <3>2. Unsure({}) \/ Unsure({jobs[w].task})
      BY <1>9, EditDoes
    <3>3. Unsure({jobs[w].task}) =>
              /\ mishaps' \in 0 .. MaxMishaps
              /\ unsure' \subseteq Messages \cup Tasks \cup Comments \cup {Zero}
      BY JobFields, UnsureTyped DEF Subjects
    <3> QED
      BY <1>1, <1>2, <1>3, <3>1, <3>2, <3>3 DEF Tables
  <2> QED
    BY <2>1, <2>2, <2>3, Typed
<1>10. CASE Save(w)
  <2>1. PICK c, j :
            /\ c \in Card
            /\ cards' = [cards EXCEPT ![jobs[w].task] = c] /\ Moves(w, j) /\ Refreshes(w, c, j)
    BY <1>10, SaveDoes
  <2>2. JobFine(j)
    BY <2>1, StillFine
  <2>3. Tables'
    <3>1. UNCHANGED <<tasks, discord, mirrored, mishaps>> /\ unsure' \subseteq unsure
      BY <1>10, SaveDoes
    <3> QED
      BY <1>1, <1>3, <2>1, <3>1 DEF Tables
  <2> QED
    BY <2>1, <2>2, <2>3, Typed
<1>11. CASE Post(w)
  <2>1. PICK m, view, j :
            /\ Moves(w, j)
            /\ \/ UNCHANGED shown /\ Unsure({})
               \/ /\ m \in Messages /\ view \in View /\ shown' = [shown EXCEPT ![m] = view]
                  /\ Unsure({}) \/ Unsure({m})
            /\ \/ Finished(w, j) \/ Refreshes(w, jobs[w].card, j)
               \/ j.op = jobs[w].op /\ j.step = "thread"
    <3>1. PICK m, view, j :
              /\ Moves(w, j)
              /\ \/ /\ m \in Messages /\ shown[m] = Unsent /\ view \in View
                    /\ shown' = [shown EXCEPT ![m] = view] /\ Unsure({})
                    /\ Continues(w, j) /\ j.step = "thread"
                    /\ j.card.msg = m /\ j.card.render = view
                 \/ /\ m \in Messages /\ shown[m] = Unsent /\ view \in View
                    /\ shown' = [shown EXCEPT ![m] = view] /\ Unsure({m})
                    /\ \/ Finished(w, j)
                       \/ jobs[w].card.msg # None /\ Refreshes(w, jobs[w].card, j)
                 \/ /\ UNCHANGED shown /\ Unsure({})
                    /\ \/ Finished(w, j)
                       \/ jobs[w].card.msg # None /\ Refreshes(w, jobs[w].card, j)
      BY <1>11, PostDoes
    <3> QED
      BY <3>1 DEF Continues
  <2>2. JobFine(j)
    BY <2>1, StillFine
  <2>3. Tables'
    <3>1. UNCHANGED <<tasks, copies, state>>
      BY <1>11, PostDoes
    <3>2. shown' \in [Messages -> View \cup {Unsent, Removed}]
      BY <1>1, <2>1 DEF Tables
    <3>3. m \in Messages /\ Unsure({m}) =>
              /\ mishaps' \in 0 .. MaxMishaps
              /\ unsure' \subseteq Messages \cup Tasks \cup Comments \cup {Zero}
      BY UnsureTyped
    <3> QED
      BY <1>1, <1>2, <1>3, <2>1, <3>1, <3>2, <3>3 DEF Tables
  <2> QED
    BY <2>1, <2>2, <2>3, Typed
<1>12. CASE Thread(w)
  <2>1. PICK c, j :
            /\ c \in Card
            /\ cards' = [cards EXCEPT ![jobs[w].task] = c] /\ Moves(w, j)
            /\ Finished(w, j) \/ (j.op = jobs[w].op /\ j.step = "fetch")
    BY <1>12, ThreadDoes DEF Continues
  <2>2. JobFine(j)
    BY <2>1, StillFine
  <2>3. Tables'
    BY <1>1, <1>2, <1>3, <1>12, <2>1, ThreadDoes DEF Tables
  <2> QED
    BY <2>1, <2>2, <2>3, Typed
<1>13. CASE Fetch(w)
  <2>1. PICK j : /\ Moves(w, j)
                 /\ Finished(w, j) \/ (j.op = jobs[w].op /\ j.step = "copy")
    BY <1>13, FetchDoes DEF Continues
  <2>2. JobFine(j)
    BY <2>1, StillFine
  <2>3. Tables'
    BY <1>1, <1>2, <1>3, <1>13, FetchDoes DEF Tables
  <2> QED
    BY <2>1, <2>2, <2>3, Typed
<1>14. CASE Copy(w)
  <2> DEFINE next == NextComment(w)
  <2>1. UNCHANGED <<tasks, shown, mirrored>>
    BY <1>14, CopyDoes
  <2>2. CASE /\ UNCHANGED copies /\ Unsure({})
             /\ \E c \in Card : \E j :
                   /\ cards' = [cards EXCEPT ![jobs[w].task] = c] /\ Moves(w, j) /\ Finished(w, j)
    <3>1. PICK c, j :
              c \in Card /\ cards' = [cards EXCEPT ![jobs[w].task] = c] /\ Moves(w, j) /\ Finished(w, j)
      BY <2>2
    <3>2. Tables'
      BY <1>1, <1>2, <1>3, <2>1, <2>2, <3>1 DEF Tables
    <3> QED
      BY <3>1, <3>2, StillFine, Typed
  <2>3. CASE /\ next \in jobs[w].queue /\ UNCHANGED cards
             /\ UNCHANGED copies \/ copies' = [copies EXCEPT ![next] = @ + 1]
             /\ Unsure({}) \/ Unsure({next})
             /\ \E j : /\ Moves(w, j)
                       /\ \/ Finished(w, j)
                          \/ j.op = jobs[w].op /\ j.step = "mark" /\ j.queue = jobs[w].queue
    <3>1. next \in Comments
      BY <2>3, JobFields
    <3>2. copies' \in [Comments -> Nat]
      BY <1>1, <2>3, <3>1 DEF Tables
    <3>3. Unsure({next}) =>
              /\ mishaps' \in 0 .. MaxMishaps
              /\ unsure' \subseteq Messages \cup Tasks \cup Comments \cup {Zero}
      BY <3>1, UnsureTyped
    <3>4. Tables'
      BY <1>1, <1>2, <1>3, <2>1, <2>3, <3>2, <3>3 DEF Tables
    <3>5. PICK j : /\ Moves(w, j)
                   /\ \/ Finished(w, j)
                      \/ j.op = jobs[w].op /\ j.step = "mark" /\ j.queue = jobs[w].queue
      BY <2>3
    <3>6. JobFine(j)
      BY <2>3, <3>5, StillFine DEF JobFine, TypeInv, At, Working
    <3> QED
      BY <3>4, <3>5, <3>6, Typed
  <2> QED
    BY <1>14, <2>2, <2>3, CopyDoes DEF Continues
<1>15. CASE Mark(w)
  <2>1. PICK j : Moves(w, j) /\ j.op = jobs[w].op /\ j.step = "copy"
    BY <1>15, MarkDoes DEF Continues
  <2>2. NextComment(w) \in Comments
    BY <1>15, MarkDoes, JobFields
  <2>3. Tables'
    BY <1>1, <1>3, <1>15, <2>2, MarkDoes DEF Tables
  <2> QED
    BY <2>1, <2>3, StillFine, Typed
<1>16. CASE Say(w)
  <2> DEFINE t == jobs[w].task
             queue == jobs[w].queue
  <2>1. PICK j :
            /\ Moves(w, j)
            /\ Finished(w, j) \/ (j.op = jobs[w].op /\ j.step = "record")
            /\ Unsure({}) \/ Unsure(queue)
            /\ \/ UNCHANGED tasks
               \/ t \in Tasks /\ tasks' = [tasks EXCEPT ![t].comments = @ \cup queue]
    BY <1>16, SayDoes DEF Continues
  <2>2. queue \subseteq Comments
    BY JobFields
  <2>3. tasks' \in [Tasks -> TaskRow]
    <3>1. CASE t \in Tasks /\ tasks' = [tasks EXCEPT ![t].comments = @ \cup queue]
      <4> DEFINE row == [tasks[t] EXCEPT !.comments = @ \cup queue]
      <4>1. row \in TaskRow
        BY <1>1, <2>2, <3>1 DEF Tables, TaskRow
      <4>2. tasks' = [tasks EXCEPT ![t] = row]
        BY <3>1
      <4> HIDE DEF row
      <4> QED
        BY <1>1, <4>1, <4>2 DEF Tables
    <3> QED
      BY <1>1, <2>1, <3>1 DEF Tables
  <2>4. Unsure(queue) =>
            /\ mishaps' \in 0 .. MaxMishaps
            /\ unsure' \subseteq Messages \cup Tasks \cup Comments \cup {Zero}
    BY <2>2, UnsureTyped
  <2>5. Tables'
    BY <1>1, <1>2, <1>3, <1>16, <2>1, <2>3, <2>4, SayDoes DEF Tables
  <2> QED
    BY <2>1, <2>5, StillFine, Typed
<1>17. CASE Record(w)
  <2>1. Tables'
    BY <1>1, <1>3, <1>17, RecordDoes, JobFields DEF Tables
  <2> QED
    BY <1>17, <2>1, RecordDoes, StillFine, Typed
<1> QED
  BY <1>4, <1>5, <1>6, <1>7, <1>8, <1>9, <1>10, <1>11, <1>12, <1>13, <1>14, <1>15,
     <1>16, <1>17 DEF Work, Working, Lock, At

\* So does one that starts or takes the lock,
LEMMA TypeStarts ==
    ASSUME TypeInv, NEW w \in Workers, Start(w) \/ Lock(w)
    PROVE  TypeInv'
<1> USE DEF discord, state, aux
<1>1. Tables
  BY Parts
<1>2. CASE Lock(w)
  <2>1. PICK j : /\ Moves(w, j)
                 /\ \/ j.op = "done" /\ j.step = "find"
                    \/ j.op = "assign" /\ j.step = "write"
                    \/ j.op = "add" /\ j.step = "add"
                    \/ j.op = "message" /\ j.step = "said"
                    \/ j.op = "sync" /\ j.step = "list"
    BY <1>2, LockDoes
  <2>2. JobFine(j)
    BY <2>1 DEF JobFine
  <2>3. Tables'
    BY <1>1, <1>2, LockDoes DEF Tables
  <2> QED
    BY <2>1, <2>2, <2>3, Typed
<1>3. CASE Start(w)
  <2>1. PICK j : /\ Starts(w, j)
                 /\ \/ UNCHANGED copies
                    \/ \E c \in Comments : copies' = [copies EXCEPT ![c] = 1]
    BY <1>3, StartDoes
  <2>2. Moves(w, j) /\ JobFine(j)
    BY <2>1 DEF Starts, JobFine, AllHandlers
  <2>3. copies' \in [Comments -> Nat]
    BY <1>1, <2>1 DEF Tables
  <2>4. Tables'
    BY <1>1, <2>1, <2>3 DEF Tables, Starts
  <2> QED
    BY <2>2, <2>4, Typed
<1> QED
  BY <1>2, <1>3

\* and whatever happens beside the jobs.
LEMMA TypeOthers ==
    ASSUME TypeInv,
           \/ \E t \in Tasks : InTheWebApp(t)
           \/ \E m \in Messages : RemoveInDiscord(m)
           \/ Stop
           \/ UNCHANGED vars
    PROVE  TypeInv'
<1> USE DEF discord, state, aux
<1>1. Tables
  BY Parts
<1>2. Tables' /\ UNCHANGED jobs => TypeInv'
  BY DEF TypeInv, TypeOK, Tables, At
<1>3. ASSUME NEW t \in Tasks, InTheWebApp(t)
      PROVE  TypeInv'
  <2>1. tasks' \in [Tasks -> TaskRow] /\ UNCHANGED <<discord, state, lock, jobs, aux>>
    BY <1>3, WebDoes
  <2> QED
    BY <1>1, <1>2, <2>1 DEF Tables
<1>4. ASSUME NEW m \in Messages, RemoveInDiscord(m)
      PROVE  TypeInv'
  <2>1. Tables'
    BY <1>1, <1>4, RemoveDoes, UnsureTyped DEF Tables
  <2> QED
    BY <1>2, <1>4, <2>1, RemoveDoes
<1>5. CASE Stop
  <2>1. ASSUME NEW w \in Workers
        PROVE  Unwritten(w) \subseteq Messages \cup Tasks \cup Comments \cup {Zero}
    <3>1. jobs[w].queue \subseteq Comments /\ jobs[w].task \in Subjects
      BY JobFields
    <3>2. At(w, "mark") => NextComment(w) \in Comments
      BY <3>1 DEF TypeInv, NextComment
    <3>3. jobs[w].card.msg \in Messages \cup {Zero}
      BY JobFields DEF Card, Zero
    <3> QED
      BY <3>1, <3>2, <3>3 DEF Unwritten, Subjects, At
  <2>2. UNION {Unwritten(w) : w \in Workers} \subseteq Messages \cup Tasks \cup Comments \cup {Zero}
    BY <2>1
  <2>3. Tables'
    BY <1>1, <1>5, <2>2, StopDoes, UnsureTyped DEF Tables
  <2>4. jobs' = [w \in Workers |-> Idle]
    BY <1>5, StopDoes
  <2> QED
    BY <2>3, <2>4, Values DEF TypeInv, TypeOK, Tables, At
<1>6. CASE UNCHANGED vars
  BY <1>1, <1>2, <1>6 DEF vars, Tables
<1> QED
  BY <1>3, <1>4, <1>5, <1>6

\* Every step keeps the types.
LEMMA TypeStays == TypeInv /\ [Next]_vars => TypeInv'
<1> SUFFICES ASSUME TypeInv, [Next]_vars
             PROVE  TypeInv'
  OBVIOUS
<1>1. ASSUME NEW w \in Workers, Start(w) \/ Work(w)
      PROVE  TypeInv'
  BY <1>1, TypeStarts, TypeWorks, WorkDoes
<1> QED
  BY <1>1, TypeOthers DEF Next

\* They hold at the start.
LEMMA TypeInit == Init => TypeInv
BY Values, BoardConstants DEF Init, TypeInv, TypeOK, At

\* Every table, message and job holds values of its kind, for any number of
\* tasks, comments, messages and handlers at once (TypeOK).
THEOREM TypesHold == Spec => []TypeOK
<1>1. TypeInv => TypeOK
  BY DEF TypeInv
<1> QED
  BY <1>1, TypeInit, TypeStays, PTL DEF Spec

----------------------------------------------------------------------------
(* The lock.                                                               *)

\* Who works on the board has its lock; and what may not overlap does not.
OneAtATime ==
    /\ \A w \in Workers : Working(w) => lock = w
    /\ \A w, v \in Workers : w # v /\ ~At(w, "idle") /\ ~At(v, "idle")
           => {jobs[w].op, jobs[v].op} \subseteq Overlapping

\* While somebody has the lock, or takes it, nobody else is at work.
LEMMA OthersWait ==
    ASSUME OneAtATime, NEW w \in Workers, Working(w) \/ lock = None
    PROVE  \A v \in Workers \ {w} : ~Working(v)
BY BoardConstants DEF OneAtATime

\* Only w's job changes, to j.
LEMMA OnlyOne ==
    ASSUME TypeInv, NEW w \in Workers, NEW j, Moves(w, j)
    PROVE  /\ jobs'[w] = j /\ j \in Job
           /\ \A v \in Workers \ {w} : jobs'[v] = jobs[v]
BY DEF Moves, TypeInv, TypeOK

\* Every step keeps to one handler at a time.
LEMMA LockStays ==
    ASSUME TypeInv, OneAtATime, [Next]_vars
    PROVE  OneAtATime'
<1>1. ASSUME NEW w \in Workers, Start(w)
      PROVE  OneAtATime'
  <2>1. PICK j : Starts(w, j)
    BY <1>1, StartDoes
  <2>2. /\ jobs'[w] = j /\ j.step = "lock" /\ lock' = lock /\ At(w, "idle")
        /\ \A v \in Workers \ {w} : jobs'[v] = jobs[v]
        /\ \A v \in Workers : At(v, "idle") \/ {j.op, jobs[v].op} \subseteq Overlapping
    BY <2>1, OnlyOne DEF Starts
  <2> QED
    BY <2>2 DEF OneAtATime, Working, At
<1>2. ASSUME NEW w \in Workers, Work(w)
      PROVE  OneAtATime'
  <2>1. CASE Lock(w)
    <3>1. lock = None /\ lock' = w /\ \E j : Moves(w, j) /\ j.op = jobs[w].op /\ At(w, "lock")
      BY <2>1, LockDoes
    <3>2. PICK j : Moves(w, j) /\ j.op = jobs[w].op /\ At(w, "lock")
      BY <3>1
    <3>3. \A v \in Workers \ {w} : ~Working(v)
      BY <3>1, OthersWait
    <3> QED
      BY <3>1, <3>2, <3>3, OnlyOne DEF OneAtATime, Working, At
  <2>2. CASE Working(w) /\ \E j : /\ Moves(w, j)
                                  /\ \/ j = Idle /\ lock' = None
                                     \/ /\ j.op = jobs[w].op /\ lock' = lock
                                        /\ j.step \notin {"idle", "lock"}
    <3>1. PICK j : /\ Moves(w, j)
                   /\ \/ j = Idle /\ lock' = None
                      \/ j.op = jobs[w].op /\ j.step \notin {"idle", "lock"} /\ lock' = lock
      BY <2>2
    <3>2. \A v \in Workers \ {w} : ~Working(v)
      BY <2>2, OthersWait
    <3> QED
      BY <2>2, <3>1, <3>2, OnlyOne, Values DEF OneAtATime, Working, At
  <2> QED
    BY <1>2, <2>1, <2>2, WorkDoes
<1>3. CASE Stop
  BY <1>3, StopDoes, Values DEF OneAtATime, Working, At
<1>4. CASE UNCHANGED <<lock, jobs>>
  BY <1>4 DEF OneAtATime, Working, At
<1> QED
  BY <1>1, <1>2, <1>3, <1>4 DEF Next, vars, InTheWebApp, RemoveInDiscord

----------------------------------------------------------------------------
(* Tasks that are not there yet.                                           *)

Unlisted == {t \in Tasks : tasks[t].there = "no"}

\* Task 0 is never one that is still to be added.
LEMMA ZeroIsListed == Zero \notin Unlisted /\ Zero \notin Unlisted'
BY Values DEF Unlisted, Zero

\* /task is going to add its task.
Adding(w) == jobs[w].op = "add" /\ jobs[w].step \in {"lock", "add"}

\* Nothing is known of a task that is not there, and only who adds it is at work on it.
Listed ==
    /\ \A t \in Tasks :
           t \in Unlisted => cards[t].msg = None /\ ~cards[t].thread /\ tasks[t].comments = {}
    /\ \A w \in Workers :
           /\ Adding(w) => /\ jobs[w].task \in Unlisted
                           /\ \A v \in Workers \ {w} : jobs[v].task # jobs[w].task
           /\ ~Adding(w) => jobs[w].task \notin Unlisted
           /\ \A t \in jobs[w].left : t \notin Unlisted

\* A step of a job at work goes on with its task or with one it has yet to look at.
LEMMA NextJob ==
    ASSUME TypeInv, NEW w \in Workers, Work(w), Working(w)
    PROVE  \E j : /\ Moves(w, j) /\ j.step \notin {"lock", "add"}
                  /\ j.task \in {Zero, jobs[w].task} \cup jobs[w].left
                  /\ \A t \in j.left : t \in jobs[w].left \/ Wanted(tasks, t)
<1> DEFINE Result(j) == /\ j.step \notin {"lock", "add"}
                        /\ j.task \in {Zero, jobs[w].task} \cup jobs[w].left
                        /\ \A t \in j.left : t \in jobs[w].left \/ Wanted(tasks, t)
<1>1. \A j : Finished(w, j) => Result(j)
  BY Values DEF Finished
<1>2. \A j : Continues(w, j) /\ j.step \notin {"lock", "add"} => Result(j)
  BY DEF Continues
<1>3. \A j, card : Refreshes(w, card, j) => Result(j)
  BY <1>1, <1>2 DEF Refreshes
<1>4. CASE LookAt(w)
  <2>1. PICK j : /\ Moves(w, j)
                 /\ \/ Finished(w, j)
                    \/ \E t \in jobs[w].left :
                          /\ j.op = jobs[w].op /\ j.task = t /\ j.card = cards[t]
                          /\ j.left = jobs[w].left \ {t} /\ lock' = lock
                          /\ j.step = IF cards[t].msg = None THEN "post" ELSE "edit"
    BY <1>4, LookAtDoes
  <2>2. Result(j)
    BY <1>1, <2>1
  <2> QED
    BY <2>1, <2>2
<1>5. CASE List(w)
  <2>1. PICK j : /\ Moves(w, j)
                 /\ \/ Finished(w, j)
                    \/ /\ j.op = jobs[w].op /\ j.task = jobs[w].task /\ lock' = lock
                       /\ j.left = {t \in Subjects : Wanted(tasks, t)} /\ j.step = "look"
    BY <1>5, ListDoes
  <2>2. Result(j)
    BY <1>1, <2>1
  <2> QED
    BY <2>1, <2>2
<1>6. CASE Write(w)
  <2>1. PICK j : /\ Moves(w, j)
                 /\ \/ Finished(w, j)
                    \/ Continues(w, j) /\ j.step \in {"post", "edit"}
                    \/ j.task = Zero /\ j.left = jobs[w].left /\ j.step = "post"
    BY <1>6, WriteDoes
  <2>2. Result(j)
    BY <1>1, <1>2, <2>1
  <2> QED
    BY <2>1, <2>2
<1> HIDE DEF Result
<1>7. CASE Find(w)
  BY <1>1, <1>2, <1>7, FindDoes DEF Result
<1>8. CASE Add(w)
  BY <1>1, <1>2, <1>8, AddDoes DEF Result
<1>9. CASE Edit(w)
  BY <1>2, <1>3, <1>9, EditDoes DEF Result
<1>10. CASE Save(w)
  BY <1>3, <1>10, SaveDoes DEF Result
<1>11. CASE Post(w)
  BY <1>1, <1>2, <1>3, <1>11, PostDoes DEF Result
<1>12. CASE Thread(w)
  BY <1>1, <1>2, <1>12, ThreadDoes DEF Result
<1>13. CASE Fetch(w)
  BY <1>1, <1>2, <1>13, FetchDoes DEF Result
<1>14. CASE Copy(w)
  BY <1>1, <1>2, <1>14, CopyDoes DEF Result
<1>15. CASE Mark(w)
  BY <1>2, <1>15, MarkDoes DEF Result
<1>16. CASE Say(w)
  BY <1>1, <1>2, <1>16, SayDoes DEF Result
<1>17. CASE Record(w)
  BY <1>1, <1>17, RecordDoes DEF Result
<1> QED
  BY <1>4, <1>5, <1>6, <1>7, <1>8, <1>9, <1>10, <1>11, <1>12, <1>13, <1>14, <1>15,
     <1>16, <1>17 DEF Work, Working, Lock, At

\* It writes to its own task's card only, and never removes a task.
LEMMA OwnCard ==
    ASSUME TypeInv, NEW w \in Workers, Work(w), Working(w)
    PROVE  \A t \in Subjects \ {jobs[w].task} : cards'[t] = cards[t]
<1> USE DEF discord, state, aux
<1>1. cards \in [Subjects -> Card] /\ jobs[w].task \in Subjects
  BY JobFields, Parts DEF Tables
<1>2. CASE Save(w) \/ Thread(w)
  <2>1. \E c \in Card : cards' = [cards EXCEPT ![jobs[w].task] = c]
    BY <1>2, SaveDoes, ThreadDoes
  <2> QED
    BY <1>1, <2>1
<1>3. CASE Copy(w)
  <2>1. UNCHANGED cards \/ \E c \in Card : cards' = [cards EXCEPT ![jobs[w].task] = c]
    BY <1>3, CopyDoes
  <2> QED
    BY <1>1, <2>1
<1>4. CASE UNCHANGED cards
  BY <1>4
<1> QED
  BY <1>2, <1>3, <1>4 DEF Work, Working, At, Lock, Find, Write, Add, List, LookAt, Edit, Post,
     Fetch, Mark, Say, Record

\* A job makes no task except by AddTask, and deletes no comment.
LEMMA TasksStay ==
    ASSUME TypeInv, NEW w \in Workers, Work(w), ~At(w, "add")
    PROVE  /\ \A t \in Tasks : (tasks'[t].there = "no") <=> (tasks[t].there = "no")
           /\ \A t \in Tasks : tasks[t].there = "no" => tasks'[t].comments = tasks[t].comments
           /\ \A t \in Tasks : tasks[t].comments \subseteq tasks'[t].comments
<1> USE DEF discord, state, aux
<1>1. CASE Write(w)
  BY <1>1, WriteDoes DEF Rewritten
<1>2. CASE Say(w)
  <2> DEFINE t == jobs[w].task
  <2>1. CASE Live(t) /\ t \in Tasks /\ tasks' = [tasks EXCEPT ![t].comments = @ \cup jobs[w].queue]
    <3>1. tasks \in [Tasks -> TaskRow]
      BY Parts DEF Tables
    <3>2. /\ tasks'[t].there = tasks[t].there /\ tasks[t].there = "live"
          /\ tasks'[t].comments = tasks[t].comments \cup jobs[w].queue
      BY <2>1, <3>1 DEF TaskRow, Live
    <3>3. \A u \in Tasks \ {t} : tasks'[u] = tasks[u]
      BY <2>1, <3>1
    <3> HIDE DEF t
    <3> QED
      BY <3>2, <3>3
  <2>2. CASE UNCHANGED tasks
    BY <2>2
  <2> QED
    BY <1>2, <2>1, <2>2, SayDoes
<1>3. CASE UNCHANGED tasks
  BY <1>3
<1> QED
  BY <1>1, <1>2, <1>3 DEF Work, At, Lock, Find, Add, List, LookAt, Edit, Save, Post, Thread,
     Fetch, Copy, Mark, Record

\* Starting a job keeps who may know of which task.
LEMMA ListedStarts ==
    ASSUME TypeInv, Listed, NEW w \in Workers, Start(w) \/ Lock(w)
    PROVE  Listed'
<1> USE DEF discord, state, aux
<1>1. CASE Start(w)
  <2>1. PICK j :
            /\ Starts(w, j)
            /\ \/ j.op = "sync" /\ j.task = Zero
               \/ j.op \in {"done", "assign"} /\ cards[j.task].msg # None
               \/ /\ j.op = "add" /\ j.task \in Tasks /\ tasks[j.task].there = "no"
                  /\ \A v \in Workers : jobs[v].task # j.task
               \/ j.op = "message" /\ j.task \in Tasks /\ cards[j.task].thread
    BY <1>1, StartDoes
  <2>2. /\ jobs'[w] = j /\ j \in Job /\ j.step = "lock" /\ j.left = {}
        /\ UNCHANGED <<tasks, cards>>
        /\ \A v \in Workers \ {w} : jobs'[v] = jobs[v]
    BY <2>1, OnlyOne DEF Starts
  <2>3. j.task \in Subjects
    BY <2>2 DEF Job
  <2>4. IF j.op = "add" THEN /\ j.task \in Unlisted
                             /\ \A v \in Workers : jobs[v].task # j.task
                        ELSE j.task \notin Unlisted
    BY <2>1, <2>3, BoardConstants DEF Unlisted, Listed, Zero, Subjects
  <2> QED
    BY <2>2, <2>4 DEF Listed, Adding, Unlisted
<1>2. CASE Lock(w)
  <2>1. PICK j : /\ Moves(w, j) /\ j.op = jobs[w].op /\ j.task = jobs[w].task
                 /\ j.left = jobs[w].left /\ At(w, "lock")
                 /\ (j.op = "add") <=> (j.step = "add")
                 /\ j.step # "lock"
    BY <1>2, LockDoes
  <2>2. /\ jobs'[w] = j /\ UNCHANGED <<tasks, cards>>
        /\ \A v \in Workers \ {w} : jobs'[v] = jobs[v]
    BY <1>2, <2>1, OnlyOne, LockDoes
  <2> QED
    BY <2>1, <2>2 DEF Listed, Adding, Unlisted, At
<1> QED
  BY <1>1, <1>2

\* So does working on it,
LEMMA ListedWorks ==
    ASSUME TypeInv, OneAtATime, Listed, NEW w \in Workers, Work(w), Working(w)
    PROVE  Listed'
<1>1. PICK j : /\ Moves(w, j) /\ j.step \notin {"lock", "add"}
               /\ j.task \in {Zero, jobs[w].task} \cup jobs[w].left
               /\ \A t \in j.left : t \in jobs[w].left \/ Wanted(tasks, t)
  BY NextJob
<1>2. jobs'[w] = j /\ j \in Job /\ \A v \in Workers \ {w} : jobs'[v] = jobs[v]
  BY <1>1, OnlyOne
<1>3. j.left \subseteq Subjects /\ jobs[w].task \in Subjects
  BY <1>2, JobFields DEF Job
<1>4. \A t \in Subjects : Wanted(tasks, t) => t \notin Unlisted
  BY DEF Wanted, Unlisted, Listed, Zero, Subjects
<1>5. CASE ~At(w, "add")
  <2>1. /\ \A t \in Tasks : (tasks'[t].there = "no") <=> (tasks[t].there = "no")
        /\ \A t \in Tasks : tasks[t].there = "no" => tasks'[t].comments = tasks[t].comments
    BY <1>5, TasksStay
  <2>2. \A t \in Subjects : t \in Unlisted' <=> t \in Unlisted
    BY <2>1 DEF Unlisted, Subjects
  <2>3. jobs[w].task \notin Unlisted
    BY <1>5 DEF Listed, Adding, Working, At
  <2>4. j.task \notin Unlisted /\ \A t \in j.left : t \notin Unlisted
    BY <1>1, <1>3, <1>4, <2>3, ZeroIsListed DEF Listed
  <2>5. \A t \in Tasks : t \in Unlisted => cards'[t] = cards[t]
    BY <2>3, OwnCard DEF Subjects
  <2>6. \A t \in Tasks : t \in Unlisted' => /\ cards'[t].msg = None /\ ~cards'[t].thread
                                         /\ tasks'[t].comments = {}
    BY <2>1, <2>2, <2>5 DEF Listed, Subjects, Unlisted
  <2>7. j.task \in Subjects /\ \A v \in Workers : jobs[v].task \in Subjects /\ jobs[v].left \subseteq Subjects
    BY <1>2, JobFields DEF Job
  <2>8. Adding(w)' = FALSE
    BY <1>1, <1>2 DEF Adding
  <2>9. \A v \in Workers \ {w} : Adding(v)' = Adding(v)
    BY <1>2 DEF Adding
  <2>10. \A v \in Workers \ {w} : Adding(v)' => jobs'[w].task # jobs'[v].task
    BY <1>2, <2>4, <2>9 DEF Listed
  <2>11. ASSUME NEW v \in Workers \ {w}
         PROVE  /\ Adding(v)' => /\ jobs'[v].task \in Unlisted'
                                 /\ \A u \in Workers \ {v} : jobs'[u].task # jobs'[v].task
                /\ ~Adding(v)' => jobs'[v].task \notin Unlisted'
                /\ \A t \in jobs'[v].left : t \notin Unlisted'
    BY <1>2, <2>2, <2>7, <2>9, <2>10 DEF Listed
  <2>12. j.task \notin Unlisted' /\ \A t \in j.left : t \notin Unlisted'
    BY <1>3, <2>2, <2>4, <2>7
  <2> QED
    BY <1>2, <2>6, <2>8, <2>11, <2>12 DEF Listed
<1>6. CASE At(w, "add")
  <2> DEFINE t == jobs[w].task
  <2>1. /\ Add(w) /\ jobs[w].op = "add"
    BY <1>6 DEF Work, Find, Write, List, LookAt, Edit, Save, Post, Thread, Fetch, Copy, Mark,
          Say, Record, Lock, At, TypeInv
  <2>2. tasks' = [tasks EXCEPT ![t] = ZeroTask] /\ UNCHANGED cards
    BY <2>1, AddDoes DEF state
  <2>3. t \in Unlisted /\ \A v \in Workers \ {w} : jobs[v].task # t
    BY <1>6, <2>1 DEF Listed, Adding, At
  <2>4. t \in Tasks /\ tasks \in [Tasks -> TaskRow]
    BY <1>3, <2>3, Parts DEF Unlisted, Subjects, Tables
  <2>5. /\ tasks'[t].there = "live"
        /\ \A u \in Tasks \ {t} : tasks'[u] = tasks[u]
    BY <2>2, <2>4, Values
  <2>6. \A u \in Subjects : u \in Unlisted' <=> u \in Unlisted /\ u # t
    BY <2>5 DEF Unlisted, Subjects
  <2>7. \E k : Moves(w, k) /\ (k = Idle \/ (k.task = t /\ k.left = jobs[w].left))
    BY <2>1, AddDoes DEF Finished, Continues, TypeInv
  <2>8. j = Idle \/ (j.task = t /\ j.left = jobs[w].left)
    BY <1>2, <2>7, OnlyOne
  <2>9. j.task \notin Unlisted' /\ \A u \in j.left : u \in Subjects /\ u \notin Unlisted
    BY <1>3, <2>6, <2>8, Values, ZeroIsListed DEF Listed, Subjects
  <2>10. Adding(w)' = FALSE /\ \A v \in Workers \ {w} : Adding(v)' = Adding(v)
    BY <1>1, <1>2 DEF Adding
  <2>11. \A v \in Workers : jobs[v].task \in Subjects /\ jobs[v].left \subseteq Subjects
    BY JobFields
  <2>12. \A u \in Tasks : u \in Unlisted' => /\ cards'[u].msg = None /\ ~cards'[u].thread
                                          /\ tasks'[u].comments = {}
    BY <2>2, <2>5, <2>6 DEF Listed, Subjects
  <2>13. \A v \in Workers \ {w} : Adding(v) => jobs[v].task # j.task
    BY <2>3, <2>8, Values, ZeroIsListed DEF Listed
  <2> HIDE DEF t
  <2>14. \A v \in Workers \ {w} :
           /\ Adding(v)' => /\ jobs'[v].task \in Unlisted'
                            /\ \A u \in Workers \ {v} : jobs'[u].task # jobs'[v].task
           /\ ~Adding(v)' => jobs'[v].task \notin Unlisted'
           /\ \A u \in jobs'[v].left : u \notin Unlisted'
    BY <1>2, <2>3, <2>6, <2>10, <2>11, <2>13 DEF Listed
  <2> QED
    BY <1>2, <2>6, <2>9, <2>10, <2>12, <2>14 DEF Listed
<1> QED
  BY <1>5, <1>6

\* and whatever happens beside the jobs.
LEMMA ListedOthers ==
    ASSUME TypeInv, Listed,
           \/ \E t \in Tasks : InTheWebApp(t)
           \/ \E m \in Messages : RemoveInDiscord(m)
           \/ Stop
           \/ UNCHANGED vars
    PROVE  Listed'
<1> USE DEF discord, state, aux
<1>1. ASSUME NEW t \in Tasks, InTheWebApp(t)
      PROVE  Listed'
  <2>1. PICK row \in TaskRow :
            /\ tasks' = [tasks EXCEPT ![t] = row] /\ row.there # "no"
            /\ tasks[t].there # "no" \/ \A w \in Workers : jobs[w].task # t
    BY <1>1, WebDoes
  <2>2. UNCHANGED <<cards, jobs>> /\ tasks \in [Tasks -> TaskRow]
    BY <1>1, WebDoes, Parts DEF Tables
  <2>3. tasks'[t] = row /\ \A u \in Tasks \ {t} : tasks'[u] = tasks[u]
    BY <2>1, <2>2
  <2>4. \A u \in Subjects : u \in Unlisted' <=> u \in Unlisted /\ u # t
    BY <2>1, <2>3 DEF Unlisted, Subjects
  <2>5. \A w \in Workers : jobs[w].task \in Subjects /\ jobs[w].left \subseteq Subjects
    BY JobFields
  <2>6. \A w \in Workers : Adding(w) => jobs[w].task # t
    BY <2>1 DEF Listed, Unlisted
  <2>7. \A w \in Workers : Adding(w)' = Adding(w)
    BY <2>2 DEF Adding
  <2>8. \A u \in Tasks : u \in Unlisted' => /\ cards'[u].msg = None /\ ~cards'[u].thread
                                         /\ tasks'[u].comments = {}
    BY <2>2, <2>3, <2>4 DEF Listed, Subjects
  <2> QED
    BY <2>2, <2>4, <2>5, <2>6, <2>7, <2>8 DEF Listed
<1>2. CASE Stop
  <2>1. UNCHANGED <<tasks, cards>> /\ jobs' = [w \in Workers |-> Idle]
    BY <1>2, StopDoes
  <2> QED
    BY <2>1, Values, ZeroIsListed DEF Listed, Adding, Unlisted
<1>3. CASE UNCHANGED <<tasks, cards, jobs>>
  BY <1>3 DEF Listed, Adding, Unlisted
<1> QED
  BY <1>1, <1>2, <1>3 DEF vars, RemoveInDiscord

\* At the start nobody knows of a task that is not there.
LEMMA ListedInit == Init => Listed
BY Values DEF Init, Listed, Adding, Unlisted, NoRows, Subjects, Zero, NoTask, NoCard, Idle

\* Every step keeps it.
LEMMA ListedStays ==
    ASSUME TypeInv, OneAtATime, Listed, [Next]_vars
    PROVE  Listed'
<1>1. ASSUME NEW w \in Workers, Work(w)
      PROVE  Listed'
  BY <1>1, WorkDoes, ListedStarts, ListedWorks
<1> QED
  BY <1>1, ListedStarts, ListedOthers DEF Next

----------------------------------------------------------------------------
(* No comment is copied twice.                                             *)

InDoables == UNION {tasks[t].comments : t \in Tasks}

\* What w has copied or been told, and is about to note.
InHand(w) ==
    (IF At(w, "mark") THEN {NextComment(w)} ELSE {})
    \cup (IF At(w, "record") THEN jobs[w].queue ELSE {})

Recorded == mirrored \cup UNION {InHand(w) : w \in Workers}

\* What is being copied is in Doables and not noted; and what can be read in a
\* thread is noted, or about to be, or will never be copied as Doables has not
\* got it.
CopyInv ==
    /\ \A w \in Workers : At(w, "copy") \/ At(w, "mark") => jobs[w].queue \subseteq InDoables \ mirrored
    /\ \A c \in Comments \ unsure :
           \/ copies[c] = 0
           \/ copies[c] = 1 /\ (c \in Recorded \/ c \notin InDoables)

\* Whoever has the lock is the only one with something in hand.
LEMMA OneHand ==
    ASSUME OneAtATime, NEW w \in Workers, Working(w) \/ lock = None
    PROVE  Recorded = mirrored \cup InHand(w)
<1>1. \A v \in Workers \ {w} : InHand(v) = {}
  BY OthersWait DEF InHand, At, Working
<1> QED
  BY <1>1 DEF Recorded

\* Nobody else's step changes what w has in hand.
LEMMA HandsApart ==
    ASSUME TypeInv, OneAtATime, NEW w \in Workers, Working(w), NEW j, Moves(w, j)
    PROVE  /\ Recorded' = mirrored' \cup InHand(w)'
           /\ \A v \in Workers \ {w} : ~At(v, "copy")' /\ ~At(v, "mark")'
<1>1. \A v \in Workers \ {w} : jobs'[v] = jobs[v] /\ ~Working(v)
  BY OnlyOne, OthersWait
<1>2. \A v \in Workers \ {w} : InHand(v)' = {}
  BY <1>1 DEF InHand, At, Working
<1> QED
  BY <1>1, <1>2 DEF Recorded, At, Working

\* A step that neither copies nor notes anything.
LEMMA QuietStays ==
    ASSUME TypeInv, OneAtATime, CopyInv, NEW w \in Workers, Working(w), NEW j, Moves(w, j),
           ~At(w, "mark"), ~At(w, "record"), j.step \notin {"mark", "record"},
           UNCHANGED <<copies, mirrored>>, InDoables' = InDoables,
           j.step = "copy" => j.queue \subseteq InDoables \ mirrored,
           \A c \in Comments \cap unsure : c \in unsure'
    PROVE  CopyInv'
<1>1. jobs'[w] = j
  BY OnlyOne
<1>2. InHand(w) = {} /\ InHand(w)' = {}
  BY <1>1 DEF InHand, At
<1>3. Recorded' = Recorded
  BY <1>2, OneHand, HandsApart
<1>4. \A v \in Workers : (At(v, "copy") \/ At(v, "mark"))' =>
          jobs'[v].queue \subseteq InDoables' \ mirrored'
  BY <1>1, HandsApart DEF At
<1> QED
  BY <1>3, <1>4 DEF CopyInv

\* Only a comment said in a thread adds to what is in Doables.
LEMMA CommentsStay ==
    ASSUME TypeInv, Listed, NEW w \in Workers, Work(w), Working(w), ~At(w, "said")
    PROVE  InDoables' = InDoables
<1> USE DEF discord, state, aux
<1>1. CASE Write(w)
  BY <1>1, WriteDoes DEF Rewritten, InDoables
<1>2. CASE Add(w)
  <2> DEFINE t == jobs[w].task
  <2>1. At(w, "add") /\ tasks' = [tasks EXCEPT ![t] = ZeroTask] /\ Adding(w)
    BY <1>2, AddDoes DEF TypeInv, At, Adding
  <2>2. t \in Tasks /\ tasks[t].comments = {}
    BY <2>1 DEF Listed, Unlisted
  <2>3. tasks \in [Tasks -> TaskRow]
    BY Parts DEF Tables
  <2>4. \A u \in Tasks : tasks'[u].comments = tasks[u].comments
    BY <2>1, <2>2, <2>3, Values
  <2> QED
    BY <2>4 DEF InDoables
<1>3. CASE UNCHANGED tasks
  BY <1>3 DEF InDoables
<1> QED
  BY <1>1, <1>2, <1>3 DEF Work, Working, At, Lock, Find, List, LookAt, Edit, Save, Post, Thread,
     Fetch, Copy, Mark, Say, Record

\* The steps that copy and record nothing keep CopyInv.
LEMMA QuietSteps ==
    ASSUME TypeInv, OneAtATime, Listed, CopyInv, NEW w \in Workers, Working(w),
           \/ Find(w) \/ Write(w) \/ Add(w) \/ List(w) \/ LookAt(w) \/ Edit(w) \/ Save(w)
           \/ Post(w) \/ Thread(w) \/ Fetch(w)
    PROVE  CopyInv'
<1> USE DEF discord, state, aux
<1> DEFINE Quiet(j) == /\ j.step \notin {"mark", "record"}
                       /\ j.step = "copy" => j.queue \subseteq InDoables \ mirrored
<1>1. /\ InDoables' = InDoables /\ ~At(w, "mark") /\ ~At(w, "record")
      /\ UNCHANGED <<copies, mirrored>>
  BY CommentsStay DEF Work, At, Find, Write, Add, List, LookAt, Edit, Save, Post, Thread, Fetch
<1>2. \A c \in Comments \cap unsure : c \in unsure'
  <2>1. CASE Save(w)
    <3>1. jobs[w].task \notin Comments
      BY JobFields, BoardConstants DEF Subjects, Zero
    <3> QED
      BY <2>1, <3>1, SaveDoes
  <2>2. CASE ~Save(w)
    <3>1. CASE Edit(w) \/ Post(w)
      BY <3>1, EditDoes, PostDoes DEF Unsure
    <3>2. CASE ~Edit(w) /\ ~Post(w)
      <4>1. Unsure({}) => unsure \subseteq unsure'
        BY DEF Unsure
      <4>2. CASE LookAt(w)
        BY <4>2, LookAtDoes
      <4> QED
        BY <2>2, <3>2, <4>1, <4>2, FindDoes, WriteDoes, AddDoes, ListDoes, ThreadDoes, FetchDoes
    <3> QED
      BY <3>1, <3>2
  <2> QED
    BY <2>1, <2>2
<1>3. \A j : Finished(w, j) => Quiet(j)
  BY Values DEF Finished
<1>4. \A j : j.step \notin {"mark", "record", "copy"} => Quiet(j)
  OBVIOUS
<1>5. \A j, card : Refreshes(w, card, j) => Quiet(j)
  BY <1>3 DEF Refreshes
<1>6. \E j : Moves(w, j) /\ Quiet(j)
  <2>1. CASE LookAt(w)
    <3>1. PICK j : /\ Moves(w, j)
                   /\ \/ Finished(w, j)
                      \/ \E t \in jobs[w].left :
                            /\ j.op = jobs[w].op /\ j.task = t /\ j.card = cards[t]
                            /\ j.left = jobs[w].left \ {t} /\ lock' = lock
                            /\ j.step = IF cards[t].msg = None THEN "post" ELSE "edit"
      BY <2>1, LookAtDoes
    <3>2. Quiet(j)
      BY <1>3, <3>1
    <3> QED
      BY <3>1, <3>2
  <2>2. CASE Fetch(w)
    <3>1. PICK j : /\ Moves(w, j)
                   /\ \/ Finished(w, j)
                      \/ /\ jobs[w].task \in Tasks /\ j.step = "copy"
                         /\ j.queue = tasks[jobs[w].task].comments \ mirrored
      BY <2>2, FetchDoes
    <3>2. Quiet(j)
      BY <1>3, <3>1 DEF InDoables
    <3> QED
      BY <3>1, <3>2
  <2>3. CASE Write(w)
    <3>1. PICK j : /\ Moves(w, j)
                   /\ \/ Finished(w, j)
                      \/ j.step \in {"post", "edit"}
      BY <2>3, WriteDoes
    <3>2. Quiet(j)
      BY <1>3, <3>1
    <3> QED
      BY <3>1, <3>2
  <2>4. CASE Post(w)
    <3>1. \A j : j.step = "thread" => Quiet(j)
      OBVIOUS
    <3> HIDE DEF Quiet
    <3> QED
      BY <1>3, <1>5, <2>4, <3>1, PostDoes
  <2>5. CASE Find(w)
    <3>1. PICK j : Moves(w, j) /\ (Finished(w, j) \/ j.step \in {"write", "edit"})
      BY <2>5, FindDoes
    <3>2. Quiet(j)
      BY <1>3, <3>1
    <3> QED
      BY <3>1, <3>2
  <2>6. CASE Add(w)
    <3>1. PICK j : Moves(w, j) /\ (Finished(w, j) \/ j.step \in {"post", "write"})
      BY <2>6, AddDoes
    <3>2. Quiet(j)
      BY <1>3, <3>1
    <3> QED
      BY <3>1, <3>2
  <2>7. CASE List(w)
    <3>1. PICK j : Moves(w, j) /\ (Finished(w, j) \/ j.step = "look")
      BY <2>7, ListDoes
    <3>2. Quiet(j)
      BY <1>3, <3>1
    <3> QED
      BY <3>1, <3>2
  <2>8. CASE Edit(w)
    <3>1. PICK j : Moves(w, j) /\ (Refreshes(w, jobs[w].card, j) \/ j.step \in {"save", "post"})
      BY <2>8, EditDoes
    <3>2. Quiet(j)
      BY <1>5, <3>1
    <3> QED
      BY <3>1, <3>2
  <2>9. CASE Save(w)
    <3>1. PICK c, j : c \in Card /\ Moves(w, j) /\ Refreshes(w, c, j)
      BY <2>9, SaveDoes
    <3>2. Quiet(j)
      BY <1>5, <3>1
    <3> QED
      BY <3>1, <3>2
  <2>10. CASE Thread(w)
    <3>1. PICK c, j : c \in Card /\ Moves(w, j) /\ (Finished(w, j) \/ j.step = "fetch")
      BY <2>10, ThreadDoes
    <3>2. Quiet(j)
      BY <1>3, <3>1
    <3> QED
      BY <3>1, <3>2
  <2> QED
    BY <2>1, <2>2, <2>3, <2>4, <2>5, <2>6, <2>7, <2>8, <2>9, <2>10
<1> QED
  BY <1>1, <1>2, <1>6, QuietStays

\* A copy is of a comment that has not been copied, and is then in hand.
LEMMA CopyStays ==
    ASSUME TypeInv, OneAtATime, Listed, CopyInv, NEW w \in Workers, Working(w), Copy(w)
    PROVE  CopyInv'
<1> USE DEF discord, state, aux
<1> DEFINE next == NextComment(w)
           queue == jobs[w].queue
<1>1. At(w, "copy") /\ UNCHANGED <<tasks, mirrored>> /\ InDoables' = InDoables
  BY CopyDoes DEF InDoables
<1>2. queue \subseteq InDoables \ mirrored /\ Recorded = mirrored
  <2>1. InHand(w) = {}
    BY <1>1 DEF InHand, At
  <2> QED
    BY <1>1, <2>1, OneHand DEF CopyInv
<1>3. copies \in [Comments -> Nat] /\ queue \subseteq Comments
  BY JobFields, Parts DEF Tables
<1>4. ASSUME NEW j, Moves(w, j), Finished(w, j), Unsure({}), UNCHANGED copies
      PROVE  CopyInv'
  <2>1. j.step \notin {"mark", "record", "copy"}
    BY <1>4, Values DEF Finished
  <2> QED
    BY <1>1, <1>4, <2>1, QuietStays DEF Unsure, At
<1>5. ASSUME NEW j, Moves(w, j), next \in queue, copies' = [copies EXCEPT ![next] = @ + 1],
             \/ Unsure({}) /\ j.step = "mark" /\ j.queue = queue
             \/ Unsure({next}) /\ j.step \notin {"mark", "record", "copy"}
      PROVE  CopyInv'
  <2>1. jobs'[w] = j
    BY <1>5, OnlyOne
  <2>2. next \notin unsure => copies[next] = 0
    BY <1>2, <1>3, <1>5 DEF CopyInv
  <2>3. /\ copies'[next] = copies[next] + 1
        /\ \A c \in Comments \ {next} : copies'[c] = copies[c]
    BY <1>3, <1>5
  <2>4. Recorded' = mirrored \cup InHand(w)'
    BY <1>1, <1>5, HandsApart
  <2>5. j.step = "mark" /\ j.queue = queue => InHand(w)' = {next}
    BY <2>1 DEF InHand, At, NextComment
  <2>6. \A c \in Comments \ unsure' :
            \/ copies'[c] = 0
            \/ copies'[c] = 1 /\ (c \in Recorded' \/ c \notin InDoables')
    <3>1. ASSUME NEW c \in Comments \ unsure', c # next
          PROVE  \/ copies'[c] = 0
                 \/ copies'[c] = 1 /\ (c \in Recorded' \/ c \notin InDoables')
      BY <1>1, <1>2, <1>5, <2>3, <2>4, <3>1 DEF CopyInv, Unsure
    <3>2. ASSUME next \notin unsure'
          PROVE  copies'[next] = 1 /\ next \in Recorded'
      BY <1>5, <2>2, <2>3, <2>4, <2>5, <3>2 DEF Unsure
    <3> QED
      BY <3>1, <3>2
  <2>7. \A v \in Workers : (At(v, "copy") \/ At(v, "mark"))' =>
            jobs'[v].queue \subseteq InDoables' \ mirrored'
    BY <1>1, <1>2, <1>5, <2>1, HandsApart DEF At
  <2> QED
    BY <2>6, <2>7 DEF CopyInv
<1>6. \/ /\ UNCHANGED copies /\ Unsure({})
         /\ \E j : Moves(w, j) /\ Finished(w, j)
      \/ /\ next \in queue
         /\ \E j : /\ Moves(w, j)
                   /\ \/ /\ copies' = [copies EXCEPT ![next] = @ + 1] /\ Unsure({})
                         /\ j.step = "mark" /\ j.queue = queue
                      \/ /\ copies' = [copies EXCEPT ![next] = @ + 1] /\ Unsure({next})
                         /\ Finished(w, j)
                      \/ UNCHANGED copies /\ Unsure({}) /\ Finished(w, j)
  BY CopyDoes
<1>7. \A j : Finished(w, j) => j.step \notin {"mark", "record", "copy"}
  BY Values DEF Finished
<1> HIDE DEF next, queue
<1> QED
  BY <1>4, <1>5, <1>6, <1>7

\* Recording it takes it from the hand to the table.
LEMMA MarkStays ==
    ASSUME TypeInv, OneAtATime, CopyInv, NEW w \in Workers, Working(w), Mark(w)
    PROVE  CopyInv'
<1> USE DEF discord, state, aux
<1> DEFINE next == NextComment(w)
<1>1. /\ At(w, "mark") /\ next \in jobs[w].queue /\ mirrored' = mirrored \cup {next}
      /\ UNCHANGED <<tasks, copies, unsure>> /\ InDoables' = InDoables
  BY MarkDoes DEF InDoables
<1>2. PICK j : Moves(w, j) /\ j.step = "copy" /\ j.queue = jobs[w].queue \ {next}
  BY MarkDoes
<1>3. jobs'[w] = j
  BY <1>2, OnlyOne
<1>4. Recorded = mirrored \cup {next} /\ Recorded' = mirrored'
  <2>1. InHand(w) = {next} /\ InHand(w)' = {}
    BY <1>1, <1>2, <1>3 DEF InHand, At
  <2> QED
    BY <1>1, <1>2, <2>1, OneHand, HandsApart
<1>5. jobs[w].queue \subseteq InDoables \ mirrored
  BY <1>1 DEF CopyInv
<1> HIDE DEF next
<1>6. \A v \in Workers : (At(v, "copy") \/ At(v, "mark"))' =>
          jobs'[v].queue \subseteq InDoables' \ mirrored'
  BY <1>1, <1>2, <1>3, <1>5, HandsApart DEF At
<1> QED
  BY <1>1, <1>4, <1>6 DEF CopyInv

\* What is said in a thread is in hand until it is recorded.
LEMMA SayStays ==
    ASSUME TypeInv, OneAtATime, CopyInv, NEW w \in Workers, Working(w), Say(w)
    PROVE  CopyInv'
<1> USE DEF discord, state, aux
<1> DEFINE t == jobs[w].task
           queue == jobs[w].queue
<1>1. At(w, "said") /\ UNCHANGED <<copies, mirrored>>
  BY SayDoes
<1>2. PICK j : /\ Moves(w, j)
               /\ \/ /\ Live(t) /\ t \in Tasks
                     /\ tasks' = [tasks EXCEPT ![t].comments = @ \cup queue]
                     /\ \/ Continues(w, j) /\ j.step = "record" /\ j.queue = queue /\ Unsure({})
                        \/ Finished(w, j) /\ Unsure(queue)
                  \/ UNCHANGED tasks /\ Finished(w, j) /\ Unsure({})
  BY SayDoes
<1>3. Finished(w, j) => j.step \notin {"mark", "record", "copy"}
  BY Values DEF Finished
<1>4. CASE UNCHANGED tasks /\ Finished(w, j) /\ Unsure({})
  <2>1. InDoables' = InDoables /\ unsure' = unsure
    BY <1>4 DEF InDoables, Unsure
  <2> QED
    BY <1>1, <1>2, <1>3, <1>4, <2>1, QuietStays DEF At
<1>5. CASE /\ t \in Tasks /\ tasks' = [tasks EXCEPT ![t].comments = @ \cup queue]
           /\ \/ j.step = "record" /\ j.queue = queue /\ Unsure({})
              \/ Finished(w, j) /\ Unsure(queue)
  <2>1. jobs'[w] = j /\ Recorded = mirrored
    <3>1. InHand(w) = {}
      BY <1>1 DEF InHand, At
    <3> QED
      BY <1>2, <3>1, OneHand, OnlyOne
  <2>2. InDoables' \subseteq InDoables \cup queue
    <3>1. tasks \in [Tasks -> TaskRow]
      BY Parts DEF Tables
    <3>2. /\ tasks'[t].comments = tasks[t].comments \cup queue
          /\ \A u \in Tasks \ {t} : tasks'[u] = tasks[u]
      BY <1>5, <3>1 DEF TaskRow
    <3> HIDE DEF t, queue
    <3> QED
      BY <3>2 DEF InDoables
  <2>3. Recorded' = mirrored \cup InHand(w)'
    BY <1>1, <1>2, HandsApart
  <2>4. j.step = "record" /\ j.queue = queue => InHand(w)' = queue
    BY <2>1 DEF InHand, At
  <2>5. \A v \in Workers : ~At(v, "copy")' /\ ~At(v, "mark")'
    BY <1>2, <1>3, <1>5, <2>1, HandsApart DEF At
  <2> HIDE DEF t, queue
  <2>6. \A c \in Comments \ unsure' :
            \/ copies'[c] = 0
            \/ copies'[c] = 1 /\ (c \in Recorded' \/ c \notin InDoables')
    <3>1. CASE j.step = "record" /\ j.queue = queue /\ Unsure({})
      BY <1>1, <2>1, <2>2, <2>3, <2>4, <3>1 DEF CopyInv, Unsure
    <3>2. CASE Unsure(queue)
      BY <1>1, <2>1, <2>2, <2>3, <3>2 DEF CopyInv, Unsure
    <3> QED
      BY <1>5, <3>1, <3>2
  <2> QED
    BY <2>5, <2>6 DEF CopyInv
<1> QED
  BY <1>2, <1>4, <1>5

\* Recording that takes it to the table, too.
LEMMA RecordStays ==
    ASSUME TypeInv, OneAtATime, CopyInv, NEW w \in Workers, Working(w), Record(w)
    PROVE  CopyInv'
<1> USE DEF discord, state, aux
<1>1. /\ At(w, "record") /\ mirrored' = mirrored \cup jobs[w].queue
      /\ UNCHANGED <<tasks, copies, unsure>> /\ InDoables' = InDoables
  BY RecordDoes DEF InDoables
<1>2. PICK j : Moves(w, j) /\ Finished(w, j)
  BY RecordDoes
<1>3. jobs'[w] = j /\ j.step \notin {"mark", "record", "copy"}
  BY <1>2, OnlyOne, Values DEF Finished
<1>4. Recorded = mirrored \cup jobs[w].queue /\ Recorded' = mirrored'
  <2>1. InHand(w) = jobs[w].queue /\ InHand(w)' = {}
    BY <1>1, <1>3 DEF InHand, At
  <2> QED
    BY <1>2, <2>1, OneHand, HandsApart
<1>5. \A v \in Workers : ~At(v, "copy")' /\ ~At(v, "mark")'
  BY <1>2, <1>3, HandsApart DEF At
<1> QED
  BY <1>1, <1>4, <1>5 DEF CopyInv

\* A job starts with nothing in hand.
LEMMA CopyStarts ==
    ASSUME TypeInv, OneAtATime, CopyInv, NEW w \in Workers, Start(w) \/ Lock(w)
    PROVE  CopyInv'
<1> USE DEF discord, state, aux
<1>1. /\ UNCHANGED <<tasks, mirrored, unsure>> /\ InDoables' = InDoables
      /\ At(w, "idle") \/ At(w, "lock")
      /\ \E j : Moves(w, j) /\ j.step \in {"lock", "find", "write", "add", "said", "list"}
  <2>1. CASE Start(w)
    BY <2>1, StartDoes DEF Starts, InDoables
  <2>2. CASE Lock(w)
    BY <2>2, LockDoes DEF InDoables
  <2> QED
    BY <2>1, <2>2
<1>2. PICK j : Moves(w, j) /\ j.step \in {"lock", "find", "write", "add", "said", "list"}
  BY <1>1
<1>3. jobs'[w] = j /\ \A v \in Workers \ {w} : jobs'[v] = jobs[v]
  BY <1>2, OnlyOne
<1>4. \A v \in Workers : InHand(v)' = InHand(v)
  <2>1. InHand(w) = {} /\ InHand(w)' = {}
    BY <1>1, <1>2, <1>3 DEF InHand, At
  <2>2. \A v \in Workers \ {w} : InHand(v)' = InHand(v)
    BY <1>3 DEF InHand, At, NextComment
  <2> QED
    BY <2>1, <2>2
<1>5. Recorded' = Recorded
  BY <1>1, <1>4 DEF Recorded
<1>6. \A v \in Workers : (At(v, "copy") \/ At(v, "mark"))' =>
          jobs'[v].queue \subseteq InDoables' \ mirrored'
  BY <1>1, <1>2, <1>3 DEF CopyInv, At
<1>7. \/ UNCHANGED copies
      \/ \E c \in Comments : c \notin InDoables /\ copies' = [copies EXCEPT ![c] = 1]
  <2>1. CASE Start(w)
    BY <2>1, StartDoes DEF Said, InDoables
  <2>2. CASE Lock(w)
    BY <2>2, LockDoes
  <2> QED
    BY <2>1, <2>2
<1>8. copies \in [Comments -> Nat]
  BY Parts DEF Tables
<1> QED
  BY <1>1, <1>5, <1>6, <1>7, <1>8 DEF CopyInv

\* What happens beside the jobs copies nothing; a stop is noted in unsure.
LEMMA CopyOthers ==
    ASSUME TypeInv, OneAtATime, Listed, CopyInv,
           \/ \E t \in Tasks : InTheWebApp(t)
           \/ \E m \in Messages : RemoveInDiscord(m)
           \/ Stop
           \/ UNCHANGED vars
    PROVE  CopyInv'
<1> USE DEF discord, state, aux
<1>1. UNCHANGED jobs /\ UNCHANGED mirrored => Recorded' = Recorded
  BY DEF Recorded, InHand, At, NextComment
<1>2. ASSUME NEW t \in Tasks, InTheWebApp(t)
      PROVE  CopyInv'
  <2>1. PICK row \in TaskRow :
            /\ tasks' = [tasks EXCEPT ![t] = row]
            /\ \/ tasks[t].there = "no" /\ row = ZeroTask
               \/ row.comments = tasks[t].comments
               \/ \E c \in Comments : ~Said(c) /\ row.comments = tasks[t].comments \cup {c}
    BY <1>2, WebDoes
  <2>2. UNCHANGED <<copies, mirrored, jobs, unsure>>
        /\ tasks \in [Tasks -> TaskRow] /\ copies \in [Comments -> Nat]
    BY <1>2, WebDoes, Parts DEF Tables
  <2>3. tasks'[t] = row /\ \A u \in Tasks \ {t} : tasks'[u] = tasks[u]
    BY <2>1, <2>2
  <2>4. InDoables \subseteq InDoables' /\ \A c \in InDoables' \ InDoables : copies[c] = 0
    <3>1. /\ tasks[t].comments \subseteq row.comments
          /\ \A c \in row.comments \ tasks[t].comments : ~Said(c) /\ c \in Comments
      BY <1>2, <2>1, Values DEF Listed, Unlisted
    <3>2. \A c \in Comments : ~Said(c) => copies[c] = 0
      BY <2>2 DEF Said
    <3> QED
      BY <2>3, <3>1, <3>2 DEF InDoables
  <2>5. Recorded' = Recorded
    BY <1>1, <2>2
  <2> QED
    BY <2>2, <2>4, <2>5 DEF CopyInv, At
<1>3. CASE Stop
  <2>1. /\ UNCHANGED <<tasks, copies, mirrored>> /\ jobs' = [w \in Workers |-> Idle]
        /\ unsure' = unsure \cup UNION {Unwritten(w) : w \in Workers}
    BY <1>3, StopDoes DEF Unsure
  <2>2. \A w \in Workers : InHand(w) \subseteq Unwritten(w)
    BY DEF InHand, Unwritten, At
  <2>3. Recorded \subseteq mirrored \cup unsure'
    BY <2>1, <2>2 DEF Recorded
  <2>4. InDoables' = InDoables
    BY <2>1 DEF InDoables
  <2>5. \A w \in Workers : ~At(w, "copy")' /\ ~At(w, "mark")'
    BY <2>1, Values DEF At
  <2>6. mirrored' \subseteq Recorded'
    BY DEF Recorded
  <2> QED
    BY <2>1, <2>3, <2>4, <2>5, <2>6 DEF CopyInv
<1>4. CASE UNCHANGED <<tasks, copies, mirrored, jobs, unsure>>
  <2>1. Recorded' = Recorded /\ InDoables' = InDoables
    BY <1>1, <1>4 DEF InDoables
  <2> QED
    BY <1>4, <2>1 DEF CopyInv, At
<1>5. ASSUME NEW m \in Messages, RemoveInDiscord(m)
      PROVE  UNCHANGED <<tasks, copies, mirrored, jobs, unsure>>
  BY <1>5, RemoveDoes DEF Unsure
<1> QED
  BY <1>2, <1>3, <1>4, <1>5 DEF vars

\* At the start nothing is copied.
LEMMA CopyInit == Init => CopyInv
BY Values DEF Init, CopyInv, At

\* Every step keeps CopyInv.
LEMMA CopyInvStays ==
    ASSUME TypeInv, OneAtATime, Listed, CopyInv, [Next]_vars
    PROVE  CopyInv'
<1>1. ASSUME NEW w \in Workers, Work(w)
      PROVE  CopyInv'
  <2>1. Lock(w) \/ Working(w)
    BY <1>1, WorkDoes
  <2> QED
    BY <1>1, <2>1, QuietSteps, CopyStays, MarkStays, SayStays, RecordStays, CopyStarts DEF Work
<1> QED
  BY <1>1, CopyStarts, CopyOthers DEF Next

\* At most one handler works on a board at a time: the others are idle or wait
\* for its lock, however many there are and wherever the bot was stopped
\* (boardLocks).
THEOREM OneHandlerAtATime ==
    Spec => [](\A w, v \in Workers : Working(w) /\ Working(v) => w = v)
<1>1. Init => OneAtATime
  BY Values DEF Init, OneAtATime, Working, At
<1>2. OneAtATime => \A w, v \in Workers : Working(w) /\ Working(v) => w = v
  BY DEF OneAtATime
<1> QED
  BY <1>1, <1>2, TypeInit, TypeStays, LockStays, PTL DEF Spec

\* "the next look at the list does not copy it straight back into the thread"
\* (bot.go:781): nobody reads a comment twice, whichever side it came from,
\* whatever overlaps and whatever fails, unless the bot was stopped or left
\* without an answer while copying that very comment (CopiedOnce).
THEOREM NobodyReadsItTwice == Spec => []CopiedOnce
<1> DEFINE Inv == TypeInv /\ OneAtATime /\ Listed /\ CopyInv
<1>1. Init => Inv
  <2>1. Init => OneAtATime
    BY Values DEF Init, OneAtATime, Working, At
  <2> QED
    BY <2>1, TypeInit, ListedInit, CopyInit
<1>2. Inv /\ [Next]_vars => Inv'
  BY TypeStays, LockStays, ListedStays, CopyInvStays
<1>3. Inv => CopiedOnce
  <2>1. TypeInv => copies \in [Comments -> Nat]
    BY DEF TypeInv, TypeOK
  <2> QED
    BY <2>1 DEF CopyInv, CopiedOnce
<1> QED
  BY <1>1, <1>2, <1>3, PTL DEF Spec

----------------------------------------------------------------------------
(* Cards and their messages.                                               *)

\* The buttons read a card before they take the lock; here, nothing else runs
\* while they do.
ButtonsAlone == Overlapping \cap {"done", "assign"} = {}

\* Every card has a message of its own.
CardsKept ==
    /\ \A t \in Subjects : cards[t].msg # None => shown[cards[t].msg] # Unsent
    /\ \A t, u \in Subjects : cards[t].msg # None /\ cards[t].msg = cards[u].msg => t = u

\* The card a job has in mind is the one in the table, or will take its place.
KnowsItsCard(j) ==
    LET row == cards[j.task]
    IN /\ j.step \in {"lock", "add"} /\ j.op = "add" => j.card.msg = None
       /\ j.step \in {"lock", "find", "write"} /\ j.op \in {"done", "assign"} =>
              j.card = row /\ row.msg # None
       /\ j.step = "write" /\ j.op = "add" => row.msg = None /\ j.card.msg = None
       /\ j.step \in {"edit", "fetch", "copy", "mark"} => j.card = row /\ row.msg # None
       /\ j.step = "post" =>
              \/ j.card.msg = None /\ (row.msg = None \/ j.task = Zero)
              \/ j.card = row /\ row.msg # None /\ shown[row.msg] = Removed
       /\ j.step = "save" =>
              /\ j.card.msg = row.msg /\ row.msg # None
              /\ j.task \in unsure \/ shown[row.msg] \in {j.card.render, Removed}
       /\ j.step = "thread" =>
              /\ j.card.msg # None /\ shown[j.card.msg] \in {j.card.render, Removed}
              /\ \A t \in Subjects : cards[t].msg # j.card.msg
              /\ row.msg = None \/ j.task = Zero \/ shown[row.msg] = Removed

Known ==
    /\ CardsKept /\ RenderIsShown /\ OneCardEach
    /\ \A w \in Workers : KnowsItsCard(jobs[w])

\* RenderIsShown and OneCardEach, given the card that is about to be saved and
\* the message that is about to be.
Saving(j) == IF j.step = "save" THEN {j.task} ELSE {}
Posting(j) == IF j.step = "thread" THEN {j.card.msg} ELSE {}

Accurate(saving) ==
    \A t \in Subjects \ unsure :
        cards[t].msg # None /\ t \notin saving => shown[cards[t].msg] \in {cards[t].render, Removed}

Accounted(posting) ==
    cards[Zero].msg = None =>
        \A m \in Messages \ unsure :
            shown[m] \in View => m \in posting \/ \E t \in Tasks : cards[t].msg = m

\* Known, for the job at work: what it saves or posts may be ahead of the rows.
LEMMA KnownNow ==
    ASSUME OneAtATime, Known, NEW w \in Workers, Working(w)
    PROVE  /\ CardsKept /\ KnowsItsCard(jobs[w])
           /\ Accurate(Saving(jobs[w])) /\ Accounted(Posting(jobs[w]))
<1>1. \A v \in Workers \ {w} : ~At(v, "save") /\ ~At(v, "thread")
  BY OthersWait DEF Working, At
<1>2. Accurate(Saving(jobs[w]))
  BY <1>1 DEF Known, RenderIsShown, Accurate, Saving, At
<1>3. Accounted(Posting(jobs[w]))
  BY <1>1 DEF Known, OneCardEach, Accounted, Posting, At
<1> QED
  BY <1>2, <1>3 DEF Known

\* Known again, when only the job at work and its card moved.
LEMMA KnownNext ==
    ASSUME ButtonsAlone, TypeInv, OneAtATime, Known,
           NEW w \in Workers, Working(w), NEW j, Moves(w, j),
           CardsKept', KnowsItsCard(j)', Accurate(Saving(j))', Accounted(Posting(j))'
    PROVE  Known'
<1>1. jobs'[w] = j /\ \A v \in Workers \ {w} : jobs'[v] = jobs[v]
  BY OnlyOne
<1>2. ASSUME NEW v \in Workers
      PROVE  KnowsItsCard(jobs[v])'
  <2>1. CASE v = w
    BY <1>1, <2>1 DEF KnowsItsCard
  <2>2. CASE v # w
    <3>1. \/ jobs[v].step = "idle"
          \/ jobs[v].step = "lock" /\ jobs[v].op \notin {"done", "assign"}
      BY <2>2, OthersWait DEF OneAtATime, ButtonsAlone, At, Working
    <3>2. jobs[v].step = "lock" /\ jobs[v].op = "add" => jobs[v].card.msg = None
      BY DEF Known, KnowsItsCard
    <3> QED
      BY <1>1, <2>2, <3>1, <3>2 DEF KnowsItsCard
  <2> QED
    BY <2>1, <2>2
<1>3. RenderIsShown'
  BY <1>1 DEF Accurate, RenderIsShown, Saving, At
<1>4. OneCardEach'
  <2>1. ASSUME NEW m \in Posting(j)
        PROVE  \E v \in Workers : At(v, "thread")' /\ jobs'[v].card.msg = m
    BY <1>1, <2>1 DEF Posting, At
  <2> QED
    BY <2>1 DEF Accounted, OneCardEach
<1> QED
  BY <1>2, <1>3, <1>4 DEF Known

\* A step that touches no card and no message.
LEMMA CalmStays ==
    ASSUME ButtonsAlone, TypeInv, OneAtATime, Known,
           NEW w \in Workers, Working(w), NEW j, Moves(w, j),
           UNCHANGED <<shown, cards>>, unsure \subseteq unsure',
           ~At(w, "save"), ~At(w, "thread"), j.step \notin {"save", "thread"}, KnowsItsCard(j)
    PROVE  Known'
<1>1. /\ CardsKept /\ Accurate({}) /\ Accounted({})
      /\ Saving(j) = {} /\ Posting(j) = {}
  <2>1. Saving(jobs[w]) = {} /\ Posting(jobs[w]) = {} /\ Saving(j) = {} /\ Posting(j) = {}
    BY DEF Saving, Posting, At
  <2> QED
    BY <2>1, KnownNow
<1>2. CardsKept' /\ Accurate({})' /\ Accounted({})'
  BY <1>1 DEF CardsKept, Accurate, Accounted
<1>3. KnowsItsCard(j)'
  BY DEF KnowsItsCard
<1> QED
  BY <1>1, <1>2, <1>3, KnownNext

\* A job that goes back to the list, or is over, knows no card; one that goes
\* on to the comments knows the one it has.
LEMMA KnowsAfter ==
    ASSUME TypeInv, NEW w \in Workers, NEW j
    PROVE  /\ Finished(w, j) => KnowsItsCard(j)
           /\ Finished(w, j) => j.step \notin {"save", "thread"}
           /\ \A card : Refreshes(w, card, j) => j.step \notin {"save", "thread"}
           /\ /\ jobs[w].card = cards[jobs[w].task] /\ jobs[w].card.msg # None
              /\ Refreshes(w, jobs[w].card, j)
              => KnowsItsCard(j)
<1>1. Finished(w, j) => j.step \notin {"save", "thread"} /\ KnowsItsCard(j)
  BY Values DEF Finished, KnowsItsCard
<1> QED
  BY <1>1 DEF Refreshes, Continues, KnowsItsCard

\* The steps that touch no card and no message.
LEMMA CalmSteps ==
    ASSUME ButtonsAlone, TypeInv, OneAtATime, Listed, Known, NEW w \in Workers, Working(w),
           \/ Find(w) \/ Write(w) \/ Add(w) \/ List(w) \/ LookAt(w) \/ Fetch(w) \/ Mark(w)
           \/ Say(w) \/ Record(w)
    PROVE  Known'
<1> USE DEF discord, state, aux
<1>1. /\ UNCHANGED <<shown, cards>> /\ ~At(w, "save") /\ ~At(w, "thread")
  BY DEF At, Find, Write, Add, List, LookAt, Fetch, Mark, Say, Record
<1>2. unsure \subseteq unsure'
  <2>1. \A what : Unsure(what) => unsure \subseteq unsure'
    BY DEF Unsure
  <2>2. CASE Say(w)
    <3>1. Unsure({}) \/ Unsure(jobs[w].queue)
      BY <2>2, SayDoes
    <3> QED
      BY <2>1, <3>1
  <2>3. CASE LookAt(w) \/ Mark(w) \/ Record(w)
    BY <2>3, LookAtDoes, MarkDoes, RecordDoes
  <2>4. CASE Find(w) \/ Write(w) \/ Add(w) \/ List(w) \/ Fetch(w)
    BY <2>1, <2>4, FindDoes, WriteDoes, AddDoes, ListDoes, FetchDoes
  <2> QED
    BY <2>2, <2>3, <2>4
<1> DEFINE Calm(j) == j.step \notin {"save", "thread"} /\ KnowsItsCard(j)
<1>3. SUFFICES \E j : Moves(w, j) /\ Calm(j)
  BY <1>1, <1>2, CalmStays
<1>4. \A j : Finished(w, j) => Calm(j)
  BY KnowsAfter
<1>5. KnowsItsCard(jobs[w])
  BY DEF Known
<1>6. CASE Find(w)
  <2>1. PICK j : /\ Moves(w, j)
                 /\ \/ Finished(w, j)
                    \/ /\ Continues(w, j) /\ j.step \in {"write", "edit"}
                       /\ j.card = jobs[w].card
    BY <1>6, FindDoes
  <2>2. jobs[w].op = "done" /\ jobs[w].step = "find"
    BY <1>6, FindDoes DEF TypeInv, At
  <2>3. Calm(j)
    BY <1>4, <1>5, <2>1, <2>2 DEF Continues, KnowsItsCard
  <2> QED
    BY <2>1, <2>3
<1>7. CASE Write(w)
  <2>1. PICK j : /\ Moves(w, j)
                 /\ \/ Finished(w, j)
                    \/ /\ Continues(w, j) /\ j.card = jobs[w].card
                       /\ \/ j.op = "add" /\ j.step = "post"
                          \/ j.op # "add" /\ j.step = "edit"
                    \/ /\ jobs[w].op = "add" /\ j.op = "add" /\ j.task = Zero
                       /\ j.left = jobs[w].left /\ lock' = lock
                       /\ j.step = "post" /\ j.card = jobs[w].card
    BY <1>7, WriteDoes
  <2>2. jobs[w].op \in {"done", "assign", "add"} /\ jobs[w].step = "write"
    BY <1>7, WriteDoes DEF TypeInv, At
  <2>3. Calm(j)
    BY <1>4, <1>5, <2>1, <2>2 DEF Continues, KnowsItsCard
  <2> QED
    BY <2>1, <2>3
<1>8. CASE Add(w)
  <2>1. PICK j : /\ Moves(w, j)
                 /\ \/ Finished(w, j)
                    \/ /\ Continues(w, j) /\ j.step \in {"post", "write"}
                       /\ j.card = jobs[w].card
    BY <1>8, AddDoes
  <2>2. jobs[w].op = "add" /\ jobs[w].step = "add"
    BY <1>8, AddDoes DEF TypeInv, At
  <2>3. cards[jobs[w].task].msg = None
    BY <2>2 DEF Listed, Adding, Unlisted
  <2>4. Calm(j)
    BY <1>4, <1>5, <2>1, <2>2, <2>3 DEF Continues, KnowsItsCard
  <2> QED
    BY <2>1, <2>4
<1>9. CASE List(w)
  <2>1. PICK j : Moves(w, j) /\ (Finished(w, j) \/ j.step = "look")
    BY <1>9, ListDoes
  <2>2. Calm(j)
    BY <1>4, <2>1 DEF KnowsItsCard
  <2> QED
    BY <2>1, <2>2
<1>10. CASE LookAt(w)
  <2>1. PICK j : /\ Moves(w, j)
                 /\ \/ Finished(w, j)
                    \/ \E t \in jobs[w].left :
                          /\ j.op = jobs[w].op /\ j.task = t /\ j.card = cards[t]
                          /\ j.left = jobs[w].left \ {t} /\ lock' = lock
                          /\ j.step = IF cards[t].msg = None THEN "post" ELSE "edit"
    BY <1>10, LookAtDoes
  <2>2. Calm(j)
    BY <1>4, <2>1 DEF KnowsItsCard
  <2> QED
    BY <2>1, <2>2
<1>11. CASE Fetch(w)
  <2>1. PICK j : /\ Moves(w, j)
                 /\ \/ Finished(w, j)
                    \/ Continues(w, j) /\ j.step = "copy" /\ j.card = jobs[w].card
    BY <1>11, FetchDoes
  <2>2. jobs[w].step = "fetch"
    BY <1>11, FetchDoes DEF At
  <2>3. Calm(j)
    BY <1>4, <1>5, <2>1, <2>2 DEF Continues, KnowsItsCard
  <2> QED
    BY <2>1, <2>3
<1>12. CASE Mark(w)
  <2>1. PICK j : Moves(w, j) /\ Continues(w, j) /\ j.step = "copy" /\ j.card = jobs[w].card
    BY <1>12, MarkDoes
  <2>2. jobs[w].step = "mark"
    BY <1>12, MarkDoes DEF At
  <2>3. Calm(j)
    BY <1>5, <2>1, <2>2 DEF Continues, KnowsItsCard
  <2> QED
    BY <2>1, <2>3
<1>13. CASE Say(w)
  <2>1. PICK j : Moves(w, j) /\ (Finished(w, j) \/ j.step = "record")
    BY <1>13, SayDoes
  <2>2. Calm(j)
    BY <1>4, <2>1 DEF KnowsItsCard
  <2> QED
    BY <2>1, <2>2
<1>14. CASE Record(w)
  BY <1>4, <1>14, RecordDoes
<1> QED
  BY <1>6, <1>7, <1>8, <1>9, <1>10, <1>11, <1>12, <1>13, <1>14

\* An edit makes the message show what is then saved.
LEMMA EditStays ==
    ASSUME ButtonsAlone, TypeInv, OneAtATime, Known, NEW w \in Workers, Working(w), Edit(w)
    PROVE  Known'
<1> USE DEF discord, state, aux
<1> DEFINE t == jobs[w].task
           card == jobs[w].card
           msg == card.msg
           view == Render(jobs[w].row)
<1>1. At(w, "edit") /\ UNCHANGED cards /\ view \in View
  BY EditDoes
<1>2. card = cards[t] /\ msg # None /\ t \in Subjects /\ msg \in Messages
  BY <1>1, JobFields DEF Known, KnowsItsCard, At, Card
<1>3. CardsKept /\ Accurate({}) /\ Accounted({})
  <2>1. Saving(jobs[w]) = {} /\ Posting(jobs[w]) = {}
    BY <1>1 DEF Saving, Posting, At
  <2> QED
    BY <2>1, KnownNow
<1>4. PICK j : /\ Moves(w, j)
               /\ \/ /\ view = card.render /\ UNCHANGED shown /\ Unsure({})
                     /\ Continues(w, j) /\ j.step = "save" /\ j.card = card
                  \/ /\ shown[msg] \in View /\ Unsure({})
                     /\ shown' = [shown EXCEPT ![msg] = view]
                     /\ Continues(w, j) /\ j.step = "save" /\ j.card.render = view
                     /\ j.card.msg = msg /\ j.card.thread = card.thread
                  \/ /\ shown[msg] \in View /\ Unsure({t})
                     /\ shown' = [shown EXCEPT ![msg] = view]
                     /\ Refreshes(w, card, j)
                  \/ UNCHANGED shown /\ Unsure({}) /\ Refreshes(w, card, j)
                  \/ /\ shown[msg] = Removed /\ UNCHANGED shown /\ Unsure({})
                     /\ Continues(w, j) /\ j.step = "post" /\ j.card = card
  BY EditDoes
<1>5. shown \in [Messages -> View \cup {Unsent, Removed}] /\ cards \in [Subjects -> Card]
  BY Parts DEF Tables
<1>6. t \notin unsure => shown[msg] \in {card.render, Removed}
  BY <1>2, <1>3 DEF Accurate
<1>7. Refreshes(w, card, j) => KnowsItsCard(j) /\ j.step \notin {"save", "thread"}
  BY <1>2, KnowsAfter
<1> HIDE DEF view
<1>8. CASE /\ UNCHANGED shown /\ Unsure({}) /\ Refreshes(w, card, j)
  BY <1>1, <1>4, <1>7, <1>8, CalmStays DEF Unsure, At
<1>9. CASE /\ shown[msg] = Removed /\ UNCHANGED shown /\ Unsure({})
           /\ Continues(w, j) /\ j.step = "post" /\ j.card = card
  <2>1. KnowsItsCard(j)
    BY <1>2, <1>9 DEF Continues, KnowsItsCard
  <2> QED
    BY <1>1, <1>4, <1>9, <2>1, CalmStays DEF Unsure, At
<1>10. CASE /\ view = card.render /\ UNCHANGED shown /\ Unsure({})
            /\ Continues(w, j) /\ j.step = "save" /\ j.card = card
  <2>1. KnowsItsCard(j)'
    BY <1>1, <1>2, <1>6, <1>10 DEF Continues, KnowsItsCard, Unsure
  <2>2. CardsKept'
    BY <1>1, <1>3, <1>10 DEF CardsKept
  <2>3. Accurate(Saving(j))' /\ Accounted(Posting(j))'
    BY <1>1, <1>3, <1>10 DEF Accurate, Accounted, Unsure, Posting
  <2> QED
    BY <1>4, <2>1, <2>2, <2>3, KnownNext
<1>11. CASE /\ shown[msg] \in View /\ shown' = [shown EXCEPT ![msg] = view]
            /\ \/ /\ Unsure({}) /\ Continues(w, j) /\ j.step = "save"
                  /\ j.card.render = view /\ j.card.msg = msg
               \/ Unsure({t}) /\ Refreshes(w, card, j)
  <2>1. shown'[msg] = view /\ \A m \in Messages \ {msg} : shown'[m] = shown[m]
    BY <1>2, <1>5, <1>11
  <2>2. \A u \in Subjects \ {t} : cards[u].msg # None => cards[u].msg \in Messages \ {msg}
    BY <1>2, <1>3, <1>5 DEF CardsKept, Card
  <2>3. unsure \subseteq unsure' /\ (t \in unsure' \/ t \in Saving(j))
    BY <1>11 DEF Unsure, Saving, Continues
  <2>4. view # Unsent /\ Posting(j) = {}
    BY <1>1, <1>7, <1>11, Values DEF Posting
  <2>5. CardsKept'
    BY <1>1, <1>2, <1>3, <2>1, <2>2, <2>4 DEF CardsKept
  <2>6. Accurate(Saving(j))'
    <3>1. ASSUME NEW u \in Subjects \ unsure', cards[u].msg # None, u \notin Saving(j)
          PROVE  shown'[cards[u].msg] \in {cards[u].render, Removed}
      BY <1>3, <2>1, <2>2, <2>3, <3>1 DEF Accurate
    <3> QED
      BY <1>1, <3>1 DEF Accurate
  <2>7. Accounted({})'
    <3>1. ASSUME cards[Zero].msg = None, NEW m \in Messages \ unsure', shown'[m] \in View
          PROVE  \E u \in Tasks : cards[u].msg = m
      <4>1. CASE m = msg
        BY <1>2, <3>1, <4>1 DEF Subjects
      <4>2. CASE m # msg
        BY <1>3, <2>1, <2>3, <3>1, <4>2 DEF Accounted
      <4> QED
        BY <4>1, <4>2
    <3> QED
      BY <1>1, <3>1 DEF Accounted
  <2>8. KnowsItsCard(j)'
    <3>1. CASE Refreshes(w, card, j)
      <4>1. KnowsItsCard(j) /\ j.step \notin {"save", "thread", "post"}
        BY <1>7, <3>1, Values DEF Refreshes, Finished
      <4> QED
        BY <1>1, <4>1 DEF KnowsItsCard
    <3>2. CASE /\ Continues(w, j) /\ j.step = "save"
               /\ j.card.render = view /\ j.card.msg = msg
      BY <1>1, <1>2, <2>1, <3>2 DEF Continues, KnowsItsCard
    <3> QED
      BY <1>11, <3>1, <3>2
  <2> QED
    BY <1>4, <2>4, <2>5, <2>6, <2>7, <2>8, KnownNext
<1> QED
  BY <1>4, <1>8, <1>9, <1>10, <1>11

\* Saving says of the message what it shows.
LEMMA SaveStays ==
    ASSUME ButtonsAlone, TypeInv, OneAtATime, Known, NEW w \in Workers, Working(w), Save(w)
    PROVE  Known'
<1> USE DEF discord, state, aux
<1> DEFINE t == jobs[w].task
           card == jobs[w].card
<1>1. /\ At(w, "save") /\ UNCHANGED shown /\ t \in Subjects
      /\ unsure' = IF shown[card.msg] = card.render THEN unsure \ {t} ELSE unsure
  BY SaveDoes, JobFields
<1>2. PICK c, j :
          /\ c \in Card
          /\ cards' = [cards EXCEPT ![t] = c]
          /\ c.msg = card.msg /\ c.render = card.render
          /\ Moves(w, j) /\ Refreshes(w, c, j)
  BY SaveDoes
<1>3. /\ card.msg = cards[t].msg /\ cards[t].msg # None
      /\ t \in unsure \/ shown[cards[t].msg] \in {card.render, Removed}
  BY <1>1 DEF Known, KnowsItsCard, At
<1>4. CardsKept /\ Accurate({t}) /\ Accounted({})
  <2>1. Saving(jobs[w]) = {t} /\ Posting(jobs[w]) = {}
    BY <1>1 DEF Saving, Posting, At
  <2> QED
    BY <2>1, KnownNow
<1>5. cards \in [Subjects -> Card]
  BY Parts DEF Tables
<1>6. /\ cards'[t] = c /\ \A u \in Subjects \ {t} : cards'[u] = cards[u]
      /\ \A u \in Subjects : cards'[u].msg = cards[u].msg
  BY <1>1, <1>2, <1>3, <1>5
<1>7. Saving(j) = {} /\ Posting(j) = {}
  BY <1>2, KnowsAfter DEF Saving, Posting
<1>8. KnowsItsCard(j)'
  <2>1. CASE Finished(w, j)
    BY <2>1, Values DEF Finished, KnowsItsCard
  <2>2. CASE Continues(w, j) /\ j.step = "fetch" /\ j.card = c
    BY <1>2, <1>3, <1>6, <2>2 DEF Continues, KnowsItsCard
  <2> QED
    BY <1>2, <2>1, <2>2 DEF Refreshes
<1>9. CardsKept'
  BY <1>1, <1>4, <1>6 DEF CardsKept
<1>10. Accurate({})'
  <2>1. ASSUME NEW u \in Subjects \ unsure', cards'[u].msg # None
        PROVE  shown[cards'[u].msg] \in {cards'[u].render, Removed}
    <3>1. CASE u = t
      BY <1>1, <1>2, <1>3, <1>6, <2>1, <3>1
    <3>2. CASE u # t
      BY <1>1, <1>4, <1>6, <2>1, <3>2 DEF Accurate
    <3> QED
      BY <3>1, <3>2
  <2> QED
    BY <1>1, <2>1 DEF Accurate
<1>11. Accounted({})'
  <2>1. t \notin Messages /\ Zero \in Subjects /\ Tasks \subseteq Subjects
    BY <1>1, BoardConstants DEF Subjects, Zero
  <2>2. ASSUME cards'[Zero].msg = None, NEW m \in Messages \ unsure', shown[m] \in View
        PROVE  \E u \in Tasks : cards'[u].msg = m
    BY <1>1, <1>4, <1>6, <2>1, <2>2 DEF Accounted
  <2> QED
    BY <1>1, <2>2 DEF Accounted
<1> QED
  BY <1>2, <1>7, <1>8, <1>9, <1>10, <1>11, KnownNext

\* A post makes a message no row knows, which is then saved.
LEMMA PostStays ==
    ASSUME ButtonsAlone, TypeInv, OneAtATime, Known, NEW w \in Workers, Working(w), Post(w)
    PROVE  Known'
<1> USE DEF discord, state, aux
<1> DEFINE t == jobs[w].task
           card == jobs[w].card
<1>1. At(w, "post") /\ UNCHANGED cards /\ t \in Subjects
  BY PostDoes, JobFields
<1>2. \/ card.msg = None /\ (cards[t].msg = None \/ t = Zero)
      \/ card = cards[t] /\ card.msg # None /\ shown[card.msg] = Removed
  BY <1>1 DEF Known, KnowsItsCard, At
<1>3. CardsKept /\ Accurate({}) /\ Accounted({})
  <2>1. Saving(jobs[w]) = {} /\ Posting(jobs[w]) = {}
    BY <1>1 DEF Saving, Posting, At
  <2> QED
    BY <2>1, KnownNow
<1>4. shown \in [Messages -> View \cup {Unsent, Removed}] /\ cards \in [Subjects -> Card]
  BY Parts DEF Tables
<1>5. PICK m, view, j :
          /\ Moves(w, j)
          /\ \/ /\ m \in Messages /\ shown[m] = Unsent /\ view \in View
                /\ shown' = [shown EXCEPT ![m] = view] /\ Unsure({})
                /\ Continues(w, j) /\ j.step = "thread"
                /\ j.card.msg = m /\ j.card.render = view
             \/ /\ m \in Messages /\ shown[m] = Unsent /\ view \in View
                /\ shown' = [shown EXCEPT ![m] = view] /\ Unsure({m})
                /\ \/ Finished(w, j)
                   \/ jobs[w].card.msg # None /\ Refreshes(w, jobs[w].card, j)
             \/ /\ UNCHANGED shown /\ Unsure({})
                /\ \/ Finished(w, j)
                   \/ jobs[w].card.msg # None /\ Refreshes(w, jobs[w].card, j)
  BY PostDoes
<1>6. Finished(w, j) \/ (card.msg # None /\ Refreshes(w, card, j)) =>
          KnowsItsCard(j) /\ j.step \notin {"save", "thread", "post"}
  BY <1>2, KnowsAfter, Values DEF Refreshes, Finished
<1>7. CASE /\ UNCHANGED shown /\ Unsure({})
           /\ Finished(w, j) \/ (card.msg # None /\ Refreshes(w, card, j))
  BY <1>1, <1>5, <1>6, <1>7, CalmStays DEF Unsure, At
<1>8. CASE /\ m \in Messages /\ shown[m] = Unsent /\ view \in View
           /\ shown' = [shown EXCEPT ![m] = view]
           /\ \/ /\ Unsure({}) /\ Continues(w, j) /\ j.step = "thread"
                 /\ j.card.msg = m /\ j.card.render = view
              \/ /\ Unsure({m})
                 /\ Finished(w, j) \/ (card.msg # None /\ Refreshes(w, card, j))
  <2>1. shown'[m] = view /\ \A n \in Messages \ {m} : shown'[n] = shown[n]
    BY <1>4, <1>8
  <2>2. \A u \in Subjects : cards[u].msg # None => cards[u].msg \in Messages \ {m}
    BY <1>3, <1>4, <1>8 DEF CardsKept, Card
  <2>3. /\ unsure \subseteq unsure' /\ (m \in unsure' \/ m \in Posting(j))
        /\ view # Unsent /\ Saving(j) = {}
    BY <1>6, <1>8, Values DEF Unsure, Posting, Saving
  <2>4. CardsKept'
    BY <1>1, <1>3, <2>1, <2>2 DEF CardsKept
  <2>5. Accurate({})'
    <3>1. ASSUME NEW u \in Subjects \ unsure', cards[u].msg # None
          PROVE  shown'[cards[u].msg] \in {cards[u].render, Removed}
      BY <1>3, <2>1, <2>2, <2>3, <3>1 DEF Accurate
    <3> QED
      BY <1>1, <3>1 DEF Accurate
  <2>6. Accounted(Posting(j))'
    <3>1. ASSUME cards[Zero].msg = None, NEW n \in Messages \ unsure', shown'[n] \in View
          PROVE  n \in Posting(j) \/ \E u \in Tasks : cards[u].msg = n
      BY <1>3, <2>1, <2>3, <3>1 DEF Accounted
    <3> QED
      BY <1>1, <3>1 DEF Accounted
  <2>7. KnowsItsCard(j)'
    <3>1. CASE Finished(w, j) \/ (card.msg # None /\ Refreshes(w, card, j))
      BY <1>1, <1>6, <3>1 DEF KnowsItsCard
    <3>2. CASE Continues(w, j) /\ j.step = "thread" /\ j.card.msg = m /\ j.card.render = view
      <4>1. m # None /\ \A u \in Subjects : cards[u].msg # m
        BY <1>8, <2>2, Values
      <4>2. cards[t].msg = None \/ t = Zero \/ shown'[cards[t].msg] = Removed
        BY <1>1, <1>2, <2>1, <2>2
      <4> QED
        BY <1>1, <2>1, <3>2, <4>1, <4>2 DEF Continues, KnowsItsCard
    <3> QED
      BY <1>8, <3>1, <3>2
  <2> QED
    BY <1>5, <2>3, <2>4, <2>5, <2>6, <2>7, KnownNext
<1> QED
  BY <1>5, <1>7, <1>8

\* Saving it makes the row know the message.
LEMMA ThreadStays ==
    ASSUME ButtonsAlone, TypeInv, OneAtATime, Known, NEW w \in Workers, Working(w), Thread(w)
    PROVE  Known'
<1> USE DEF discord, state, aux
<1> DEFINE t == jobs[w].task
           card == jobs[w].card
<1>1. At(w, "thread") /\ UNCHANGED shown /\ t \in Subjects /\ unsure' = unsure
  BY ThreadDoes, JobFields DEF Unsure
<1>2. PICK c, j :
          /\ c \in Card
          /\ cards' = [cards EXCEPT ![t] = c]
          /\ c.msg = card.msg /\ c.render = card.render
          /\ Moves(w, j)
          /\ \/ Finished(w, j)
             \/ Continues(w, j) /\ j.step = "fetch" /\ j.card = c
  BY ThreadDoes
<1>3. /\ c.msg # None /\ shown[c.msg] \in {c.render, Removed}
      /\ \A u \in Subjects : cards[u].msg # c.msg
      /\ cards[t].msg = None \/ t = Zero \/ shown[cards[t].msg] = Removed
  BY <1>1, <1>2 DEF Known, KnowsItsCard, At
<1>4. CardsKept /\ Accurate({}) /\ Accounted({c.msg})
  <2>1. Saving(jobs[w]) = {} /\ Posting(jobs[w]) = {c.msg}
    BY <1>1, <1>2 DEF Saving, Posting, At
  <2> QED
    BY <2>1, KnownNow
<1>5. cards \in [Subjects -> Card]
  BY Parts DEF Tables
<1>6. cards'[t] = c /\ \A u \in Subjects \ {t} : cards'[u] = cards[u]
  BY <1>1, <1>2, <1>5
<1>7. Saving(j) = {} /\ Posting(j) = {}
  BY <1>2, KnowsAfter DEF Saving, Posting
<1>8. KnowsItsCard(j)'
  <2>1. CASE Finished(w, j)
    BY <2>1, Values DEF Finished, KnowsItsCard
  <2>2. CASE Continues(w, j) /\ j.step = "fetch" /\ j.card = c
    BY <1>3, <1>6, <2>2 DEF Continues, KnowsItsCard
  <2> QED
    BY <1>2, <2>1, <2>2
<1>9. CardsKept'
  <2>1. shown[c.msg] # Unsent
    BY <1>2, <1>3, Values DEF Card
  <2> QED
    BY <1>1, <1>3, <1>4, <1>6, <2>1 DEF CardsKept
<1>10. Accurate({})'
  BY <1>1, <1>3, <1>4, <1>6 DEF Accurate
<1>11. Accounted({})'
  <2>1. Zero \in Subjects /\ Tasks \subseteq Subjects /\ Zero \notin Tasks
    BY Values DEF Subjects, Zero
  <2>2. ASSUME cards'[Zero].msg = None, NEW m \in Messages \ unsure, shown[m] \in View
        PROVE  \E u \in Tasks : cards'[u].msg = m
    <3>1. t \in Tasks /\ cards[Zero].msg = None
      BY <1>1, <1>3, <1>6, <2>1, <2>2 DEF Subjects
    <3>2. CASE m = c.msg
      BY <1>6, <3>1, <3>2
    <3>3. CASE m # c.msg
      <4>1. PICK u \in Tasks : cards[u].msg = m
        BY <1>4, <2>2, <3>1, <3>3 DEF Accounted
      <4>2. u # t
        BY <1>3, <2>1, <2>2, <3>1, <4>1, Values
      <4> QED
        BY <1>6, <2>1, <4>1, <4>2
    <3> QED
      BY <3>2, <3>3
  <2> QED
    BY <1>1, <2>2 DEF Accounted
<1> QED
  BY <1>2, <1>7, <1>8, <1>9, <1>10, <1>11, KnownNext

\* A copy at most notes in the row how much has been copied.
LEMMA CopyKeepsCards ==
    ASSUME ButtonsAlone, TypeInv, OneAtATime, Known, NEW w \in Workers, Working(w), Copy(w)
    PROVE  Known'
<1> USE DEF discord, state, aux
<1> DEFINE t == jobs[w].task
           card == jobs[w].card
<1>1. At(w, "copy") /\ UNCHANGED shown /\ unsure \subseteq unsure' /\ t \in Subjects
  BY CopyDoes, JobFields DEF Unsure
<1>2. card = cards[t] /\ card.msg # None
  BY <1>1 DEF Known, KnowsItsCard, At
<1>3. CASE \E j : UNCHANGED cards /\ Moves(w, j)
                  /\ \/ Continues(w, j) /\ j.step = "mark" /\ j.card = card
                     \/ Finished(w, j)
  <2>1. PICK j : UNCHANGED cards /\ Moves(w, j)
                 /\ \/ Continues(w, j) /\ j.step = "mark" /\ j.card = card
                    \/ Finished(w, j)
    BY <1>3
  <2>2. KnowsItsCard(j) /\ j.step \notin {"save", "thread"}
    BY <1>2, <2>1, KnowsAfter DEF Continues, KnowsItsCard
  <2> QED
    BY <1>1, <2>1, <2>2, CalmStays DEF At
<1>4. CASE \E c \in Card : \E j : /\ cards' = [cards EXCEPT ![t] = c] /\ UNCHANGED copies
                                  /\ c.msg = card.msg /\ c.render = card.render /\ Unsure({})
                                  /\ Moves(w, j) /\ Finished(w, j)
  <2>1. PICK c, j : /\ c \in Card
                    /\ cards' = [cards EXCEPT ![t] = c]
                    /\ c.msg = card.msg /\ c.render = card.render
                    /\ Moves(w, j) /\ Finished(w, j)
    BY <1>4
  <2>2. CardsKept /\ Accurate({}) /\ Accounted({})
    <3>1. Saving(jobs[w]) = {} /\ Posting(jobs[w]) = {}
      BY <1>1 DEF Saving, Posting, At
    <3> QED
      BY <3>1, KnownNow
  <2>3. Saving(j) = {} /\ Posting(j) = {}
    BY <2>1, KnowsAfter DEF Saving, Posting
  <2>4. cards \in [Subjects -> Card]
    BY Parts DEF Tables
  <2>5. \A u \in Subjects : cards'[u].msg = cards[u].msg /\ cards'[u].render = cards[u].render
    BY <1>2, <2>1, <2>4
  <2>6. KnowsItsCard(j)'
    BY <2>1, Values DEF Finished, KnowsItsCard
  <2>7. CardsKept' /\ Accurate({})'
    BY <1>1, <2>2, <2>5 DEF CardsKept, Accurate
  <2>8. Accounted({})'
    BY <1>1, <2>2, <2>5 DEF Accounted, Subjects
  <2> QED
    BY <2>1, <2>3, <2>6, <2>7, <2>8, KnownNext
<1> QED
  BY <1>3, <1>4, CopyDoes

\* A button that starts alone has the card its row has until it gets the lock.
LEMMA KnownStarts ==
    ASSUME TypeInv, Known, NEW w \in Workers, Start(w) \/ Lock(w)
    PROVE  Known'
<1> USE DEF discord, state, aux
<1>1. /\ UNCHANGED <<shown, cards, unsure>> /\ ~At(w, "save") /\ ~At(w, "thread")
      /\ \E j : Moves(w, j) /\ KnowsItsCard(j) /\ j.step \notin {"save", "thread"}
  <2>1. CASE Start(w)
    <3>1. PICK j : /\ Starts(w, j)
                   /\ \/ j.op = "sync"
                      \/ /\ j.op \in {"done", "assign"} /\ j.card = cards[j.task]
                         /\ cards[j.task].msg # None
                      \/ j.op = "add" /\ j.card = NoCard
                      \/ j.op = "message"
      BY <2>1, StartDoes
    <3>2. KnowsItsCard(j)
      BY <3>1, Values DEF Starts, KnowsItsCard
    <3> QED
      BY <3>1, <3>2 DEF Starts, At
  <2>2. CASE Lock(w)
    <3>1. PICK j : /\ Moves(w, j) /\ j.op = jobs[w].op /\ j.task = jobs[w].task
                   /\ j.card = jobs[w].card /\ At(w, "lock")
                   /\ \/ j.op = "done" /\ j.step = "find"
                      \/ j.op = "assign" /\ j.step = "write"
                      \/ j.op = "add" /\ j.step = "add"
                      \/ j.op = "message" /\ j.step = "said"
                      \/ j.op = "sync" /\ j.step = "list"
      BY <2>2, LockDoes
    <3>2. KnowsItsCard(jobs[w])
      BY DEF Known
    <3>3. KnowsItsCard(j)
      BY <3>1, <3>2 DEF KnowsItsCard, At
    <3> QED
      BY <2>2, <3>1, <3>3, LockDoes DEF At
  <2> QED
    BY <2>1, <2>2
<1>2. PICK j : Moves(w, j) /\ KnowsItsCard(j) /\ j.step \notin {"save", "thread"}
  BY <1>1
<1>3. jobs'[w] = j /\ \A v \in Workers \ {w} : jobs'[v] = jobs[v]
  BY <1>2, OnlyOne
<1>4. ASSUME NEW v \in Workers
      PROVE  KnowsItsCard(jobs[v])'
  <2>1. CASE v = w
    BY <1>1, <1>2, <1>3, <2>1 DEF KnowsItsCard
  <2>2. CASE v # w
    <3>1. KnowsItsCard(jobs[v])
      BY DEF Known
    <3> QED
      BY <1>1, <1>3, <2>2, <3>1 DEF KnowsItsCard
  <2> QED
    BY <2>1, <2>2
<1>5. CardsKept'
  BY <1>1 DEF CardsKept, Known
<1>6. RenderIsShown'
  BY <1>1, <1>2, <1>3 DEF Known, RenderIsShown, At
<1>7. OneCardEach'
  BY <1>1, <1>2, <1>3 DEF Known, OneCardEach, At
<1> QED
  BY <1>4, <1>5, <1>6, <1>7 DEF Known

\* What happens beside the jobs touches no row.
LEMMA KnownOthers ==
    ASSUME TypeInv, Known,
           \/ \E t \in Tasks : InTheWebApp(t)
           \/ \E m \in Messages : RemoveInDiscord(m)
           \/ Stop
           \/ UNCHANGED vars
    PROVE  Known'
<1> USE DEF discord, state, aux
<1>1. shown \in [Messages -> View \cup {Unsent, Removed}] /\ cards \in [Subjects -> Card]
  BY Parts DEF Tables
<1>2. ASSUME NEW m \in Messages, RemoveInDiscord(m)
      PROVE  Known'
  <2>1. UNCHANGED <<cards, jobs, unsure>> /\ shown[m] \in View
        /\ shown' = [shown EXCEPT ![m] = Removed]
    BY <1>2, RemoveDoes DEF Unsure
  <2>2. \A n \in Messages : shown'[n] = shown[n] \/ shown'[n] = Removed
    BY <1>1, <2>1
  <2>3. \A t \in Subjects : cards[t].msg \in Messages \cup {None}
    BY <1>1 DEF Card
  <2>4. ASSUME NEW v \in Workers
        PROVE  KnowsItsCard(jobs[v])'
    <3>1. KnowsItsCard(jobs[v]) /\ jobs[v].task \in Subjects /\ jobs[v].card \in Card
      BY JobFields DEF Known
    <3>2. jobs[v].card.msg \in Messages \cup {None}
      BY <3>1 DEF Card
    <3> QED
      BY <2>1, <2>2, <2>3, <3>1, <3>2 DEF KnowsItsCard
  <2>5. CardsKept'
    BY <2>1, <2>2, <2>3, Values DEF CardsKept, Known
  <2>6. RenderIsShown'
    BY <2>1, <2>2, <2>3 DEF Known, RenderIsShown, At
  <2>7. OneCardEach'
    BY <2>1, <2>2, Values DEF Known, OneCardEach, At
  <2> QED
    BY <2>4, <2>5, <2>6, <2>7 DEF Known
<1>3. CASE Stop
  <2>1. /\ UNCHANGED <<shown, cards>> /\ jobs' = [w \in Workers |-> Idle]
        /\ unsure' = unsure \cup UNION {Unwritten(w) : w \in Workers}
    BY <1>3, StopDoes DEF Unsure
  <2>2. \A w \in Workers : KnowsItsCard(jobs[w])
    BY DEF Known
  <2>3. ASSUME NEW w \in Workers
        PROVE  KnowsItsCard(jobs[w])'
    BY <2>1, Values DEF KnowsItsCard
  <2>4. CardsKept'
    BY <2>1 DEF CardsKept, Known
  <2>5. RenderIsShown'
    <3>1. ASSUME NEW t \in Subjects \ unsure', cards[t].msg # None
          PROVE  shown[cards[t].msg] \in {cards[t].render, Removed}
      <4>1. CASE \E w \in Workers : At(w, "save") /\ jobs[w].task = t
        <5>1. PICK w \in Workers : At(w, "save") /\ jobs[w].task = t
          BY <4>1
        <5>2. t \notin Unwritten(w) /\ t \notin unsure
          BY <2>1, <3>1
        <5>3. jobs[w].card.render = cards[t].render
          BY <5>1, <5>2 DEF Unwritten, At
        <5> QED
          BY <2>2, <5>1, <5>2, <5>3 DEF KnowsItsCard, At
      <4>2. CASE ~\E w \in Workers : At(w, "save") /\ jobs[w].task = t
        BY <2>1, <3>1, <4>2 DEF Known, RenderIsShown
      <4> QED
        BY <4>1, <4>2
    <3> QED
      BY <2>1, <3>1 DEF RenderIsShown
  <2>6. OneCardEach'
    <3>1. ASSUME NEW m \in Messages \ unsure', shown[m] \in View, cards[Zero].msg = None
          PROVE  \E t \in Tasks : cards[t].msg = m
      <4>1. \A w \in Workers : At(w, "thread") => jobs[w].card.msg # m
        BY <2>1, <3>1 DEF Unwritten, At
      <4> QED
        BY <2>1, <3>1, <4>1 DEF Known, OneCardEach
    <3> QED
      BY <2>1, <3>1 DEF OneCardEach
  <2> QED
    BY <2>3, <2>4, <2>5, <2>6 DEF Known
<1>4. CASE UNCHANGED <<shown, cards, jobs, unsure>>
  <2>1. ASSUME NEW w \in Workers
        PROVE  KnowsItsCard(jobs[w])'
    <3>1. KnowsItsCard(jobs[w])
      BY DEF Known
    <3> QED
      BY <1>4, <3>1 DEF KnowsItsCard
  <2>2. CardsKept'
    BY <1>4 DEF Known, CardsKept
  <2>3. RenderIsShown'
    BY <1>4 DEF Known, RenderIsShown, At
  <2>4. OneCardEach'
    BY <1>4 DEF Known, OneCardEach, At
  <2> QED
    BY <2>1, <2>2, <2>3, <2>4 DEF Known
<1> QED
  BY <1>2, <1>3, <1>4 DEF vars, InTheWebApp

\* At the start there is no card.
LEMMA KnownInit == Init => Known
<1> SUFFICES ASSUME Init
             PROVE  Known
  OBVIOUS
<1>1. Zero \in Subjects /\ \A w \in Workers : jobs[w] = Idle
  BY DEF Init, Subjects
<1>2. cards = [t \in Subjects |-> NoCard] /\ shown = [m \in Messages |-> Unsent]
  BY DEF Init
<1>3. \A w \in Workers : KnowsItsCard(jobs[w])
  BY <1>1, Values DEF KnowsItsCard
<1> QED
  BY <1>2, <1>3, Values DEF Known, CardsKept, RenderIsShown, OneCardEach

\* Every step keeps Known.
LEMMA KnownStays ==
    ASSUME ButtonsAlone, TypeInv, OneAtATime, Listed, Known, [Next]_vars
    PROVE  Known'
<1>1. ASSUME NEW w \in Workers, Work(w)
      PROVE  Known'
  <2>1. Lock(w) \/ Working(w)
    BY <1>1, WorkDoes
  <2> QED
    BY <1>1, <2>1, CalmSteps, EditStays, SaveStays, PostStays, ThreadStays, CopyKeepsCards,
       KnownStarts DEF Work
<1> QED
  BY <1>1, KnownStarts, KnownOthers DEF Next

\* Known holds in every state, given that buttons run alone.
LEMMA CardsKnown ==
    ASSUME ButtonsAlone
    PROVE  Spec => []Known
<1> DEFINE Inv == TypeInv /\ OneAtATime /\ Listed /\ Known
<1>1. Init => Inv
  <2>1. Init => OneAtATime
    BY Values DEF Init, OneAtATime, Working, At
  <2> QED
    BY <2>1, TypeInit, ListedInit, KnownInit
<1>2. Inv /\ [Next]_vars => Inv'
  BY TypeStays, LockStays, ListedStays, KnownStays
<1> QED
  BY <1>1, <1>2, PTL DEF Spec

\* As long as nothing overlaps with a button, a card that is not being edited
\* shows in Discord what its row says it does, or was removed there ("what the
\* message last showed, to tell whether it needs editing", state.go:163),
\* unless the bot was stopped or left without an answer in the middle of an
\* edit (RenderIsShown).  With buttons that overlap it is false (Board_stale).
THEOREM RowsAreShown ==
    ASSUME ButtonsAlone
    PROVE  Spec => []RenderIsShown
<1>1. Known => RenderIsShown
  BY DEF Known
<1> QED
  BY <1>1, CardsKnown, PTL

\* As long as nothing overlaps with a button, every message in the channel is
\* the one its task's row knows, or is about to be saved as it ("before the next
\* look at the list could post it a second time", bot.go:64-65), unless the bot
\* was stopped or left without an answer before it could save it, or posted a
\* card for task 0 (OneCardEach).
THEOREM NoSecondCard ==
    ASSUME ButtonsAlone
    PROVE  Spec => []OneCardEach
<1>1. Known => OneCardEach
  BY DEF Known
<1> QED
  BY <1>1, CardsKnown, PTL

=============================================================================
