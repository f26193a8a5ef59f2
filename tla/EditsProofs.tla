---------------------------- MODULE EditsProofs ----------------------------
(***************************************************************************)
(* What Edits guarantees for any number of tasks, columns and concurrent   *)
(* requests, however the clock is set back and the server restarted.       *)
(*                                                                         *)
(* The inductive invariant comes in four layers, each proved on top of the *)
(* one before: types, with a count of the finish times still to be given   *)
(* out (Counted); what a request has done by the step it is at             *)
(* (KnowsParts); what it knows of the requests beside it (KnowsBeside);    *)
(* and how finish times relate to lastDone (TimesFresh).                   *)
(***************************************************************************)
EXTENDS Edits, FiniteSetTheorems, TLAPS

----------------------------------------------------------------------------
(* Types.  lastDone is bounded because every request takes one finish time *)
(* at most.                                                                *)

\* The requests that may still take a finish time.
Waiting == {s \in Slots : requests[s] # None /\ requests[s].step \notin {"finish", "answer"}}

Counted ==
    /\ Cardinality(Waiting) <= begun
    /\ lastDone + Cardinality(Waiting) <= MaxTime + begun

TypeInv == TypeOK /\ Counted

\* Once a request is there, its fields are of their types.
LEMMA RequestIsOne ==
    ASSUME TypeOK, NEW s \in Slots, requests[s] # None
    PROVE  requests[s] \in Request
BY DEF TypeOK

\* Fewer requests can only wait for less.
LEMMA WaitingCounts ==
    /\ Cardinality(Waiting) \in Nat
    /\ Waiting' \subseteq Waiting => Cardinality(Waiting') <= Cardinality(Waiting)
<1>1. IsFiniteSet(Waiting)
  BY FS_Subset, EditsConstants DEF Waiting
<1>2. Cardinality(Waiting) \in Nat
  BY <1>1, FS_CardinalityType
<1>3. ASSUME Waiting' \subseteq Waiting
      PROVE  Cardinality(Waiting') <= Cardinality(Waiting)
  BY <1>1, <1>3, FS_Subset
<1> QED
  BY <1>2, <1>3

\* Steps that start no request and give out no time.
LEMMA CountedStays ==
    ASSUME TypeInv, begun' = begun, lastDone' = lastDone, Waiting' \subseteq Waiting
    PROVE  Counted'
<1>1. Cardinality(Waiting) \in Nat /\ Cardinality(Waiting') \in Nat
  BY WaitingCounts, FS_Subset, FS_CardinalityType, EditsConstants DEF Waiting
<1>2. lastDone \in Nat /\ begun \in Nat
  BY EditsConstants DEF TypeInv, TypeOK, Times, Never
<1> QED
  BY <1>1, <1>2, WaitingCounts, EditsConstants DEF TypeInv, Counted

\* A request that moves on does not wait for more than it did.
LEMMA PutStays ==
    ASSUME TypeOK, NEW s \in Slots, requests[s] # None, NEW r \in Request, Put(s, r),
           r.step \notin {"finish", "answer"} => requests[s].step \notin {"finish", "answer"}
    PROVE  /\ requests' \in [Slots -> Request \cup {None}]
           /\ Waiting' \subseteq Waiting
BY NoneIsNoRequest DEF Put, TypeOK, Waiting

\* The step a handler goes on to is one of its steps.
LEMMA NextPartIsAStep ==
    ASSUME NEW r, NEW parts
    PROVE  NextPart(r, parts) \in {"read", "reread", "time", "finish", "answer"}
BY DEF NextPart

\* finishTime is later than the last one, by one step at most beyond the clock.
LEMMA FinishTimeBounds ==
    ASSUME TypeInv
    PROVE  /\ FinishTime(clock) \in Nat
           /\ FinishTime(clock) > lastDone
           /\ FinishTime(clock) <= MaxTime \/ FinishTime(clock) = lastDone + 1
<1>1. lastDone \in Nat /\ clock \in Nat /\ clock <= MaxTime
  BY EditsConstants DEF TypeInv, TypeOK, Times, Never
<1> QED
  BY <1>1, EditsConstants DEF FinishTime

\* The request in slot s goes on as r, and nothing else is started or timed.
LEMMA TypedPut ==
    ASSUME TypeInv, NEW s \in Slots, requests[s] # None, NEW r \in Request, Put(s, r),
           r.step \notin {"finish", "answer"} => requests[s].step \notin {"finish", "answer"},
           tasks' \in [Tasks -> TaskRow], UNCHANGED server
    PROVE  TypeInv'
<1>1. requests' \in [Slots -> Request \cup {None}] /\ Waiting' \subseteq Waiting
  BY PutStays DEF TypeInv
<1>2. TypeOK'
  BY <1>1 DEF TypeInv, TypeOK, server
<1>3. Counted'
  BY <1>1, CountedStays DEF server
<1> QED
  BY <1>2, <1>3 DEF TypeInv

\* Each action keeps the types and the count: a request that comes in,
LEMMA BeginTyped ==
    ASSUME TypeInv, NEW s \in Slots, NEW ask \in Asks, Begin(s, ask)
    PROVE  TypeInv' /\ requests'[s] # None
<1> DEFINE r == [step |-> "access", id |-> begun + 1, ask |-> ask, row |-> NewTask,
                 at |-> Never, refused |-> FALSE, wrote |-> {},
                 after |-> {tasks[t].at : t \in Tasks},
                 beside |-> {requests[v].id : v \in Working}]
           more(v) == [requests[v] EXCEPT !.beside = @ \cup {r.id}]
<1>1. begun \in Nat /\ begun + 1 \in Requests /\ lastDone \in Nat
  BY EditsConstants DEF TypeInv, TypeOK, Begin, Requests, Times, Never
<1>2. r \in Request
  <2>1. {tasks[t].at : t \in Tasks} \subseteq Times \cup {Never}
    BY DEF TypeInv, TypeOK, TaskRow
  <2>2. {requests[v].id : v \in Working} \subseteq Requests
    BY RequestIsOne DEF TypeInv, Working, Request
  <2>3. NewTask \in TaskRow
    BY DEF NewTask, TaskRow, Writers
  <2> QED
    BY <1>1, <2>1, <2>2, <2>3, EditsConstants DEF Request, Steps
<1>3. ASSUME NEW v \in Working
      PROVE  more(v) \in Request /\ more(v).step = requests[v].step
  <2>1. requests[v] \in Request
    BY RequestIsOne DEF TypeInv, Working
  <2> QED
    BY <1>1, <2>1 DEF Request
<1>4. requests' = [v \in Slots |-> IF v = s THEN r
                                   ELSE IF v \in Working THEN more(v) ELSE None]
  BY DEF Begin
<1> HIDE DEF r, more
<1>5. requests' \in [Slots -> Request \cup {None}] /\ requests'[s] # None
  BY <1>2, <1>3, <1>4, NoneIsNoRequest
<1>6. Waiting' \subseteq Waiting \cup {s}
  BY <1>3, <1>4, NoneIsNoRequest DEF Waiting, Working
<1>7. TypeOK'
  BY <1>1, <1>5, EditsConstants DEF TypeInv, TypeOK, Begin
<1>8. Counted'
  <2>1. IsFiniteSet(Waiting) /\ s \notin Waiting
    BY FS_Subset, EditsConstants DEF Waiting, Begin
  <2>2. Cardinality(Waiting \cup {s}) = Cardinality(Waiting) + 1 /\ IsFiniteSet(Waiting \cup {s})
    BY <2>1, FS_AddElement
  <2>3. Cardinality(Waiting') <= Cardinality(Waiting) + 1
        /\ Cardinality(Waiting') \in Nat /\ Cardinality(Waiting) \in Nat
    BY <1>6, <2>1, <2>2, FS_Subset, FS_CardinalityType
  <2> QED
    BY <1>1, <2>3, EditsConstants DEF TypeInv, Counted, Begin
<1> QED
  BY <1>5, <1>7, <1>8 DEF TypeInv

\* one that takes a finish time,
LEMMA TakeTimeTyped ==
    ASSUME TypeInv, NEW s \in Slots, TakeTime(s)
    PROVE  TypeInv'
<1> DEFINE r == [requests[s] EXCEPT !.at = lastDone', !.step = "finish"]
<1>1. requests[s] \in Request /\ requests[s].step = "time" /\ s \in Waiting
  BY RequestIsOne DEF TypeInv, TakeTime, At, Waiting
<1>2. lastDone \in Nat /\ begun \in Nat /\ begun <= MaxRequests
  BY EditsConstants DEF TypeInv, TypeOK, Times, Never
<1>3. IsFiniteSet(Waiting)
  BY FS_Subset, EditsConstants DEF Waiting
<1>4. Cardinality(Waiting) \in Nat /\ Cardinality(Waiting \ {s}) = Cardinality(Waiting) - 1
      /\ Cardinality(Waiting \ {s}) \in Nat /\ IsFiniteSet(Waiting \ {s})
  BY <1>1, <1>3, FS_CardinalityType, FS_RemoveElement
<1>5. /\ lastDone' \in Nat /\ lastDone' > lastDone
      /\ lastDone' + Cardinality(Waiting \ {s}) <= MaxTime + begun
  BY <1>2, <1>4, FinishTimeBounds, EditsConstants DEF TakeTime, TypeInv, Counted
<1>6. lastDone' \in Times
  BY <1>2, <1>4, <1>5, EditsConstants DEF Times
<1>7. r \in Request /\ r.step = "finish"
  BY <1>1, <1>6 DEF Request, Steps
<1>8. requests' = [requests EXCEPT ![s] = r]
  BY DEF TakeTime, Put
<1> HIDE DEF r
<1>9. TypeOK'
  BY <1>6, <1>7, <1>8 DEF TypeInv, TypeOK, TakeTime
<1>10. Counted'
  <2>1. Waiting' \subseteq Waiting \ {s}
    BY <1>7, <1>8, NoneIsNoRequest DEF Waiting, TypeInv, TypeOK
  <2>2. Cardinality(Waiting') <= Cardinality(Waiting \ {s}) /\ Cardinality(Waiting') \in Nat
    BY <1>4, <2>1, FS_Subset, FS_CardinalityType
  <2> QED
    BY <1>2, <1>4, <1>5, <2>2, EditsConstants DEF TypeInv, Counted, TakeTime
<1> QED
  BY <1>9, <1>10 DEF TypeInv

\* A request at work is well formed, and so is the task it is for.
LEMMA MovesOn ==
    ASSUME TypeInv, NEW s \in Slots, requests[s] # None
    PROVE  requests[s] \in Request /\ requests[s].ask.task \in Tasks /\ Task(s) \in TaskRow
<1>1. requests[s] \in Request
  BY RequestIsOne DEF TypeInv
<1>2. requests[s].ask.task \in Tasks
  BY <1>1 DEF Request, Ask
<1> QED
  BY <1>1, <1>2 DEF TypeInv, TypeOK, Task

\* one that is turned down,
LEMMA RefuseTyped ==
    ASSUME TypeInv, NEW s \in Slots, requests[s] # None, Refuse(s),
           tasks' \in [Tasks -> TaskRow], UNCHANGED server
    PROVE  TypeInv'
<1>1. requests[s] \in Request
  BY RequestIsOne DEF TypeInv
<1> DEFINE r == [requests[s] EXCEPT !.step = "answer", !.refused = TRUE]
<1>2. r \in Request /\ r.step = "answer"
  BY <1>1 DEF Request, Steps
<1>3. Put(s, r)
  BY DEF Refuse
<1> HIDE DEF r
<1> QED
  BY <1>2, <1>3, TypedPut

\* (what a statement writes is a row)
LEMMA SetTyped ==
    ASSUME TypeInv, NEW s \in Slots, requests[s] # None, NEW row \in TaskRow, Set(s, row)
    PROVE  tasks' \in [Tasks -> TaskRow]
BY DEF Set, TypeInv, TypeOK

\* one that is let in,
LEMMA AccessTyped ==
    ASSUME TypeInv, NEW s \in Slots, Access(s)
    PROVE  TypeInv'
<1> DEFINE asked == requests[s]
           toggled == IF asked.ask.done # "toggle" THEN asked
                      ELSE [asked EXCEPT !.ask.done = IF Task(s).done THEN "not done" ELSE "done"]
           step == IF asked.ask.trash # "no" THEN "trash" ELSE NextPart(toggled, {"edit", "assign"})
           r == [toggled EXCEPT !.row = Task(s), !.step = step]
<1>1. /\ requests[s] # None /\ requests[s].step \notin {"finish", "answer"}
      /\ tasks' \in [Tasks -> TaskRow] /\ UNCHANGED server
  BY DEF Access, At, TypeInv, TypeOK
<1>2. asked \in Request /\ Task(s) \in TaskRow
  BY <1>1, MovesOn
<1>3. toggled \in Request
  BY <1>2 DEF Request, Ask
<1>4. step \in Steps
  BY NextPartIsAStep DEF Steps
<1>5. r \in Request
  <2> HIDE DEF toggled, step
  <2> QED
    BY <1>2, <1>3, <1>4 DEF Request
<1>6. Refuse(s) \/ Put(s, r)
  BY DEF Access
<1> HIDE DEF r
<1> QED
  BY <1>1, <1>5, <1>6, RefuseTyped, TypedPut

\* one that reads the task for the next part,
LEMMA RereadTyped ==
    ASSUME TypeInv, NEW s \in Slots, NEW from \in {"read", "reread"},
           NEW to \in {"update", "assign"}, Reread(s, from, to)
    PROVE  TypeInv'
<1> DEFINE r == [requests[s] EXCEPT !.row = Task(s), !.step = to]
<1>1. /\ requests[s] # None /\ requests[s].step \notin {"finish", "answer"}
      /\ tasks' \in [Tasks -> TaskRow] /\ UNCHANGED server
  BY DEF Reread, At, TypeInv, TypeOK
<1>2. requests[s] \in Request /\ Task(s) \in TaskRow /\ to \in Steps
  BY <1>1, MovesOn DEF Steps
<1>3. r \in Request
  BY <1>2 DEF Request
<1>4. Refuse(s) \/ Put(s, r)
  BY DEF Reread
<1> HIDE DEF r
<1> QED
  BY <1>1, <1>3, <1>4, RefuseTyped, TypedPut

\* UpdateTask,
LEMMA UpdateTyped ==
    ASSUME TypeInv, NEW s \in Slots, Update(s)
    PROVE  TypeInv'
<1> DEFINE asked == requests[s]
           r == [asked EXCEPT !.wrote = @ \cup asked.ask.names, !.step = NextPart(asked, {"assign"})]
           row == [Task(s) EXCEPT !.columns = ColumnsOf(asked)]
<1>1. /\ asked # None /\ asked.step \notin {"finish", "answer"} /\ UNCHANGED server
  BY DEF Update, At
<1>2. asked \in Request /\ Task(s) \in TaskRow
  BY <1>1, MovesOn
<1>3. r \in Request
  <2>1. NextPart(asked, {"assign"}) \in Steps
    BY NextPartIsAStep DEF Steps
  <2> QED
    BY <1>2, <2>1 DEF Request, Ask
<1>4. row \in TaskRow
  <2>1. ColumnsOf(asked) \in [Columns -> Writers]
    BY <1>2 DEF ColumnsOf, Request, TaskRow, Writers
  <2> QED
    BY <1>2, <2>1 DEF TaskRow
<1>5. Set(s, row) /\ (Refuse(s) \/ Put(s, r))
  BY DEF Update
<1> HIDE DEF r, row
<1>6. tasks' \in [Tasks -> TaskRow]
  BY <1>1, <1>4, <1>5, SetTyped
<1> QED
  BY <1>1, <1>3, <1>5, <1>6, RefuseTyped, TypedPut

\* AssignTask,
LEMMA AssignTyped ==
    ASSUME TypeInv, NEW s \in Slots, Assign(s)
    PROVE  TypeInv'
<1> DEFINE asked == requests[s]
           r == [asked EXCEPT !.wrote = @ \cup {"assignee"}, !.step = NextPart(asked, {})]
           row == [Task(s) EXCEPT !.assignee = asked.id]
<1>1. /\ asked # None /\ asked.step \notin {"finish", "answer"} /\ UNCHANGED server
  BY DEF Assign, At
<1>2. asked \in Request /\ Task(s) \in TaskRow
  BY <1>1, MovesOn
<1>3. r \in Request
  <2>1. NextPart(asked, {}) \in Steps
    BY NextPartIsAStep DEF Steps
  <2> QED
    BY <1>2, <2>1 DEF Request
<1>4. row \in TaskRow
  BY <1>2 DEF TaskRow, Request, Writers
<1>5. (Refuse(s) /\ UNCHANGED tasks) \/ (Set(s, row) /\ Put(s, r))
  BY DEF Assign
<1> HIDE DEF r, row
<1>6. tasks' \in [Tasks -> TaskRow]
  BY <1>1, <1>4, <1>5, SetTyped DEF TypeInv, TypeOK
<1> QED
  BY <1>1, <1>3, <1>5, <1>6, RefuseTyped, TypedPut

\* SetDone's UPDATE,
LEMMA FinishTyped ==
    ASSUME TypeInv, NEW s \in Slots, Finish(s)
    PROVE  TypeInv'
<1> DEFINE asked == requests[s]
           r == [asked EXCEPT !.wrote = @ \cup {"done"}, !.step = "answer"]
           row == [Task(s) EXCEPT !.done = (asked.ask.done = "done"), !.at = asked.at]
<1>1. /\ asked # None /\ UNCHANGED server
  BY DEF Finish, At
<1>2. asked \in Request /\ Task(s) \in TaskRow
  BY <1>1, MovesOn
<1>3. r \in Request /\ r.step = "answer"
  BY <1>2 DEF Request, Steps
<1>4. row \in TaskRow
  BY <1>2 DEF TaskRow, Request
<1>5. (Refuse(s) /\ UNCHANGED tasks) \/ (Set(s, row) /\ Put(s, r))
  BY DEF Finish
<1> HIDE DEF r, row
<1>6. tasks' \in [Tasks -> TaskRow]
  BY <1>1, <1>4, <1>5, SetTyped DEF TypeInv, TypeOK
<1> QED
  BY <1>1, <1>3, <1>5, <1>6, RefuseTyped, TypedPut

\* and DeleteTask and RestoreTask.
LEMMA TrashTyped ==
    ASSUME TypeInv, NEW s \in Slots, Trash(s)
    PROVE  TypeInv'
<1> DEFINE asked == requests[s]
           r == [asked EXCEPT !.step = "answer"]
           row == [Task(s) EXCEPT !.live = (asked.ask.trash = "restore")]
<1>1. /\ asked # None /\ asked.step \notin {"finish", "answer"} /\ UNCHANGED server
  BY DEF Trash, At
<1>2. asked \in Request /\ Task(s) \in TaskRow
  BY <1>1, MovesOn
<1>3. r \in Request /\ row \in TaskRow
  BY <1>2 DEF Request, Steps, TaskRow
<1>4. Set(s, row) /\ Put(s, r)
  BY DEF Trash
<1> HIDE DEF r, row
<1> QED
  BY <1>1, <1>3, <1>4, SetTyped, TypedPut

\* Every step keeps the types and the count.
LEMMA TypeInvStays ==
    ASSUME TypeInv, [Next]_vars
    PROVE  TypeInv'
<1>1. ASSUME NEW s \in Slots, Serve(s)
      PROVE  TypeInv'
  <2>1. CASE Answer(s)
    <3>1. requests' \in [Slots -> Request \cup {None}] /\ Waiting' \subseteq Waiting
      BY <2>1 DEF Answer, TypeInv, TypeOK, Waiting
    <3> QED
      BY <2>1, <3>1, CountedStays DEF Answer, TypeInv, TypeOK, server
  <2> QED
    BY <1>1, <2>1, AccessTyped, RereadTyped, UpdateTyped, AssignTyped, TakeTimeTyped,
       FinishTyped, TrashTyped DEF Serve
<1>2. ASSUME NEW s \in Slots, NEW ask \in Asks, Begin(s, ask)
      PROVE  TypeInv'
  BY <1>2, BeginTyped
<1>3. CASE Tick \/ SetBack
  <2>1. clock' \in 1 .. MaxTime
    BY <1>3, EditsConstants DEF Tick, SetBack, TypeInv, TypeOK
  <2>2. Waiting' = Waiting
    BY <1>3 DEF Tick, SetBack, Waiting
  <2>3. Counted'
    BY <1>3, <2>2, CountedStays DEF Tick, SetBack
  <2> QED
    BY <1>3, <2>1, <2>3 DEF Tick, SetBack, TypeInv, TypeOK
<1>4. CASE Restart
  <2>1. Waiting' = {}
    BY <1>4 DEF Restart, Waiting
  <2>2. begun' \in Nat /\ begun' = begun /\ lastDone' = 0
    BY <1>4, EditsConstants DEF Restart, TypeInv, TypeOK, Never
  <2>3. Cardinality(Waiting') = 0
    BY <2>1, FS_EmptySet
  <2>4. Counted'
    BY <2>2, <2>3, EditsConstants DEF Counted
  <2>5. TypeOK'
    BY <1>4, EditsConstants DEF Restart, TypeInv, TypeOK
  <2> QED
    BY <2>4, <2>5 DEF TypeInv
<1>5. CASE UNCHANGED vars
  <2>1. Waiting' = Waiting
    BY <1>5 DEF vars, Waiting
  <2> QED
    BY <1>5, <2>1, CountedStays DEF vars, server, TypeInv, TypeOK
<1> QED
  BY <1>1, <1>2, <1>3, <1>4, <1>5 DEF Next

\* They hold at the start.
LEMMA TypeInvStarts ==
    ASSUME Init
    PROVE  TypeInv
<1>1. Waiting = {}
  BY DEF Init, Waiting
<1>2. Cardinality(Waiting) = 0
  BY <1>1, FS_EmptySet
<1>3. NewTask \in TaskRow
  BY DEF NewTask, TaskRow, Writers
<1>4. TypeOK
  BY <1>3, EditsConstants DEF Init, TypeOK, Times, Never
<1> QED
  BY <1>2, <1>4, EditsConstants DEF Init, TypeInv, Counted, Never

\* Every table and request holds values of its kind; above all the finish times
\* stay within the clock's range and one step per request, so lastDone cannot
\* run away from the clock (finishTime, store.go).
THEOREM TypeSafe == Spec => []TypeInv
<1>1. Init => TypeInv
  BY TypeInvStarts
<1>2. TypeInv /\ [Next]_vars => TypeInv'
  BY TypeInvStays
<1> QED
  BY <1>1, <1>2, PTL DEF Spec

\* Every task and request holds values of its kind (TypeOK).
THEOREM TypesHold == Spec => []TypeOK
<1>1. TypeInv => TypeOK
  BY DEF TypeInv
<1> QED
  BY <1>1, TypeSafe, PTL

----------------------------------------------------------------------------
(* A task in the trash: only DeleteTask, RestoreTask and UpdateTask write  *)
(* to it.                                                                  *)

\* An undo brings back the assignee and the tick the task was deleted with,
\* whichever requests were on their way to change them (store.go:947, 969).
THEOREM TrashKeeps == Spec => TrashKeepsTheTask
<1> DEFINE Kept(t) == /\ tasks'[t].assignee = tasks[t].assignee
                      /\ tasks'[t].done = tasks[t].done /\ tasks'[t].at = tasks[t].at
<1>1. ASSUME TypeInv, [Next]_vars, NEW t \in Tasks, ~tasks[t].live
      PROVE  Kept(t)
  <2>1. tasks \in [Tasks -> TaskRow]
    BY <1>1 DEF TypeInv, TypeOK
  <2>2. ASSUME NEW s \in Slots, Serve(s)
        PROVE  Kept(t)
    <3>1. CASE Update(s) \/ Trash(s)
      BY <2>1, <3>1 DEF Update, Trash, Set, Task, TaskRow
    <3>2. CASE Assign(s) \/ Finish(s)
      BY <1>1, <2>1, <3>2 DEF Assign, Finish, Set, Task, TaskRow
    <3> QED
      BY <2>2, <3>1, <3>2 DEF Serve, Access, Reread, TakeTime, Answer
  <2> QED
    BY <1>1, <2>2 DEF Next, Begin, Tick, SetBack, Restart, vars
<1>2. TypeInv /\ [Next]_vars => [\A t \in Tasks : ~tasks[t].live => Kept(t)]_vars
  BY <1>1
<1>3. Spec => [][\A t \in Tasks : ~tasks[t].live => Kept(t)]_vars
  BY <1>2, TypeSafe, PTL DEF Spec
<1> QED
  BY <1>3 DEF TrashKeepsTheTask

----------------------------------------------------------------------------
(* What a request has written, by the step it is at.                       *)

PartsAsked(r) == r.ask.names \cup (IF r.ask.to = "nobody asked" THEN {} ELSE {"assignee"})
                             \cup (IF r.ask.done = "as it is" THEN {} ELSE {"done"})

KnowsParts(r) ==
    /\ r.step # "answer" => ~r.refused
    /\ r.step \in {"read", "update", "reread", "assign", "time", "finish"} =>
           r.ask.trash = "no" /\ r.ask.done # "toggle"
    /\ r.step = "trash" => r.ask.trash # "no"
    /\ r.step \in {"access", "read", "update"} => r.wrote = {}
    /\ r.step \in {"reread", "assign"} => r.wrote = r.ask.names /\ r.ask.to # "nobody asked"
    /\ r.step \in {"time", "finish"} =>
           r.wrote = PartsAsked(r) \ {"done"} /\ r.ask.done # "as it is"
    /\ r.step = "time" => r.ask.done = "done"
    /\ r.step = "answer" /\ r.ask.trash = "no" =>
           IF r.refused THEN "done" \notin r.wrote ELSE r.wrote = PartsAsked(r)
    \* Only a tick has a finish time.
    /\ r.step \notin {"finish", "answer"} => r.at = Never
    /\ r.step = "finish" => (r.at = Never <=> r.ask.done = "not done")

PartsKnown == \A s \in Working : KnowsParts(requests[s])

\* A step of one request that knows its parts leaves the others knowing theirs.
LEMMA PartsPut ==
    ASSUME TypeInv, PartsKnown, NEW s \in Working, NEW r, Put(s, r), KnowsParts(r)
    PROVE  PartsKnown'
<1>1. requests' = [v \in Slots |-> IF v = s THEN r ELSE requests[v]]
  BY DEF Put, TypeInv, TypeOK
<1>2. ASSUME NEW v \in Working'
      PROVE  KnowsParts(requests'[v])
  BY <1>1, <1>2 DEF PartsKnown, Working
<1> QED
  BY <1>2 DEF PartsKnown, KnowsParts, PartsAsked

\* What the next part leaves to be done, for each of the three places that ask.
LEMMA NextPartLeaves ==
    ASSUME NEW r, r.ask.done # "toggle" => r.ask.done \in {"as it is", "done", "not done"}
    PROVE  /\ NextPart(r, {}) = IF r.ask.done = "as it is" THEN "answer"
                                ELSE IF r.ask.done = "done" THEN "time" ELSE "finish"
           /\ NextPart(r, {"assign"}) = IF r.ask.to = "nobody asked" THEN NextPart(r, {})
                                        ELSE "reread"
           /\ NextPart(r, {"edit", "assign"}) = IF r.ask.names = {} THEN NextPart(r, {"assign"})
                                                ELSE "read"
BY DEF NextPart

\* Each action leaves a request knowing what it has done: one turned down,
LEMMA RefuseKnown ==
    ASSUME TypeInv, PartsKnown, NEW s \in Working, Refuse(s),
           "done" \notin requests[s].wrote
    PROVE  PartsKnown'
<1> DEFINE r == [requests[s] EXCEPT !.step = "answer", !.refused = TRUE]
<1>1. requests[s] \in Request
  BY RequestIsOne DEF TypeInv, Working
<1>2. KnowsParts(r)
  BY <1>1 DEF KnowsParts, Request
<1>3. Put(s, r)
  BY DEF Refuse
<1> HIDE DEF r
<1> QED
  BY <1>2, <1>3, PartsPut

\* one let in,
LEMMA AccessKnown ==
    ASSUME TypeInv, PartsKnown, NEW s \in Slots, Access(s)
    PROVE  PartsKnown'
<1> DEFINE asked == requests[s]
           toggled == IF asked.ask.done # "toggle" THEN asked
                      ELSE [asked EXCEPT !.ask.done = IF Task(s).done THEN "not done" ELSE "done"]
           step == IF asked.ask.trash # "no" THEN "trash" ELSE NextPart(toggled, {"edit", "assign"})
           r == [toggled EXCEPT !.row = Task(s), !.step = step]
<1>1. s \in Working /\ asked.step = "access" /\ asked \in Request
  BY RequestIsOne DEF Access, At, Working, TypeInv
<1>2. KnowsParts(asked)
  BY <1>1 DEF PartsKnown
<1>3. /\ toggled \in Request /\ toggled.step = "access" /\ toggled.refused = asked.refused
      /\ toggled.wrote = asked.wrote /\ toggled.at = asked.at
      /\ toggled.ask.trash = asked.ask.trash /\ toggled.ask.done # "toggle"
  BY <1>1 DEF Request, Ask
<1>4. toggled.ask.done \in {"as it is", "done", "not done"} /\ toggled.ask.names \subseteq Columns
  BY <1>3 DEF Request, Ask
<1> HIDE DEF toggled
<1>5. /\ r.step = step /\ r.ask = toggled.ask /\ r.wrote = toggled.wrote
      /\ r.refused = toggled.refused /\ r.at = toggled.at
  <2> HIDE DEF step
  <2> QED
    BY <1>3 DEF Request
<1>6. KnowsParts(r)
  <2>1. asked.wrote = {} /\ ~asked.refused /\ asked.at = Never
    BY <1>1, <1>2 DEF KnowsParts
  <2>2. step # "access" /\ step # "update" /\ step # "assign"
    BY NextPartIsAStep
  <2> HIDE DEF r
  <2>3. CASE asked.ask.trash # "no"
    BY <1>3, <1>5, <2>1, <2>3 DEF KnowsParts
  <2>4. CASE asked.ask.trash = "no"
    BY <1>3, <1>4, <1>5, <2>1, <2>4, NextPartLeaves DEF KnowsParts, PartsAsked
  <2> QED
    BY <2>3, <2>4
<1>7. Refuse(s) \/ Put(s, r)
  BY DEF Access, toggled
<1>8. "done" \notin requests[s].wrote
  BY <1>1, <1>2 DEF KnowsParts
<1> HIDE DEF r
<1> QED
  BY <1>1, <1>6, <1>7, <1>8, PartsPut, RefuseKnown

\* one that reads the task for the next part,
LEMMA RereadKnown ==
    ASSUME TypeInv, PartsKnown, NEW s \in Slots, NEW from, NEW to,
           \/ from = "read" /\ to = "update"
           \/ from = "reread" /\ to = "assign",
           Reread(s, from, to)
    PROVE  PartsKnown'
<1> DEFINE r == [requests[s] EXCEPT !.row = Task(s), !.step = to]
<1>1. s \in Working /\ requests[s] \in Request /\ KnowsParts(requests[s])
  BY RequestIsOne DEF Reread, At, Working, TypeInv, PartsKnown
<1>2. \/ requests[s].step = "read" /\ to = "update"
      \/ requests[s].step = "reread" /\ to = "assign"
  BY DEF Reread, At
<1>3. "done" \notin requests[s].wrote
  BY <1>1, <1>2, EditsConstants DEF KnowsParts, Request, Ask
<1>4. /\ r.step = to /\ r.ask = requests[s].ask /\ r.wrote = requests[s].wrote
      /\ r.refused = requests[s].refused /\ r.at = requests[s].at
  BY <1>1 DEF Request
<1>5. Refuse(s) \/ Put(s, r)
  BY DEF Reread
<1> HIDE DEF r
<1>6. KnowsParts(r)
  <2>1. CASE requests[s].step = "read" /\ to = "update"
    BY <1>1, <1>4, <2>1 DEF KnowsParts
  <2>2. CASE requests[s].step = "reread" /\ to = "assign"
    BY <1>1, <1>4, <2>2 DEF KnowsParts
  <2> QED
    BY <1>2, <2>1, <2>2
<1> QED
  BY <1>1, <1>3, <1>5, <1>6, PartsPut, RefuseKnown

\* UpdateTask,
LEMMA UpdateKnown ==
    ASSUME TypeInv, PartsKnown, NEW s \in Slots, Update(s)
    PROVE  PartsKnown'
<1> DEFINE asked == requests[s]
           r == [asked EXCEPT !.wrote = @ \cup asked.ask.names, !.step = NextPart(asked, {"assign"})]
<1>1. s \in Working /\ asked \in Request /\ KnowsParts(asked) /\ asked.step = "update"
  BY RequestIsOne DEF Update, At, Working, TypeInv, PartsKnown
<1>2. asked.wrote = {} /\ asked.ask.trash = "no" /\ ~asked.refused /\ asked.at = Never
  BY <1>1 DEF KnowsParts
<1>3. /\ r.step = NextPart(asked, {"assign"}) /\ r.ask = asked.ask /\ r.wrote = asked.ask.names
      /\ r.refused = asked.refused /\ r.at = asked.at
  BY <1>1, <1>2 DEF Request
<1>4. asked.ask.done \in {"as it is", "done", "not done"}
  BY <1>1 DEF KnowsParts, Request, Ask
<1>5. Refuse(s) \/ Put(s, r)
  BY DEF Update
<1> HIDE DEF r
<1>6. KnowsParts(r)
  <2>1. asked.ask.names \subseteq Columns
    BY <1>1 DEF Request, Ask
  <2> QED
    BY <1>2, <1>3, <1>4, <2>1, EditsConstants, NextPartLeaves DEF KnowsParts, PartsAsked
<1> QED
  BY <1>1, <1>2, <1>5, <1>6, PartsPut, RefuseKnown

\* AssignTask,
LEMMA AssignKnown ==
    ASSUME TypeInv, PartsKnown, NEW s \in Slots, Assign(s)
    PROVE  PartsKnown'
<1> DEFINE asked == requests[s]
           r == [asked EXCEPT !.wrote = @ \cup {"assignee"}, !.step = NextPart(asked, {})]
<1>1. s \in Working /\ asked \in Request /\ KnowsParts(asked) /\ asked.step = "assign"
  BY RequestIsOne DEF Assign, At, Working, TypeInv, PartsKnown
<1>2. /\ asked.wrote = asked.ask.names /\ asked.ask.to # "nobody asked"
      /\ asked.ask.trash = "no" /\ ~asked.refused /\ asked.at = Never
  BY <1>1 DEF KnowsParts
<1>3. /\ r.step = NextPart(asked, {}) /\ r.ask = asked.ask
      /\ r.wrote = asked.ask.names \cup {"assignee"}
      /\ r.refused = asked.refused /\ r.at = asked.at
  BY <1>1, <1>2 DEF Request
<1>4. asked.ask.done \in {"as it is", "done", "not done"} /\ asked.ask.names \subseteq Columns
  BY <1>1 DEF KnowsParts, Request, Ask
<1>5. Refuse(s) \/ Put(s, r)
  BY DEF Assign
<1> HIDE DEF r
<1>6. KnowsParts(r)
  BY <1>2, <1>3, <1>4, EditsConstants, NextPartLeaves DEF KnowsParts, PartsAsked
<1>7. "done" \notin asked.wrote
  BY <1>2, <1>4, EditsConstants
<1> QED
  BY <1>1, <1>5, <1>6, <1>7, PartsPut, RefuseKnown

\* one that takes a finish time,
LEMMA TakeTimeKnown ==
    ASSUME TypeInv, PartsKnown, NEW s \in Slots, TakeTime(s)
    PROVE  PartsKnown'
<1> DEFINE asked == requests[s]
           r == [asked EXCEPT !.at = lastDone', !.step = "finish"]
<1>1. s \in Working /\ asked \in Request /\ KnowsParts(asked) /\ asked.step = "time"
  BY RequestIsOne DEF TakeTime, At, Working, TypeInv, PartsKnown
<1>2. lastDone' # Never
  BY FinishTimeBounds, EditsConstants DEF TakeTime, TypeInv, TypeOK, Times, Never
<1>3. /\ r.step = "finish" /\ r.ask = asked.ask /\ r.wrote = asked.wrote
      /\ r.refused = asked.refused /\ r.at # Never
  BY <1>1, <1>2 DEF Request
<1>4. Put(s, r)
  BY DEF TakeTime
<1> HIDE DEF r
<1>5. KnowsParts(r)
  BY <1>1, <1>3 DEF KnowsParts, PartsAsked
<1> QED
  BY <1>1, <1>4, <1>5, PartsPut

\* SetDone's UPDATE,
LEMMA FinishKnown ==
    ASSUME TypeInv, PartsKnown, NEW s \in Slots, Finish(s)
    PROVE  PartsKnown'
<1> DEFINE asked == requests[s]
           r == [asked EXCEPT !.wrote = @ \cup {"done"}, !.step = "answer"]
<1>1. s \in Working /\ asked \in Request /\ KnowsParts(asked) /\ asked.step = "finish"
  BY RequestIsOne DEF Finish, At, Working, TypeInv, PartsKnown
<1>2. /\ r.step = "answer" /\ r.ask = asked.ask /\ r.wrote = asked.wrote \cup {"done"}
      /\ r.refused = asked.refused
  BY <1>1 DEF Request
<1>3. Refuse(s) \/ Put(s, r)
  BY DEF Finish
<1> HIDE DEF r
<1>4. KnowsParts(r)
  BY <1>1, <1>2 DEF KnowsParts, PartsAsked
<1>5. "done" \notin asked.wrote
  BY <1>1 DEF KnowsParts
<1> QED
  BY <1>1, <1>3, <1>4, <1>5, PartsPut, RefuseKnown

\* and one that comes in, with all it asks for still to do.
LEMMA BeginKnown ==
    ASSUME TypeInv, PartsKnown, NEW s \in Slots, NEW ask \in Asks, Begin(s, ask)
    PROVE  PartsKnown'
<1> DEFINE more(v) == [requests[v] EXCEPT !.beside = @ \cup {begun + 1}]
<1>1. /\ requests'[s].step = "access" /\ ~requests'[s].refused
      /\ requests'[s].wrote = {} /\ requests'[s].at = Never
  BY DEF Begin
<1>2. KnowsParts(requests'[s])
  BY <1>1 DEF KnowsParts
<1>3. ASSUME NEW v \in Working' \ {s}
      PROVE  v \in Working /\ requests'[v] = more(v)
  BY <1>3 DEF Begin, Working
<1>4. ASSUME NEW v \in Working' \ {s}
      PROVE  KnowsParts(requests'[v])
  <2>1. v \in Working /\ requests[v] \in Request /\ KnowsParts(requests[v])
    BY <1>3, <1>4, RequestIsOne DEF TypeInv, Working, PartsKnown
  <2>2. KnowsParts(more(v))
    BY <2>1 DEF KnowsParts, PartsAsked, Request
  <2> QED
    BY <1>3, <1>4, <2>2
<1>5. \A v \in Working' : KnowsParts(requests'[v])
  BY <1>2, <1>4
<1> QED
  BY <1>5 DEF PartsKnown, KnowsParts, PartsAsked

\* Every step keeps PartsKnown.
LEMMA PartsStay ==
    ASSUME TypeInv, PartsKnown, [Next]_vars
    PROVE  PartsKnown'
<1>1. ASSUME NEW s \in Slots, Serve(s)
      PROVE  PartsKnown'
  <2>1. CASE Trash(s)
    <3>1. s \in Working /\ requests[s] \in Request /\ KnowsParts(requests[s])
      BY <2>1, RequestIsOne DEF Trash, At, Working, TypeInv, PartsKnown
    <3>2. KnowsParts([requests[s] EXCEPT !.step = "answer"])
      BY <2>1, <3>1 DEF KnowsParts, Trash, At, Request, PartsAsked
    <3> QED
      BY <2>1, <3>1, <3>2, PartsPut DEF Trash
  <2>2. CASE Answer(s)
    <3>1. \A v \in Working' : v \in Working /\ requests'[v] = requests[v]
      BY <2>2 DEF Answer, Working, TypeInv, TypeOK
    <3>2. \A v \in Working' : KnowsParts(requests'[v])
      BY <3>1 DEF PartsKnown
    <3> QED
      BY <3>2 DEF PartsKnown, KnowsParts, PartsAsked
  <2>3. CASE Reread(s, "read", "update") \/ Reread(s, "reread", "assign")
    BY <2>3, RereadKnown
  <2> QED
    BY <1>1, <2>1, <2>2, <2>3, AccessKnown, UpdateKnown, AssignKnown, TakeTimeKnown,
       FinishKnown DEF Serve
<1>2. ASSUME NEW s \in Slots, NEW ask \in Asks, Begin(s, ask)
      PROVE  PartsKnown'
  BY <1>2, BeginKnown
<1>3. CASE Tick \/ SetBack \/ UNCHANGED vars
  <2>1. requests' = requests /\ Working' = Working
    BY <1>3 DEF Tick, SetBack, vars, Working
  <2> QED
    BY <2>1 DEF PartsKnown, KnowsParts, PartsAsked
<1>4. CASE Restart
  BY <1>4 DEF Restart, PartsKnown, Working
<1> QED
  BY <1>1, <1>2, <1>3, <1>4 DEF Next

\* A request knows at each step which of its parts are done (PartsKnown).
THEOREM PartsSafe == Spec => []PartsKnown
<1>1. Init => PartsKnown
  BY DEF Init, PartsKnown, Working
<1>2. TypeInv /\ PartsKnown /\ [Next]_vars => PartsKnown'
  BY PartsStay
<1> QED
  BY <1>1, <1>2, TypeSafe, PTL DEF Spec

\* A request that edits, assigns and ticks answers with a task only when all of
\* it is done, and one turned down part of the way has not ticked the task
\* (apiPatchTask, web.go:1733-1753).
THEOREM AnswersAreForAll == Spec => []AnsweredForAll
<1>1. PartsKnown => AnsweredForAll
  BY DEF PartsKnown, KnowsParts, AnsweredForAll, PartsAsked, At, Working
<1> QED
  BY <1>1, PartsSafe, PTL

----------------------------------------------------------------------------
(* What a request knows of those beside it.                                *)

BesideKnown ==
    /\ \A s, v \in Working : s # v => requests[v].id \in requests[s].beside
    /\ \A s \in Working : At(s, "update") /\ requests[s].beside = {}
                          => requests[s].row.columns = Task(s).columns

\* While a request has nobody beside it, no other one is at work.
LEMMA AloneIsAlone ==
    ASSUME BesideKnown, NEW s \in Working, requests[s].beside = {}, NEW v \in Working
    PROVE  v = s
BY DEF BesideKnown

\* A handler's step keeps its own id and whom it knows of, and leaves the
\* columns alone unless it is UpdateTask's UPDATE.
LEMMA ServedKnows ==
    ASSUME TypeInv, NEW s \in Slots, Serve(s)
    PROVE  /\ s \in Working
           /\ \A v \in Slots : v # s => requests'[v] = requests[v]
           /\ s \in Working' => /\ requests'[s].id = requests[s].id
                                /\ requests'[s].beside = requests[s].beside
                                /\ requests'[s].ask.task = requests[s].ask.task
           /\ requests[s].step # "update" =>
                  \A t \in Tasks : tasks'[t].columns = tasks[t].columns
           /\ s \in Working' /\ requests'[s].step = "update" =>
                  requests'[s].row = Task(s) /\ tasks' = tasks
<1>1. s \in Working
  BY DEF Serve, Access, Reread, Update, Assign, TakeTime, Finish, Trash, Answer, At, Working
<1>2. /\ requests[s] \in Request /\ tasks \in [Tasks -> TaskRow]
      /\ requests \in [Slots -> Request \cup {None}]
      /\ \A t \in Tasks : tasks[t] \in TaskRow
  BY <1>1, RequestIsOne DEF TypeInv, TypeOK, Working
<1>3. requests[s].ask \in Ask
  BY <1>2 DEF Request
<1>4. CASE Refuse(s) /\ UNCHANGED tasks
  BY <1>1, <1>2, <1>4 DEF Refuse, Put, Request
<1>5. CASE Access(s) /\ ~Refuse(s)
  <2> DEFINE toggled == IF requests[s].ask.done # "toggle" THEN requests[s]
                 ELSE [requests[s] EXCEPT !.ask.done = IF Task(s).done THEN "not done" ELSE "done"]
             step == IF requests[s].ask.trash # "no" THEN "trash"
                     ELSE NextPart(toggled, {"edit", "assign"})
             r == [toggled EXCEPT !.row = Task(s), !.step = step]
  <2>1. /\ toggled \in Request /\ toggled.id = requests[s].id
        /\ toggled.beside = requests[s].beside /\ toggled.ask.task = requests[s].ask.task
    BY <1>2, <1>3 DEF Request, Ask
  <2>2. step # "update"
    BY NextPartIsAStep
  <2>3. requests' = [requests EXCEPT ![s] = r] /\ tasks' = tasks
    BY <1>5 DEF Access, Put
  <2> HIDE DEF toggled, step
  <2>4. r.id = toggled.id /\ r.beside = toggled.beside /\ r.ask = toggled.ask /\ r.step = step
    BY <2>1 DEF Request
  <2> HIDE DEF r
  <2> QED
    BY <1>1, <1>2, <2>1, <2>2, <2>3, <2>4
<1>6. ASSUME NEW from \in {"read", "reread"}, NEW to \in {"update", "assign"},
             Reread(s, from, to), ~Refuse(s), requests[s].step # "update"
      PROVE  /\ requests' = [requests EXCEPT ![s] = requests'[s]]
             /\ requests'[s].id = requests[s].id /\ requests'[s].beside = requests[s].beside
             /\ requests'[s].ask = requests[s].ask /\ requests'[s].row = Task(s) /\ tasks' = tasks
  <2> DEFINE r == [requests[s] EXCEPT !.row = Task(s), !.step = to]
  <2>1. r.id = requests[s].id /\ r.beside = requests[s].beside /\ r.ask = requests[s].ask
        /\ r.row = Task(s)
    BY <1>2 DEF Request
  <2>2. requests' = [requests EXCEPT ![s] = r] /\ tasks' = tasks
    BY <1>6 DEF Reread, Put
  <2> HIDE DEF r
  <2> QED
    BY <1>2, <2>1, <2>2
<1>7. CASE Update(s)
  <2> DEFINE next == NextPart(requests[s], {"assign"})
             r == [requests[s] EXCEPT !.wrote = @ \cup requests[s].ask.names, !.step = next]
             no == [requests[s] EXCEPT !.step = "answer", !.refused = TRUE]
  <2>1. requests[s].step = "update" /\ next # "update"
    BY <1>7, NextPartIsAStep DEF Update, At
  <2>2. requests' = [requests EXCEPT ![s] = r] \/ requests' = [requests EXCEPT ![s] = no]
    BY <1>7 DEF Update, Refuse, Put
  <2> HIDE DEF next
  <2>3. /\ r.id = requests[s].id /\ r.beside = requests[s].beside /\ r.ask = requests[s].ask
        /\ r.step = next
        /\ no.id = requests[s].id /\ no.beside = requests[s].beside /\ no.ask = requests[s].ask
        /\ no.step = "answer"
    BY <1>2 DEF Request
  <2> HIDE DEF r, no
  <2> QED
    BY <1>1, <1>2, <2>1, <2>2, <2>3
<1>8. CASE Assign(s) \/ Finish(s) \/ Trash(s)
  <2> DEFINE next == NextPart(requests[s], {})
             a == [requests[s] EXCEPT !.wrote = @ \cup {"assignee"}, !.step = next]
             f == [requests[s] EXCEPT !.wrote = @ \cup {"done"}, !.step = "answer"]
             d == [requests[s] EXCEPT !.step = "answer"]
             no == [requests[s] EXCEPT !.step = "answer", !.refused = TRUE]
  <2>1. \E r \in {a, f, d, no} : requests' = [requests EXCEPT ![s] = r]
    BY <1>8 DEF Assign, Finish, Trash, Refuse, Put
  <2>2. next # "update"
    BY NextPartIsAStep
  <2> HIDE DEF next
  <2>3. \A r \in {a, f, d, no} : r.id = requests[s].id /\ r.beside = requests[s].beside
                                 /\ r.ask = requests[s].ask /\ r.step \in {next, "answer"}
    BY <1>2 DEF Request
  <2> HIDE DEF a, f, d, no
  <2>4. \A t \in Tasks : tasks'[t].columns = tasks[t].columns
    <3> DEFINE given == [Task(s) EXCEPT !.assignee = requests[s].id]
               ticked == [Task(s) EXCEPT !.done = (requests[s].ask.done = "done"),
                                         !.at = requests[s].at]
    <3>0. given.columns = Task(s).columns /\ ticked.columns = Task(s).columns
      BY <1>1, MovesOn DEF Working, TaskRow
    <3>1. CASE Assign(s)
      <4>1. tasks' = tasks \/ tasks' = [tasks EXCEPT ![requests[s].ask.task] = given]
        BY <3>1 DEF Assign, Set
      <4> HIDE DEF given
      <4> QED
        BY <1>2, <3>0, <4>1 DEF Task
    <3>2. CASE Finish(s)
      <4>1. tasks' = tasks \/ tasks' = [tasks EXCEPT ![requests[s].ask.task] = ticked]
        BY <3>2 DEF Finish, Set
      <4> HIDE DEF ticked
      <4> QED
        BY <1>2, <3>0, <4>1 DEF Task
    <3>3. CASE Trash(s)
      BY <1>2, <3>3 DEF Trash, Set, Task, TaskRow
    <3> QED
      BY <1>8, <3>1, <3>2, <3>3
  <2> QED
    BY <1>1, <1>2, <2>1, <2>2, <2>3, <2>4
<1>9. CASE TakeTime(s) \/ Answer(s)
  BY <1>1, <1>2, <1>9 DEF TakeTime, Answer, Put, Request, Working
<1>10. CASE Reread(s, "read", "update") \/ Reread(s, "reread", "assign")
  <2>1. CASE Refuse(s)
    BY <1>4, <1>10, <2>1 DEF Reread
  <2>2. requests[s].step # "update"
    BY <1>10 DEF Reread, At
  <2> QED
    BY <1>1, <1>2, <1>6, <1>10, <2>1, <2>2
<1> QED
  BY <1>4, <1>5, <1>7, <1>8, <1>9, <1>10 DEF Serve, Access

\* Every step keeps BesideKnown.
LEMMA BesideStays ==
    ASSUME TypeInv, BesideKnown, [Next]_vars
    PROVE  BesideKnown'
<1>1. ASSUME NEW s \in Slots, Serve(s)
      PROVE  BesideKnown'
  <2>1. Working' \subseteq Working
    BY <1>1, ServedKnows DEF Working
  <2>2. ASSUME NEW u \in Working'
        PROVE  requests'[u].id = requests[u].id /\ requests'[u].beside = requests[u].beside
    BY <1>1, <2>2, ServedKnows DEF Working
  <2>3. ASSUME NEW u \in Working', At(u, "update")', requests'[u].beside = {}
        PROVE  requests'[u].row.columns = Task(u)'.columns
    <3>1. u = s
      <4>1. u \in Working /\ s \in Working /\ requests[u].beside = {}
        BY <1>1, <2>1, <2>2, <2>3, ServedKnows
      <4> QED
        BY <4>1, AloneIsAlone
    <3> QED
      BY <1>1, <2>3, <3>1, ServedKnows DEF At, Task
  <2> QED
    BY <2>1, <2>2, <2>3 DEF BesideKnown
<1>2. ASSUME NEW s \in Slots, NEW ask \in Asks, Begin(s, ask)
      PROVE  BesideKnown'
  <2>1. /\ Working' = Working \cup {s} /\ s \notin Working
        /\ requests'[s].id = begun + 1 /\ requests'[s].step = "access"
        /\ requests'[s].beside = {requests[v].id : v \in Working}
    <3>1. \A v \in Working : [requests[v] EXCEPT !.beside = @ \cup {begun + 1}] # None
      <4>1. begun + 1 \in Requests
        BY <1>2, EditsConstants DEF Begin, Requests, TypeInv, TypeOK
      <4> QED
        BY <4>1, RequestIsOne, NoneIsNoRequest DEF TypeInv, Working, Request
    <3>2. requests'[s] # None
      BY <1>2, BeginTyped
    <3> QED
      BY <1>2, <3>1, <3>2 DEF Begin, Working
  <2>2. ASSUME NEW v \in Working
        PROVE  /\ requests'[v].id = requests[v].id
               /\ requests'[v].beside = requests[v].beside \cup {begun + 1}
    <3>1. requests'[v] = [requests[v] EXCEPT !.beside = @ \cup {begun + 1}]
      BY <1>2, <2>1 DEF Begin, Working
    <3> QED
      BY <3>1, RequestIsOne DEF TypeInv, Working, Request
  <2> QED
    BY <2>1, <2>2 DEF BesideKnown, At
<1>3. CASE Tick \/ SetBack \/ UNCHANGED vars
  <2>1. requests' = requests /\ tasks' = tasks
    BY <1>3 DEF Tick, SetBack, vars
  <2> QED
    BY <2>1 DEF BesideKnown, Working, At, Task
<1>4. CASE Restart
  BY <1>4 DEF Restart, BesideKnown, Working
<1> QED
  BY <1>1, <1>2, <1>3, <1>4 DEF Next

\* A request knows of every other it overlaps, and one that overlaps with none
\* writes what it read (BesideKnown).
THEOREM BesideSafe == Spec => []BesideKnown
<1>1. Init => BesideKnown
  BY DEF Init, BesideKnown, Working
<1>2. TypeInv /\ BesideKnown /\ [Next]_vars => BesideKnown'
  BY BesideStays
<1> QED
  BY <1>1, <1>2, TypeSafe, PTL DEF Spec

\* An edit that nobody else's request overlaps leaves every column it does not
\* name as it was (UpdateTask, store.go:115); overlapped ones are outside it,
\* and do lose columns.
THEOREM NilFieldsStay == Spec => NilFieldsLeftAlone
<1> DEFINE Left(s) == \A c \in Columns \ requests[s].ask.names :
                tasks'[requests[s].ask.task].columns[c] = Task(s).columns[c]
           Step == \A s \in Slots : At(s, "update") /\ Update(s)
                                    => (requests[s].beside = {} => Left(s))
<1>1. ASSUME TypeInv, BesideKnown, NEW s \in Slots, At(s, "update"), Update(s),
             requests[s].beside = {}
      PROVE  Left(s)
  <2>1. s \in Working /\ Task(s) \in TaskRow /\ requests[s].ask.task \in Tasks
    BY <1>1, MovesOn DEF At, Working
  <2>2. requests[s].row.columns = Task(s).columns
    BY <1>1, <2>1 DEF BesideKnown
  <2>3. tasks'[requests[s].ask.task] = [Task(s) EXCEPT !.columns = ColumnsOf(requests[s])]
    BY <1>1, <2>1 DEF Update, Set, TypeInv, TypeOK
  <2>4. tasks'[requests[s].ask.task].columns = ColumnsOf(requests[s])
    BY <2>1, <2>3 DEF TaskRow
  <2> QED
    BY <2>2, <2>4 DEF ColumnsOf
<1>2. TypeInv /\ BesideKnown => Step
  BY <1>1
<1>3. Spec => [][Step]_vars
  BY <1>2, TypeSafe, BesideSafe, PTL DEF Spec
<1> QED
  BY <1>3 DEF NilFieldsLeftAlone

----------------------------------------------------------------------------
(* Finish times, for as long as the server stays up.                       *)

\* A request that has its finish time and is about to write it.
Ticking(s) == At(s, "finish") /\ requests[s].ask.done = "done"

\* No finish time is beyond lastDone, and no two are alike: not those in the
\* tables, and not those that are about to be.
TimesFresh ==
    restarts = 0 =>
        /\ \A t \in Tasks : tasks[t].at <= lastDone
        /\ \A t, u \in Tasks : tasks[t].done /\ tasks[u].done /\ t # u
                               => tasks[t].at # tasks[u].at
        /\ \A s \in Working : /\ requests[s].at <= lastDone
                              /\ \A x \in requests[s].after : x <= lastDone
        /\ \A s \in Slots : Ticking(s) =>
               /\ \A t \in Tasks : requests[s].at # tasks[t].at
               /\ \A v \in Slots : Ticking(v) /\ v # s => requests[v].at # requests[s].at
               /\ \A x \in requests[s].after : requests[s].at > x

\* A step that gives no finish time, takes no request in and leaves the ticks
\* alone keeps the finish times as they are.
LEMMA FreshStays ==
    ASSUME TimesFresh, restarts' = restarts, lastDone' = lastDone,
           Working' \subseteq Working,
           \A t \in Tasks : tasks'[t].done = tasks[t].done /\ tasks'[t].at = tasks[t].at,
           \A s \in Working' : /\ requests'[s].at = requests[s].at
                               /\ requests'[s].after = requests[s].after
                               /\ Ticking(s)' => Ticking(s)
    PROVE  TimesFresh'
BY DEF TimesFresh, Ticking, At, Working

\* Only TakeTime gives a finish time out, and only Finish writes one.
LEMMA ServedQuietly ==
    ASSUME TypeInv, NEW s \in Slots, Serve(s), requests[s].step \notin {"time", "finish"}
    PROVE  /\ restarts' = restarts /\ lastDone' = lastDone
           /\ \A t \in Tasks : tasks'[t].done = tasks[t].done /\ tasks'[t].at = tasks[t].at
           /\ s \in Working' => /\ requests'[s].at = requests[s].at
                                /\ requests'[s].after = requests[s].after
                                /\ ~Ticking(s)'
<1>1. s \in Working /\ requests[s] \in Request /\ Task(s) \in TaskRow
  <2>1. s \in Working
    BY ServedKnows
  <2> QED
    BY <2>1, MovesOn DEF Working
<1>2. /\ tasks \in [Tasks -> TaskRow] /\ \A t \in Tasks : tasks[t] \in TaskRow
      /\ requests \in [Slots -> Request \cup {None}] /\ requests[s].ask \in Ask
  BY <1>1 DEF TypeInv, TypeOK, Request
<1>3. CASE Refuse(s) /\ UNCHANGED tasks /\ UNCHANGED server
  BY <1>1, <1>2, <1>3 DEF Refuse, Put, Request, Ticking, At, server
<1>4. CASE Access(s) /\ ~Refuse(s)
  <2> DEFINE toggled == IF requests[s].ask.done # "toggle" THEN requests[s]
                 ELSE [requests[s] EXCEPT !.ask.done = IF Task(s).done THEN "not done" ELSE "done"]
             step == IF requests[s].ask.trash # "no" THEN "trash"
                     ELSE NextPart(toggled, {"edit", "assign"})
             r == [toggled EXCEPT !.row = Task(s), !.step = step]
  <2>1. /\ toggled \in Request /\ toggled.at = requests[s].at
        /\ toggled.after = requests[s].after
    BY <1>1, <1>2 DEF Request, Ask
  <2>2. requests' = [requests EXCEPT ![s] = r] /\ tasks' = tasks /\ UNCHANGED server
    BY <1>4 DEF Access, Put
  <2>3. step = "finish" => toggled.ask.done # "done"
    <3> HIDE DEF toggled
    <3> QED
      BY DEF NextPart
  <2> HIDE DEF toggled, step
  <2>4. /\ r.at = toggled.at /\ r.after = toggled.after /\ r.ask = toggled.ask
        /\ r.step = step
    BY <2>1 DEF Request
  <2> HIDE DEF r
  <2> QED
    BY <1>1, <1>2, <2>1, <2>2, <2>3, <2>4 DEF Ticking, At, server
<1>5. ASSUME NEW to \in {"update", "assign"}, NEW from, Reread(s, from, to), ~Refuse(s)
      PROVE  /\ tasks' = tasks /\ UNCHANGED server
             /\ requests'[s].at = requests[s].at /\ requests'[s].after = requests[s].after
             /\ ~Ticking(s)'
  <2> DEFINE r == [requests[s] EXCEPT !.row = Task(s), !.step = to]
  <2>1. requests' = [requests EXCEPT ![s] = r] /\ tasks' = tasks /\ UNCHANGED server
    BY <1>5 DEF Reread, Put
  <2>2. r.at = requests[s].at /\ r.after = requests[s].after /\ r.step = to
    BY <1>1 DEF Request
  <2> HIDE DEF r
  <2> QED
    BY <1>1, <1>2, <2>1, <2>2 DEF Ticking, At
<1>6. CASE Update(s)
  <2> DEFINE next == NextPart(requests[s], {"assign"})
             r == [requests[s] EXCEPT !.wrote = @ \cup requests[s].ask.names, !.step = next]
             no == [requests[s] EXCEPT !.step = "answer", !.refused = TRUE]
             row == [Task(s) EXCEPT !.columns = ColumnsOf(requests[s])]
  <2>1. next = "finish" => requests[s].ask.done # "done"
    BY DEF NextPart
  <2>2. \E q \in {r, no} : requests' = [requests EXCEPT ![s] = q]
    BY <1>6 DEF Update, Refuse, Put
  <2>3. tasks' = [tasks EXCEPT ![requests[s].ask.task] = row] /\ UNCHANGED server
    BY <1>6 DEF Update, Set
  <2> HIDE DEF next
  <2>4. /\ \A q \in {r, no} : q.at = requests[s].at /\ q.after = requests[s].after
                              /\ q.ask = requests[s].ask /\ q.step \in {next, "answer"}
        /\ row.done = Task(s).done /\ row.at = Task(s).at
    BY <1>1 DEF Request, TaskRow
  <2> HIDE DEF r, no, row
  <2> QED
    BY <1>1, <1>2, <2>1, <2>2, <2>3, <2>4 DEF Ticking, At, server, Task
<1>7. CASE Assign(s) \/ Trash(s)
  <2> DEFINE next == NextPart(requests[s], {})
             r == [requests[s] EXCEPT !.wrote = @ \cup {"assignee"}, !.step = next]
             d == [requests[s] EXCEPT !.step = "answer"]
             no == [requests[s] EXCEPT !.step = "answer", !.refused = TRUE]
             given == [Task(s) EXCEPT !.assignee = requests[s].id]
             moved == [Task(s) EXCEPT !.live = (requests[s].ask.trash = "restore")]
  <2>1. next = "finish" => requests[s].ask.done # "done"
    BY DEF NextPart
  <2>2. \E q \in {r, d, no} : requests' = [requests EXCEPT ![s] = q]
    BY <1>7 DEF Assign, Trash, Refuse, Put
  <2>3. /\ \/ tasks' = tasks
           \/ \E row \in {given, moved} : tasks' = [tasks EXCEPT ![requests[s].ask.task] = row]
        /\ UNCHANGED server
    BY <1>7 DEF Assign, Trash, Set
  <2> HIDE DEF next
  <2>4. /\ \A q \in {r, d, no} : q.at = requests[s].at /\ q.after = requests[s].after
                                 /\ q.ask = requests[s].ask /\ q.step \in {next, "answer"}
        /\ \A row \in {given, moved} : row.done = Task(s).done /\ row.at = Task(s).at
    BY <1>1 DEF Request, TaskRow
  <2> HIDE DEF r, d, no, given, moved
  <2> QED
    BY <1>1, <1>2, <2>1, <2>2, <2>3, <2>4 DEF Ticking, At, server, Task
<1>8. CASE Answer(s)
  BY <1>2, <1>8 DEF Answer, Working, server
<1>9. CASE Reread(s, "read", "update") \/ Reread(s, "reread", "assign")
  <2>1. CASE Refuse(s)
    BY <1>3, <1>9, <2>1 DEF Reread, server
  <2>2. CASE ~Refuse(s)
    BY <1>5, <1>9, <2>2 DEF server
  <2> QED
    BY <2>1, <2>2
<1>10. ~TakeTime(s) /\ ~Finish(s)
  BY DEF TakeTime, Finish, At
<1> QED
  BY <1>3, <1>4, <1>6, <1>7, <1>8, <1>9, <1>10 DEF Serve, Access, server

\* SetDone's UPDATE gives a task a time nobody else has.
LEMMA FinishFresh ==
    ASSUME TypeInv, PartsKnown, TimesFresh, NEW s \in Slots, Finish(s)
    PROVE  TimesFresh'
<1> DEFINE r == [requests[s] EXCEPT !.wrote = @ \cup {"done"}, !.step = "answer"]
           no == [requests[s] EXCEPT !.step = "answer", !.refused = TRUE]
           row == [Task(s) EXCEPT !.done = (requests[s].ask.done = "done"), !.at = requests[s].at]
<1>1. /\ s \in Working /\ requests[s] \in Request /\ Task(s) \in TaskRow
      /\ requests[s].ask.task \in Tasks /\ KnowsParts(requests[s])
  BY MovesOn DEF Finish, At, Working, PartsKnown
<1>2. tasks \in [Tasks -> TaskRow] /\ requests \in [Slots -> Request \cup {None}]
  BY DEF TypeInv, TypeOK
<1>3. ASSUME NEW q \in {r, no}
      PROVE  q.step = "answer" /\ q.at = requests[s].at /\ q.after = requests[s].after
  BY <1>1, <1>3 DEF Request
<1>4. \E q \in {r, no} : requests' = [requests EXCEPT ![s] = q]
  BY DEF Finish, Refuse, Put
<1>5. row.at = requests[s].at /\ row.done = (requests[s].ask.done = "done")
  BY <1>1 DEF TaskRow
<1>6. tasks' = tasks \/ tasks' = [tasks EXCEPT ![requests[s].ask.task] = row]
  BY DEF Finish, Set
<1>7. restarts' = restarts /\ lastDone' = lastDone
  BY DEF Finish, server
<1> HIDE DEF r, no, row
<1>8. /\ Working' \subseteq Working
      /\ \A v \in Working' : /\ requests'[v].at = requests[v].at
                             /\ requests'[v].after = requests[v].after
                             /\ Ticking(v)' => Ticking(v) /\ v # s
  BY <1>1, <1>2, <1>3, <1>4 DEF Working, Ticking, At
<1>9. CASE tasks' = tasks
  BY <1>7, <1>8, <1>9, FreshStays
<1>10. CASE restarts = 0 /\ tasks' = [tasks EXCEPT ![requests[s].ask.task] = row]
  <2>1. ~row.done => requests[s].at = Never
    BY <1>1, <1>5 DEF At, Finish, KnowsParts, Request, Ask
  <2>2. Ticking(s) <=> row.done
    BY <1>5 DEF Ticking, At, Finish
  <2>3. ASSUME NEW t \in Tasks
        PROVE  \/ tasks'[t] = tasks[t] /\ t # requests[s].ask.task
               \/ tasks'[t].at = requests[s].at /\ tasks'[t].done = row.done
                  /\ t = requests[s].ask.task
    BY <1>2, <1>5, <1>10
  <2>4. \A t \in Tasks : tasks'[t].at <= lastDone
    BY <1>1, <1>10, <2>3 DEF TimesFresh
  <2>5. \A t, u \in Tasks : tasks'[t].done /\ tasks'[u].done /\ t # u
                            => tasks'[t].at # tasks'[u].at
    BY <1>10, <2>1, <2>2, <2>3 DEF TimesFresh
  <2>6. ASSUME NEW v \in Slots, Ticking(v)', NEW t \in Tasks
        PROVE  requests'[v].at # tasks'[t].at
    <3>1. Ticking(v) /\ v # s /\ v \in Working /\ requests'[v].at = requests[v].at
      BY <1>8, <2>6 DEF Ticking, At, Working
    <3>2. requests[v].at # Never
      BY <3>1 DEF PartsKnown, KnowsParts, Ticking, At
    <3> QED
      BY <1>10, <2>1, <2>2, <2>3, <3>1, <3>2 DEF TimesFresh
  <2>7. /\ \A v \in Working' : /\ requests'[v].at <= lastDone
                               /\ \A x \in requests'[v].after : x <= lastDone
        /\ \A v \in Slots : Ticking(v)' =>
               /\ \A u \in Slots : Ticking(u)' /\ u # v => requests'[u].at # requests'[v].at
               /\ \A x \in requests'[v].after : requests'[v].at > x
    BY <1>8, <1>10 DEF TimesFresh, Ticking, At, Working
  <2> QED
    BY <1>7, <2>4, <2>5, <2>6, <2>7 DEF TimesFresh, Ticking, At
<1> QED
  BY <1>6, <1>7, <1>9, <1>10 DEF TimesFresh

\* A new finish time is later than all that are there or on their way.
LEMMA TakeTimeFresh ==
    ASSUME TypeInv, PartsKnown, TimesFresh, NEW s \in Slots, TakeTime(s)
    PROVE  TimesFresh'
<1> DEFINE r == [requests[s] EXCEPT !.at = lastDone', !.step = "finish"]
<1>1. /\ s \in Working /\ requests[s] \in Request /\ KnowsParts(requests[s])
      /\ tasks \in [Tasks -> TaskRow] /\ requests \in [Slots -> Request \cup {None}]
  BY MovesOn DEF TakeTime, At, Working, PartsKnown, TypeInv, TypeOK
<1>2. lastDone \in Nat /\ lastDone' \in Nat /\ lastDone' > lastDone
  BY FinishTimeBounds, EditsConstants DEF TakeTime, TypeInv, TypeOK, Times, Never
<1>3. r.at = lastDone' /\ r.after = requests[s].after /\ r.ask = requests[s].ask
  BY <1>1 DEF Request
<1>4. requests' = [requests EXCEPT ![s] = r] /\ tasks' = tasks /\ restarts' = restarts
  BY DEF TakeTime, Put
<1> HIDE DEF r
<1>5. /\ requests'[s].at = lastDone' /\ requests'[s].after = requests[s].after
      /\ Working' \subseteq Working
      /\ \A v \in Slots \ {s} : requests'[v] = requests[v]
  BY <1>1, <1>3, <1>4 DEF Working
<1>6. ASSUME restarts = 0
      PROVE  /\ \A t \in Tasks : tasks[t].at < lastDone'
             /\ \A v \in Working : /\ requests[v].at < lastDone'
                                   /\ \A x \in requests[v].after : x < lastDone'
  <2>1. \A t \in Tasks : tasks[t].at \in Nat
    BY <1>1, EditsConstants DEF TaskRow, Times, Never
  <2>2. \A v \in Working : requests[v].at \in Nat /\ requests[v].after \subseteq Nat
    BY RequestIsOne, EditsConstants DEF TypeInv, Working, Request, Times, Never
  <2> QED
    BY <1>2, <1>6, <2>1, <2>2 DEF TimesFresh
<1>7. \A v \in Slots \ {s} : Ticking(v)' <=> Ticking(v)
  BY <1>5 DEF Ticking, At
<1>8. ASSUME restarts = 0
      PROVE  TimesFresh'
  <2>1. \A t \in Tasks : tasks'[t].at <= lastDone'
    BY <1>1, <1>2, <1>4, <1>6, <1>8, EditsConstants DEF TaskRow, Times, Never
  <2>2. \A t, u \in Tasks : tasks'[t].done /\ tasks'[u].done /\ t # u
                            => tasks'[t].at # tasks'[u].at
    BY <1>4, <1>8 DEF TimesFresh
  <2>3. ASSUME NEW v \in Working'
        PROVE  /\ requests'[v].at <= lastDone'
               /\ \A x \in requests'[v].after : x <= lastDone'
    <3>1. v \in Working /\ requests[v].at \in Nat /\ requests[v].after \subseteq Nat
      BY <1>5, <2>3, RequestIsOne, EditsConstants DEF TypeInv, Working, Request, Times, Never
    <3> QED
      BY <1>2, <1>5, <1>6, <1>8, <3>1 DEF Working
  <2>4. ASSUME NEW v \in Slots, Ticking(v)'
        PROVE  /\ \A t \in Tasks : requests'[v].at # tasks'[t].at
               /\ \A x \in requests'[v].after : requests'[v].at > x
    <3>1. CASE v = s
      <4>1. /\ \A t \in Tasks : tasks[t].at \in Nat
            /\ \A x \in requests[s].after : x \in Nat
        BY <1>1, EditsConstants DEF TaskRow, Request, Times, Never
      <4> QED
        BY <1>1, <1>2, <1>4, <1>5, <1>6, <1>8, <3>1, <4>1
    <3>2. CASE v # s
      BY <1>4, <1>5, <1>7, <1>8, <2>4, <3>2 DEF TimesFresh
    <3> QED
      BY <3>1, <3>2
  <2>5. ASSUME NEW v \in Slots, NEW u \in Slots, Ticking(v)', Ticking(u)', u # v
        PROVE  requests'[u].at # requests'[v].at
    <3>1. \A w \in Slots \ {s} : Ticking(w)' =>
              requests'[w].at = requests[w].at /\ requests[w].at # lastDone'
      <4>1. ASSUME NEW w \in Slots \ {s}, Ticking(w)'
            PROVE  w \in Working /\ requests[w].at \in Nat
        BY <1>7, <4>1, RequestIsOne, EditsConstants
           DEF TypeInv, Ticking, At, Working, Request, Times, Never
      <4> QED
        BY <1>2, <1>5, <1>6, <1>8, <4>1
    <3> QED
      BY <1>5, <1>7, <1>8, <2>5, <3>1 DEF TimesFresh
  <2> QED
    BY <2>1, <2>2, <2>3, <2>4, <2>5 DEF TimesFresh
<1> QED
  BY <1>4, <1>8 DEF TimesFresh

\* Whoever comes in sees no time later than lastDone.
LEMMA BeginFresh ==
    ASSUME TypeInv, TimesFresh, NEW s \in Slots, NEW ask \in Asks, Begin(s, ask)
    PROVE  TimesFresh'
<1> DEFINE more(v) == [requests[v] EXCEPT !.beside = @ \cup {begun + 1}]
<1>1. /\ requests'[s].step = "access" /\ requests'[s].at = Never
      /\ requests'[s].after = {tasks[t].at : t \in Tasks}
      /\ tasks' = tasks /\ restarts' = restarts /\ lastDone' = lastDone
  BY DEF Begin
<1>2. ASSUME NEW v \in Slots \ {s}, v \in Working \/ v \in Working'
      PROVE  v \in Working /\ requests'[v] = more(v)
  BY <1>2 DEF Begin, Working
<1>3. ASSUME NEW v \in Slots \ {s}, v \in Working
      PROVE  /\ more(v).at = requests[v].at /\ more(v).after = requests[v].after
             /\ more(v).step = requests[v].step /\ more(v).ask = requests[v].ask
  BY <1>3, RequestIsOne DEF TypeInv, Working, Request
<1> HIDE DEF more
<1>4. ASSUME NEW v \in Slots, Ticking(v)'
      PROVE  /\ v \in Slots \ {s} /\ Ticking(v)
             /\ requests'[v].at = requests[v].at /\ requests'[v].after = requests[v].after
  BY <1>1, <1>2, <1>3, <1>4 DEF Ticking, At, Working
<1>5. ASSUME restarts = 0, NEW v \in Working'
      PROVE  requests'[v].at <= lastDone /\ \A x \in requests'[v].after : x <= lastDone
  <2>1. CASE v = s
    <3>1. lastDone \in Nat
      BY EditsConstants DEF TypeInv, TypeOK, Times, Never
    <3> QED
      BY <1>1, <1>5, <2>1, <3>1 DEF TimesFresh, Never
  <2>2. CASE v # s
    BY <1>2, <1>3, <1>5, <2>2 DEF TimesFresh, Working
  <2> QED
    BY <2>1, <2>2
<1>6. ASSUME restarts = 0
      PROVE  \A v \in Slots : Ticking(v)' =>
               /\ \A t \in Tasks : requests'[v].at # tasks'[t].at
               /\ \A u \in Slots : Ticking(u)' /\ u # v => requests'[u].at # requests'[v].at
               /\ \A x \in requests'[v].after : requests'[v].at > x
  BY <1>1, <1>4, <1>6 DEF TimesFresh
<1>7. restarts = 0 => /\ \A t \in Tasks : tasks'[t].at <= lastDone'
                      /\ \A t, u \in Tasks : tasks'[t].done /\ tasks'[u].done /\ t # u
                                             => tasks'[t].at # tasks'[u].at
  BY <1>1 DEF TimesFresh
<1> QED
  BY <1>1, <1>5, <1>6, <1>7 DEF TimesFresh

\* Every step keeps TimesFresh.
LEMMA FreshKept ==
    ASSUME TypeInv, PartsKnown, TimesFresh, [Next]_vars
    PROVE  TimesFresh'
<1>1. ASSUME NEW s \in Slots, Serve(s)
      PROVE  TimesFresh'
  <2>1. CASE requests[s].step \notin {"time", "finish"}
    <3>1. /\ Working' \subseteq Working
          /\ \A v \in Working' : /\ requests'[v].at = requests[v].at
                                 /\ requests'[v].after = requests[v].after
                                 /\ Ticking(v)' => Ticking(v)
      BY <1>1, <2>1, ServedKnows, ServedQuietly DEF Working, Ticking, At
    <3> QED
      BY <1>1, <2>1, <3>1, ServedQuietly, FreshStays
  <2>2. CASE requests[s].step \in {"time", "finish"}
    BY <1>1, <2>2, TakeTimeFresh, FinishFresh
       DEF Serve, Access, Reread, Update, Assign, Trash, Answer, At
  <2> QED
    BY <2>1, <2>2
<1>2. ASSUME NEW s \in Slots, NEW ask \in Asks, Begin(s, ask)
      PROVE  TimesFresh'
  BY <1>2, BeginFresh
<1>3. CASE Tick \/ SetBack \/ UNCHANGED vars
  <2>1. /\ requests' = requests /\ tasks' = tasks /\ lastDone' = lastDone
        /\ restarts' = restarts
    BY <1>3 DEF Tick, SetBack, vars, server
  <2> QED
    BY <2>1 DEF TimesFresh, Working, Ticking, At
<1>4. CASE Restart
  <2>1. restarts' # 0
    BY <1>4, EditsConstants DEF Restart, TypeInv, TypeOK
  <2> QED
    BY <2>1 DEF TimesFresh
<1> QED
  BY <1>1, <1>2, <1>3, <1>4 DEF Next

\* While the server stays up, lastDone is as late as any finish time, and no two
\* of them are the same, committed or on their way (TimesFresh).
THEOREM FreshSafe == Spec => []TimesFresh
<1>1. Init => TimesFresh
  BY DEF Init, TimesFresh, Working, Ticking, At, NewTask, Never
<1>2. TypeInv /\ PartsKnown /\ TimesFresh /\ [Next]_vars => TimesFresh'
  BY FreshKept
<1> QED
  BY <1>1, <1>2, TypeSafe, PartsSafe, PTL DEF Spec

\* "two ticked in the same instant ... must still get different ones"
\* (store.go:127-128): finished tasks have different finish times, whatever the
\* clock does, for as long as the server stays up.
THEOREM TimesDiffer == Spec => []FinishTimesDiffer
<1>1. TimesFresh => FinishTimesDiffer
  BY DEF TimesFresh, FinishTimesDiffer
<1> QED
  BY <1>1, FreshSafe, PTL

\* "most recently finished first": a tick that begins when others have been made
\* gets a later finish time than any of them (finishTime, store.go).
THEOREM LaterIsLater == Spec => FinishedInOrder
<1> DEFINE Later(s) ==
        LET t == requests[s].ask.task IN
        Finish(s) /\ tasks'[t].done => \A x \in requests[s].after : tasks'[t].at > x
           Step == \A s \in Slots : At(s, "finish") /\ Task(s).live /\ restarts = 0 => Later(s)
<1>1. ASSUME TypeInv, TimesFresh, NEW s \in Slots, At(s, "finish"), Task(s).live, restarts = 0
      PROVE  Later(s)
  <2> DEFINE row == [Task(s) EXCEPT !.done = (requests[s].ask.done = "done"),
                                    !.at = requests[s].at]
  <2> SUFFICES ASSUME Finish(s), tasks'[requests[s].ask.task].done,
                      NEW x \in requests[s].after
               PROVE  tasks'[requests[s].ask.task].at > x
    OBVIOUS
  <2>1. tasks'[requests[s].ask.task] = row
    BY <1>1, MovesOn DEF Finish, Set, At, TypeInv, TypeOK
  <2>2. row.at = requests[s].at /\ row.done = (requests[s].ask.done = "done")
    BY <1>1, MovesOn DEF At, TaskRow
  <2> HIDE DEF row
  <2>3. Ticking(s)
    BY <1>1, <2>1, <2>2 DEF Ticking
  <2> QED
    BY <1>1, <2>1, <2>2, <2>3 DEF TimesFresh
<1>2. TypeInv /\ TimesFresh => Step
  BY <1>1
<1>3. Spec => [][Step]_vars
  BY <1>2, TypeSafe, FreshSafe, PTL DEF Spec
<1> QED
  BY <1>3 DEF FinishedInOrder

=============================================================================
