----------------------------- MODULE PushProofs -----------------------------
(***************************************************************************)
(* What Push guarantees for any number of people, browsers and servers:    *)
(* types, the keys (KeysKept), whose a browser is, and that the limit on   *)
(* browsers never makes the one go that was just saved.                    *)
(***************************************************************************)
EXTENDS Push, FiniteSetTheorems, SequenceTheorems, TLAPS

----------------------------------------------------------------------------
(* Types, one part for each group of variables.                            *)

RowsOK == /\ row \in [Browsers -> Row \cup {None}] /\ saves \in 0 .. MaxSaves
          /\ clock \in 0 .. MaxTime
          /\ lastOn \in [Browsers -> People \cup {None}]
KeysOK == /\ keys \in Pair /\ pair \in [Servers -> Pair]
          /\ step \in [Servers -> {"off", "making", "up"}]
          /\ tied \in [Browsers -> Servers \cup {None}]
QueueOK == /\ queue \in [Servers -> Seq(SUBSET People)]
           /\ \A s \in Servers : Len(queue[s]) <= QueueCap
           /\ job \in [Servers -> Job]
           /\ telling \in Telling \cup {None}
           /\ messages \in 0 .. MaxMessages

\* A row of a browser, and the tables after it.
LEMMA RowsStay ==
    ASSUME RowsOK, [Next]_vars
    PROVE  RowsOK'
<1>1. ASSUME NEW b \in Browsers, NEW p \in People, On(b, p)
      PROVE  RowsOK'
  <2> DEFINE new == [of |-> p, made |-> clock, id |-> saves']
             r == IF row[b] = None THEN new ELSE TakenOver(b, p)
             saved == [row EXCEPT ![b] = r]
  <2>1. row[b] # None => row[b] \in Row
    BY DEF RowsOK
  <2>2. row[b] = None => saves' \in 1 .. MaxSaves
    BY <1>1, PushConstants DEF On, RowsOK
  <2>3. r \in Row
    BY <2>1, <2>2 DEF RowsOK, Row, TakenOver
  <2>4. row' = [c \in Browsers |-> IF c \in Oldest(saved, b) THEN None ELSE saved[c]]
    BY <1>1 DEF On, TakenOver
  <2> HIDE DEF r
  <2>5. row' \in [Browsers -> Row \cup {None}]
    BY <2>3, <2>4 DEF RowsOK
  <2>6. saves' \in 0 .. MaxSaves
    BY <1>1, <2>2, PushConstants DEF On, RowsOK
  <2>7. clock' = clock /\ lastOn' \in [Browsers -> People \cup {None}]
    BY <1>1 DEF On, RowsOK, bounds
  <2> QED
    BY <2>5, <2>6, <2>7 DEF RowsOK
<1>2. ASSUME NEW b \in Browsers, NEW p \in People, Off(b, p)
      PROVE  RowsOK'
  BY <1>2 DEF Off, Removed, RowsOK, bounds
<1>3. ASSUME NEW s \in Servers, Forget(s)
      PROVE  RowsOK'
  BY <1>3 DEF Forget, Forgotten, RowsOK, bounds
<1>4. CASE Tick
  <2>1. clock' \in 0 .. MaxTime
    BY <1>4, PushConstants DEF Tick, RowsOK
  <2> QED
    BY <1>4, <2>1 DEF Tick, RowsOK, database
<1>5. CASE UNCHANGED <<row, saves, clock, lastOn>>
  BY <1>5 DEF RowsOK
<1>6. ASSUME NEW s \in Servers, Start(s) \/ Keep(s) \/ Stop(s) \/ Take(s) \/ Look(s) \/ Send(s)
      PROVE  UNCHANGED <<row, saves, clock, lastOn>>
  BY <1>6 DEF Start, Keep, Stop, Take, Look, Send, database, bounds
<1> QED
  BY <1>1, <1>2, <1>3, <1>4, <1>5, <1>6
     DEF Next, Unsubscribe, Prefer, Test, Do, Choose, Queue, database, bounds, vars

\* Every step keeps the types of the keys,
LEMMA KeysStay ==
    ASSUME KeysOK, [Next]_vars
    PROVE  KeysOK'
<1>1. ASSUME NEW b \in Browsers, NEW p \in People, On(b, p)
      PROVE  KeysOK'
  <2>1. tied' \in [Browsers -> Servers \cup {None}]
    <3>1. \A s \in Servers : pair[s].public \in Servers \cup {None}
      BY DEF KeysOK, Pair
    <3> QED
      BY <1>1, <3>1, PushConstants DEF On, KeysOK
  <2> QED
    BY <1>1, <2>1 DEF On, KeysOK
<1>2. ASSUME NEW s \in Servers, Start(s) \/ Keep(s) \/ Stop(s)
      PROVE  KeysOK'
  <2>1. Kept(s) \in Pair /\ NoPair \in Pair
    BY DEF Kept, KeysOK, Pair, NoPair
  <2> QED
    BY <1>2, <2>1 DEF Start, Keep, Stop, KeysOK, database
<1>3. CASE UNCHANGED <<keys, pair, step, tied>>
  BY <1>3 DEF KeysOK
<1>4. ASSUME NEW s \in Servers, Take(s) \/ Look(s) \/ Send(s) \/ Forget(s)
      PROVE  UNCHANGED <<keys, pair, step, tied>>
  BY <1>4 DEF Take, Look, Send, Forget, database
<1>5. ASSUME NEW b \in Browsers, NEW p \in People, Off(b, p)
      PROVE  UNCHANGED <<keys, pair, step, tied>>
  BY <1>5 DEF Off
<1> QED
  BY <1>1, <1>2, <1>3, <1>4, <1>5
     DEF Next, Unsubscribe, Prefer, Test, Do, Choose, Queue, Tick, database, vars

\* A message more in a queue, if there is room.
LEMMA PutFits ==
    ASSUME QueueOK, NEW s \in Servers, NEW to \in SUBSET People
    PROVE  /\ Put(s, to) \in [Servers -> Seq(SUBSET People)]
           /\ \A v \in Servers : Len(Put(s, to)[v]) <= QueueCap
<1>1. queue[s] \in Seq(SUBSET People)
  BY DEF QueueOK
<1>2. /\ Append(queue[s], to) \in Seq(SUBSET People)
      /\ Len(Append(queue[s], to)) = Len(queue[s]) + 1 /\ Len(queue[s]) \in Nat
  BY <1>1, AppendProperties, LenProperties
<1> QED
  BY <1>2, PushConstants DEF Put, QueueOK

\* those of the queues,
LEMMA QueueStays ==
    ASSUME QueueOK, [Next]_vars
    PROVE  QueueOK'
<1>1. ASSUME NEW s \in Servers, Stop(s)
      PROVE  QueueOK'
  <2>1. <<>> \in Seq(SUBSET People) /\ Len(<<>>) = 0
    BY EmptySeq
  <2>2. NoJob \in Job
    BY DEF NoJob, Job
  <2>3. queue' \in [Servers -> Seq(SUBSET People)] /\ \A v \in Servers : Len(queue'[v]) <= QueueCap
    BY <1>1, <2>1, PushConstants DEF Stop, QueueOK
  <2> QED
    BY <1>1, <2>2, <2>3 DEF Stop, QueueOK, bounds
<1>2. ASSUME NEW s \in Servers, Take(s)
      PROVE  QueueOK'
  <2>1. queue[s] \in Seq(SUBSET People) /\ queue[s] # <<>> /\ Len(queue[s]) <= QueueCap
    BY <1>2 DEF Take, QueueOK
  <2>2. /\ Head(queue[s]) \in SUBSET People /\ Tail(queue[s]) \in Seq(SUBSET People)
        /\ Len(Tail(queue[s])) = Len(queue[s]) - 1 /\ Len(queue[s]) \in Nat
    BY <2>1, HeadTailProperties, LenProperties
  <2>3. Len(Tail(queue[s])) <= QueueCap
    BY <2>1, <2>2, PushConstants
  <2>4. queue' = [queue EXCEPT ![s] = Tail(queue[s])]
    BY <1>2 DEF Take
  <2>5. queue' \in [Servers -> Seq(SUBSET People)] /\ \A v \in Servers : Len(queue'[v]) <= QueueCap
    BY <2>2, <2>3, <2>4 DEF QueueOK
  <2>6. job' \in [Servers -> Job]
    BY <1>2, <2>2 DEF Take, QueueOK, Job
  <2> QED
    BY <1>2, <2>5, <2>6 DEF Take, QueueOK, bounds
<1>3. ASSUME NEW s \in Servers, Look(s) \/ Send(s) \/ Forget(s)
      PROVE  QueueOK'
  <2>1. job[s] \in Job
    BY DEF QueueOK
  <2>2. CASE Look(s)
    <3>1. PICK p \in job[s].left :
              job' = [job EXCEPT ![s].left = @ \ {p}, ![s].found = @ \cup ({p} \X Of(p))]
      BY <2>2 DEF Look
    <3> DEFINE left == job[s].left \ {p}
               found == job[s].found \cup ({p} \X Of(p))
               j == [job[s] EXCEPT !.left = left, !.found = found]
    <3>2. p \in People /\ Of(p) \subseteq Browsers
      BY <2>1 DEF Job, Of
    <3>3. left \subseteq People /\ found \subseteq People \X Browsers
      BY <2>1, <3>2 DEF Job
    <3>4. job' = [job EXCEPT ![s].left = left, ![s].found = found]
      BY <2>1, <3>1 DEF QueueOK, Job
    <3> HIDE DEF left, found
    <3>5. j \in Job
      BY <2>1, <3>3 DEF Job
    <3>6. job' = [job EXCEPT ![s] = j]
      BY <2>1, <3>4 DEF QueueOK
    <3> QED
      BY <2>2, <3>5, <3>6 DEF Look, QueueOK, bounds
  <2>3. CASE Send(s)
    <3>1. PICK x \in job[s].found :
              \/ job' = [job EXCEPT ![s].found = Unsent(@, x, FALSE), ![s].gone = x[2]]
              \/ \E reached \in BOOLEAN : job' = [job EXCEPT ![s].found = Unsent(@, x, reached)]
      BY <2>3 DEF Send
    <3> DEFINE j(gone) == [left |-> job[s].left, found |-> job[s].found \ {x}, gone |-> gone]
    <3>2. x[2] \in Browsers
      BY <2>1 DEF Job
    <3>3. j(x[2]) \in Job /\ j(job[s].gone) \in Job
      BY <2>1, <3>2 DEF Job
    <3>4. job' = [job EXCEPT ![s] = j(x[2])] \/ job' = [job EXCEPT ![s] = j(job[s].gone)]
      BY <2>1, <3>1 DEF Unsent, QueueOK, Job
    <3> QED
      BY <2>3, <3>3, <3>4 DEF Send, QueueOK, bounds
  <2>4. CASE Forget(s)
    BY <2>1, <2>4 DEF Forget, QueueOK, Job, bounds
  <2> QED
    BY <1>3, <2>2, <2>3, <2>4
<1>4. ASSUME NEW s \in Serving, NEW p \in People, Test(s, p)
      PROVE  QueueOK'
  <2>1. s \in Servers /\ queue' = Put(s, {p})
    BY <1>4, PushConstants DEF Test
  <2>2. messages' \in 0 .. MaxMessages
    BY <1>4, PushConstants DEF Test, QueueOK
  <2>3. queue' \in [Servers -> Seq(SUBSET People)] /\ \A v \in Servers : Len(queue'[v]) <= QueueCap
    BY <2>1, PutFits
  <2> QED
    BY <1>4, <2>2, <2>3 DEF Test, QueueOK
<1>5. ASSUME NEW s \in Serving, NEW by \in People, NEW only \in People \cup {None},
             Do(s, by, only)
      PROVE  QueueOK'
  <2>1. messages' \in 0 .. MaxMessages
    BY <1>5, PushConstants DEF Do, QueueOK
  <2>2. telling' \in Telling
    BY <1>5, PushConstants DEF Do, Telling
  <2> QED
    BY <1>5, <2>1, <2>2 DEF Do, QueueOK
<1>6. CASE Choose
  <2>1. telling \in Telling /\ Asking(telling.among) \subseteq People
    BY <1>6 DEF Choose, QueueOK, Asking, Telling
  <2>2. telling' \in Telling \cup {None}
    BY <1>6, <2>1 DEF Choose, Telling
  <2> QED
    BY <1>6, <2>2 DEF Choose, QueueOK, bounds
<1>7. CASE Queue
  <2>1. telling.at \in Servers /\ telling.to \in SUBSET People /\ queue' = Put(telling.at, telling.to)
    BY <1>7 DEF Queue, QueueOK, Telling
  <2>2. queue' \in [Servers -> Seq(SUBSET People)] /\ \A v \in Servers : Len(queue'[v]) <= QueueCap
    BY <2>1, PutFits
  <2> QED
    BY <1>7, <2>2 DEF Queue, QueueOK, bounds
<1>8. CASE UNCHANGED <<queue, job, telling, messages>>
  BY <1>8 DEF QueueOK
<1>9. ASSUME NEW b \in Browsers, NEW p \in People,
             On(b, p) \/ Off(b, p)
      PROVE  UNCHANGED <<queue, job, telling, messages>>
  BY <1>9 DEF On, Off, bounds
<1>10. ASSUME NEW s \in Servers, Start(s) \/ Keep(s)
       PROVE  UNCHANGED <<queue, job, telling, messages>>
  BY <1>10 DEF Start, Keep, bounds
<1> QED
  BY <1>1, <1>2, <1>3, <1>4, <1>5, <1>6, <1>7, <1>8, <1>9, <1>10
     DEF Next, Unsubscribe, Prefer, Tick, bounds, vars

TypeInv == TypeOK /\ RowsOK /\ KeysOK /\ QueueOK

\* and all the others.
LEMMA TypeInvStays ==
    ASSUME TypeInv, [Next]_vars
    PROVE  TypeInv'
<1>1. RowsOK' /\ KeysOK' /\ QueueOK'
  BY RowsStay, KeysStay, QueueStays DEF TypeInv
<1>2. wanting' \subseteq People /\ alive' \subseteq Browsers
  <2>1. wanting \subseteq People /\ alive \subseteq Browsers
    BY DEF TypeInv, TypeOK
  <2>2. ASSUME NEW p \in People, Prefer(p)
        PROVE  wanting' \subseteq People /\ alive' \subseteq Browsers
    BY <2>1, <2>2 DEF Prefer
  <2>3. ASSUME NEW b \in Browsers, Unsubscribe(b)
        PROVE  wanting' \subseteq People /\ alive' \subseteq Browsers
    BY <2>1, <2>3 DEF Unsubscribe, database
  <2>4. ASSUME NEW s \in Servers, Start(s) \/ Keep(s) \/ Stop(s) \/ Take(s) \/ Look(s)
                                  \/ Send(s) \/ Forget(s)
        PROVE  UNCHANGED <<wanting, alive>>
    BY <2>4 DEF Start, Keep, Stop, Take, Look, Send, Forget, database
  <2>5. ASSUME NEW b \in Browsers, NEW p \in People, On(b, p) \/ Off(b, p)
        PROVE  UNCHANGED <<wanting, alive>>
    BY <2>5 DEF On, Off
  <2> QED
    BY <2>1, <2>2, <2>3, <2>4, <2>5
       DEF Next, Test, Do, Choose, Queue, Tick, database, vars
<1> QED
  BY <1>1, <1>2 DEF TypeInv, TypeOK, RowsOK, KeysOK, QueueOK

\* Types hold at the start.
LEMMA TypeInvStarts ==
    ASSUME Init
    PROVE  TypeInv
<1>1. <<>> \in Seq(SUBSET People) /\ Len(<<>>) = 0
  BY EmptySeq
<1>2. NoPair \in Pair /\ NoJob \in Job
  BY DEF NoPair, Pair, NoJob, Job
<1> QED
  BY <1>1, <1>2, PushConstants DEF Init, TypeInv, TypeOK, RowsOK, KeysOK, QueueOK

\* Every table, queue and job holds values of its kind; above all no queue is
\* ever longer than QueueCap, whichever of several servers fills it
\* (Sender.Notify, push.go).
THEOREM TypeSafe == Spec => []TypeInv
<1>1. Init => TypeInv
  BY TypeInvStarts
<1>2. TypeInv /\ [Next]_vars => TypeInv'
  BY TypeInvStays
<1> QED
  BY <1>1, <1>2, PTL DEF Spec

\* Every table, queue and job holds values of its kind (TypeOK).
THEOREM TypesHold == Spec => []TypeOK
<1>1. TypeInv => TypeOK
  BY DEF TypeInv
<1> QED
  BY <1>1, TypeSafe, PTL

----------------------------------------------------------------------------
(* The keys.                                                               *)

\* There is one pair, made once; servers that are up have it, and so has
\* every browser that was ever subscribed.
KeysKept ==
    /\ keys.private = keys.public
    /\ \A s \in Servers : Up(s) => pair[s] = keys /\ keys.public # None
    /\ \A b \in Browsers : /\ tied[b] # None => tied[b] = keys.public
                           /\ row[b] # None => tied[b] # None

\* Every step keeps KeysKept: Keep reads back what is in the database.
LEMMA KeysKeptStays ==
    ASSUME TypeInv, KeysKept, [Next]_vars
    PROVE  KeysKept'
<1>1. KeysOK /\ RowsOK
  BY DEF TypeInv
<1>2. ASSUME NEW s \in Servers, Start(s)
      PROVE  KeysKept'
  BY <1>1, <1>2 DEF Start, Up, KeysKept, KeysOK, database
<1>3. ASSUME NEW s \in Servers, Keep(s)
      PROVE  KeysKept'
  <2>1. /\ keys' = Kept(s) /\ s # None
        /\ row' = row /\ tied' = tied
        /\ step' = [step EXCEPT ![s] = "up"] /\ pair' = [pair EXCEPT ![s] = keys']
    BY <1>3, PushConstants DEF Keep
  <2>2. CASE keys.public = None
    BY <1>1, <2>1, <2>2 DEF Kept, Up, KeysKept, KeysOK, RowsOK
  <2>3. CASE keys.public # None
    <3>1. keys' = keys
      BY <1>1, <2>1, <2>3 DEF Kept, KeysKept, KeysOK, Pair
    <3> QED
      BY <1>1, <2>1, <2>3, <3>1 DEF Up, KeysKept, KeysOK
  <2> QED
    BY <2>2, <2>3
<1>4. ASSUME NEW s \in Servers, Stop(s)
      PROVE  KeysKept'
  BY <1>1, <1>4 DEF Stop, Up, KeysKept, KeysOK, database
<1>5. ASSUME NEW b \in Browsers, NEW p \in People, On(b, p)
      PROVE  KeysKept'
  <2>1. /\ \A c \in Browsers \ {b} : row'[c] # None => row[c] # None
        /\ UNCHANGED <<keys, step, pair>>
    BY <1>1, <1>5 DEF On, RowsOK
  <2>2. tied[b] # None => tied' = tied
    BY <1>5 DEF On
  <2>3. tied[b] = None => \E s \in Servers : Up(s) /\ tied' = [tied EXCEPT ![b] = pair[s].public]
    BY <1>5, PushConstants DEF On
  <2> QED
    BY <1>1, <2>1, <2>2, <2>3 DEF Up, KeysKept, KeysOK
<1>6. ASSUME NEW b \in Browsers, NEW p \in People, Off(b, p)
      PROVE  KeysKept'
  BY <1>1, <1>6 DEF Off, Removed, Up, KeysKept, RowsOK
<1>7. ASSUME NEW s \in Servers, Forget(s)
      PROVE  KeysKept'
  BY <1>1, <1>7 DEF Forget, Forgotten, Up, KeysKept, RowsOK
<1>8. CASE UNCHANGED <<row, keys, step, pair, tied>>
  BY <1>8 DEF Up, KeysKept
<1>9. ASSUME NEW s \in Servers, Take(s) \/ Look(s) \/ Send(s)
      PROVE  UNCHANGED <<row, keys, step, pair, tied>>
  BY <1>9 DEF Take, Look, Send, database
<1> QED
  BY <1>2, <1>3, <1>4, <1>5, <1>6, <1>7, <1>8, <1>9
     DEF Next, Unsubscribe, Prefer, Test, Do, Choose, Queue, Tick, database, vars

\* Every server signs with both halves of one pair, the one every browser was
\* subscribed with, however many servers start at once on a database without
\* keys (PushKeys, store/push.go:163).
THEOREM KeysAlwaysMatch == Spec => []KeysMatch
<1>1. Init => KeysKept
  BY DEF Init, KeysKept, Up, NoPair
<1>2. TypeInv /\ KeysKept /\ [Next]_vars => KeysKept'
  BY KeysKeptStays
<1>3. KeysKept => KeysMatch
  BY DEF KeysKept, KeysMatch
<1> QED
  BY <1>1, <1>2, <1>3, TypeSafe, PTL DEF Spec

----------------------------------------------------------------------------
(* Whose a browser is.                                                     *)

\* Every step keeps whose a browser is.
LEMMA BelongsStays ==
    ASSUME TypeInv, BelongsToTheLast, [Next]_vars
    PROVE  BelongsToTheLast'
<1>1. RowsOK
  BY DEF TypeInv
<1>2. ASSUME NEW b \in Browsers, NEW p \in People, On(b, p)
      PROVE  BelongsToTheLast'
  <2>1. ASSUME NEW c \in Browsers \ {b}, row'[c] # None
        PROVE  row'[c] = row[c] /\ lastOn'[c] = lastOn[c]
    BY <1>1, <1>2, <2>1 DEF On, RowsOK
  <2>2. row'[b] # None => row'[b].of = p
    <3>1. CASE row[b] = None
      BY <1>1, <1>2, <3>1 DEF On, RowsOK
    <3>2. CASE row[b] # None
      <4>1. TakenOver(b, p).of = p
        BY <1>1, <3>2 DEF TakenOver, RowsOK, Row
      <4> QED
        BY <1>1, <1>2, <3>2, <4>1 DEF On, RowsOK
    <3> QED
      BY <3>1, <3>2
  <2>3. lastOn'[b] = p
    BY <1>1, <1>2 DEF On, RowsOK
  <2> QED
    BY <2>1, <2>2, <2>3 DEF BelongsToTheLast
<1>3. ASSUME NEW b \in Browsers, NEW p \in People, Off(b, p)
      PROVE  BelongsToTheLast'
  BY <1>1, <1>3 DEF Off, Removed, Of, RowsOK, BelongsToTheLast
<1>4. ASSUME NEW s \in Servers, Forget(s)
      PROVE  BelongsToTheLast'
  BY <1>1, <1>4 DEF Forget, Forgotten, RowsOK, BelongsToTheLast
<1>5. CASE UNCHANGED <<row, lastOn>>
  BY <1>5 DEF BelongsToTheLast
<1>6. ASSUME NEW s \in Servers, Start(s) \/ Keep(s) \/ Stop(s) \/ Take(s) \/ Look(s) \/ Send(s)
      PROVE  UNCHANGED <<row, lastOn>>
  BY <1>6 DEF Start, Keep, Stop, Take, Look, Send, database
<1> QED
  BY <1>2, <1>3, <1>4, <1>5, <1>6
     DEF Next, Unsubscribe, Prefer, Test, Do, Choose, Queue, Tick, database, vars

\* A browser belongs to whoever last turned notifications on in it, and to
\* nobody once they turned them off (SavePushSubscription and
\* RemovePushSubscription, store/push.go:13).
THEOREM BelongsToNobodyElse == Spec => []BelongsToTheLast
<1>1. Init => BelongsToTheLast
  BY DEF Init, BelongsToTheLast
<1>2. TypeInv /\ BelongsToTheLast /\ [Next]_vars => BelongsToTheLast'
  BY BelongsStays
<1> QED
  BY <1>1, <1>2, TypeSafe, PTL DEF Spec

----------------------------------------------------------------------------
(* The limit on one person's browsers.                                     *)

MadeBefore == \A b \in Browsers : row[b] # None => row[b].made <= clock

\* Every step keeps MadeBefore.
LEMMA MadeBeforeStays ==
    ASSUME TypeInv, MadeBefore, [Next]_vars
    PROVE  MadeBefore'
<1>1. RowsOK /\ clock \in Nat
  BY PushConstants DEF TypeInv, RowsOK
<1>2. ASSUME NEW b \in Browsers, NEW p \in People, On(b, p)
      PROVE  MadeBefore'
  <2>1. ASSUME NEW c \in Browsers \ {b}, row'[c] # None
        PROVE  row'[c] = row[c] /\ clock' = clock
    BY <1>1, <1>2, <2>1 DEF On, RowsOK, bounds
  <2>2. row'[b] # None => row'[b].made = clock /\ clock' = clock
    <3>1. CASE row[b] = None
      BY <1>1, <1>2, <3>1 DEF On, RowsOK, bounds
    <3>2. CASE row[b] # None
      <4>1. TakenOver(b, p).made = clock
        BY <1>1, <3>2 DEF TakenOver, RowsOK, Row
      <4> QED
        BY <1>1, <1>2, <3>2, <4>1 DEF On, RowsOK, bounds
    <3> QED
      BY <3>1, <3>2
  <2> QED
    BY <1>1, <2>1, <2>2 DEF MadeBefore
<1>3. ASSUME NEW b \in Browsers, NEW p \in People, Off(b, p)
      PROVE  MadeBefore'
  BY <1>1, <1>3 DEF Off, Removed, RowsOK, MadeBefore, bounds
<1>4. ASSUME NEW s \in Servers, Forget(s)
      PROVE  MadeBefore'
  BY <1>1, <1>4 DEF Forget, Forgotten, RowsOK, MadeBefore, bounds
<1>5. CASE Tick
  <2>1. row' = row /\ clock' = clock + 1
    BY <1>5 DEF Tick, database
  <2>2. \A b \in Browsers : row[b] # None => row[b].made \in Nat
    BY <1>1 DEF RowsOK, Row
  <2> QED
    BY <1>1, <2>1, <2>2 DEF MadeBefore
<1>6. CASE UNCHANGED <<row, clock>>
  BY <1>6 DEF MadeBefore
<1>7. ASSUME NEW s \in Servers, Start(s) \/ Keep(s) \/ Stop(s) \/ Take(s) \/ Look(s) \/ Send(s)
      PROVE  UNCHANGED <<row, clock>>
  BY <1>7 DEF Start, Keep, Stop, Take, Look, Send, database, bounds
<1> QED
  BY <1>2, <1>3, <1>4, <1>5, <1>6, <1>7
     DEF Next, Unsubscribe, Prefer, Test, Do, Choose, Queue, database, bounds, vars

\* No subscription was made later than now (MadeBefore).
THEOREM MadeBeforeHolds == Spec => []MadeBefore
<1>1. Init => MadeBefore
  BY DEF Init, MadeBefore
<1>2. TypeInv /\ MadeBefore /\ [Next]_vars => MadeBefore'
  BY MadeBeforeStays
<1> QED
  BY <1>1, <1>2, TypeSafe, PTL DEF Spec

\* The row saved last is past the limit only if MaxDevices others of the same
\* person were made within the same second.
LEMMA SavedStays ==
    ASSUME TypeInv, MadeBefore, NEW b \in Browsers, NEW p \in People, On(b, p),
           Cardinality({c \in Of(p) \ {b} : row[c].made = clock}) < MaxDevices
    PROVE  row'[b] # None
<1> DEFINE now == {c \in Of(p) \ {b} : row[c].made = clock}
           new == IF row[b] = None THEN [of |-> p, made |-> clock, id |-> saves']
                  ELSE TakenOver(b, p)
           saved == [row EXCEPT ![b] = new]
           newer == {d \in Browsers : saved[d] # None /\ saved[d].of = saved[b].of
                                      /\ Older(saved[b], saved[d])}
<1>1. /\ row \in [Browsers -> Row \cup {None}] /\ clock \in Nat /\ clock \in 0 .. MaxTime
      /\ \A c \in Browsers : row[c] # None => row[c] \in Row /\ row[c].made <= clock
  BY PushConstants DEF TypeInv, RowsOK, MadeBefore
<1>2. new \in Row /\ new.of = p /\ new.made = clock /\ new.id \in Nat
  <2>1. CASE row[b] = None
    <3>1. saves' \in 1 .. MaxSaves
      BY <2>1, PushConstants DEF On, TypeInv, RowsOK
    <3> QED
      BY <1>1, <2>1, <3>1 DEF Row
  <2>2. CASE row[b] # None
    <3>1. new = [row[b] EXCEPT !.of = p, !.made = clock]
      BY <2>2 DEF TakenOver
    <3>2. row[b] \in Row
      BY <1>1, <2>2
    <3> HIDE DEF new
    <3>3. new \in Row
      BY <1>1, <3>1, <3>2 DEF Row
    <3> QED
      BY <3>1, <3>2, <3>3 DEF Row
  <2> QED
    BY <2>1, <2>2
<1>3. row' = [c \in Browsers |-> IF c \in Oldest(saved, b) THEN None ELSE saved[c]]
  BY DEF On, TakenOver
<1> HIDE DEF new
<1>4. saved[b] = new /\ \A d \in Browsers \ {b} : saved[d] = row[d]
  BY <1>1
<1> HIDE DEF saved
<1>5. newer \subseteq now
  <2>1. ASSUME NEW d \in newer
        PROVE  d \in now
    <3>1. /\ d \in Browsers /\ saved[d] # None /\ saved[d].of = p
          /\ Older(new, saved[d])
      BY <1>2, <1>4, <2>1
    <3>2. d # b
      BY <1>1, <1>2, <1>4, <3>1 DEF Older
    <3>3. saved[d] = row[d] /\ row[d] \in Row /\ row[d].made <= clock
      BY <1>1, <1>4, <3>1, <3>2
    <3>4. row[d].made = clock
      BY <1>1, <1>2, <3>1, <3>3 DEF Older, Row
    <3> QED
      BY <3>1, <3>2, <3>3, <3>4 DEF Of
  <2> QED
    BY <2>1
<1>6. IsFiniteSet(now)
  BY FS_Subset, PushConstants DEF Of
<1>7. Cardinality(newer) <= Cardinality(now)
  BY <1>5, <1>6, FS_Subset
<1>8. /\ Cardinality(newer) \in Nat /\ Cardinality(now) \in Nat /\ Cardinality(now) < MaxDevices
  BY <1>5, <1>6, FS_Subset, FS_CardinalityType
<1>9. b \notin Oldest(saved, b)
  <2>1. ~(Cardinality(newer) >= MaxDevices)
    BY <1>7, <1>8, PushConstants
  <2> QED
    BY <2>1 DEF Oldest
<1>10. new # None
  BY <1>2, NoneIsNoRecord
<1> QED
  BY <1>3, <1>4, <1>9, <1>10

\* Turning notifications on never removes the browser it was done in, short of
\* a full limit of others within the same second: the page that says "On for
\* this device" is right (SavePushSubscription).
THEOREM TurningOnStays == Spec => JustTurnedOnStays
<1> DEFINE Stays == \A b \in Browsers, p \in People :
           (On(b, p) /\ Cardinality({c \in Of(p) \ {b} : row[c].made = clock}) < MaxDevices)
               => row'[b] # None
<1>1. TypeInv /\ MadeBefore => Stays
  BY SavedStays
<1>2. Spec => [][Stays]_vars
  BY <1>1, TypeSafe, MadeBeforeHolds, PTL DEF Spec
<1> QED
  BY <1>2 DEF JustTurnedOnStays

=============================================================================
