---------------------------- MODULE UnreadProofs ----------------------------
(***************************************************************************)
(* What Unread guarantees for any number of people, tasks and overlapping  *)
(* requests: a comment is never silently missed in the web app, and nobody *)
(* is told of what was said before they joined.                            *)
(*                                                                         *)
(* The inductive invariant is three facts beside the types: ids are given  *)
(* out once and in order (Numbered), whoever had joined when a comment was *)
(* made is its witness (Witnessed), and what somebody is marked as having  *)
(* seen they have been sent, or a page with it is on its way (Delivered).  *)
(***************************************************************************)
EXTENDS Unread, WellFoundedInduction, TLAPS

----------------------------------------------------------------------------
(* Largest, of a set of numbers that has a bound.                          *)

Less == {x \in Nat \X Nat : x[1] < x[2]}

\* Numbers have no infinite descent.
LEMMA LessIsWellFounded == IsWellFoundedOn(Less, Nat)
<1>1. Less = OpToRel(<, Nat)
  BY DEF Less, OpToRel
<1> QED
  BY <1>1, NatLessThanWellFounded

\* So a set of them has a smallest,
LEMMA SmallestOf ==
    ASSUME NEW S, S \subseteq Nat, S # {}
    PROVE  \E x \in S : \A y \in S : x <= y
<1>1. PICK x \in S : \A y \in S : <<y, x>> \notin Less
  BY LessIsWellFounded, WFMin
<1>2. ASSUME NEW y \in S
      PROVE  x <= y
  <2>1. x \in Nat /\ y \in Nat /\ <<y, x>> \notin Less
    BY <1>1, <1>2
  <2> QED
    BY <2>1 DEF Less
<1> QED
  BY <1>2

\* and one with a bound a largest.
LEMMA LargestOf ==
    ASSUME NEW n \in Nat, NEW S, S \subseteq 0 .. n
    PROVE  Largest(S) \in S \cup {0} /\ \A y \in S : y <= Largest(S)
<1> DEFINE below == {n - y : y \in S}
<1>1. \E x \in S \cup {0} : \A y \in S : y <= x
  <2>1. CASE S = {}
    BY <2>1
  <2>2. CASE S # {}
    <3>0. \A y \in S : y \in 0 .. n /\ n - y \in Nat
      OBVIOUS
    <3>1. below \subseteq Nat /\ below # {}
      BY <2>2, <3>0
    <3>2. PICK d \in below : \A e \in below : d <= e
      BY <3>1, SmallestOf
    <3>3. PICK x \in S : d = n - x
      BY <3>2
    <3>4. ASSUME NEW y \in S
          PROVE  y <= x
      <4>1. n - y \in below
        OBVIOUS
      <4>2. n - x <= n - y
        BY <3>2, <3>3, <4>1
      <4> QED
        BY <3>0, <4>2
    <3> QED
      BY <3>3, <3>4
  <2> QED
    BY <2>1, <2>2
<1> QED
  BY <1>1 DEF Largest

----------------------------------------------------------------------------
(* Types.                                                                  *)

\* The newest comment on a task is one, unless there is none.
LEMMA NewestIsAnId ==
    ASSUME TypeOK, NEW t
    PROVE  /\ NewestOn(t) \in 0 .. MaxComments
           /\ \A c \in On(t) : c.id <= NewestOn(t)
           /\ NewestOn(t) # 0 => \E c \in comments : c.id = NewestOn(t)
<1>1. IdsOf(On(t)) \subseteq 0 .. MaxComments
  BY UnreadConstants DEF IdsOf, On, TypeOK, Comment, Ids
<1>2. MaxComments \in Nat
  BY UnreadConstants
<1>3. /\ NewestOn(t) \in IdsOf(On(t)) \cup {0}
      /\ \A y \in IdsOf(On(t)) : y <= NewestOn(t)
  BY <1>1, <1>2, LargestOf DEF NewestOn
<1> QED
  BY <1>1, <1>2, <1>3 DEF IdsOf, On

\* Every step keeps the types.
LEMMA TypeStays ==
    ASSUME TypeOK, [Next]_vars
    PROVE  TypeOK'
<1>1. ASSUME NEW s \in Slots, NEW p \in People, NEW t \in Tasks, Begin(s, p, t)
      PROVE  TypeOK'
  <2>1. \A step \in Steps : [step |-> step, who |-> p, task |-> t, got |-> {}] \in Request
    BY DEF Request
  <2> QED
    BY <1>1, <2>1 DEF Begin, TypeOK, tables, Steps
<1>2. ASSUME NEW s \in Slots, Serve(s)
      PROVE  TypeOK'
  <2>1. requests[s] \in Request
    BY <1>2 DEF Serve, Insert, List, Mark, Answer, Page, At, TypeOK
  <2>2. /\ requests[s].who \in People /\ requests[s].task \in Tasks
        /\ requests[s].got \subseteq Ids
    BY <2>1 DEF Request
  <2>3. ASSUME NEW step \in Steps
        PROVE  [requests EXCEPT ![s].step = step] \in [Slots -> Request \cup {None}]
    BY <2>1 DEF TypeOK, Request
  <2>4. [requests EXCEPT ![s] = None] \in [Slots -> Request \cup {None}]
    BY DEF TypeOK
  <2>5. CASE Insert(s)
    <3>1. CASE Finish(s) /\ UNCHANGED <<comments, nextId, witnesses, sent>>
      BY <2>4, <2>5, <3>1 DEF Insert, Finish, TypeOK
    <3>2. CASE ~(Finish(s) /\ UNCHANGED <<comments, nextId, witnesses, sent>>)
      <4>1. /\ nextId \in Ids /\ clock \in Times
            /\ comments' = comments \cup
                   {[id |-> nextId, task |-> requests[s].task, by |-> requests[s].who, at |-> clock]}
            /\ nextId' = nextId + 1
            /\ witnesses' = [witnesses EXCEPT ![nextId] = {p \in People : Member(p)}]
            /\ sent' = [sent EXCEPT ![requests[s].who] = @ \cup {nextId}]
            /\ requests' = [requests EXCEPT ![s].step = "mark"]
        BY <2>5, <3>2, UnreadConstants DEF Insert, Goto, TypeOK, Ids
      <4>2. comments' \subseteq Comment
        BY <2>2, <4>1 DEF TypeOK, Comment
      <4>3. nextId' \in 1 .. MaxComments + 1
        BY <4>1, UnreadConstants DEF Ids
      <4>4. witnesses' \in [Ids -> SUBSET People] /\ sent' \in [People -> SUBSET Ids]
        BY <2>2, <4>1 DEF TypeOK
      <4> QED
        BY <2>3, <2>5, <4>1, <4>2, <4>3, <4>4 DEF Insert, TypeOK, Steps
    <3> QED
      BY <3>1, <3>2
  <2>6. CASE List(s)
    <3> DEFINE got == IdsOf(On(requests[s].task))
    <3>1. got \subseteq Ids
      BY DEF IdsOf, On, TypeOK, Comment
    <3>2. requests' = [requests EXCEPT ![s].step = "mark", ![s].got = got]
      BY <2>6 DEF List
    <3> HIDE DEF got
    <3>3. requests' \in [Slots -> Request \cup {None}]
      BY <2>1, <3>1, <3>2 DEF TypeOK, Request, Steps
    <3> QED
      BY <2>6, <3>3 DEF List, TypeOK, tables
  <2>7. CASE Mark(s)
    <3> DEFINE newest == NewestOn(requests[s].task)
               seen == Largest({seenUpTo[requests[s].who][requests[s].task], newest})
    <3>1. newest \in 0 .. MaxComments
      BY NewestIsAnId
    <3>2. seenUpTo[requests[s].who][requests[s].task] \in 0 .. MaxComments
      BY <2>2 DEF TypeOK
    <3>3. seen \in 0 .. MaxComments
      BY <3>1, <3>2, LargestOf, UnreadConstants
    <3>4. seenUpTo' = [seenUpTo EXCEPT ![requests[s].who][requests[s].task] = seen]
      BY <2>7 DEF Mark
    <3> HIDE DEF newest, seen
    <3>5. seenUpTo' \in [People -> [Tasks -> 0 .. MaxComments]]
      BY <2>2, <3>3, <3>4 DEF TypeOK
    <3>6. AfterMark(requests[s]) \in Steps
      BY DEF AfterMark, Steps
    <3> QED
      BY <2>3, <2>7, <3>5, <3>6 DEF Mark, Goto, TypeOK
  <2>8. CASE Answer(s)
    BY <2>2, <2>4, <2>8 DEF Answer, Finish, TypeOK, tables
  <2>9. CASE Page(s)
    <3>1. IdsOf(comments) \subseteq Ids
      BY DEF IdsOf, TypeOK, Comment
    <3> QED
      BY <2>2, <2>4, <2>9, <3>1 DEF Page, Shown, Finish, TypeOK, tables
  <2> QED
    BY <1>2, <2>5, <2>6, <2>7, <2>8, <2>9 DEF Serve
<1>3. ASSUME NEW p \in People, Join(p) \/ Leave(p) \/ Load(p)
      PROVE  TypeOK'
  <2>1. CASE Join(p)
    BY <2>1 DEF Join, JoinedAt, TypeOK
  <2>2. CASE Leave(p)
    BY <2>2 DEF Leave, TypeOK
  <2>3. CASE Load(p)
    <3>1. IdsOf(comments) \subseteq Ids
      BY DEF IdsOf, TypeOK, Comment
    <3> QED
      BY <2>3, <3>1 DEF Load, Shown, TypeOK, tables
  <2> QED
    BY <1>3, <2>1, <2>2, <2>3
<1>4. ASSUME NEW c \in comments, Delete(c)
      PROVE  TypeOK'
  BY <1>4 DEF Delete, TypeOK
<1>5. ASSUME NEW t \in Tasks, Trash(t)
      PROVE  TypeOK'
  BY <1>5 DEF Trash, TypeOK
<1>6. CASE Tick
  <2>1. clock' \in Times
    BY <1>6, UnreadConstants DEF Tick, TypeOK, Times
  <2> QED
    BY <1>6, <2>1 DEF Tick, TypeOK, tables
<1>7. CASE Restart
  <2>1. IdsOf(comments) \subseteq Ids
    BY DEF IdsOf, TypeOK, Comment
  <2> QED
    BY <1>7, <2>1 DEF Restart, CountingSince, TypeOK
<1>8. CASE UNCHANGED vars
  BY <1>8 DEF vars, tables, TypeOK
<1> QED
  BY <1>1, <1>2, <1>3, <1>4, <1>5, <1>6, <1>7, <1>8 DEF Next

\* They hold at the start.
LEMMA TypeStarts ==
    ASSUME Init
    PROVE  TypeOK
<1>1. since \in 0 .. MaxComments
  <2>1. MaxComments \in Nat /\ Earlier \subseteq 0 .. MaxComments
    BY UnreadConstants
  <2>2. Largest(Earlier) \in Earlier \cup {0}
    BY <2>1, LargestOf
  <2>3. since = Largest(Earlier)
    BY DEF Init
  <2>4. \A x \in Earlier \cup {0} : x \in 0 .. MaxComments
    BY <2>1
  <2> QED
    BY <2>2, <2>3, <2>4
<1>2. nextId \in 1 .. MaxComments + 1
  BY <1>1, UnreadConstants DEF Init
<1>3. comments \subseteq Comment
  <2>1. PICK task \in [Earlier -> Tasks] :
            comments = {[id |-> i, task |-> task[i], by |-> Owner, at |-> 0] : i \in Earlier}
    BY DEF Init
  <2>2. 0 \in Times
    BY UnreadConstants DEF Times
  <2> QED
    BY <2>1, <2>2, UnreadConstants DEF Comment, Ids
<1>4. joined \in [People -> Times \cup {Out}] /\ clock \in Times
  BY UnreadConstants DEF Init, Times
<1> QED
  BY <1>1, <1>2, <1>3, <1>4, UnreadConstants DEF Init, TypeOK

\* Every table and request holds values of its kind.
THEOREM TypesHold == Spec => []TypeOK
<1>1. Init => TypeOK
  BY TypeStarts
<1>2. TypeOK /\ [Next]_vars => TypeOK'
  BY TypeStays
<1> QED
  BY <1>1, <1>2, PTL DEF Spec

----------------------------------------------------------------------------
(* Ids.                                                                    *)

\* A comment's id is its own, and is behind nextId; so is what was seen.
Numbered ==
    /\ \A c \in comments : c.id < nextId /\ c.at <= clock
    /\ \A c, d \in comments : c.id = d.id => c = d
    /\ \A p \in People, t \in Tasks : seenUpTo[p][t] < nextId
    /\ since < nextId
    /\ \A c \in comments : c.id <= since => c.id \in Earlier

\* What Insert does when it inserts.
LEMMA Inserted ==
    ASSUME TypeOK, NEW s \in Slots, Insert(s), comments' # comments
    PROVE  LET r == requests[s]
               new == [id |-> nextId, task |-> r.task, by |-> r.who, at |-> clock]
           IN /\ comments' = comments \cup {new} /\ nextId' = nextId + 1
              /\ r \in Request /\ nextId \in Ids
              /\ witnesses' = [witnesses EXCEPT ![nextId] = {p \in People : Member(p)}]
              /\ sent' = [sent EXCEPT ![r.who] = @ \cup {nextId}]
              /\ requests' = [requests EXCEPT ![s].step = "mark"]
              /\ UNCHANGED <<joined, live, seenUpTo, since, clock>>
<1>1. requests[s] \in Request
  BY DEF Insert, At, TypeOK
<1> QED
  BY <1>1, UnreadConstants DEF Insert, Goto, TypeOK, Ids

\* And when it does not.
LEMMA InsertedOrNot ==
    ASSUME TypeOK, Numbered, NEW s \in Slots, Insert(s), comments' = comments
    PROVE  UNCHANGED <<comments, nextId, joined, live, seenUpTo, since, clock, witnesses>>
<1> DEFINE new == [id |-> nextId, task |-> requests[s].task, by |-> requests[s].who,
                   at |-> clock]
<1>1. nextId \in Nat /\ new.id = nextId
  BY UnreadConstants DEF TypeOK
<1> HIDE DEF new
<1>2. \A c \in comments : c.id \in Nat /\ c.id < nextId
  BY UnreadConstants DEF TypeOK, Comment, Ids, Numbered
<1>3. comments \cup {new} # comments
  BY <1>1, <1>2
<1> USE DEF new
<1> QED
  BY <1>3 DEF Insert

\* A mark raises what one person has seen of one task to its newest comment.
LEMMA MarkedSeen ==
    ASSUME TypeOK, NEW s \in Slots, Mark(s)
    PROVE  LET r == requests[s] IN
           /\ r \in Request
           /\ \A p \in People, t \in Tasks :
                  seenUpTo'[p][t] = IF p = r.who /\ t = r.task
                                    THEN Largest({seenUpTo[p][t], NewestOn(t)})
                                    ELSE seenUpTo[p][t]
<1>1. requests[s] \in Request
  BY DEF Mark, At, TypeOK
<1>2. requests[s].who \in People /\ requests[s].task \in Tasks
  BY <1>1 DEF Request
<1> QED
  BY <1>1, <1>2 DEF Mark, TypeOK

\* Every step keeps Numbered.
LEMMA NumberedStays ==
    ASSUME TypeOK, Numbered, [Next]_vars
    PROVE  Numbered'
<1>1. /\ nextId \in Nat /\ clock \in Nat /\ since \in Nat /\ TypeOK'
      /\ \A c \in comments : c.id \in Nat /\ c.at \in Nat
      /\ \A p \in People, t \in Tasks : seenUpTo[p][t] \in Nat
  <2>1. TypeOK'
    BY TypeStays
  <2>2. \A c \in comments : c.id \in Nat /\ c.at \in Nat
    BY UnreadConstants DEF TypeOK, Comment, Ids, Times
  <2>3. \A p \in People, t \in Tasks : seenUpTo[p][t] \in 0 .. MaxComments
    BY DEF TypeOK
  <2> QED
    BY <2>1, <2>2, <2>3, UnreadConstants DEF TypeOK, Times
<1>2. ASSUME NEW s \in Slots, Insert(s), comments' # comments
      PROVE  Numbered'
  <2> DEFINE new == [id |-> nextId, task |-> requests[s].task, by |-> requests[s].who,
                     at |-> clock]
  <2>1. comments' = comments \cup {new} /\ nextId' = nextId + 1
        /\ UNCHANGED <<seenUpTo, since, clock>>
    BY <1>2, Inserted
  <2>2. new.id = nextId /\ new.at = clock
    OBVIOUS
  <2> HIDE DEF new
  <2> QED
    BY <1>1, <2>1, <2>2 DEF Numbered
<1>3. ASSUME NEW s \in Slots, Mark(s)
      PROVE  Numbered'
  <2>1. UNCHANGED <<comments, nextId, since, clock>>
    BY <1>3 DEF Mark
  <2>2. ASSUME NEW p \in People, NEW t \in Tasks
        PROVE  seenUpTo'[p][t] < nextId
    <3> DEFINE seen == seenUpTo[p][t]
               newest == NewestOn(t)
    <3>1. seen \in 0 .. MaxComments /\ newest \in 0 .. MaxComments /\ MaxComments \in Nat
      BY NewestIsAnId, UnreadConstants DEF TypeOK
    <3>2. seen < nextId /\ newest < nextId
      <4>1. newest = 0 \/ \E c \in comments : c.id = newest
        BY NewestIsAnId
      <4> HIDE DEF newest
      <4>2. nextId > 0
        BY DEF TypeOK
      <4> QED
        BY <1>1, <4>1, <4>2 DEF Numbered
    <3> HIDE DEF seen, newest
    <3>3. Largest({seen, newest}) \in {seen, newest} \cup {0}
      BY <3>1, LargestOf
    <3>4. nextId > 0
      BY DEF TypeOK
    <3>5. seenUpTo'[p][t] \in {seen, Largest({seen, newest})}
      BY <1>3, MarkedSeen DEF seen, newest
    <3> QED
      BY <3>2, <3>3, <3>4, <3>5
  <2> QED
    BY <2>1, <2>2 DEF Numbered
<1>4. ASSUME NEW c \in comments, Delete(c)
      PROVE  Numbered'
  BY <1>4 DEF Delete, Numbered
<1>5. CASE Tick
  BY <1>1, <1>5 DEF Tick, tables, Numbered
<1>6. CASE UNCHANGED <<comments, nextId, seenUpTo, since, clock>>
  BY <1>6 DEF Numbered
<1>7. ASSUME NEW s \in Slots, List(s) \/ Answer(s) \/ Page(s) \/ Insert(s), comments' = comments
      PROVE  UNCHANGED <<comments, nextId, seenUpTo, since, clock>>
  <2>1. CASE Insert(s)
    BY <1>7, <2>1, InsertedOrNot
  <2> QED
    BY <1>7, <2>1 DEF List, Answer, Page, tables
<1>8. ASSUME NEW p \in People, Join(p) \/ Leave(p) \/ Load(p)
      PROVE  UNCHANGED <<comments, nextId, seenUpTo, since, clock>>
  BY <1>8 DEF Join, Leave, Load, tables
<1>9. ASSUME NEW s \in Slots, List(s) \/ Answer(s) \/ Page(s)
      PROVE  comments' = comments
  BY <1>9 DEF List, Answer, Page, tables
<1> QED
  BY <1>2, <1>3, <1>4, <1>5, <1>6, <1>7, <1>8, <1>9
     DEF Next, Serve, Begin, Trash, Restart, CountingSince, vars, tables

\* It holds at the start.
LEMMA NumberedStarts ==
    ASSUME Init
    PROVE  Numbered
<1>1. PICK task \in [Earlier -> Tasks] :
          comments = {[id |-> i, task |-> task[i], by |-> Owner, at |-> 0] : i \in Earlier}
  BY DEF Init
<1>2. MaxComments \in Nat /\ Earlier \subseteq 0 .. MaxComments /\ Earlier \subseteq Nat
  BY UnreadConstants
<1>3. Largest(Earlier) \in Earlier \cup {0} /\ \A y \in Earlier : y <= Largest(Earlier)
  BY <1>2, LargestOf
<1>4. since = Largest(Earlier) /\ nextId = since + 1 /\ clock = 0
  BY DEF Init
<1>5. since \in Nat
  <2>1. \A x \in Earlier \cup {0} : x \in Nat
    BY <1>2
  <2> QED
    BY <1>3, <1>4, <2>1
<1>6. ASSUME NEW c \in comments
      PROVE  c.id \in Earlier /\ c.at = 0 /\ c.id < nextId
  <2>1. c.id \in Earlier /\ c.at = 0
    BY <1>1
  <2>2. c.id \in Nat /\ c.id <= since
    BY <1>2, <1>3, <1>4, <2>1
  <2> QED
    BY <1>4, <1>5, <2>1, <2>2
<1>7. ASSUME NEW c \in comments, NEW d \in comments, c.id = d.id
      PROVE  c = d
  BY <1>1, <1>7
<1>8. \A p \in People, t \in Tasks : seenUpTo[p][t] = 0
  BY DEF Init
<1> QED
  BY <1>4, <1>5, <1>6, <1>7, <1>8 DEF Numbered

----------------------------------------------------------------------------
(* Nothing from before somebody joined.                                    *)

\* Whoever joined before a comment was made, and is still there, was there.
Witnessed ==
    \A p \in People : \A c \in comments :
        Member(p) /\ c.at > joined[p] => p \in witnesses[c.id]

\* Every step keeps Witnessed: who joins later joins at a later time, or the same.
LEMMA WitnessedStays ==
    ASSUME TypeOK, Numbered, Witnessed, [Next]_vars
    PROVE  Witnessed'
<1>1. /\ clock \in Nat /\ nextId \in Nat
      /\ \A c \in comments : c.id \in Ids /\ c.id \in Nat /\ c.at \in Nat /\ c.at <= clock
      /\ \A p \in People : Member(p) => joined[p] \in Nat
  BY UnreadConstants DEF TypeOK, Comment, Ids, Times, Out, Member, Numbered
<1>2. ASSUME NEW s \in Slots, Insert(s), comments' # comments
      PROVE  Witnessed'
  <2> DEFINE new == [id |-> nextId, task |-> requests[s].task, by |-> requests[s].who,
                     at |-> clock]
  <2>1. /\ comments' = comments \cup {new} /\ nextId \in Ids
        /\ witnesses' = [witnesses EXCEPT ![nextId] = {p \in People : Member(p)}]
        /\ joined' = joined
    BY <1>2, Inserted
  <2>2. new.id = nextId
    OBVIOUS
  <2> HIDE DEF new
  <2>3. \A c \in comments : c.id # nextId
    BY <1>1 DEF Numbered
  <2>4. ASSUME NEW p \in People, NEW c \in comments', Member(p)', (c.at > joined[p])'
        PROVE  p \in witnesses'[c.id]
    <3>1. CASE c \in comments
      <4>1. p \in witnesses[c.id]
        BY <2>1, <2>4, <3>1 DEF Witnessed, Member
      <4>2. witnesses'[c.id] = witnesses[c.id]
        BY <1>1, <2>1, <2>3, <3>1 DEF TypeOK
      <4> QED
        BY <4>1, <4>2
    <3>2. CASE c = new
      <4>1. witnesses'[c.id] = {q \in People : Member(q)}
        BY <2>1, <2>2, <3>2 DEF TypeOK
      <4> QED
        BY <2>1, <2>4, <4>1 DEF Member
    <3> QED
      BY <2>1, <3>1, <3>2
  <2> QED
    BY <2>4 DEF Witnessed
<1>3. ASSUME NEW c \in comments, Delete(c)
      PROVE  Witnessed'
  <2>1. comments' = comments \ {c} /\ joined' = joined
        /\ witnesses' = [witnesses EXCEPT ![c.id] = {}]
    BY <1>3 DEF Delete
  <2>2. ASSUME NEW d \in comments'
        PROVE  d \in comments /\ witnesses'[d.id] = witnesses[d.id]
    <3>1. d \in comments /\ d.id # c.id
      BY <2>1 DEF Numbered
    <3> QED
      BY <1>1, <2>1, <3>1 DEF TypeOK
  <2> QED
    BY <2>1, <2>2 DEF Witnessed, Member
<1>4. ASSUME NEW p \in People, Join(p)
      PROVE  Witnessed'
  <2>1. joined' = [joined EXCEPT ![p] = clock] /\ UNCHANGED <<comments, witnesses>>
    BY <1>4 DEF Join, JoinedAt
  <2>2. ASSUME NEW q \in People, NEW c \in comments, Member(q)', (c.at > joined[q])'
        PROVE  q \in witnesses[c.id]
    <3>1. q # p
      <4>1. joined'[p] = clock /\ ~(c.at > clock)
        BY <1>1, <2>1 DEF TypeOK
      <4> QED
        BY <2>2, <4>1
    <3>2. joined'[q] = joined[q]
      BY <2>1, <3>1 DEF TypeOK
    <3> QED
      BY <2>2, <3>2 DEF Witnessed, Member
  <2> QED
    BY <2>1, <2>2 DEF Witnessed
<1>5. ASSUME NEW p \in People, Leave(p)
      PROVE  Witnessed'
  <2>1. joined' = [joined EXCEPT ![p] = Out] /\ UNCHANGED <<comments, witnesses>>
    BY <1>5 DEF Leave
  <2>2. ASSUME NEW q \in People, Member(q)'
        PROVE  Member(q) /\ joined'[q] = joined[q]
    BY <2>1, <2>2 DEF Member, TypeOK
  <2> QED
    BY <2>1, <2>2 DEF Witnessed
<1>6. CASE UNCHANGED <<comments, joined, witnesses>>
  BY <1>6 DEF Witnessed, Member
<1>7. ASSUME NEW s \in Slots, Insert(s), comments' = comments
      PROVE  UNCHANGED <<comments, joined, witnesses>>
  BY <1>7, InsertedOrNot
<1>8. ASSUME NEW s \in Slots, List(s) \/ Mark(s) \/ Answer(s) \/ Page(s)
      PROVE  UNCHANGED <<comments, joined, witnesses>>
  BY <1>8 DEF List, Mark, Answer, Page, tables
<1>9. ASSUME NEW p \in People, Load(p)
      PROVE  UNCHANGED <<comments, joined, witnesses>>
  BY <1>9 DEF Load, tables
<1> QED
  BY <1>2, <1>3, <1>4, <1>5, <1>6, <1>7, <1>8, <1>9
     DEF Next, Serve, Begin, Trash, Tick, Restart, vars, tables

\* What is new to somebody was said while they were on the list, or in the very
\* second they joined (unread.go:4-5), however many people, tasks and requests.
THEOREM NothingOldIsNew == Spec => []NothingFromBefore
<1>1. Init => TypeOK /\ Numbered /\ Witnessed
  <2>1. ASSUME Init
        PROVE  Witnessed
    <3>1. \A c \in comments : c.at = 0
      BY <2>1 DEF Init
    <3>2. \A p \in People : joined[p] \in {0, Out}
      BY <2>1 DEF Init
    <3> QED
      BY <3>1, <3>2 DEF Witnessed, Member
  <2> QED
    BY <2>1, TypeStarts, NumberedStarts
<1>2. TypeOK /\ Numbered /\ Witnessed /\ [Next]_vars => (TypeOK /\ Numbered /\ Witnessed)'
  BY TypeStays, NumberedStays, WitnessedStays
<1>3. TypeOK /\ Witnessed => NothingFromBefore
  <2>1. ASSUME TypeOK, Witnessed, NEW p \in People, NEW c \in News(p)
        PROVE  p \in witnesses[c.id] \/ c.at = joined[p]
    <3>1. c \in comments /\ Member(p) /\ c.at >= joined[p]
      BY DEF News, SinceTheyJoined
    <3>2. c.at \in Nat /\ joined[p] \in Nat
      BY <2>1, <3>1, UnreadConstants DEF TypeOK, Comment, Times, Out
    <3> QED
      BY <2>1, <3>1, <3>2 DEF Witnessed
  <2> QED
    BY <2>1 DEF NothingFromBefore
<1> QED
  BY <1>1, <1>2, <1>3, PTL DEF Spec

----------------------------------------------------------------------------
(* Nothing is missed in the web app.                                       *)

\* What somebody who uses the web app is marked as having seen, of what was
\* said since they joined, they were sent, or a page with it is on its way.
Delivered ==
    \A p \in Browsers : \A c \in comments :
        Member(p) /\ c.at > joined[p] /\ c.id <= seenUpTo[p][c.task]
            => c.id \in sent[p] \/ OnItsWay(p)

\* Every step keeps Delivered: what a mark hides is on its way as a page.
LEMMA DeliveredStays ==
    ASSUME TypeOK, Numbered, Delivered, [Next]_vars
    PROVE  Delivered'
<1> USE UnreadConstants
<1>1. /\ clock \in Nat /\ nextId \in Nat /\ Browsers \subseteq People
      /\ \A c \in comments : /\ c.id \in Ids /\ c.id \in Nat /\ c.task \in Tasks
                             /\ c.at \in Nat /\ c.at <= clock
      /\ \A p \in People : Member(p) => joined[p] \in Nat
      /\ \A p \in People, t \in Tasks : seenUpTo[p][t] \in Nat /\ seenUpTo[p][t] < nextId
      /\ \A s \in Slots : requests[s] # None => requests[s] \in Request
      /\ None \notin Request
  <2>1. \A p \in People, t \in Tasks : seenUpTo[p][t] \in 0 .. MaxComments
    BY DEF TypeOK
  <2>2. \A c \in comments : /\ c.id \in Ids /\ c.id \in Nat /\ c.task \in Tasks
                            /\ c.at \in Nat /\ c.at <= clock
    BY DEF TypeOK, Comment, Ids, Times, Numbered
  <2> QED
    BY <2>1, <2>2, NoneIsNoRequest DEF TypeOK, Ids, Times, Out, Member, Numbered
\* A step that leaves the pages on their way alone, and takes nothing back.
<1>2. ASSUME NEW known, known \subseteq comments', known \subseteq comments,
             UNCHANGED <<joined, seenUpTo>>,
             \A p \in Browsers, c \in known : c.id \in sent[p] => c.id \in sent'[p],
             \A p \in Browsers : OnItsWay(p) =>
                 OnItsWay(p)' \/ (Member(p) => \A c \in known : c.id \in sent'[p])
      PROVE  \A p \in Browsers : \A c \in known :
                 (Member(p) /\ c.at > joined[p] /\ c.id <= seenUpTo[p][c.task]
                     => c.id \in sent[p] \/ OnItsWay(p))'
  BY <1>2 DEF Delivered, Member
<1>3. ASSUME NEW s \in Slots, Insert(s)
      PROVE  Delivered'
  <2>1. ASSUME NEW p \in Browsers, OnItsWay(p)
        PROVE  OnItsWay(p)'
    <3>1. PICK z \in Slots : At(z, "page") /\ requests[z].who = p
      BY <2>1 DEF OnItsWay
    <3>2. z # s
      BY <1>3, <3>1 DEF Insert, At
    <3>3. requests'[z] = requests[z]
      BY <1>3, <3>2 DEF Insert, Finish, Goto, TypeOK
    <3> QED
      BY <3>1, <3>3 DEF OnItsWay, At
  <2>2. \A p \in Browsers : sent[p] \subseteq sent'[p]
    BY <1>1, <1>3 DEF Insert, TypeOK
  <2>3. UNCHANGED <<joined, seenUpTo>> /\ comments \subseteq comments'
    BY <1>3 DEF Insert
  <2>4. \A p \in Browsers : \A c \in comments :
            (Member(p) /\ c.at > joined[p] /\ c.id <= seenUpTo[p][c.task]
                => c.id \in sent[p] \/ OnItsWay(p))'
    BY <1>2, <2>1, <2>2, <2>3
  <2>5. ASSUME NEW p \in Browsers, NEW c \in comments', c \notin comments
        PROVE  ~(c.id <= seenUpTo[p][c.task])'
    <3>1. comments' # comments
      BY <2>5
    <3>2. c.id = nextId /\ c.task = requests[s].task /\ requests[s] \in Request
      BY <1>3, <2>5, <3>1, Inserted
    <3>3. c.task \in Tasks
      BY <3>2 DEF Request
    <3> QED
      BY <1>1, <2>3, <3>2, <3>3
  <2> QED
    BY <2>4, <2>5 DEF Delivered
<1>4. ASSUME NEW s \in Slots, List(s) \/ Answer(s) \/ Page(s)
      PROVE  Delivered'
  <2>0. requests[s] \in Request
    BY <1>1, <1>4 DEF List, Answer, Page, At
  <2>1. UNCHANGED <<comments, joined, seenUpTo>>
    BY <1>4 DEF List, Answer, Page, tables
  <2>2. ASSUME NEW p \in Browsers
        PROVE  sent[p] \subseteq sent'[p]
    BY <1>1, <1>4 DEF List, Answer, Page, Shown, TypeOK
  <2>3. ASSUME NEW p \in Browsers, OnItsWay(p)
        PROVE  OnItsWay(p)' \/ (Member(p) => \A c \in comments : c.id \in sent'[p])
    <3>1. PICK z \in Slots : At(z, "page") /\ requests[z].who = p
      BY <2>3 DEF OnItsWay
    <3>2. CASE z # s
      <4>1. requests'[z] = requests[z]
        BY <1>4, <3>2 DEF List, Answer, Page, Finish, TypeOK
      <4> QED
        BY <3>1, <4>1 DEF OnItsWay, At
    <3>3. CASE z = s
      <4>1. Page(s)
        BY <1>4, <3>1, <3>3 DEF List, Answer, At
      <4> QED
        BY <1>1, <3>1, <3>3, <4>1 DEF Page, Shown, IdsOf, TypeOK
    <3> QED
      BY <3>2, <3>3
  <2>4. \A p \in Browsers : \A c \in comments :
            (Member(p) /\ c.at > joined[p] /\ c.id <= seenUpTo[p][c.task]
                => c.id \in sent[p] \/ OnItsWay(p))'
    BY <1>2, <2>1, <2>2, <2>3
  <2> QED
    BY <2>1, <2>4 DEF Delivered
<1>5. ASSUME NEW s \in Slots, Mark(s)
      PROVE  Delivered'
  <2> DEFINE r == requests[s]
  <2>0. r \in Request /\ requests' = [requests EXCEPT ![s].step = AfterMark(r)]
    BY <1>1, <1>5 DEF Mark, At, Goto
  <2>1. UNCHANGED <<comments, joined, sent>>
    BY <1>5 DEF Mark
  <2>2. ASSUME NEW p \in Browsers, OnItsWay(p)
        PROVE  OnItsWay(p)'
    <3>1. PICK z \in Slots : At(z, "page") /\ requests[z].who = p
      BY <2>2 DEF OnItsWay
    <3>2. z # s
      BY <1>5, <3>1 DEF Mark, At
    <3>3. requests'[z] = requests[z]
      BY <2>0, <3>2 DEF TypeOK
    <3> QED
      BY <3>1, <3>3 DEF OnItsWay, At
  <2>3. ASSUME NEW p \in Browsers, r.who = p
        PROVE  OnItsWay(p)'
    <3>1. AfterMark(r) = "page"
      BY <2>3 DEF AfterMark
    <3>2. requests'[s].step = "page" /\ requests'[s].who = p /\ requests'[s] \in Request
      BY <2>0, <2>3, <3>1 DEF TypeOK, Request, Steps
    <3> QED
      BY <1>1, <3>2 DEF OnItsWay, At
  <2>4. ASSUME NEW p \in Browsers, NEW t \in Tasks, r.who # p
        PROVE  seenUpTo'[p][t] = seenUpTo[p][t]
    BY <1>1, <1>5, <2>4, MarkedSeen
  <2> QED
    BY <1>1, <2>1, <2>2, <2>3, <2>4 DEF Delivered, Member
<1>6. ASSUME NEW s \in Slots, NEW p \in People, NEW t \in Tasks, Begin(s, p, t)
      PROVE  Delivered'
  <2>1. UNCHANGED <<comments, joined, seenUpTo, sent>> /\ requests[s] = None
    BY <1>6 DEF Begin, tables
  <2>2. \A z \in Slots : z # s => requests'[z] = requests[z]
    BY <1>6 DEF Begin, TypeOK
  <2>3. \A q \in Browsers : OnItsWay(q) => OnItsWay(q)'
    BY <2>1, <2>2 DEF OnItsWay, At
  <2> QED
    BY <2>1, <2>3 DEF Delivered, Member
<1>7. ASSUME NEW p \in People, Load(p)
      PROVE  Delivered'
  <2>1. UNCHANGED <<comments, joined, seenUpTo, requests>>
    BY <1>7 DEF Load, tables
  <2>2. \A q \in Browsers : sent[q] \subseteq sent'[q]
    BY <1>1, <1>7 DEF Load, Shown, TypeOK
  <2> QED
    BY <2>1, <2>2 DEF Delivered, Member, OnItsWay, At
<1>8. ASSUME NEW c \in comments, Delete(c)
      PROVE  Delivered'
  <2>1. /\ comments' = comments \ {c} /\ UNCHANGED <<joined, seenUpTo, requests>>
        /\ sent' = [p \in People |-> sent[p] \ {c.id}]
    BY <1>8 DEF Delete
  <2>2. \A p \in Browsers, d \in comments' : d.id \in sent[p] => d.id \in sent'[p]
    BY <1>1, <2>1 DEF Numbered
  <2> QED
    BY <2>1, <2>2 DEF Delivered, Member, OnItsWay, At
<1>9. ASSUME NEW p \in People, Join(p)
      PROVE  Delivered'
  <2>1. joined' = [joined EXCEPT ![p] = clock]
        /\ UNCHANGED <<comments, seenUpTo, sent, requests>>
    BY <1>9 DEF Join, JoinedAt
  <2>2. ASSUME NEW q \in Browsers, NEW c \in comments, Member(q)', (c.at > joined[q])'
        PROVE  Member(q) /\ c.at > joined[q]
    <3>1. q # p
      <4>1. joined'[p] = clock /\ ~(c.at > clock)
        BY <1>1, <2>1 DEF TypeOK
      <4> QED
        BY <2>2, <4>1
    <3>2. joined'[q] = joined[q]
      BY <1>1, <2>1, <3>1 DEF TypeOK
    <3> QED
      BY <2>2, <3>2 DEF Member
  <2> QED
    BY <2>1, <2>2 DEF Delivered, OnItsWay, At
<1>10. ASSUME NEW p \in People, Leave(p)
      PROVE  Delivered'
  <2>1. joined' = [joined EXCEPT ![p] = Out] /\ sent' = [sent EXCEPT ![p] = {}]
        /\ UNCHANGED <<comments, seenUpTo, requests>>
    BY <1>10 DEF Leave
  <2>2. ASSUME NEW q \in Browsers, Member(q)'
        PROVE  Member(q) /\ joined'[q] = joined[q] /\ sent'[q] = sent[q]
    <3>1. q # p
      BY <2>1, <2>2 DEF Member, TypeOK
    <3> QED
      BY <1>1, <2>1, <2>2, <3>1 DEF Member, TypeOK
  <2> QED
    BY <2>1, <2>2 DEF Delivered, OnItsWay, At
<1>11. CASE Restart
  <2>1. UNCHANGED <<comments, joined, seenUpTo>>
    BY <1>11 DEF Restart
  <2>2. \A q \in Browsers : sent[q] \subseteq sent'[q]
    BY <1>1, <1>11 DEF Restart
  <2>3. \A q \in Browsers : OnItsWay(q) => \A c \in comments : c.id \in sent'[q]
    BY <1>1, <1>11 DEF Restart, OnItsWay, IdsOf
  <2> QED
    BY <2>1, <2>2, <2>3 DEF Delivered, Member
<1>12. CASE UNCHANGED <<comments, joined, seenUpTo, sent, requests>>
  BY <1>12 DEF Delivered, Member, OnItsWay, At
<1> QED
  BY <1>3, <1>4, <1>5, <1>6, <1>7, <1>8, <1>9, <1>10, <1>11, <1>12
     DEF Next, Serve, Trash, Tick, vars, tables

\* Whatever overlaps, a comment that a page of the web app has not shown somebody
\* is still new to them, unless a page is on its way (unread.go:3): the insert,
\* the mark and the page may be any number of requests' and come in any order.
THEOREM NothingIsMissed == Spec => []HardToMiss
<1> DEFINE Inv == TypeOK /\ Numbered /\ Delivered
<1>1. Init => Inv
  <2>1. ASSUME Init
        PROVE  Delivered
    <3>1. \A c \in comments : c.at = 0
      BY <2>1 DEF Init
    <3>2. \A p \in People : joined[p] \in {0, Out}
      BY <2>1 DEF Init
    <3> QED
      BY <3>1, <3>2, UnreadConstants DEF Delivered, Member
  <2> QED
    BY <2>1, TypeStarts, NumberedStarts
<1>2. Inv /\ [Next]_vars => Inv'
  BY TypeStays, NumberedStays, DeliveredStays
<1>3. Inv => HardToMiss
  <2>1. ASSUME Inv, NEW p \in Browsers, NEW c \in Untold(p), ~OnItsWay(p)
        PROVE  c \in News(p)
    <3>1. /\ c \in comments /\ Member(p) /\ c.task \in live /\ c.by # p
          /\ c.at > joined[p] /\ c.id \notin Earlier /\ c.id \notin sent[p]
      BY DEF Untold
    <3>2. c.at \in Nat /\ c.id \in Nat /\ c.task \in Tasks /\ joined[p] \in Nat /\ since \in Nat
      BY <2>1, <3>1, UnreadConstants DEF TypeOK, Comment, Ids, Times, Out
    <3>3. seenUpTo[p][c.task] \in 0 .. MaxComments
      BY <2>1, <3>2, UnreadConstants DEF TypeOK
    <3>4. c.id > seenUpTo[p][c.task]
      BY <2>1, <3>1, <3>2, <3>3, UnreadConstants DEF Delivered
    <3>5. c.id > since
      BY <2>1, <3>1, <3>2 DEF Numbered
    <3> QED
      BY <3>1, <3>2, <3>4, <3>5 DEF News, SinceTheyJoined
  <2> HIDE DEF Inv
  <2> QED
    BY <2>1 DEF HardToMiss
<1> QED
  BY <1>1, <1>2, <1>3, PTL DEF Spec

=============================================================================
