------------------------------- MODULE Unread -------------------------------
(***************************************************************************)
(* Comments and what is new to whom (internal/store/unread.go, the comment *)
(* half of store.go, and the handlers in web.go).                          *)
(*                                                                         *)
(* Requests come between each other's statements: a comment is inserted    *)
(* in one and its author marked as up to date in another; the API reads a  *)
(* conversation in one and marks it as seen in another; the page marks it  *)
(* first and is rendered after.  People join and leave the list, and the   *)
(* server is restarted.  Timestamps are in whole seconds, so several       *)
(* things happen at the same one.                                          *)
(***************************************************************************)
EXTENDS Naturals, FiniteSets

CONSTANTS
    People,
    Owner,        \* whose list it is: they cannot leave
    Browsers,     \* those who use the web app; the others use the API
    Tasks,
    Earlier,      \* the comment ids there were before a release that counts
    MaxComments,  \* comments in all (a bound)
    MaxTime,      \* seconds (a bound)
    Slots,        \* requests at work at once (a bound)
    None

ASSUME UnreadConstants ==
    /\ Browsers \subseteq People /\ Owner \in People
    /\ MaxComments \in Nat /\ MaxTime \in Nat
    /\ Earlier \subseteq 1 .. MaxComments

Ids == 1 .. MaxComments
Times == 0 .. MaxTime
Out == MaxTime + 1               \* joined_at of somebody who is not a member

VARIABLES
    comments,   \* the comments table: id, task, author and created_at
    nextId,     \* AUTOINCREMENT
    joined,     \* joined[p]: list_members.joined_at
    live,       \* the tasks that are not in the trash
    seenUpTo,   \* comment_reads: seenUpTo[p][t], 0 without a row
    since,      \* settings: unread_since
    clock,
    requests,
    sent,       \* history: sent[p], the comments p was sent since joining, or was
                \* about to be when the server stopped
    witnesses   \* history: witnesses[c], who was on the list when c was made

tables == <<comments, nextId, joined, live, seenUpTo, since>>
vars == <<tables, clock, requests, sent, witnesses>>

Comment == [id: Ids, task: Tasks, by: People, at: Times]
Steps == {"insert", "list", "mark", "page", "answer"}
Request == [step: Steps, who: People, task: Tasks, got: SUBSET Ids]

ASSUME NoneIsNoRequest == None \notin Request

Member(p) == joined[p] # Out
Largest(S) == CHOOSE x \in S \cup {0} : \A y \in S : y <= x
On(t) == {c \in comments : c.task = t}
IdsOf(S) == {c.id : c \in S}

\* The first start of a release that counts: startUnreadCounting has written
\* down how far the comments went that were there already.
Init ==
    /\ \E task \in [Earlier -> Tasks] :
           comments = {[id |-> i, task |-> task[i], by |-> Owner, at |-> 0] : i \in Earlier}
    /\ since = Largest(Earlier) /\ nextId = since + 1
    /\ joined \in [People -> {0, Out}] /\ joined[Owner] = 0
    /\ live = Tasks
    /\ seenUpTo = [p \in People |-> [t \in Tasks |-> 0]]
    /\ clock = 0
    /\ requests = [s \in Slots |-> None]
    /\ sent = [p \in People |-> {}]
    /\ witnesses = [i \in Ids |-> {}]

----------------------------------------------------------------------------
(* Unread: the comments new to somebody, by the words of its query.        *)

\* A slip: whatever was said before they joined is new as well.
SinceTheyJoinedForgotten(p, c) == TRUE

SinceTheyJoined(p, c) == c.at >= joined[p]

News(p) ==
    {c \in comments :
        /\ Member(p) /\ c.task \in live
        /\ c.by # p
        /\ SinceTheyJoined(p, c)
        /\ c.id > seenUpTo[p][c.task]
        /\ c.id > since}

----------------------------------------------------------------------------
(* The handlers.                                                           *)

At(s, step) == requests[s] # None /\ requests[s].step = step
Goto(s, step) == requests' = [requests EXCEPT ![s].step = step]
Finish(s) == requests' = [requests EXCEPT ![s] = None]

\* A request past TaskAccess, before which it does nothing: a comment, by form
\* or API; a page's own post when a thread is opened, which marks what the page
\* has in front of it; the API asked for a conversation.
Begin(s, p, t) ==
    /\ requests[s] = None
    /\ Member(p) /\ t \in live
    /\ \E step \in {"insert", IF p \in Browsers THEN "mark" ELSE "list"} :
           /\ step = "mark" => sent[p] # {}
           /\ requests' = [requests EXCEPT ![s] =
                  [step |-> step, who |-> p, task |-> t, got |-> {}]]
    /\ UNCHANGED <<tables, clock, sent, witnesses>>

\* AddComment: the task is looked up again, and then INSERT.
Insert(s) ==
    /\ At(s, "insert")
    /\ LET r == requests[s] IN
           IF r.task \notin live \/ nextId > MaxComments
           THEN Finish(s) /\ UNCHANGED <<comments, nextId, witnesses, sent>>
           ELSE /\ comments' = comments \cup
                       {[id |-> nextId, task |-> r.task, by |-> r.who, at |-> clock]}
                /\ nextId' = nextId + 1
                /\ witnesses' = [witnesses EXCEPT ![nextId] = {p \in People : Member(p)}]
                /\ sent' = [sent EXCEPT ![r.who] = @ \cup {nextId}]
                /\ Goto(s, "mark")
    /\ UNCHANGED <<joined, live, seenUpTo, since, clock>>

\* apiComments -> Comments
List(s) ==
    /\ At(s, "list")
    /\ requests' = [requests EXCEPT ![s].step = "mark",
                                     ![s].got = IdsOf(On(requests[s].task))]
    /\ UNCHANGED <<tables, clock, sent, witnesses>>

\* A slip: one too many, the comment that is still to come.
NextOn(t) == nextId

NewestOn(t) == Largest(IdsOf(On(t)))

\* A slip: where the page's post ends is a page that was rendered before it.
AfterMarkAnswer(r) == "answer"

\* The web app's forms end in a redirect to the page, the API's in an answer.
AfterMark(r) == IF r.who \in Browsers THEN "page" ELSE "answer"

\* markSeen: INSERT ... ON CONFLICT DO UPDATE SET seen_up_to = MAX(...)
Mark(s) ==
    /\ At(s, "mark")
    /\ LET r == requests[s]
           newest == NewestOn(r.task) IN
           /\ seenUpTo' = [seenUpTo EXCEPT ![r.who][r.task] = Largest({@, newest})]
           /\ Goto(s, AfterMark(r))
    /\ UNCHANGED <<comments, nextId, joined, live, since, clock, sent, witnesses>>

Answer(s) ==
    /\ At(s, "answer")
    /\ sent' = [sent EXCEPT ![requests[s].who] = @ \cup requests[s].got]
    /\ Finish(s)
    /\ UNCHANGED <<tables, clock, witnesses>>

\* The list's page, with the conversations of all its tasks (ListComments);
\* who has been put off the list meanwhile gets none.  (Those of a task in the
\* trash come when it is restored, which every open page is told; see Live.)
Shown(p) ==
    sent' = IF Member(p) THEN [sent EXCEPT ![p] = @ \cup IdsOf(comments)] ELSE sent

Page(s) ==
    /\ At(s, "page")
    /\ Shown(requests[s].who) /\ Finish(s)
    /\ UNCHANGED <<tables, clock, witnesses>>

Load(p) ==
    /\ p \in Browsers /\ Shown(p)
    /\ UNCHANGED <<tables, clock, requests, witnesses>>

\* CommentAccess and DeleteComment, of one's own
Delete(c) ==
    /\ Member(c.by) /\ c.task \in live
    /\ comments' = comments \ {c}
    /\ sent' = [p \in People |-> sent[p] \ {c.id}]
    /\ witnesses' = [witnesses EXCEPT ![c.id] = {}]
    /\ UNCHANGED <<nextId, joined, live, seenUpTo, since, clock, requests>>

----------------------------------------------------------------------------
(* The rest of the world.                                                  *)

\* A slip: joining again leaves the day somebody first joined, as does staying.
JoinedAtFirst(p) == 0

JoinedAt(p) == clock

\* AddMember's INSERT OR IGNORE, RemoveMember's DELETE
Join(p) ==
    /\ ~Member(p)
    /\ joined' = [joined EXCEPT ![p] = JoinedAt(p)]
    /\ UNCHANGED <<comments, nextId, live, seenUpTo, since, clock, requests, sent, witnesses>>

Leave(p) ==
    /\ Member(p) /\ p # Owner
    /\ joined' = [joined EXCEPT ![p] = Out]
    /\ sent' = [sent EXCEPT ![p] = {}]
    /\ UNCHANGED <<comments, nextId, live, seenUpTo, since, clock, requests, witnesses>>

\* DeleteTask, RestoreTask
Trash(t) ==
    /\ live' = IF t \in live THEN live \ {t} ELSE live \cup {t}
    /\ UNCHANGED <<comments, nextId, joined, seenUpTo, since, clock, requests, sent, witnesses>>

Tick ==
    /\ clock < MaxTime /\ clock' = clock + 1
    /\ UNCHANGED <<tables, requests, sent, witnesses>>

\* A slip: startUnreadCounting's INSERT replaces what it finds.
CountingFromNow == Largest(IdsOf(comments))

\* startUnreadCounting: INSERT OR IGNORE
CountingSince == since

\* Requests are cut short; a page that was not delivered is loaded again when
\* the browser reaches the server (see Live).
Restart ==
    /\ sent' = [p \in People |->
           IF \E s \in Slots : At(s, "page") /\ requests[s].who = p
           THEN sent[p] \cup IdsOf(comments) ELSE sent[p]]
    /\ requests' = [s \in Slots |-> None]
    /\ since' = CountingSince
    /\ UNCHANGED <<comments, nextId, joined, live, seenUpTo, clock, witnesses>>

Serve(s) == Insert(s) \/ List(s) \/ Mark(s) \/ Answer(s) \/ Page(s)

Next ==
    \/ \E s \in Slots :
           Serve(s) \/ \E p \in People, t \in Tasks : Begin(s, p, t)
    \/ \E p \in People : Join(p) \/ Leave(p) \/ Load(p)
    \/ \E c \in comments : Delete(c)
    \/ \E t \in Tasks : Trash(t)
    \/ Tick \/ Restart

Spec == Init /\ [][Next]_vars

----------------------------------------------------------------------------
(* Properties.                                                             *)

\* Every table and request holds values of its kind.
TypeOK ==
    /\ comments \subseteq Comment
    /\ nextId \in 1 .. MaxComments + 1
    /\ joined \in [People -> Times \cup {Out}]
    /\ live \subseteq Tasks
    /\ seenUpTo \in [People -> [Tasks -> 0 .. MaxComments]]
    /\ since \in 0 .. MaxComments
    /\ clock \in Times
    /\ requests \in [Slots -> Request \cup {None}]
    /\ sent \in [People -> SUBSET Ids]
    /\ witnesses \in [Ids -> SUBSET People]

\* What p has not been sent, and should have been told of: said by others on a
\* live task since p joined (in a later second) and since counting began.
Untold(p) ==
    {c \in comments :
        /\ Member(p) /\ c.task \in live
        /\ c.by # p /\ c.at > joined[p] /\ c.id \notin Earlier
        /\ c.id \notin sent[p]}

OnItsWay(p) == \E s \in Slots : At(s, "page") /\ requests[s].who = p

\* "A comment is new to someone until they have seen its task's conversation"
\* (unread.go:3): whatever overlaps, a comment that a page of the web app has
\* not shown somebody is still new to them, unless a page is on its way.
HardToMiss == \A p \in Browsers : Untold(p) \subseteq News(p) \/ OnItsWay(p)

\* The same for everybody.
NewUntilSeen == \A p \in People : Untold(p) \subseteq News(p) \/ OnItsWay(p)

\* "nor are ones written before they joined the list" (unread.go:4-5): what is
\* new to somebody was said while they were on the list, or in the very second
\* they joined, however often they left and came back.
NothingFromBefore ==
    \A p \in People : \A c \in News(p) : p \in witnesses[c.id] \/ c.at = joined[p]
=============================================================================
