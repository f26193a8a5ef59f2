-------------------------------- MODULE Push --------------------------------
(***************************************************************************)
(* Notifications (internal/push, internal/store/push.go, and the me/push   *)
(* and announce handlers of web.go) about one list.                        *)
(*                                                                         *)
(* People turn them on and off in browsers, which change hands; requests   *)
(* choose whom to tell and then put a message in a queue that has room for *)
(* so many; Run takes one at a time, looks up the browsers of one person   *)
(* after the other, and sends to one browser after the other, forgetting   *)
(* those their push service says are gone.  Two servers may start on a     *)
(* database that has no keys yet; a server that stops takes its queue with *)
(* it.  Failing statements are left out: each ends in a logged line.       *)
(***************************************************************************)
EXTENDS Naturals, Sequences, FiniteSets

CONSTANTS
    People,
    Browsers,     \* endpoints: each is one browser's, and tied to one key
    Servers,
    Serving,      \* those of them that people's requests reach
    MaxDevices,   \* maxDevices
    QueueCap,     \* the capacity of Sender.queue
    MaxSaves,     \* rows inserted in all (a bound)
    MaxMessages,  \* things to tell about in all (a bound)
    MaxTime,      \* seconds (a bound)
    None

ASSUME PushConstants ==
    /\ Serving \subseteq Servers /\ IsFiniteSet(Browsers)
    /\ MaxDevices \in Nat \ {0} /\ QueueCap \in Nat \ {0}
    /\ {MaxSaves, MaxMessages, MaxTime} \subseteq Nat
    /\ None \notin People \cup Browsers \cup Servers

VARIABLES
    row,      \* push_subscriptions: whose the endpoint is, created_at and id
    saves,    \* rows inserted so far
    wanting,  \* who is on the list and wants this kind of notice
    keys,     \* settings: vapid_private and vapid_public, by who made each
    step, pair,       \* step[s] of main, and the keys PushKeys gave it
    telling,  \* the request that has something to tell
    queue, job,       \* of each server
    clock, messages,
    alive,    \* the push services' side: browsers that take notifications
    tied,     \* and the key each was subscribed with
    lastOn    \* history: who turned notifications on last, and has not since off

database == <<row, saves, wanting, keys>>
bounds == <<clock, messages>>
vars == <<database, step, pair, telling, queue, job, bounds, alive, tied, lastOn>>

Row == [of: People, made: 0 .. MaxTime, id: 1 .. MaxSaves]
Pair == [private: Servers \cup {None}, public: Servers \cup {None}]
NoPair == [private |-> None, public |-> None]
Job == [left: SUBSET People, found: SUBSET (People \X Browsers), gone: Browsers \cup {None}]
NoJob == [left |-> {}, found |-> {}, gone |-> None]
Telling == [at: Servers, among: SUBSET People, to: SUBSET People]

ASSUME NoneIsNoRecord == None \notin Row /\ None \notin Telling

Init ==
    /\ row = [b \in Browsers |-> None] /\ saves = 0
    /\ wanting = People
    /\ keys = NoPair
    /\ step = [s \in Servers |-> "off"] /\ pair = [s \in Servers |-> NoPair]
    /\ telling = None
    /\ queue = [s \in Servers |-> <<>>] /\ job = [s \in Servers |-> NoJob]
    /\ clock = 0 /\ messages = 0
    /\ alive = Browsers /\ tied = [b \in Browsers |-> None]
    /\ lastOn = [b \in Browsers |-> None]

----------------------------------------------------------------------------
(* The server's keys.                                                      *)

Up(s) == step[s] = "up"

\* push.New, and PushKeys as far as its first query.
Start(s) ==
    /\ step[s] = "off"
    /\ IF None \in {keys.private, keys.public}
       THEN step' = [step EXCEPT ![s] = "making"] /\ UNCHANGED pair
       ELSE step' = [step EXCEPT ![s] = "up"] /\ pair' = [pair EXCEPT ![s] = keys]
    /\ UNCHANGED <<database, telling, queue, job, bounds, alive, tied, lastOn>>

\* A slip: the pair made last is kept.
KeptLast(s) == [private |-> s, public |-> s]

\* INSERT OR IGNORE of either key.
Kept(s) ==
    [private |-> IF keys.private = None THEN s ELSE keys.private,
     public  |-> IF keys.public = None THEN s ELSE keys.public]

\* PushKeys' transaction, which reads back what is there.
Keep(s) ==
    /\ step[s] = "making"
    /\ keys' = Kept(s)
    /\ step' = [step EXCEPT ![s] = "up"]
    /\ pair' = [pair EXCEPT ![s] = keys']
    /\ UNCHANGED <<row, saves, wanting, telling, queue, job, bounds, alive, tied, lastOn>>

\* The process ends: nothing waits for Run, so what was queued is lost.  A
\* request that is still at work is cut short with it.
Stop(s) ==
    /\ step[s] # "off"
    /\ step' = [step EXCEPT ![s] = "off"] /\ pair' = [pair EXCEPT ![s] = NoPair]
    /\ queue' = [queue EXCEPT ![s] = <<>>] /\ job' = [job EXCEPT ![s] = NoJob]
    /\ telling' = IF telling # None /\ telling.at = s THEN None ELSE telling
    /\ UNCHANGED <<database, bounds, alive, tied, lastOn>>

----------------------------------------------------------------------------
(* Browsers.                                                               *)

Of(p) == {b \in Browsers : row[b] # None /\ row[b].of = p}
Older(r, q) == r.made < q.made \/ (r.made = q.made /\ r.id < q.id)

\* A slip: the oldest row makes way, however lately its browser was used.
OldestInserted(r, b) ==
    {c \in Browsers : r[c] # None /\ r[c].of = r[b].of /\
        Cardinality({d \in Browsers : r[d] # None /\ r[d].of = r[b].of /\ r[c].id < r[d].id})
            >= MaxDevices}

\* The rows past the limit, in the order the DELETE counts them.
Oldest(r, b) ==
    {c \in Browsers : r[c] # None /\ r[c].of = r[b].of /\
        Cardinality({d \in Browsers : r[d] # None /\ r[d].of = r[b].of /\ Older(r[c], r[d])})
            >= MaxDevices}

\* A slip: a browser stays with whoever turned notifications on there first.
Conflicting(b, p) == row[b]

\* ON CONFLICT (endpoint) DO UPDATE.
TakenOver(b, p) == [row[b] EXCEPT !.of = p, !.made = clock]

\* mePushOn: somebody's page turns notifications on, or says again that they
\* are.  The browser is subscribed with the key in the page, and stays so.
On(b, p) ==
    /\ b \in alive
    /\ \E s \in Serving :
           /\ Up(s)
           /\ tied' = IF tied[b] = None THEN [tied EXCEPT ![b] = pair[s].public] ELSE tied
    /\ IF row[b] = None THEN saves < MaxSaves /\ saves' = saves + 1 ELSE UNCHANGED saves
    /\ LET saved == [row EXCEPT ![b] = IF row[b] = None
                         THEN [of |-> p, made |-> clock, id |-> saves']
                         ELSE TakenOver(b, p)]
       IN  row' = [c \in Browsers |-> IF c \in Oldest(saved, b) THEN None ELSE saved[c]]
    /\ lastOn' = [lastOn EXCEPT ![b] = p]
    /\ UNCHANGED <<wanting, keys, step, pair, telling, queue, job, bounds, alive>>

\* RemovePushSubscription: DELETE ... WHERE user_id = ? AND endpoint = ?
Removed(b, p) == IF b \in Of(p) THEN [row EXCEPT ![b] = None] ELSE row

\* mePushOff.
Off(b, p) ==
    /\ \E s \in Serving : Up(s)
    /\ row' = Removed(b, p)
    /\ lastOn' = IF lastOn[b] = p THEN [lastOn EXCEPT ![b] = None] ELSE lastOn
    /\ UNCHANGED <<saves, wanting, keys, step, pair, telling, queue, job, bounds, alive, tied>>

\* Uninstalled, unsubscribed, or permission taken back: for good.
Unsubscribe(b) ==
    /\ tied[b] # None
    /\ alive' = alive \ {b}
    /\ UNCHANGED <<database, step, pair, telling, queue, job, bounds, tied, lastOn>>

\* meNotifyPrefs; and joining or leaving the list.
Prefer(p) ==
    /\ wanting' = IF p \in wanting THEN wanting \ {p} ELSE wanting \cup {p}
    /\ UNCHANGED <<row, saves, keys, step, pair, telling, queue, job, bounds, alive, tied, lastOn>>

----------------------------------------------------------------------------
(* From what somebody did to the queue.                                    *)

\* The query of ToNotify, and what the caller narrows it to.
Asking(among) == {p \in wanting \cap among : Of(p) # {}}

\* A request of server s has committed something to tell about: to the others,
\* a comment or a new task; to one of the others, a task they were given.
Do(s, by, only) ==
    /\ Up(s) /\ telling = None /\ messages < MaxMessages
    /\ only # by
    /\ messages' = messages + 1
    /\ telling' = [at |-> s, to |-> {},
                   among |-> IF only = None THEN People \ {by} ELSE {only}]
    /\ UNCHANGED <<database, step, pair, queue, job, clock, alive, tied, lastOn>>

\* notify, as far as ToNotify.
Choose ==
    /\ telling # None /\ telling.to = {}
    /\ LET to == Asking(telling.among) IN
           telling' = IF to = {} THEN None ELSE [telling EXCEPT !.to = to]
    /\ UNCHANGED <<database, step, pair, queue, job, bounds, alive, tied, lastOn>>

\* A slip: the message waits for room beside the queue.
PutAnyway(s, to) == [queue EXCEPT ![s] = Append(@, to)]

\* Notify: never waits; a full queue drops the message.
Put(s, to) ==
    IF Len(queue[s]) < QueueCap THEN [queue EXCEPT ![s] = Append(@, to)] ELSE queue

Queue ==
    /\ telling # None /\ telling.to # {}
    /\ telling' = None
    /\ queue' = Put(telling.at, telling.to)
    /\ UNCHANGED <<database, step, pair, job, bounds, alive, tied, lastOn>>

\* mePushTest.
Test(s, p) ==
    /\ Up(s) /\ messages < MaxMessages
    /\ messages' = messages + 1
    /\ queue' = Put(s, {p})
    /\ UNCHANGED <<database, step, pair, telling, job, clock, alive, tied, lastOn>>

----------------------------------------------------------------------------
(* Run and deliver.                                                        *)

Idle(s) == job[s] = NoJob

Take(s) ==
    /\ Up(s) /\ Idle(s) /\ queue[s] # <<>>
    /\ job' = [job EXCEPT ![s].left = Head(queue[s])]
    /\ queue' = [queue EXCEPT ![s] = Tail(@)]
    /\ UNCHANGED <<database, step, pair, telling, bounds, alive, tied, lastOn>>

\* PushSubscriptions: a query for each of the people.
Look(s) ==
    /\ Up(s)
    /\ \E p \in job[s].left :
           job' = [job EXCEPT ![s].left = @ \ {p}, ![s].found = @ \cup ({p} \X Of(p))]
    /\ UNCHANGED <<database, step, pair, telling, queue, bounds, alive, tied, lastOn>>

\* A slip: a browser that could not be reached is tried again.
UnsentTriedAgain(found, x, reached) == IF reached THEN found \ {x} ELSE found

Unsent(found, x, reached) == found \ {x}

\* send: within twenty seconds there is an answer, or there is not.
Send(s) ==
    /\ Up(s) /\ job[s].left = {} /\ job[s].gone = None
    /\ \E x \in job[s].found :
           \/ /\ x[2] \notin alive
              /\ job' = [job EXCEPT ![s].found = Unsent(@, x, FALSE), ![s].gone = x[2]]
           \/ \E reached \in BOOLEAN :
                  /\ reached => x[2] \in alive
                  /\ job' = [job EXCEPT ![s].found = Unsent(@, x, reached)]
    /\ UNCHANGED <<database, step, pair, telling, queue, bounds, alive, tied, lastOn>>

\* ForgetPushEndpoint.
Forgotten(b) == [row EXCEPT ![b] = None]

Forget(s) ==
    /\ Up(s) /\ job[s].gone # None
    /\ row' = Forgotten(job[s].gone)
    /\ job' = [job EXCEPT ![s].gone = None]
    /\ UNCHANGED <<saves, wanting, keys, step, pair, telling, queue, bounds, alive, tied, lastOn>>

Tick ==
    /\ clock < MaxTime
    /\ clock' = clock + 1
    /\ UNCHANGED <<database, step, pair, telling, queue, job, messages, alive, tied, lastOn>>

Work(s) == Take(s) \/ Look(s) \/ Send(s) \/ Forget(s)

Next ==
    \/ \E s \in Servers : Start(s) \/ Keep(s) \/ Stop(s)
    \/ \E s \in Servers : Take(s) \/ Look(s) \/ Send(s) \/ Forget(s)
    \/ \E b \in Browsers, p \in People : On(b, p) \/ Off(b, p)
    \/ \E b \in Browsers : Unsubscribe(b)
    \/ \E p \in People : Prefer(p)
    \/ \E s \in Serving, p \in People : Test(s, p)
    \/ \E s \in Serving, by \in People, only \in People \cup {None} : Do(s, by, only)
    \/ Choose \/ Queue \/ Tick

\* Run is a goroutine, and every send has a timeout: it goes on while the
\* server is up.  Nobody has to do anything else.
Fairness == \A s \in Servers : WF_vars(Work(s))

Spec == Init /\ [][Next]_vars /\ Fairness

----------------------------------------------------------------------------
(* Properties.                                                             *)

TypeOK ==
    /\ row \in [Browsers -> Row \cup {None}] /\ saves \in 0 .. MaxSaves
    /\ wanting \subseteq People
    /\ keys \in Pair /\ pair \in [Servers -> Pair]
    /\ step \in [Servers -> {"off", "making", "up"}]
    /\ telling \in Telling \cup {None}
    /\ queue \in [Servers -> Seq(SUBSET People)]
    /\ \A s \in Servers : Len(queue[s]) <= QueueCap
    /\ job \in [Servers -> Job]
    /\ clock \in 0 .. MaxTime /\ messages \in 0 .. MaxMessages
    /\ alive \subseteq Browsers /\ tied \in [Browsers -> Servers \cup {None}]
    /\ lastOn \in [Browsers -> People \cup {None}]

\* Every server signs with the two halves of one pair, the one every browser
\* was subscribed with, however many start at once on a database without keys
\* and however often: "new keys would silently cut off everyone" (store/push.go:163).
KeysMatch ==
    \A s \in Servers : Up(s) =>
        /\ pair[s].private = pair[s].public
        /\ \A b \in Browsers : row[b] # None => tied[b] = pair[s].private

\* "A browser belongs to whoever last turned notifications on in it"
\* (store/push.go:13): the server never keeps it for anybody else, whoever shared
\* it, turned it off in it or had too many.
BelongsToTheLast ==
    \A b \in Browsers : row[b] # None => row[b].of = lastOn[b]

\* A browser in which notifications were just turned on is one of its owner's
\* at that moment: the limit makes older ones go, unless all of them were
\* saved within the same second.  (The page says "On for this device".)
JustTurnedOnStays ==
    [][\A b \in Browsers, p \in People :
           (On(b, p) /\ Cardinality({c \in Of(p) \ {b} : row[c].made = clock}) < MaxDevices)
               => row'[b] # None]_vars

\* A server that stays up comes to the end of its messages, whatever the push
\* services answer, or do not.
QueueDrains ==
    \A s \in Servers : []<>(Idle(s) /\ queue[s] = <<>>)
=============================================================================
