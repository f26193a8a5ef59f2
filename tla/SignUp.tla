------------------------------- MODULE SignUp -------------------------------
(***************************************************************************)
(* Accounts coming and going: the sign-up limiter of ratelimit.go, the     *)
(* handlers of web.go that make an account, and the public demo            *)
(* (internal/demo, PurgeUsersOlderThan), which erases accounts a day after *)
(* they were made.                                                         *)
(*                                                                         *)
(* Requests read the time before they wait for the limiter's lock.  The    *)
(* server is stopped and started again, in demo mode or not.  The sweep's  *)
(* two statements are one transaction, but each has its own 'now'.         *)
(***************************************************************************)
EXTENDS Integers, FiniteSets

CONSTANTS
    Addresses,    \* what clientIP tells apart
    Burst,        \* signupBurst
    Refill,       \* signupRefill, in seconds
    SweepAt,      \* how many buckets there are before any is forgotten
    Lifetime,     \* how long a demo's account lasts, in seconds
    MaxUsers,     \* accounts in all (a bound)
    MaxTime,      \* seconds (a bound)
    MaxWait,      \* seconds a request waits for the limiter's lock, at most
    Slots,        \* sign-ups at work at once (a bound)
    None

ASSUME SignUpConstants ==
    /\ {Burst, Refill, Lifetime} \subseteq Nat \ {0}
    /\ {MaxWait, SweepAt, MaxUsers, MaxTime} \subseteq Nat

UserIds == 1 .. MaxUsers
Full == Burst * Refill    \* tokens are counted in parts of 1/Refill

VARIABLES
    mode,     \* the server: off, on, or on as a demo
    mark,     \* settings: demo
    user,     \* user[u]: when the account was made, and whether (history) the
              \* database was not a demo's then
    lists,    \* the lists made by u: none, u's own, or public (ownerless)
    nextUser, \* AUTOINCREMENT
    sweep,    \* PurgeUsersOlderThan between its statements: the lists it has
              \* deleted, and when
    bucket,   \* the limiter's
    request,  \* sign-ups at work
    clock,
    granted,  \* history: sign-ups let through since the server started,
    forgotten,\* how often an address's bucket has been forgotten since,
    started   \* and when that was

accounts == <<user, lists, nextUser>>
vars == <<mode, mark, accounts, sweep, bucket, request, clock, granted,
          forgotten, started>>

Times == 0 .. MaxTime
User == [at: Times, real: BOOLEAN]
Bucket == [tokens: Int, seen: Times]
Request == [step: {"lock", "create", "mates", "list"}, from: Addresses, now: Times,
            who: UserIds \cup {None}]

ASSUME NoneIsNoRecord ==
    None \notin User /\ None \notin Bucket /\ None \notin Request /\ None \notin UserIds

Init ==
    /\ mode = "off" /\ mark = FALSE
    /\ user = [u \in UserIds |-> None] /\ lists = [u \in UserIds |-> "none"]
    /\ nextUser = 1 /\ sweep = None
    /\ bucket = [a \in Addresses |-> None]
    /\ request = [s \in Slots |-> None]
    /\ clock = 0
    /\ granted = [a \in Addresses |-> 0] /\ forgotten = granted /\ started = 0

----------------------------------------------------------------------------
(* The limiter.                                                            *)

At(s, step) == request[s] # None /\ request[s].step = step
Finish(s) == request' = [request EXCEPT ![s] = None]

Buckets(b) == {a \in Addresses : b[a] # None}

Stale(b, now) == now - b.seen > Full

\* sweep: only when there are many, and when an address is added.
Swept(b, now) ==
    IF Cardinality(Buckets(b)) < SweepAt THEN b
    ELSE [a \in Addresses |-> IF b[a] # None /\ Stale(b[a], now) THEN None ELSE b[a]]

\* A slip: what was refilled is not taken off the time it was refilled for.
RefilledTwice(b, now) ==
    [tokens |-> IF b.tokens + (now - b.seen) > Full THEN Full ELSE b.tokens + (now - b.seen),
     seen |-> b.seen]

\* A slip: what was refilled is not limited.
RefilledOver(b, now) == [tokens |-> b.tokens + (now - b.seen), seen |-> now]

\* One token per refill period since the bucket was last looked at, which may
\* be after now.
Refilled(b, now) ==
    [tokens |-> IF b.tokens + (now - b.seen) > Full THEN Full ELSE b.tokens + (now - b.seen),
     seen |-> now]

\* A request for an account: allow, as far as its reading of the clock.
Ask(s, a) ==
    /\ mode # "off" /\ request[s] = None
    /\ request' = [request EXCEPT ![s] = [step |-> "lock", from |-> a, now |-> clock, who |-> None]]
    /\ UNCHANGED <<mode, mark, accounts, sweep, bucket, clock, granted, forgotten, started>>

\* allow, with its lock held.
Allow(s) ==
    /\ At(s, "lock")
    /\ LET a == request[s].from
           now == request[s].now
           added == IF bucket[a] # None THEN bucket
                    ELSE Swept([bucket EXCEPT ![a] = [tokens |-> Full, seen |-> now]], now)
           b == Refilled(added[a], now)
       IN  IF b.tokens < Refill
           THEN /\ bucket' = [added EXCEPT ![a] = b]
                /\ Finish(s) /\ UNCHANGED granted
           ELSE /\ bucket' = [added EXCEPT ![a] = [b EXCEPT !.tokens = @ - Refill]]
                /\ request' = [request EXCEPT ![s].step = "create"]
                /\ granted' = [granted EXCEPT ![a] = @ + 1]
    /\ forgotten' = [c \in Addresses |->
           forgotten[c] + IF bucket[c] # None /\ bucket'[c] = None THEN 1 ELSE 0]
    /\ UNCHANGED <<mode, mark, accounts, sweep, clock, started>>

----------------------------------------------------------------------------
(* The handlers.                                                           *)

\* The database has one writer at a time.
Free == sweep = None

Made(u) == user' = [user EXCEPT ![u] = [at |-> clock, real |-> ~mark]] /\ nextUser' = u + 1

\* CreateUser, in welcomePost, joinPost or apiCreateUser; or a name that is
\* none.  In a demo the first of these goes on to Seed.
Create(s) ==
    /\ At(s, "create") /\ Free
    /\ \/ Finish(s) /\ UNCHANGED accounts
       \/ /\ nextUser <= MaxUsers
          /\ Made(nextUser) /\ UNCHANGED lists
          /\ \/ Finish(s)
             \/ /\ mode = "demo"
                /\ request' = [request EXCEPT ![s].step = "mates", ![s].who = nextUser]
    /\ UNCHANGED <<mode, mark, sweep, bucket, clock, granted, forgotten, started>>

\* Seed: first the teammates (here one), then the visitor's lists.
Mates(s) ==
    /\ At(s, "mates") /\ Free
    /\ IF nextUser <= MaxUsers
       THEN /\ Made(nextUser) /\ UNCHANGED lists
            /\ request' = [request EXCEPT ![s].step = "list"]
       ELSE Finish(s) /\ UNCHANGED accounts
    /\ UNCHANGED <<mode, mark, sweep, bucket, clock, granted, forgotten, started>>

\* Fails, and with it Seed, if the visitor is no more.
SeedList(s) ==
    /\ At(s, "list") /\ Free
    /\ lists' = IF user[request[s].who] = None THEN lists
                ELSE [lists EXCEPT ![request[s].who] = "own"]
    /\ Finish(s)
    /\ UNCHANGED <<mode, mark, user, nextUser, sweep, bucket, clock, granted, forgotten, started>>

\* A list somebody makes later on.
MakeList(u) ==
    /\ mode # "off" /\ Free
    /\ user[u] # None /\ lists[u] = "none"
    /\ lists' = [lists EXCEPT ![u] = "own"]
    /\ UNCHANGED <<mode, mark, user, nextUser, sweep, bucket, request, clock, granted, forgotten, started>>

----------------------------------------------------------------------------
(* The demo.                                                               *)

Begun ==
    /\ started' = clock
    /\ UNCHANGED <<accounts, sweep, bucket, request, clock, granted, forgotten>>

Start ==
    /\ mode = "off" /\ mode' = "on"
    /\ Begun /\ UNCHANGED mark

\* A slip: nobody is asked whose database it is.
RefusedNever == FALSE

\* Prepare's refusal.
Refused == ~mark /\ \E u \in UserIds : user[u] # None

\* main with -demo: Prepare, and MarkDemo if the database is empty.
StartDemo ==
    /\ mode = "off" /\ ~Refused
    /\ mode' = "demo" /\ mark' = TRUE
    /\ Begun

\* The process ends, and with it the limiter; a transaction that was open is
\* rolled back.
Stop ==
    /\ mode # "off" /\ mode' = "off"
    /\ sweep' = None /\ request' = [s \in Slots |-> None]
    /\ bucket' = [a \in Addresses |-> None]
    /\ granted' = [a \in Addresses |-> 0] /\ forgotten' = granted' /\ started' = 0
    /\ UNCHANGED <<mark, accounts, clock>>

Old(u) == user[u] # None /\ user[u].at < clock - Lifetime

\* A slip: the lists are left to the foreign key.
DoomedLists == {}

\* PurgeUsersOlderThan: DELETE FROM lists WHERE owner_id IN ...
OwnedByOld == {u \in UserIds : Old(u) /\ lists[u] = "own"}

\* At once, and then every ten minutes.
SweepLists ==
    /\ mode = "demo" /\ mark /\ Free
    /\ sweep' = [lists |-> OwnedByOld, at |-> clock]
    /\ UNCHANGED <<mode, mark, accounts, bucket, request, clock, granted, forgotten, started>>

\* DELETE FROM users WHERE ...
Gone == {u \in UserIds : Old(u)}

\* and the commit.  A list whose owner is deleted becomes ownerless.
SweepUsers ==
    /\ sweep # None
    /\ user' = [u \in UserIds |-> IF u \in Gone THEN None ELSE user[u]]
    /\ lists' = [u \in UserIds |->
           IF u \in sweep.lists THEN "none"
           ELSE IF u \in Gone /\ lists[u] = "own" THEN "public" ELSE lists[u]]
    /\ sweep' = None
    /\ UNCHANGED <<mode, mark, nextUser, bucket, request, clock, granted, forgotten, started>>

Tick ==
    /\ clock < MaxTime /\ clock' = clock + 1
    /\ \A s \in Slots : At(s, "lock") => clock - request[s].now < MaxWait
    /\ UNCHANGED <<mode, mark, accounts, sweep, bucket, request, granted, forgotten, started>>

Next ==
    \/ Start \/ StartDemo \/ Stop \/ Tick
    \/ SweepLists \/ SweepUsers
    \/ \E s \in Slots, a \in Addresses : Ask(s, a)
    \/ \E s \in Slots : Allow(s) \/ Create(s) \/ Mates(s) \/ SeedList(s)
    \/ \E u \in UserIds : MakeList(u)

Spec == Init /\ [][Next]_vars

----------------------------------------------------------------------------
(* Properties.                                                             *)

TypeOK ==
    /\ mode \in {"off", "on", "demo"} /\ mark \in BOOLEAN
    /\ user \in [UserIds -> User \cup {None}]
    /\ lists \in [UserIds -> {"none", "own", "public"}]
    /\ nextUser \in 1 .. MaxUsers + 1
    /\ sweep = None \/ sweep \in [lists: SUBSET UserIds, at: Times]
    /\ bucket \in [Addresses -> Bucket \cup {None}]
    /\ \A a \in Buckets(bucket) : bucket[a].tokens < Full
    /\ request \in [Slots -> Request \cup {None}]
    /\ clock \in Times /\ started \in Times
    /\ granted \in [Addresses -> Nat] /\ forgotten \in [Addresses -> Nat]

\* However requests overtake one another between the clock and the lock, no
\* address gets more than "new identities in a row ... and one more every minute
\* after that" (ratelimit.go:15) from a server that stays up, but for what comes
\* of forgetting: the bucket that is forgotten may have been looked at last by a
\* request that waited for the lock, and so may the one that takes its place.
SignupsBounded ==
    \A a \in Addresses :
        granted[a] * Refill <= Full + (clock - started) + 2 * MaxWait * forgotten[a]

\* An account made before the database was set aside for the demo is never
\* erased, in whichever mode and order the server is started (demo.go:24).
RealAccountsKept ==
    [][\A u \in UserIds : user[u] # None /\ user[u].real => user'[u] = user[u]]_vars

\* A sandbox's lists go with it, and never become public, if no second passes
\* between the sweep's two statements.
OwnerlessOnlyAtTheEdge ==
    [][\A u \in UserIds : (lists[u] # "public" /\ lists'[u] = "public")
           => sweep.at < clock]_vars

\* "Deleting an owner would otherwise leave their lists ownerless, which in
\* Doables means public" (store.go:505): the sweep leaves none.
NoListIsLeftPublic == \A u \in UserIds : lists[u] # "public"
=============================================================================
