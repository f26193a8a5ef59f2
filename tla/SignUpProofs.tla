---------------------------- MODULE SignUpProofs ----------------------------
(***************************************************************************)
(* What SignUp guarantees for any number of addresses, accounts and        *)
(* sign-ups at once, and for every burst, refill and wait: sign-ups are    *)
(* bounded, accounts from before the demo are kept, and a list only        *)
(* becomes public when a second passes within the sweep.                   *)
(*                                                                         *)
(* For the bound the inductive invariant says what each bucket is worth:   *)
(* what was granted and what is left, less what came in by its clock, is   *)
(* no more than a full bucket, and an address whose bucket was forgotten   *)
(* has been granted no more than a new, full one leaves room for.          *)
(***************************************************************************)
EXTENDS SignUp, TLAPS

----------------------------------------------------------------------------
(* The limiter's arithmetic.                                               *)

\* One more of something, times what each is worth.
LEMMA OneMore ==
    ASSUME NEW m \in Nat, NEW n \in Nat
    PROVE  n * m \in Nat /\ (n + 1) * m = n * m + m /\ m * n = n * m
OBVIOUS

\* A full bucket holds at least one token.
LEMMA FullHoldsOne == Refill \in Nat /\ Refill > 0 /\ Full \in Nat /\ Full >= Refill
<1>1. Refill \in Nat /\ Refill > 0 /\ Burst \in Nat /\ Burst > 0
  BY SignUpConstants
<1>2. PICK n \in Nat : Burst = n + 1
  <2>1. Burst - 1 \in Nat /\ Burst = (Burst - 1) + 1
    BY <1>1
  <2> QED
    BY <2>1
<1>3. n * Refill \in Nat /\ Full = n * Refill + Refill
  BY <1>1, <1>2, OneMore DEF Full
<1> QED
  BY <1>1, <1>3

\* What an address was granted, and what forgetting its bucket may have given it.
Used(a) == granted[a] * Refill
Extra(a) == 2 * MaxWait * forgotten[a]

\* What a grant and a forgotten bucket add to the account of an address.
LEMMA UsedAndExtra ==
    ASSUME TypeOK, NEW a \in Addresses
    PROVE  /\ Used(a) \in Nat /\ (granted[a] + 1) * Refill = Used(a) + Refill
           /\ Extra(a) \in Nat
           /\ 2 * MaxWait * (forgotten[a] + 1) = Extra(a) + 2 * MaxWait
<1>1. granted[a] \in Nat /\ forgotten[a] \in Nat /\ MaxWait \in Nat /\ Refill \in Nat
  BY SignUpConstants DEF TypeOK
<1>2. 2 * MaxWait \in Nat
  BY <1>1
<1> QED
  BY <1>1, <1>2, OneMore DEF Used, Extra

----------------------------------------------------------------------------
(* Types.                                                                  *)

\* Allow, by whether a bucket was added and by whether a token was left.
Added(s) ==
    LET a == request[s].from
        now == request[s].now IN
    IF bucket[a] # None THEN bucket
    ELSE Swept([bucket EXCEPT ![a] = [tokens |-> Full, seen |-> now]], now)

\* The bucket of its own address is there when Allow looks at it, and every other
\* one is as it was or forgotten.
LEMMA AddedBuckets ==
    ASSUME TypeOK, NEW s \in Slots, At(s, "lock")
    PROVE  LET a == request[s].from
               now == request[s].now
           IN /\ request[s] \in Request /\ a \in Addresses /\ now \in Times
              /\ Added(s) \in [Addresses -> Bucket \cup {None}]
              /\ bucket[a] # None => Added(s) = bucket
              /\ bucket[a] = None => Added(s)[a] = [tokens |-> Full, seen |-> now]
              /\ \A c \in Addresses \ {a} :
                     \/ Added(s)[c] = bucket[c]
                     \/ bucket[c] # None /\ Stale(bucket[c], now) /\ Added(s)[c] = None
<1> DEFINE a == request[s].from
           now == request[s].now
           new == [tokens |-> Full, seen |-> now]
           with == [bucket EXCEPT ![a] = new]
<1>1. request[s] \in Request /\ a \in Addresses /\ now \in Times
  BY DEF At, TypeOK, Request
<1>2. new \in Bucket /\ new # None /\ new.seen = now
  BY <1>1, FullHoldsOne, NoneIsNoRecord DEF Bucket
<1>3. now \in Int /\ Full \in Nat
  BY <1>1, FullHoldsOne, SignUpConstants DEF Times
<1>4. ~Stale(new, now)
  BY <1>2, <1>3 DEF Stale
<1>5. CASE bucket[a] # None
  BY <1>1, <1>5 DEF Added, TypeOK
<1>6. CASE bucket[a] = None
  <2> HIDE DEF new
  <2>1. Added(s) = Swept(with, now)
    BY <1>6 DEF Added, new
  <2>2. /\ with \in [Addresses -> Bucket \cup {None}] /\ with[a] = new
        /\ \A c \in Addresses \ {a} : with[c] = bucket[c]
    BY <1>1, <1>2 DEF TypeOK
  <2> HIDE DEF with
  <2>3. CASE Added(s) = with
    BY <1>1, <1>6, <2>2, <2>3 DEF new
  <2>4. CASE Added(s) = [c \in Addresses |->
                            IF with[c] # None /\ Stale(with[c], now) THEN None ELSE with[c]]
    BY <1>1, <1>4, <1>6, <2>2, <2>4 DEF new
  <2> QED
    BY <2>1, <2>3, <2>4 DEF Swept
<1> QED
  BY <1>1, <1>5, <1>6

\* A bucket refilled: what came in since, up to a full one.
LEMMA RefilledBucket ==
    ASSUME NEW b \in Bucket, NEW now \in Times
    PROVE  LET r == Refilled(b, now)
               left == b.tokens + (now - b.seen)
           IN /\ r \in Bucket /\ r.seen = now
              /\ left \in Int
              /\ r.tokens = IF left > Full THEN Full ELSE left
<1> QED
  BY FullHoldsOne, SignUpConstants DEF Bucket, Refilled, Times

\* What Allow leaves of its address's bucket.
LEMMA AllowedBucket ==
    ASSUME TypeOK, NEW s \in Slots, Allow(s)
    PROVE  LET a == request[s].from
               b == Refilled(Added(s)[a], request[s].now)
           IN /\ Added(s)[a] \in Bucket /\ b \in Bucket
              /\ \/ /\ b.tokens < Refill
                    /\ bucket' = [Added(s) EXCEPT ![a] = b]
                    /\ request' = [request EXCEPT ![s] = None] /\ granted' = granted
                 \/ /\ b.tokens >= Refill
                    /\ bucket' = [Added(s) EXCEPT ![a] = [b EXCEPT !.tokens = @ - Refill]]
                    /\ request' = [request EXCEPT ![s].step = "create"]
                    /\ granted' = [granted EXCEPT ![a] = @ + 1]
<1> DEFINE a == request[s].from
           b == Refilled(Added(s)[a], request[s].now)
<1>1. At(s, "lock")
  BY DEF Allow
<1>2. Added(s)[a] \in Bucket /\ request[s].now \in Times
  <2>1. /\ a \in Addresses /\ request[s].now \in Times
        /\ bucket[a] # None => Added(s) = bucket
        /\ bucket[a] = None => Added(s)[a] = [tokens |-> Full, seen |-> request[s].now]
    BY <1>1, AddedBuckets
  <2>2. [tokens |-> Full, seen |-> request[s].now] \in Bucket
    BY <2>1, FullHoldsOne DEF Bucket
  <2> QED
    BY <2>1, <2>2 DEF TypeOK
<1>3. b \in Bucket
  BY <1>2, RefilledBucket
<1>4. b.tokens \in Int /\ Refill \in Nat
  BY <1>3, FullHoldsOne DEF Bucket
<1>5. \/ /\ b.tokens < Refill
         /\ bucket' = [Added(s) EXCEPT ![a] = b]
         /\ request' = [request EXCEPT ![s] = None] /\ granted' = granted
      \/ /\ ~(b.tokens < Refill)
         /\ bucket' = [Added(s) EXCEPT ![a] = [b EXCEPT !.tokens = @ - Refill]]
         /\ request' = [request EXCEPT ![s].step = "create"]
         /\ granted' = [granted EXCEPT ![a] = @ + 1]
  BY DEF Allow, Added, Finish
<1> HIDE DEF b
<1>6. b.tokens < Refill \/ b.tokens >= Refill
  BY <1>4
<1> QED
  BY <1>2, <1>3, <1>4, <1>5, <1>6 DEF b

\* Every step keeps the types.
LEMMA TypeStays ==
    ASSUME TypeOK, [Next]_vars
    PROVE  TypeOK'
<1> USE SignUpConstants
<1>1. ASSUME NEW s \in Slots, NEW a \in Addresses, Ask(s, a)
      PROVE  TypeOK'
  <2>1. [step |-> "lock", from |-> a, now |-> clock, who |-> None] \in Request
    BY DEF TypeOK, Request
  <2> QED
    BY <1>1, <2>1 DEF Ask, TypeOK, accounts
<1>2. ASSUME NEW s \in Slots, Allow(s)
      PROVE  TypeOK'
  <2> DEFINE a == request[s].from
             b == Refilled(Added(s)[a], request[s].now)
             left == [b EXCEPT !.tokens = @ - Refill]
  <2>1. At(s, "lock") /\ UNCHANGED <<mode, mark, accounts, sweep, clock, started>>
    BY <1>2 DEF Allow
  <2>2. /\ request[s] \in Request /\ a \in Addresses /\ request[s].now \in Times
        /\ Added(s) \in [Addresses -> Bucket \cup {None}]
        /\ \A c \in Addresses \ {a} : Added(s)[c] = bucket[c] \/ Added(s)[c] = None
    <3>1. \A c \in Addresses \ {a} :
              \/ Added(s)[c] = bucket[c]
              \/ bucket[c] # None /\ Stale(bucket[c], request[s].now) /\ Added(s)[c] = None
      BY <2>1, AddedBuckets
    <3> QED
      BY <2>1, <3>1, AddedBuckets
  <2>3. Added(s)[a] \in Bucket /\ b \in Bucket
    BY <1>2, AllowedBucket
  <2>4. b.tokens \in Int /\ b.tokens <= Full
    BY <2>2, <2>3, RefilledBucket, FullHoldsOne DEF Bucket
  <2>5. left \in Bucket /\ left.tokens = b.tokens - Refill
    BY <2>3, <2>4, FullHoldsOne DEF Bucket
  <2>6. /\ bucket' \in [Addresses -> Bucket \cup {None}]
        /\ \A c \in Buckets(bucket') : bucket'[c].tokens < Full
        /\ granted' \in [Addresses -> Nat] /\ request' \in [Slots -> Request \cup {None}]
    <3>1. CASE /\ b.tokens < Refill
               /\ bucket' = [Added(s) EXCEPT ![a] = b]
               /\ request' = [request EXCEPT ![s] = None] /\ granted' = granted
      <4> HIDE DEF b
      <4>1. bucket' \in [Addresses -> Bucket \cup {None}]
        BY <2>2, <2>3, <3>1
      <4>2. b.tokens < Full
        BY <2>4, <3>1, FullHoldsOne
      <4>3. \A c \in Buckets(bucket') : bucket'[c].tokens < Full
        BY <2>2, <3>1, <4>2 DEF Buckets, TypeOK
      <4> QED
        BY <3>1, <4>1, <4>3 DEF TypeOK
    <3>2. CASE /\ b.tokens >= Refill
               /\ bucket' = [Added(s) EXCEPT ![a] = left]
               /\ request' = [request EXCEPT ![s].step = "create"]
               /\ granted' = [granted EXCEPT ![a] = @ + 1]
      <4> HIDE DEF left
      <4>1. bucket' \in [Addresses -> Bucket \cup {None}]
        BY <2>2, <2>5, <3>2
      <4>2. left.tokens < Full
        BY <2>4, <2>5, FullHoldsOne
      <4>3. \A c \in Buckets(bucket') : bucket'[c].tokens < Full
        BY <2>2, <3>2, <4>2 DEF Buckets, TypeOK
      <4>4. request' \in [Slots -> Request \cup {None}]
        BY <2>2, <3>2 DEF TypeOK, Request
      <4>5. granted' \in [Addresses -> Nat]
        BY <2>2, <3>2 DEF TypeOK
      <4> QED
        BY <4>1, <4>3, <4>4, <4>5
    <3> HIDE DEF b, left
    <3> QED
      BY <1>2, <3>1, <3>2, AllowedBucket DEF b, left
  <2>7. forgotten' \in [Addresses -> Nat]
    <3>1. forgotten' = [c \in Addresses |->
              forgotten[c] + IF bucket[c] # None /\ bucket'[c] = None THEN 1 ELSE 0]
      BY <1>2 DEF Allow
    <3> QED
      BY <3>1 DEF TypeOK
  <2> QED
    BY <2>1, <2>6, <2>7 DEF TypeOK, accounts
<1>3. ASSUME NEW s \in Slots, Create(s) \/ Mates(s) \/ SeedList(s)
      PROVE  TypeOK'
  <2>1. request[s] \in Request
    BY <1>3 DEF Create, Mates, SeedList, At, TypeOK
  <2>2. [request EXCEPT ![s] = None] \in [Slots -> Request \cup {None}]
    BY DEF TypeOK
  <2>3. ASSUME nextUser <= MaxUsers, Made(nextUser)
        PROVE  /\ user' \in [UserIds -> User \cup {None}] /\ nextUser' \in 1 .. MaxUsers + 1
               /\ nextUser \in UserIds
    <3>1. nextUser \in UserIds
      BY <2>3 DEF TypeOK, UserIds
    <3>2. [at |-> clock, real |-> ~mark] \in User
      BY DEF TypeOK, User
    <3>3. nextUser' \in 1 .. MaxUsers + 1
      BY <2>3 DEF Made, TypeOK
    <3> QED
      BY <2>3, <3>1, <3>2, <3>3 DEF Made, TypeOK
  <2>4. CASE Create(s)
    <3>1. CASE Finish(s) /\ UNCHANGED accounts
      BY <2>2, <2>4, <3>1 DEF Create, Finish, TypeOK, accounts
    <3>2. CASE nextUser <= MaxUsers /\ Made(nextUser) /\ UNCHANGED lists /\ Finish(s)
      BY <2>2, <2>3, <2>4, <3>2 DEF Create, Finish, TypeOK
    <3>3. CASE /\ nextUser <= MaxUsers /\ Made(nextUser) /\ UNCHANGED lists
               /\ request' = [request EXCEPT ![s].step = "mates", ![s].who = nextUser]
      <4>1. request' \in [Slots -> Request \cup {None}]
        BY <2>1, <2>3, <3>3 DEF TypeOK, Request
      <4> QED
        BY <2>3, <2>4, <3>3, <4>1 DEF Create, TypeOK
    <3> QED
      BY <2>4, <3>1, <3>2, <3>3 DEF Create
  <2>5. CASE Mates(s)
    <3>1. [request EXCEPT ![s].step = "list"] \in [Slots -> Request \cup {None}]
      BY <2>1 DEF TypeOK, Request
    <3>2. CASE nextUser <= MaxUsers
      BY <2>3, <2>5, <3>1, <3>2 DEF Mates, TypeOK
    <3>3. CASE ~(nextUser <= MaxUsers)
      BY <2>2, <2>5, <3>3 DEF Mates, Finish, TypeOK, accounts
    <3> QED
      BY <3>2, <3>3
  <2>6. CASE SeedList(s)
    BY <2>2, <2>6 DEF SeedList, Finish, TypeOK
  <2> QED
    BY <1>3, <2>4, <2>5, <2>6
<1>4. ASSUME NEW u \in UserIds, MakeList(u)
      PROVE  TypeOK'
  BY <1>4 DEF MakeList, TypeOK
<1>5. CASE Start \/ StartDemo
  BY <1>5 DEF Start, StartDemo, Begun, TypeOK, accounts
<1>6. CASE Stop
  BY <1>6, NoneIsNoRecord DEF Stop, TypeOK, accounts, Times, Buckets
<1>7. CASE SweepLists
  <2>1. [lists |-> OwnedByOld, at |-> clock] \in [lists: SUBSET UserIds, at: Times]
    BY DEF OwnedByOld, TypeOK
  <2> QED
    BY <1>7, <2>1 DEF SweepLists, TypeOK, accounts
<1>8. CASE SweepUsers
  BY <1>8 DEF SweepUsers, TypeOK
<1>9. CASE Tick
  <2>1. clock' \in Times
    BY <1>9 DEF Tick, TypeOK, Times
  <2> QED
    BY <1>9, <2>1 DEF Tick, TypeOK, accounts
<1>10. CASE UNCHANGED vars
  BY <1>10 DEF vars, accounts, TypeOK
<1> QED
  BY <1>1, <1>2, <1>3, <1>4, <1>5, <1>6, <1>7, <1>8, <1>9, <1>10 DEF Next

\* They hold at the start.
LEMMA TypeStarts ==
    ASSUME Init
    PROVE  TypeOK
<1>1. MaxTime \in Nat /\ MaxUsers \in Nat /\ 0 \in Times /\ 1 \in 1 .. MaxUsers + 1
  BY SignUpConstants DEF Times
<1>2. mode \in {"off", "on", "demo"} /\ mark \in BOOLEAN
  BY DEF Init
<1>3. user \in [UserIds -> User \cup {None}] /\ lists \in [UserIds -> {"none", "own", "public"}]
  BY DEF Init
<1>4. /\ bucket \in [Addresses -> Bucket \cup {None}] /\ Buckets(bucket) = {}
      /\ request \in [Slots -> Request \cup {None}]
  BY DEF Init, Buckets
<1>5. granted \in [Addresses -> Nat] /\ forgotten \in [Addresses -> Nat]
  BY DEF Init
<1> QED
  BY <1>1, <1>2, <1>3, <1>4, <1>5 DEF Init, TypeOK

\* Every table, bucket and request holds values of its kind, and no bucket is full
\* after it was looked at: the one that asks takes a token.
THEOREM TypesHold == Spec => []TypeOK
<1>1. TypeOK /\ [Next]_vars => TypeOK'
  BY TypeStays
<1> QED
  BY <1>1, TypeStarts, PTL DEF Spec

----------------------------------------------------------------------------
(* The bound.                                                              *)

\* A bucket's clock is never ahead, and what it owes is no more than somebody
\* waited; what was granted came out of a full one, or by its clock, or from
\* forgetting one.
Worth(a) ==
    /\ bucket[a] # None =>
           /\ bucket[a].seen <= clock
           /\ bucket[a].tokens >= bucket[a].seen - clock
           /\ bucket[a].tokens >= 0 - MaxWait
           /\ Used(a) + bucket[a].tokens - bucket[a].seen <= Full - started + Extra(a)
    /\ bucket[a] = None =>
           \/ granted[a] = 0 /\ forgotten[a] = 0
           \/ Used(a) + MaxWait <= clock - started + Extra(a)

\* Who waits for the lock came after the server started, and not long ago.
Waiting(s) ==
    At(s, "lock") =>
        /\ started <= request[s].now /\ request[s].now <= clock
        /\ clock <= request[s].now + MaxWait

\* A server that is off holds nothing.
Nothing ==
    /\ \A s \in Slots : request[s] = None
    /\ \A a \in Addresses : bucket[a] = None /\ granted[a] = 0 /\ forgotten[a] = 0
    /\ started = 0

LimiterInv ==
    /\ started <= clock
    /\ mode = "off" => Nothing
    /\ \A s \in Slots : Waiting(s)
    /\ \A a \in Addresses : Worth(a)

\* Every step keeps LimiterInv.
LEMMA LimiterInvStays ==
    ASSUME TypeOK, LimiterInv, [Next]_vars
    PROVE  LimiterInv'
<1>1. /\ MaxWait \in Nat /\ Refill \in Nat /\ Refill > 0 /\ Full \in Nat /\ Full >= Refill
      /\ clock \in Nat /\ started \in Nat
  BY SignUpConstants, FullHoldsOne DEF TypeOK, Times
<1>2. ASSUME NEW s \in Slots, NEW a \in Addresses, Ask(s, a)
      PROVE  LimiterInv'
  <2>1. /\ mode # "off"
        /\ UNCHANGED <<mode, bucket, clock, granted, forgotten, started>>
        /\ request' = [request EXCEPT ![s] =
               [step |-> "lock", from |-> a, now |-> clock, who |-> None]]
    BY <1>2 DEF Ask
  <2>2. ASSUME NEW z \in Slots
        PROVE  Waiting(z)'
    <3>1. CASE z = s
      <4>1. request'[z].now = clock
        BY <2>1, <3>1 DEF TypeOK
      <4> QED
        BY <1>1, <2>1, <4>1 DEF Waiting, LimiterInv
    <3>2. CASE z # s
      <4>1. request'[z] = request[z]
        BY <2>1, <3>2 DEF TypeOK
      <4> QED
        BY <2>1, <4>1 DEF Waiting, LimiterInv, At
    <3> QED
      BY <3>1, <3>2
  <2> QED
    BY <2>1, <2>2 DEF LimiterInv, Worth, Used, Extra
<1>3. ASSUME NEW s \in Slots, Allow(s)
      PROVE  LimiterInv'
  <2>0. At(s, "lock") /\ request[s].from \in Addresses /\ request[s].now \in Times
    <3>1. At(s, "lock")
      BY <1>3 DEF Allow
    <3> QED
      BY <3>1, AddedBuckets
  <2> PICK a \in Addresses, now \in Times : a = request[s].from /\ now = request[s].now
    BY <2>0
  <2> DEFINE old == Added(s)[a]
             b == Refilled(old, now)
             left == [b EXCEPT !.tokens = @ - Refill]
  <2>1. /\ At(s, "lock") /\ UNCHANGED <<mode, clock, started>>
        /\ forgotten' = [c \in Addresses |->
               forgotten[c] + IF bucket[c] # None /\ bucket'[c] = None THEN 1 ELSE 0]
    BY <1>3 DEF Allow
  <2>2. /\ request[s] \in Request /\ a \in Addresses /\ now \in Times
        /\ Added(s) \in [Addresses -> Bucket \cup {None}]
        /\ bucket[a] # None => old = bucket[a]
        /\ bucket[a] = None => old = [tokens |-> Full, seen |-> now]
    BY <2>1, AddedBuckets
  <2>3. \A c \in Addresses \ {a} :
            \/ Added(s)[c] = bucket[c]
            \/ bucket[c] # None /\ Stale(bucket[c], now) /\ Added(s)[c] = None
    BY <2>1, AddedBuckets
  <2>4. old \in Bucket /\ b \in Bucket
    BY <1>3, AllowedBucket
  <2>5. /\ now \in Nat /\ started <= now /\ now <= clock /\ clock <= now + MaxWait
    BY <2>1, <2>2, SignUpConstants DEF LimiterInv, Waiting, Times
  <2>6. /\ b.seen = now /\ b.tokens \in Int /\ old.tokens \in Int /\ old.seen \in Nat
        /\ b.tokens = IF old.tokens + (now - old.seen) > Full
                      THEN Full ELSE old.tokens + (now - old.seen)
    <3> HIDE DEF old
    <3>1. old.tokens \in Int /\ old.seen \in Nat /\ b.tokens \in Int
      BY <2>4, SignUpConstants DEF Bucket, Times
    <3>2. /\ b.seen = now
          /\ b.tokens = IF old.tokens + (now - old.seen) > Full
                        THEN Full ELSE old.tokens + (now - old.seen)
      BY <2>4, RefilledBucket
    <3> QED
      BY <3>1, <3>2
  <2>7. left \in Bucket /\ left.tokens = b.tokens - Refill /\ left.seen = now
    BY <1>1, <2>4, <2>6 DEF Bucket
  <2> HIDE DEF left, b, old
  <2>8. /\ \/ b.tokens < Refill /\ bucket' = [Added(s) EXCEPT ![a] = b] /\ granted' = granted
           \/ /\ b.tokens >= Refill /\ bucket' = [Added(s) EXCEPT ![a] = left]
              /\ granted' = [granted EXCEPT ![a] = @ + 1]
        /\ \/ request' = [request EXCEPT ![s] = None]
           \/ request' = [request EXCEPT ![s].step = "create"]
    BY <1>3, AllowedBucket DEF left, b, old
  <2>9. ASSUME NEW z \in Slots
        PROVE  Waiting(z)'
    <3>1. CASE z = s
      <4>1. ~At(s, "lock")'
        BY <2>2, <2>8 DEF At, TypeOK, Request
      <4> QED
        BY <3>1, <4>1 DEF Waiting
    <3>2. CASE z # s
      <4>1. request'[z] = request[z]
        BY <2>8, <3>2 DEF TypeOK
      <4> QED
        BY <2>1, <4>1 DEF Waiting, LimiterInv, At
    <3> QED
      BY <3>1, <3>2
  \* Its own bucket.
  <2>10. Worth(a)'
    <3>1. /\ Used(a) \in Nat /\ (granted[a] + 1) * Refill = Used(a) + Refill
          /\ Extra(a) \in Nat
      BY <2>2, UsedAndExtra
    <3>2. /\ old.seen <= clock /\ old.tokens >= old.seen - clock /\ old.tokens >= 0 - MaxWait
          /\ Used(a) + old.tokens - old.seen <= Full - started + Extra(a)
      <4>1. CASE bucket[a] # None
        BY <2>2, <4>1 DEF LimiterInv, Worth
      <4>2. CASE bucket[a] = None
        <5>1. old.tokens = Full /\ old.seen = now
          BY <2>2, <4>2
        <5>2. Used(a) <= now - started + Extra(a)
          <6>1. CASE granted[a] = 0 /\ forgotten[a] = 0
            BY <1>1, <2>5, <3>1, <6>1 DEF Used, Extra
          <6>2. CASE Used(a) + MaxWait <= clock - started + Extra(a)
            BY <1>1, <2>5, <3>1, <6>2
          <6> QED
            BY <2>2, <4>2, <6>1, <6>2 DEF LimiterInv, Worth
        <5> QED
          BY <1>1, <2>5, <3>1, <5>1, <5>2
      <4> QED
        BY <4>1, <4>2
    <3>3. /\ b.tokens >= now - clock /\ b.tokens >= 0 - MaxWait
          /\ Used(a) + b.tokens - now <= Full - started + Extra(a)
      BY <1>1, <2>5, <2>6, <3>1, <3>2
    <3>4. forgotten'[a] = forgotten[a] /\ bucket'[a] # None
      <4>1. bucket'[a] \in {b, left}
        BY <2>2, <2>8
      <4>2. bucket'[a] # None
        BY <2>4, <2>7, <4>1, NoneIsNoRecord
      <4> QED
        BY <2>1, <2>2, <4>2 DEF TypeOK
    <3>5. Extra(a)' = Extra(a)
      BY <3>4 DEF Extra
    <3>6. CASE b.tokens < Refill /\ bucket' = [Added(s) EXCEPT ![a] = b] /\ granted' = granted
      <4>1. bucket'[a] = b /\ Used(a)' = Used(a)
        BY <2>2, <3>6 DEF Used
      <4> QED
        BY <2>1, <2>5, <2>6, <3>3, <3>4, <3>5, <4>1 DEF Worth
    <3>7. CASE /\ b.tokens >= Refill /\ bucket' = [Added(s) EXCEPT ![a] = left]
               /\ granted' = [granted EXCEPT ![a] = @ + 1]
      <4>1. bucket'[a] = left
        BY <2>2, <3>7
      <4>2. Used(a)' = Used(a) + Refill
        <5>1. granted'[a] = granted[a] + 1
          BY <2>2, <3>7 DEF TypeOK
        <5> QED
          BY <3>1, <5>1 DEF Used
      <4>3. /\ left.seen <= clock /\ left.tokens >= left.seen - clock
            /\ left.tokens >= 0 - MaxWait
            /\ Used(a) + Refill + left.tokens - left.seen <= Full - started + Extra(a)
        BY <1>1, <2>5, <2>6, <2>7, <3>1, <3>3, <3>7
      <4> QED
        BY <2>1, <3>4, <3>5, <4>1, <4>2, <4>3 DEF Worth
    <3> QED
      BY <2>8, <3>6, <3>7
  \* The others', which may be forgotten.
  <2>11. ASSUME NEW c \in Addresses, c # a
         PROVE  Worth(c)'
    <3>1. bucket'[c] = Added(s)[c] /\ granted'[c] = granted[c]
      BY <2>2, <2>8, <2>11 DEF TypeOK
    <3>2. Used(c)' = Used(c)
      BY <3>1 DEF Used
    <3>3. CASE Added(s)[c] = bucket[c]
      <4>1. forgotten'[c] = forgotten[c]
        BY <2>1, <3>1, <3>3 DEF TypeOK
      <4>2. Extra(c)' = Extra(c)
        BY <4>1 DEF Extra
      <4> QED
        BY <2>1, <3>1, <3>2, <3>3, <4>1, <4>2 DEF LimiterInv, Worth
    <3>4. CASE bucket[c] # None /\ Stale(bucket[c], now) /\ Added(s)[c] = None
      <4>1. forgotten'[c] = forgotten[c] + 1 /\ bucket'[c] = None
        BY <2>1, <3>1, <3>4 DEF TypeOK
      <4>2. Extra(c)' = Extra(c) + 2 * MaxWait /\ Extra(c) \in Nat /\ Used(c) \in Nat
        BY <4>1, UsedAndExtra DEF Extra
      <4>3. /\ bucket[c].tokens \in Int /\ bucket[c].seen \in Nat
            /\ now - bucket[c].seen > Full
        BY <3>4, SignUpConstants DEF TypeOK, Bucket, Times, Stale
      <4>4. /\ bucket[c].tokens >= 0 - MaxWait
            /\ Used(c) + bucket[c].tokens - bucket[c].seen <= Full - started + Extra(c)
        BY <3>4 DEF LimiterInv, Worth
      <4>5. Used(c) + MaxWait <= clock - started + (Extra(c) + 2 * MaxWait)
        BY <1>1, <2>5, <4>2, <4>3, <4>4
      <4> QED
        BY <2>1, <3>2, <4>1, <4>2, <4>5 DEF Worth
    <3> QED
      BY <2>3, <2>11, <3>3, <3>4
  <2>12. mode # "off"
    BY <2>1 DEF LimiterInv, Nothing, At
  <2> QED
    BY <1>1, <2>1, <2>9, <2>10, <2>11, <2>12 DEF LimiterInv
<1>4. ASSUME NEW s \in Slots, Create(s) \/ Mates(s) \/ SeedList(s)
      PROVE  LimiterInv'
  <2>1. UNCHANGED <<mode, bucket, clock, granted, forgotten, started>>
    BY <1>4 DEF Create, Mates, SeedList
  <2>2. request[s] # None /\ request[s] \in Request
    BY <1>4 DEF Create, Mates, SeedList, At, TypeOK
  <2>3. /\ \A z \in Slots : z # s => request'[z] = request[z]
        /\ request'[s] = None \/ request'[s].step # "lock"
    <3>1. CASE request' = [request EXCEPT ![s] = None]
      BY <3>1 DEF TypeOK
    <3>2. CASE request' = [request EXCEPT ![s].step = "mates", ![s].who = nextUser]
      BY <2>2, <3>2 DEF TypeOK, Request
    <3>3. CASE request' = [request EXCEPT ![s].step = "list"]
      BY <2>2, <3>3 DEF TypeOK, Request
    <3> QED
      BY <1>4, <3>1, <3>2, <3>3 DEF Create, Mates, SeedList, Finish
  <2>4. \A z \in Slots : Waiting(z)'
    BY <2>1, <2>3 DEF Waiting, LimiterInv, At
  <2>5. mode # "off"
    BY <2>2 DEF LimiterInv, Nothing
  <2> QED
    BY <2>1, <2>4, <2>5 DEF LimiterInv, Worth, Used, Extra
<1>5. CASE Start \/ StartDemo
  <2>1. /\ mode = "off" /\ mode' # "off" /\ started' = clock
        /\ UNCHANGED <<bucket, request, clock, granted, forgotten>>
    BY <1>5 DEF Start, StartDemo, Begun
  <2>2. Nothing
    BY <2>1 DEF LimiterInv
  <2> QED
    BY <1>1, <2>1, <2>2 DEF LimiterInv, Worth, Waiting, At, Nothing
<1>6. CASE Stop
  <2>1. Nothing' /\ clock' = clock
    BY <1>6 DEF Stop, Nothing
  <2>2. \A a \in Addresses : Worth(a)'
    BY <2>1 DEF Worth, Nothing
  <2>3. \A s \in Slots : Waiting(s)'
    BY <2>1 DEF Waiting, Nothing, At
  <2> QED
    BY <1>1, <2>1, <2>2, <2>3 DEF LimiterInv, Nothing
<1>7. CASE Tick
  <2>1. /\ clock' = clock + 1 /\ UNCHANGED <<mode, bucket, request, granted, forgotten, started>>
        /\ \A s \in Slots : At(s, "lock") => clock - request[s].now < MaxWait
    BY <1>7 DEF Tick
  <2>2. ASSUME NEW s \in Slots, At(s, "lock")
        PROVE  (/\ started <= request[s].now /\ request[s].now <= clock
                /\ clock <= request[s].now + MaxWait)'
    <3>1. request[s].now \in Nat
      BY <2>2, SignUpConstants DEF At, TypeOK, Request, Times
    <3>2. started <= request[s].now /\ request[s].now <= clock
      BY <2>2 DEF LimiterInv, Waiting
    <3> QED
      BY <1>1, <2>1, <2>2, <3>1, <3>2
  <2>3. ASSUME NEW a \in Addresses
        PROVE  Worth(a)'
    <3>1. Used(a) \in Nat /\ Extra(a) \in Nat /\ Worth(a)
      BY UsedAndExtra DEF LimiterInv
    <3>2. Used(a)' = Used(a) /\ Extra(a)' = Extra(a)
      BY <2>1 DEF Used, Extra
    <3>3. CASE bucket[a] # None
      <4>1. bucket[a].tokens \in Int /\ bucket[a].seen \in Nat
        BY <3>3, SignUpConstants DEF TypeOK, Bucket, Times
      <4> QED
        BY <1>1, <2>1, <3>1, <3>2, <3>3, <4>1 DEF Worth
    <3>4. CASE bucket[a] = None
      BY <1>1, <2>1, <3>1, <3>2, <3>4 DEF Worth
    <3> QED
      BY <3>3, <3>4
  <2>4. \A s \in Slots : Waiting(s)'
    BY <2>1, <2>2 DEF Waiting, At
  <2> QED
    BY <1>1, <2>1, <2>3, <2>4 DEF LimiterInv, Nothing
<1>8. CASE UNCHANGED <<mode, bucket, request, clock, granted, forgotten, started>>
  BY <1>8 DEF LimiterInv, Worth, Used, Extra, Waiting, At, Nothing
<1>9. ASSUME NEW u \in UserIds, MakeList(u)
      PROVE  UNCHANGED <<mode, bucket, request, clock, granted, forgotten, started>>
  BY <1>9 DEF MakeList
<1> QED
  BY <1>2, <1>3, <1>4, <1>5, <1>6, <1>7, <1>8, <1>9
     DEF Next, SweepLists, SweepUsers, vars, accounts

\* No address gets more from a server that stays up than a full bucket and what
\* came in since, but for what comes of forgetting (ratelimit.go:15), whatever
\* order requests take the lock in.
THEOREM NobodyGetsMore == Spec => []SignupsBounded
<1>1. Init => TypeOK /\ LimiterInv
  <2>1. ASSUME Init
        PROVE  LimiterInv
    <3>1. Nothing /\ clock = 0
      BY <2>1 DEF Init, Nothing
    <3> QED
      BY <3>1 DEF LimiterInv, Worth, Waiting, At, Nothing
  <2> QED
    BY <2>1, TypeStarts
<1>2. TypeOK /\ LimiterInv /\ [Next]_vars => (TypeOK /\ LimiterInv)'
  BY TypeStays, LimiterInvStays
<1>3. TypeOK /\ LimiterInv => SignupsBounded
  <2>1. ASSUME TypeOK, LimiterInv, NEW a \in Addresses
        PROVE  granted[a] * Refill <= Full + (clock - started) + 2 * MaxWait * forgotten[a]
    <3>1. /\ Used(a) \in Nat /\ Extra(a) \in Nat /\ Full \in Nat /\ MaxWait \in Nat
          /\ clock \in Nat /\ started \in Nat /\ started <= clock /\ Worth(a)
      BY <2>1, UsedAndExtra, FullHoldsOne, SignUpConstants DEF TypeOK, Times, LimiterInv
    <3>2. Used(a) <= Full + (clock - started) + Extra(a)
      <4>1. CASE bucket[a] # None
        <5>1. bucket[a].tokens \in Int /\ bucket[a].seen \in Nat
          BY <2>1, <4>1, SignUpConstants DEF TypeOK, Bucket, Times
        <5> QED
          BY <3>1, <4>1, <5>1 DEF Worth
      <4>2. CASE bucket[a] = None /\ granted[a] = 0
        BY <3>1, <4>2, FullHoldsOne DEF Used
      <4>3. CASE Used(a) + MaxWait <= clock - started + Extra(a)
        BY <3>1, <4>3
      <4> QED
        BY <3>1, <4>1, <4>2, <4>3 DEF Worth
    <3> QED
      BY <3>2 DEF Used, Extra
  <2> QED
    BY <2>1 DEF SignupsBounded
<1> QED
  BY <1>1, <1>2, <1>3, PTL DEF Spec

----------------------------------------------------------------------------
(* Accounts.                                                               *)

\* A database that is a demo's has no account from before, and only such a
\* database is swept; accounts are numbered in order.
Kept ==
    /\ \A u \in UserIds : user[u] # None => u < nextUser
    /\ mark => \A u \in UserIds : user[u] # None => user[u].real = FALSE
    /\ sweep # None => mark

\* A new account has an id of its own and is real unless the database is a demo's.
LEMMA MadeUser ==
    ASSUME TypeOK, Kept, nextUser <= MaxUsers, Made(nextUser)
    PROVE  /\ nextUser \in UserIds /\ user[nextUser] = None /\ nextUser' = nextUser + 1
           /\ user'[nextUser] = [at |-> clock, real |-> ~mark]
           /\ \A u \in UserIds : u # nextUser => user'[u] = user[u]
<1>1. nextUser \in UserIds /\ ~(nextUser < nextUser)
  BY SignUpConstants DEF TypeOK, UserIds
<1> QED
  BY <1>1 DEF Made, Kept, TypeOK

\* Create and Mates make an account, or none.
LEMMA AccountMadeOrNot ==
    ASSUME NEW s \in Slots, Create(s) \/ Mates(s)
    PROVE  /\ sweep = None /\ UNCHANGED <<mark, sweep, clock, lists>>
           /\ \/ nextUser <= MaxUsers /\ Made(nextUser)
              \/ UNCHANGED <<user, nextUser>>
BY DEF Create, Mates, Free, accounts

\* Every step keeps Kept, and every real account.
LEMMA KeptStays ==
    ASSUME TypeOK, Kept, [Next]_vars
    PROVE  /\ Kept'
           /\ \A u \in UserIds : user[u] # None /\ user[u].real => user'[u] = user[u]
<1> DEFINE Result ==
        /\ Kept'
        /\ \A u \in UserIds : user[u] # None /\ user[u].real => user'[u] = user[u]
<1> SUFFICES Result
  OBVIOUS
<1>1. ASSUME NEW s \in Slots, Create(s) \/ Mates(s)
      PROVE  Result
  <2>1. CASE UNCHANGED <<user, nextUser>>
    BY <1>1, <2>1, AccountMadeOrNot DEF Kept
  <2>2. CASE nextUser <= MaxUsers /\ Made(nextUser)
    <3>1. /\ nextUser \in UserIds /\ user[nextUser] = None /\ nextUser' = nextUser + 1
          /\ user'[nextUser] = [at |-> clock, real |-> ~mark]
          /\ \A u \in UserIds : u # nextUser => user'[u] = user[u]
      BY <2>2, MadeUser
    <3>2. sweep = None /\ UNCHANGED <<mark, sweep>>
      BY <1>1, AccountMadeOrNot
    <3>3. \A u \in UserIds : user'[u] # None => u < nextUser'
      <4>1. nextUser \in Nat /\ \A u \in UserIds : u \in Nat
        BY SignUpConstants DEF TypeOK, UserIds
      <4> QED
        BY <3>1, <4>1 DEF Kept
    <3>4. mark' => \A u \in UserIds : user'[u] # None => user'[u].real = FALSE
      <4>1. ASSUME mark
            PROVE  user'[nextUser].real = FALSE
        <5>1. user'[nextUser].real = (~mark)
          BY <3>1
        <5>2. (~mark) = FALSE
          BY <4>1
        <5> QED
          BY <5>1, <5>2
      <4> QED
        BY <3>1, <3>2, <4>1 DEF Kept
    <3> QED
      BY <3>1, <3>2, <3>3, <3>4 DEF Kept
  <2> QED
    BY <1>1, <2>1, <2>2, AccountMadeOrNot
<1>2. CASE SweepUsers
  <2>1. mark /\ \A u \in UserIds : user[u] # None => user[u].real = FALSE
    BY <1>2 DEF SweepUsers, Kept
  <2>2. /\ \A u \in UserIds : user'[u] = None \/ user'[u] = user[u]
        /\ UNCHANGED <<mark, nextUser>> /\ sweep' = None
    BY <1>2 DEF SweepUsers
  <2> QED
    BY <2>1, <2>2 DEF Kept
<1>3. CASE SweepLists
  BY <1>3 DEF SweepLists, Kept, accounts
<1>4. CASE StartDemo
  <2>1. /\ UNCHANGED <<user, nextUser, sweep>> /\ mark' = TRUE
        /\ mark \/ \A u \in UserIds : user[u] = None
    BY <1>4 DEF StartDemo, Begun, Refused, accounts
  <2> QED
    BY <2>1 DEF Kept
<1>5. CASE Stop
  BY <1>5 DEF Stop, Kept, accounts
<1>6. CASE UNCHANGED <<mark, user, nextUser, sweep>>
  BY <1>6 DEF Kept
<1>7. ASSUME \/ Start \/ Tick
             \/ \E s \in Slots, a \in Addresses : Ask(s, a)
             \/ \E s \in Slots : Allow(s) \/ SeedList(s)
             \/ \E u \in UserIds : MakeList(u)
      PROVE  UNCHANGED <<mark, user, nextUser, sweep>>
  BY <1>7 DEF Start, Begun, Tick, Ask, Allow, SeedList, MakeList, accounts
<1>8. UNCHANGED vars => UNCHANGED <<mark, user, nextUser, sweep>>
  BY DEF vars, accounts
<1>9. UNCHANGED <<mark, user, nextUser, sweep>> => Result
  BY <1>6
<1> HIDE DEF Result
<1> QED
  BY <1>1, <1>2, <1>3, <1>4, <1>5, <1>7, <1>8, <1>9 DEF Next

\* An account made before the database was set aside for the demo is never erased,
\* in whichever mode and order the server is started (demo.go:24).
THEOREM RealAccountsStay == Spec => RealAccountsKept
<1>1. Init => TypeOK /\ Kept
  BY TypeStarts DEF Init, Kept
<1>2. TypeOK /\ Kept /\ [Next]_vars => (TypeOK /\ Kept)'
  BY TypeStays, KeptStays
<1>3. TypeOK /\ Kept /\ [Next]_vars
          => [\A u \in UserIds : user[u] # None /\ user[u].real => user'[u] = user[u]]_vars
  BY KeptStays
<1> QED
  BY <1>1, <1>2, <1>3, PTL DEF Spec, RealAccountsKept

----------------------------------------------------------------------------
(* The sweep.                                                              *)

\* Between the sweep's statements, the lists of the accounts that were old when
\* the first was executed are gone for good: nothing else writes meanwhile.
Edge ==
    sweep # None =>
        /\ sweep.at <= clock
        /\ \A u \in UserIds :
               user[u] # None /\ user[u].at < sweep.at - Lifetime /\ lists[u] = "own"
                   => u \in sweep.lists

\* Every step keeps Edge: who gets older after the sweep's first statement was
\* younger than that when it ran.
LEMMA EdgeStays ==
    ASSUME TypeOK, Edge, [Next]_vars
    PROVE  Edge'
<1>1. CASE SweepLists
  <2>1. sweep' = [lists |-> OwnedByOld, at |-> clock] /\ UNCHANGED <<user, lists, clock>>
    BY <1>1 DEF SweepLists, accounts
  <2>2. clock \in Nat
    BY SignUpConstants DEF TypeOK, Times
  <2> QED
    BY <2>1, <2>2 DEF Edge, OwnedByOld, Old
<1>2. CASE SweepUsers \/ Stop
  BY <1>2 DEF SweepUsers, Stop, Edge
<1>3. CASE Tick
  <2>1. clock' = clock + 1 /\ UNCHANGED <<user, lists, sweep>>
    BY <1>3 DEF Tick, accounts
  <2>2. clock \in Nat /\ (sweep # None => sweep.at \in Nat)
    BY SignUpConstants DEF TypeOK, Times
  <2> QED
    BY <2>1, <2>2 DEF Edge
<1>4. ASSUME \/ \E s \in Slots : Create(s) \/ Mates(s) \/ SeedList(s)
             \/ \E u \in UserIds : MakeList(u)
      PROVE  sweep' = None
  BY <1>4, AccountMadeOrNot DEF SeedList, MakeList, Free
<1>5. ASSUME \/ Start \/ StartDemo \/ UNCHANGED vars
             \/ \E s \in Slots, a \in Addresses : Ask(s, a)
             \/ \E s \in Slots : Allow(s)
      PROVE  UNCHANGED <<user, lists, sweep, clock>>
  BY <1>5 DEF Start, StartDemo, Begun, Ask, Allow, vars, accounts
<1> QED
  BY <1>1, <1>2, <1>3, <1>4, <1>5 DEF Next, Edge

\* A sandbox's lists go with it, and never become public, unless a second passes
\* between the sweep's two statements (store.go:505-511).
THEOREM PublicOnlyAtTheEdge == Spec => OwnerlessOnlyAtTheEdge
<1> DEFINE Step ==
        \A u \in UserIds : (lists[u] # "public" /\ lists'[u] = "public") => sweep.at < clock
<1>1. Init => TypeOK /\ Edge
  BY TypeStarts DEF Init, Edge
<1>2. TypeOK /\ Edge /\ [Next]_vars => (TypeOK /\ Edge)'
  BY TypeStays, EdgeStays
<1>3. TypeOK /\ Edge /\ [Next]_vars => [Step]_vars
  <2>1. ASSUME TypeOK, Edge, [Next]_vars, NEW u \in UserIds,
               lists[u] # "public", lists'[u] = "public"
        PROVE  sweep.at < clock
    <3>1. CASE SweepUsers
      <4>1. sweep # None /\ u \in Gone /\ lists[u] = "own" /\ u \notin sweep.lists
        BY <2>1, <3>1 DEF SweepUsers, TypeOK
      <4>2. user[u] # None /\ user[u].at < clock - Lifetime
        BY <4>1 DEF Gone, Old
      <4>3. clock \in Nat /\ sweep.at \in Nat /\ sweep.at <= clock
        BY <2>1, <4>1, SignUpConstants DEF TypeOK, Times, Edge
      <4>4. sweep.at # clock
        BY <2>1, <4>1, <4>2 DEF Edge
      <4> QED
        BY <4>3, <4>4
    <3>2. ASSUME ~SweepUsers
          PROVE  lists'[u] = lists[u] \/ lists'[u] = "own"
      <4>1. ASSUME NEW s \in Slots, SeedList(s)
            PROVE  lists'[u] = lists[u] \/ lists'[u] = "own"
        BY <2>1, <4>1 DEF SeedList, TypeOK
      <4>2. ASSUME NEW v \in UserIds, MakeList(v)
            PROVE  lists'[u] = lists[u] \/ lists'[u] = "own"
        BY <2>1, <4>2 DEF MakeList, TypeOK
      <4>3. ASSUME NEW s \in Slots, Create(s) \/ Mates(s)
            PROVE  lists' = lists
        BY <4>3, AccountMadeOrNot
      <4> QED
        BY <2>1, <3>2, <4>1, <4>2, <4>3
           DEF Next, Start, StartDemo, Begun, Stop, Tick, SweepLists, Ask, Allow, vars, accounts
    <3> QED
      BY <2>1, <3>1, <3>2
  <2> QED
    BY <2>1
<1> QED
  BY <1>1, <1>2, <1>3, PTL DEF Spec, OwnerlessOnlyAtTheEdge

=============================================================================
