# Doables in TLA+

Doables is a small Go server for shared to-do lists: a SQLite database
(`internal/store`), an HTML and JSON interface over it (`internal/web`), live
updates to open pages, optional push notifications (`internal/push`), a demo
mode (`internal/demo`) and a Discord bot (`internal/discordbot`). This
directory models the parts of it whose correctness depends on what happens
*between* two steps, checks the models with TLC and proves what they
guarantee, for instances of any size, with TLAPS.

## 1. Inventory

| Part | Its state | Its operations | What is hard about it | What makes it correct |
|---|---|---|---|---|
| Lists, members, invites (`store.go`, `web.go`) | `lists` (owner, invite code, trash mark), `list_members` | create, claim, join, leave, remove, reset the invite, delete, restore | every handler reads, decides in memory and then writes; other requests fit between | owners belong to their lists; public lists have no members; only an owner manages; only the current invite lets anyone in |
| Tasks and assignment (`store.go`, `web.go`) | `tasks` (list, assignee, trash mark, title, dates) | add, assign, delete, restore, edit, tick | check-then-write, partial edits, three commits in one PATCH | an assignee is a member; no field of an edit is lost |
| Trash (`store.go`) | `deleted_at` of lists and tasks | trash, restore, purge (two statements), purge at start | purges overlap with restores and with writes to a trashed list; a crash in between | kept for a day, then gone; nothing half-deleted |
| Finish times (`store.go`) | `lastDone` | `finishTime` | a coarse or stepped clock; a restart forgets `lastDone` | finished tasks keep an order |
| Comments, unread (`store.go`, `unread.go`) | `comments`, `comment_reads` | comment, delete, list, mark seen | insert and mark are two statements, list and mark too | nobody's unread comment is marked read unseen |
| Live updates (`hub.go`, `page.html`, `store.go`) | subscribers with a one-slot channel; a page's `inflight`, `again`, `pending`, timer | publish, subscribe, stream, refresh, apply | lost wake-ups, reconnects, coalescing, replies out of order | an idle page shows what the store holds |
| Sign-up limiter (`ratelimit.go`) | token buckets by address | allow, sweep | time read outside the lock, sweeping, fractional tokens | never more than the burst plus the refill |
| Push (`push.go`, `store/push.go`) | a bounded queue, subscriptions, keys | notify, deliver, subscribe, forget | a full queue, endpoints that change hands, retries | a message goes to those who may see the list |
| Discord bot (`discordbot`) | boards, cards, mirrored comments, list locks, followers | slash commands, buttons, sync, follow | crashes between Discord and its own database, stale cards, missed pokes | one card a task, and it ends up current |
| Demo (`demo.go`) | accounts by age | prepare, seed, sweep | two evaluations of "now" in one purge | an account's lists go with it |
| Start and shutdown (`cmd/server`) | requests in progress | drain, close | a ten second limit, then the database closes | nothing uses a closed database |
| Tags (`tags.go`) | none | find, normalise | a hand-written scanner | agrees with a reference definition |

How they interact: handlers call the store; the store calls its notifier after
each commit, which signals the hub; the hub's streams tell pages, and the bot's
followers, to look again; handlers also hand messages to the push sender. The
database is the only state they share, and it alone survives a restart. The hazards,
line by line, are in `PROJECT.json`.

## 2. Modules

| Module | What it is |
|---|---|
| `Belonging` | the abstract specification: what it means to own and belong to a list, each change one step |
| `Store` | the tables that decide who may see and do what, and one action operator per SQL statement or transaction on them |
| `Sharing` | the handlers as sequences of those statements, interleaved; properties; the inductive invariant; the mapping to `Belonging` |
| `SharingProofs` | the theorems about `Sharing` |
| `SharingRefinement` | the theorem that `Sharing` implements `Belonging` |
| `Announce` | from a commit to the hub: who can see the list, `publish`, streams and their limit |
| `Live` | `Announce` composed with the event streams and the script of `page.html` |
| `Edits` | editing, assigning, ticking, deleting and restoring tasks column by column; finish times |
| `Unread` | comments and what is new to whom |
| `Push` | keys, browsers, the queue and delivery, with several servers on one database |
| `SignUp` | the sign-up limiter, the handlers behind it, the demo's example data and its sweep |
| `Board` | the Discord bot: one board, its cards, their threads and comments, over Doables' and Discord's APIs |
| `LiveProofs`, `EditsProofs`, `UnreadProofs`, `PushProofs`, `SignUpProofs`, `BoardProofs` | the theorems about each of them |
| `MCSharing`, `MCLive`, `MCEdits`, `MCUnread`, `MCPush`, `MCSignUp`, `MCBoard` | the sets TLC runs each of them with |

An operator that a comment calls *a slip* is used by no specification: it is
how the definition after it could have gone wrong, and `PROJECT.json` says which
property would notice.

### Store and Sharing

SQLite runs one statement, or one `Store.tx`, at a time. That is the grain of
`Store`: `ClaimList` and `RemoveMember` are transactions in the code and one
action here; `AssignTask` checks and writes in two statements, and only the
write is in `Store`. A statement that would affect no row is disabled; the
handler in `Sharing` then takes its `ErrNotFound` branch.

A row is `unmade`, `live`, `trash` (younger than `trashRetention`), `expired`
(older) or `purged`. Ids are `AUTOINCREMENT`, so a purged row never returns.
`issued` holds every invite code ever made: codes are 96 random bits and taken
never to repeat. Names, titles and dates are left out.

A request in `Sharing` is a record: its operation, its caller, how far it has
got, and what it has read (the list's owner, the list a task is on). The steps
follow the code: `TaskAccess` is `ReadTask`, then `Access` is `ReadList` and, for a
list that is not public, `ReadMembership`; `Proceed` is the decision the handler
makes in memory (`manageList`, `canManage`, `formClaimList`); `AssignTask` and
`DeleteTask` read the task once more (`ReadTaskAgain`), `AssignTask` its assignee's
membership (`ReadAssignee`); and then one write. `DeleteList` and `DeleteTask` go on
to the two statements of `purgeTrash`. `formX` and `apiX` take the same steps and
share an action; `AnonymousOps` are those the API serves without a token.
Somebody who joins without a name is given one between the two statements of
`joinPost`; here they are a user from the start. A restart forgets every request
wherever it is and purges (`migrate` ends in `purgeTrash`). Errors of SQLite itself
are not modelled; a request that dies half way is covered by the restart.

### Announce and Live

The list is a version number with its owner, members and trash mark. A store
operation is `Commit`, then `Gather` (`changed` calling `recipients`, two reads that
amount to one because an owned list never becomes public), then `Publish`;
`DeleteList` is `GatherDelete`, `CommitDelete`, `Publish`. `subs` is `hub.subs` with
the state of each one-slot channel; `ghosts` are the streams whose browser has
gone and whose handler has not noticed.

A page is a record of the script's variables: `inflight` is `fetch # "none"`;
`again`, `pending` and `opened` are the script's own; `timer` is the 120 ms
debounce; `wire` counts events written and not yet received. `busy = "form"` is an
edit that `stopEditing` or `closeTaskMenus` ends, `busy = "menu"` a Bootstrap
drop-down, whose closing runs nothing of the script. `Load` covers links, reloads
and closing tabs. A page on the list (`ListPages`) is sent to the dashboard by a
404; a dashboard shows the list as `Gone`. What a page reads is one step: it is
several queries, but a change that comes between them is announced after the
page has been asked for, and so leads to another look.

`Doings` says what people and the network do in a model; the server and the
script always do all they do. Drafts and open threads are left out; what
`MarkSeen` does is in `Unread`.

### Belonging, and how Sharing implements it

`Circle` in `Sharing` maps a list's row to a stage: `unmade` is `none`, `live`,
`trash` and `expired` are `public` without an owner and `owned` with one, `purged`
is `gone`; owner and members are the row's own. Codes, tasks, requests and the
trash are hidden, so deleting and restoring a list are stutters (nobody's belonging
ends before the purge does end it), and a purge is `Vanish` of several lists at
once. What has to be shown is that no statement is ever run on a list at the wrong
stage, although the handler's decision is older than the statement: `Join` and
`Leave` need an owner, `Own` needs none, and there is no step from `owned` back.

### Edits

`Edits` is the life of a task under requests: `Access` and `Read` are the reads of
`TaskAccess` and `Task`; `Update` is `UpdateTask`, which writes *every* column as
read or asked for; `Assign`, `Time` and `Finish` are `AssignTask` and the two halves
of `SetDone` (`finishTime` under its mutex, then the UPDATE); `trash` steps are
`DeleteTask` and `RestoreTask`. A request is what a body asks for (`Ask`), and the
steps it takes are those of the handler with that body: `apiPatchTask` goes through
all three parts, `formEditTask` names all columns, the tick box is `toggle`. A column
holds the number of the request that wrote it, so no two edits look alike.
`clock` is what `time.Now()` says and can be set back; `lastDone` is forgotten by a
restart. `beside`, `after` and `wrote` in a request are history: which others
overlapped it, the finish times there were when it began, and what it has committed.

### Unread

`comments`, `nextId`, `joined`, `seenUpTo` and `since` are the columns and the
setting; `News` is the query of `Unread` with its conditions. `Insert` then `Mark` is
`AddComment`; `List` then `Mark` is `apiComments`; a browser's `mark` is the post
that opening a thread makes, and a `page` is rendered after both. Times are whole
seconds, as in the database. `sent` and `witnesses` are history: what somebody
has been sent since joining, and who was on the list when a comment was made. Only
one list is modelled, it is not in the trash, and the clock is not set back.

### Push

`row` is `push_subscriptions` with the second and the id that the limit of devices
is decided by; `keys` are the two settings `PushKeys` keeps with INSERT OR IGNORE and
reads back, `pair` what each server got, `tied` the key a browser was subscribed
with (the push service's side, as is `alive`). `wanting` is who is on the list and
wants this kind of notice. `Do`, `Choose` and `Queue` are a handler that has
something to tell: it chooses people, then `Notify` puts a job in the queue if there
is room. `Take`, `Look`, `Send` and `Forget` are `Run`: the job, one person's
browsers, one send, and the DELETE of an endpoint its service says is gone. One request
at a time has something to tell; other handlers interleave with it. `lastOn` is
history.

### SignUp

`bucket` counts tokens in parts of `1/Refill`, which makes the code's fractions whole
numbers. `Ask` reads the time, `Allow` takes the lock, sweeps and takes a token,
`Create`, `Mates` and `SeedList` are the commits that follow, the last two in a
demo. `SweepLists` and `SweepUsers` are the two statements of
`PurgeUsersOlderThan`: one transaction, so nothing writes between them, but the
clock goes on. `StartDemo` is `Prepare`. `granted`, `forgotten`, `started` and `real`
are history.

### Board

Doables' task and its comments, Discord's messages and what can be read in the
threads, and the bot's own `cards` and `mirrored` tables. A job is a handler or a
look: the steps are the calls it makes, in their order (`lock`, `find`, `write`,
`list`, `edit`, `post`, `thread`, `save`, `fetch`, `copy`, `mark`, ...). `pressDone` and
`chooseAssignee` start with the `find`, the others with the lock. Between any two steps
people change the task in the web app. What goes wrong is counted by `mishaps`: the
bot is *stopped*; a call is carried out and its answer *lost*; a call is *refused*
(or never arrives); somebody has *removed* a message. `unsure` is history: what the
bot was left in the dark about by a stop or a lost answer, which no program could
know better. `Zero` is Go's zero `Task`, which `addTask` goes on with when its
second call fails. The bot's people and boards are taken as set up; comments are
not deleted.

## 3. Runs

| Run | Bounds | What it shows |
|---|---|---|
| `sharing_overlap` | 2 people, 1 list, 1 task, 2 codes, 2 requests at once, every handler | `TypeOK`, `OwnerBelongs`, `PublicListsAreNobodys`, `AuthorityIsOwnersOrPublic`, `NoOrphans`, `ClaimsAreFinal`, `KeptForADay`, the inductive invariant `IInv`, and `KeepsThePromise`: each step is one `Belonging` allows |
| `sharing_serial` | 2 people, 2 lists, 1 task, 3 codes, 1 request at a time, every handler | `AssigneeIsMember`, `OnlyOwnerManages`, `JoinNeedsCurrentInvite` hold when requests do not overlap |
| `assign_race` | 2 requests, those that assign and remove | the first of them fails when they do |
| `edits` | 2 tasks, 2 columns, 3 requests, 2 at once, of 8 kinds; 2 clock steps, set back; 1 restart | `FinishTimesDiffer`, `FinishedInOrder`, `TrashKeepsTheTask`, `AnsweredForAll`, `NilFieldsLeftAlone` |
| `unread` | 2 people, one in a browser and one with the API; 3 comments, one from before counting; 2 requests at once; any restarts | `HardToMiss`, `NothingFromBefore` |
| `push` | 2 servers, one serving; 2 people sharing 2 browsers; 1 device each, room for 1 message; 2 messages; any starts and stops; fairness | `KeysMatch`, `BelongsToTheLast`, `JustTurnedOnStays`, `QueueDrains` |
| `signup` | 2 addresses, 2 sign-ups at once, a burst of 1, refilled in 2 seconds; sweeps from 2 buckets; 2 accounts; 4 seconds; any starts and stops | `SignupsBounded`, `RealAccountsKept`, `OwnerlessOnlyAtTheEdge` |
| `signup_edge` | the same | `NoListIsLeftPublic` fails |
| `board` | 1 task, 1 comment, 3 messages; one worker that looks, one that answers people; 1 mishap of any kind; fairness | `RenderIsShown`, `OneCardEach`, `CopiedOnce`, `BoardCatchesUp`, `CommentsArrive` while buttons run alone |
| `board_stale` | 2 workers that add and press buttons, no mishap | `RenderIsShown` fails when they overlap |
| `live_members` | 2 people with a page each, 2 operations, 3 versions, 1 restart; joins, removals, claims, deletes, undos, forms | `NoUpdateLost`, `NeverGoesBack` without the five-minute timer |
| `live_repair` | 1 page, 3 versions, 1 stream, 1 fault, nearly all doings, fairness | `CatchesUp` |

Why the bounds are enough. A race is between one request's check and another's
write, so two requests show every such race; two people are an owner and somebody
who is let in, put out or claims first; lists do not affect each other except
through the purge, which `sharing_serial` runs with two. `edits` has a third
request because a third may finish a task between the two halves of another's
tick, and a second task because finish times are compared between tasks. In `unread`
a second comment is what can be hidden behind a first, and the earlier one is what
must not become new. `push` reaches a full queue with two messages, an eviction
with two browsers of one person, and two halves of two pairs with two servers.
`signup` reaches a swept bucket, a request overtaken by another, and a database
that is used without `-demo` and then with it. `board` has three messages
so that no post is turned down for want of one: a card, the same again after a
lost answer, and one for a task that does not exist (section 4). A page of `Live`
needs three versions to show an old one after a newer one, and one stream fault
reaches every state a fault leads to. What more of something could show is what
the theorems are for.

`Edits`, `Push`, `SignUp` and `live_members` have nothing left to do when their bounds are
used up, as a server at rest has: `CHECK_DEADLOCK` is off there. `live_repair` has no
joins, removals or claims (they change who sees the list, with one page that is
`trash`) and no forms; `live_members` has those.

**Fairness.** `LiveSpec` of `Live` assumes that the server finishes an operation it has
begun and drops dead streams, that the browser runs its timers, reconnects and
takes in what arrives, and that the five-minute timer keeps ticking: goroutines
and event loops give that. Nothing makes people change, load, hide or stop
editing anything, and faults are bounded because a network that breaks for ever
shows nobody anything. `Push` assumes that each server's `Run` goes on while it is up:
it is a goroutine, and every send has a timeout. It need not stay up, and nobody
needs to send anything. `LiveSpec` of `Board` assumes that a handler in progress goes
on (every call has a timeout) and that looks are strongly fair: the ticker starts
one again and again, and Go's mutex, which goes into starvation mode after a
millisecond, lets it in sooner or later however often handlers take the lock.

## 4. What the runs found

Three disagreements with the documentation or the comments, each with a run that
shows it; `PROJECT.json` quotes what they disagree with.

- `AssignTask` can leave a task with somebody who was removed between its check
  and its write (`assign_race`).
- A button on a card reads the card before it waits for the board's lock, and
  saves what it read over what another handler has saved meanwhile. The row then
  says that the message shows what it does not, and looks do not edit it until the
  task changes again (`board_stale`).
- The sweep of a demo evaluates "now" once for the lists and once for the users. An
  account that passes its age in between is erased and its lists stay, public
  (`signup_edge`). `OwnerlessOnlyAtTheEdge` shows there is no other way.

More that the same modules show with another configuration:

- *Sharing.* `OnlyOwnerManages` fails with two requests: one that read a list while it
  was public manages it after a claim. So does `JoinNeedsCurrentInvite`: an invite
  code that was replaced still lets in whoever had presented it. A deleted list can
  be restored long after its day: `RestoreList` does not look at the age, and nothing
  purges until something is deleted or the server starts (an `expired` list is
  restored like one in the `trash`).
- *Live*, `NoUpdateLost` fails with one more doing. `post`: the answer to a page's own
  post is applied as it arrives and can put an older page back. `load`: a change
  between a page's rendering and its first stream is not shown. `menu`: an update
  held back by an open drop-down is not shown when it closes. `latejoin`: somebody
  who joins a list while it is deleted keeps seeing it. And a page that was refused a
  stream never gets one, whatever tab is closed later, because a browser does not
  ask again after a 429. All are repaired by the five-minute timer while the page
  is on the screen (`CatchesUp`).
- *Edits.* Two edits of different columns at once lose one: `NilFieldsLeftAlone` holds
  only for edits with nothing beside them, `UpdateTask` writes every column back, and
  it alone writes to a task that was put in the trash meanwhile. After a restart
  with the clock set back two tasks can share a finish time.
- *Unread.* `NewUntilSeen`, the same as `HardToMiss` for everybody, fails for the API: a
  comment that arrives between its caller's list and mark, or insert and mark, is
  never new to them. A browser is sent a page afterwards.
- *SignUp.* A request that waited for the lock sets its bucket's clock back, and what it
  waited for is refilled twice if the bucket is forgotten meanwhile; the bucket that
  takes its place may be set back as well. Hence `2 * MaxWait` for every forgotten bucket
  in `SignupsBounded`. The proof found the
  second wait, TLC had not: it takes waits of two seconds. (With `Refill = 3`,
  `MaxTime = 6`, `MaxWait = 2` and `MaxUsers = 1` the bound still holds.) It is not
  what the comment promises to the letter, but a sweep starts at a thousand buckets
  and a wait is microseconds. `Prepare` counts accounts and then marks the database, which
  is safe with one server to a database.
- *Push.* A browser in which notifications are turned on can be evicted by that very
  request if its owner's other ones were saved in the same second. A message
  reaches somebody who was removed from the list after it was queued.
- *Board.* `NoGhostCards` fails when a task is added for somebody: when `Assign` fails, the zero
  `Task` it returns replaces the one just added, and a card for task 0 is posted. A
  second card of that kind takes over the first one's row, whose message then stays in
  the channel for ever; `OneCardEach` makes an exception of it.
  Comments from before a card was posted may never be copied: `postCard` saves how
  many there are before it tries.

And some seen in reading that no module has: renaming oneself tells no open page;
giving a task to one person twice at once tells them twice (`announceAssigned`
compares with what was read before the write); a comment added and another deleted
between two looks of the bot leave the count the same, and the new one uncopied;
`main.go` closes the database after ten seconds' grace and says no request is still
using it, but `push.Run` and `demo.Sweep` are not waited for.

Every property has a mutant in `PROJECT.json`: a plausible slip in one definition
that makes TLC find the property violated under the run's own bounds.

## 5. Proofs

A theorem holds for any sets of people, lists, tasks, pages, messages and so on, any
number of requests at once and any bounds. All that is assumed is what the modules
themselves say of their constants (`StoreConstants`, `EditsConstants`, `NoneIsNoRequest`
and the like: bounds are numbers, what has to be counted is finite, a sentinel is
none of what it stands apart from) and, where the table says so, what people do. TLC
evaluates the assumptions on every run, and checked the invariants on small
instances before they were proved.

| Theorem | Statement |
|---|---|
| **`SharingProofs`** | |
| `Invariance` | `Spec => []IInv` |
| `TypeCorrect` | `Spec => []TypeOK` |
| `OwnersBelong` | `Spec => []OwnerBelongs` |
| `PublicStaysNobodys` | `Spec => []PublicListsAreNobodys` |
| `NothingOrphaned` | `Spec => []NoOrphans` |
| `AuthorityBounded` | `Spec => []AuthorityIsOwnersOrPublic` |
| `OwnersAreForLife` | `Spec => ClaimsAreFinal` |
| `NothingLostEarly` | `Spec => KeptForADay` |
| `AssigneesBelong` | `Spec => []AssigneeIsMember`, one request at a time |
| `OwnersManage` | `Spec => OnlyOwnerManages`, one request at a time |
| `InvitesAreCurrent` | `Spec => JoinNeedsCurrentInvite`, one request at a time |
| `OnlyRemovalsOvertake` | `Spec => []AssigneeIsMember`, if nobody is removed or leaves |
| **`SharingRefinement`** | |
| `Refinement` | `Spec => KeepsThePromise`: `Sharing` implements `Belonging` |
| **`EditsProofs`** | |
| `TypesHold` | `Spec => []TypeOK` |
| `TrashKeeps` | `Spec => TrashKeepsTheTask` |
| `AnswersAreForAll` | `Spec => []AnsweredForAll` |
| `NilFieldsStay` | `Spec => NilFieldsLeftAlone` |
| `TimesDiffer` | `Spec => []FinishTimesDiffer` |
| `LaterIsLater` | `Spec => FinishedInOrder` |
| **`UnreadProofs`** | |
| `TypesHold` | `Spec => []TypeOK` |
| `NothingIsMissed` | `Spec => []HardToMiss` |
| `NothingOldIsNew` | `Spec => []NothingFromBefore` |
| **`PushProofs`** | |
| `TypesHold` | `Spec => []TypeOK` |
| `KeysAlwaysMatch` | `Spec => []KeysMatch` |
| `BelongsToNobodyElse` | `Spec => []BelongsToTheLast` |
| `TurningOnStays` | `Spec => JustTurnedOnStays` |
| **`SignUpProofs`** | |
| `TypesHold` | `Spec => []TypeOK` |
| `NobodyGetsMore` | `Spec => []SignupsBounded` |
| `RealAccountsStay` | `Spec => RealAccountsKept` |
| `PublicOnlyAtTheEdge` | `Spec => OwnerlessOnlyAtTheEdge` |
| **`BoardProofs`** | |
| `TypesHold` | `Spec => []TypeOK` |
| `OneHandlerAtATime` | all but one handler are idle or wait for the lock |
| `NobodyReadsItTwice` | `Spec => []CopiedOnce` |
| `RowsAreShown` | `Spec => []RenderIsShown`, if buttons run alone |
| `NoSecondCard` | `Spec => []OneCardEach`, if buttons run alone |
| **`LiveProofs`** | |
| `TypesHold` | `Spec => []TypeOK` |
| `NeverBack` | `Spec => NeverGoesBack`, if nobody posts from the page |
| `NothingIsLost` | `Spec => []NoUpdateLost`, with five doings left out |

### Sharing

None of the properties is inductive alone. That a join never puts a member on a
public list needs to be known of a request that is about to write: it read an
owner, and an owner, once there, stays until the list is purged. `IInv` adds that
knowledge for each step a request can be at: `ListsKept` and `TasksKept` are about
the tables, `KnowsItsList`, `KnowsItsTask` and `KnowsItself` about a request.

The argument has two halves. Each statement of `Store` keeps the tables
(`TablesKept`) and changes no row in a way a request that has read it does not
expect (`RowsKept`: made rows stay made, purged ones do not come back, owners stay,
tasks stay on their list); that is one lemma per statement. `KnowledgeLasts` then
carries every request's knowledge across any such change, and
`OneRequestMoves` leaves only the request that moves to look at: arrivals, reads and
writes have a lemma each. The action properties come from `IInv` and `RowsKept`.

The three properties that fail when requests overlap (section 4) are proved for one
request at a time (`OneAtATime`: any two requests are the same). `Serial` adds to
`IInv` what such a request may rely on (`Fresh`): the owner it read, the code it
presented and the member it found are still the list's, because only days pass
in between. `OnlyRemovalsOvertake` shows how narrow the gap of `assign_race` is: with any number of
overlapping requests, claims, purges and restarts among them, an assignee is a
member as long as nobody is removed or leaves.

### Refinement

`Refinement` is proved from `Invariance`. Its first half has a lemma per statement of `Store`
that writes a list or a membership (`CreateListOwns`, `HiddenStutters`, `PurgeVanishes`,
...): given tables that keep their invariant, it is the step of `Belonging` it is
meant to be. Its second half shows that handlers run the statement only then; for a
join, `KnowsItsList` says that the list the request read has an owner.

### Edits

Four layers. `Counted` keeps `lastDone` within the clock and one step for each request,
by counting the requests that have still to take a time. `PartsKnown` says, for each step, which parts of
what a request asked for are done and which are left; `AnsweredForAll` is its
last step. `BesideKnown` says that of two requests at work each knows of
the other, so one that knows of none holds the columns as they are
(`NilFieldsLeftAlone`). `TimesFresh` says that, until a restart, `lastDone` is no earlier than any
finish time and that no two are the same, those taken and not yet written included:
that is what makes a task that is finished in two halves safe from one finished in
between.

### Unread

`Numbered`: ids are given out once and in order, and nobody has seen an id that is not given
out yet. `Witnessed`: whoever joined before a comment was a member when it was made.
`Delivered`: what somebody in the web app is marked as having seen they have been sent, or a
page is on its way that will show it; it is `HardToMiss` without the query. The largest
id of a task's comments is found by well-founded descent (`LargestOf`), which the
library's theorems have for numbers.

### Push

`KeysKept`: both halves in the database are from one server, and every server that
is up and every browser has that pair: INSERT OR IGNORE and the read after it are
one transaction. `MadeBefore`: no subscription is from the future; so the one
just saved has the latest second and the largest id, and the limit on devices can
reach it only when all the others are of that second.

### SignUp

`Worth` is the account of an address: what was granted and what is left in the
bucket, less what came in by the bucket's own clock, is at most a full bucket; the
bucket's clock is behind by no more than a request waits. A bucket that is forgotten is full by then, and the
account stays within the bound with a wait to spare, for the bucket that follows. `Kept`: in a demo's database no account is real. `Edge`: whoever is over age
by the time of the sweep's first statement, and owns a list, has been noted by it.

### Board

All of it rests on the lock. `OneAtATime`: whoever works on the board has it; buttons may
look before they wait. `Listed`: nobody knows of a task that is not there yet but
who adds it. `CopyInv`: a copied comment is recorded, or in the hand of the one
that works, or in `unsure`. `Known`: what the job at work believes of its card is what the row says
(`KnowsItsCard`), but for what it is about to save; so rows match messages when it is
done. `Known` needs `ButtonsAlone` (neither *done* nor *assign* overlaps with
anything), because a button reads its card before it has the lock; `board_stale` is
what happens otherwise. The first part of the module says what each step of a handler does
to its job, so that each invariant is proved from that and not from the definitions.

### Live

`TypeInv` includes that the hub and the browsers agree on who has a stream. `Ordered`: what
a page has in flight is no older than what it shows, which needs that it has one
request at a time. `Aware` is the heart of `NoUpdateLost`: a page that does not show
what the store holds has been *told*, or will be (`Told`: an operation that has still to
publish has it, or will gather it, among its recipients), or there is a *notice* of it: a signal in its channel, an
event on the wire, the timer, a request that has not been answered, an answer that
holds it, something held back by a form, or a stream to be opened again. Each
step hands that on to the next before it lets go. `Undisturbed` excludes `latejoin`, `menu`, `post`, `load` and `fail`, because each
of the five alone breaks the property (section 4; with `latejoin` and two people). Broken
streams, hidden pages, restarts and forms are all in.

### Only model-checked

Everything under fairness, which TLAPS does not reach: `QueueDrains`, `BoardCatchesUp`,
`CommentsArrive` and `CatchesUp`. The runs that expect a violation are counterexamples
and have nothing to prove. What is not true when requests overlap
(`AssigneeIsMember`, `OnlyOwnerManages`, `JoinNeedsCurrentInvite`) or buttons do
(`RenderIsShown`, `OneCardEach`) is proved under the condition its run has.

## 6. Not modelled

- Tags (`tags.go`): a scanner over text, of which a model would be a copy.
- The bot's identities and `/taskboard`: `personFor`, `member`, `freshInvite` are a call
  and a row each. Two `/taskboard` at once in a channel are a hazard without a module.
- The ten seconds' grace at shutdown: a restart cuts requests short at any step
  instead, which is worse than what the grace allows.
- Renaming a list or a person, colours, preferences of the page: single statements
  without a condition on anything that changes.
- Identity: a caller is who their token says.
- The CLI and the client library (one call a command), backup (one atomic
  statement), compression, rendering, templates, vendored assets, tools and
  workflows: nothing in them happens between two steps.
- Errors of SQLite itself, except as a request that dies half way.

## 7. Plan

Every safety invariant and action property of a run that passes has its theorem. What
is left:

1. `OneCardEach` and `RenderIsShown` with buttons that overlap with looks but not
   with each other: what of `KnowsItsCard` survives the wait for the lock.
2. `BotPeople`: identities and boards of the bot, `/taskboard` twice at once.
3. The rest of `Sharing` under overlap: how stale an invite that lets somebody in can
   be (it was the list's when the request looked it up).
