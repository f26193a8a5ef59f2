-------------------------------- MODULE Live --------------------------------
(***************************************************************************)
(* Live updates: Announce.tla, the event streams of hub.go, and the script *)
(* of page.html at the other end of them.                                  *)
(*                                                                         *)
(* A page shows some version of the list.  A signal makes its event stream *)
(* say "changed"; the page then waits 120 ms for more of them, fetches     *)
(* itself again and puts in what is different, unless that part of it is   *)
(* being edited.  Streams break and reconnect, requests fail, the server   *)
(* restarts, tabs are closed.                                              *)
(*                                                                         *)
(* What people and the network do in a model is given by Doings; the       *)
(* server and the scripts always do all they do.                           *)
(***************************************************************************)
EXTENDS Announce

CONSTANTS
    ListPages,    \* pages on the list itself; the others are on the dashboard
    Doings,       \* what happens in this model (a bound)
    MaxFaults     \* how many times something breaks (a bound)

AllDoings == {"join", "remove", "claim", "trash",   \* changes, besides edits
              "latejoin", \* joining a list that is deleted, or about to be
              "form",     \* a form being filled in, closed by a button or Esc
              "menu",     \* a drop-down menu, closed by clicking elsewhere
              "post",     \* a page posts its own change and shows the answer
              "load",     \* a page is left for a new copy of itself
              "hide",     \* a page goes out of sight and comes back
              "drop", "fail", "restart",            \* things that break
              "poll"}     \* the five-minute timer

ASSUME LiveConstants ==
    /\ ListPages \subseteq Pages
    /\ Doings \subseteq AllDoings
    /\ MaxFaults \in Nat

VARIABLES
    pages,      \* pages[p]: one document in a browser
    faults      \* how many things have broken so far

vars == <<list, writers, subs, ghosts, pages, faults>>

Versions == 0..MaxVersion

Page == [doc: {"open", "away"},
         shown: Versions,                    \* what is on the screen
         stream: {"connecting", "accepted", "open", "refused"},
         opened: BOOLEAN,                    \* onopen has run before
         wire: Nat,                          \* "changed" events on their way
         timer: BOOLEAN,                     \* scheduleRefresh is waiting
         fetch: {"none", "sent", "back"},    \* refresh; inflight unless "none"
         got: Versions,                      \* the answer it got
         again: BOOLEAN,
         busy: {"no", "form", "menu"},       \* isEditing
         pending: BOOLEAN,
         post: {"none", "sent", "working", "follow", "back"},
         reply: Versions,                    \* the page it was redirected to
         hidden: BOOLEAN]

\* A document just rendered, showing v.
Rendered(v) ==
    [doc |-> "open", shown |-> v, stream |-> "connecting", opened |-> FALSE,
     wire |-> 0, timer |-> FALSE, fetch |-> "none", got |-> Gone, again |-> FALSE,
     busy |-> "no", pending |-> FALSE, post |-> "none", reply |-> Gone,
     hidden |-> FALSE]

Closed == [Rendered(Gone) EXCEPT !.doc = "away"]

\* Everyone has been looking at an up-to-date page with a working stream.
Init ==
    /\ \E owner \in Users \cup {Nobody}, others \in SUBSET Users :
           list = [version |-> 1, owner |-> owner, trashed |-> FALSE,
                   members |-> IF owner = Nobody THEN {} ELSE others \cup {owner}]
    /\ writers = [w \in Writers |-> IdleWriter]
    /\ pages = [p \in Pages |->
           IF p \in ListPages /\ ~Sees(ViewerOf[p]) THEN Closed
           ELSE [Rendered(View(ViewerOf[p])) EXCEPT !.stream = "open", !.opened = TRUE]]
    /\ subs = [p \in Pages |-> IF pages[p].doc = "open" THEN "quiet" ELSE "none"]
    /\ ghosts = {}
    /\ faults = 0

Does(d) == d \in Doings
Open(p) == pages[p].doc = "open"
Set(p, page) == pages' = [pages EXCEPT ![p] = page]
Breaks == faults < MaxFaults /\ faults' = faults + 1

serverState == <<list, writers>>

----------------------------------------------------------------------------
(* Server: changes, streams and answers.                                   *)

Deleting == list.trashed \/ \E w \in Writers : writers[w].kind = "delete"

Change(w) ==
    /\ \E kind \in {"edit", "join", "remove", "claim", "restore"},
          u \in Users \cup {Nobody} :
           /\ kind = "edit" \/ Does(kind) \/ (kind = "restore" /\ Does("trash"))
           /\ kind = "join" /\ Deleting => Does("latejoin")
           /\ Commit(w, kind, u, NoPage)
    /\ UNCHANGED <<pages, faults>>

Delete(w) ==
    /\ \/ Does("trash") /\ GatherDelete(w)
       \/ CommitDelete(w)
    /\ UNCHANGED <<pages, faults>>

Tell(w) ==
    /\ Gather(w)
    /\ UNCHANGED <<pages, faults>>

\* The handler of a page's own post redirects it once publish has returned.
Announced(w) ==
    /\ Publish(w)
    /\ LET p == writers[w].page IN
       pages' = IF p \in Pages /\ pages[p].post = "working"
                THEN [pages EXCEPT ![p].post = "follow"] ELSE pages
    /\ UNCHANGED faults

\* events: subscribes, or refuses the page one stream too many.
Connect(p) ==
    /\ Open(p) /\ pages[p].stream = "connecting"
    /\ \/ /\ Subscribe(p)
          /\ pages' = [pages EXCEPT ![p].stream = "accepted"]
       \/ /\ ~HasRoom(ViewerOf[p])
          /\ pages' = [pages EXCEPT ![p].stream = "refused"]
          /\ UNCHANGED hub
    /\ UNCHANGED <<serverState, faults>>

\* events: takes the signal from the channel and writes the event.
Emit(p) ==
    /\ subs[p] = "signal"
    /\ subs' = [subs EXCEPT ![p] = "quiet"]
    /\ pages' = [pages EXCEPT ![p].wire = @ + 1]
    /\ UNCHANGED <<serverState, ghosts, faults>>

DropGhost(p) == Unsubscribe(p) /\ UNCHANGED <<serverState, pages, faults>>

AnswerFetch(p) ==
    /\ pages[p].fetch = "sent"
    /\ pages' = [pages EXCEPT ![p].fetch = "back", ![p].got = View(ViewerOf[p])]
    /\ UNCHANGED <<serverState, hub, faults>>

ServePost(p, w) ==
    /\ pages[p].post = "sent"
    /\ Commit(w, "edit", Nobody, p)
    /\ pages' = [pages EXCEPT ![p].post = "working"]
    /\ UNCHANGED faults

AnswerPost(p) ==
    /\ pages[p].post = "follow"
    /\ pages' = [pages EXCEPT ![p].post = "back", ![p].reply = View(ViewerOf[p])]
    /\ UNCHANGED <<serverState, hub, faults>>

----------------------------------------------------------------------------
(* The script of a page.                                                   *)

\* A slip: no inflight flag, so two requests can be under way (the second one
\* in the place of a post's).
RefreshInParallel(q) ==
    IF q.fetch = "none" THEN [q EXCEPT !.fetch = "sent"]
    ELSE IF q.post = "none" THEN [q EXCEPT !.post = "follow"]
    ELSE [q EXCEPT !.again = TRUE]

\* refresh
Refresh(q) == IF q.fetch = "none" THEN [q EXCEPT !.fetch = "sent"]
                                  ELSE [q EXCEPT !.again = TRUE]

\* The last .then of refresh: not in flight any more, or once again.
Landed(q) == [q EXCEPT !.fetch = IF q.again THEN "sent" ELSE "none",
                       !.again = FALSE, !.got = Gone]

\* apply: swap in what is different, unless it is being edited.
Apply(q, v) ==
    IF v # q.shown /\ q.busy # "no" THEN [q EXCEPT !.pending = TRUE]
    ELSE [q EXCEPT !.shown = v]

\* flushPending
Flush(q) == IF q.pending THEN Refresh([q EXCEPT !.pending = FALSE]) ELSE q

\* es.onopen: catch up, but not the first time.
OnOpen(p) ==
    /\ pages[p].stream = "accepted"
    /\ pages' = [pages EXCEPT ![p].stream = "open", ![p].opened = TRUE,
                              ![p].timer = @ \/ pages[p].opened]
    /\ UNCHANGED <<serverState, hub, faults>>

OnChanged(p) ==
    /\ pages[p].stream = "open" /\ pages[p].wire > 0
    /\ pages' = [pages EXCEPT ![p].wire = @ - 1, ![p].timer = TRUE]
    /\ UNCHANGED <<serverState, hub, faults>>

TimerFires(p) ==
    /\ pages[p].timer
    /\ Set(p, Refresh([pages[p] EXCEPT !.timer = FALSE]))
    /\ UNCHANGED <<serverState, hub, faults>>

\* A list page that is answered 404 goes to the dashboard.
OnFetched(p) ==
    /\ pages[p].fetch = "back"
    /\ LET q == pages[p] IN
       \/ /\ p \in ListPages /\ q.got = Gone
          /\ Set(p, Closed)
          /\ HangUp(p)
       \/ /\ ~(p \in ListPages /\ q.got = Gone)
          /\ Set(p, Landed(Apply(q, q.got)))
          /\ UNCHANGED hub
    /\ UNCHANGED <<serverState, faults>>

\* The submit handler: an answer that is not 200 is a toast and no more; any
\* other ends the editing it came from and is applied as it is.
OnPosted(p) ==
    /\ pages[p].post = "back"
    /\ LET q == [pages[p] EXCEPT !.post = "none", !.reply = Gone]
           v == pages[p].reply IN
       \/ /\ p \in ListPages /\ v = Gone
          /\ Set(p, q)
       \/ /\ ~(p \in ListPages /\ v = Gone)
          /\ \E busy \in {"no", q.busy} :
                 Set(p, Apply([q EXCEPT !.busy = busy, !.pending = FALSE], v))
    /\ UNCHANGED <<serverState, hub, faults>>

----------------------------------------------------------------------------
(* People.                                                                 *)

StartEditing(p, how) ==
    /\ Open(p) /\ pages[p].busy = "no" /\ Does(how)
    /\ pages' = [pages EXCEPT ![p].busy = how]
    /\ UNCHANGED <<serverState, hub, faults>>

\* stopEditing, closeTaskMenus
CloseForm(p) ==
    /\ pages[p].busy = "form"
    /\ Set(p, Flush([pages[p] EXCEPT !.busy = "no"]))
    /\ UNCHANGED <<serverState, hub, faults>>

\* A drop-down that is clicked away: nothing of the script runs.
CloseMenu(p) ==
    /\ pages[p].busy = "menu"
    /\ pages' = [pages EXCEPT ![p].busy = "no"]
    /\ UNCHANGED <<serverState, hub, faults>>

Submit(p) ==
    /\ Does("post") /\ Open(p) /\ pages[p].post = "none"
    /\ pages' = [pages EXCEPT ![p].post = "sent"]
    /\ UNCHANGED <<serverState, hub, faults>>

\* A link, a reload, a tab closed or opened: the old document goes with its
\* stream, and a new one is rendered from what the store holds now.
Load(p) ==
    /\ Does("load")
    /\ HangUp(p)
    /\ \/ Open(p) /\ Set(p, Closed)
       \/ /\ p \in ListPages => Sees(ViewerOf[p])
          /\ Set(p, Rendered(View(ViewerOf[p])))
    /\ UNCHANGED <<serverState, faults>>

\* visibilitychange refreshes a page that comes back into view.
Hide(p) ==
    /\ Does("hide") /\ Open(p)
    /\ pages' = [pages EXCEPT ![p].hidden = ~@, ![p].timer = @ \/ pages[p].hidden]
    /\ UNCHANGED <<serverState, hub, faults>>

\* A slip: the timer looks only while the stream is open.
PollWhileConnected(p) ==
    /\ Does("poll") /\ Open(p) /\ ~pages[p].hidden
    /\ pages[p].stream = "open"
    /\ pages' = [pages EXCEPT ![p].timer = TRUE]
    /\ UNCHANGED <<serverState, hub, faults>>

Poll(p) ==
    /\ Does("poll") /\ Open(p) /\ ~pages[p].hidden
    /\ pages' = [pages EXCEPT ![p].timer = TRUE]
    /\ UNCHANGED <<serverState, hub, faults>>

----------------------------------------------------------------------------
(* Things that break.                                                      *)

\* A stream breaks; EventSource connects again by itself.
Disconnected(q) ==
    [q EXCEPT !.stream = IF @ = "refused" THEN @ ELSE "connecting", !.wire = 0]

Drop(p) ==
    /\ Does("drop") /\ Breaks
    /\ Open(p) /\ pages[p].stream \in {"accepted", "open"}
    /\ Set(p, Disconnected(pages[p]))
    /\ HangUp(p)
    /\ UNCHANGED serverState

\* A request of the page comes to nothing, which it keeps to itself.
Fail(p) ==
    /\ Does("fail") /\ Breaks
    /\ \/ pages[p].fetch # "none" /\ Set(p, Landed(pages[p]))
       \/ /\ pages[p].post # "none"
          /\ pages' = [pages EXCEPT ![p].post = "none", ![p].reply = Gone]
    /\ UNCHANGED <<serverState, hub>>

\* The server stops and starts: streams break, requests fail, and what was
\* committed but not yet announced never will be.
Restart ==
    /\ Does("restart") /\ Breaks
    /\ writers' = [w \in Writers |-> IdleWriter]
    /\ subs' = [p \in Pages |-> "none"]
    /\ ghosts' = {}
    /\ pages' = [p \in Pages |->
           LET q == IF Open(p) THEN Disconnected(pages[p]) ELSE pages[p]
               r == IF q.fetch = "sent" THEN Landed(q) ELSE q IN
           IF r.post \in {"sent", "working", "follow"}
           THEN [r EXCEPT !.post = "none"] ELSE r]
    /\ UNCHANGED list

----------------------------------------------------------------------------

Server(w) == Change(w) \/ Delete(w) \/ Tell(w) \/ Announced(w)

Stream(p) == Connect(p) \/ Emit(p) \/ DropGhost(p)

Script(p) ==
    \/ OnOpen(p) \/ OnChanged(p) \/ TimerFires(p)
    \/ AnswerFetch(p) \/ OnFetched(p)
    \/ AnswerPost(p) \/ OnPosted(p)
    \/ \E w \in Writers : ServePost(p, w)

Person(p) ==
    \/ \E how \in {"form", "menu"} : StartEditing(p, how)
    \/ CloseForm(p) \/ CloseMenu(p)
    \/ Submit(p) \/ Load(p) \/ Hide(p) \/ Poll(p)

Next ==
    \/ \E w \in Writers : Server(w)
    \/ \E p \in Pages : Stream(p) \/ Script(p) \/ Person(p) \/ Drop(p) \/ Fail(p)
    \/ Restart

Spec == Init /\ [][Next]_vars

\* The server finishes what it has begun, the browser runs its timers and
\* reconnects, the network delivers what it does not lose, and the five-minute
\* timer keeps ticking.  Nobody has to change, load, hide or edit anything.
Fairness ==
    /\ \A w \in Writers : WF_vars(Tell(w)) /\ WF_vars(Announced(w))
    /\ \A p \in Pages :
           /\ WF_vars(Connect(p)) /\ WF_vars(Emit(p)) /\ WF_vars(DropGhost(p))
           /\ WF_vars(OnOpen(p)) /\ WF_vars(OnChanged(p)) /\ WF_vars(TimerFires(p))
           /\ WF_vars(AnswerFetch(p)) /\ WF_vars(OnFetched(p))
           /\ WF_vars(Poll(p))

LiveSpec == Spec /\ Fairness

----------------------------------------------------------------------------
(* Properties.                                                             *)

\* Every component holds a value of its kind, and the hub and the browser agree
\* on which pages have a stream.
TypeOK ==
    /\ AnnounceType
    /\ pages \in [Pages -> Page]
    /\ faults \in 0..MaxFaults
    /\ \A p \in Pages : subs[p] # "none" <=>
           Open(p) /\ pages[p].stream \in {"accepted", "open"}

Fresh(p) == Open(p) => pages[p].shown = View(ViewerOf[p])

\* Nothing is under way that will make page p look again.
AtRest(p) ==
    LET q == pages[p] IN
    /\ q.stream = "open" /\ q.wire = 0 /\ subs[p] # "signal"
    /\ ~q.timer /\ q.fetch = "none" /\ q.post = "none"
    /\ \A w \in Writers : writers[w].step \notin {"gather", "publish"}

\* "Changes made by other people (or the CLI) appear on your screen within a
\* moment ... If you're in the middle of editing something, that part waits
\* until you're done" (README.md:171): with nothing left to happen a page shows
\* what the store holds, or knows that it has to look when the editing is over.
NoUpdateLost ==
    \A p \in Pages : Open(p) /\ AtRest(p) =>
        Fresh(p) \/ (pages[p].busy # "no" /\ pages[p].pending)

\* refresh keeps to one request at a time, so a page never replaces what it
\* shows by something older: answers are applied in the order they were read.
NeverGoesBack ==
    [][\A p \in Pages : Open(p) /\ Open(p)' /\ pages'[p].shown # Gone
                           => pages'[p].shown >= pages[p].shown]_vars

\* However often streams, requests and the server break, a page that is on
\* the screen and not being edited shows the truth again and again: the
\* five-minute timer repairs what the signals miss (page.html:701).
CatchesUp ==
    \A p \in Pages : []<>(Fresh(p) \/ pages[p].busy # "no" \/ pages[p].hidden)

=============================================================================
