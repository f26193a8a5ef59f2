------------------------------ MODULE LiveProofs ------------------------------
(***************************************************************************)
(* Live updates for any number of people, pages, streams and operations.   *)
(*                                                                         *)
(* What keeps an update from being lost is that the news of it is always   *)
(* somewhere: with an operation that has still to publish, in the hub, on  *)
(* the wire, in the timer or in a request (Notice); each step hands it on  *)
(* to the next one before it lets go (Aware).  What keeps a page from      *)
(* going back is that it has one request at a time (Ordered).              *)
(***************************************************************************)
EXTENDS Live, TLAPS

----------------------------------------------------------------------------
(* Pages.                                                                  *)

\* What somebody sees of the list is a version it has had, or that it is gone.
LEMMA ViewTyped ==
    ASSUME AnnounceType, NEW u
    PROVE  View(u) \in Versions /\ View(u) <= list.version
BY AnnounceConstants DEF AnnounceType, ListType, View, Gone, Versions

\* The same document and stream, in the middle of the same post.
Same(q, r) ==
    /\ r.doc = q.doc /\ r.stream = q.stream /\ r.opened = q.opened
    /\ r.wire = q.wire /\ r.post = q.post

\* refresh: ask, or remember to ask again.
LEMMA RefreshDoes ==
    ASSUME NEW q \in Page
    PROVE  LET r == Refresh(q) IN
           /\ r \in Page /\ Same(q, r)
           /\ r.shown = q.shown /\ r.got = q.got
           /\ r.busy = q.busy /\ r.pending = q.pending /\ r.timer = q.timer
           /\ r.fetch = IF q.fetch = "none" THEN "sent" ELSE q.fetch
           /\ r.fetch = "sent" \/ r.again
BY DEF Refresh, Same, Page

\* A request has come back: ask again if that was remembered.
LEMMA LandedDoes ==
    ASSUME NEW q \in Page
    PROVE  LET r == Landed(q) IN
           /\ r \in Page /\ Same(q, r)
           /\ r.shown = q.shown /\ r.got = Gone
           /\ r.busy = q.busy /\ r.pending = q.pending /\ r.timer = q.timer
           /\ r.fetch = (IF q.again THEN "sent" ELSE "none") /\ ~r.again
<1>1. Gone \in Versions
  BY AnnounceConstants DEF Versions, Gone
<1>2. CASE q.again
  BY <1>1, <1>2 DEF Landed, Same, Page
<1>3. CASE ~q.again
  BY <1>1, <1>3 DEF Landed, Same, Page
<1> QED
  BY <1>2, <1>3

\* apply: show it, or hold it back while something is edited.
LEMMA ApplyDoes ==
    ASSUME NEW q \in Page, NEW v \in Versions
    PROVE  LET r == Apply(q, v) IN
           /\ r \in Page /\ Same(q, r)
           /\ r.got = q.got /\ r.busy = q.busy /\ r.timer = q.timer
           /\ r.fetch = q.fetch /\ r.again = q.again
           /\ \/ r.shown = v
              \/ r.shown = q.shown /\ q.busy # "no" /\ r.pending
BY DEF Apply, Same, Page

\* What was held back makes the page ask.
LEMMA FlushDoes ==
    ASSUME NEW q \in Page
    PROVE  LET r == Flush(q) IN
           /\ r \in Page /\ Same(q, r)
           /\ r.shown = q.shown /\ r.got = q.got
           /\ r.busy = q.busy /\ r.timer = q.timer
           /\ \/ r = q /\ ~q.pending
              \/ /\ r.fetch = IF q.fetch = "none" THEN "sent" ELSE q.fetch
                 /\ r.fetch = "sent" \/ r.again
<1>1. CASE q.pending
  <2> DEFINE b == [q EXCEPT !.pending = FALSE]
  <2>1. b \in Page /\ Same(q, b) /\ b.shown = q.shown /\ b.got = q.got
        /\ b.busy = q.busy /\ b.timer = q.timer /\ b.fetch = q.fetch
    BY DEF Page, Same
  <2>2. Flush(q) = Refresh(b)
    BY <1>1 DEF Flush
  <2> HIDE DEF b
  <2> QED
    BY <2>1, <2>2, RefreshDoes DEF Same
<1>2. CASE ~q.pending
  BY <1>2 DEF Flush, Same
<1> QED
  BY <1>1, <1>2 DEF Page

\* A stream that ended: what was on the wire is lost.
LEMMA DisconnectedDoes ==
    ASSUME NEW q \in Page
    PROVE  LET r == Disconnected(q) IN
           /\ r \in Page /\ r.stream \in {"connecting", "refused"}
           /\ r = [q EXCEPT !.stream = r.stream, !.wire = 0]
           /\ r.doc = q.doc /\ r.opened = q.opened /\ r.post = q.post
           /\ r.shown = q.shown /\ r.got = q.got
           /\ r.busy = q.busy /\ r.pending = q.pending /\ r.timer = q.timer
           /\ r.fetch = q.fetch /\ r.again = q.again
BY DEF Disconnected, Page

\* A closed page, and one just rendered.
LEMMA NewPages ==
    /\ Closed \in Page /\ Closed.doc = "away" /\ Closed.fetch = "none"
    /\ Closed.post = "none" /\ Closed.busy = "no" /\ ~Closed.again
    /\ Closed.shown = Gone /\ Closed.got = Gone
    /\ \A v \in Versions :
           LET r == Rendered(v) IN
           /\ r \in Page /\ r.doc = "open" /\ r.stream = "connecting" /\ r.fetch = "none"
           /\ r.post = "none" /\ r.busy = "no" /\ ~r.again /\ r.shown = v /\ r.got = Gone
<1>1. Gone \in Versions
  BY AnnounceConstants DEF Versions, Gone
<1>2. ASSUME NEW v \in Versions
      PROVE  LET r == Rendered(v) IN
             /\ r \in Page /\ r.doc = "open" /\ r.stream = "connecting" /\ r.fetch = "none"
             /\ r.post = "none" /\ r.busy = "no" /\ ~r.again /\ r.shown = v /\ r.got = Gone
  BY <1>1 DEF Rendered, Page
<1> DEFINE r == Rendered(Gone)
<1>3. /\ r \in Page /\ r.fetch = "none" /\ r.post = "none" /\ r.busy = "no"
      /\ ~r.again /\ r.shown = Gone /\ r.got = Gone
  BY <1>1, <1>2
<1>4. Closed = [r EXCEPT !.doc = "away"]
  BY DEF Closed
<1> HIDE DEF r
<1>5. /\ Closed \in Page /\ Closed.doc = "away" /\ Closed.fetch = "none"
      /\ Closed.post = "none" /\ Closed.busy = "no" /\ ~Closed.again
      /\ Closed.shown = Gone /\ Closed.got = Gone
  BY <1>3, <1>4 DEF Page
<1> QED
  BY <1>2, <1>5

----------------------------------------------------------------------------
(* What each step does to the page it is about.                            *)

\* Page p becomes q, and no other page changes.
Turns(p, q) == q \in Page /\ pages' = [pages EXCEPT ![p] = q]

\* The same request, with the same answer.
SameFetch(q, r) == r.fetch = q.fetch /\ r.got = q.got /\ r.again = q.again

\* The same on the screen, seen or being edited.
SameScreen(q, r) == r.shown = q.shown /\ r.busy = q.busy /\ r.pending = q.pending

\* Nothing of the server changes, the streams apart, and nothing breaks.
ServerStays == UNCHANGED <<list, writers, faults>>

\* The fields of a page, one by one.
LEMMA PageFields ==
    ASSUME TypeOK, NEW p \in Pages
    PROVE  LET q == pages[p] IN
           /\ q \in Page /\ q.doc \in {"open", "away"} /\ q.shown \in Versions
           /\ q.stream \in {"connecting", "accepted", "open", "refused"}
           /\ q.opened \in BOOLEAN /\ q.wire \in Nat /\ q.timer \in BOOLEAN
           /\ q.fetch \in {"none", "sent", "back"} /\ q.got \in Versions
           /\ q.again \in BOOLEAN /\ q.busy \in {"no", "form", "menu"}
           /\ q.pending \in BOOLEAN /\ q.reply \in Versions
           /\ q.post \in {"none", "sent", "working", "follow", "back"}
           /\ ViewerOf[p] \in Users /\ View(ViewerOf[p]) \in Versions
           /\ View(ViewerOf[p]) <= list.version
BY ViewTyped, AnnounceConstants DEF TypeOK, Page

\* A page connects and is subscribed, or refused.
LEMMA ConnectDoes ==
    ASSUME TypeOK, NEW p \in Pages, Connect(p)
    PROVE  /\ ServerStays /\ UNCHANGED ghosts /\ Open(p)
           /\ \E q : /\ Turns(p, q) /\ SameFetch(pages[p], q) /\ SameScreen(pages[p], q)
                     /\ q.doc = pages[p].doc /\ q.opened = pages[p].opened
                     /\ q.post = pages[p].post
                     /\ \/ q.stream = "accepted" /\ subs' = [subs EXCEPT ![p] = "quiet"]
                        \/ q.stream = "refused" /\ subs' = subs /\ subs[p] = "none"
<1> DEFINE q(s) == [pages[p] EXCEPT !.stream = s]
<1>1. ASSUME NEW s \in {"accepted", "refused"}, pages' = [pages EXCEPT ![p].stream = s]
      PROVE  /\ Turns(p, q(s)) /\ SameFetch(pages[p], q(s)) /\ SameScreen(pages[p], q(s))
             /\ q(s).doc = pages[p].doc /\ q(s).opened = pages[p].opened
             /\ q(s).post = pages[p].post /\ q(s).stream = s
  BY <1>1, PageFields DEF Page, Turns, SameFetch, SameScreen
<1>2. ServerStays /\ UNCHANGED ghosts /\ Open(p)
  BY DEF Connect, Subscribe, hub, ServerStays, serverState
<1>3. CASE Subscribe(p) /\ pages' = [pages EXCEPT ![p].stream = "accepted"]
  BY <1>1, <1>2, <1>3 DEF Subscribe
<1>4. CASE subs' = subs /\ pages' = [pages EXCEPT ![p].stream = "refused"]
  <2>1. subs[p] = "none"
    BY DEF Connect, TypeOK
  <2> QED
    BY <1>1, <1>2, <1>4, <2>1
<1> QED
  BY <1>3, <1>4 DEF Connect, hub

\* A signal is taken out of the hub and put on the wire.
LEMMA EmitDoes ==
    ASSUME TypeOK, NEW p \in Pages, Emit(p)
    PROVE  /\ ServerStays /\ UNCHANGED ghosts
           /\ subs[p] = "signal" /\ subs' = [subs EXCEPT ![p] = "quiet"]
           /\ \E q : /\ Turns(p, q) /\ SameFetch(pages[p], q) /\ SameScreen(pages[p], q)
                     /\ q.doc = pages[p].doc /\ q.opened = pages[p].opened
                     /\ q.post = pages[p].post /\ q.stream = pages[p].stream
                     /\ q.timer = pages[p].timer /\ q.wire > 0
<1> DEFINE q == [pages[p] EXCEPT !.wire = @ + 1]
<1>1. /\ Turns(p, q) /\ SameFetch(pages[p], q) /\ SameScreen(pages[p], q)
      /\ q.doc = pages[p].doc /\ q.opened = pages[p].opened
      /\ q.post = pages[p].post /\ q.stream = pages[p].stream
      /\ q.timer = pages[p].timer /\ q.wire > 0
  BY PageFields DEF Emit, Page, Turns, SameFetch, SameScreen
<1> HIDE DEF q
<1> QED
  BY <1>1 DEF Emit, ServerStays, serverState

\* The stream is open: after a reconnect the timer is set.
LEMMA OnOpenDoes ==
    ASSUME TypeOK, NEW p \in Pages, OnOpen(p)
    PROVE  /\ ServerStays /\ UNCHANGED hub /\ pages[p].stream = "accepted"
           /\ \E q : /\ Turns(p, q) /\ SameFetch(pages[p], q) /\ SameScreen(pages[p], q)
                     /\ q.doc = pages[p].doc /\ q.stream = "open" /\ q.opened
                     /\ q.post = pages[p].post
                     /\ q.timer = (pages[p].timer \/ pages[p].opened)
<1> DEFINE q == [pages[p] EXCEPT !.stream = "open", !.opened = TRUE,
                                 !.timer = @ \/ pages[p].opened]
<1>1. /\ q \in Page /\ SameFetch(pages[p], q) /\ SameScreen(pages[p], q)
      /\ q.doc = pages[p].doc /\ q.stream = "open" /\ q.opened
      /\ q.post = pages[p].post
      /\ q.timer = (pages[p].timer \/ pages[p].opened)
  BY PageFields DEF Page, SameFetch, SameScreen
<1>2. pages' = [pages EXCEPT ![p] = q]
  BY PageFields DEF OnOpen, Page, TypeOK
<1> HIDE DEF q
<1> QED
  BY <1>1, <1>2 DEF OnOpen, ServerStays, serverState, Turns

\* An event is taken in: the timer is set.
LEMMA OnChangedDoes ==
    ASSUME TypeOK, NEW p \in Pages, OnChanged(p)
    PROVE  /\ ServerStays /\ UNCHANGED hub
           /\ \E q : /\ Turns(p, q) /\ SameFetch(pages[p], q) /\ SameScreen(pages[p], q)
                     /\ q.doc = pages[p].doc /\ q.opened = pages[p].opened
                     /\ q.post = pages[p].post /\ q.stream = pages[p].stream /\ q.timer
<1> DEFINE q == [pages[p] EXCEPT !.wire = @ - 1, !.timer = TRUE]
<1>1. pages[p].wire - 1 \in Nat
  BY PageFields DEF OnChanged
<1>2. /\ q \in Page /\ SameFetch(pages[p], q) /\ SameScreen(pages[p], q)
      /\ q.doc = pages[p].doc /\ q.opened = pages[p].opened
      /\ q.post = pages[p].post /\ q.stream = pages[p].stream /\ q.timer
  BY <1>1, PageFields DEF Page, SameFetch, SameScreen
<1>3. pages' = [pages EXCEPT ![p] = q]
  BY PageFields DEF OnChanged, Page, TypeOK
<1> HIDE DEF q
<1> QED
  BY <1>2, <1>3 DEF OnChanged, ServerStays, serverState, Turns

\* The timer makes the page ask.
LEMMA TimerFiresDoes ==
    ASSUME TypeOK, NEW p \in Pages, TimerFires(p)
    PROVE  /\ ServerStays /\ UNCHANGED hub
           /\ \E q : /\ Turns(p, q) /\ SameScreen(pages[p], q) /\ Same(pages[p], q)
                     /\ q.got = pages[p].got
                     /\ q.fetch = (IF pages[p].fetch = "none" THEN "sent" ELSE pages[p].fetch)
                     /\ q.fetch = "sent" \/ q.again
<1> DEFINE b == [pages[p] EXCEPT !.timer = FALSE]
<1>1. /\ b \in Page /\ SameScreen(pages[p], b) /\ Same(pages[p], b)
      /\ b.got = pages[p].got /\ b.fetch = pages[p].fetch
  BY PageFields DEF Page, SameScreen, Same
<1> DEFINE q == Refresh(b)
<1>2. pages' = [pages EXCEPT ![p] = q]
  BY DEF TimerFires, Set
<1> HIDE DEF b
<1>3. /\ q \in Page /\ SameScreen(b, q) /\ Same(b, q) /\ q.got = b.got
      /\ q.fetch = (IF b.fetch = "none" THEN "sent" ELSE b.fetch)
      /\ q.fetch = "sent" \/ q.again
  BY <1>1, RefreshDoes DEF SameScreen
<1> HIDE DEF q
<1>4. SameScreen(pages[p], q) /\ Same(pages[p], q)
  BY <1>1, <1>3 DEF SameScreen, Same
<1> QED
  BY <1>1, <1>2, <1>3, <1>4 DEF TimerFires, ServerStays, serverState, Turns

\* The answer holds what the store holds at that moment.
LEMMA AnswerFetchDoes ==
    ASSUME TypeOK, NEW p \in Pages, AnswerFetch(p)
    PROVE  /\ ServerStays /\ UNCHANGED hub /\ pages[p].fetch = "sent"
           /\ \E q : /\ Turns(p, q) /\ SameScreen(pages[p], q) /\ Same(pages[p], q)
                     /\ q.fetch = "back" /\ q.got = View(ViewerOf[p])
                     /\ q.again = pages[p].again /\ q.timer = pages[p].timer
<1> DEFINE q == [pages[p] EXCEPT !.fetch = "back", !.got = View(ViewerOf[p])]
<1>1. /\ q \in Page /\ SameScreen(pages[p], q) /\ Same(pages[p], q)
      /\ q.fetch = "back" /\ q.got = View(ViewerOf[p])
      /\ q.again = pages[p].again /\ q.timer = pages[p].timer
  BY PageFields DEF Page, SameScreen, Same
<1>2. pages' = [pages EXCEPT ![p] = q]
  BY PageFields DEF AnswerFetch, Page, TypeOK
<1> HIDE DEF q
<1> QED
  BY <1>1, <1>2 DEF AnswerFetch, ServerStays, serverState, Turns

\* An answer is applied, or sends the page away.
LEMMA OnFetchedDoes ==
    ASSUME TypeOK, NEW p \in Pages, OnFetched(p)
    PROVE  /\ ServerStays /\ pages[p].fetch = "back"
           /\ \/ Turns(p, Closed) /\ HangUp(p)
              \/ /\ UNCHANGED hub
                 /\ p \in ListPages => pages[p].got # Gone
                 /\ \E q : /\ Turns(p, q) /\ Same(pages[p], q) /\ q.busy = pages[p].busy
                           /\ q.timer = pages[p].timer /\ q.got = Gone
                           /\ q.fetch = (IF pages[p].again THEN "sent" ELSE "none")
                           /\ ~q.again
                           /\ \/ q.shown = pages[p].got
                              \/ /\ q.shown = pages[p].shown
                                 /\ q.busy # "no" /\ q.pending
<1>1. ServerStays /\ pages[p].fetch = "back"
  BY DEF OnFetched, ServerStays, serverState
<1>2. CASE /\ p \in ListPages /\ pages[p].got = Gone
           /\ Set(p, Closed) /\ HangUp(p)
  BY <1>1, <1>2, NewPages DEF Set, Turns
<1>3. CASE /\ ~(p \in ListPages /\ pages[p].got = Gone)
           /\ Set(p, Landed(Apply(pages[p], pages[p].got)))
           /\ UNCHANGED hub
  <2> DEFINE b == Apply(pages[p], pages[p].got)
             q == Landed(b)
  <2>1. pages' = [pages EXCEPT ![p] = q]
    BY <1>3 DEF Set
  <2>2. /\ b \in Page /\ Same(pages[p], b)
        /\ b.busy = pages[p].busy /\ b.timer = pages[p].timer /\ b.again = pages[p].again
        /\ \/ b.shown = pages[p].got
           \/ b.shown = pages[p].shown /\ pages[p].busy # "no" /\ b.pending
    BY PageFields, ApplyDoes
  <2> HIDE DEF b
  <2>3. /\ q \in Page /\ Same(b, q) /\ q.shown = b.shown /\ q.got = Gone
        /\ q.busy = b.busy /\ q.pending = b.pending /\ q.timer = b.timer
        /\ q.fetch = (IF b.again THEN "sent" ELSE "none") /\ ~q.again
    BY <2>2, LandedDoes
  <2> HIDE DEF q
  <2>4. Same(pages[p], q)
    BY <2>2, <2>3 DEF Same
  <2> QED
    BY <1>1, <1>3, <2>1, <2>2, <2>3, <2>4 DEF Turns
<1> QED
  BY <1>2, <1>3 DEF OnFetched

\* A post's answer only concerns the page that posted.
LEMMA PostSteps ==
    ASSUME TypeOK, NEW p \in Pages, AnswerPost(p) \/ OnPosted(p)
    PROVE  /\ ServerStays /\ UNCHANGED hub /\ pages[p].post # "none"
           /\ \E q : /\ Turns(p, q) /\ q.doc = pages[p].doc /\ q.stream = pages[p].stream
<1>1. CASE AnswerPost(p)
  <2> DEFINE q == [pages[p] EXCEPT !.post = "back", !.reply = View(ViewerOf[p])]
  <2>1. q \in Page /\ q.doc = pages[p].doc /\ q.stream = pages[p].stream
    BY PageFields DEF Page
  <2>2. pages' = [pages EXCEPT ![p] = q]
    BY <1>1, PageFields DEF AnswerPost, Page, TypeOK
  <2> HIDE DEF q
  <2> QED
    BY <1>1, <2>1, <2>2 DEF AnswerPost, ServerStays, serverState, Turns
<1>2. CASE OnPosted(p)
  <2> DEFINE b == [pages[p] EXCEPT !.post = "none", !.reply = Gone]
             e(busy) == [b EXCEPT !.busy = busy, !.pending = FALSE]
             v == pages[p].reply
  <2>1. b \in Page /\ b.doc = pages[p].doc /\ b.stream = pages[p].stream
        /\ b.busy \in {"no", "form", "menu"} /\ v \in Versions
    <3>1. Gone \in Versions
      BY AnnounceConstants DEF Versions, Gone
    <3> QED
      BY <3>1, PageFields DEF Page
  <2>2. \/ Set(p, b)
        \/ \E busy \in {"no", b.busy} : Set(p, Apply(e(busy), v))
    BY <1>2, Zenon DEF OnPosted
  <2> HIDE DEF b, v
  <2>3. ASSUME NEW busy \in {"no", b.busy}
        PROVE  e(busy) \in Page /\ e(busy).doc = b.doc /\ e(busy).stream = b.stream
    BY <2>1 DEF Page
  <2> HIDE DEF e
  <2>4. ASSUME NEW busy \in {"no", b.busy}
        PROVE  LET r == Apply(e(busy), v)
               IN r \in Page /\ r.doc = b.doc /\ r.stream = b.stream
    BY <2>1, <2>3, ApplyDoes DEF Same
  <2>5. \E q : Turns(p, q) /\ q.doc = pages[p].doc /\ q.stream = pages[p].stream
    BY <2>1, <2>2, <2>4 DEF Set, Turns
  <2> QED
    BY <1>2, <2>5 DEF OnPosted, ServerStays, serverState
<1> QED
  BY <1>1, <1>2

\* A post is a commit like any other.
LEMMA ServePostDoes ==
    ASSUME TypeOK, NEW p \in Pages, NEW w \in Writers, ServePost(p, w)
    PROVE  /\ Commit(w, "edit", Nobody, p) /\ UNCHANGED faults /\ pages[p].post # "none"
           /\ \E q : Turns(p, q) /\ q.doc = pages[p].doc /\ q.stream = pages[p].stream
<1> DEFINE q == [pages[p] EXCEPT !.post = "working"]
<1>1. Turns(p, q) /\ q.doc = pages[p].doc /\ q.stream = pages[p].stream
  BY PageFields DEF ServePost, Page, Turns
<1> HIDE DEF q
<1> QED
  BY <1>1 DEF ServePost

\* Editing changes nothing but that the page is busy.
LEMMA StartEditingDoes ==
    ASSUME TypeOK, NEW p \in Pages, NEW how \in {"form", "menu"}, StartEditing(p, how)
    PROVE  /\ ServerStays /\ UNCHANGED hub /\ pages[p].busy = "no" /\ Does(how)
           /\ \E q : /\ Turns(p, q) /\ SameFetch(pages[p], q) /\ Same(pages[p], q)
                     /\ q.shown = pages[p].shown /\ q.timer = pages[p].timer
                     /\ q.busy = how
<1> DEFINE q == [pages[p] EXCEPT !.busy = how]
<1>1. /\ Turns(p, q) /\ SameFetch(pages[p], q) /\ Same(pages[p], q)
      /\ q.shown = pages[p].shown /\ q.timer = pages[p].timer /\ q.busy = how
  BY PageFields DEF StartEditing, Page, Turns, SameFetch, Same
<1> HIDE DEF q
<1> QED
  BY <1>1 DEF StartEditing, ServerStays, serverState

\* Closing a form makes the page ask for what was held back.
LEMMA CloseFormDoes ==
    ASSUME TypeOK, NEW p \in Pages, CloseForm(p)
    PROVE  /\ ServerStays /\ UNCHANGED hub
           /\ \E q : /\ Turns(p, q) /\ Same(pages[p], q) /\ q.busy = "no"
                     /\ q.shown = pages[p].shown /\ q.got = pages[p].got
                     /\ q.timer = pages[p].timer
                     /\ \/ /\ q.fetch = pages[p].fetch /\ q.again = pages[p].again
                           /\ ~pages[p].pending
                        \/ /\ q.fetch = (IF pages[p].fetch = "none" THEN "sent"
                                                                     ELSE pages[p].fetch)
                           /\ q.fetch = "sent" \/ q.again
<1> DEFINE b == [pages[p] EXCEPT !.busy = "no"]
           q == Flush(b)
<1>1. /\ b \in Page /\ Same(pages[p], b) /\ b.busy = "no" /\ b.shown = pages[p].shown
      /\ SameFetch(pages[p], b) /\ b.timer = pages[p].timer /\ b.pending = pages[p].pending
  BY PageFields DEF Page, Same, SameFetch
<1>2. pages' = [pages EXCEPT ![p] = q]
  BY DEF CloseForm, Set
<1> HIDE DEF b
<1>3. /\ q \in Page /\ Same(b, q) /\ q.shown = b.shown /\ q.got = b.got
      /\ q.busy = b.busy /\ q.timer = b.timer
      /\ \/ q = b /\ ~b.pending
         \/ /\ q.fetch = IF b.fetch = "none" THEN "sent" ELSE b.fetch
            /\ q.fetch = "sent" \/ q.again
  BY <1>1, FlushDoes
<1> HIDE DEF q
<1>4. Same(pages[p], q)
  BY <1>1, <1>3 DEF Same
<1> QED
  BY <1>1, <1>2, <1>3, <1>4 DEF CloseForm, ServerStays, serverState, Turns, SameFetch

\* Closing a menu does not.
LEMMA CloseMenuDoes ==
    ASSUME TypeOK, NEW p \in Pages, CloseMenu(p)
    PROVE  /\ ServerStays /\ UNCHANGED hub /\ pages[p].busy = "menu"
           /\ \E q : /\ Turns(p, q) /\ SameFetch(pages[p], q) /\ Same(pages[p], q)
                     /\ q.shown = pages[p].shown
<1> DEFINE q == [pages[p] EXCEPT !.busy = "no"]
<1>1. /\ Turns(p, q) /\ SameFetch(pages[p], q) /\ Same(pages[p], q)
      /\ q.shown = pages[p].shown
  BY PageFields DEF CloseMenu, Page, Turns, SameFetch, Same
<1> HIDE DEF q
<1> QED
  BY <1>1 DEF CloseMenu, ServerStays, serverState

\* Submitting is the post's beginning.
LEMMA SubmitDoes ==
    ASSUME TypeOK, NEW p \in Pages, Submit(p)
    PROVE  /\ ServerStays /\ UNCHANGED hub /\ Does("post")
           /\ \E q : Turns(p, q) /\ q.doc = pages[p].doc /\ q.stream = pages[p].stream
<1> DEFINE q == [pages[p] EXCEPT !.post = "sent"]
<1>1. Turns(p, q) /\ q.doc = pages[p].doc /\ q.stream = pages[p].stream
  BY PageFields DEF Submit, Page, Turns
<1> HIDE DEF q
<1> QED
  BY <1>1 DEF Submit, ServerStays, serverState

\* Another document, or none.
LEMMA LoadDoes ==
    ASSUME TypeOK, NEW p \in Pages, Load(p)
    PROVE  /\ ServerStays /\ HangUp(p) /\ Does("load")
           /\ Turns(p, Closed) \/ Turns(p, Rendered(View(ViewerOf[p])))
BY PageFields, NewPages DEF Load, Set, Turns, ServerStays, serverState

\* A page that is hidden or shown again, or whose five-minute timer ticks.
LEMMA TicksDo ==
    ASSUME TypeOK, NEW p \in Pages, Hide(p) \/ Poll(p)
    PROVE  /\ ServerStays /\ UNCHANGED hub
           /\ \E q : /\ Turns(p, q) /\ SameFetch(pages[p], q) /\ SameScreen(pages[p], q)
                     /\ Same(pages[p], q)
                     /\ pages[p].timer => q.timer
<1>1. CASE Hide(p)
  <2> DEFINE q == [pages[p] EXCEPT !.hidden = ~@, !.timer = @ \/ pages[p].hidden]
  <2>1. /\ q \in Page /\ SameFetch(pages[p], q) /\ SameScreen(pages[p], q)
        /\ Same(pages[p], q) /\ q.timer = (pages[p].timer \/ pages[p].hidden)
    BY PageFields DEF Page, SameFetch, SameScreen, Same
  <2>2. pages' = [pages EXCEPT ![p] = q]
    BY <1>1, PageFields DEF Hide, Page, TypeOK
  <2> HIDE DEF q
  <2> QED
    BY <1>1, <2>1, <2>2 DEF Hide, ServerStays, serverState, Turns
<1>2. CASE Poll(p)
  <2> DEFINE q == [pages[p] EXCEPT !.timer = TRUE]
  <2>1. /\ Turns(p, q) /\ SameFetch(pages[p], q) /\ SameScreen(pages[p], q)
        /\ Same(pages[p], q) /\ q.timer
    BY <1>2, PageFields DEF Poll, Page, Turns, SameFetch, SameScreen, Same
  <2> HIDE DEF q
  <2> QED
    BY <1>2, <2>1 DEF Poll, ServerStays, serverState
<1> QED
  BY <1>1, <1>2

\* A stream breaks: its subscription ends, or is left as a ghost.
LEMMA DropDoes ==
    ASSUME TypeOK, NEW p \in Pages, Drop(p)
    PROVE  /\ UNCHANGED <<list, writers>> /\ faults' \in 0 .. MaxFaults /\ HangUp(p)
           /\ \E q : /\ Turns(p, q) /\ SameFetch(pages[p], q) /\ SameScreen(pages[p], q)
                     /\ q.doc = pages[p].doc /\ q.opened = pages[p].opened
                     /\ q.post = pages[p].post /\ q.stream \in {"connecting", "refused"}
<1> DEFINE q == Disconnected(pages[p])
<1>1. /\ q \in Page /\ SameFetch(pages[p], q) /\ SameScreen(pages[p], q)
      /\ q.doc = pages[p].doc /\ q.opened = pages[p].opened
      /\ q.post = pages[p].post /\ q.stream \in {"connecting", "refused"}
  BY PageFields, DisconnectedDoes DEF SameFetch, SameScreen
<1>2. pages' = [pages EXCEPT ![p] = q] /\ HangUp(p) /\ UNCHANGED <<list, writers>>
  BY DEF Drop, Set, serverState
<1>3. faults' \in 0 .. MaxFaults
  BY LiveConstants DEF Drop, Breaks, TypeOK
<1> HIDE DEF q
<1> QED
  BY <1>1, <1>2, <1>3 DEF Turns

\* A request fails.
LEMMA FailDoes ==
    ASSUME TypeOK, NEW p \in Pages, Fail(p)
    PROVE  /\ UNCHANGED <<list, writers>> /\ UNCHANGED hub /\ faults' \in 0 .. MaxFaults
           /\ Does("fail")
           /\ \E q : /\ Turns(p, q) /\ q.doc = pages[p].doc /\ q.stream = pages[p].stream
                     /\ q.shown = pages[p].shown
                     /\ \/ pages[p].post # "none"
                        \/ /\ pages[p].fetch # "none" /\ q.got = Gone /\ q.fetch # "back"
                           /\ q.post = pages[p].post
<1>1. /\ UNCHANGED <<list, writers>> /\ UNCHANGED hub /\ Does("fail")
      /\ faults' \in 0 .. MaxFaults
  BY LiveConstants DEF Fail, Breaks, TypeOK, serverState
<1>2. CASE pages[p].fetch # "none" /\ Set(p, Landed(pages[p]))
  <2> DEFINE q == Landed(pages[p])
  <2>1. /\ q \in Page /\ Same(pages[p], q) /\ q.shown = pages[p].shown
        /\ q.got = Gone /\ q.fetch # "back"
    BY PageFields, LandedDoes
  <2>2. pages' = [pages EXCEPT ![p] = q]
    BY <1>2 DEF Set
  <2> HIDE DEF q
  <2> QED
    BY <1>1, <1>2, <2>1, <2>2 DEF Turns, Same
<1>3. CASE /\ pages[p].post # "none"
           /\ pages' = [pages EXCEPT ![p].post = "none", ![p].reply = Gone]
  <2> DEFINE q == [pages[p] EXCEPT !.post = "none", !.reply = Gone]
  <2>1. q \in Page /\ q.doc = pages[p].doc /\ q.stream = pages[p].stream
        /\ q.shown = pages[p].shown
    <3>1. Gone \in Versions
      BY AnnounceConstants DEF Versions, Gone
    <3> QED
      BY <3>1, PageFields DEF Page
  <2>2. pages' = [pages EXCEPT ![p] = q]
    BY <1>3, PageFields DEF Page, TypeOK
  <2> HIDE DEF q
  <2> QED
    BY <1>1, <1>3, <2>1, <2>2 DEF Turns
<1> QED
  BY <1>2, <1>3 DEF Fail

\* A restart breaks the stream of every page and cuts off the requests the
\* server has not answered; answers on their way arrive.
LEMMA RestartDoes ==
    ASSUME TypeOK, Restart
    PROVE  /\ UNCHANGED list /\ faults' \in 0 .. MaxFaults
           /\ writers' = [w \in Writers |-> IdleWriter]
           /\ subs' = [p \in Pages |-> "none"] /\ ghosts' = {}
           /\ pages' \in [Pages -> Page]
           /\ \A p \in Pages :
                 LET q == pages'[p] IN
                 /\ q.doc = pages[p].doc /\ q.opened = pages[p].opened
                 /\ q.doc = "open" => q.stream \in {"connecting", "refused"}
                 /\ SameScreen(pages[p], q)
                 /\ pages[p].post = "none" => q.post = "none"
                 /\ \/ SameFetch(pages[p], q)
                    \/ /\ pages[p].fetch = "sent" /\ q.got = Gone /\ ~q.again
                       /\ q.fetch = (IF pages[p].again THEN "sent" ELSE "none")
<1>1. /\ UNCHANGED list /\ writers' = [w \in Writers |-> IdleWriter]
      /\ subs' = [p \in Pages |-> "none"] /\ ghosts' = {}
  BY DEF Restart
<1>2. faults' \in 0 .. MaxFaults
  BY LiveConstants DEF Restart, Breaks, TypeOK
<1> DEFINE Q(p) == IF Open(p) THEN Disconnected(pages[p]) ELSE pages[p]
           R(p) == IF Q(p).fetch = "sent" THEN Landed(Q(p)) ELSE Q(p)
           S(p) == IF R(p).post \in {"sent", "working", "follow"}
                   THEN [R(p) EXCEPT !.post = "none"] ELSE R(p)
<1>3. pages' = [p \in Pages |-> S(p)]
  BY DEF Restart
<1>4. ASSUME NEW p \in Pages
      PROVE  /\ Q(p) \in Page /\ Q(p).doc = pages[p].doc /\ Q(p).opened = pages[p].opened
             /\ Q(p).doc = "open" => Q(p).stream \in {"connecting", "refused"}
             /\ SameScreen(pages[p], Q(p)) /\ SameFetch(pages[p], Q(p))
             /\ Q(p).post = pages[p].post
  <2>1. CASE Open(p)
    BY <2>1, PageFields, DisconnectedDoes DEF SameScreen, SameFetch
  <2>2. CASE ~Open(p)
    BY <2>2, PageFields DEF SameScreen, SameFetch, Open
  <2> QED
    BY <2>1, <2>2
<1> HIDE DEF Q
<1>5. ASSUME NEW p \in Pages
      PROVE  /\ R(p) \in Page /\ R(p).doc = pages[p].doc /\ R(p).opened = pages[p].opened
             /\ R(p).doc = "open" => R(p).stream \in {"connecting", "refused"}
             /\ SameScreen(pages[p], R(p)) /\ R(p).post = pages[p].post
             /\ \/ SameFetch(pages[p], R(p))
                \/ /\ pages[p].fetch = "sent" /\ R(p).got = Gone /\ ~R(p).again
                   /\ R(p).fetch = (IF pages[p].again THEN "sent" ELSE "none")
  <2>1. CASE Q(p).fetch = "sent"
    <3>1. LET r == Landed(Q(p)) IN
          /\ r \in Page /\ Same(Q(p), r) /\ SameScreen(Q(p), r) /\ r.got = Gone
          /\ r.fetch = (IF Q(p).again THEN "sent" ELSE "none") /\ ~r.again
      BY <1>4, LandedDoes DEF SameScreen
    <3>2. R(p) = Landed(Q(p))
      BY <2>1
    <3> HIDE DEF R
    <3> QED
      BY <1>4, <2>1, <3>1, <3>2 DEF Same, SameScreen, SameFetch
  <2>2. CASE Q(p).fetch # "sent"
    BY <1>4, <2>2
  <2> QED
    BY <2>1, <2>2
<1> HIDE DEF R
<1>6. ASSUME NEW p \in Pages
      PROVE  /\ S(p) \in Page /\ S(p).doc = pages[p].doc /\ S(p).opened = pages[p].opened
             /\ S(p).doc = "open" => S(p).stream \in {"connecting", "refused"}
             /\ SameScreen(pages[p], S(p))
             /\ pages[p].post = "none" => S(p).post = "none"
             /\ \/ SameFetch(pages[p], S(p))
                \/ /\ pages[p].fetch = "sent" /\ S(p).got = Gone /\ ~S(p).again
                   /\ S(p).fetch = (IF pages[p].again THEN "sent" ELSE "none")
  <2>1. CASE R(p).post \in {"sent", "working", "follow"}
    <3> DEFINE r == R(p)
               s == [r EXCEPT !.post = "none"]
    <3>1. r \in Page
      BY <1>5
    <3>2. s \in Page /\ s.doc = r.doc
          /\ s.opened = r.opened /\ s.stream = r.stream /\ SameScreen(r, s)
          /\ SameFetch(r, s) /\ s.post = "none"
      <4> HIDE DEF r
      <4> QED
        BY <3>1 DEF Page, Same, SameScreen, SameFetch
    <3>3. S(p) = s
      BY <2>1
    <3> HIDE DEF S, s
    <3> QED
      BY <1>5, <3>2, <3>3 DEF SameScreen, SameFetch
  <2>2. CASE R(p).post \notin {"sent", "working", "follow"}
    BY <1>5, <2>2
  <2> QED
    BY <2>1, <2>2
<1> HIDE DEF S
<1> QED
  BY <1>1, <1>2, <1>3, <1>6

----------------------------------------------------------------------------
(* Types.                                                                  *)

\* Types, and that only a user was removed.
TypeInv ==
    /\ TypeOK
    /\ \A w \in Writers : writers[w].kind = "remove" => writers[w].user \in Users

\* The part of it that a change to the list is about.
ServerTyped ==
    /\ AnnounceType
    /\ \A w \in Writers : writers[w].kind = "remove" => writers[w].user \in Users

\* A writer that has nothing to do.
LEMMA NewWriter == IdleWriter \in Writer /\ IdleWriter.kind = "edit" /\ IdleWriter.step = "idle"
BY DEF IdleWriter, Writer, Kinds

\* Only people are told.
LEMMA RecipientsTyped ==
    ASSUME AnnounceType
    PROVE  Recipients \subseteq Users
BY DEF AnnounceType, ListType, Recipients

\* One operation takes a step.
LEMMA WriterTypes ==
    ASSUME ServerTyped, NEW w \in Writers, NEW j \in Writer,
           j.kind = "remove" => j.user \in Users,
           writers' = [writers EXCEPT ![w] = j],
           list' \in ListType, subs' \in [Pages -> {"none", "quiet", "signal"}],
           ghosts' \subseteq Pages
    PROVE  ServerTyped'
BY DEF ServerTyped, AnnounceType

\* What an operation makes of the list is a list again.
LEMMA ChangedTyped ==
    ASSUME AnnounceType, NEW kind \in Kinds, NEW u, Possible(kind, u),
           list.version < MaxVersion
    PROVE  Changed(kind, u) \in ListType /\ (kind \in {"join", "remove", "claim"} => u \in Users)
<1>1. list \in ListType
  BY DEF AnnounceType
<1>2. kind \in {"join", "remove", "claim"} => u \in Users
  BY <1>1 DEF Possible, ListType
<1>3. list.version + 1 \in 1 .. MaxVersion
  BY <1>1, AnnounceConstants DEF ListType
<1> QED
  BY <1>1, <1>2, <1>3 DEF ListType, Changed

\* A commit keeps the server's types.
LEMMA CommitTypes ==
    ASSUME ServerTyped, NEW w \in Writers, NEW kind \in Kinds,
           NEW u \in Users \cup {Nobody}, NEW p \in Pages \cup {NoPage},
           Commit(w, kind, u, p)
    PROVE  ServerTyped'
<1> DEFINE j == [step |-> IF kind = "claim" THEN "publish" ELSE "gather",
                 kind |-> kind, user |-> u, page |-> p,
                 to   |-> IF kind = "claim" THEN Users ELSE {}]
<1>1. j \in Writer /\ j.kind = kind /\ j.user = u
  BY DEF Writer
<1>2. writers' = [writers EXCEPT ![w] = j] /\ UNCHANGED <<subs, ghosts>>
  BY DEF Commit, hub
<1>3. list' \in ListType /\ (kind = "remove" => u \in Users)
  BY ChangedTyped DEF Commit, ServerTyped
<1> HIDE DEF j
<1> QED
  BY <1>1, <1>2, <1>3, WriterTypes DEF ServerTyped, AnnounceType

\* Gathering chooses everybody who can see the list, and whoever was removed.
LEMMA GatherDoes ==
    ASSUME ServerTyped, NEW w \in Writers, Gather(w)
    PROVE  /\ ServerTyped' /\ UNCHANGED <<list, subs, ghosts>> /\ writers[w].step = "gather"
           /\ \E j \in Writer :
                 /\ writers' = [writers EXCEPT ![w] = j]
                 /\ j.step = "publish" /\ j.kind = writers[w].kind
                 /\ j.to = Recipients \cup (IF writers[w].kind = "remove"
                                            THEN {writers[w].user} ELSE {})
<1> DEFINE to == Recipients \cup (IF writers[w].kind = "remove"
                                  THEN {writers[w].user} ELSE {})
           j == [writers[w] EXCEPT !.step = "publish", !.to = to]
<1>1. writers[w] \in Writer
  BY DEF ServerTyped, AnnounceType
<1>2. to \in SUBSET Users
  BY RecipientsTyped DEF ServerTyped
<1>3. writers' = [writers EXCEPT ![w] = j]
  BY <1>1 DEF Gather, Writer, ServerTyped, AnnounceType
<1> HIDE DEF to
<1>4. /\ j \in Writer /\ j.step = "publish" /\ j.kind = writers[w].kind /\ j.to = to
      /\ j.user = writers[w].user
  BY <1>1, <1>2 DEF Writer
<1> HIDE DEF j
<1>5. UNCHANGED <<list, subs, ghosts>> /\ writers[w].step = "gather"
  BY DEF Gather
<1>6. ServerTyped'
  BY <1>3, <1>4, <1>5, WriterTypes DEF ServerTyped, AnnounceType
<1> QED
  BY <1>3, <1>4, <1>5, <1>6 DEF to

\* Deleting gathers first and commits then.
LEMMA DeleteDoes ==
    ASSUME ServerTyped, NEW w \in Writers, GatherDelete(w) \/ CommitDelete(w)
    PROVE  /\ ServerTyped' /\ UNCHANGED <<subs, ghosts>>
           /\ \E j \in Writer :
                 /\ writers' = [writers EXCEPT ![w] = j]
                 /\ \/ /\ GatherDelete(w) /\ list' = list /\ writers[w].step = "idle"
                       /\ j.step = "commit" /\ j.kind = "delete" /\ j.to = Recipients
                    \/ /\ writers[w].step = "commit" /\ list' = list /\ j = IdleWriter
                    \/ /\ writers[w].step = "commit" /\ list' = Changed("delete", Nobody)
                       /\ j.step = "publish" /\ j.kind = writers[w].kind
                       /\ j.to = writers[w].to
<1>1. writers[w] \in Writer /\ UNCHANGED <<subs, ghosts>> /\ list \in ListType
  BY DEF ServerTyped, AnnounceType, GatherDelete, CommitDelete, hub
<1>2. CASE GatherDelete(w)
  <2> DEFINE j == [IdleWriter EXCEPT !.step = "commit", !.kind = "delete", !.to = Recipients]
  <2>1. j \in Writer /\ j.step = "commit" /\ j.kind = "delete" /\ j.to = Recipients
    BY NewWriter, RecipientsTyped DEF Writer, Kinds, ServerTyped
  <2>2. writers' = [writers EXCEPT ![w] = j] /\ list' = list /\ writers[w].step = "idle"
    BY <1>2 DEF GatherDelete
  <2> HIDE DEF j
  <2>3. ServerTyped'
    BY <1>1, <2>1, <2>2, WriterTypes DEF ServerTyped, AnnounceType
  <2> QED
    BY <1>1, <1>2, <2>1, <2>2, <2>3
<1>3. CASE /\ writers[w].step = "commit" /\ list' = list
           /\ writers' = [writers EXCEPT ![w] = IdleWriter]
  <2>1. ServerTyped'
    BY <1>1, <1>3, NewWriter, WriterTypes DEF ServerTyped, AnnounceType
  <2> QED
    BY <1>1, <1>3, <2>1, NewWriter
<1>4. CASE /\ writers[w].step = "commit" /\ list.version < MaxVersion
           /\ Possible("delete", Nobody) /\ list' = Changed("delete", Nobody)
           /\ writers' = [writers EXCEPT ![w].step = "publish"]
  <2> DEFINE j == [writers[w] EXCEPT !.step = "publish"]
  <2>1. /\ j \in Writer /\ j.step = "publish" /\ j.kind = writers[w].kind
        /\ j.to = writers[w].to /\ j.user = writers[w].user
    BY <1>1 DEF Writer
  <2>2. writers' = [writers EXCEPT ![w] = j]
    BY <1>4
  <2>3. list' \in ListType
    BY <1>4, ChangedTyped DEF ServerTyped, Kinds
  <2> HIDE DEF j
  <2>4. ServerTyped'
    BY <1>1, <2>1, <2>2, <2>3, WriterTypes DEF ServerTyped, AnnounceType
  <2> QED
    BY <1>1, <1>4, <2>1, <2>2, <2>4
<1> QED
  BY <1>2, <1>3, <1>4 DEF CommitDelete

\* Publishing signals every stream of those it is for.
LEMMA PublishDoes ==
    ASSUME ServerTyped, NEW w \in Writers, Publish(w)
    PROVE  /\ ServerTyped' /\ UNCHANGED <<list, ghosts>> /\ writers[w].step = "publish"
           /\ writers' = [writers EXCEPT ![w] = IdleWriter]
           /\ \A p \in Pages :
                 /\ subs'[p] = "none" <=> subs[p] = "none"
                 /\ subs[p] = "signal" => subs'[p] = "signal"
                 /\ subs[p] # "none" /\ ViewerOf[p] \in writers[w].to => subs'[p] = "signal"
<1>1. /\ UNCHANGED <<list, ghosts>> /\ writers[w].step = "publish"
      /\ writers' = [writers EXCEPT ![w] = IdleWriter]
      /\ subs' = [p \in Pages |-> IF subs[p] = "quiet" /\ ViewerOf[p] \in writers[w].to
                                  THEN "signal" ELSE subs[p]]
  BY DEF Publish, Signal
<1>2. subs \in [Pages -> {"none", "quiet", "signal"}] /\ ghosts' \subseteq Pages
      /\ list' \in ListType
  BY <1>1 DEF ServerTyped, AnnounceType
<1>3. subs' \in [Pages -> {"none", "quiet", "signal"}]
  BY <1>1, <1>2
<1>4. ServerTyped'
  BY <1>1, <1>2, <1>3, NewWriter, WriterTypes
<1> QED
  BY <1>1, <1>2, <1>4

\* Types, when one page turns and its subscription goes with its stream.
LEMMA TurnTypes ==
    ASSUME TypeInv, NEW p \in Pages, NEW q, Turns(p, q), UNCHANGED <<list, writers>>,
           faults' \in 0 .. MaxFaults, ghosts' \subseteq Pages,
           subs' \in [Pages -> {"none", "quiet", "signal"}],
           \A o \in Pages \ {p} : subs'[o] = subs[o],
           subs'[p] # "none" <=> q.doc = "open" /\ q.stream \in {"accepted", "open"}
    PROVE  TypeInv'
<1>1. AnnounceType' /\ \A w \in Writers : writers'[w].kind = "remove"
                                            => writers'[w].user \in Users
  BY DEF TypeInv, TypeOK, AnnounceType
<1>2. pages' \in [Pages -> Page] /\ pages'[p] = q /\ \A o \in Pages \ {p} : pages'[o] = pages[o]
  BY DEF Turns, TypeInv, TypeOK
<1>3. ASSUME NEW o \in Pages
      PROVE  subs'[o] # "none" <=> /\ pages'[o].doc = "open"
                                   /\ pages'[o].stream \in {"accepted", "open"}
  <2>1. CASE o = p
    BY <1>2, <2>1
  <2>2. CASE o # p
    BY <1>2, <2>2 DEF TypeInv, TypeOK, Open
  <2> QED
    BY <2>1, <2>2
<1> QED
  BY <1>1, <1>2, <1>3 DEF TypeInv, TypeOK, Open

\* A step of the page's script or of its reader.
LEMMA ScriptTypes ==
    ASSUME TypeInv, NEW p \in Pages, NEW q, Turns(p, q), UNCHANGED <<list, writers>>,
           UNCHANGED hub, faults' \in 0 .. MaxFaults, q.doc = pages[p].doc,
           \/ q.stream = pages[p].stream
           \/ q.stream = "open" /\ pages[p].stream = "accepted"
    PROVE  TypeInv'
<1>1. subs'[p] # "none" <=> q.doc = "open" /\ q.stream \in {"accepted", "open"}
  BY DEF TypeInv, TypeOK, hub, Open
<1> QED
  BY <1>1, TurnTypes DEF hub, TypeInv, TypeOK, AnnounceType

\* Hanging up ends the subscription of that page only.
LEMMA HangUpDoes ==
    ASSUME TypeInv, NEW p \in Pages, HangUp(p)
    PROVE  /\ subs' \in [Pages -> {"none", "quiet", "signal"}] /\ subs'[p] = "none"
           /\ \A o \in Pages \ {p} : subs'[o] = subs[o]
           /\ ghosts' \subseteq Pages
BY DEF HangUp, TypeInv, TypeOK, AnnounceType

\* Types, when the server moves and the streams stay as they are.
LEMMA ServerTypes ==
    ASSUME TypeInv, ServerTyped', UNCHANGED faults,
           \/ UNCHANGED pages
           \/ \E p \in Pages, q \in Page : /\ Turns(p, q) /\ q.doc = pages[p].doc
                                           /\ q.stream = pages[p].stream,
           \A p \in Pages : subs'[p] = "none" <=> subs[p] = "none"
    PROVE  TypeInv'
<1>1. /\ pages' \in [Pages -> Page]
      /\ \A p \in Pages : pages'[p].doc = pages[p].doc /\ pages'[p].stream = pages[p].stream
  <2>1. CASE UNCHANGED pages
    BY <2>1 DEF TypeInv, TypeOK
  <2>2. ASSUME NEW p \in Pages, NEW q \in Page, Turns(p, q), q.doc = pages[p].doc,
               q.stream = pages[p].stream
        PROVE  <1>1!1 /\ <1>1!2
    BY <2>2 DEF Turns, TypeInv, TypeOK
  <2> QED
    BY <2>1, <2>2
<1>2. \A p \in Pages : subs'[p] # "none" <=> /\ pages'[p].doc = "open"
                                             /\ pages'[p].stream \in {"accepted", "open"}
  BY <1>1 DEF TypeInv, TypeOK, Open
<1> QED
  BY <1>1, <1>2 DEF TypeInv, TypeOK, Open, ServerTyped

\* Types hold at the start.
LEMMA TypesBegin ==
    ASSUME Init
    PROVE  TypeInv
<1>1. list \in ListType
  <2>1. PICK owner \in Users \cup {Nobody}, others \in SUBSET Users :
            list = [version |-> 1, owner |-> owner, trashed |-> FALSE,
                    members |-> IF owner = Nobody THEN {} ELSE others \cup {owner}]
    BY DEF Init
  <2>2. 1 \in 1 .. MaxVersion
    BY AnnounceConstants
  <2> QED
    BY <2>1, <2>2 DEF ListType
<1>2. AnnounceType
  <2>1. writers \in [Writers -> Writer]
    BY NewWriter DEF Init
  <2> QED
    BY <1>1, <2>1 DEF Init, AnnounceType
<1>3. \A w \in Writers : writers[w].kind # "remove"
  BY NewWriter DEF Init
<1>4. \A p \in Pages :
          /\ pages[p] \in Page
          /\ Open(p) => pages[p].stream = "open"
  <2>1. ASSUME NEW p \in Pages
        PROVE  pages[p] \in Page /\ (Open(p) => pages[p].stream = "open")
    <3> DEFINE v == View(ViewerOf[p])
               r == Rendered(v)
               q == [r EXCEPT !.stream = "open", !.opened = TRUE]
    <3>1. pages[p] = Closed \/ pages[p] = q
      BY DEF Init
    <3>2. r \in Page
      BY <1>2, ViewTyped, NewPages
    <3> HIDE DEF r
    <3>3. q \in Page /\ q.stream = "open"
      BY <3>2 DEF Page
    <3> HIDE DEF q
    <3> QED
      BY <3>1, <3>3, NewPages DEF Open
  <2> QED
    BY <2>1
<1>5. pages \in [Pages -> Page]
  BY <1>4 DEF Init
<1>6. \A p \in Pages : subs[p] # "none" <=> Open(p)
  BY DEF Init, Open
<1>7. faults \in 0 .. MaxFaults
  <2>1. faults = 0
    BY DEF Init
  <2> QED
    BY <2>1, LiveConstants
<1> QED
  BY <1>2, <1>3, <1>4, <1>5, <1>6, <1>7 DEF TypeInv, TypeOK

\* Every step keeps them.
LEMMA TypesStay ==
    ASSUME TypeInv, [Next]_vars
    PROVE  TypeInv'
<1>1. TypeOK /\ ServerTyped /\ faults \in 0 .. MaxFaults /\ ghosts \subseteq Pages
  BY DEF TypeInv, ServerTyped, TypeOK, AnnounceType
<1>2. ASSUME NEW w \in Writers, NEW kind \in Kinds, NEW u \in Users \cup {Nobody},
             NEW p \in Pages \cup {NoPage}, Commit(w, kind, u, p)
      PROVE  ServerTyped' /\ UNCHANGED subs
  BY <1>1, <1>2, CommitTypes DEF Commit, hub
<1>3. CASE UNCHANGED vars
  BY <1>3 DEF vars, TypeInv, TypeOK, AnnounceType, Open
<1>4. ASSUME NEW w \in Writers, Server(w)
      PROVE  TypeInv'
  <2>1. CASE Change(w)
    <3>1. PICK kind \in {"edit", "join", "remove", "claim", "restore"},
               u \in Users \cup {Nobody} : Commit(w, kind, u, NoPage)
      BY <2>1 DEF Change
    <3> QED
      BY <1>2, <2>1, <3>1, ServerTypes DEF Change, Kinds
  <2>2. CASE Delete(w)
    BY <1>1, <2>2, DeleteDoes, ServerTypes DEF Delete
  <2>3. CASE Tell(w)
    BY <1>1, <2>3, GatherDoes, ServerTypes DEF Tell
  <2>4. CASE Announced(w)
    <3>1. ServerTyped' /\ \A p \in Pages : subs'[p] = "none" <=> subs[p] = "none"
      BY <1>1, <2>4, PublishDoes DEF Announced
    <3>2. \/ UNCHANGED pages
          \/ \E p \in Pages, q \in Page : /\ Turns(p, q) /\ q.doc = pages[p].doc
                                          /\ q.stream = pages[p].stream
      <4> DEFINE p == writers[w].page
                 q == [pages[p] EXCEPT !.post = "follow"]
      <4>1. CASE p \in Pages /\ pages[p].post = "working"
        <5>1. pages' = [pages EXCEPT ![p] = q]
          BY <2>4, <4>1 DEF Announced
        <5>2. q \in Page /\ q.doc = pages[p].doc /\ q.stream = pages[p].stream
          BY <1>1, <4>1, PageFields DEF Page
        <5> QED
          BY <4>1, <5>1, <5>2 DEF Turns
      <4>2. CASE ~(p \in Pages /\ pages[p].post = "working")
        BY <2>4, <4>2 DEF Announced
      <4> QED
        BY <4>1, <4>2
    <3> QED
      BY <2>4, <3>1, <3>2, ServerTypes DEF Announced
  <2> QED
    BY <1>4, <2>1, <2>2, <2>3, <2>4 DEF Server
<1>5. ASSUME NEW p \in Pages, Stream(p)
      PROVE  TypeInv'
  <2>1. CASE Connect(p)
    <3>1. PICK q : /\ Turns(p, q) /\ q.doc = pages[p].doc
                   /\ \/ q.stream = "accepted" /\ subs' = [subs EXCEPT ![p] = "quiet"]
                      \/ q.stream = "refused" /\ subs' = subs /\ subs[p] = "none"
      BY <1>1, <2>1, ConnectDoes
    <3>2. ServerStays /\ UNCHANGED ghosts /\ Open(p)
      BY <1>1, <2>1, ConnectDoes
    <3>3. subs \in [Pages -> {"none", "quiet", "signal"}]
      BY <1>1 DEF TypeOK, AnnounceType
    <3> QED
      BY <1>1, <3>1, <3>2, <3>3, TurnTypes DEF ServerStays, Open
  <2>2. CASE Emit(p)
    <3>1. PICK q : Turns(p, q) /\ q.doc = pages[p].doc /\ q.stream = pages[p].stream
      BY <1>1, <2>2, EmitDoes
    <3>2. /\ ServerStays /\ UNCHANGED ghosts /\ subs[p] = "signal"
          /\ subs' = [subs EXCEPT ![p] = "quiet"]
      BY <1>1, <2>2, EmitDoes
    <3>3. /\ subs \in [Pages -> {"none", "quiet", "signal"}]
          /\ Open(p) /\ pages[p].stream \in {"accepted", "open"}
      BY <1>1, <3>2 DEF TypeOK, AnnounceType
    <3> QED
      BY <1>1, <3>1, <3>2, <3>3, TurnTypes DEF ServerStays, Open
  <2>3. CASE DropGhost(p)
    BY <1>1, <2>3 DEF DropGhost, Unsubscribe, serverState, TypeInv, TypeOK, AnnounceType, Open
  <2> QED
    BY <1>5, <2>1, <2>2, <2>3 DEF Stream
<1>6. ASSUME NEW p \in Pages, Script(p)
      PROVE  TypeInv'
  <2>1. CASE OnOpen(p)
    BY <1>1, <2>1, OnOpenDoes, ScriptTypes DEF ServerStays
  <2>2. CASE OnChanged(p)
    BY <1>1, <2>2, OnChangedDoes, ScriptTypes DEF ServerStays
  <2>3. CASE TimerFires(p)
    BY <1>1, <2>3, TimerFiresDoes, ScriptTypes DEF ServerStays, Same
  <2>4. CASE AnswerFetch(p)
    BY <1>1, <2>4, AnswerFetchDoes, ScriptTypes DEF ServerStays, Same
  <2>5. CASE OnFetched(p)
    <3>1. CASE Turns(p, Closed) /\ HangUp(p)
      BY <1>1, <2>5, <3>1, OnFetchedDoes, HangUpDoes, NewPages, TurnTypes DEF ServerStays
    <3>2. CASE UNCHANGED hub /\ \E q : Turns(p, q) /\ Same(pages[p], q)
      BY <1>1, <2>5, <3>2, OnFetchedDoes, ScriptTypes DEF ServerStays, Same
    <3> QED
      BY <1>1, <2>5, <3>1, <3>2, OnFetchedDoes
  <2>6. CASE AnswerPost(p) \/ OnPosted(p)
    BY <1>1, <2>6, PostSteps, ScriptTypes DEF ServerStays
  <2>7. CASE \E w \in Writers : ServePost(p, w)
    <3>1. PICK w \in Writers : ServePost(p, w)
      BY <2>7
    <3>2. Commit(w, "edit", Nobody, p) /\ UNCHANGED faults
          /\ \E q : Turns(p, q) /\ q.doc = pages[p].doc /\ q.stream = pages[p].stream
      BY <1>1, <3>1, ServePostDoes
    <3>3. ServerTyped' /\ UNCHANGED subs
      BY <1>2, <3>2 DEF Kinds
    <3> QED
      BY <3>2, <3>3, ServerTypes DEF Turns
  <2> QED
    BY <1>6, <2>1, <2>2, <2>3, <2>4, <2>5, <2>6, <2>7 DEF Script
<1>7. ASSUME NEW p \in Pages, Person(p)
      PROVE  TypeInv'
  <2>1. CASE \E how \in {"form", "menu"} : StartEditing(p, how)
    BY <1>1, <2>1, StartEditingDoes, ScriptTypes DEF ServerStays, Same
  <2>2. CASE CloseForm(p)
    BY <1>1, <2>2, CloseFormDoes, ScriptTypes DEF ServerStays, Same
  <2>3. CASE CloseMenu(p)
    BY <1>1, <2>3, CloseMenuDoes, ScriptTypes DEF ServerStays, Same
  <2>4. CASE Submit(p)
    BY <1>1, <2>4, SubmitDoes, ScriptTypes DEF ServerStays
  <2>5. CASE Load(p)
    <3>1. /\ ServerStays /\ HangUp(p)
          /\ Turns(p, Closed) \/ Turns(p, Rendered(View(ViewerOf[p])))
      BY <1>1, <2>5, LoadDoes
    <3>2. View(ViewerOf[p]) \in Versions
      BY <1>1, PageFields
    <3> QED
      BY <1>1, <3>1, <3>2, HangUpDoes, NewPages, TurnTypes DEF ServerStays
  <2>6. CASE Hide(p) \/ Poll(p)
    <3>1. PICK q : Turns(p, q) /\ Same(pages[p], q)
      BY <1>1, <2>6, TicksDo
    <3>2. ServerStays /\ UNCHANGED hub
      BY <1>1, <2>6, TicksDo
    <3> QED
      BY <1>1, <3>1, <3>2, ScriptTypes DEF ServerStays, Same
  <2> QED
    BY <1>7, <2>1, <2>2, <2>3, <2>4, <2>5, <2>6 DEF Person
<1>8. ASSUME NEW p \in Pages, Drop(p)
      PROVE  TypeInv'
  <2>1. PICK q : Turns(p, q) /\ q.stream \in {"connecting", "refused"}
    BY <1>1, <1>8, DropDoes
  <2>2. UNCHANGED <<list, writers>> /\ faults' \in 0 .. MaxFaults /\ HangUp(p)
    BY <1>1, <1>8, DropDoes
  <2>3. /\ subs' \in [Pages -> {"none", "quiet", "signal"}] /\ subs'[p] = "none"
        /\ \A o \in Pages \ {p} : subs'[o] = subs[o]
        /\ ghosts' \subseteq Pages
    BY <2>2, HangUpDoes
  <2> QED
    BY <2>1, <2>2, <2>3, TurnTypes
<1>9. ASSUME NEW p \in Pages, Fail(p)
      PROVE  TypeInv'
  BY <1>1, <1>9, FailDoes, ScriptTypes
<1>10. CASE Restart
  <2>1. /\ AnnounceType'
        /\ \A w \in Writers : writers'[w].kind = "remove" => writers'[w].user \in Users
    BY <1>1, <1>10, RestartDoes, NewWriter DEF TypeOK, AnnounceType
  <2> QED
    BY <1>1, <1>10, <2>1, RestartDoes DEF TypeInv, TypeOK, Open
<1> QED
  BY <1>3, <1>4, <1>5, <1>6, <1>7, <1>8, <1>9, <1>10 DEF Next

\* Every component of the live updates always holds a value of its kind, and
\* the hub and the browser agree on which pages have a stream (hub.go:44,
\* page.html:695).
THEOREM TypesHold == Spec => []TypeOK
<1>1. Init => TypeInv
  BY TypesBegin
<1>2. TypeInv /\ [Next]_vars => TypeInv'
  BY TypesStay
<1>3. TypeInv => TypeOK
  BY DEF TypeInv
<1> QED
  BY <1>1, <1>2, <1>3, PTL DEF Spec

----------------------------------------------------------------------------
(* A page never goes back.                                                 *)

\* What page q shows, and what it has fetched, is of version n or before; an
\* answer it has not put in yet is no older than what it shows.
Ordered(q, n) ==
    /\ q.post = "none"
    /\ q.shown <= n /\ q.got <= n
    /\ q.fetch = "back" /\ q.got # Gone => q.got >= q.shown

OrderInv == TypeInv /\ \A p \in Pages : Ordered(pages[p], list.version)

\* A document that goes from q to r shows nothing older afterwards.
Forward(q, r) == q.doc = "open" /\ r.doc = "open" /\ r.shown # Gone => r.shown >= q.shown

\* What each step keeps and does.
InOrder == OrderInv' /\ \A p \in Pages : Forward(pages[p], pages'[p])

\* Versions are numbers.
LEMMA Versioned ==
    ASSUME TypeInv
    PROVE  list.version \in 1 .. MaxVersion /\ list.version \in Int /\ Versions \subseteq Int
BY AnnounceConstants DEF TypeInv, TypeOK, AnnounceType, ListType, Versions

\* One page turns without going back: all pages are in order still.
LEMMA OrderTurn ==
    ASSUME OrderInv, TypeInv', NEW p \in Pages, NEW q, Turns(p, q), UNCHANGED list,
           Ordered(q, list.version), Forward(pages[p], q)
    PROVE  InOrder
<1>1. pages'[p] = q /\ \A o \in Pages \ {p} : pages'[o] = pages[o]
  BY DEF Turns, OrderInv, TypeInv, TypeOK
<1>2. \A o \in Pages : Forward(pages[o], pages[o])
  BY PageFields, Versioned DEF Forward, OrderInv, TypeInv
<1>3. \A o \in Pages : Ordered(pages'[o], list.version) /\ Forward(pages[o], pages'[o])
  BY <1>1, <1>2 DEF OrderInv
<1> QED
  BY <1>3 DEF InOrder, OrderInv

\* Nothing on any page changes but what its stream is doing.
LEMMA OrderAside ==
    ASSUME OrderInv, TypeInv', list'.version >= list.version,
           \A p \in Pages : /\ pages'[p].doc = pages[p].doc
                            /\ pages'[p].shown = pages[p].shown
                            /\ pages'[p].post = "none"
                            /\ \/ SameFetch(pages[p], pages'[p])
                               \/ /\ pages[p].fetch = "sent" /\ pages'[p].got = Gone
                                  /\ pages'[p].fetch # "back"
    PROVE  InOrder
<1>1. ASSUME NEW p \in Pages
      PROVE  Ordered(pages'[p], list'.version) /\ Forward(pages[p], pages'[p])
  <2>1. /\ pages[p].shown \in Int /\ pages[p].got \in Int
        /\ list.version \in 1 .. MaxVersion /\ list'.version \in Int
        /\ MaxVersion \in Int
    BY PageFields, Versioned, AnnounceConstants
       DEF OrderInv, TypeInv, TypeOK, AnnounceType, ListType
  <2>2. Ordered(pages[p], list.version)
    BY DEF OrderInv
  <2>3. CASE SameFetch(pages[p], pages'[p])
    BY <2>1, <2>2, <2>3 DEF Ordered, Forward, SameFetch
  <2>4. CASE pages[p].fetch = "sent" /\ pages'[p].got = Gone /\ pages'[p].fetch # "back"
    BY <2>1, <2>2, <2>4, PageFields DEF Ordered, Forward, Gone, OrderInv, TypeInv, Page
  <2> QED
    BY <2>3, <2>4
<1> QED
  BY <1>1 DEF InOrder, OrderInv

\* A step makes the list one version newer, or leaves it.
LEMMA VersionGrows ==
    ASSUME TypeInv, [Next]_vars
    PROVE  list' = list \/ list'.version = list.version + 1
<1>1. TypeOK /\ ServerTyped
  BY DEF TypeInv, ServerTyped, TypeOK
<1>2. ASSUME NEW w \in Writers, NEW kind, NEW u, NEW p, Commit(w, kind, u, p)
      PROVE  list'.version = list.version + 1
  BY <1>2 DEF Commit, Changed
<1>3. ASSUME NEW w \in Writers, Server(w)
      PROVE  list' = list \/ list'.version = list.version + 1
  <2>1. CASE Change(w)
    BY <1>2, <2>1 DEF Change
  <2>2. CASE Delete(w)
    BY <2>2 DEF Delete, GatherDelete, CommitDelete, Changed
  <2>3. CASE Tell(w) \/ Announced(w)
    BY <2>3 DEF Tell, Announced, Gather, Publish
  <2> QED
    BY <1>3, <2>1, <2>2, <2>3 DEF Server
<1>4. ASSUME NEW p \in Pages, Stream(p) \/ Person(p) \/ Drop(p) \/ Fail(p)
      PROVE  list' = list
  BY <1>4 DEF Stream, Person, Drop, Fail, Connect, Emit, DropGhost, StartEditing, CloseForm,
              CloseMenu, Submit, Load, Hide, Poll, serverState
<1>5. ASSUME NEW p \in Pages, Script(p)
      PROVE  list' = list \/ list'.version = list.version + 1
  <2>1. CASE \E w \in Writers : ServePost(p, w)
    BY <1>2, <2>1 DEF ServePost
  <2>2. CASE ~\E w \in Writers : ServePost(p, w)
    BY <1>5, <2>2 DEF Script, OnOpen, OnChanged, TimerFires, AnswerFetch, OnFetched,
                     AnswerPost, OnPosted, serverState
  <2> QED
    BY <2>1, <2>2
<1> QED
  BY <1>3, <1>4, <1>5 DEF Next, Restart, vars

\* Every step keeps the pages in order, if none of them posts.
LEMMA OrderStays ==
    ASSUME "post" \notin Doings, OrderInv, [Next]_vars
    PROVE  InOrder
<1>1. TypeInv /\ TypeOK /\ ServerTyped /\ TypeInv'
  BY TypesStay DEF OrderInv, TypeInv, ServerTyped, TypeOK
<1>2. list.version \in Int /\ list'.version >= list.version
  BY <1>1, Versioned, VersionGrows
<1>3. ASSUME NEW p \in Pages
      PROVE  /\ pages[p] \in Page /\ Ordered(pages[p], list.version)
             /\ pages[p].post = "none" /\ pages[p].shown \in Int /\ pages[p].got \in Int
             /\ View(ViewerOf[p]) \in {Gone, list.version}
  BY <1>1, PageFields, Versioned DEF OrderInv, Ordered, View
<1>4. ASSUME NEW p \in Pages, NEW q, Turns(p, q), UNCHANGED list,
             q.doc = pages[p].doc, q.post = pages[p].post, q.shown = pages[p].shown,
             q.got = pages[p].got,
             q.fetch \in {"sent", pages[p].fetch}
      PROVE  InOrder
  <2>1. Ordered(q, list.version) /\ Forward(pages[p], q)
    BY <1>2, <1>3, <1>4 DEF Ordered, Forward
  <2> QED
    BY <1>1, <1>4, <2>1, OrderTurn
<1>5. ASSUME NEW p \in Pages, NEW v \in {Gone, list.version},
             Turns(p, Closed) \/ Turns(p, Rendered(v)), UNCHANGED list
      PROVE  InOrder
  <2>1. Gone <= list.version /\ v \in Versions
    BY <1>1, Versioned, AnnounceConstants DEF Gone, Versions
  <2>2. CASE Turns(p, Closed)
    <3>1. Ordered(Closed, list.version) /\ Forward(pages[p], Closed)
      BY <2>1, NewPages DEF Ordered, Forward
    <3> QED
      BY <1>1, <1>5, <2>2, <3>1, OrderTurn
  <2>3. CASE Turns(p, Rendered(v))
    <3> DEFINE r == Rendered(v)
    <3>1. /\ r.doc = "open" /\ r.fetch = "none" /\ r.post = "none"
          /\ r.shown = v /\ r.got = Gone
      BY <2>1, NewPages
    <3> HIDE DEF r
    <3>2. Ordered(r, list.version) /\ Forward(pages[p], r)
      BY <1>2, <1>3, <2>1, <3>1 DEF Ordered, Forward
    <3> QED
      BY <1>1, <1>5, <2>3, <3>2, OrderTurn DEF r
  <2> QED
    BY <1>5, <2>2, <2>3
<1>6. CASE UNCHANGED pages
  BY <1>1, <1>2, <1>3, <1>6, OrderAside DEF SameFetch
<1>7. ASSUME NEW w \in Writers, Server(w)
      PROVE  InOrder
  <2>1. UNCHANGED pages
    <3>1. CASE Announced(w)
      BY <1>3, <3>1 DEF Announced
    <3>2. CASE Change(w) \/ Delete(w) \/ Tell(w)
      BY <3>2 DEF Change, Delete, Tell
    <3> QED
      BY <1>7, <3>1, <3>2 DEF Server
  <2> QED
    BY <1>6, <2>1
<1>8. ASSUME NEW p \in Pages, Stream(p)
      PROVE  InOrder
  <2>1. CASE Connect(p)
    <3>1. PICK q : /\ Turns(p, q) /\ SameFetch(pages[p], q) /\ SameScreen(pages[p], q)
                   /\ q.doc = pages[p].doc /\ q.post = pages[p].post
      BY <1>1, <2>1, ConnectDoes
    <3> QED
      BY <1>1, <1>4, <2>1, <3>1, ConnectDoes DEF SameFetch, SameScreen, ServerStays
  <2>2. CASE Emit(p)
    <3>1. PICK q : /\ Turns(p, q) /\ SameFetch(pages[p], q) /\ SameScreen(pages[p], q)
                   /\ q.doc = pages[p].doc /\ q.post = pages[p].post
      BY <1>1, <2>2, EmitDoes
    <3> QED
      BY <1>1, <1>4, <2>2, <3>1, EmitDoes DEF SameFetch, SameScreen, ServerStays
  <2>3. CASE DropGhost(p)
    BY <1>6, <2>3 DEF DropGhost
  <2> QED
    BY <1>8, <2>1, <2>2, <2>3 DEF Stream
<1>9. ASSUME NEW p \in Pages, Script(p)
      PROVE  InOrder
  <2>1. CASE OnOpen(p)
    <3>1. PICK q : /\ Turns(p, q) /\ SameFetch(pages[p], q) /\ SameScreen(pages[p], q)
                   /\ q.doc = pages[p].doc /\ q.post = pages[p].post
      BY <1>1, <2>1, OnOpenDoes
    <3> QED
      BY <1>1, <1>4, <2>1, <3>1, OnOpenDoes DEF SameFetch, SameScreen, ServerStays
  <2>2. CASE OnChanged(p)
    <3>1. PICK q : /\ Turns(p, q) /\ SameFetch(pages[p], q) /\ SameScreen(pages[p], q)
                   /\ q.doc = pages[p].doc /\ q.post = pages[p].post
      BY <1>1, <2>2, OnChangedDoes
    <3> QED
      BY <1>1, <1>4, <2>2, <3>1, OnChangedDoes DEF SameFetch, SameScreen, ServerStays
  <2>3. CASE TimerFires(p)
    <3>1. PICK q : /\ Turns(p, q) /\ SameScreen(pages[p], q) /\ Same(pages[p], q)
                   /\ q.got = pages[p].got
                   /\ q.fetch = IF pages[p].fetch = "none" THEN "sent" ELSE pages[p].fetch
      BY <1>1, <2>3, TimerFiresDoes
    <3>2. UNCHANGED list
      BY <1>1, <2>3, TimerFiresDoes DEF ServerStays
    <3> QED
      BY <1>4, <3>1, <3>2 DEF SameScreen, Same
  <2>4. CASE AnswerFetch(p)
    <3>1. PICK q : /\ Turns(p, q) /\ SameScreen(pages[p], q) /\ Same(pages[p], q)
                   /\ q.fetch = "back" /\ q.got = View(ViewerOf[p])
      BY <1>1, <2>4, AnswerFetchDoes
    <3>2. UNCHANGED list /\ pages[p].fetch = "sent"
      BY <1>1, <2>4, AnswerFetchDoes DEF ServerStays
    <3>3. Ordered(q, list.version) /\ Forward(pages[p], q)
      BY <1>1, <1>2, <1>3, <3>1, <3>2, Versioned, PageFields
         DEF Ordered, Forward, SameScreen, Same, Gone
    <3> QED
      BY <1>1, <3>1, <3>2, <3>3, OrderTurn
  <2>5. CASE OnFetched(p)
    <3>1. UNCHANGED list /\ pages[p].fetch = "back"
      BY <1>1, <2>5, OnFetchedDoes DEF ServerStays
    <3>2. CASE Turns(p, Closed)
      BY <1>5, <3>1, <3>2
    <3>3. ASSUME NEW q, Turns(p, q), Same(pages[p], q), q.got = Gone,
                 q.fetch = (IF pages[p].again THEN "sent" ELSE "none"),
                 q.shown \in {pages[p].got, pages[p].shown}
          PROVE  InOrder
      <4>1. Ordered(q, list.version) /\ Forward(pages[p], q)
        BY <1>1, <1>2, <1>3, <3>1, <3>3, Versioned DEF Ordered, Forward, Same, Gone
      <4> QED
        BY <1>1, <3>1, <3>3, <4>1, OrderTurn
    <3> QED
      BY <1>1, <2>5, <3>2, <3>3, OnFetchedDoes
  <2>6. CASE AnswerPost(p) \/ OnPosted(p)
    BY <1>1, <1>3, <2>6, PostSteps
  <2>7. CASE \E w \in Writers : ServePost(p, w)
    BY <1>1, <1>3, <2>7, ServePostDoes
  <2> QED
    BY <1>9, <2>1, <2>2, <2>3, <2>4, <2>5, <2>6, <2>7 DEF Script
<1>10. ASSUME NEW p \in Pages, Person(p)
       PROVE  InOrder
  <2>1. CASE \E how \in {"form", "menu"} : StartEditing(p, how)
    <3>1. PICK how \in {"form", "menu"} : StartEditing(p, how)
      BY <2>1
    <3>2. PICK q : /\ Turns(p, q) /\ SameFetch(pages[p], q) /\ Same(pages[p], q)
                   /\ q.shown = pages[p].shown
      BY <1>1, <3>1, StartEditingDoes
    <3> QED
      BY <1>1, <1>4, <3>1, <3>2, StartEditingDoes DEF SameFetch, Same, ServerStays
  <2>2. CASE CloseForm(p)
    <3>1. PICK q : /\ Turns(p, q) /\ Same(pages[p], q) /\ q.shown = pages[p].shown
                   /\ q.got = pages[p].got /\ q.fetch \in {"sent", pages[p].fetch}
      BY <1>1, <2>2, CloseFormDoes
    <3> QED
      BY <1>1, <1>4, <2>2, <3>1, CloseFormDoes DEF Same, ServerStays
  <2>3. CASE CloseMenu(p)
    <3>1. PICK q : /\ Turns(p, q) /\ SameFetch(pages[p], q) /\ Same(pages[p], q)
                   /\ q.shown = pages[p].shown
      BY <1>1, <2>3, CloseMenuDoes
    <3> QED
      BY <1>1, <1>4, <2>3, <3>1, CloseMenuDoes DEF SameFetch, Same, ServerStays
  <2>4. CASE Submit(p)
    BY <1>1, <2>4, SubmitDoes DEF Does
  <2>5. CASE Load(p)
    BY <1>1, <1>3, <1>5, <2>5, LoadDoes DEF ServerStays
  <2>6. CASE Hide(p) \/ Poll(p)
    <3>1. PICK q : /\ Turns(p, q) /\ SameFetch(pages[p], q) /\ SameScreen(pages[p], q)
                   /\ Same(pages[p], q)
      BY <1>1, <2>6, TicksDo
    <3>2. UNCHANGED list
      BY <1>1, <2>6, TicksDo DEF ServerStays
    <3> QED
      BY <1>4, <3>1, <3>2 DEF SameFetch, SameScreen, Same
  <2> QED
    BY <1>10, <2>1, <2>2, <2>3, <2>4, <2>5, <2>6 DEF Person
<1>11. ASSUME NEW p \in Pages, Drop(p)
       PROVE  InOrder
  <2>1. PICK q : /\ Turns(p, q) /\ SameFetch(pages[p], q) /\ SameScreen(pages[p], q)
                 /\ q.doc = pages[p].doc /\ q.post = pages[p].post
    BY <1>1, <1>11, DropDoes
  <2> QED
    BY <1>1, <1>4, <1>11, <2>1, DropDoes DEF SameFetch, SameScreen
<1>12. ASSUME NEW p \in Pages, Fail(p)
       PROVE  InOrder
  <2>1. PICK q : /\ Turns(p, q) /\ q.doc = pages[p].doc /\ q.shown = pages[p].shown
                 /\ q.got = Gone /\ q.fetch # "back" /\ q.post = pages[p].post
    BY <1>1, <1>3, <1>12, FailDoes
  <2>2. Ordered(q, list.version) /\ Forward(pages[p], q)
    BY <1>1, <1>2, <1>3, <2>1, Versioned DEF Ordered, Forward, Gone
  <2> QED
    BY <1>1, <1>12, <2>1, <2>2, FailDoes, OrderTurn
<1>13. CASE Restart
  <2>1. \A p \in Pages : /\ pages'[p].doc = pages[p].doc
                         /\ pages'[p].shown = pages[p].shown
                         /\ pages'[p].post = "none"
                         /\ \/ SameFetch(pages[p], pages'[p])
                            \/ /\ pages[p].fetch = "sent" /\ pages'[p].got = Gone
                               /\ pages'[p].fetch # "back"
    BY <1>1, <1>3, <1>13, RestartDoes DEF SameScreen
  <2> QED
    BY <1>1, <1>2, <2>1, OrderAside
<1>14. CASE UNCHANGED vars
  BY <1>6, <1>14 DEF vars
<1> QED
  BY <1>7, <1>8, <1>9, <1>10, <1>11, <1>12, <1>13, <1>14 DEF Next

\* They are in order at the start.
LEMMA OrderBegins ==
    ASSUME Init
    PROVE  OrderInv
<1>1. TypeInv
  BY TypesBegin
<1>2. ASSUME NEW p \in Pages
      PROVE  Ordered(pages[p], list.version)
  <2> DEFINE v == View(ViewerOf[p])
             r == Rendered(v)
             q == [r EXCEPT !.stream = "open", !.opened = TRUE]
  <2>1. pages[p] = Closed \/ pages[p] = q
    BY DEF Init
  <2>2. v \in Versions /\ v <= list.version /\ Gone <= list.version
    BY <1>1, PageFields, Versioned DEF TypeInv, Gone
  <2>3. r \in Page /\ r.post = "none" /\ r.fetch = "none" /\ r.shown = v /\ r.got = Gone
    BY <2>2, NewPages
  <2> HIDE DEF r
  <2>4. q.post = "none" /\ q.fetch = "none" /\ q.shown = v /\ q.got = Gone
    BY <2>3 DEF Page
  <2> HIDE DEF q, v
  <2> QED
    BY <2>1, <2>2, <2>4, NewPages DEF Ordered
<1> QED
  BY <1>1, <1>2 DEF OrderInv

\* A page that posts nothing itself never replaces what it shows by something
\* older, whatever breaks, reconnects or is edited: refresh keeps to one
\* request at a time (page.html:679).
THEOREM NeverBack ==
    ASSUME "post" \notin Doings
    PROVE  Spec => NeverGoesBack
<1>1. Init => OrderInv
  BY OrderBegins
<1>2. OrderInv /\ [Next]_vars => OrderInv'
  BY OrderStays DEF InOrder
<1>3. OrderInv /\ [Next]_vars =>
          [\A p \in Pages : Open(p) /\ Open(p)' /\ pages'[p].shown # Gone
                                => pages'[p].shown >= pages[p].shown]_vars
  BY OrderStays DEF InOrder, Forward, Open
<1> QED
  BY <1>1, <1>2, <1>3, PTL DEF Spec, NeverGoesBack

----------------------------------------------------------------------------
(* No update is lost.                                                      *)

\* An operation has still to tell u.
Told(u) ==
    \E w \in Writers :
        \/ writers[w].step = "publish" /\ u \in writers[w].to
        \/ /\ writers[w].step = "gather"
           /\ u \in Recipients \/ (writers[w].kind = "remove" /\ writers[w].user = u)

\* There is something that will make u's page q, whose stream is in state sub
\* at the hub, look again.
Notice(q, sub, u) ==
    \/ q.stream # "open" \/ sub = "signal" \/ q.wire > 0
    \/ q.timer \/ q.fetch = "sent" \/ q.again \/ Told(u)

\* It will, or it has the truth on the screen or in its hands, or knows that
\* it has to look when the editing is over.
Aware(q, sub, u) ==
    q.doc = "open" =>
        \/ Notice(q, sub, u)
        \/ q.fetch = "back" /\ q.got = View(u)
        \/ q.fetch = "none" /\ q.shown = View(u)
        \/ q.fetch = "none" /\ q.busy # "no" /\ q.pending

\* Nothing comes between the page and its stream.
Calm(q) ==
    /\ q.post = "none" /\ q.busy # "menu"
    /\ q.doc = "open" => q.opened
    /\ q.again => q.fetch # "none"

\* Whoever deletes the list will tell everybody who can see it.
DeletesTell ==
    \A w \in Writers : writers[w].step = "commit" =>
        writers[w].kind = "delete" /\ Recipients \subseteq writers[w].to

AwareInv ==
    /\ TypeInv
    /\ DeletesTell
    /\ \A p \in Pages : Calm(pages[p])
    /\ \A p \in Pages : Aware(pages[p], subs[p], ViewerOf[p])

\* Whoever sees the change a commit makes has still to be told by it.
LEMMA CommitTells ==
    ASSUME ServerTyped, NEW w \in Writers, NEW kind \in Kinds, NEW u, NEW p,
           Commit(w, kind, u, p), NEW v \in Users
    PROVE  (Told(v) => Told(v)') /\ (View(v)' = View(v) \/ Told(v)')
<1>1. /\ writers[w].step = "idle" /\ Possible(kind, u) /\ list' = Changed(kind, u)
      /\ kind # "delete" /\ list \in ListType
  BY DEF Commit, ServerTyped, AnnounceType
<1>2. /\ writers'[w].step = (IF kind = "claim" THEN "publish" ELSE "gather")
      /\ writers'[w].kind = kind /\ writers'[w].user = u
      /\ writers'[w].to = (IF kind = "claim" THEN Users ELSE {})
      /\ \A o \in Writers \ {w} : writers'[o] = writers[o]
  BY DEF Commit, ServerTyped, AnnounceType
<1>3. CASE kind = "claim" \/ v \in Recipients' \/ (kind = "remove" /\ u = v)
  <2>1. Told(v)'
    BY <1>2, <1>3 DEF Told
  <2> QED
    BY <2>1
<1>4. CASE kind # "claim" /\ v \notin Recipients' /\ ~(kind = "remove" /\ u = v)
  <2>1. list'.owner = list.owner /\ list.owner # Nobody /\ v \notin list'.members
    BY <1>1, <1>4 DEF Changed, Recipients
  <2>2. v \notin list.members
    BY <1>1, <1>4, <2>1 DEF Changed
  <2>3. View(v)' = View(v)
    BY <2>1, <2>2 DEF View, Sees
  <2>4. ASSUME Told(v)
        PROVE  Told(v)'
    <3>1. PICK o \in Writers :
              \/ writers[o].step = "publish" /\ v \in writers[o].to
              \/ /\ writers[o].step = "gather"
                 /\ v \in Recipients \/ (writers[o].kind = "remove" /\ writers[o].user = v)
      BY <2>4 DEF Told
    <3>2. o # w /\ v \notin Recipients
      BY <1>1, <2>1, <2>2, <3>1 DEF Recipients
    <3> QED
      BY <1>2, <3>1, <3>2 DEF Told
  <2> QED
    BY <2>3, <2>4
<1> QED
  BY <1>3, <1>4

\* Nobody who can see the list from now on is forgotten by a delete under way,
\* as long as nobody joins meanwhile.
LEMMA CommitKeepsDeletes ==
    ASSUME ServerTyped, DeletesTell, NEW w \in Writers, NEW kind \in Kinds, NEW u, NEW p,
           Commit(w, kind, u, p), kind = "join" => ~Deleting
    PROVE  DeletesTell'
<1>1. /\ Possible(kind, u) /\ list' = Changed(kind, u) /\ kind # "delete" /\ list \in ListType
  BY DEF Commit, ServerTyped, AnnounceType
<1>2. /\ writers'[w].step # "commit"
      /\ \A o \in Writers \ {w} : writers'[o] = writers[o]
  BY DEF Commit, ServerTyped, AnnounceType
<1>3. ASSUME NEW o \in Writers, writers'[o].step = "commit"
      PROVE  writers'[o].kind = "delete" /\ Recipients' \subseteq writers'[o].to
  <2>1. o # w /\ writers'[o] = writers[o]
    BY <1>2, <1>3
  <2>2. writers[o].kind = "delete" /\ Recipients \subseteq writers[o].to
    BY <1>3, <2>1 DEF DeletesTell
  <2>3. kind # "join"
    BY <2>2 DEF Deleting
  <2>4. Recipients' \subseteq Recipients
    BY <1>1, <2>3 DEF Possible, Changed, Recipients, ListType
  <2> QED
    BY <2>1, <2>2, <2>4
<1> QED
  BY <1>3 DEF DeletesTell

\* So it is with a deletion, which has gathered before,
LEMMA DeleteTells ==
    ASSUME ServerTyped, DeletesTell, NEW w \in Writers, GatherDelete(w) \/ CommitDelete(w)
    PROVE  /\ DeletesTell'
           /\ \A v \in Users : (Told(v) => Told(v)') /\ (View(v)' = View(v) \/ Told(v)')
<1>1. PICK j \in Writer :
          /\ writers' = [writers EXCEPT ![w] = j]
          /\ \/ /\ list' = list /\ writers[w].step = "idle"
                /\ j.step = "commit" /\ j.kind = "delete" /\ j.to = Recipients
             \/ /\ writers[w].step = "commit" /\ list' = list /\ j = IdleWriter
             \/ /\ writers[w].step = "commit" /\ list' = Changed("delete", Nobody)
                /\ j.step = "publish" /\ j.kind = writers[w].kind
                /\ j.to = writers[w].to
  BY DeleteDoes
<1>2. writers'[w] = j /\ \A o \in Writers \ {w} : writers'[o] = writers[o]
  BY <1>1 DEF ServerTyped, AnnounceType
<1>3. list'.owner = list.owner /\ list'.members = list.members
  BY <1>1 DEF Changed
<1>4. Recipients' = Recipients
  BY <1>3 DEF Recipients
<1>5. DeletesTell'
  BY <1>1, <1>2, <1>4, NewWriter DEF DeletesTell
<1>6. ASSUME NEW v \in Users, Told(v)
      PROVE  Told(v)'
  <2>1. PICK o \in Writers :
            \/ writers[o].step = "publish" /\ v \in writers[o].to
            \/ /\ writers[o].step = "gather"
               /\ v \in Recipients \/ (writers[o].kind = "remove" /\ writers[o].user = v)
    BY <1>6 DEF Told
  <2>2. o # w
    BY <1>1, <2>1
  <2> QED
    BY <1>2, <1>4, <2>1, <2>2 DEF Told
<1>7. ASSUME NEW v \in Users, View(v)' # View(v)
      PROVE  Told(v)'
  <2>1. list' # list
    BY <1>7 DEF View, Sees
  <2>2. j.step = "publish" /\ j.to = writers[w].to /\ list' = Changed("delete", Nobody)
        /\ writers[w].step = "commit"
    BY <1>1, <2>1
  <2>3. Sees(v)
    <3>1. list'.trashed
      BY <2>2 DEF Changed
    <3> QED
      BY <1>7, <3>1 DEF View, Sees
  <2>4. v \in Recipients /\ Recipients \subseteq writers[w].to
    BY <2>2, <2>3 DEF Sees, Recipients, DeletesTell
  <2> QED
    BY <1>2, <2>2, <2>4 DEF Told
<1> QED
  BY <1>5, <1>6, <1>7

\* and gathering leaves nobody out.
LEMMA GatherTells ==
    ASSUME ServerTyped, DeletesTell, NEW w \in Writers, Gather(w)
    PROVE  /\ DeletesTell'
           /\ \A v \in Users : (Told(v) => Told(v)') /\ View(v)' = View(v)
<1>1. PICK j \in Writer :
          /\ writers' = [writers EXCEPT ![w] = j]
          /\ j.step = "publish" /\ j.kind = writers[w].kind
          /\ j.to = Recipients \cup (IF writers[w].kind = "remove"
                                     THEN {writers[w].user} ELSE {})
  BY GatherDoes
<1>2. list' = list /\ writers[w].step = "gather"
  BY GatherDoes
<1>3. writers'[w] = j /\ \A o \in Writers \ {w} : writers'[o] = writers[o]
  BY <1>1 DEF ServerTyped, AnnounceType
<1>4. Recipients' = Recipients /\ \A v \in Users : View(v)' = View(v)
  BY <1>2 DEF Recipients, View, Sees
<1>5. DeletesTell'
  BY <1>1, <1>3, <1>4 DEF DeletesTell
<1>6. ASSUME NEW v \in Users, Told(v)
      PROVE  Told(v)'
  <2>1. PICK o \in Writers :
            \/ writers[o].step = "publish" /\ v \in writers[o].to
            \/ /\ writers[o].step = "gather"
               /\ v \in Recipients \/ (writers[o].kind = "remove" /\ writers[o].user = v)
    BY <1>6 DEF Told
  <2>2. CASE o = w
    BY <1>1, <1>2, <1>3, <2>1, <2>2 DEF Told
  <2>3. CASE o # w
    BY <1>3, <1>4, <2>1, <2>3 DEF Told
  <2> QED
    BY <2>2, <2>3
<1> QED
  BY <1>4, <1>5, <1>6

\* Once it has published, those it was for are signalled.
LEMMA PublishTells ==
    ASSUME ServerTyped, DeletesTell, NEW w \in Writers, Publish(w)
    PROVE  /\ DeletesTell'
           /\ \A v \in Users : /\ Told(v) => Told(v)' \/ v \in writers[w].to
                               /\ View(v)' = View(v)
<1>1. /\ list' = list /\ writers[w].step = "publish"
      /\ writers' = [writers EXCEPT ![w] = IdleWriter]
  BY PublishDoes
<1>2. writers'[w] = IdleWriter /\ \A o \in Writers \ {w} : writers'[o] = writers[o]
  BY <1>1 DEF ServerTyped, AnnounceType
<1>3. Recipients' = Recipients /\ \A v \in Users : View(v)' = View(v)
  BY <1>1 DEF Recipients, View, Sees
<1>4. DeletesTell'
  BY <1>2, <1>3, NewWriter DEF DeletesTell
<1>5. ASSUME NEW v \in Users, Told(v), v \notin writers[w].to
      PROVE  Told(v)'
  <2>1. PICK o \in Writers :
            \/ writers[o].step = "publish" /\ v \in writers[o].to
            \/ /\ writers[o].step = "gather"
               /\ v \in Recipients \/ (writers[o].kind = "remove" /\ writers[o].user = v)
    BY <1>5 DEF Told
  <2>2. o # w
    BY <1>1, <1>5, <2>1
  <2> QED
    BY <1>2, <1>3, <2>1, <2>2 DEF Told
<1> QED
  BY <1>3, <1>4, <1>5

\* A step of one page, or of its stream, leaves the others alone.
LEMMA AwareTurn ==
    ASSUME AwareInv, TypeInv', NEW p \in Pages, NEW q, Turns(p, q),
           UNCHANGED <<list, writers>>, \A o \in Pages \ {p} : subs'[o] = subs[o],
           Calm(q), Aware(q, subs'[p], ViewerOf[p])
    PROVE  AwareInv'
<1>1. \A u : View(u)' = View(u) /\ (Told(u)' <=> Told(u))
  BY DEF View, Sees, Told, Recipients
<1>2. DeletesTell'
  BY DEF AwareInv, DeletesTell, Recipients
<1>3. pages'[p] = q /\ \A o \in Pages \ {p} : pages'[o] = pages[o]
  BY DEF Turns, AwareInv, TypeInv, TypeOK
<1>4. \A o \in Pages : Calm(pages'[o]) /\ Aware(pages'[o], subs'[o], ViewerOf[o])
  BY <1>3 DEF AwareInv
<1>5. \A o \in Pages : Aware(pages[o], subs[o], ViewerOf[o])'
  BY <1>1, <1>4 DEF Aware, Notice
<1> QED
  BY <1>2, <1>4, <1>5 DEF AwareInv

\* A step of the server leaves every page as it is.
LEMMA AwareServer ==
    ASSUME AwareInv, TypeInv', UNCHANGED pages, DeletesTell',
           \A p \in Pages : /\ subs[p] = "signal" => subs'[p] = "signal"
                            /\ Told(ViewerOf[p]) =>
                                  \/ Told(ViewerOf[p])' \/ subs'[p] = "signal"
                                  \/ pages[p].stream # "open"
                            /\ View(ViewerOf[p])' = View(ViewerOf[p]) \/ Told(ViewerOf[p])'
    PROVE  AwareInv'
<1>1. ASSUME NEW p \in Pages
      PROVE  Aware(pages[p], subs[p], ViewerOf[p])'
  <2>1. Aware(pages[p], subs[p], ViewerOf[p])
    BY DEF AwareInv
  <2> QED
    BY <2>1 DEF Aware, Notice
<1>2. \A p \in Pages : Calm(pages[p])'
  BY DEF AwareInv, Calm
<1> QED
  BY <1>1, <1>2 DEF AwareInv

\* What the proof assumes of Doings: everything the page is told of reaches it,
\* if not now then when its stream is connected again.
Undisturbed == Doings \cap {"latejoin", "menu", "post", "load", "fail"} = {}

\* Every step hands the news on before it lets go of it.
LEMMA AwareStays ==
    ASSUME Undisturbed, AwareInv, [Next]_vars
    PROVE  AwareInv'
<1>1. TypeInv /\ TypeOK /\ ServerTyped /\ TypeInv' /\ DeletesTell
  BY TypesStay DEF AwareInv, TypeInv, ServerTyped, TypeOK
<1>2. ASSUME NEW p \in Pages
      PROVE  /\ pages[p] \in Page /\ Calm(pages[p]) /\ pages[p].post = "none"
             /\ pages[p].busy # "menu"
             /\ Aware(pages[p], subs[p], ViewerOf[p]) /\ ViewerOf[p] \in Users
  BY <1>1, PageFields DEF AwareInv, Calm
<1>3. ASSUME NEW w \in Writers, Server(w)
      PROVE  AwareInv'
  <2>1. CASE Change(w)
    <3>1. PICK kind \in {"edit", "join", "remove", "claim", "restore"},
               u \in Users \cup {Nobody} :
              Commit(w, kind, u, NoPage) /\ (kind = "join" /\ Deleting => Does("latejoin"))
      BY <2>1 DEF Change
    <3>2. kind \in Kinds /\ (kind = "join" => ~Deleting) /\ UNCHANGED <<pages, subs>>
      BY <2>1, <3>1 DEF Kinds, Does, Undisturbed, Change, Commit, hub
    <3>3. DeletesTell' /\ \A v \in Users : /\ Told(v) => Told(v)'
                                           /\ View(v)' = View(v) \/ Told(v)'
      BY <1>1, <3>1, <3>2, CommitTells, CommitKeepsDeletes
    <3> QED
      BY <1>1, <1>2, <3>2, <3>3, AwareServer
  <2>2. CASE Delete(w)
    <3>1. GatherDelete(w) \/ CommitDelete(w)
      BY <2>2 DEF Delete
    <3>2. UNCHANGED <<pages, subs>>
      BY <1>1, <2>2, <3>1, DeleteDoes DEF Delete
    <3>3. DeletesTell' /\ \A v \in Users : /\ Told(v) => Told(v)'
                                           /\ View(v)' = View(v) \/ Told(v)'
      BY <1>1, <3>1, DeleteTells
    <3> QED
      BY <1>1, <1>2, <3>2, <3>3, AwareServer
  <2>3. CASE Tell(w)
    <3>1. Gather(w) /\ UNCHANGED <<pages, subs>>
      BY <2>3 DEF Tell, Gather
    <3>2. DeletesTell' /\ \A v \in Users : (Told(v) => Told(v)') /\ View(v)' = View(v)
      BY <1>1, <3>1, GatherTells
    <3> QED
      BY <1>1, <1>2, <3>1, <3>2, AwareServer
  <2>4. CASE Announced(w)
    <3>1. Publish(w) /\ UNCHANGED pages
      BY <1>2, <2>4 DEF Announced
    <3>2. /\ DeletesTell'
          /\ \A v \in Users : /\ Told(v) => Told(v)' \/ v \in writers[w].to
                              /\ View(v)' = View(v)
      BY <1>1, <3>1, PublishTells
    <3>3. \A p \in Pages :
              /\ subs[p] = "signal" => subs'[p] = "signal"
              /\ subs[p] # "none" /\ ViewerOf[p] \in writers[w].to => subs'[p] = "signal"
      BY <1>1, <3>1, PublishDoes
    <3>4. \A p \in Pages : pages[p].doc = "open" /\ pages[p].stream = "open" => subs[p] # "none"
      BY <1>1 DEF TypeOK, Open
    <3>5. ASSUME NEW p \in Pages
          PROVE  Aware(pages[p], subs[p], ViewerOf[p])'
      BY <1>2, <3>1, <3>2, <3>3, <3>4 DEF Aware, Notice
    <3>6. \A p \in Pages : Calm(pages[p])'
      BY <1>2, <3>1 DEF Calm
    <3> QED
      BY <1>1, <3>2, <3>5, <3>6 DEF AwareInv
  <2> QED
    BY <1>3, <2>1, <2>2, <2>3, <2>4 DEF Server
<1>4. ASSUME NEW p \in Pages, Stream(p)
      PROVE  AwareInv'
  <2>1. CASE Connect(p)
    <3>1. PICK q : /\ Turns(p, q) /\ SameFetch(pages[p], q) /\ SameScreen(pages[p], q)
                   /\ q.doc = pages[p].doc /\ q.opened = pages[p].opened
                   /\ q.post = pages[p].post /\ q.stream \in {"accepted", "refused"}
      BY <1>1, <2>1, ConnectDoes
    <3>2. UNCHANGED <<list, writers>> /\ \A o \in Pages \ {p} : subs'[o] = subs[o]
      BY <1>1, <2>1, ConnectDoes DEF ServerStays, TypeOK, AnnounceType
    <3>3. Calm(q) /\ Aware(q, subs'[p], ViewerOf[p])
      BY <1>2, <3>1 DEF Calm, Aware, Notice, SameFetch, SameScreen
    <3> QED
      BY <1>1, <3>1, <3>2, <3>3, AwareTurn
  <2>2. CASE Emit(p)
    <3>1. PICK q : /\ Turns(p, q) /\ SameFetch(pages[p], q) /\ SameScreen(pages[p], q)
                   /\ q.doc = pages[p].doc /\ q.opened = pages[p].opened
                   /\ q.post = pages[p].post /\ q.wire > 0
      BY <1>1, <2>2, EmitDoes
    <3>2. UNCHANGED <<list, writers>> /\ \A o \in Pages \ {p} : subs'[o] = subs[o]
      BY <1>1, <2>2, EmitDoes DEF ServerStays, TypeOK, AnnounceType
    <3>3. Calm(q) /\ Aware(q, subs'[p], ViewerOf[p])
      BY <1>2, <3>1 DEF Calm, Aware, Notice, SameFetch, SameScreen
    <3> QED
      BY <1>1, <3>1, <3>2, <3>3, AwareTurn
  <2>3. CASE DropGhost(p)
    <3>1. UNCHANGED <<list, writers, pages, subs>>
      BY <2>3 DEF DropGhost, Unsubscribe, serverState
    <3>2. DeletesTell' /\ \A v \in Users : (Told(v) => Told(v)') /\ View(v)' = View(v)
      BY <1>1, <3>1 DEF DeletesTell, Told, View, Sees, Recipients
    <3> QED
      BY <1>1, <1>2, <3>1, <3>2, AwareServer
  <2> QED
    BY <1>4, <2>1, <2>2, <2>3 DEF Stream
<1>5. ASSUME NEW p \in Pages, NEW q, Turns(p, q), ServerStays, UNCHANGED hub,
             Calm(q), Aware(q, subs[p], ViewerOf[p])
      PROVE  AwareInv'
  BY <1>1, <1>5, AwareTurn DEF ServerStays, hub
<1>6. ASSUME NEW p \in Pages, Script(p)
      PROVE  AwareInv'
  <2>1. CASE OnOpen(p)
    <3>1. PICK q : /\ Turns(p, q) /\ SameFetch(pages[p], q) /\ SameScreen(pages[p], q)
                   /\ q.doc = pages[p].doc /\ q.stream = "open" /\ q.opened
                   /\ q.post = pages[p].post
                   /\ q.timer = (pages[p].timer \/ pages[p].opened)
      BY <1>1, <2>1, OnOpenDoes
    <3>2. Calm(q)
      BY <1>2, <3>1 DEF Calm, SameFetch, SameScreen
    <3>3. Aware(q, subs[p], ViewerOf[p])
      BY <1>2, <3>1 DEF Calm, Aware, Notice
    <3> QED
      BY <1>1, <1>5, <2>1, <3>1, <3>2, <3>3, OnOpenDoes
  <2>2. CASE OnChanged(p)
    <3>1. PICK q : /\ Turns(p, q) /\ SameFetch(pages[p], q) /\ SameScreen(pages[p], q)
                   /\ q.doc = pages[p].doc /\ q.opened = pages[p].opened
                   /\ q.post = pages[p].post /\ q.timer
      BY <1>1, <2>2, OnChangedDoes
    <3>2. Calm(q) /\ Aware(q, subs[p], ViewerOf[p])
      BY <1>2, <3>1 DEF Calm, Aware, Notice, SameFetch, SameScreen
    <3> QED
      BY <1>1, <1>5, <2>2, <3>1, <3>2, OnChangedDoes
  <2>3. CASE TimerFires(p)
    <3>1. PICK q : /\ Turns(p, q) /\ SameScreen(pages[p], q) /\ Same(pages[p], q)
                   /\ q.fetch = (IF pages[p].fetch = "none" THEN "sent" ELSE pages[p].fetch)
                   /\ q.fetch = "sent" \/ q.again
      BY <1>1, <2>3, TimerFiresDoes
    <3>2. Calm(q) /\ Aware(q, subs[p], ViewerOf[p])
      BY <1>2, <3>1 DEF Calm, Aware, Notice, SameScreen, Same
    <3> QED
      BY <1>1, <1>5, <2>3, <3>1, <3>2, TimerFiresDoes
  <2>4. CASE AnswerFetch(p)
    <3>1. PICK q : /\ Turns(p, q) /\ SameScreen(pages[p], q) /\ Same(pages[p], q)
                   /\ q.fetch = "back" /\ q.got = View(ViewerOf[p])
      BY <1>1, <2>4, AnswerFetchDoes
    <3>2. Calm(q) /\ Aware(q, subs[p], ViewerOf[p])
      BY <1>2, <3>1 DEF Calm, Aware, SameScreen, Same
    <3> QED
      BY <1>1, <1>5, <2>4, <3>1, <3>2, AnswerFetchDoes
  <2>5. CASE OnFetched(p)
    <3>1. ServerStays /\ pages[p].fetch = "back"
      BY <1>1, <2>5, OnFetchedDoes
    <3>2. CASE Turns(p, Closed) /\ HangUp(p)
      <4>1. Calm(Closed) /\ Aware(Closed, subs'[p], ViewerOf[p])
        BY NewPages DEF Calm, Aware
      <4>2. \A o \in Pages \ {p} : subs'[o] = subs[o]
        BY <1>1, <3>2, HangUpDoes
      <4> QED
        BY <1>1, <3>1, <3>2, <4>1, <4>2, AwareTurn DEF ServerStays
    <3>3. ASSUME UNCHANGED hub, NEW q, Turns(p, q), Same(pages[p], q),
                 q.busy = pages[p].busy, q.timer = pages[p].timer,
                 q.fetch = (IF pages[p].again THEN "sent" ELSE "none"), ~q.again,
                 \/ q.shown = pages[p].got
                 \/ q.shown = pages[p].shown /\ q.busy # "no" /\ q.pending
          PROVE  AwareInv'
      <4>1. Calm(q)
        BY <1>2, <3>3 DEF Calm, Same
      <4>2. Aware(q, subs[p], ViewerOf[p])
        <5>1. CASE pages[p].again
          BY <3>3, <5>1 DEF Aware, Notice
        <5>2. CASE ~pages[p].again
          BY <1>2, <3>1, <3>3, <5>2 DEF Aware, Notice, Same
        <5> QED
          BY <5>1, <5>2
      <4> QED
        BY <1>5, <3>1, <3>3, <4>1, <4>2
    <3> QED
      BY <1>1, <2>5, <3>2, <3>3, OnFetchedDoes
  <2>6. CASE AnswerPost(p) \/ OnPosted(p)
    BY <1>1, <1>2, <2>6, PostSteps
  <2>7. CASE \E w \in Writers : ServePost(p, w)
    BY <1>1, <1>2, <2>7, ServePostDoes
  <2> QED
    BY <1>6, <2>1, <2>2, <2>3, <2>4, <2>5, <2>6, <2>7 DEF Script
<1>7. ASSUME NEW p \in Pages, Person(p)
      PROVE  AwareInv'
  <2>1. CASE \E how \in {"form", "menu"} : StartEditing(p, how)
    <3>1. PICK how \in {"form", "menu"} : StartEditing(p, how)
      BY <2>1
    <3>2. /\ ServerStays /\ UNCHANGED hub /\ pages[p].busy = "no" /\ Does(how)
      BY <1>1, <3>1, StartEditingDoes
    <3>3. PICK q : /\ Turns(p, q) /\ SameFetch(pages[p], q) /\ Same(pages[p], q)
                   /\ q.shown = pages[p].shown /\ q.timer = pages[p].timer
                   /\ q.busy = how
      BY <1>1, <3>1, StartEditingDoes
    <3>4. how # "menu"
      BY <3>2 DEF Does, Undisturbed
    <3>5. Calm(q) /\ Aware(q, subs[p], ViewerOf[p])
      BY <1>2, <3>2, <3>3, <3>4 DEF Calm, Aware, Notice, SameFetch, Same
    <3> QED
      BY <1>5, <3>2, <3>3, <3>5
  <2>2. CASE CloseForm(p)
    <3>1. PICK q : /\ Turns(p, q) /\ Same(pages[p], q) /\ q.busy = "no"
                   /\ q.shown = pages[p].shown /\ q.got = pages[p].got
                   /\ q.timer = pages[p].timer
                   /\ \/ /\ q.fetch = pages[p].fetch /\ q.again = pages[p].again
                         /\ ~pages[p].pending
                      \/ /\ q.fetch = (IF pages[p].fetch = "none" THEN "sent"
                                                                   ELSE pages[p].fetch)
                         /\ q.fetch = "sent" \/ q.again
      BY <1>1, <2>2, CloseFormDoes
    <3>2. Calm(q) /\ Aware(q, subs[p], ViewerOf[p])
      BY <1>2, <3>1 DEF Calm, Aware, Notice, Same
    <3> QED
      BY <1>1, <1>5, <2>2, <3>1, <3>2, CloseFormDoes
  <2>3. CASE CloseMenu(p)
    BY <1>2, <2>3 DEF CloseMenu
  <2>4. CASE Submit(p) \/ Load(p)
    BY <2>4 DEF Submit, Load, Does, Undisturbed
  <2>5. CASE Hide(p) \/ Poll(p)
    <3>1. PICK q : /\ Turns(p, q) /\ SameFetch(pages[p], q) /\ SameScreen(pages[p], q)
                   /\ Same(pages[p], q)
                   /\ pages[p].timer => q.timer
      BY <1>1, <2>5, TicksDo
    <3>2. Calm(q) /\ Aware(q, subs[p], ViewerOf[p])
      BY <1>2, <3>1 DEF Calm, Aware, Notice, SameFetch, SameScreen, Same
    <3>3. ServerStays /\ UNCHANGED hub
      BY <1>1, <2>5, TicksDo
    <3> QED
      BY <1>5, <3>1, <3>2, <3>3
  <2> QED
    BY <1>7, <2>1, <2>2, <2>3, <2>4, <2>5 DEF Person
<1>8. ASSUME NEW p \in Pages, Drop(p)
      PROVE  AwareInv'
  <2>1. PICK q : /\ Turns(p, q) /\ SameFetch(pages[p], q) /\ SameScreen(pages[p], q)
                 /\ q.doc = pages[p].doc /\ q.opened = pages[p].opened
                 /\ q.post = pages[p].post /\ q.stream \in {"connecting", "refused"}
    BY <1>1, <1>8, DropDoes
  <2>2. UNCHANGED <<list, writers>> /\ HangUp(p)
    BY <1>1, <1>8, DropDoes
  <2>3. Calm(q) /\ Aware(q, subs'[p], ViewerOf[p])
    BY <1>2, <2>1 DEF Calm, Aware, Notice, SameFetch, SameScreen
  <2>4. \A o \in Pages \ {p} : subs'[o] = subs[o]
    BY <1>1, <2>2, HangUpDoes
  <2> QED
    BY <1>1, <2>1, <2>2, <2>3, <2>4, AwareTurn
<1>9. ASSUME NEW p \in Pages, Fail(p)
      PROVE  FALSE
  BY <1>9 DEF Fail, Does, Undisturbed
<1>10. CASE Restart
  <2>1. ASSUME NEW p \in Pages
        PROVE  /\ Calm(pages'[p])
               /\ pages'[p].doc = "open" => pages'[p].stream # "open"
    BY <1>1, <1>2, <1>10, RestartDoes DEF Calm, SameScreen, SameFetch
  <2>2. \A p \in Pages : Aware(pages[p], subs[p], ViewerOf[p])'
    BY <2>1 DEF Aware, Notice
  <2>3. DeletesTell'
    BY <1>1, <1>10, RestartDoes, NewWriter DEF DeletesTell
  <2>4. \A p \in Pages : Calm(pages[p])'
    BY <2>1 DEF Calm
  <2> QED
    BY <1>1, <2>2, <2>3, <2>4 DEF AwareInv
<1>11. CASE UNCHANGED vars
  <2>1. DeletesTell' /\ \A v \in Users : (Told(v) => Told(v)') /\ View(v)' = View(v)
    BY <1>1, <1>11 DEF vars, DeletesTell, Told, View, Sees, Recipients
  <2> QED
    BY <1>1, <1>2, <1>11, <2>1, AwareServer DEF vars
<1> QED
  BY <1>3, <1>4, <1>6, <1>7, <1>8, <1>9, <1>10, <1>11 DEF Next

\* At the start everybody sees what the store holds.
LEMMA AwareBegins ==
    ASSUME Init
    PROVE  AwareInv
<1>1. TypeInv
  BY TypesBegin
<1>2. DeletesTell
  BY NewWriter DEF Init, DeletesTell
<1>3. ASSUME NEW p \in Pages
      PROVE  Calm(pages[p]) /\ Aware(pages[p], subs[p], ViewerOf[p])
  <2> DEFINE v == View(ViewerOf[p])
             r == Rendered(v)
             q == [r EXCEPT !.stream = "open", !.opened = TRUE]
  <2>1. pages[p] = Closed \/ pages[p] = q
    BY DEF Init
  <2>2. v \in Versions
    BY <1>1, PageFields DEF TypeInv
  <2>3. /\ r \in Page /\ r.post = "none" /\ r.fetch = "none" /\ r.shown = v
        /\ r.busy = "no" /\ ~r.again
    BY <2>2, NewPages
  <2> HIDE DEF r
  <2>4. /\ q.post = "none" /\ q.fetch = "none" /\ q.shown = v /\ q.busy = "no"
        /\ ~q.again /\ q.opened
    BY <2>3 DEF Page
  <2> HIDE DEF q
  <2> QED
    BY <2>1, <2>4, NewPages DEF Calm, Aware
<1> QED
  BY <1>1, <1>2, <1>3 DEF AwareInv

\* However the pages' streams break and reconnect, whenever the server stops
\* and whatever is being edited, a page on which nothing is left to happen
\* shows what the store holds, or knows that it has to look when the editing is
\* over.  Left out are the five doings with which it is not so: joining a list
\* that is being deleted, leaving a menu by a click elsewhere, a page's own
\* posts, a load that subscribes after it has read, and a request that fails.
THEOREM NothingIsLost ==
    ASSUME Undisturbed
    PROVE  Spec => []NoUpdateLost
<1>1. Init => AwareInv
  BY AwareBegins
<1>2. AwareInv /\ [Next]_vars => AwareInv'
  BY AwareStays
<1>3. ASSUME AwareInv
      PROVE  NoUpdateLost
  <2>1. ASSUME NEW p \in Pages, Open(p), AtRest(p)
        PROVE  Fresh(p) \/ (pages[p].busy # "no" /\ pages[p].pending)
    <3>1. Calm(pages[p]) /\ Aware(pages[p], subs[p], ViewerOf[p])
      BY <1>3 DEF AwareInv
    <3>2. ~Told(ViewerOf[p])
      BY <2>1 DEF AtRest, Told
    <3>3. ~Notice(pages[p], subs[p], ViewerOf[p]) /\ pages[p].fetch = "none"
      BY <2>1, <3>1, <3>2 DEF AtRest, Notice, Calm
    <3> QED
      BY <2>1, <3>1, <3>3 DEF Aware, Open, Fresh
  <2> QED
    BY <2>1 DEF NoUpdateLost
<1> QED
  BY <1>1, <1>2, <1>3, PTL DEF Spec

===============================================================================
