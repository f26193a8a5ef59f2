------------------------------ MODULE Announce ------------------------------
(***************************************************************************)
(* From a change in the store to a signal in the hub.                      *)
(*                                                                         *)
(* A store operation commits, works out who can see the list (recipients)  *)
(* and calls publish; DeleteList works it out before it commits, because   *)
(* afterwards nobody can.  The three are separate steps: other operations  *)
(* come between them.  hub.publish leaves one signal in the one-slot       *)
(* channel of every stream of those people; a signal carries no data.      *)
(*                                                                         *)
(* One list is enough: its content is a version number.  Who may make      *)
(* which change is the business of Sharing.tla and left open here.         *)
(***************************************************************************)
EXTENDS Integers, FiniteSets

CONSTANTS
    Users,
    Nobody,       \* the owner of a public list
    Pages,        \* browser pages (tabs); NoPage is not one of them
    NoPage,
    ViewerOf,     \* whose page each one is
    Writers,      \* store operations in progress at once (a bound)
    MaxVersion,   \* changes to the list (a bound)
    MaxStreams    \* streams one person may have open

ASSUME AnnounceConstants ==
    /\ Nobody \notin Users
    /\ NoPage \notin Pages
    /\ ViewerOf \in [Pages -> Users]
    /\ MaxVersion \in Nat \ {0}
    /\ MaxStreams \in Nat \ {0}

VARIABLES
    list,       \* the list: version, owner, members, whether it is in the trash
    writers,    \* writers[w]: an operation between its commit and its publish
    subs,       \* hub.subs: the stream of each page, and whether its channel is full
    ghosts      \* pages that hung up on a stream the hub has not dropped yet

hub == <<subs, ghosts>>

\* What someone sees of a list they cannot see; versions start at 1.
Gone == 0

Sees(u) == ~list.trashed /\ (list.owner = Nobody \/ u \in list.members)
View(u) == IF Sees(u) THEN list.version ELSE Gone

Kinds == {"edit", "join", "remove", "claim", "delete", "restore"}

\* An operation in progress: what it did, to whom, and whom it will tell.
Writer == [step: {"idle", "gather", "commit", "publish"},
           kind: Kinds, user: Users \cup {Nobody}, to: SUBSET Users,
           page: Pages \cup {NoPage}]

IdleWriter == [step |-> "idle", kind |-> "edit", user |-> Nobody, to |-> {},
               page |-> NoPage]

ListType == [version: 1..MaxVersion, owner: Users \cup {Nobody},
             members: SUBSET Users, trashed: BOOLEAN]

----------------------------------------------------------------------------
(* Changes.                                                                *)

\* Whether a change of this kind, about u, would affect a row.
Possible(kind, u) ==
    \/ kind = "edit" /\ u = Nobody
    \/ kind = "join" /\ u \in Users \ list.members /\ list.owner # Nobody
    \/ kind = "remove" /\ u \in list.members /\ u # list.owner
    \/ kind = "claim" /\ u \in Users /\ list.owner = Nobody
    \/ kind = "delete" /\ u = Nobody /\ ~list.trashed
    \/ kind = "restore" /\ u = Nobody /\ list.trashed

Changed(kind, u) ==
    [version |-> list.version + 1,
     owner   |-> IF kind = "claim" THEN u ELSE list.owner,
     members |-> (list.members \cup (IF kind \in {"join", "claim"} THEN {u} ELSE {}))
                 \ (IF kind = "remove" THEN {u} ELSE {}),
     trashed |-> (list.trashed \/ kind = "delete") /\ kind # "restore"]

\* recipients: the members of the list, or everyone when it is public.
Recipients == IF list.owner = Nobody THEN Users ELSE list.members

\* Commit of every operation but DeleteList.  ClaimList tells everyone.
Commit(w, kind, u, p) ==
    /\ writers[w].step = "idle"
    /\ kind # "delete"
    /\ list.version < MaxVersion
    /\ Possible(kind, u)
    /\ list' = Changed(kind, u)
    /\ writers' = [writers EXCEPT ![w] =
           [step |-> IF kind = "claim" THEN "publish" ELSE "gather",
            kind |-> kind, user |-> u, page |-> p,
            to   |-> IF kind = "claim" THEN Users ELSE {}]]
    /\ UNCHANGED hub

\* changed: recipients, and the extra user who was just removed.
Gather(w) ==
    /\ writers[w].step = "gather"
    /\ writers' = [writers EXCEPT
           ![w].step = "publish",
           ![w].to = Recipients \cup (IF writers[w].kind = "remove"
                                      THEN {writers[w].user} ELSE {})]
    /\ UNCHANGED <<list, subs, ghosts>>

\* A slip: the recipients of a delete worked out afterwards, from the lists
\* people can still see.
GatherDeleteOfNobody(w) ==
    /\ writers[w].step = "idle"
    /\ list.version < MaxVersion
    /\ writers' = [writers EXCEPT ![w] = [IdleWriter EXCEPT !.step = "commit",
                                                           !.kind = "delete"]]
    /\ UNCHANGED <<list, subs, ghosts>>

\* DeleteList: "gather before the list stops being visible" ...
GatherDelete(w) ==
    /\ writers[w].step = "idle"
    /\ list.version < MaxVersion
    /\ writers' = [writers EXCEPT ![w] = [IdleWriter EXCEPT !.step = "commit",
                                                           !.kind = "delete",
                                                           !.to = Recipients]]
    /\ UNCHANGED <<list, subs, ghosts>>

\* ... then trash it, unless somebody else just has.
CommitDelete(w) ==
    /\ writers[w].step = "commit"
    /\ \/ /\ list.version < MaxVersion
          /\ Possible("delete", Nobody)
          /\ list' = Changed("delete", Nobody)
          /\ writers' = [writers EXCEPT ![w].step = "publish"]
       \/ /\ list.version = MaxVersion \/ list.trashed
          /\ writers' = [writers EXCEPT ![w] = IdleWriter]
          /\ UNCHANGED list
    /\ UNCHANGED hub

\* A slip: streams that were closed are signalled as well.
SignalClosed(people) ==
    /\ subs' = [p \in Pages |-> IF ViewerOf[p] \in people THEN "signal" ELSE subs[p]]
    /\ UNCHANGED ghosts

\* hub.publish: one signal for each stream of these people; a channel that
\* already holds one is left alone.
Signal(people) ==
    /\ subs' = [p \in Pages |-> IF subs[p] = "quiet" /\ ViewerOf[p] \in people
                                THEN "signal" ELSE subs[p]]
    /\ UNCHANGED ghosts

Publish(w) ==
    /\ writers[w].step = "publish"
    /\ Signal(writers[w].to)
    /\ writers' = [writers EXCEPT ![w] = IdleWriter]
    /\ UNCHANGED list

----------------------------------------------------------------------------
(* Streams.                                                                *)

\* How many streams the hub counts for u, those nobody listens to included.
Streams(u) == Cardinality({p \in Pages : ViewerOf[p] = u /\ subs[p] # "none"})
              + Cardinality({p \in ghosts : ViewerOf[p] = u})

HasRoom(u) == Streams(u) < MaxStreams

Subscribe(p) ==
    /\ HasRoom(ViewerOf[p])
    /\ subs' = [subs EXCEPT ![p] = "quiet"]
    /\ UNCHANGED ghosts

\* The browser has gone; the handler finds out in its own time.
HangUp(p) ==
    /\ subs' = [subs EXCEPT ![p] = "none"]
    /\ ghosts' = IF subs[p] = "none" THEN ghosts ELSE ghosts \cup {p}

\* events returns on a cancelled request context, which unsubscribes.
Unsubscribe(p) ==
    /\ p \in ghosts
    /\ ghosts' = ghosts \ {p}
    /\ UNCHANGED subs

AnnounceType ==
    /\ list \in ListType
    /\ writers \in [Writers -> Writer]
    /\ subs \in [Pages -> {"none", "quiet", "signal"}]
    /\ ghosts \subseteq Pages

=============================================================================
