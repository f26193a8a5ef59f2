----------------------------- MODULE Belonging -----------------------------
(***************************************************************************)
(* What belonging to a list is, for somebody who knows nothing of tables,  *)
(* codes, requests or the trash.  A list is everyone's or it has an owner; *)
(* it gets an owner once and keeps them; an owner always belongs to it;    *)
(* nobody belongs to a list that is everyone's; and a list that is gone    *)
(* stays gone.  Each change is one step.  Sharing implements this.         *)
(***************************************************************************)
CONSTANTS Users, Lists, Nobody

VARIABLE circle    \* circle[l]: the stage l is at, its owner and its members

None == [stage |-> "none", owner |-> Nobody, members |-> {}]
Everyones == [stage |-> "public", owner |-> Nobody, members |-> {}]
Owned(u, us) == [stage |-> "owned", owner |-> u, members |-> us]
Gone == [stage |-> "gone", owner |-> Nobody, members |-> {}]

Init == circle \in [Lists -> {None, Everyones}]

\* A new list, or one that was everyone's, becomes somebody's.
Own(l, u) ==
    /\ circle[l] \in {None, Everyones}
    /\ circle' = [circle EXCEPT ![l] = Owned(u, {u})]

Join(l, u) ==
    /\ circle[l].stage = "owned"
    /\ circle' = [circle EXCEPT ![l].members = @ \cup {u}]

\* By themselves or by the owner, who cannot.
Leave(l, u) ==
    /\ circle[l].stage = "owned" /\ u # circle[l].owner
    /\ circle' = [circle EXCEPT ![l].members = @ \ {u}]

Vanish(ls) ==
    /\ \A l \in ls : circle[l].stage \in {"public", "owned"}
    /\ circle' = [l \in Lists |-> IF l \in ls THEN Gone ELSE circle[l]]

Next ==
    \/ \E l \in Lists, u \in Users : Own(l, u) \/ Join(l, u) \/ Leave(l, u)
    \/ \E ls \in SUBSET Lists : Vanish(ls)

Spec == Init /\ [][Next]_circle
=============================================================================
