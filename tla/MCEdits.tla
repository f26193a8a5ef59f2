------------------------------ MODULE MCEdits ------------------------------
(***************************************************************************)
(* Edits on a small instance: two tasks, and the kinds of request that can *)
(* get in each other's way, each kind on one of the tasks.                 *)
(***************************************************************************)
EXTENDS Edits, TLC

CONSTANTS t1, t2, title, due

Symmetry == Permutations(Slots)

Plain == [task |-> t1, names |-> {}, to |-> "nobody asked", done |-> "as it is",
          trash |-> "no"]

MCAsks == {
    [Plain EXCEPT !.names = {title}],
    [Plain EXCEPT !.names = {due}, !.to = "a member", !.done = "done"],
    [Plain EXCEPT !.names = {title, due}, !.to = "a stranger", !.done = "done"],
    [Plain EXCEPT !.to = "a member"],
    [Plain EXCEPT !.done = "toggle"],
    [Plain EXCEPT !.trash = "delete"],
    [Plain EXCEPT !.trash = "restore"],
    [Plain EXCEPT !.task = t2, !.done = "toggle"]}
=============================================================================
