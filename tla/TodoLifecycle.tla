----------------------------- MODULE TodoLifecycle -----------------------------
(***************************************************************************)
(* What the todo commands promise together, whatever runs concurrently: a   *)
(* todo is created once, belongs to its creator for ever, is completed only *)
(* while active, reopened only while completed, renamed only to another     *)
(* title and never comes back once deleted.  Every step acts on one todo.   *)
(***************************************************************************)
CONSTANTS User, Todo, Title, NoUser, NoTitle

VARIABLES status, owner, title

vars == <<status, owner, title>>

Init ==
    /\ status = [t \in Todo |-> "none"]
    /\ owner = [t \in Todo |-> NoUser]
    /\ title = [t \in Todo |-> NoTitle]

Create(t, u, name) ==
    /\ status[t] = "none"
    /\ status' = [status EXCEPT ![t] = "active"]
    /\ owner' = [owner EXCEPT ![t] = u]
    /\ title' = [title EXCEPT ![t] = name]

Rename(t, name) ==
    /\ status[t] \in {"active", "completed"}
    /\ name # title[t]
    /\ title' = [title EXCEPT ![t] = name]
    /\ UNCHANGED <<status, owner>>

Move(t, from, to) ==
    /\ status[t] \in from
    /\ status' = [status EXCEPT ![t] = to]
    /\ UNCHANGED <<owner, title>>

Complete(t) == Move(t, {"active"}, "completed")

Reopen(t) == Move(t, {"completed"}, "active")

Delete(t) == Move(t, {"active", "completed"}, "deleted")

Next ==
    \E t \in Todo :
        \/ \E u \in User, name \in Title : Create(t, u, name)
        \/ \E name \in Title : Rename(t, name)
        \/ Complete(t)
        \/ Reopen(t)
        \/ Delete(t)

Spec == Init /\ [][Next]_vars

===============================================================================
