--------------------------- MODULE AccountLifecycle ---------------------------
(***************************************************************************)
(* What the account commands promise together, whatever runs concurrently:  *)
(* a username and an email are given to one account and never again, an     *)
(* email is verified once, and an account is deleted only after its owner   *)
(* asked for it.  Every step acts on one account.                           *)
(***************************************************************************)
CONSTANTS User, Username, Email

VARIABLES account, identity, verified

vars == <<account, identity, verified>>

Init ==
    /\ account = [u \in User |-> "none"]
    /\ identity = [u \in User |-> {}]
    /\ verified = [u \in User |-> FALSE]

Register(u, username, email) ==
    /\ account[u] = "none"
    /\ \A v \in User : \A other \in identity[v] : username # other[1] /\ email # other[2]
    /\ account' = [account EXCEPT ![u] = "registered"]
    /\ identity' = [identity EXCEPT ![u] = {<<username, email>>}]
    /\ UNCHANGED verified

\* Nothing ties the verification to the deletion: a code may still be validated while
\* the account is being deleted.
Verify(u) ==
    /\ account[u] # "none"
    /\ ~ verified[u]
    /\ verified' = [verified EXCEPT ![u] = TRUE]
    /\ UNCHANGED <<account, identity>>

Move(u, from, to) ==
    /\ account[u] = from
    /\ account' = [account EXCEPT ![u] = to]
    /\ UNCHANGED <<identity, verified>>

RequestDeletion(u) == Move(u, "registered", "deleting")

Delete(u) == Move(u, "deleting", "deleted")

Next ==
    \E u \in User :
        \/ \E username \in Username, email \in Email : Register(u, username, email)
        \/ Verify(u)
        \/ RequestDeletion(u)
        \/ Delete(u)

Spec == Init /\ [][Next]_vars

===============================================================================
