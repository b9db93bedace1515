------------------------------- MODULE Delivery -------------------------------
(***************************************************************************)
(* What a GlobalEventHandler promises the code that uses it: the callback   *)
(* of each wanted event commits in order and at least once.  Its effect and *)
(* the checkpoint are two transactions, so the last callback may run again, *)
(* even past its checkpoint; the callback of the next event commits only    *)
(* when the checkpoint has caught up, and no older one commits after it.    *)
(***************************************************************************)
EXTENDS EventStore

CONSTANTS HandlerQuery, Event, MaxEvents

VARIABLES
    log,        \* the event store
    delivered,  \* the last event whose callback committed
    checkpoint  \* the row of projector_checkpoint

vars == <<log, delivered, checkpoint>>

Wanted(i) == InQuery(log[i], HandlerQuery)

\* Event i may be handled now: the one handled last, again, or the one after it.  The
\* last one is repeated after a crash, a failed notification or a failed checkpoint, and
\* also when the checkpoint has passed it: the worker of a new subscription received it
\* because a late worker of the old one had not committed the checkpoint yet.
MayDeliver(i) ==
    \/ i = delivered /\ i # NoEventPosition
    \/ /\ i \in DOMAIN log /\ Wanted(i)
       /\ delivered = checkpoint
       /\ After(i, delivered)
       /\ \A j \in DOMAIN log : After(j, delivered) /\ After(i, j) => ~ Wanted(j)

Init == log = << >> /\ delivered = NoEventPosition /\ checkpoint = NoEventPosition

AppendEvent(event) ==
    /\ Len(log) < MaxEvents
    /\ log' = Append(log, event)
    /\ UNCHANGED <<delivered, checkpoint>>

Deliver(i) ==
    /\ MayDeliver(i)
    /\ delivered' = i
    /\ UNCHANGED <<log, checkpoint>>

Advance ==
    /\ checkpoint' = delivered
    /\ UNCHANGED <<log, delivered>>

\* Effects and checkpoint are reset together.
Reset ==
    /\ delivered' = NoEventPosition
    /\ checkpoint' = NoEventPosition
    /\ UNCHANGED log

Next ==
    \/ \E event \in Event : AppendEvent(event)
    \/ \E i \in DOMAIN log : Deliver(i)
    \/ Advance
    \/ Reset

Spec == Init /\ [][Next]_vars

===============================================================================
