----------------------------- MODULE EventHandler -----------------------------
(***************************************************************************)
(* GlobalEventHandler (internal/eventstore/event_handler.go): the loop that *)
(* feeds one read model or reaction from the event log.                     *)
(*                                                                         *)
(* A goroutine looks the checkpoint up, subscribes after it and waits for   *)
(* the subscription to end, then starts over.  Each subscription runs a     *)
(* worker goroutine of its own that receives one event at a time, runs the  *)
(* callback and then moves the checkpoint, each retried until it succeeds.  *)
(* The callback is a write transaction on the read model and a notification *)
(* that may still fail after it; the checkpoint is a second transaction.    *)
(*                                                                         *)
(* SubscribeToEvents cancels the worker's context when a subscription ends  *)
(* but does not wait for it.  The worker of an old subscription may thus be *)
(* inside a transaction, and commit it, while its successor runs.  SQLite   *)
(* admits one write transaction at a time, and a cancelled context starts   *)
(* no new one: that is all that keeps the two apart.                        *)
(***************************************************************************)
EXTENDS EventStore

CONSTANTS
    HandlerQuery,  \* the events the handler subscribes to
    Event,         \* what may be appended to the log
    Worker,        \* goroutines alive at once, one per subscription not yet gone
    NoWorker,
    GivesUp,       \* MaxEventRetries is positive: the callback may fail for good
    OnlineReset,   \* read models are reset while the server runs
    MaxEvents,     \* bound: length of the log
    MaxResets      \* bound: resets of the read models

ASSUME WorkerAssumption == NoWorker \notin Worker
ASSUME FlagsAssumption == GivesUp \in BOOLEAN /\ OnlineReset \in BOOLEAN
ASSUME BoundsAssumption == MaxEvents \in Nat /\ MaxResets \in Nat

VARIABLES
    log,         \* the event store
    up,          \* the server process runs
    loop,        \* run: "lookup", "subscribed", "delay", or "stopped"
    current,     \* the worker whose context is not cancelled
    step,        \* where each worker stands
    at,          \* the position each worker received last
    checkpoint,  \* the row of projector_checkpoint, NoEventPosition without one
    applied,     \* positions whose callback transaction committed since the last reset
    resets       \* resets so far

handlerVars == <<up, loop, current, step, at, checkpoint, applied, resets>>
vars == <<log, handlerVars>>

Wanted(i) == InQuery(log[i], HandlerQuery)

\* The event the subscription delivers after position p.
IsNext(i, p) ==
    /\ i \in DOMAIN log /\ After(i, p) /\ Wanted(i)
    /\ \A j \in DOMAIN log : After(j, p) /\ After(i, j) => ~ Wanted(j)

InTransaction(w) == step[w] \in {"handleTx", "checkpointTx"}

\* The database takes one writer at a time.
WriterFree == \A w \in Worker : ~ InTransaction(w)

Goto(w, place) == step' = [step EXCEPT ![w] = place]

\* The goroutine of w returns.
Leave(w) ==
    /\ Goto(w, "gone")
    /\ at' = [at EXCEPT ![w] = NoEventPosition]

-------------------------------------------------------------------------------
Init ==
    /\ log = << >>
    /\ up = FALSE
    /\ loop = "stopped"
    /\ current = NoWorker
    /\ step = [w \in Worker |-> "gone"]
    /\ at = [w \in Worker |-> NoEventPosition]
    /\ checkpoint = NoEventPosition
    /\ applied = {}
    /\ resets = 0

\* Somebody commits an event.
AppendEvent(event) ==
    /\ Len(log) < MaxEvents
    /\ log' = Append(log, event)
    /\ UNCHANGED handlerVars

\* startEventHandlers, once per process.
Boot ==
    /\ ~ up
    /\ up' = TRUE
    /\ loop' = "lookup"
    /\ UNCHANGED <<log, current, step, at, checkpoint, applied, resets>>

\* The row of this handler's name, or no position without a row.
GetCheckpoint == checkpoint

\* run: GetCheckpoint, then SubscribeToEvents after it, with a new worker w.
Subscribe(w) ==
    /\ loop = "lookup"
    /\ step[w] = "gone"
    /\ loop' = "subscribed"
    /\ current' = w
    /\ Goto(w, "receive")
    /\ at' = [at EXCEPT ![w] = GetCheckpoint]
    /\ UNCHANGED <<log, up, checkpoint, applied, resets>>

LookupFails ==
    /\ loop = "lookup"
    /\ loop' = "delay"
    /\ UNCHANGED <<log, up, current, step, at, checkpoint, applied, resets>>

\* sleepWithContext is over.
DelayOver ==
    /\ loop = "delay"
    /\ loop' = "lookup"
    /\ UNCHANGED <<log, up, current, step, at, checkpoint, applied, resets>>

\* Faulty variant: run is never told.
SubscriptionLost ==
    /\ loop = "subscribed"
    /\ current' = NoWorker
    /\ UNCHANGED <<log, up, loop, step, at, checkpoint, applied, resets>>

\* The store ends the subscription, with an error or without: the context of its
\* worker is cancelled and nobody waits for it.  The error, like that of GiveUp, is taken
\* not to be context.Canceled, on which run returns for good: while the handler's own
\* context is alive only code outside the repository, the store, could make it.
SubscriptionEnds ==
    /\ loop = "subscribed"
    /\ loop' = "delay"
    /\ current' = NoWorker
    /\ UNCHANGED <<log, up, step, at, checkpoint, applied, resets>>

\* Faulty variant: the checkpoint moves before the callback has run.
ReceiveToCheckpoint(w) ==
    /\ w = current
    /\ step[w] = "receive"
    /\ \E i \in DOMAIN log :
         /\ IsNext(i, at[w])
         /\ at' = [at EXCEPT ![w] = i]
    /\ Goto(w, "checkpoint")
    /\ UNCHANGED <<log, up, loop, current, checkpoint, applied, resets>>

\* handler.Recv returns the next event of the subscription.
Receive(w) ==
    /\ w = current
    /\ step[w] = "receive"
    /\ \E i \in DOMAIN log :
         /\ IsNext(i, at[w])
         /\ at' = [at EXCEPT ![w] = i]
    /\ Goto(w, "handle")
    /\ UNCHANGED <<log, up, loop, current, checkpoint, applied, resets>>

\* Faulty variant: the context is not checked.
BeginCancelled(w, from, to) ==
    /\ step[w] = from
    /\ WriterFree
    /\ Goto(w, to)
    /\ UNCHANGED <<log, up, loop, current, at, checkpoint, applied, resets>>

\* A transaction begins only under a live context.
Begin(w, from, to) ==
    /\ w = current
    /\ step[w] = from
    /\ WriterFree
    /\ Goto(w, to)
    /\ UNCHANGED <<log, up, loop, current, at, checkpoint, applied, resets>>

BeginHandle(w) == Begin(w, "handle", "handleTx")
BeginCheckpoint(w) == Begin(w, "checkpoint", "checkpointTx")

\* It may commit although its context was cancelled meanwhile.
CommitHandle(w) ==
    /\ step[w] = "handleTx"
    /\ applied' = applied \cup {at[w]}
    /\ Goto(w, "notify")
    /\ UNCHANGED <<log, up, loop, current, at, checkpoint, resets>>

CommitCheckpoint(w) ==
    /\ step[w] = "checkpointTx"
    /\ checkpoint' = at[w]
    /\ Goto(w, "receive")
    /\ UNCHANGED <<log, up, loop, current, at, applied, resets>>

\* Or roll back; the retry starts it again.
RollBack(w) ==
    /\ InTransaction(w)
    /\ Goto(w, IF step[w] = "handleTx" THEN "handle" ELSE "checkpoint")
    /\ UNCHANGED <<log, up, loop, current, at, checkpoint, applied, resets>>

\* The rest of the callback, after its transaction: publishing to the open pages.
NotifyDone(w) ==
    /\ step[w] = "notify"
    /\ Goto(w, "checkpoint")
    /\ UNCHANGED <<log, up, loop, current, at, checkpoint, applied, resets>>

\* The whole callback is retried.
NotifyFails(w) ==
    /\ step[w] = "notify"
    /\ Goto(w, "handle")
    /\ UNCHANGED <<log, up, loop, current, at, checkpoint, applied, resets>>

\* The retries of the callback are used up: its error ends the subscription.
GiveUp(w) ==
    /\ GivesUp
    /\ w = current
    /\ step[w] = "handle"
    /\ Leave(w)
    /\ loop' = "delay"
    /\ current' = NoWorker
    /\ UNCHANGED <<log, up, checkpoint, applied, resets>>

\* Outside a transaction a cancelled context ends the worker.
WorkerEnds(w) ==
    /\ w # current
    /\ step[w] # "gone"
    /\ ~ InTransaction(w)
    /\ Leave(w)
    /\ UNCHANGED <<log, up, loop, current, checkpoint, applied, resets>>

\* StopSubscribing at shutdown waits for the loop, not for the worker.
Stop ==
    /\ loop # "stopped"
    /\ loop' = "stopped"
    /\ current' = NoWorker
    /\ UNCHANGED <<log, up, step, at, checkpoint, applied, resets>>

\* Faulty variant: workers outlive the process.
ExitLeavingWorkers ==
    /\ up
    /\ up' = FALSE
    /\ loop' = "stopped"
    /\ current' = NoWorker
    /\ UNCHANGED <<log, step, at, checkpoint, applied, resets>>

\* The process ends, or crashes anywhere: open transactions are lost.
Exit ==
    /\ up
    /\ up' = FALSE
    /\ loop' = "stopped"
    /\ current' = NoWorker
    /\ step' = [w \in Worker |-> "gone"]
    /\ at' = [w \in Worker |-> NoEventPosition]
    /\ UNCHANGED <<log, checkpoint, applied, resets>>

\* server -reset-read-models: one transaction of a process of its own.
ResetReadModels ==
    /\ ~ up \/ OnlineReset
    /\ WriterFree
    /\ resets < MaxResets
    /\ checkpoint' = NoEventPosition
    /\ applied' = {}
    /\ resets' = resets + 1
    /\ UNCHANGED <<log, up, loop, current, step, at>>

WorkerStep(w) ==
    \/ Subscribe(w)
    \/ Receive(w)
    \/ BeginHandle(w) \/ CommitHandle(w)
    \/ NotifyDone(w) \/ NotifyFails(w)
    \/ BeginCheckpoint(w) \/ CommitCheckpoint(w)
    \/ RollBack(w)
    \/ GiveUp(w)
    \/ WorkerEnds(w)

LoopStep ==
    \/ Boot \/ LookupFails \/ DelayOver \/ SubscriptionEnds
    \/ Stop \/ Exit \/ ResetReadModels

Next ==
    \/ \E event \in Event : AppendEvent(event)
    \/ \E w \in Worker : WorkerStep(w)
    \/ LoopStep

\* Go runs every goroutine that can run, every timer fires and every transaction
\* ends; a stopped server exits and is started again.  Lookups, transactions and
\* notifications may fail any number of times, subscriptions end and the process
\* crash, but what is retried for ever succeeds now and then: strong fairness for
\* the steps of the present subscription.
Fairness ==
    /\ WF_vars(Boot) /\ WF_vars(loop = "stopped" /\ Exit) /\ WF_vars(DelayOver)
    /\ WF_vars(\E w \in Worker : WorkerEnds(w))
    /\ WF_vars(\E w \in Worker : CommitHandle(w) \/ CommitCheckpoint(w) \/ RollBack(w))
    /\ SF_vars(\E w \in Worker : Subscribe(w))
    /\ SF_vars(\E w \in Worker : Receive(w))
    /\ SF_vars(\E w \in Worker : BeginHandle(w))
    /\ SF_vars(\E w \in Worker : w = current /\ CommitHandle(w))
    /\ SF_vars(\E w \in Worker : w = current /\ NotifyDone(w))
    /\ SF_vars(\E w \in Worker : BeginCheckpoint(w))
    /\ SF_vars(\E w \in Worker : w = current /\ CommitCheckpoint(w))

Spec == Init /\ [][Next]_vars

FairSpec == Spec /\ Fairness

-------------------------------------------------------------------------------
\* Positions lie in the log; only a running process has workers, and the current
\* one is the worker of the present subscription.
TypeOK ==
    /\ log \in Seq(Event)
    /\ up \in BOOLEAN
    /\ loop \in {"lookup", "subscribed", "delay", "stopped"}
    /\ current \in Worker \cup {NoWorker}
    /\ step \in [Worker -> {"gone", "receive", "handle", "handleTx", "notify",
                            "checkpoint", "checkpointTx"}]
    /\ at \in [Worker -> 0..Len(log)]
    /\ checkpoint \in 0..Len(log)
    /\ applied \in SUBSET DOMAIN log
    /\ resets \in Nat
    /\ loop = "subscribed" <=> current # NoWorker
    /\ current # NoWorker => step[current] # "gone"
    /\ ~ up => loop = "stopped" /\ \A w \in Worker : step[w] = "gone"

\* At least once: whatever crashes, fails or is retried, the checkpoint never passes
\* an event the handler subscribes to whose callback has not committed.
NoEventSkipped ==
    \A i \in 1..checkpoint : Wanted(i) => i \in applied

\* In order: the callback of an event commits only when the callbacks of all earlier
\* events have and of no later one has.  The read models depend on it: they store
\* the position of the last event of a row but never compare it.
HandledInOrder ==
    [][\A w \in Worker : CommitHandle(w) =>
          /\ \A i \in 1..(at[w] - 1) : Wanted(i) => i \in applied
          /\ \A i \in applied : ~ After(i, at[w])]_vars

\* Only a reset moves the checkpoint back, a late worker of an old subscription
\* never does.
CheckpointNeverRegresses ==
    [][checkpoint' < checkpoint => ResetReadModels]_vars

\* Every event the handler subscribes to is handled and passed by the checkpoint in
\* the end, and the handler never falls behind for good.
CatchesUp ==
    \A i \in 1..MaxEvents :
        (i \in DOMAIN log /\ Wanted(i)) ~> (checkpoint >= i)

\* The last event whose callback committed.
LastApplied ==
    IF applied = {} THEN NoEventPosition
    ELSE CHOOSE i \in applied : \A j \in applied : ~ After(j, i)

Promise == INSTANCE Delivery WITH delivered <- LastApplied

\* Every callback that commits is one that Delivery allows then, also one that repeats
\* the last event and leaves applied as it is.
CallbacksDeliver ==
    [][\A w \in Worker : CommitHandle(w) => Promise!Deliver(at[w])]_vars

\* Subscriptions, workers, retries and crashes together keep what Delivery states, and
\* that is all the read models and reactions rely on: a callback may be repeated whatever
\* the checkpoint, but not once a later one has committed, nor run ahead of the checkpoint.
ImplementsDelivery == Promise!Spec /\ CallbacksDeliver

===============================================================================
