------------------------------ MODULE ViewStream ------------------------------
(***************************************************************************)
(* The open pages of one session: every tab holds a stream (streamViewStore- *)
(* FatMorph) that lists the table of a read model, puts the list into the   *)
(* view store under the session's key, watches that key and patches the     *)
(* page with what it finds there.  The event handler of the read model      *)
(* publishes a message after each commit, which sends every stream back to  *)
(* the table.  The tabs share the key, so a tab shows what another one put. *)
(*                                                                         *)
(* A list is the number of commits it has seen.  The view store is the NATS *)
(* one, which main.go uses whenever there is a connection.                  *)
(***************************************************************************)
EXTENDS Integers, Sequences

CONSTANTS
    Stream,
    NoList,      \* nothing listed, stored or shown
    Nobody,
    Buffer,      \* values a watcher takes from the bucket ahead of its page (16 in the code)
    MaxCommits,  \* bound: commits to the table
    MaxOpens     \* bound: streams opened

ASSUME ViewStreamBoundAssumption == Buffer \in Nat /\ MaxCommits \in Nat /\ MaxOpens \in Nat
ASSUME NoListAssumption == NoList \notin Nat
ASSUME NobodyAssumption == Nobody \notin Stream

VARIABLES
    table,      \* commits so far
    published,  \* those whose message has been published
    pc,         \* where each stream is
    listed,     \* its last list
    updates,    \* its channel of one notification
    messages,   \* messages on their way to its subscription
    stored,     \* the value in the view store
    writer,     \* the stream that put it; Nobody when that has closed and left it behind
    watched,    \* per stream, the values its watcher has yet to hand over
    shown,      \* the list on its page
    opens       \* streams opened so far

tableVars == <<table, published>>
storeVars == <<stored, writer>>
vars == <<tableVars, pc, listed, updates, messages, storeVars, watched, shown, opens>>

List == 0..MaxCommits \cup {NoList}

\* The streams that have a watcher, and those that are subscribed.
Watching == {s \in Stream : pc[s] \in {"subscribe", "loop", "refresh list", "refresh put"}}
Subscribed == {s \in Stream : pc[s] \in {"loop", "refresh list", "refresh put"}}

Init ==
    /\ table = 0 /\ published = 0
    /\ pc = [s \in Stream |-> "closed"]
    /\ listed = [s \in Stream |-> NoList]
    /\ updates = [s \in Stream |-> FALSE]
    /\ messages = [s \in Stream |-> 0]
    /\ stored = NoList /\ writer = Nobody
    /\ watched = [s \in Stream |-> << >>]
    /\ shown = [s \in Stream |-> NoList]
    /\ opens = 0

\* One event of the read model at a time: its transaction, then its message.
Commit ==
    /\ table < MaxCommits
    /\ published = table
    /\ table' = table + 1
    /\ UNCHANGED <<published, pc, listed, updates, messages, storeVars, watched, shown, opens>>

Publish ==
    /\ published < table
    /\ published' = table
    /\ messages' = [s \in Stream |-> messages[s] + (IF s \in Subscribed THEN 1 ELSE 0)]
    /\ UNCHANGED <<table, pc, listed, updates, storeVars, watched, shown, opens>>

\* notifyOnce, called by the subscription: a notification that waits already is enough.
Notify(s) ==
    /\ messages[s] > 0
    /\ messages' = [messages EXCEPT ![s] = @ - 1]
    /\ updates' = [updates EXCEPT ![s] = TRUE]
    /\ UNCHANGED <<tableVars, pc, listed, storeVars, watched, shown, opens>>

Go(s, from, to) == pc[s] = from /\ pc' = [pc EXCEPT ![s] = to]

Open(s) ==
    /\ opens < MaxOpens
    /\ Go(s, "closed", "list")
    /\ opens' = opens + 1
    /\ UNCHANGED <<tableVars, listed, updates, messages, storeVars, watched, shown>>

\* Refresh, first half: before the watch and after a notification.
ListTable(s) ==
    /\ Go(s, "list", "put") \/ Go(s, "refresh list", "refresh put")
    /\ listed' = [listed EXCEPT ![s] = table]
    /\ UNCHANGED <<tableVars, updates, messages, storeVars, watched, shown, opens>>

\* Faulty variant, and what the memory store does, which runs only without a connection:
\* a value that finds the buffer full is dropped.
OfferIfRoom(queue, list) == IF Len(queue) > Buffer THEN queue ELSE Append(queue, list)

\* The bucket keeps one value: one that the watcher has not taken yet is replaced.
Offer(queue, list) ==
    Append(IF Len(queue) > Buffer THEN SubSeq(queue, 1, Buffer) ELSE queue, list)

PutState(s) ==
    /\ stored' = listed[s]
    /\ writer' = s
    /\ watched' = [other \in Stream |->
         IF other \in Watching THEN Offer(watched[other], listed[s]) ELSE watched[other]]

\* Refresh, second half.
FirstPut(s) ==
    /\ Go(s, "put", "watch")
    /\ PutState(s)
    /\ UNCHANGED <<tableVars, listed, updates, messages, shown, opens>>

\* Faulty variant: the notification is taken back after the refresh it caused.
RefreshPutAndForget(s) ==
    /\ Go(s, "refresh put", "loop")
    /\ PutState(s)
    /\ updates' = [updates EXCEPT ![s] = FALSE]
    /\ UNCHANGED <<tableVars, listed, messages, shown, opens>>

RefreshPut(s) ==
    /\ Go(s, "refresh put", "loop")
    /\ PutState(s)
    /\ UNCHANGED <<tableVars, listed, updates, messages, shown, opens>>

\* The watcher starts with the value that is there.
Watch(s) ==
    /\ Go(s, "watch", "subscribe")
    /\ watched' = [watched EXCEPT ![s] = <<stored>>]
    /\ UNCHANGED <<tableVars, listed, updates, messages, storeVars, shown, opens>>

\* Faulty variant: what was committed before the subscription is not looked for.
SubscribeOnly(s) ==
    /\ Go(s, "subscribe", "loop")
    /\ UNCHANGED <<tableVars, listed, updates, messages, storeVars, watched, shown, opens>>

Subscribe(s) ==
    /\ Go(s, "subscribe", "loop")
    /\ updates' = [updates EXCEPT ![s] = TRUE]
    /\ UNCHANGED <<tableVars, listed, messages, storeVars, watched, shown, opens>>

Refresh(s) ==
    /\ updates[s]
    /\ Go(s, "loop", "refresh list")
    /\ updates' = [updates EXCEPT ![s] = FALSE]
    /\ UNCHANGED <<tableVars, listed, messages, storeVars, watched, shown, opens>>

Patch(s) ==
    /\ pc[s] = "loop"
    /\ watched[s] # << >>
    /\ shown' = [shown EXCEPT ![s] = Head(watched[s])]
    /\ watched' = [watched EXCEPT ![s] = Tail(@)]
    /\ UNCHANGED <<tableVars, pc, listed, updates, messages, storeVars, opens>>

\* Faulty variant: the subscription outlives its stream.
CloseStreamOnly(s) ==
    /\ pc[s] # "closed"
    /\ pc' = [pc EXCEPT ![s] = "closed"]
    /\ writer' = IF writer = s THEN Nobody ELSE writer
    /\ watched' = [watched EXCEPT ![s] = << >>]
    /\ UNCHANGED <<tableVars, listed, updates, messages, stored, shown, opens>>

\* The tab goes away, or a call fails and the stream ends; its watcher and its
\* subscription end with it.  The value it put stays.
Close(s) ==
    /\ pc[s] # "closed"
    /\ pc' = [pc EXCEPT ![s] = "closed"]
    /\ listed' = [listed EXCEPT ![s] = NoList]
    /\ updates' = [updates EXCEPT ![s] = FALSE]
    /\ messages' = [messages EXCEPT ![s] = 0]
    /\ watched' = [watched EXCEPT ![s] = << >>]
    /\ shown' = [shown EXCEPT ![s] = NoList]
    /\ writer' = IF writer = s THEN Nobody ELSE writer
    /\ UNCHANGED <<tableVars, stored, opens>>

StreamStep(s) ==
    \/ ListTable(s) \/ FirstPut(s) \/ Watch(s) \/ Subscribe(s)
    \/ Refresh(s) \/ RefreshPut(s) \/ Patch(s)

Next ==
    \/ Commit
    \/ Publish
    \/ \E s \in Stream : Open(s) \/ Notify(s) \/ StreamStep(s) \/ Close(s)

\* The goroutine of a stream, the subscriptions and the event handler keep running;
\* nobody has to commit, to open or to close.  select chooses at random among what is
\* ready, so neither a refresh nor a patch waits for ever.
Fairness ==
    /\ WF_vars(Publish)
    /\ \A s \in Stream :
         /\ WF_vars(Notify(s))
         /\ WF_vars(ListTable(s) \/ FirstPut(s) \/ Watch(s) \/ Subscribe(s) \/ RefreshPut(s))
         /\ WF_vars(Refresh(s))
         /\ WF_vars(Patch(s))

Spec == Init /\ [][Next]_vars /\ Fairness

-------------------------------------------------------------------------------
\* A message is on its way only to a subscriber, what a watcher has yet to hand over ends
\* with the value in the store, and the store has a value as soon as someone put one.
TypeOK ==
    /\ table \in 0..MaxCommits /\ published \in {table - 1, table}
    /\ \A s \in Stream :
         /\ listed[s] \in List /\ shown[s] \in List
         /\ messages[s] \in 0..MaxCommits
         /\ messages[s] > 0 \/ updates[s] => s \in Subscribed
         /\ watched[s] \in Seq(0..MaxCommits) /\ Len(watched[s]) <= Buffer + 1
         /\ watched[s] # << >> => watched[s][Len(watched[s])] = stored
    /\ stored \in List
    /\ writer # Nobody => writer \in Stream /\ pc[writer] # "closed" /\ stored # NoList
    /\ opens \in 0..MaxOpens

\* A stream with nothing left to do has seen every commit: no message falls between its
\* list and its subscription, or between two refreshes.
NoCommitMissed ==
    \A s \in Stream :
        pc[s] = "loop" /\ ~ updates[s] /\ messages[s] = 0 /\ published = table
        => listed[s] = table

\* All pages of the session end up with what the view store has.
PagesAgree ==
    <>[](\A s \in Stream : pc[s] # "closed" => shown[s] = stored)

\* When the table rests and no tab opens or closes any more, every page shows the table,
\* although a tab may put an older list over a newer one: it will refresh itself.  Unless
\* it closes first: then the older list stays until the next commit.
PageBecomesCurrent ==
    <>[](\A s \in Stream : pc[s] # "closed" /\ writer # Nobody => shown[s] = table)

===============================================================================
