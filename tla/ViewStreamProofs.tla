--------------------------- MODULE ViewStreamProofs ---------------------------
(***************************************************************************)
(* ViewStream for any number of streams, any buffer and any bound: types,   *)
(* and that no commit falls between the calls of a stream.                  *)
(***************************************************************************)
EXTENDS ViewStream, TLAPS

Place == {"closed", "list", "put", "watch", "subscribe", "loop", "refresh list", "refresh put"}

Typed ==
    /\ table \in 0..MaxCommits
    /\ published \in {table - 1, table} /\ published \in Nat
    /\ pc \in [Stream -> Place]
    /\ listed \in [Stream -> List]
    /\ updates \in [Stream -> BOOLEAN]
    /\ messages \in [Stream -> Nat]
    /\ stored \in List
    /\ writer \in Stream \cup {Nobody}
    /\ watched \in [Stream -> Seq(0..MaxCommits)]
    /\ shown \in [Stream -> List]
    /\ opens \in 0..MaxOpens

\* A stream has a list from its first one on, and put it before it watches.
Lists(s) ==
    /\ pc[s] \notin {"closed", "list"} => listed[s] \in 0..table
    /\ pc[s] \notin {"closed", "list", "put"} => stored \in 0..MaxCommits

\* Only a subscriber is told anything, at most once per message published.
Told(s) ==
    /\ messages[s] <= published
    /\ messages[s] > 0 \/ updates[s] => s \in Subscribed

\* What a watcher has yet to hand over ends with the stored value.
EndsWithStored(queue) ==
    /\ Len(queue) <= Buffer + 1
    /\ queue # << >> => queue[Len(queue)] = stored

Watches(s) ==
    /\ s \notin Watching => watched[s] = << >>
    /\ EndsWithStored(watched[s])

\* A stream that nothing will send back to the table has listed every published commit.
Current(s) ==
    pc[s] \in {"loop", "refresh put"} /\ ~ updates[s] /\ messages[s] = 0
    => published <= listed[s]

WriterOpen == writer # Nobody => pc[writer] # "closed" /\ stored # NoList

IInv ==
    /\ Typed
    /\ \A s \in Stream : Lists(s) /\ Told(s) /\ Watches(s) /\ Current(s)
    /\ WriterOpen

-------------------------------------------------------------------------------
(* The queue of a watcher.                                                  *)

\* What Offer leaves ends with the value offered and fits.
LEMMA OfferFits ==
    ASSUME NEW queue \in Seq(0..MaxCommits), NEW list \in 0..MaxCommits,
           Len(queue) <= Buffer + 1
    PROVE  /\ Offer(queue, list) \in Seq(0..MaxCommits)
           /\ Len(Offer(queue, list)) <= Buffer + 1
           /\ Offer(queue, list)[Len(Offer(queue, list))] = list
<1> USE ViewStreamBoundAssumption
<1> DEFINE kept == IF Len(queue) > Buffer THEN SubSeq(queue, 1, Buffer) ELSE queue
<1>1. kept \in Seq(0..MaxCommits) /\ Len(kept) <= Buffer
  <2>1. CASE Len(queue) > Buffer
    <3>1. SubSeq(queue, 1, Buffer) \in Seq(0..MaxCommits)
      BY <2>1
    <3>2. Len(SubSeq(queue, 1, Buffer)) = Buffer
      BY <2>1
    <3> QED BY <2>1, <3>1, <3>2
  <2>2. CASE ~ (Len(queue) > Buffer)
    BY <2>2
  <2> QED BY <2>1, <2>2
<1>2. Append(kept, list) \in Seq(0..MaxCommits)
  BY <1>1
<1>3. Len(Append(kept, list)) = Len(kept) + 1
  BY <1>1
<1>4. Append(kept, list)[Len(kept) + 1] = list
  BY <1>1
<1> HIDE DEF kept
<1>5. Len(kept) \in Nat
  BY <1>1
<1> QED BY <1>1, <1>2, <1>3, <1>4, <1>5 DEF Offer, kept

\* What is left after the first value still ends with the same one.
LEMMA TailEnds ==
    ASSUME NEW queue \in Seq(0..MaxCommits), queue # << >>, EndsWithStored(queue)
    PROVE  Tail(queue) \in Seq(0..MaxCommits) /\ EndsWithStored(Tail(queue))
<1>1. Tail(queue) \in Seq(0..MaxCommits) /\ Len(Tail(queue)) = Len(queue) - 1
  OBVIOUS
<1>2. ASSUME Tail(queue) # << >>
      PROVE  Tail(queue)[Len(Tail(queue))] = queue[Len(queue)]
  <2>1. Len(Tail(queue)) \in Nat \ {0}
    BY <1>1, <1>2
  <2> QED BY <1>1, <2>1
<1> QED BY <1>1, <1>2, ViewStreamBoundAssumption DEF EndsWithStored

-------------------------------------------------------------------------------
\* The strengthened invariant holds at the start: no stream is open.
LEMMA InitInv == Init => IInv
<1> SUFFICES ASSUME Init PROVE IInv
  OBVIOUS
<1> USE ViewStreamBoundAssumption
<1>1. Typed
  BY DEF Init, Typed, Place, List
<1>2. ASSUME NEW s \in Stream PROVE Lists(s) /\ Told(s) /\ Watches(s) /\ Current(s)
  <2>1. Watches(s)
    BY DEF Init, Watches, EndsWithStored
  <2> QED BY <2>1 DEF Init, Lists, Told, Current
<1>3. WriterOpen
  BY DEF Init, WriterOpen
<1> QED BY <1>1, <1>2, <1>3 DEF IInv
-------------------------------------------------------------------------------
(* Every action keeps the strengthened invariant.                           *)

\* A commit moves the table only: every list stays at most the table.
LEMMA CommitKeeps == ASSUME IInv, Commit PROVE IInv'
<1>i. Typed /\ WriterOpen
      /\ \A q \in Stream : Lists(q) /\ Told(q) /\ Watches(q) /\ Current(q)
  BY DEF IInv
<1>a. table \in Nat /\ table' = table + 1 /\ table' \in 0..MaxCommits /\ published = table
  BY <1>i, ViewStreamBoundAssumption DEF Typed, Commit
<1>1. Typed'
  BY <1>a, <1>i, ViewStreamBoundAssumption DEF Typed, Commit, tableVars, storeVars
<1>2. ASSUME NEW q \in Stream PROVE Lists(q)' /\ Told(q)' /\ Watches(q)' /\ Current(q)'
  <2>i. Lists(q) /\ Told(q) /\ Watches(q) /\ Current(q)
    BY <1>i
  <2>t. Typed
    BY <1>i
  <2>1. Lists(q)'
    BY <1>a, <2>i, <2>t, ViewStreamBoundAssumption DEF Typed, Lists, Commit, tableVars, storeVars
  <2>2. Told(q)'
    <3>1. (messages[q] <= published)'
      BY <1>a, <2>i, <2>t, ViewStreamBoundAssumption DEF Typed, Told, Commit, tableVars, storeVars
    <3>2. (messages[q] > 0 => q \in Subscribed)'
      BY <1>a, <2>i, <2>t DEF Typed, Told, Subscribed, Commit, tableVars, storeVars
    <3>3. (updates[q] => q \in Subscribed)'
      BY <1>a, <2>i, <2>t DEF Typed, Told, Subscribed, Commit, tableVars, storeVars
    <3> QED BY <3>1, <3>2, <3>3 DEF Told
  <2>3. Watches(q)'
    BY <1>a, <2>i, <2>t, ViewStreamBoundAssumption DEF Typed, Lists, Watches, EndsWithStored, Watching, Commit, tableVars, storeVars
  <2>4. Current(q)'
    BY <1>a, <2>i, <2>t, ViewStreamBoundAssumption DEF Typed, Lists, Told, Current, Subscribed, Commit, tableVars, storeVars
  <2> QED BY <2>1, <2>2, <2>3, <2>4
<1>3. WriterOpen'
  BY <1>a, <1>i, NoListAssumption, NobodyAssumption DEF Typed, Lists, WriterOpen, Commit, tableVars, storeVars
<1> QED BY <1>1, <1>2, <1>3 DEF IInv

\* The message reaches every subscriber, so none of them rests any more.
LEMMA PublishKeeps == ASSUME IInv, Publish PROVE IInv'
<1>i. Typed /\ WriterOpen
      /\ \A q \in Stream : Lists(q) /\ Told(q) /\ Watches(q) /\ Current(q)
  BY DEF IInv
<1>a. table \in Nat /\ published = table - 1 /\ published' = published + 1 /\ published' = table
  BY <1>i, ViewStreamBoundAssumption DEF Typed, Publish
<1>b. ASSUME NEW q \in Stream
      PROVE  /\ messages[q] \in Nat
             /\ q \in Subscribed => messages'[q] = messages[q] + 1
             /\ q \notin Subscribed => messages'[q] = 0 /\ messages[q] = 0
  <2>1. messages[q] \in Nat /\ Told(q)
    BY <1>i DEF Typed
  <2>2. messages'[q] = messages[q] + (IF q \in Subscribed THEN 1 ELSE 0)
    BY DEF Publish
  <2> QED BY <2>1, <2>2 DEF Told
<1>c. Subscribed' = Subscribed
  BY DEF Subscribed, Publish
<1>1. Typed'
  BY <1>a, <1>b, <1>i, ViewStreamBoundAssumption DEF Typed, Publish, tableVars, storeVars
<1>2. ASSUME NEW q \in Stream PROVE Lists(q)' /\ Told(q)' /\ Watches(q)' /\ Current(q)'
  <2>i. Lists(q) /\ Told(q) /\ Watches(q) /\ Current(q)
    BY <1>i
  <2>t. Typed
    BY <1>i
  <2>1. Lists(q)'
    BY <1>a, <1>b, <2>i, <2>t, ViewStreamBoundAssumption DEF Typed, Lists, Publish, tableVars, storeVars
  <2>2. Told(q)'
    <3>1. (messages[q] <= published)'
      BY <1>a, <1>b, <2>i, <2>t, ViewStreamBoundAssumption DEF Typed, Told, Publish, tableVars, storeVars
    <3>2. (messages[q] > 0 => q \in Subscribed)'
      BY <1>b, <1>c
    <3>3. (updates[q] => q \in Subscribed)'
      BY <1>a, <1>b, <2>i, <2>t DEF Typed, Told, Subscribed, Publish, tableVars, storeVars
    <3> QED BY <3>1, <3>2, <3>3 DEF Told
  <2>3. Watches(q)'
    BY <1>a, <1>b, <2>i, <2>t, ViewStreamBoundAssumption DEF Typed, Lists, Watches, EndsWithStored, Watching, Publish, tableVars, storeVars
  <2>4. Current(q)'
    <3>1. CASE q \in Subscribed
      <4>1. messages'[q] # 0
        BY <1>b, <3>1
      <4> QED BY <4>1 DEF Current
    <3>2. CASE q \notin Subscribed
      <4>1. pc'[q] = "refresh put" \/ pc'[q] = "loop" => q \in Subscribed
        BY <1>c DEF Subscribed
      <4> QED BY <3>2, <4>1 DEF Current
    <3> QED BY <3>1, <3>2
  <2> QED BY <2>1, <2>2, <2>3, <2>4
<1>3. WriterOpen'
  BY <1>a, <1>b, <1>i, NoListAssumption, NobodyAssumption DEF Typed, Lists, WriterOpen, Publish, tableVars, storeVars
<1> QED BY <1>1, <1>2, <1>3 DEF IInv

\* A message becomes a notification.
LEMMA NotifyKeeps == ASSUME IInv, NEW s \in Stream, Notify(s) PROVE IInv'
<1>i. Typed /\ WriterOpen
      /\ \A q \in Stream : Lists(q) /\ Told(q) /\ Watches(q) /\ Current(q)
  BY DEF IInv
<1>1. Typed'
  BY <1>i, ViewStreamBoundAssumption DEF Typed, Notify, tableVars, storeVars
<1>2. ASSUME NEW q \in Stream PROVE Lists(q)' /\ Told(q)' /\ Watches(q)' /\ Current(q)'
  <2>i. Lists(q) /\ Told(q) /\ Watches(q) /\ Current(q)
    BY <1>i
  <2>t. Typed
    BY <1>i
  <2>1. Lists(q)'
    BY <2>i, <2>t, ViewStreamBoundAssumption DEF Typed, Lists, Notify, tableVars, storeVars
  <2>2. Told(q)'
    <3>1. (messages[q] <= published)'
      BY <2>i, <2>t, ViewStreamBoundAssumption DEF Typed, Told, Notify, tableVars, storeVars
    <3>2. (messages[q] > 0 => q \in Subscribed)'
      BY <2>i, <2>t DEF Typed, Told, Subscribed, Notify, tableVars, storeVars
    <3>3. (updates[q] => q \in Subscribed)'
      BY <2>i, <2>t DEF Typed, Told, Subscribed, Notify, tableVars, storeVars
    <3> QED BY <3>1, <3>2, <3>3 DEF Told
  <2>3. Watches(q)'
    BY <2>i, <2>t, ViewStreamBoundAssumption DEF Typed, Lists, Watches, EndsWithStored, Watching, Notify, tableVars, storeVars
  <2>4. Current(q)'
    BY <2>i, <2>t, ViewStreamBoundAssumption DEF Typed, Lists, Told, Current, Subscribed, Notify, tableVars, storeVars
  <2> QED BY <2>1, <2>2, <2>3, <2>4
<1>3. WriterOpen'
  BY <1>i, NoListAssumption, NobodyAssumption DEF Typed, Lists, WriterOpen, Notify, tableVars, storeVars
<1> QED BY <1>1, <1>2, <1>3 DEF IInv

\* A new stream has nothing yet.
LEMMA OpenKeeps == ASSUME IInv, NEW s \in Stream, Open(s) PROVE IInv'
<1>i. Typed /\ WriterOpen
      /\ \A q \in Stream : Lists(q) /\ Told(q) /\ Watches(q) /\ Current(q)
  BY DEF IInv
<1>1. Typed'
  <2>1. opens' \in 0..MaxOpens
    BY <1>i, ViewStreamBoundAssumption DEF Typed, Open
  <2>2. pc' \in [Stream -> Place]
    BY <1>i DEF Typed, Place, Open, Go
  <2> QED BY <1>i, <2>1, <2>2 DEF Typed, Open, tableVars, storeVars
<1>2. ASSUME NEW q \in Stream PROVE Lists(q)' /\ Told(q)' /\ Watches(q)' /\ Current(q)'
  <2>i. Lists(q) /\ Told(q) /\ Watches(q) /\ Current(q)
    BY <1>i
  <2>t. Typed
    BY <1>i
  <2>1. Lists(q)'
    BY <2>i, <2>t, ViewStreamBoundAssumption DEF Typed, Lists, Open, Go, tableVars, storeVars
  <2>2. Told(q)'
    <3>1. (messages[q] <= published)'
      BY <2>i, <2>t, ViewStreamBoundAssumption DEF Typed, Told, Open, Go, tableVars, storeVars
    <3>2. (messages[q] > 0 => q \in Subscribed)'
      BY <2>i, <2>t DEF Typed, Told, Subscribed, Open, Go, tableVars, storeVars
    <3>3. (updates[q] => q \in Subscribed)'
      BY <2>i, <2>t DEF Typed, Told, Subscribed, Open, Go, tableVars, storeVars
    <3> QED BY <3>1, <3>2, <3>3 DEF Told
  <2>3. Watches(q)'
    BY <2>i, <2>t, ViewStreamBoundAssumption DEF Typed, Lists, Watches, EndsWithStored, Watching, Open, Go, tableVars, storeVars
  <2>4. Current(q)'
    BY <2>i, <2>t, ViewStreamBoundAssumption DEF Typed, Lists, Told, Current, Subscribed, Open, Go, tableVars, storeVars
  <2> QED BY <2>1, <2>2, <2>3, <2>4
<1>3. WriterOpen'
  BY <1>i, NoListAssumption, NobodyAssumption DEF Typed, Lists, WriterOpen, Open, Go, tableVars, storeVars
<1> QED BY <1>1, <1>2, <1>3 DEF IInv

\* The new list is the table, which is ahead of what is published.
LEMMA ListTableKeeps == ASSUME IInv, NEW s \in Stream, ListTable(s) PROVE IInv'
<1>i. Typed /\ WriterOpen
      /\ \A q \in Stream : Lists(q) /\ Told(q) /\ Watches(q) /\ Current(q)
  BY DEF IInv
<1>a. table \in Nat /\ published \in Nat /\ published <= table
  BY <1>i, ViewStreamBoundAssumption DEF Typed
<1>b. ASSUME NEW q \in Stream
      PROVE  /\ listed'[q] = IF q = s THEN table ELSE listed[q]
             /\ q # s => pc'[q] = pc[q]
             /\ pc[s] = "list" => pc'[s] = "put"
             /\ pc[s] # "list" => pc'[s] = "refresh put" /\ pc[s] = "refresh list"
  BY <1>i DEF Typed, ListTable, Go
<1>c. UNCHANGED <<table, published, stored, updates, messages>>
  BY DEF ListTable, tableVars, storeVars
<1>1. Typed'
  BY <1>i, ViewStreamBoundAssumption DEF Typed, List, Place, ListTable, Go, tableVars, storeVars
<1>2. ASSUME NEW q \in Stream PROVE Lists(q)' /\ Told(q)' /\ Watches(q)' /\ Current(q)'
  <2>i. Lists(q) /\ Told(q) /\ Watches(q) /\ Current(q)
    BY <1>i
  <2>t. Typed
    BY <1>i
  <2>1. Lists(q)'
    <3>1. CASE q = s
      <4>1. listed'[q] \in 0..table'
        <5>1. listed'[q] = table
          BY <1>b, <3>1
        <5>2. table \in 0..table /\ table' = table
          BY <1>a, <1>c
        <5> QED BY <5>1, <5>2
      <4>2. pc'[q] # "put" => stored' \in 0..MaxCommits
        BY <1>b, <1>c, <2>i, <3>1 DEF Lists
      <4> QED BY <1>b, <3>1, <4>1, <4>2 DEF Lists
    <3>2. CASE q # s
      BY <1>b, <1>c, <2>i, <3>2 DEF Lists
    <3> QED BY <3>1, <3>2
  <2>2. Told(q)'
    <3>1. (messages[q] <= published)'
      BY <2>i, <2>t, ViewStreamBoundAssumption DEF Typed, Told, ListTable, Go, tableVars, storeVars
    <3>2. (messages[q] > 0 => q \in Subscribed)'
      BY <2>i, <2>t DEF Typed, Told, Subscribed, ListTable, Go, tableVars, storeVars
    <3>3. (updates[q] => q \in Subscribed)'
      BY <2>i, <2>t DEF Typed, Told, Subscribed, ListTable, Go, tableVars, storeVars
    <3> QED BY <3>1, <3>2, <3>3 DEF Told
  <2>3. Watches(q)'
    BY <2>i, <2>t, ViewStreamBoundAssumption DEF Typed, Lists, Watches, EndsWithStored, Watching, ListTable, Go, tableVars, storeVars
  <2>4. Current(q)'
    <3>1. CASE q = s
      BY <1>a, <1>b, <1>c, <3>1 DEF Current
    <3>2. CASE q # s
      BY <1>b, <1>c, <2>i, <3>2 DEF Current
    <3> QED BY <3>1, <3>2
  <2> QED BY <2>1, <2>2, <2>3, <2>4
<1>3. WriterOpen'
  BY <1>i, NoListAssumption, NobodyAssumption DEF Typed, Lists, WriterOpen, ListTable, Go, tableVars, storeVars
<1> QED BY <1>1, <1>2, <1>3 DEF IInv

\* The first put ends every watcher's queue with the new value.
LEMMA FirstPutKeeps == ASSUME IInv, NEW s \in Stream, FirstPut(s) PROVE IInv'
<1>i. Typed /\ WriterOpen
      /\ \A q \in Stream : Lists(q) /\ Told(q) /\ Watches(q) /\ Current(q)
  BY DEF IInv
<1>a. listed[s] \in 0..table /\ listed[s] \in 0..MaxCommits
  <2>1. pc[s] \notin {"closed", "list"}
    BY DEF FirstPut, Go
  <2>2. listed[s] \in 0..table
    BY <1>i, <2>1 DEF Lists
  <2> QED BY <1>i, <2>2, ViewStreamBoundAssumption DEF Typed
<1>b. ASSUME NEW q \in Stream
      PROVE  /\ Offer(watched[q], listed[s]) \in Seq(0..MaxCommits)
             /\ Len(Offer(watched[q], listed[s])) <= Buffer + 1
             /\ Offer(watched[q], listed[s])[Len(Offer(watched[q], listed[s]))] = listed[s]
  BY <1>a, <1>i, OfferFits DEF Typed, Watches, EndsWithStored
<1>1. Typed'
  BY <1>a, <1>b, <1>i, ViewStreamBoundAssumption DEF Typed, List, Place, FirstPut, Go, PutState, tableVars, storeVars
<1>2. ASSUME NEW q \in Stream PROVE Lists(q)' /\ Told(q)' /\ Watches(q)' /\ Current(q)'
  <2>i. Lists(q) /\ Told(q) /\ Watches(q) /\ Current(q)
    BY <1>i
  <2>t. Typed
    BY <1>i
  <2>1. Lists(q)'
    BY <1>a, <1>b, <2>i, <2>t, ViewStreamBoundAssumption DEF Typed, Lists, FirstPut, Go, PutState, tableVars, storeVars
  <2>2. Told(q)'
    <3>1. (messages[q] <= published)'
      BY <1>a, <1>b, <2>i, <2>t, ViewStreamBoundAssumption DEF Typed, Told, FirstPut, Go, PutState, tableVars, storeVars
    <3>2. (messages[q] > 0 => q \in Subscribed)'
      BY <1>a, <1>b, <2>i, <2>t DEF Typed, Told, Subscribed, FirstPut, Go, PutState, tableVars, storeVars
    <3>3. (updates[q] => q \in Subscribed)'
      BY <1>a, <1>b, <2>i, <2>t DEF Typed, Told, Subscribed, FirstPut, Go, PutState, tableVars, storeVars
    <3> QED BY <3>1, <3>2, <3>3 DEF Told
  <2>3. Watches(q)'
    BY <1>a, <1>b, <2>i, <2>t, ViewStreamBoundAssumption DEF Typed, Lists, Watches, EndsWithStored, Watching, FirstPut, Go, PutState, tableVars, storeVars
  <2>4. Current(q)'
    BY <1>a, <1>b, <2>i, <2>t, ViewStreamBoundAssumption DEF Typed, Lists, Told, Current, Subscribed, FirstPut, Go, PutState, tableVars, storeVars
  <2> QED BY <2>1, <2>2, <2>3, <2>4
<1>3. WriterOpen'
  BY <1>a, <1>b, <1>i, NoListAssumption, NobodyAssumption DEF Typed, Lists, WriterOpen, FirstPut, Go, PutState, tableVars, storeVars
<1> QED BY <1>1, <1>2, <1>3 DEF IInv

\* So does the put of a refresh; the stream rests on the list it put.
LEMMA RefreshPutKeeps == ASSUME IInv, NEW s \in Stream, RefreshPut(s) PROVE IInv'
<1>i. Typed /\ WriterOpen
      /\ \A q \in Stream : Lists(q) /\ Told(q) /\ Watches(q) /\ Current(q)
  BY DEF IInv
<1>a. listed[s] \in 0..table /\ listed[s] \in 0..MaxCommits
  <2>1. pc[s] \notin {"closed", "list"}
    BY DEF RefreshPut, Go
  <2>2. listed[s] \in 0..table
    BY <1>i, <2>1 DEF Lists
  <2> QED BY <1>i, <2>2, ViewStreamBoundAssumption DEF Typed
<1>b. ASSUME NEW q \in Stream
      PROVE  /\ Offer(watched[q], listed[s]) \in Seq(0..MaxCommits)
             /\ Len(Offer(watched[q], listed[s])) <= Buffer + 1
             /\ Offer(watched[q], listed[s])[Len(Offer(watched[q], listed[s]))] = listed[s]
  BY <1>a, <1>i, OfferFits DEF Typed, Watches, EndsWithStored
<1>1. Typed'
  BY <1>a, <1>b, <1>i, ViewStreamBoundAssumption DEF Typed, List, Place, RefreshPut, Go, PutState, tableVars, storeVars
<1>2. ASSUME NEW q \in Stream PROVE Lists(q)' /\ Told(q)' /\ Watches(q)' /\ Current(q)'
  <2>i. Lists(q) /\ Told(q) /\ Watches(q) /\ Current(q)
    BY <1>i
  <2>t. Typed
    BY <1>i
  <2>1. Lists(q)'
    BY <1>a, <1>b, <2>i, <2>t, ViewStreamBoundAssumption DEF Typed, Lists, RefreshPut, Go, PutState, tableVars, storeVars
  <2>2. Told(q)'
    <3>1. (messages[q] <= published)'
      BY <1>a, <1>b, <2>i, <2>t, ViewStreamBoundAssumption DEF Typed, Told, RefreshPut, Go, PutState, tableVars, storeVars
    <3>2. (messages[q] > 0 => q \in Subscribed)'
      BY <1>a, <1>b, <2>i, <2>t DEF Typed, Told, Subscribed, RefreshPut, Go, PutState, tableVars, storeVars
    <3>3. (updates[q] => q \in Subscribed)'
      BY <1>a, <1>b, <2>i, <2>t DEF Typed, Told, Subscribed, RefreshPut, Go, PutState, tableVars, storeVars
    <3> QED BY <3>1, <3>2, <3>3 DEF Told
  <2>3. Watches(q)'
    BY <1>a, <1>b, <2>i, <2>t, ViewStreamBoundAssumption DEF Typed, Lists, Watches, EndsWithStored, Watching, RefreshPut, Go, PutState, tableVars, storeVars
  <2>4. Current(q)'
    BY <1>a, <1>b, <2>i, <2>t, ViewStreamBoundAssumption DEF Typed, Lists, Told, Current, Subscribed, RefreshPut, Go, PutState, tableVars, storeVars
  <2> QED BY <2>1, <2>2, <2>3, <2>4
<1>3. WriterOpen'
  <2>1. writer' = s /\ pc'[s] = "loop" /\ stored' = listed[s]
    BY <1>i DEF Typed, RefreshPut, Go, PutState
  <2>2. listed[s] # NoList
    BY <1>a, NoListAssumption, ViewStreamBoundAssumption
  <2> QED BY <2>1, <2>2 DEF WriterOpen
<1> QED BY <1>1, <1>2, <1>3 DEF IInv

\* The watcher starts with the stored value, which somebody has put.
LEMMA WatchKeeps == ASSUME IInv, NEW s \in Stream, Watch(s) PROVE IInv'
<1>i. Typed /\ WriterOpen
      /\ \A q \in Stream : Lists(q) /\ Told(q) /\ Watches(q) /\ Current(q)
  BY DEF IInv
<1>a. stored \in 0..MaxCommits
  BY <1>i DEF Lists, Watch, Go
<1>b. <<stored>> \in Seq(0..MaxCommits) /\ Len(<<stored>>) = 1 /\ <<stored>>[1] = stored
  BY <1>a
<1>c. watched' = [watched EXCEPT ![s] = <<stored>>] /\ stored' = stored
  BY DEF Watch, storeVars
<1>d. pc' \in [Stream -> Place] /\ pc'[s] = "subscribe"
      /\ \A q \in Stream : q # s => pc'[q] = pc[q]
  BY <1>i DEF Typed, Place, Watch, Go
<1>1. Typed'
  <2>1. watched' \in [Stream -> Seq(0..MaxCommits)]
    BY <1>b, <1>c, <1>i DEF Typed
  <2> QED BY <1>d, <1>i, <2>1 DEF Typed, Watch, tableVars, storeVars
<1>2. ASSUME NEW q \in Stream PROVE Lists(q)' /\ Told(q)' /\ Watches(q)' /\ Current(q)'
  <2>i. Lists(q) /\ Told(q) /\ Watches(q) /\ Current(q)
    BY <1>i
  <2>t. Typed
    BY <1>i
  <2>1. Lists(q)'
    BY <2>i, <2>t, ViewStreamBoundAssumption DEF Typed, Lists, Watch, Go, tableVars, storeVars
  <2>2. Told(q)'
    <3>1. (messages[q] <= published)'
      BY <2>i, <2>t, ViewStreamBoundAssumption DEF Typed, Told, Watch, Go, tableVars, storeVars
    <3>2. (messages[q] > 0 => q \in Subscribed)'
      BY <2>i, <2>t DEF Typed, Told, Subscribed, Watch, Go, tableVars, storeVars
    <3>3. (updates[q] => q \in Subscribed)'
      BY <2>i, <2>t DEF Typed, Told, Subscribed, Watch, Go, tableVars, storeVars
    <3> QED BY <3>1, <3>2, <3>3 DEF Told
  <2>3. Watches(q)'
    <3>1. CASE q = s
      <4>1. watched'[q] = <<stored>> /\ q \in Watching'
        BY <1>c, <1>d, <2>t, <3>1 DEF Typed, Watching
      <4>2. Len(watched'[q]) = 1 /\ watched'[q][1] = stored'
        BY <1>b, <1>c, <4>1
      <4>3. 1 <= Buffer + 1
        BY ViewStreamBoundAssumption
      <4>4. EndsWithStored(watched[q])'
        BY <4>2, <4>3 DEF EndsWithStored
      <4> QED BY <4>1, <4>4 DEF Watches
    <3>2. CASE q # s
      <4>1. watched'[q] = watched[q] /\ (q \in Watching' <=> q \in Watching)
        BY <1>c, <1>d, <2>t, <3>2 DEF Typed, Watching
      <4> QED BY <1>c, <2>i, <4>1 DEF Watches, EndsWithStored
    <3> QED BY <3>1, <3>2
  <2>4. Current(q)'
    BY <2>i, <2>t, ViewStreamBoundAssumption DEF Typed, Lists, Told, Current, Subscribed, Watch, Go, tableVars, storeVars
  <2> QED BY <2>1, <2>2, <2>3, <2>4
<1>3. WriterOpen'
  BY <1>i, NoListAssumption, NobodyAssumption DEF Typed, Lists, WriterOpen, Watch, Go, tableVars, storeVars
<1> QED BY <1>1, <1>2, <1>3 DEF IInv

\* The subscription comes with a notification: the stream goes back to the table.
LEMMA SubscribeKeeps == ASSUME IInv, NEW s \in Stream, Subscribe(s) PROVE IInv'
<1>i. Typed /\ WriterOpen
      /\ \A q \in Stream : Lists(q) /\ Told(q) /\ Watches(q) /\ Current(q)
  BY DEF IInv
<1>1. Typed'
  BY <1>i, ViewStreamBoundAssumption DEF Typed, Place, Subscribe, Go, tableVars, storeVars
<1>2. ASSUME NEW q \in Stream PROVE Lists(q)' /\ Told(q)' /\ Watches(q)' /\ Current(q)'
  <2>i. Lists(q) /\ Told(q) /\ Watches(q) /\ Current(q)
    BY <1>i
  <2>t. Typed
    BY <1>i
  <2>1. Lists(q)'
    BY <2>i, <2>t, ViewStreamBoundAssumption DEF Typed, Lists, Subscribe, Go, tableVars, storeVars
  <2>2. Told(q)'
    <3>1. (messages[q] <= published)'
      BY <2>i, <2>t, ViewStreamBoundAssumption DEF Typed, Told, Subscribe, Go, tableVars, storeVars
    <3>2. (messages[q] > 0 => q \in Subscribed)'
      BY <2>i, <2>t DEF Typed, Told, Subscribed, Subscribe, Go, tableVars, storeVars
    <3>3. (updates[q] => q \in Subscribed)'
      BY <2>i, <2>t DEF Typed, Told, Subscribed, Subscribe, Go, tableVars, storeVars
    <3> QED BY <3>1, <3>2, <3>3 DEF Told
  <2>3. Watches(q)'
    BY <2>i, <2>t, ViewStreamBoundAssumption DEF Typed, Lists, Watches, EndsWithStored, Watching, Subscribe, Go, tableVars, storeVars
  <2>4. Current(q)'
    BY <2>i, <2>t, ViewStreamBoundAssumption DEF Typed, Lists, Told, Current, Subscribed, Subscribe, Go, tableVars, storeVars
  <2> QED BY <2>1, <2>2, <2>3, <2>4
<1>3. WriterOpen'
  BY <1>i, NoListAssumption, NobodyAssumption DEF Typed, Lists, WriterOpen, Subscribe, Go, tableVars, storeVars
<1> QED BY <1>1, <1>2, <1>3 DEF IInv

\* A notification is taken before the table is listed.
LEMMA RefreshKeeps == ASSUME IInv, NEW s \in Stream, Refresh(s) PROVE IInv'
<1>i. Typed /\ WriterOpen
      /\ \A q \in Stream : Lists(q) /\ Told(q) /\ Watches(q) /\ Current(q)
  BY DEF IInv
<1>1. Typed'
  BY <1>i, ViewStreamBoundAssumption DEF Typed, Place, Refresh, Go, tableVars, storeVars
<1>2. ASSUME NEW q \in Stream PROVE Lists(q)' /\ Told(q)' /\ Watches(q)' /\ Current(q)'
  <2>i. Lists(q) /\ Told(q) /\ Watches(q) /\ Current(q)
    BY <1>i
  <2>t. Typed
    BY <1>i
  <2>1. Lists(q)'
    BY <2>i, <2>t, ViewStreamBoundAssumption DEF Typed, Lists, Refresh, Go, tableVars, storeVars
  <2>2. Told(q)'
    <3>1. (messages[q] <= published)'
      BY <2>i, <2>t, ViewStreamBoundAssumption DEF Typed, Told, Refresh, Go, tableVars, storeVars
    <3>2. (messages[q] > 0 => q \in Subscribed)'
      BY <2>i, <2>t DEF Typed, Told, Subscribed, Refresh, Go, tableVars, storeVars
    <3>3. (updates[q] => q \in Subscribed)'
      BY <2>i, <2>t DEF Typed, Told, Subscribed, Refresh, Go, tableVars, storeVars
    <3> QED BY <3>1, <3>2, <3>3 DEF Told
  <2>3. Watches(q)'
    BY <2>i, <2>t, ViewStreamBoundAssumption DEF Typed, Lists, Watches, EndsWithStored, Watching, Refresh, Go, tableVars, storeVars
  <2>4. Current(q)'
    BY <2>i, <2>t, ViewStreamBoundAssumption DEF Typed, Lists, Told, Current, Subscribed, Refresh, Go, tableVars, storeVars
  <2> QED BY <2>1, <2>2, <2>3, <2>4
<1>3. WriterOpen'
  BY <1>i, NoListAssumption, NobodyAssumption DEF Typed, Lists, WriterOpen, Refresh, Go, tableVars, storeVars
<1> QED BY <1>1, <1>2, <1>3 DEF IInv

\* The page takes the first value.
LEMMA PatchKeeps == ASSUME IInv, NEW s \in Stream, Patch(s) PROVE IInv'
<1>i. Typed /\ WriterOpen
      /\ \A q \in Stream : Lists(q) /\ Told(q) /\ Watches(q) /\ Current(q)
  BY DEF IInv
<1>a. Tail(watched[s]) \in Seq(0..MaxCommits) /\ EndsWithStored(Tail(watched[s]))
  BY <1>i, TailEnds DEF Typed, Watches, Patch
<1>b. Head(watched[s]) \in List
  <2>1. watched[s] \in Seq(0..MaxCommits) /\ watched[s] # << >>
    BY <1>i DEF Typed, Patch
  <2>2. ASSUME NEW S, NEW queue \in Seq(S), queue # << >> PROVE Head(queue) \in S
    BY <2>2
  <2>3. Head(watched[s]) \in 0..MaxCommits
    BY <2>1, <2>2
  <2> QED BY <2>3 DEF List
<1>1. Typed'
  BY <1>a, <1>b, <1>i, ViewStreamBoundAssumption DEF Typed, Patch, tableVars, storeVars
<1>2. ASSUME NEW q \in Stream PROVE Lists(q)' /\ Told(q)' /\ Watches(q)' /\ Current(q)'
  <2>i. Lists(q) /\ Told(q) /\ Watches(q) /\ Current(q)
    BY <1>i
  <2>t. Typed
    BY <1>i
  <2>1. Lists(q)'
    BY <1>a, <1>b, <2>i, <2>t, ViewStreamBoundAssumption DEF Typed, Lists, Patch, tableVars, storeVars
  <2>2. Told(q)'
    <3>1. (messages[q] <= published)'
      BY <1>a, <1>b, <2>i, <2>t, ViewStreamBoundAssumption DEF Typed, Told, Patch, tableVars, storeVars
    <3>2. (messages[q] > 0 => q \in Subscribed)'
      BY <1>a, <1>b, <2>i, <2>t DEF Typed, Told, Subscribed, Patch, tableVars, storeVars
    <3>3. (updates[q] => q \in Subscribed)'
      BY <1>a, <1>b, <2>i, <2>t DEF Typed, Told, Subscribed, Patch, tableVars, storeVars
    <3> QED BY <3>1, <3>2, <3>3 DEF Told
  <2>3. Watches(q)'
    BY <1>a, <1>b, <2>i, <2>t, ViewStreamBoundAssumption DEF Typed, Lists, Watches, EndsWithStored, Watching, Patch, tableVars, storeVars
  <2>4. Current(q)'
    BY <1>a, <1>b, <2>i, <2>t, ViewStreamBoundAssumption DEF Typed, Lists, Told, Current, Subscribed, Patch, tableVars, storeVars
  <2> QED BY <2>1, <2>2, <2>3, <2>4
<1>3. WriterOpen'
  BY <1>a, <1>b, <1>i, NoListAssumption, NobodyAssumption DEF Typed, Lists, WriterOpen, Patch, tableVars, storeVars
<1> QED BY <1>1, <1>2, <1>3 DEF IInv

\* A closed stream has neither a watcher nor a subscription.
LEMMA CloseKeeps == ASSUME IInv, NEW s \in Stream, Close(s) PROVE IInv'
<1>i. Typed /\ WriterOpen
      /\ \A q \in Stream : Lists(q) /\ Told(q) /\ Watches(q) /\ Current(q)
  BY DEF IInv
<1>a. << >> \in Seq(0..MaxCommits) /\ Len(<< >>) = 0
  OBVIOUS
<1>b. watched' = [watched EXCEPT ![s] = << >>] /\ stored' = stored
      /\ messages' = [messages EXCEPT ![s] = 0]
  BY DEF Close
<1>c. pc' \in [Stream -> Place] /\ pc'[s] = "closed"
      /\ \A q \in Stream : q # s => pc'[q] = pc[q]
  BY <1>i DEF Typed, Place, Close
<1>1. Typed'
  <2>1. watched' \in [Stream -> Seq(0..MaxCommits)]
    BY <1>a, <1>b, <1>i DEF Typed
  <2>2. messages' \in [Stream -> Nat]
    BY <1>b, <1>i DEF Typed
  <2>3. listed' \in [Stream -> List] /\ shown' \in [Stream -> List]
    BY <1>i DEF Typed, List, Close
  <2>4. writer' \in Stream \cup {Nobody} /\ updates' \in [Stream -> BOOLEAN]
    BY <1>i DEF Typed, Close
  <2> QED BY <1>b, <1>c, <1>i, <2>1, <2>2, <2>3, <2>4 DEF Typed, Close, tableVars
<1>2. ASSUME NEW q \in Stream PROVE Lists(q)' /\ Told(q)' /\ Watches(q)' /\ Current(q)'
  <2>i. Lists(q) /\ Told(q) /\ Watches(q) /\ Current(q)
    BY <1>i
  <2>t. Typed
    BY <1>i
  <2>1. Lists(q)'
    BY <2>i, <2>t, ViewStreamBoundAssumption DEF Typed, Lists, Close, tableVars, storeVars
  <2>2. Told(q)'
    <3>1. (messages[q] <= published)'
      BY <2>i, <2>t, ViewStreamBoundAssumption DEF Typed, Told, Close, tableVars, storeVars
    <3>2. (messages[q] > 0 => q \in Subscribed)'
      <4>1. CASE q = s
        BY <1>b, <2>t, <4>1 DEF Typed
      <4>2. CASE q # s
        <5>1. messages'[q] = messages[q] /\ pc'[q] = pc[q]
          BY <1>b, <1>c, <2>t, <4>2 DEF Typed
        <5> QED BY <2>i, <5>1 DEF Told, Subscribed
      <4> QED BY <4>1, <4>2
    <3>3. (updates[q] => q \in Subscribed)'
      BY <2>i, <2>t DEF Typed, Told, Subscribed, Close, tableVars, storeVars
    <3> QED BY <3>1, <3>2, <3>3 DEF Told
  <2>3. Watches(q)'
    <3>1. CASE q = s
      <4>1. watched'[q] = << >>
        BY <1>b, <2>t, <3>1 DEF Typed
      <4> QED BY <1>a, <4>1, ViewStreamBoundAssumption DEF Watches, EndsWithStored
    <3>2. CASE q # s
      <4>1. watched'[q] = watched[q] /\ (q \in Watching' <=> q \in Watching)
        BY <1>b, <1>c, <2>t, <3>2 DEF Typed, Watching
      <4> QED BY <1>b, <2>i, <4>1 DEF Watches, EndsWithStored
    <3> QED BY <3>1, <3>2
  <2>4. Current(q)'
    BY <2>i, <2>t, ViewStreamBoundAssumption DEF Typed, Lists, Told, Current, Subscribed, Close, tableVars, storeVars
  <2> QED BY <2>1, <2>2, <2>3, <2>4
<1>3. WriterOpen'
  BY <1>i, NoListAssumption, NobodyAssumption DEF Typed, Lists, WriterOpen, Close, tableVars, storeVars
<1> QED BY <1>1, <1>2, <1>3 DEF IInv

\* So does a step that changes nothing.
LEMMA StutterKeeps == ASSUME IInv, UNCHANGED vars PROVE IInv'
BY DEF IInv, Typed, Lists, Told, Watches, EndsWithStored, Current, WriterOpen, Watching,
       Subscribed, vars, tableVars, storeVars

\* Every step keeps it.
LEMMA StepKeeps == IInv /\ [Next]_vars => IInv'
<1> SUFFICES ASSUME IInv, [Next]_vars PROVE IInv'
  OBVIOUS
<1>1. CASE Commit
  BY <1>1, CommitKeeps
<1>2. CASE Publish
  BY <1>2, PublishKeeps
<1>3. ASSUME NEW s \in Stream, Open(s) \/ Notify(s) \/ StreamStep(s) \/ Close(s) PROVE IInv'
  <2>1. CASE Open(s) \/ Notify(s) \/ Close(s)
    BY <2>1, OpenKeeps, NotifyKeeps, CloseKeeps
  <2>2. CASE StreamStep(s)
    BY <2>2, ListTableKeeps, FirstPutKeeps, WatchKeeps, SubscribeKeeps, RefreshKeeps,
       RefreshPutKeeps, PatchKeeps DEF StreamStep
  <2> QED BY <1>3, <2>1, <2>2
<1>4. CASE UNCHANGED vars
  BY <1>4, StutterKeeps
<1> QED BY <1>1, <1>2, <1>3, <1>4 DEF Next

-------------------------------------------------------------------------------
\* The types of ViewStream, for any number of pages and any length of the watcher's buffer
\* (streamViewStoreFatMorph and the NATS watch): a message waits only for a subscriber and
\* what a watcher has yet to hand over ends with the value in the store.
THEOREM TypeCorrect == Spec => []TypeOK
<1>1. IInv => TypeOK
  <2> SUFFICES ASSUME IInv PROVE TypeOK
    OBVIOUS
  <2> USE ViewStreamBoundAssumption
  <2>1. ASSUME NEW s \in Stream
        PROVE  /\ listed[s] \in List /\ shown[s] \in List
               /\ messages[s] \in 0..MaxCommits
               /\ messages[s] > 0 \/ updates[s] => s \in Subscribed
               /\ watched[s] \in Seq(0..MaxCommits) /\ Len(watched[s]) <= Buffer + 1
               /\ watched[s] # << >> => watched[s][Len(watched[s])] = stored
    BY DEF IInv, Typed, Told, Watches, EndsWithStored
  <2> QED BY <2>1 DEF IInv, Typed, WriterOpen, TypeOK
<1> QED BY <1>1, InitInv, StepKeeps, PTL DEF Spec

\* A stream with nothing left to do has listed every commit: between the first list, the
\* watch and the subscription of streamViewStoreFatMorph, and between two refreshes, there
\* is no moment at which a commit is lost on it.
THEOREM NoCommitIsMissed == Spec => []NoCommitMissed
<1>1. IInv => NoCommitMissed
  <2> SUFFICES ASSUME IInv, NEW s \in Stream,
                      pc[s] = "loop", ~ updates[s], messages[s] = 0, published = table
               PROVE  listed[s] = table
    BY DEF NoCommitMissed
  <2>1. Lists(s) /\ Current(s) /\ table \in Nat
    BY ViewStreamBoundAssumption DEF IInv, Typed
  <2>2. table <= listed[s]
    BY <2>1 DEF Current
  <2>3. listed[s] \in 0..table
    BY <2>1 DEF Lists
  <2> QED BY <2>1, <2>2, <2>3
<1> QED BY <1>1, InitInv, StepKeeps, PTL DEF Spec
===============================================================================
