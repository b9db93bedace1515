--------------------------- MODULE EventHandlerProofs ---------------------------
(***************************************************************************)
(* The event handler for any query, any events and any number of workers    *)
(* left over from old subscriptions.                                        *)
(*                                                                         *)
(* What a late worker can still do is the heart of the argument.  It has an *)
(* open transaction, so nobody else begins one, and it works on the event   *)
(* after the checkpoint or on the last one delivered.  The worker of the    *)
(* present subscription read that same checkpoint, so it can only have      *)
(* received the same event; and once it begins a transaction of its own,    *)
(* none of its predecessors is left.                                        *)
(***************************************************************************)
EXTENDS EventHandler, TLAPS

Places == {"gone", "receive", "handle", "handleTx", "notify", "checkpoint", "checkpointTx"}

\* IsNext and LastApplied with their state as arguments.
NextOf(events, i, p) ==
    /\ i \in DOMAIN events /\ i > p /\ InQuery(events[i], HandlerQuery)
    /\ \A j \in DOMAIN events : j > p /\ i > j => ~ InQuery(events[j], HandlerQuery)

LastOf(positions) ==
    IF positions = {} THEN 0
    ELSE CHOOSE i \in positions : \A j \in positions : ~ (j > i)

\* The positions are those of the wanted events up to last.
UpTo(events, positions, last) ==
    /\ last \in positions \/ last = 0
    /\ positions = {i \in DOMAIN events : InQuery(events[i], HandlerQuery) /\ ~ (i > last)}

Delivered == LastOf(applied)

\* A worker that has received an event holds a position of the log.
Holding == \A w \in Worker : step[w] \notin {"gone", "receive"} => at[w] \in DOMAIN log

TypeInv == TypeOK /\ Holding

OneWriter == \A v, w \in Worker : InTransaction(v) /\ InTransaction(w) => v = w

\* No worker of an old subscription is left inside a transaction.
NoneLate == \A v \in Worker : InTransaction(v) => v = current

\* The transactions that are open, of whatever worker.
WriterOK(w) ==
    /\ step[w] = "handleTx" =>
         \/ at[w] = Delivered
         \/ Delivered = checkpoint /\ NextOf(log, at[w], checkpoint)
    /\ step[w] = "checkpointTx" => at[w] = Delivered

\* The worker of the present subscription between its transactions.  A late worker may
\* move the checkpoint, or deliver the event, under its hands.
CurrentOK(w) ==
    w = current =>
      /\ step[w] = "receive" =>
           \/ at[w] = checkpoint
           \/ NoneLate /\ Delivered = checkpoint /\ NextOf(log, checkpoint, at[w])
      /\ step[w] = "handle" =>
           \/ NextOf(log, at[w], checkpoint)
           \/ NoneLate /\ at[w] = Delivered
      /\ step[w] \in {"notify", "checkpoint"} => NoneLate /\ at[w] = Delivered

DeliveryInv ==
    /\ UpTo(log, applied, Delivered)
    /\ Delivered = checkpoint \/ NextOf(log, Delivered, checkpoint)
    /\ OneWriter
    /\ \A w \in Worker : WriterOK(w) /\ CurrentOK(w)

IInv == TypeInv /\ DeliveryInv

-------------------------------------------------------------------------------
(* Positions.                                                               *)

\* The definitions above are those of the module.
LEMMA SameNext == \A i, p : IsNext(i, p) <=> NextOf(log, i, p)
BY DEF IsNext, NextOf, Wanted, After

\* The same for the last position applied.
LEMMA SameLast == LastApplied = Delivered
BY DEF LastApplied, Delivered, LastOf, After, NoEventPosition

\* A set of positions has one last position.
LEMMA LastIs ==
    ASSUME NEW positions \in SUBSET Nat, NEW last \in positions,
           \A j \in positions : ~ (j > last)
    PROVE  LastOf(positions) = last
<1> DEFINE IsLast(i) == \A j \in positions : ~ (j > i)
<1>1. \A i \in positions : IsLast(i) => i = last
  OBVIOUS
<1>2. (CHOOSE i \in positions : IsLast(i)) = last
  <2> DEFINE chosen == CHOOSE i \in positions : IsLast(i)
  <2>1. \E i \in positions : IsLast(i)
    OBVIOUS
  <2>2. chosen \in positions /\ IsLast(chosen)
    <3> HIDE DEF IsLast
    <3> QED BY <2>1
  <2> QED BY <1>1, <2>2
<1>3. positions # {}
  OBVIOUS
<1> QED BY <1>2, <1>3 DEF LastOf

\* The last one is what UpTo says it is.
LEMMA UpToLast ==
    ASSUME NEW events, DOMAIN events \in SUBSET (Nat \ {0}), NEW positions, NEW last \in Nat,
           UpTo(events, positions, last)
    PROVE  LastOf(positions) = last
<1>1. CASE last \in positions
  BY <1>1, LastIs DEF UpTo
<1>2. CASE last = 0
  <2>1. positions = {}
    BY <1>2 DEF UpTo
  <2> QED BY <1>2, <2>1 DEF LastOf
<1> QED BY <1>1, <1>2 DEF UpTo

\* An event has one successor at most.
LEMMA NextUnique ==
    ASSUME NEW events, DOMAIN events \in SUBSET Nat, NEW p, NEW i, NEW j,
           NextOf(events, i, p), NextOf(events, j, p)
    PROVE  i = j
BY DEF NextOf

\* Applying the event after the last one, and only that.
LEMMA UpToNext ==
    ASSUME NEW events, DOMAIN events \in SUBSET Nat, NEW positions, NEW last \in Nat, NEW i,
           UpTo(events, positions, last), NextOf(events, i, last)
    PROVE  UpTo(events, positions \cup {i}, i)
BY DEF UpTo, NextOf

\* A longer log changes neither.
LEMMA AppendKeeps ==
    ASSUME NEW events \in Seq(Event), NEW event \in Event
    PROVE  /\ \A i, p : NextOf(events, i, p) => NextOf(Append(events, event), i, p)
           /\ \A positions : \A last \in 0..Len(events) :
                UpTo(events, positions, last) => UpTo(Append(events, event), positions, last)
<1> DEFINE longer == Append(events, event)
<1>1. Len(events) \in Nat /\ DOMAIN events = 1..Len(events)
      /\ DOMAIN longer = 1..(Len(events) + 1)
      /\ \A i \in DOMAIN events : longer[i] = events[i]
  OBVIOUS
<1> HIDE DEF longer
<1>2. ASSUME NEW i, NEW p, NextOf(events, i, p) PROVE NextOf(longer, i, p)
  BY <1>1, <1>2 DEF NextOf
<1>3. ASSUME NEW positions, NEW last \in 0..Len(events), UpTo(events, positions, last)
      PROVE  UpTo(longer, positions, last)
  BY <1>1, <1>3 DEF UpTo
<1> QED BY <1>2, <1>3 DEF longer

-------------------------------------------------------------------------------
(* Types.                                                                   *)

\* A log is indexed from 1.
LEMMA LogDomain ==
    ASSUME TypeOK
    PROVE  Len(log) \in Nat /\ DOMAIN log = 1..Len(log) /\ DOMAIN log \in SUBSET (Nat \ {0})
BY DEF TypeOK

\* At the start nothing runs and nothing is there.
LEMMA TypeInit == Init => TypeInv
<1> SUFFICES ASSUME Init PROVE TypeInv
  OBVIOUS
<1>1. log \in Seq(Event) /\ Len(log) = 0 /\ DOMAIN log = {}
  BY DEF Init
<1>2. step \in [Worker -> Places] /\ \A w \in Worker : step[w] = "gone"
  BY DEF Init, Places
<1>3. at \in [Worker -> 0..Len(log)] /\ checkpoint \in 0..Len(log)
  BY <1>1 DEF Init, NoEventPosition
<1>4. applied \in SUBSET DOMAIN log /\ resets \in Nat /\ up = FALSE
      /\ loop = "stopped" /\ current = NoWorker
  BY DEF Init
<1> QED BY <1>1, <1>2, <1>3, <1>4 DEF TypeInv, TypeOK, Holding, Places

\* Every step keeps the types, and a worker with an event keeps an event.
LEMMA TypeStep == TypeInv /\ [Next]_vars => TypeInv'
<1> SUFFICES ASSUME TypeInv, [Next]_vars PROVE TypeInv'
  OBVIOUS
<1> USE WorkerAssumption DEF TypeInv, TypeOK, Holding, handlerVars, NoEventPosition
<1>d. Len(log) \in Nat /\ DOMAIN log = 1..Len(log)
  BY LogDomain
<1>1. ASSUME NEW event \in Event, AppendEvent(event) PROVE TypeInv'
  <2>1. log' \in Seq(Event) /\ Len(log') = Len(log) + 1 /\ DOMAIN log' = 1..(Len(log) + 1)
    BY <1>1 DEF AppendEvent
  <2>2. UNCHANGED handlerVars
    BY <1>1 DEF AppendEvent
  <2>3. DOMAIN log \in SUBSET DOMAIN log' /\ 0..Len(log) \in SUBSET (0..Len(log'))
    BY <1>d, <2>1
  <2>4. TypeOK'
    BY <1>d, <2>1, <2>2, <2>3
  <2> QED BY <2>2, <2>3, <2>4
<1>2. ASSUME NEW w \in Worker, WorkerStep(w) PROVE TypeInv'
  <2>1. CASE Subscribe(w)
    BY <1>d, <2>1 DEF Subscribe, Goto, GetCheckpoint
  <2>2. CASE Receive(w)
    BY <1>d, <2>2 DEF Receive, Goto, IsNext
  <2>3. CASE BeginHandle(w)
    BY <1>d, <2>3 DEF BeginHandle, Begin, Goto
  <2>4. CASE CommitHandle(w)
    BY <1>d, <2>4 DEF CommitHandle, Goto
  <2>5. CASE NotifyDone(w)
    BY <1>d, <2>5 DEF NotifyDone, Goto
  <2>6. CASE NotifyFails(w)
    BY <1>d, <2>6 DEF NotifyFails, Goto
  <2>7. CASE BeginCheckpoint(w)
    BY <1>d, <2>7 DEF BeginCheckpoint, Begin, Goto
  <2>8. CASE CommitCheckpoint(w)
    BY <1>d, <2>8 DEF CommitCheckpoint, Goto
  <2>9. CASE RollBack(w)
    BY <1>d, <2>9 DEF RollBack, Goto, InTransaction
  <2>10. CASE GiveUp(w)
    BY <1>d, <2>10 DEF GiveUp, Goto, Leave
  <2>11. CASE WorkerEnds(w)
    BY <1>d, <2>11 DEF WorkerEnds, Goto, Leave
  <2> QED BY <1>2, <2>1, <2>2, <2>3, <2>4, <2>5, <2>6, <2>7, <2>8, <2>9, <2>10, <2>11 DEF WorkerStep
<1>3. CASE LoopStep
  <2>1. CASE Boot
    BY <1>d, <2>1 DEF Boot
  <2>2. CASE LookupFails
    BY <1>d, <2>2 DEF LookupFails
  <2>3. CASE DelayOver
    BY <1>d, <2>3 DEF DelayOver
  <2>4. CASE SubscriptionEnds
    BY <1>d, <2>4 DEF SubscriptionEnds
  <2>5. CASE Stop
    BY <1>d, <2>5 DEF Stop
  <2>6. CASE Exit
    <3>1. step' \in [Worker -> Places] /\ \A w \in Worker : step'[w] = "gone"
      BY <2>6 DEF Exit, Places
    <3>2. at' \in [Worker -> 0..Len(log)]
      BY <1>d, <2>6 DEF Exit
    <3>3. up' = FALSE /\ loop' = "stopped" /\ current' = NoWorker
          /\ UNCHANGED <<log, checkpoint, applied, resets>>
      BY <2>6 DEF Exit
    <3> QED BY <3>1, <3>2, <3>3 DEF Places
  <2>7. CASE ResetReadModels
    BY <1>d, <2>7 DEF ResetReadModels
  <2> QED BY <1>3, <2>1, <2>2, <2>3, <2>4, <2>5, <2>6, <2>7 DEF LoopStep
<1>4. CASE UNCHANGED vars
  BY <1>4 DEF vars
<1> QED BY <1>1, <1>2, <1>3, <1>4 DEF Next

-------------------------------------------------------------------------------
(* Deliveries.                                                              *)

\* What the leaves below need of the types.
LEMMA Typed ==
    ASSUME TypeInv
    PROVE  /\ step \in [Worker -> Places] /\ at \in [Worker -> Nat]
           /\ checkpoint \in Nat /\ applied \in SUBSET Nat
           /\ current # NoWorker => current \in Worker /\ loop = "subscribed"
           /\ \A w \in Worker : w # NoWorker
BY LogDomain, WorkerAssumption DEF TypeInv, TypeOK, Places

\* At the start nothing is delivered.
LEMMA DeliveryInit == Init => DeliveryInv
<1> SUFFICES ASSUME Init PROVE DeliveryInv
  OBVIOUS
<1>1. Delivered = 0 /\ checkpoint = 0
  BY DEF Init, Delivered, LastOf, NoEventPosition
<1>2. UpTo(log, applied, Delivered)
  BY <1>1 DEF Init, UpTo
<1>3. \A w \in Worker : step[w] = "gone"
  BY DEF Init
<1> QED BY <1>1, <1>2, <1>3 DEF DeliveryInv, WriterOK, CurrentOK, OneWriter, InTransaction

\* Workers that leave, and a loop that gives its worker up, disturb nothing.
LEMMA FewerWorkers ==
    ASSUME IInv, TypeInv', UNCHANGED <<log, applied, checkpoint>>,
           current' \in {current, NoWorker},
           \A w \in Worker : step'[w] = "gone" \/ (step'[w] = step[w] /\ at'[w] = at[w])
    PROVE  DeliveryInv'
<1>1. Delivered' = Delivered
  BY DEF Delivered
<1>2. OneWriter'
  BY DEF IInv, DeliveryInv, OneWriter, InTransaction
<1>3. ASSUME NEW w \in Worker PROVE WriterOK(w)'
  BY <1>1 DEF IInv, DeliveryInv, WriterOK
<1>4. ASSUME NEW w \in Worker PROVE CurrentOK(w)'
  <2>1. CASE current' = NoWorker
    BY <2>1, WorkerAssumption DEF CurrentOK
  <2>2. CASE current' = current
    <3>1. NoneLate => NoneLate'
      BY <2>2 DEF NoneLate, InTransaction
    <3>2. CurrentOK(w)
      BY DEF IInv, DeliveryInv
    <3> QED BY <1>1, <2>2, <3>1, <3>2 DEF CurrentOK
  <2> QED BY <2>1, <2>2
<1> QED BY <1>1, <1>2, <1>3, <1>4 DEF IInv, DeliveryInv

\* An event more in the log.
LEMMA AppendDelivers ==
    ASSUME IInv, NEW event \in Event, AppendEvent(event)
    PROVE  DeliveryInv'
<1>1. log \in Seq(Event) /\ log' = Append(log, event)
  BY DEF IInv, TypeInv, TypeOK, AppendEvent
<1>2. UNCHANGED <<loop, current, step, at, checkpoint, applied>> /\ Delivered' = Delivered
  BY DEF AppendEvent, handlerVars, Delivered
<1>3. \A i, p : NextOf(log, i, p) => NextOf(log', i, p)
  BY <1>1, AppendKeeps
<1>4. UpTo(log', applied, Delivered)
  <2>1. UpTo(log, applied, Delivered) /\ Delivered \in 0..Len(log)
    BY LogDomain DEF IInv, DeliveryInv, UpTo, TypeInv, TypeOK
  <2> QED BY <1>1, <2>1, AppendKeeps
<1>5. OneWriter'
  BY <1>2 DEF IInv, DeliveryInv, OneWriter, InTransaction
<1>6. ASSUME NEW w \in Worker PROVE WriterOK(w)' /\ CurrentOK(w)'
  <2>1. WriterOK(w) /\ CurrentOK(w)
    BY DEF IInv, DeliveryInv
  <2>2. NoneLate' <=> NoneLate
    BY <1>2 DEF NoneLate, InTransaction
  <2>3. WriterOK(w)'
    BY <1>2, <1>3, <2>1 DEF WriterOK
  <2>4. CurrentOK(w)'
    BY <1>2, <1>3, <2>1, <2>2 DEF CurrentOK
  <2> QED BY <2>3, <2>4
<1>7. (Delivered = checkpoint \/ NextOf(log, Delivered, checkpoint))'
  BY <1>2, <1>3 DEF IInv, DeliveryInv
<1> QED BY <1>2, <1>4, <1>5, <1>6, <1>7 DEF DeliveryInv

\* The present subscription starts after the checkpoint it reads.
LEMMA SubscribeDelivers == ASSUME IInv, NEW w \in Worker, Subscribe(w) PROVE DeliveryInv'
<1>t. /\ step \in [Worker -> Places] /\ at \in [Worker -> Nat]
      /\ current # NoWorker => current \in Worker /\ loop = "subscribed"
      /\ \A v \in Worker : v # NoWorker
  BY Typed DEF IInv
<1>i. /\ UpTo(log, applied, Delivered)
      /\ Delivered = checkpoint \/ NextOf(log, Delivered, checkpoint)
      /\ OneWriter
      /\ \A v \in Worker : WriterOK(v) /\ CurrentOK(v)
  BY DEF IInv, DeliveryInv
<1>1. UNCHANGED <<log, applied, checkpoint>> /\ Delivered' = Delivered
  BY DEF Subscribe, Goto, GetCheckpoint, Delivered
<1>2. current' = w
  BY DEF Subscribe, Goto, GetCheckpoint
<1>3. step'[w] = "receive" /\ at'[w] = checkpoint
      /\ \A v \in Worker : v # w => step'[v] = step[v] /\ at'[v] = at[v]
  <2>1. step' = [step EXCEPT ![w] = "receive"] /\ at' = [at EXCEPT ![w] = checkpoint]
    BY DEF Subscribe, Goto, GetCheckpoint
  <2> QED BY <1>t, <2>1
<1>4. OneWriter'
  BY <1>i, <1>3 DEF OneWriter, InTransaction
<1>5. ASSUME NEW v \in Worker PROVE WriterOK(v)'
  BY <1>i, <1>1, <1>3 DEF WriterOK
<1>6. ASSUME NEW v \in Worker PROVE CurrentOK(v)'
  <2>1. CASE v = w
    BY <1>i, <1>1, <1>2, <1>3, <2>1 DEF CurrentOK, NoneLate, InTransaction
  <2>2. CASE v # w
    BY <1>i, <1>t, <1>1, <1>2, <1>3, <2>2 DEF CurrentOK, NoneLate, InTransaction
  <2> QED BY <2>1, <2>2
<1> QED BY <1>i, <1>1, <1>4, <1>5, <1>6 DEF DeliveryInv

\* It receives the event after the checkpoint, or the one a late worker has just finished.
LEMMA ReceiveDelivers == ASSUME IInv, NEW w \in Worker, Receive(w) PROVE DeliveryInv'
<1>t. /\ step \in [Worker -> Places] /\ at \in [Worker -> Nat]
      /\ current # NoWorker => current \in Worker /\ loop = "subscribed"
      /\ \A v \in Worker : v # NoWorker
  BY Typed DEF IInv
<1>i. /\ UpTo(log, applied, Delivered)
      /\ Delivered = checkpoint \/ NextOf(log, Delivered, checkpoint)
      /\ OneWriter
      /\ \A v \in Worker : WriterOK(v) /\ CurrentOK(v)
  BY DEF IInv, DeliveryInv
<1>1. UNCHANGED <<log, applied, checkpoint>> /\ Delivered' = Delivered
  BY DEF Receive, Goto, Delivered
<1>2. current' = current /\ w = current /\ step[w] = "receive"
  BY DEF Receive, Goto
<1>3. step'[w] = "handle" /\ NextOf(log, at'[w], at[w])
      /\ \A v \in Worker : v # w => step'[v] = step[v] /\ at'[v] = at[v]
  <2>1. PICK i \in DOMAIN log : IsNext(i, at[w]) /\ at' = [at EXCEPT ![w] = i]
    BY DEF Receive
  <2>2. step' = [step EXCEPT ![w] = "handle"]
    BY DEF Receive, Goto
  <2>3. NextOf(log, i, at[w])
    BY <2>1, SameNext
  <2> QED BY <1>t, <2>1, <2>2, <2>3
<1>u. NoneLate /\ NextOf(log, checkpoint, at[w]) => at'[w] = checkpoint
  BY <1>3, NextUnique, LogDomain DEF IInv, TypeInv
<1>4. OneWriter'
  BY <1>i, <1>3 DEF OneWriter, InTransaction
<1>5. ASSUME NEW v \in Worker PROVE WriterOK(v)'
  BY <1>i, <1>1, <1>3 DEF WriterOK
<1>6. ASSUME NEW v \in Worker PROVE CurrentOK(v)'
  <2>1. CASE v = w
    BY <1>i, <1>u, <1>1, <1>2, <1>3, <2>1 DEF CurrentOK, NoneLate, InTransaction
  <2>2. CASE v # w
    BY <1>i, <1>t, <1>1, <1>2, <1>3, <2>2 DEF CurrentOK, NoneLate, InTransaction
  <2> QED BY <2>1, <2>2
<1> QED BY <1>i, <1>1, <1>4, <1>5, <1>6 DEF DeliveryInv

\* It begins a transaction only when nobody has one.
LEMMA BeginHandleDelivers == ASSUME IInv, NEW w \in Worker, BeginHandle(w) PROVE DeliveryInv'
<1>t. /\ step \in [Worker -> Places] /\ at \in [Worker -> Nat]
      /\ current # NoWorker => current \in Worker /\ loop = "subscribed"
      /\ \A v \in Worker : v # NoWorker
  BY Typed DEF IInv
<1>i. /\ UpTo(log, applied, Delivered)
      /\ Delivered = checkpoint \/ NextOf(log, Delivered, checkpoint)
      /\ OneWriter
      /\ \A v \in Worker : WriterOK(v) /\ CurrentOK(v)
  BY DEF IInv, DeliveryInv
<1>1. UNCHANGED <<log, applied, checkpoint>> /\ Delivered' = Delivered
  BY DEF BeginHandle, Begin, Goto, Delivered
<1>2. current' = current /\ w = current /\ step[w] = "handle" /\ WriterFree
  BY DEF BeginHandle, Begin, Goto
<1>3. step'[w] = "handleTx" /\ at'[w] = at[w]
      /\ \A v \in Worker : v # w => step'[v] = step[v] /\ at'[v] = at[v]
  <2>1. step' = [step EXCEPT ![w] = "handleTx"] /\ at' = at
    BY DEF BeginHandle, Goto, Begin
  <2> QED BY <1>t, <2>1
<1>u. at[w] = Delivered \/ (Delivered = checkpoint /\ NextOf(log, at[w], checkpoint))
  <2>1. NextOf(log, at[w], checkpoint) \/ at[w] = Delivered
    BY <1>i, <1>2 DEF CurrentOK
  <2>2. CASE at[w] # Delivered
    <3>1. DOMAIN log \in SUBSET Nat
      BY LogDomain DEF IInv, TypeInv
    <3>2. NextOf(log, Delivered, checkpoint) => at[w] = Delivered
      BY <2>1, <2>2, <3>1, NextUnique
    <3> QED BY <1>i, <2>1, <2>2, <3>2
  <2>3. CASE at[w] = Delivered
    BY <2>3
  <2> QED BY <2>2, <2>3
<1>4. OneWriter'
  BY <1>i, <1>2, <1>3 DEF OneWriter, InTransaction, WriterFree
<1>5. ASSUME NEW v \in Worker PROVE WriterOK(v)'
  BY <1>i, <1>1, <1>2, <1>3, <1>u DEF WriterOK, CurrentOK
<1>6. ASSUME NEW v \in Worker PROVE CurrentOK(v)'
  <2>1. CASE v = w
    BY <1>i, <1>1, <1>2, <1>3, <2>1 DEF CurrentOK, NoneLate, InTransaction
  <2>2. CASE v # w
    BY <1>2, <1>3, <2>2 DEF CurrentOK, NoneLate, InTransaction
  <2> QED BY <2>1, <2>2
<1> QED BY <1>i, <1>1, <1>4, <1>5, <1>6 DEF DeliveryInv

\* The same for the checkpoint's transaction.
LEMMA BeginCheckpointDelivers == ASSUME IInv, NEW w \in Worker, BeginCheckpoint(w) PROVE DeliveryInv'
<1>t. /\ step \in [Worker -> Places] /\ at \in [Worker -> Nat]
      /\ current # NoWorker => current \in Worker /\ loop = "subscribed"
      /\ \A v \in Worker : v # NoWorker
  BY Typed DEF IInv
<1>i. /\ UpTo(log, applied, Delivered)
      /\ Delivered = checkpoint \/ NextOf(log, Delivered, checkpoint)
      /\ OneWriter
      /\ \A v \in Worker : WriterOK(v) /\ CurrentOK(v)
  BY DEF IInv, DeliveryInv
<1>1. UNCHANGED <<log, applied, checkpoint>> /\ Delivered' = Delivered
  BY DEF BeginCheckpoint, Begin, Goto, Delivered
<1>2. current' = current /\ w = current /\ step[w] = "checkpoint" /\ WriterFree
  BY DEF BeginCheckpoint, Begin, Goto
<1>3. step'[w] = "checkpointTx" /\ at'[w] = at[w]
      /\ \A v \in Worker : v # w => step'[v] = step[v] /\ at'[v] = at[v]
  <2>1. step' = [step EXCEPT ![w] = "checkpointTx"] /\ at' = at
    BY DEF BeginCheckpoint, Goto, Begin
  <2> QED BY <1>t, <2>1
<1>4. OneWriter'
  BY <1>i, <1>2, <1>3 DEF OneWriter, InTransaction, WriterFree
<1>5. ASSUME NEW v \in Worker PROVE WriterOK(v)'
  BY <1>i, <1>1, <1>2, <1>3 DEF WriterOK, CurrentOK
<1>6. ASSUME NEW v \in Worker PROVE CurrentOK(v)'
  <2>1. CASE v = w
    BY <1>i, <1>1, <1>2, <1>3, <2>1 DEF CurrentOK, NoneLate, InTransaction
  <2>2. CASE v # w
    BY <1>2, <1>3, <2>2 DEF CurrentOK, NoneLate, InTransaction
  <2> QED BY <2>1, <2>2
<1> QED BY <1>i, <1>1, <1>4, <1>5, <1>6 DEF DeliveryInv

\* The pages are told.
LEMMA NotifyDoneDelivers == ASSUME IInv, NEW w \in Worker, NotifyDone(w) PROVE DeliveryInv'
<1>t. /\ step \in [Worker -> Places] /\ at \in [Worker -> Nat]
      /\ current # NoWorker => current \in Worker /\ loop = "subscribed"
      /\ \A v \in Worker : v # NoWorker
  BY Typed DEF IInv
<1>i. /\ UpTo(log, applied, Delivered)
      /\ Delivered = checkpoint \/ NextOf(log, Delivered, checkpoint)
      /\ OneWriter
      /\ \A v \in Worker : WriterOK(v) /\ CurrentOK(v)
  BY DEF IInv, DeliveryInv
<1>1. UNCHANGED <<log, applied, checkpoint>> /\ Delivered' = Delivered
  BY DEF NotifyDone, Goto, Delivered
<1>2. current' = current /\ step[w] = "notify"
  BY DEF NotifyDone, Goto
<1>3. step'[w] = "checkpoint" /\ at'[w] = at[w]
      /\ \A v \in Worker : v # w => step'[v] = step[v] /\ at'[v] = at[v]
  <2>1. step' = [step EXCEPT ![w] = "checkpoint"] /\ at' = at
    BY DEF NotifyDone, Goto
  <2> QED BY <1>t, <2>1
<1>4. OneWriter'
  BY <1>i, <1>3 DEF OneWriter, InTransaction
<1>5. ASSUME NEW v \in Worker PROVE WriterOK(v)'
  BY <1>i, <1>1, <1>3 DEF WriterOK
<1>6. ASSUME NEW v \in Worker PROVE CurrentOK(v)'
  <2>1. CASE v = w
    BY <1>i, <1>1, <1>2, <1>3, <2>1 DEF CurrentOK, NoneLate, InTransaction
  <2>2. CASE v # w
    BY <1>i, <1>t, <1>1, <1>2, <1>3, <2>2 DEF CurrentOK, NoneLate, InTransaction
  <2> QED BY <2>1, <2>2
<1> QED BY <1>i, <1>1, <1>4, <1>5, <1>6 DEF DeliveryInv

\* They are not, and the callback starts over.
LEMMA NotifyFailsDelivers == ASSUME IInv, NEW w \in Worker, NotifyFails(w) PROVE DeliveryInv'
<1>t. /\ step \in [Worker -> Places] /\ at \in [Worker -> Nat]
      /\ current # NoWorker => current \in Worker /\ loop = "subscribed"
      /\ \A v \in Worker : v # NoWorker
  BY Typed DEF IInv
<1>i. /\ UpTo(log, applied, Delivered)
      /\ Delivered = checkpoint \/ NextOf(log, Delivered, checkpoint)
      /\ OneWriter
      /\ \A v \in Worker : WriterOK(v) /\ CurrentOK(v)
  BY DEF IInv, DeliveryInv
<1>1. UNCHANGED <<log, applied, checkpoint>> /\ Delivered' = Delivered
  BY DEF NotifyFails, Goto, Delivered
<1>2. current' = current /\ step[w] = "notify"
  BY DEF NotifyFails, Goto
<1>3. step'[w] = "handle" /\ at'[w] = at[w]
      /\ \A v \in Worker : v # w => step'[v] = step[v] /\ at'[v] = at[v]
  <2>1. step' = [step EXCEPT ![w] = "handle"] /\ at' = at
    BY DEF NotifyFails, Goto
  <2> QED BY <1>t, <2>1
<1>4. OneWriter'
  BY <1>i, <1>3 DEF OneWriter, InTransaction
<1>5. ASSUME NEW v \in Worker PROVE WriterOK(v)'
  BY <1>i, <1>1, <1>3 DEF WriterOK
<1>6. ASSUME NEW v \in Worker PROVE CurrentOK(v)'
  <2>1. CASE v = w
    BY <1>i, <1>1, <1>2, <1>3, <2>1 DEF CurrentOK, NoneLate, InTransaction
  <2>2. CASE v # w
    BY <1>i, <1>t, <1>1, <1>2, <1>3, <2>2 DEF CurrentOK, NoneLate, InTransaction
  <2> QED BY <2>1, <2>2
<1> QED BY <1>i, <1>1, <1>4, <1>5, <1>6 DEF DeliveryInv

\* A transaction is rolled back.
LEMMA RollBackDelivers == ASSUME IInv, NEW w \in Worker, RollBack(w) PROVE DeliveryInv'
<1>t. /\ step \in [Worker -> Places] /\ at \in [Worker -> Nat]
      /\ current # NoWorker => current \in Worker /\ loop = "subscribed"
      /\ \A v \in Worker : v # NoWorker
  BY Typed DEF IInv
<1>i. /\ UpTo(log, applied, Delivered)
      /\ Delivered = checkpoint \/ NextOf(log, Delivered, checkpoint)
      /\ OneWriter
      /\ \A v \in Worker : WriterOK(v) /\ CurrentOK(v)
  BY DEF IInv, DeliveryInv
<1>1. UNCHANGED <<log, applied, checkpoint>> /\ Delivered' = Delivered
  BY DEF RollBack, Goto, InTransaction, Delivered
<1>2. current' = current /\ InTransaction(w)
  BY DEF RollBack, Goto, InTransaction
<1>3. step'[w] = (IF step[w] = "handleTx" THEN "handle" ELSE "checkpoint") /\ at'[w] = at[w]
      /\ \A v \in Worker : v # w => step'[v] = step[v] /\ at'[v] = at[v]
  <2>1. step' = [step EXCEPT ![w] = (IF step[w] = "handleTx" THEN "handle" ELSE "checkpoint")] /\ at' = at
    BY DEF RollBack, Goto, InTransaction
  <2> QED BY <1>t, <2>1
<1>4. OneWriter'
  BY <1>i, <1>3 DEF OneWriter, InTransaction
<1>5. ASSUME NEW v \in Worker PROVE WriterOK(v)'
  BY <1>i, <1>1, <1>2, <1>3 DEF WriterOK, InTransaction
<1>6. ASSUME NEW v \in Worker PROVE CurrentOK(v)'
  <2>1. CASE v = w
    BY <1>i, <1>1, <1>2, <1>3, <2>1 DEF CurrentOK, NoneLate, InTransaction, WriterOK, OneWriter
  <2>2. CASE v # w
    BY <1>i, <1>t, <1>1, <1>2, <1>3, <2>2 DEF CurrentOK, NoneLate, InTransaction
  <2> QED BY <2>1, <2>2
<1> QED BY <1>i, <1>1, <1>4, <1>5, <1>6 DEF DeliveryInv

\* A callback commits: that of the event after the last one delivered, or of the last one
\* again.
LEMMA CommitHandleDelivers ==
    ASSUME IInv, NEW w \in Worker, CommitHandle(w)
    PROVE  /\ DeliveryInv'
           /\ Delivered' = at[w]
           /\ \/ Delivered' = Delivered
              \/ Delivered = checkpoint /\ NextOf(log, Delivered', Delivered)
<1>t. /\ step \in [Worker -> Places] /\ at \in [Worker -> Nat]
      /\ current # NoWorker => current \in Worker /\ loop = "subscribed"
      /\ \A v \in Worker : v # NoWorker
  BY Typed DEF IInv
<1>i. /\ UpTo(log, applied, Delivered)
      /\ Delivered = checkpoint \/ NextOf(log, Delivered, checkpoint)
      /\ OneWriter
      /\ \A v \in Worker : WriterOK(v) /\ CurrentOK(v)
  BY DEF IInv, DeliveryInv
<1>n. DOMAIN log \in SUBSET (Nat \ {0}) /\ checkpoint \in Nat /\ applied \in SUBSET Nat
  BY LogDomain, Typed DEF IInv, TypeInv
<1>1. /\ UNCHANGED <<log, checkpoint, current, at>> /\ applied' = applied \cup {at[w]}
      /\ step[w] = "handleTx" /\ at[w] \in DOMAIN log
  BY DEF CommitHandle, Goto, IInv, TypeInv, Holding
<1>2. UpTo(log, applied', at[w]) /\ at[w] \in Nat \ {0}
  <2>1. CASE at[w] = Delivered
    <3>1. at[w] \in applied
      BY <1>i, <1>n, <1>1, <2>1 DEF UpTo
    <3>2. applied' = applied
      BY <1>1, <3>1
    <3> QED BY <1>i, <1>n, <1>1, <2>1, <3>2
  <2>2. CASE Delivered = checkpoint /\ NextOf(log, at[w], checkpoint)
    BY <1>i, <1>n, <1>1, <2>2, UpToNext
  <2> QED BY <1>i, <1>1, <2>1, <2>2 DEF WriterOK
<1>3. Delivered' = at[w]
  BY <1>1, <1>2, <1>n, UpToLast DEF Delivered
<1>4. at[w] = Delivered \/ (Delivered = checkpoint /\ NextOf(log, at[w], checkpoint))
  BY <1>i, <1>1 DEF WriterOK
<1>5. /\ step'[w] = "notify" /\ at'[w] = at[w]
      /\ \A v \in Worker : v # w => step'[v] = step[v] /\ at'[v] = at[v]
  <2>1. step' = [step EXCEPT ![w] = "notify"] /\ at' = at
    BY DEF CommitHandle, Goto
  <2> QED BY <1>t, <2>1
<1>6. \A v \in Worker : InTransaction(v) => v = w
  BY <1>i, <1>1 DEF OneWriter, InTransaction
<1>7. NoneLate' /\ OneWriter'
  BY <1>5, <1>6 DEF NoneLate, OneWriter, InTransaction
<1>8. ASSUME NEW v \in Worker PROVE WriterOK(v)'
  BY <1>5, <1>6 DEF WriterOK, InTransaction
<1>9. ASSUME NEW v \in Worker PROVE CurrentOK(v)'
  <2>1. CASE v = w
    BY <1>3, <1>5, <1>7, <2>1 DEF CurrentOK
  <2>2. CASE v # w /\ v = current
    <3>1. CurrentOK(v) /\ step'[v] = step[v] /\ at'[v] = at[v] /\ ~ NoneLate
      BY <1>i, <1>1, <1>5, <2>2 DEF NoneLate, InTransaction
    <3> QED BY <1>1, <2>2, <3>1 DEF CurrentOK
  <2>3. CASE v # current
    BY <1>1, <2>3 DEF CurrentOK
  <2> QED BY <2>1, <2>2, <2>3
<1>10. (Delivered = checkpoint \/ NextOf(log, Delivered, checkpoint))'
  <2>1. Delivered' = checkpoint \/ NextOf(log, Delivered', checkpoint)
    BY <1>i, <1>3, <1>4
  <2> QED BY <1>1, <2>1
<1>11. UpTo(log, applied, Delivered)'
  BY <1>1, <1>2, <1>3
<1> QED BY <1>3, <1>4, <1>7, <1>8, <1>9, <1>10, <1>11 DEF DeliveryInv

\* The checkpoint moves to the last event delivered.
LEMMA CommitCheckpointDelivers ==
    ASSUME IInv, NEW w \in Worker, CommitCheckpoint(w)
    PROVE  DeliveryInv' /\ checkpoint' = Delivered
<1>t. /\ step \in [Worker -> Places] /\ at \in [Worker -> Nat]
      /\ current # NoWorker => current \in Worker /\ loop = "subscribed"
      /\ \A v \in Worker : v # NoWorker
  BY Typed DEF IInv
<1>i. /\ UpTo(log, applied, Delivered)
      /\ Delivered = checkpoint \/ NextOf(log, Delivered, checkpoint)
      /\ OneWriter
      /\ \A v \in Worker : WriterOK(v) /\ CurrentOK(v)
  BY DEF IInv, DeliveryInv
<1>1. /\ UNCHANGED <<log, applied, current>> /\ Delivered' = Delivered
      /\ step[w] = "checkpointTx" /\ checkpoint' = at[w]
  BY DEF CommitCheckpoint, Goto, Delivered
<1>2. at[w] = Delivered
  BY <1>i, <1>1 DEF WriterOK
<1>3. /\ step'[w] = "receive" /\ at'[w] = at[w]
      /\ \A v \in Worker : v # w => step'[v] = step[v] /\ at'[v] = at[v]
  <2>1. step' = [step EXCEPT ![w] = "receive"] /\ at' = at
    BY DEF CommitCheckpoint, Goto
  <2> QED BY <1>t, <2>1
<1>4. \A v \in Worker : InTransaction(v) => v = w
  BY <1>i, <1>1 DEF OneWriter, InTransaction
<1>5. NoneLate' /\ OneWriter'
  BY <1>3, <1>4 DEF NoneLate, OneWriter, InTransaction
<1>6. ASSUME NEW v \in Worker PROVE WriterOK(v)'
  BY <1>3, <1>4 DEF WriterOK, InTransaction
<1>7. ASSUME NEW v \in Worker PROVE CurrentOK(v)'
  <2>1. CASE v = w
    BY <1>1, <1>2, <1>3, <2>1 DEF CurrentOK
  <2>2. CASE v # w /\ v = current
    <3>1. CurrentOK(v) /\ step'[v] = step[v] /\ at'[v] = at[v] /\ ~ NoneLate
      BY <1>i, <1>1, <1>3, <2>2 DEF NoneLate, InTransaction
    <3>2. step[v] = "receive" => at[v] = checkpoint
      BY <2>2, <3>1 DEF CurrentOK
    <3>3. step[v] = "handle" => NextOf(log, at[v], checkpoint)
      BY <2>2, <3>1 DEF CurrentOK
    <3>4. step[v] \notin {"notify", "checkpoint"}
      BY <2>2, <3>1 DEF CurrentOK
    <3>5. CASE Delivered = checkpoint
      <4>1. checkpoint' = checkpoint
        BY <1>1, <1>2, <3>5
      <4> QED BY <1>1, <3>1, <3>2, <3>3, <3>4, <4>1 DEF CurrentOK
    <3>6. CASE NextOf(log, Delivered, checkpoint)
      <4>1. step[v] = "handle" => at[v] = Delivered
        BY <3>3, <3>6, NextUnique, LogDomain DEF IInv, TypeInv
      <4>2. step[v] = "receive" => NextOf(log, checkpoint', at[v])
        BY <1>1, <1>2, <3>2, <3>6
      <4> QED BY <1>1, <1>2, <1>5, <3>1, <3>4, <4>1, <4>2 DEF CurrentOK
    <3> QED BY <1>i, <3>5, <3>6
  <2>3. CASE v # current
    BY <1>1, <2>3 DEF CurrentOK
  <2> QED BY <2>1, <2>2, <2>3
<1> QED BY <1>i, <1>1, <1>2, <1>5, <1>6, <1>7 DEF DeliveryInv

\* A reset of a stopped server starts over.
LEMMA ResetDelivers ==
    ASSUME IInv, OnlineReset = FALSE, ResetReadModels
    PROVE  DeliveryInv' /\ checkpoint' = 0 /\ Delivered' = 0
<1>1. /\ applied' = {} /\ checkpoint' = 0 /\ UNCHANGED <<log, current, step, at>>
      /\ \A w \in Worker : step[w] = "gone"
  BY DEF ResetReadModels, NoEventPosition, IInv, TypeInv, TypeOK
<1>2. Delivered' = 0
  BY <1>1 DEF Delivered, LastOf
<1>3. UpTo(log, applied, Delivered)'
  <2>1. UpTo(log, {}, 0)
    BY LogDomain DEF UpTo, IInv, TypeInv
  <2> QED BY <1>1, <1>2, <2>1
<1>4. OneWriter' /\ \A w \in Worker : WriterOK(w)' /\ CurrentOK(w)'
  BY <1>1 DEF OneWriter, InTransaction, WriterOK, CurrentOK
<1> QED BY <1>1, <1>2, <1>3, <1>4 DEF DeliveryInv

\* Every step of a server that is not reset while it runs keeps the invariant.
LEMMA InvStep == OnlineReset = FALSE => (IInv /\ [Next]_vars => IInv')
<1> SUFFICES ASSUME OnlineReset = FALSE, IInv, [Next]_vars PROVE IInv'
  OBVIOUS
<1>1. TypeInv'
  BY TypeStep DEF IInv
<1>2. ASSUME NEW event \in Event, AppendEvent(event) PROVE DeliveryInv'
  BY <1>2, AppendDelivers
<1>3. ASSUME NEW w \in Worker, WorkerStep(w) PROVE DeliveryInv'
  <2>1. CASE GiveUp(w) \/ WorkerEnds(w)
    <3>1. UNCHANGED <<log, applied, checkpoint>> /\ current' \in {current, NoWorker}
      BY <2>1 DEF GiveUp, WorkerEnds
    <3>2. step' = [step EXCEPT ![w] = "gone"] /\ at' = [at EXCEPT ![w] = NoEventPosition]
      BY <2>1 DEF GiveUp, WorkerEnds, Leave, Goto
    <3>3. step \in [Worker -> Places] /\ at \in [Worker -> Nat]
      BY Typed DEF IInv
    <3>4. \A v \in Worker : step'[v] = "gone" \/ (step'[v] = step[v] /\ at'[v] = at[v])
      BY <3>2, <3>3
    <3> QED BY <1>1, <3>1, <3>4, FewerWorkers
  <2>2. CASE Subscribe(w) \/ Receive(w)
    BY <2>2, SubscribeDelivers, ReceiveDelivers
  <2>3. CASE BeginHandle(w) \/ CommitHandle(w) \/ RollBack(w)
    BY <2>3, BeginHandleDelivers, CommitHandleDelivers, RollBackDelivers
  <2>4. CASE NotifyDone(w) \/ NotifyFails(w)
    BY <2>4, NotifyDoneDelivers, NotifyFailsDelivers
  <2>5. CASE BeginCheckpoint(w) \/ CommitCheckpoint(w)
    BY <2>5, BeginCheckpointDelivers, CommitCheckpointDelivers
  <2> QED BY <1>3, <2>1, <2>2, <2>3, <2>4, <2>5 DEF WorkerStep
<1>4. CASE LoopStep
  <2>1. CASE ResetReadModels
    BY <1>1, <2>1, ResetDelivers DEF IInv
  <2>2. CASE ~ ResetReadModels
    <3>1. UNCHANGED <<log, applied, checkpoint>> /\ current' \in {current, NoWorker}
      BY <1>4, <2>2 DEF LoopStep, Boot, LookupFails, DelayOver, SubscriptionEnds, Stop, Exit
    <3>2. \A w \in Worker : step'[w] = "gone" \/ (step'[w] = step[w] /\ at'[w] = at[w])
      BY <1>4, <2>2 DEF LoopStep, Boot, LookupFails, DelayOver, SubscriptionEnds, Stop, Exit
    <3> QED BY <1>1, <3>1, <3>2, FewerWorkers DEF IInv
  <2> QED BY <2>1, <2>2
<1>5. CASE UNCHANGED vars
  BY <1>1, <1>5, FewerWorkers DEF vars, handlerVars, IInv
<1> QED BY <1>1, <1>2, <1>3, <1>4, <1>5 DEF Next, IInv

-------------------------------------------------------------------------------
\* Types and the bookkeeping of GlobalEventHandler's loop and workers, resets of a running
\* server included.
THEOREM TypeCorrect == Spec => []TypeOK
<1>1. TypeInv => TypeOK
  BY DEF TypeInv
<1> QED BY <1>1, TypeInit, TypeStep, PTL DEF Spec

\* What follows is about a server that is stopped while its read models are reset; the run
\* online_reset shows the other case.

\* The checkpoint of GlobalEventHandler never passes an event whose callback has not
\* committed: the last delivery is at or before the next wanted event.
THEOREM NothingSkipped ==
    ASSUME OnlineReset = FALSE
    PROVE  Spec => []NoEventSkipped
<1>1. Init => IInv
  BY TypeInit, DeliveryInit DEF IInv
<1>2. IInv /\ [Next]_vars => IInv'
  BY InvStep
<1>3. IInv => NoEventSkipped
  <2> SUFFICES ASSUME IInv, NEW i \in 1..checkpoint, Wanted(i)
               PROVE  i \in applied
    BY DEF NoEventSkipped
  <2>1. i \in DOMAIN log /\ checkpoint \in Nat
    BY LogDomain DEF IInv, TypeInv, TypeOK
  <2>2. ~ (i > Delivered)
    <3>1. DOMAIN log \in SUBSET Nat
      BY LogDomain DEF IInv, TypeInv
    <3> QED BY <2>1, <3>1 DEF IInv, DeliveryInv, NextOf
  <2> QED BY <2>1, <2>2 DEF IInv, DeliveryInv, UpTo, Wanted
<1> QED BY <1>1, <1>2, <1>3, PTL DEF Spec

\* Callbacks commit in the order of the log, whichever subscription they belong to: the
\* read models write an event's position without comparing it.
THEOREM AlwaysInOrder ==
    ASSUME OnlineReset = FALSE
    PROVE  Spec => HandledInOrder
<1> DEFINE InOrder ==
      \A w \in Worker : CommitHandle(w) =>
          /\ \A i \in 1..(at[w] - 1) : Wanted(i) => i \in applied
          /\ \A i \in applied : ~ After(i, at[w])
<1>1. Init => IInv
  BY TypeInit, DeliveryInit DEF IInv
<1>2. IInv /\ [Next]_vars => IInv'
  BY InvStep
<1>3. IInv => InOrder
  <2> SUFFICES ASSUME IInv, NEW w \in Worker, CommitHandle(w)
               PROVE  /\ \A i \in 1..(at[w] - 1) : Wanted(i) => i \in applied
                      /\ \A i \in applied : ~ After(i, at[w])
    OBVIOUS
  <2>1. at[w] \in DOMAIN log /\ DOMAIN log = 1..Len(log) /\ Len(log) \in Nat
    BY LogDomain DEF IInv, TypeInv, Holding, CommitHandle
  <2>2. at[w] = Delivered \/ (Delivered = checkpoint /\ NextOf(log, at[w], checkpoint))
    BY DEF IInv, DeliveryInv, WriterOK, CommitHandle
  <2>3. UpTo(log, applied, Delivered) /\ Delivered \in Nat
    BY <2>1 DEF IInv, DeliveryInv, UpTo
  <2>4. ASSUME NEW i \in 1..(at[w] - 1), Wanted(i) PROVE i \in applied
    <3>1. i \in DOMAIN log
      BY <2>1
    <3>2. ~ (i > Delivered)
      BY <2>1, <2>2, <2>4, <3>1 DEF NextOf, Wanted
    <3> QED BY <2>3, <2>4, <3>1, <3>2 DEF UpTo, Wanted
  <2>5. ASSUME NEW i \in applied PROVE ~ After(i, at[w])
    BY <2>1, <2>2, <2>3 DEF UpTo, NextOf, After
  <2> QED BY <2>4, <2>5
<1>4. IInv /\ [Next]_vars => [InOrder]_vars
  BY <1>3
<1>5. Spec => [][InOrder]_vars
  BY <1>1, <1>2, <1>4, PTL DEF Spec
<1> QED BY <1>5 DEF HandledInOrder

\* The worker of an ended subscription, which SubscribeToEvents does not wait for, never
\* writes an old checkpoint over a newer one.
THEOREM NeverRegresses ==
    ASSUME OnlineReset = FALSE
    PROVE  Spec => CheckpointNeverRegresses
<1> DEFINE Forward == checkpoint' < checkpoint => ResetReadModels
<1>1. Init => IInv
  BY TypeInit, DeliveryInit DEF IInv
<1>2. IInv /\ [Next]_vars => IInv'
  BY InvStep
<1>3. IInv /\ [Next]_vars => [Forward]_vars
  <2> SUFFICES ASSUME IInv, Next, ~ ResetReadModels PROVE ~ (checkpoint' < checkpoint)
    OBVIOUS
  <2>1. checkpoint \in Nat
    BY Typed DEF IInv
  <2>2. ASSUME NEW w \in Worker, CommitCheckpoint(w) PROVE ~ (checkpoint' < checkpoint)
    <3>1. checkpoint' = Delivered
      BY <2>2, CommitCheckpointDelivers
    <3>2. Delivered = checkpoint \/ (Delivered \in Nat /\ Delivered > checkpoint)
      BY LogDomain DEF IInv, TypeInv, DeliveryInv, NextOf
    <3> QED BY <2>1, <3>1, <3>2
  <2>3. CASE checkpoint' = checkpoint
    BY <2>1, <2>3
  <2>4. CASE checkpoint' # checkpoint
    <3>1. PICK w \in Worker : CommitCheckpoint(w)
      BY <2>4 DEF Next, AppendEvent, handlerVars, WorkerStep, LoopStep, Subscribe, Receive,
         BeginHandle, Begin, CommitHandle, NotifyDone, NotifyFails, BeginCheckpoint, RollBack,
         GiveUp, WorkerEnds, Boot, LookupFails, DelayOver, SubscriptionEnds, Stop, Exit
    <3> QED BY <2>2, <3>1
  <2> QED BY <2>3, <2>4
<1>4. Spec => [][Forward]_vars
  BY <1>1, <1>2, <1>3, PTL DEF Spec
<1> QED BY <1>4 DEF CheckpointNeverRegresses

\* A callback that commits is a delivery that Delivery allows then: that of the last event
\* once more, or of the next one.
LEMMA CallbackDelivers ==
    ASSUME IInv, NEW w \in Worker, CommitHandle(w)
    PROVE  Promise!Deliver(at[w]) /\ at[w] \in DOMAIN log
<1>l. LastApplied = Delivered /\ LastApplied' = Delivered'
  BY SameLast DEF LastApplied, Delivered, LastOf, After, NoEventPosition
<1>1. UNCHANGED <<log, checkpoint>> /\ Delivered' = at[w]
  BY CommitHandleDelivers DEF CommitHandle
<1>2. at[w] \in DOMAIN log /\ at[w] # 0
  BY LogDomain DEF IInv, TypeInv, Holding, CommitHandle
<1>3. at[w] = Delivered \/ (Delivered = checkpoint /\ NextOf(log, at[w], Delivered))
  BY DEF IInv, DeliveryInv, WriterOK, CommitHandle
<1>4. Promise!MayDeliver(at[w])
  <2>1. \A e : Promise!InQuery(e, HandlerQuery) <=> InQuery(e, HandlerQuery)
    BY DEF InQuery, Promise!InQuery, Matches, Promise!Matches
  <2>2. CASE at[w] = Delivered
    BY <1>l, <1>2, <2>2 DEF Promise!MayDeliver, Promise!NoEventPosition
  <2>3. CASE Delivered = checkpoint /\ NextOf(log, at[w], Delivered)
    BY <1>l, <2>1, <2>3 DEF Promise!MayDeliver, Promise!Wanted, Promise!After, NextOf
  <2> QED BY <1>3, <2>2, <2>3
<1> QED BY <1>l, <1>1, <1>2, <1>4 DEF Promise!Deliver

\* The loop, its subscriptions and workers, crashes and retries implement Delivery: each
\* step is a delivery, an advance of the checkpoint, a reset, an event more, or a stutter,
\* and each callback is a delivery, also one for the last event that leaves applied alone.
THEOREM DeliveryImplemented ==
    ASSUME OnlineReset = FALSE
    PROVE  Spec => ImplementsDelivery
<1>1. Init => IInv
  BY TypeInit, DeliveryInit DEF IInv
<1>2. IInv /\ [Next]_vars => IInv'
  BY InvStep
<1>3. Init => Promise!Init
  <2>1. Init => LastApplied = NoEventPosition
    BY DEF Init, LastApplied
  <2> QED BY <2>1 DEF Init, Promise!Init, NoEventPosition, Promise!NoEventPosition
<1>4. IInv /\ [Next]_vars => [Promise!Next]_(Promise!vars)
  <2> SUFFICES ASSUME IInv, [Next]_vars PROVE [Promise!Next]_(Promise!vars)
    OBVIOUS
  <2>l. LastApplied = Delivered /\ LastApplied' = Delivered'
    BY SameLast DEF LastApplied, Delivered, LastOf, After, NoEventPosition
  <2>1. ASSUME NEW event \in Event, AppendEvent(event) PROVE Promise!Next
    <3>1. Promise!AppendEvent(event)
      BY <2>1 DEF AppendEvent, handlerVars, Promise!AppendEvent, LastApplied
    <3> QED BY <3>1 DEF Promise!Next
  <2>2. ASSUME NEW w \in Worker, CommitHandle(w) PROVE Promise!Next
    BY <2>2, CallbackDelivers DEF Promise!Next
  <2>3. ASSUME NEW w \in Worker, CommitCheckpoint(w) PROVE Promise!Next
    <3>1. UNCHANGED <<log, applied>> /\ checkpoint' = Delivered
      BY <2>3, CommitCheckpointDelivers DEF CommitCheckpoint
    <3>2. Delivered' = Delivered
      BY <3>1 DEF Delivered
    <3>3. Promise!Advance
      BY <2>l, <3>1, <3>2 DEF Promise!Advance
    <3> QED BY <3>3 DEF Promise!Next
  <2>4. ASSUME ResetReadModels PROVE Promise!Next
    <3>1. UNCHANGED log /\ checkpoint' = 0 /\ Delivered' = 0
      BY <2>4, ResetDelivers DEF ResetReadModels
    <3>2. Promise!Reset
      BY <2>l, <3>1 DEF Promise!Reset, Promise!NoEventPosition
    <3> QED BY <3>2 DEF Promise!Next
  <2>5. CASE UNCHANGED <<log, applied, checkpoint>>
    <3>1. Delivered' = Delivered
      BY <2>5 DEF Delivered
    <3> QED BY <2>l, <2>5, <3>1 DEF Promise!vars
  <2> QED BY <2>1, <2>2, <2>3, <2>4, <2>5
          DEF Next, WorkerStep, LoopStep, vars, handlerVars, Subscribe, Receive, BeginHandle,
              Begin, NotifyDone, NotifyFails, BeginCheckpoint, RollBack, GiveUp, WorkerEnds,
              Boot, LookupFails, DelayOver, SubscriptionEnds, Stop, Exit
<1> DEFINE Delivering == \A w \in Worker : CommitHandle(w) => Promise!Deliver(at[w])
<1>5. IInv /\ [Next]_vars => [Delivering]_vars
  BY CallbackDelivers
<1>6. Spec => Promise!Spec
  BY <1>1, <1>2, <1>3, <1>4, PTL DEF Spec, Promise!Spec
<1>7. Spec => [][Delivering]_vars
  BY <1>1, <1>2, <1>5, PTL DEF Spec
<1> QED BY <1>6, <1>7 DEF ImplementsDelivery, CallbacksDeliver
===============================================================================
