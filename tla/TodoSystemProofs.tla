---------------------------- MODULE TodoSystemProofs ----------------------------
(***************************************************************************)
(* The todo feature end to end, for any users, todos, titles, requests and  *)
(* workers: what is proved of its parts holds of the whole, and the page    *)
(* shows one moment of the log.                                             *)
(*                                                                         *)
(* A request step is one of TodoCommands once the list a bulk command       *)
(* starts from is known to be one some log could have given: every row is   *)
(* grounded in events.  A step of the projection is one of EventHandler, so *)
(* the delivery order proved there holds here, and a row is brought from    *)
(* what the log says at one position to what it says at the next.           *)
(***************************************************************************)
EXTENDS TodoSystem, TodoLifecycleProofs, TodoContextProofs

HP == INSTANCE EventHandlerProofs WITH
    HandlerQuery <- TodoReadModelEventHandlerQuery, GivesUp <- FALSE

\* The instance meets the assumptions of EventHandler.
LEMMA HandlerAssumptions == HP!WorkerAssumption /\ HP!FlagsAssumption /\ HP!BoundsAssumption
BY NoWorkerAssumption, ResetsAssumption, MaxEventsAssumption
   DEF HP!WorkerAssumption, HP!FlagsAssumption, HP!BoundsAssumption

\* Whoever wrote a row wrote what some event says: its todo was created by its user,
\* and completed when it is shown so.
Grounded(t) ==
    todo_items[t] # NoRow =>
      /\ \E i \in DOMAIN log : /\ log[i].type = "TodoCreated"
                               /\ log[i].todo = t /\ log[i].user = todo_items[t].user
      /\ todo_items[t].completed =>
           \E i \in DOMAIN log : /\ log[i].type = "TodoCompleted"
                                 /\ log[i].todo = t /\ log[i].user = todo_items[t].user

SystemInv ==
    /\ CommandsInv
    /\ HP!TypeInv
    /\ todo_items \in [Todo -> Row \cup {NoRow}]
    /\ \A t \in Todo : Grounded(t)

-------------------------------------------------------------------------------
(* The parts.                                                               *)

\* The list a bulk command starts from is one TodoCommands allows.
LEMMA ListMayBeListed ==
    ASSUME SystemInv, NEW b \in BulkCommand, NEW t \in BulkItems(b)
    PROVE  MayBeListed(b.op, t, b.user)
<1>1. /\ t \in Todo /\ todo_items[t] # NoRow /\ todo_items[t].user = b.user
      /\ todo_items[t].completed = (b.op # "complete")
  BY DEF BulkItems, List
<1>2. \A i \in DOMAIN log : InStream(i, t, b.user) <=> log[i].todo = t /\ log[i].user = b.user
  BY InStreamFields DEF SystemInv, CommandsInv, IInv, TypeOK
<1>3. Grounded(t)
  BY <1>1 DEF SystemInv
<1>4. Exists(t, b.user)
  BY <1>1, <1>2, <1>3 DEF Grounded, Exists
<1>5. ASSUME b.op # "complete"
      PROVE  \E i \in DOMAIN log : InStream(i, t, b.user) /\ log[i].type = "TodoCompleted"
  BY <1>1, <1>2, <1>3, <1>5 DEF Grounded
<1> QED BY <1>4, <1>5 DEF MayBeListed

\* A request step is a step of the commands.
LEMMA RequestRuns ==
    ASSUME SystemInv, RequestStep
    PROVE  Next /\ UNCHANGED <<handlerVars, todo_items>>
<1>1. ASSUME NEW r \in Request, NEW b \in BulkCommand, StartBulk(r, b, BulkItems(b))
      PROVE  Next
  <2>1. BulkItems(b) \in SUBSET Todo
    BY DEF BulkItems, List
  <2>2. \A t \in BulkItems(b) : MayBeListed(b.op, t, b.user)
    BY ListMayBeListed
  <2> QED BY <1>1, <2>1, <2>2 DEF Next
<1>2. ASSUME \/ \E t \in Todo, u \in User, name \in Title : CreateTodo(t, u, name)
             \/ \E r \in Request, c \in Command :
                  LoadNotFound(r, c) \/ LoadSkip(r, c) \/ LoadReady(r, c)
             \/ \E r \in Request : SaveConflict(r) \/ SaveCommit(r) \/ Abort(r)
      PROVE  Next
  BY <1>2 DEF Next
<1> QED BY <1>1, <1>2 DEF RequestStep

\* It appends one event or leaves the log alone.
LEMMA RequestAppends ==
    ASSUME SystemInv, RequestStep
    PROVE  log' = log \/ \E e \in Event : HP!AppendEvent(e)
<1>0. UNCHANGED handlerVars
  BY DEF RequestStep
<1>1. log' = log \/ (Len(log) < MaxEvents /\ \E e \in Event : log' = Append(log, e))
  <2>1. log' = log \/ \E e \in Event : log' = Append(log, e)
    BY RequestRuns, StepShape DEF SystemInv, CommandsInv, IInv
  <2>2. log' = log \/ Len(log) < MaxEvents
    BY DEF RequestStep, CreateTodo, StartBulk, LoadNotFound, LoadSkip, LoadReady, SaveConflict,
           SaveCommit, Abort
  <2> QED BY <2>1, <2>2
<1> QED BY <1>0, <1>1 DEF HP!AppendEvent, handlerVars, HP!handlerVars

\* A process that ends takes its requests with it.
LEMMA ExitKeepsCommands == ASSUME CommandsInv, Exit PROVE CommandsInv'
<1>1. /\ log' = log
      /\ \A r \in Request : /\ pc'[r] = "idle" /\ command'[r] = NoCommand /\ bulk'[r] = NoCommand
                            /\ position'[r] = 0 /\ pending'[r] = {}
  BY DEF Exit, Handler!Exit, NoEventPosition
<1>2. TypeOK'
  BY <1>1 DEF Exit, CommandsInv, IInv, TypeOK, NoEventPosition
<1>3. DecisionsHold' /\ TitlesFit'
  BY <1>1 DEF DecisionsHold, TitlesFit, CommandsInv
<1>4. LogShape'
  BY <1>1 DEF CommandsInv, IInv, LogShape, OwnStream, NothingAfterDelete, TogglesAlternate,
              RenameChangesTitle
<1> QED BY <1>2, <1>3, <1>4 DEF CommandsInv, IInv

\* The commands of the system keep what TodoCommandsProofs shows of them.
LEMMA CommandsRun == ASSUME SystemInv, [SystemNext]_systemVars PROVE CommandsInv'
<1>1. CASE RequestStep
  BY <1>1, RequestRuns, CommandsStep DEF SystemInv
<1>2. CASE Exit
  BY <1>2, ExitKeepsCommands DEF SystemInv
<1>3. CASE \/ \E w \in Worker : ProjectEvent(w)
           \/ HandlerStep \/ ResetReadModels
           \/ UNCHANGED systemVars
  <2>1. log' = log
    BY <1>3 DEF ProjectEvent, HandlerStep, ResetReadModels, systemVars, vars, Handler!CommitHandle,
       Handler!Subscribe, Handler!Receive, Handler!BeginHandle, Handler!Begin, Handler!RollBack,
       Handler!NotifyDone, Handler!NotifyFails, Handler!BeginCheckpoint, Handler!CommitCheckpoint,
       Handler!WorkerEnds, Handler!Boot, Handler!LookupFails, Handler!DelayOver,
       Handler!SubscriptionEnds, Handler!Stop, Handler!ResetReadModels
  <2>2. UNCHANGED requestVars
    BY <1>3 DEF ProjectEvent, HandlerStep, ResetReadModels, systemVars, vars, requestVars
  <2>3. UNCHANGED vars
    BY <2>1, <2>2 DEF vars, requestVars
  <2> QED BY <2>3, CommandsStep DEF SystemInv
<1> QED BY <1>1, <1>2, <1>3 DEF SystemNext

\* The handler of the system is an EventHandler.
LEMMA HandlerRuns == ASSUME SystemInv, [SystemNext]_systemVars PROVE [HP!Next]_HP!vars
<1>1. CASE RequestStep
  <2>1. UNCHANGED handlerVars
    BY <1>1 DEF RequestStep
  <2> QED BY <1>1, <2>1, RequestAppends DEF HP!Next, HP!vars, HP!handlerVars, handlerVars
<1>2. ASSUME NEW w \in Worker, ProjectEvent(w) PROVE HP!Next
  <2>1. HP!CommitHandle(w)
    BY <1>2 DEF ProjectEvent, Handler!CommitHandle, HP!CommitHandle, Handler!Goto, HP!Goto
  <2> QED BY <2>1 DEF HP!Next, HP!WorkerStep
<1>3. CASE HandlerStep
  <2>1. ASSUME NEW w \in Worker,
               \/ Handler!Subscribe(w) \/ Handler!Receive(w)
               \/ Handler!BeginHandle(w) \/ Handler!RollBack(w)
               \/ Handler!NotifyDone(w) \/ Handler!NotifyFails(w)
               \/ Handler!BeginCheckpoint(w) \/ Handler!CommitCheckpoint(w)
               \/ Handler!WorkerEnds(w)
        PROVE  HP!WorkerStep(w)
    <3> USE DEF HP!WorkerStep, Handler!Goto, HP!Goto
    <3>1. CASE Handler!Subscribe(w)
      BY <3>1 DEF Handler!Subscribe, HP!Subscribe, Handler!GetCheckpoint, HP!GetCheckpoint
    <3>2. CASE Handler!Receive(w)
      BY <3>2 DEF Handler!Receive, HP!Receive, Handler!IsNext, HP!IsNext, Handler!Wanted, HP!Wanted,
                  Handler!After, HP!After, Handler!InQuery, HP!InQuery, Handler!Matches, HP!Matches
    <3>3. CASE Handler!BeginHandle(w) \/ Handler!BeginCheckpoint(w)
      BY <3>3 DEF Handler!BeginHandle, HP!BeginHandle, Handler!BeginCheckpoint, HP!BeginCheckpoint,
                  Handler!Begin, HP!Begin, Handler!WriterFree, HP!WriterFree,
                  Handler!InTransaction, HP!InTransaction
    <3>4. CASE Handler!RollBack(w)
      BY <3>4 DEF Handler!RollBack, HP!RollBack, Handler!InTransaction, HP!InTransaction
    <3>5. CASE Handler!NotifyDone(w) \/ Handler!NotifyFails(w)
      BY <3>5 DEF Handler!NotifyDone, HP!NotifyDone, Handler!NotifyFails, HP!NotifyFails
    <3>6. CASE Handler!CommitCheckpoint(w)
      BY <3>6 DEF Handler!CommitCheckpoint, HP!CommitCheckpoint
    <3>7. CASE Handler!WorkerEnds(w)
      BY <3>7 DEF Handler!WorkerEnds, HP!WorkerEnds, Handler!Leave, HP!Leave, Handler!InTransaction,
                  HP!InTransaction, Handler!NoEventPosition, HP!NoEventPosition
    <3> QED BY <2>1, <3>1, <3>2, <3>3, <3>4, <3>5, <3>6, <3>7
  <2>2. ASSUME \/ Handler!Boot \/ Handler!LookupFails \/ Handler!DelayOver
               \/ Handler!SubscriptionEnds \/ Handler!Stop
        PROVE  HP!LoopStep
    BY <2>2 DEF HP!LoopStep, Handler!Boot, HP!Boot, Handler!LookupFails, HP!LookupFails,
                Handler!DelayOver, HP!DelayOver, Handler!SubscriptionEnds, HP!SubscriptionEnds,
                Handler!Stop, HP!Stop
  <2> QED BY <1>3, <2>1, <2>2 DEF HandlerStep, HP!Next
<1>4. CASE Exit
  <2>1. HP!Exit
    BY <1>4 DEF Exit, Handler!Exit, HP!Exit, Handler!NoEventPosition, HP!NoEventPosition
  <2> QED BY <2>1 DEF HP!Next, HP!LoopStep
<1>5. CASE ResetReadModels
  <2>1. HP!ResetReadModels
    BY <1>5 DEF ResetReadModels, Handler!ResetReadModels, HP!ResetReadModels, Handler!WriterFree,
       HP!WriterFree, Handler!InTransaction, HP!InTransaction, Handler!NoEventPosition,
       HP!NoEventPosition
  <2> QED BY <2>1 DEF HP!Next, HP!LoopStep
<1>6. CASE UNCHANGED systemVars
  BY <1>6 DEF systemVars, vars, handlerVars, HP!vars, HP!handlerVars
<1> QED BY <1>1, <1>2, <1>3, <1>4, <1>5, <1>6 DEF SystemNext

-------------------------------------------------------------------------------
(* Rows.                                                                    *)

\* What a step does to the table and the log it is grounded in.
LEMMA StepWrites ==
    ASSUME SystemInv, [SystemNext]_systemVars
    PROVE  /\ log' = log \/ \E e \in Event : log' = Append(log, e)
           /\ \/ todo_items' = todo_items
              \/ todo_items' = NoItems
              \/ \E w \in Worker : ProjectEvent(w)
<1>1. log' = log \/ \E e \in Event : log' = Append(log, e)
  <2>1. CASE RequestStep
    BY <2>1, RequestAppends DEF HP!AppendEvent
  <2>2. CASE ~ RequestStep
    BY <2>2 DEF SystemNext, Exit, ProjectEvent, HandlerStep, ResetReadModels, systemVars, vars,
       Handler!CommitHandle, Handler!Subscribe, Handler!Receive, Handler!BeginHandle,
       Handler!Begin, Handler!RollBack, Handler!NotifyDone, Handler!NotifyFails,
       Handler!BeginCheckpoint, Handler!CommitCheckpoint, Handler!WorkerEnds, Handler!Boot,
       Handler!LookupFails, Handler!DelayOver, Handler!SubscriptionEnds, Handler!Stop,
       Handler!Exit, Handler!ResetReadModels
  <2> QED BY <2>1, <2>2
<1>2. \/ todo_items' = todo_items
      \/ todo_items' = NoItems
      \/ \E w \in Worker : ProjectEvent(w)
  BY DEF SystemNext, RequestStep, HandlerStep, Exit, ResetReadModels, systemVars
<1> QED BY <1>1, <1>2

\* The event a worker projects, one of the log whose title fits its type.
LEMMA ProjectedEvent ==
    ASSUME SystemInv, NEW w \in Worker, ProjectEvent(w)
    PROVE  /\ at[w] \in DOMAIN log /\ log[at[w]] \in Event
           /\ log' = log /\ todo_items' = Project(todo_items, log[at[w]])
           /\ log[at[w]].title \in Title <=> log[at[w]].type \in TitledTypes
<1>1. step[w] = "handleTx" /\ log' = log
  BY DEF ProjectEvent, Handler!CommitHandle
<1>2. at[w] \in DOMAIN log
  BY <1>1 DEF SystemInv, HP!TypeInv, HP!Holding
<1>3. log[at[w]] \in Event
  BY <1>2 DEF SystemInv, CommandsInv, IInv, TypeOK
<1> QED BY <1>1, <1>2, <1>3 DEF ProjectEvent, SystemInv, CommandsInv, TitlesFit

\* The row of a todo after one of its events, and the other rows.
LEMMA ProjectedRow ==
    ASSUME NEW items \in [Todo -> Row \cup {NoRow}], NEW e \in Event,
           e.title \in Title <=> e.type \in TitledTypes
    PROVE  /\ Project(items, e) \in [Todo -> Row \cup {NoRow}]
           /\ \A t \in Todo : t # e.todo => Project(items, e)[t] = items[t]
           /\ items[e.todo] = NoRow =>
                Project(items, e)[e.todo] =
                  IF e.type = "TodoCreated"
                  THEN [user |-> e.user, title |-> e.title, completed |-> FALSE, deleted |-> FALSE]
                  ELSE NoRow
           /\ items[e.todo] # NoRow =>
                /\ Project(items, e)[e.todo] \in Row
                /\ Project(items, e)[e.todo].user = items[e.todo].user
                /\ Project(items, e)[e.todo].title =
                     IF e.type = "TodoRenamed" THEN e.title ELSE items[e.todo].title
                /\ Project(items, e)[e.todo].completed =
                     IF e.type = "TodoCompleted" THEN TRUE
                     ELSE IF e.type = "TodoReopened" THEN FALSE ELSE items[e.todo].completed
                /\ Project(items, e)[e.todo].deleted =
                     IF e.type = "TodoDeleted" THEN TRUE ELSE items[e.todo].deleted
<1>1. e.todo \in Todo /\ e.user \in User /\ e.type \in TodoEventType
  BY DEF Event
<1>p. /\ e.type = "TodoCreated" => Project(items, e) = InsertCreatedTodo(items, e)
      /\ e.type = "TodoRenamed" => Project(items, e) = UpdateTodo(items, e.todo, "title", e.title)
      /\ e.type = "TodoCompleted" => Project(items, e) = UpdateTodo(items, e.todo, "completed", TRUE)
      /\ e.type = "TodoReopened" => Project(items, e) = UpdateTodo(items, e.todo, "completed", FALSE)
      /\ e.type = "TodoDeleted" => Project(items, e) = UpdateTodo(items, e.todo, "deleted", TRUE)
  BY Zenon DEF Project, RenameTodo, CompleteTodo, ReopenTodo, DeleteTodo
<1>2. CASE items[e.todo] = NoRow
  <2>1. CASE e.type = "TodoCreated"
    <3>1. PICK row \in Row : row = [user |-> e.user, title |-> e.title,
                                   completed |-> FALSE, deleted |-> FALSE]
      BY <1>1, <2>1 DEF Row, TitledTypes
    <3>2. Project(items, e) = [items EXCEPT ![e.todo] = row]
      BY <1>p, <1>2, <2>1, <3>1 DEF InsertCreatedTodo
    <3> QED BY <1>1, <1>2, <2>1, <3>1, <3>2
  <2>2. CASE e.type # "TodoCreated"
    <3>1. Project(items, e) = items
      BY <1>1, <1>p, <1>2, <2>2 DEF UpdateTodo, TodoEventType
    <3> QED BY <1>2, <2>2, <3>1
  <2> QED BY <2>1, <2>2
<1>3. CASE items[e.todo] # NoRow
  <2>1. items[e.todo] \in Row
    BY <1>1, <1>3
  <2>2. CASE e.type = "TodoCreated"
    BY <1>1, <1>p, <1>3, <2>1, <2>2 DEF InsertCreatedTodo, Row
  <2>3. CASE e.type = "TodoRenamed"
    BY <1>1, <1>p, <1>3, <2>1, <2>3 DEF UpdateTodo, Row, TitledTypes
  <2>4. CASE e.type = "TodoCompleted"
    <3>1. PICK row \in Row : row = [items[e.todo] EXCEPT !["completed"] = TRUE]
      BY <2>1 DEF Row
    <3>2. /\ row.user = items[e.todo].user /\ row.title = items[e.todo].title
          /\ row.completed = TRUE /\ row.deleted = items[e.todo].deleted
      BY <2>1, <3>1 DEF Row
    <3>3. Project(items, e) = [items EXCEPT ![e.todo] = row]
      BY <1>p, <1>3, <2>4, <3>1 DEF UpdateTodo
    <3> QED BY <1>1, <1>3, <2>4, <3>2, <3>3
  <2>5. CASE e.type = "TodoReopened"
    <3>1. PICK row \in Row : row = [items[e.todo] EXCEPT !["completed"] = FALSE]
      BY <2>1 DEF Row
    <3>2. /\ row.user = items[e.todo].user /\ row.title = items[e.todo].title
          /\ row.completed = FALSE /\ row.deleted = items[e.todo].deleted
      BY <2>1, <3>1 DEF Row
    <3>3. Project(items, e) = [items EXCEPT ![e.todo] = row]
      BY <1>p, <1>3, <2>5, <3>1 DEF UpdateTodo
    <3> QED BY <1>1, <1>3, <2>5, <3>2, <3>3
  <2>6. CASE e.type = "TodoDeleted"
    <3>1. PICK row \in Row : row = [items[e.todo] EXCEPT !["deleted"] = TRUE]
      BY <2>1 DEF Row
    <3>2. /\ row.user = items[e.todo].user /\ row.title = items[e.todo].title
          /\ row.completed = items[e.todo].completed /\ row.deleted = TRUE
      BY <2>1, <3>1 DEF Row
    <3>3. Project(items, e) = [items EXCEPT ![e.todo] = row]
      BY <1>p, <1>3, <2>6, <3>1 DEF UpdateTodo
    <3> QED BY <1>1, <1>3, <2>6, <3>2, <3>3
  <2> QED BY <1>1, <2>2, <2>3, <2>4, <2>5, <2>6 DEF TodoEventType
<1> QED BY <1>2, <1>3

\* Events of one todo are of one user.
LEMMA OneOwner ==
    ASSUME CommandsInv, NEW i \in DOMAIN log, NEW j \in DOMAIN log, log[i].todo = log[j].todo
    PROVE  log[i].user = log[j].user
<1>0. DOMAIN log = 1..Len(log) /\ Len(log) \in Nat /\ OwnStream
  BY DEF CommandsInv, IInv, TypeOK, LogShape
<1>1. PICK k \in DOMAIN log : log[k].type = "TodoCreated" /\ log[k].todo = log[i].todo
                              /\ log[k].user = log[i].user
  BY <1>0 DEF OwnStream
<1>2. PICK m \in DOMAIN log : log[m].type = "TodoCreated" /\ log[m].todo = log[j].todo
                              /\ log[m].user = log[j].user
  BY <1>0 DEF OwnStream
<1>3. k = m
  BY <1>0, <1>1, <1>2 DEF OwnStream
<1> QED BY <1>1, <1>2, <1>3

\* Every row stays grounded.
LEMMA RowsStep ==
    ASSUME SystemInv, [SystemNext]_systemVars
    PROVE  /\ todo_items' \in [Todo -> Row \cup {NoRow}]
           /\ \A t \in Todo : Grounded(t)'
<1>0. log \in Seq(Event)
  BY DEF SystemInv, CommandsInv, IInv, TypeOK
<1>1. \A i \in DOMAIN log : i \in DOMAIN log' /\ log'[i] = log[i]
  BY <1>0, StepWrites, Appended
<1>2. CASE todo_items' = todo_items
  <2>1. ASSUME NEW t \in Todo PROVE Grounded(t)'
    <3>1. Grounded(t)
      BY DEF SystemInv
    <3> QED BY <1>1, <1>2, <3>1 DEF Grounded
  <2> QED BY <1>2, <2>1 DEF SystemInv
<1>3. CASE todo_items' = NoItems
  BY <1>3 DEF NoItems, Grounded
<1>4. ASSUME NEW w \in Worker, ProjectEvent(w)
      PROVE  /\ todo_items' \in [Todo -> Row \cup {NoRow}]
             /\ \A t \in Todo : Grounded(t)'
  <2>1. PICK n \in DOMAIN log : n = at[w]
    BY <1>4, ProjectedEvent
  <2>2. PICK e \in Event : e = log[n]
    BY <1>4, <2>1, ProjectedEvent
  <2>3. /\ log' = log /\ todo_items' = Project(todo_items, e)
        /\ todo_items \in [Todo -> Row \cup {NoRow}]
        /\ e.title \in Title <=> e.type \in TitledTypes
    BY <1>4, <2>1, <2>2, ProjectedEvent DEF SystemInv
  <2>4. ASSUME NEW t \in Todo PROVE Grounded(t)'
    <3>0. Grounded(t)
      BY DEF SystemInv
    <3>1. CASE t # e.todo
      <4>1. todo_items'[t] = todo_items[t]
        BY <2>3, <3>1, ProjectedRow
      <4> QED BY <2>3, <3>0, <4>1 DEF Grounded
    <3>2. CASE t = e.todo /\ todo_items[t] = NoRow
      <4>1. todo_items'[t] = IF e.type = "TodoCreated"
                             THEN [user |-> e.user, title |-> e.title,
                                   completed |-> FALSE, deleted |-> FALSE]
                             ELSE NoRow
        BY <2>3, <3>2, ProjectedRow
      <4> QED BY <2>2, <2>3, <3>2, <4>1 DEF Grounded
    <3>3. CASE t = e.todo /\ todo_items[t] # NoRow
      <4>1. /\ todo_items'[t].user = todo_items[t].user
            /\ todo_items'[t].completed =
                 IF e.type = "TodoCompleted" THEN TRUE
                 ELSE IF e.type = "TodoReopened" THEN FALSE ELSE todo_items[t].completed
        BY <2>3, <3>3, ProjectedRow
      <4>2. PICK i \in DOMAIN log : /\ log[i].type = "TodoCreated" /\ log[i].todo = t
                                    /\ log[i].user = todo_items[t].user
        BY <3>0, <3>3 DEF Grounded
      <4>3. e.user = todo_items[t].user
        BY <2>2, <3>3, <4>2, OneOwner DEF SystemInv
      <4>4. todo_items'[t].completed =>
              \E j \in DOMAIN log : /\ log[j].type = "TodoCompleted"
                                    /\ log[j].todo = t /\ log[j].user = todo_items[t].user
        BY <2>2, <3>0, <3>3, <4>1, <4>3 DEF Grounded
      <4> QED BY <2>3, <4>1, <4>2, <4>4 DEF Grounded
    <3> QED BY <3>1, <3>2, <3>3
  <2> QED BY <2>3, <2>4, ProjectedRow
<1> QED BY <1>2, <1>3, <1>4, StepWrites

-------------------------------------------------------------------------------
(* What holds with resets of a running server as well.                      *)

LEMMA SystemInvInit == SystemInit => SystemInv
<1> SUFFICES ASSUME SystemInit PROVE SystemInv
  OBVIOUS
<1>1. CommandsInv
  BY CommandsInit DEF SystemInit
<1>2. HP!Init
  BY DEF SystemInit, Handler!Init, HP!Init, Handler!NoEventPosition, HP!NoEventPosition
<1>3. HP!TypeInv
  BY <1>2, HP!TypeInit, HandlerAssumptions
<1>4. \A t \in Todo : todo_items[t] = NoRow
  BY DEF SystemInit, NoItems
<1>5. todo_items \in [Todo -> Row \cup {NoRow}]
  BY DEF SystemInit, NoItems
<1> QED BY <1>1, <1>3, <1>4, <1>5 DEF SystemInv, Grounded

LEMMA SystemInvStep == SystemInv /\ [SystemNext]_systemVars => SystemInv'
<1> SUFFICES ASSUME SystemInv, [SystemNext]_systemVars PROVE SystemInv'
  OBVIOUS
<1>1. HP!TypeInv /\ [HP!Next]_HP!vars
  BY HandlerRuns DEF SystemInv
<1>2. HP!TypeInv'
  BY <1>1, HP!TypeStep, HandlerAssumptions
<1> QED BY <1>2, CommandsRun, RowsStep DEF SystemInv

LEMMA SystemInductive == SystemSpec => []SystemInv
BY SystemInvInit, SystemInvStep, PTL DEF SystemSpec

\* Requests, handler and table keep their types, whatever crashes and resets come
\* between their steps.
THEOREM SystemTypeCorrect == SystemSpec => []SystemTypeOK
<1>1. SystemInv => SystemTypeOK
  <2> SUFFICES ASSUME SystemInv PROVE SystemTypeOK
    OBVIOUS
  <2>1. TypeOK
    BY DEF SystemInv, CommandsInv, IInv
  <2>2. HP!TypeOK
    BY DEF SystemInv, HP!TypeInv
  <2>3. Handler!TypeOK
    BY <2>2 DEF HP!TypeOK, Handler!TypeOK
  <2> QED BY <2>1, <2>3 DEF SystemInv, SystemTypeOK
<1> QED BY <1>1, SystemInductive, PTL

\* The streams stay legal in the whole system: bulk commands start from lists of a table
\* that lags behind or was reset under a running server, and requests die with the
\* process, but every decision that is saved holds.
THEOREM SystemKeepsStreams ==
    SystemSpec => [](DecisionsHold /\ OwnStream /\ NothingAfterDelete /\ TogglesAlternate
                     /\ RenameChangesTitle)
<1>1. SystemInv => DecisionsHold /\ OwnStream /\ NothingAfterDelete /\ TogglesAlternate
                   /\ RenameChangesTitle
  BY DEF SystemInv, CommandsInv, IInv, LogShape
<1> QED BY <1>1, SystemInductive, PTL

\* A row is never made up, a reset under a running server included: its todo was created
\* by the user whose list it is in, and completed at some time when it is shown so.
THEOREM RowsAreGrounded == SystemSpec => [](\A t \in Todo : Grounded(t))
<1>1. SystemInv => \A t \in Todo : Grounded(t)
  BY DEF SystemInv
<1> QED BY <1>1, SystemInductive, PTL

\* What the handlers read is enough in the whole system too: the last event of each type
\* gives the context that the whole stream gives.
THEOREM SystemReadsLatest == SystemSpec => []LatestPerTypeSuffices
<1>1. SystemInv => LatestPerTypeSuffices
  BY LatestSuffices DEF SystemInv, CommandsInv, IInv, TypeOK
<1> QED BY <1>1, SystemInductive, PTL

\* A step that is not a request's leaves the log alone.
LEMMA OthersKeepLog == SystemNext /\ ~ RequestStep => log' = log
BY DEF SystemNext, Exit, ProjectEvent, HandlerStep, ResetReadModels, Handler!CommitHandle,
   Handler!Subscribe, Handler!Receive, Handler!BeginHandle, Handler!Begin, Handler!RollBack,
   Handler!NotifyDone, Handler!NotifyFails, Handler!BeginCheckpoint, Handler!CommitCheckpoint,
   Handler!WorkerEnds, Handler!Boot, Handler!LookupFails, Handler!DelayOver,
   Handler!SubscriptionEnds, Handler!Stop, Handler!Exit, Handler!ResetReadModels

\* So each step of the system is one of TodoLifecycle, or leaves all todos alone.
LEMMA SystemLifecycleStep ==
    SystemInv /\ LifeInv /\ [SystemNext]_systemVars
      => LifeInv' /\ [Lifecycle!Next]_Lifecycle!vars
<1> SUFFICES ASSUME SystemInv, LifeInv, [SystemNext]_systemVars
             PROVE  LifeInv' /\ [Lifecycle!Next]_Lifecycle!vars
  OBVIOUS
<1>1. CASE RequestStep
  <2>1. [Next]_vars
    BY <1>1, RequestRuns
  <2> QED BY <2>1, LifeInvStep, LifecycleStep
<1>2. CASE ~ RequestStep
  <2>1. log' = log
    BY <1>2, OthersKeepLog DEF systemVars, vars
  <2>2. LifeInv'
    BY <2>1, CommandsRun DEF LifeInv, Titles, HasTitle, EventsOf, After
  <2>3. UNCHANGED Lifecycle!vars
    BY <2>1 DEF Lifecycle!vars, StatusOf, OwnerOf, TitleOf, EventsOf, After
  <2> QED BY <2>2, <2>3
<1> QED BY <1>1, <1>2

\* The life of todos is the one TodoLifecycle describes in the whole system as well:
\* whatever list of a lagging or reset table a bulk command starts from, and wherever
\* the process ends, every save is one legal step of one todo of its owner.
THEOREM SystemFollowsLifecycle == SystemSpec => ImplementsLifecycle
<1>1. SystemInit => LifeInv /\ Lifecycle!Init
  BY LifeInvInit, LifecycleInit DEF SystemInit
<1>2. SystemSpec => Lifecycle!Init /\ [][Lifecycle!Next]_Lifecycle!vars
  BY <1>1, SystemLifecycleStep, SystemInductive, PTL DEF SystemSpec
<1> QED BY <1>2 DEF ImplementsLifecycle, Lifecycle!Spec

-------------------------------------------------------------------------------
(* Bulk commands and their lists.                                           *)

\* The todos a bulk command has left were listed with reason, and a single command it
\* is about to save is for one of them.
Listed(r) ==
    bulk[r] # NoCommand =>
      /\ \A t \in pending[r] : MayBeListed(bulk[r].op, t, bulk[r].user)
      /\ pc[r] = "save" => /\ command[r].op = bulk[r].op /\ command[r].user = bulk[r].user
                           /\ command[r].todo \in pending[r]

ListedInv == SystemInv /\ \A r \in Request : Listed(r)

\* A reason to list a todo does not go away.
ReasonsStay == \A op, t, u : MayBeListed(op, t, u) => MayBeListed(op, t, u)'

LEMMA LogReasonsStay == SystemInv /\ [SystemNext]_systemVars => ReasonsStay
<1> SUFFICES ASSUME SystemInv, [SystemNext]_systemVars, NEW op, NEW t, NEW u,
                    MayBeListed(op, t, u)
             PROVE  MayBeListed(op, t, u)'
  BY DEF ReasonsStay
<1>1. \A i \in DOMAIN log : i \in DOMAIN log' /\ log'[i] = log[i]
  BY StepWrites, Appended DEF SystemInv, CommandsInv, IInv, TypeOK
<1>2. \A i \in DOMAIN log : InStream(i, t, u) => InStream(i, t, u)'
  BY <1>1 DEF InStream
<1> QED BY <1>1, <1>2 DEF MayBeListed, Exists

\* A request that leaves keeps at most the rest of its list.
LEMMA LeaveListed ==
    ASSUME ListedInv, ReasonsStay, NEW r \in Request, NEW place \in {"idle", "loop"},
           NEW rest \in SUBSET pending[r], Leave(r, place, rest), NEW q \in Request
    PROVE  Listed(q)'
<1>0. TypeOK /\ Listed(q)
  BY DEF ListedInv, SystemInv, CommandsInv, IInv
<1>1. CASE q = r
  <2>1. pc'[q] = place /\ bulk'[q] \in {NoCommand, bulk[q]} /\ pending'[q] = rest
    BY <1>0, <1>1 DEF Leave, TypeOK
  <2> QED BY <1>0, <1>1, <2>1 DEF Listed, ReasonsStay
<1>2. CASE q # r
  <2>1. /\ pc'[q] = pc[q] /\ bulk'[q] = bulk[q] /\ pending'[q] = pending[q]
        /\ command'[q] = command[q]
    BY <1>0, <1>2 DEF Leave, TypeOK
  <2> QED BY <1>0, <2>1 DEF Listed, ReasonsStay
<1> QED BY <1>1, <1>2

LEMMA DoneListed ==
    ASSUME ListedInv, ReasonsStay, NEW r \in Request, NEW t, Done(r, t) \/ Return(r),
           NEW q \in Request
    PROVE  Listed(q)'
<1>1. \/ Leave(r, "idle", {})
      \/ Leave(r, "loop", pending[r] \ {t})
  BY DEF Done, Return
<1> QED BY <1>1, LeaveListed

LEMMA ListedInit == SystemInit => ListedInv
BY SystemInvInit DEF SystemInit, Init, ListedInv, Listed

LEMMA ListedStep == ListedInv /\ [SystemNext]_systemVars => ListedInv'
<1> SUFFICES ASSUME ListedInv, [SystemNext]_systemVars, NEW q \in Request PROVE Listed(q)'
  BY SystemInvStep DEF ListedInv
<1>0. SystemInv /\ TypeOK /\ ReasonsStay /\ Listed(q)
  BY LogReasonsStay DEF ListedInv, SystemInv, CommandsInv, IInv
<1>1. CASE UNCHANGED requestVars
  BY <1>0, <1>1 DEF requestVars, Listed, ReasonsStay
<1>2. ASSUME NEW r \in Request, NEW b \in BulkCommand, StartBulk(r, b, BulkItems(b))
      PROVE  Listed(q)'
  <2>1. log' = log
    BY <1>2 DEF StartBulk
  <2>2. CASE q = r
    <3>1. bulk'[q] = b /\ pending'[q] = BulkItems(b) /\ pc'[q] = "loop"
      BY <1>0, <1>2, <2>2 DEF StartBulk, TypeOK
    <3>2. \A t \in BulkItems(b) : MayBeListed(b.op, t, b.user)
      BY <1>0, ListMayBeListed
    <3> QED BY <1>0, <3>1, <3>2 DEF Listed, ReasonsStay
  <2>3. CASE q # r
    <3>1. /\ pc'[q] = pc[q] /\ bulk'[q] = bulk[q] /\ pending'[q] = pending[q]
          /\ command'[q] = command[q]
      BY <1>0, <1>2, <2>3 DEF StartBulk, TypeOK
    <3> QED BY <1>0, <3>1 DEF Listed, ReasonsStay
  <2> QED BY <2>2, <2>3
<1>3. ASSUME NEW r \in Request, NEW c \in Command, LoadNotFound(r, c) \/ LoadSkip(r, c)
      PROVE  Listed(q)'
  BY <1>0, <1>3, DoneListed DEF LoadNotFound, LoadSkip
<1>4. ASSUME NEW r \in Request, NEW c \in Command, LoadReady(r, c) PROVE Listed(q)'
  <2>1. CASE q = r
    <3>1. command'[q] = c /\ bulk'[q] = bulk[q] /\ pending'[q] = pending[q]
      BY <1>0, <1>4, <2>1 DEF LoadReady, TypeOK
    <3>2. bulk[q] # NoCommand => /\ c.op = bulk[q].op /\ c.user = bulk[q].user
                                /\ c.todo \in pending[q]
      BY <1>0, <1>4, <2>1 DEF LoadReady, MayRun, TypeOK
    <3> QED BY <1>0, <3>1, <3>2 DEF Listed, ReasonsStay
  <2>2. CASE q # r
    <3>1. /\ pc'[q] = pc[q] /\ bulk'[q] = bulk[q] /\ pending'[q] = pending[q]
          /\ command'[q] = command[q]
      BY <1>0, <1>4, <2>2 DEF LoadReady, TypeOK
    <3> QED BY <1>0, <3>1 DEF Listed, ReasonsStay
  <2> QED BY <2>1, <2>2
<1>5. ASSUME NEW r \in Request, SaveConflict(r) \/ SaveCommit(r) \/ Abort(r)
      PROVE  Listed(q)'
  BY <1>0, <1>5, DoneListed DEF SaveConflict, SaveCommit, Abort
<1>6. CASE RequestStep
  <2>1. ASSUME NEW t \in Todo, NEW u \in User, NEW name \in Title, CreateTodo(t, u, name)
        PROVE  UNCHANGED requestVars
    BY <2>1 DEF CreateTodo, requestVars
  <2> QED BY <1>1, <1>2, <1>3, <1>4, <1>5, <1>6, <2>1 DEF RequestStep
<1>7. CASE Exit
  BY <1>7 DEF Exit, Listed
<1>8. CASE \/ \E w \in Worker : ProjectEvent(w)
           \/ HandlerStep \/ ResetReadModels \/ UNCHANGED systemVars
  BY <1>1, <1>8 DEF ProjectEvent, HandlerStep, ResetReadModels, systemVars, vars, requestVars
<1> QED BY <1>6, <1>7, <1>8 DEF SystemNext

\* Clearing the completed todos deletes only todos of the user that were completed at some
\* time, however old the list is: also when the table it was read from lags behind or was
\* reset under the running server.
THEOREM ClearSparesOthers == SystemSpec => ClearDeletesOnceCompleted
<1>1. ListedInv /\ [SystemNext]_systemVars =>
        [\A r \in Request :
            SaveCommit(r) /\ bulk[r] # NoCommand /\ command[r].op = "delete"
            => \E i \in DOMAIN log :
                  InStream(i, command[r].todo, bulk[r].user) /\ log[i].type = "TodoCompleted"]_systemVars
  <2> SUFFICES ASSUME ListedInv, NEW r \in Request, SaveCommit(r), bulk[r] # NoCommand,
                      command[r].op = "delete"
               PROVE  \E i \in DOMAIN log :
                        InStream(i, command[r].todo, bulk[r].user) /\ log[i].type = "TodoCompleted"
    OBVIOUS
  <2>1. /\ command[r].op = bulk[r].op
        /\ MayBeListed(bulk[r].op, command[r].todo, bulk[r].user)
    BY DEF ListedInv, Listed, SaveCommit
  <2> QED BY <2>1 DEF MayBeListed
<1> QED BY <1>1, ListedInit, ListedStep, PTL DEF SystemSpec, ClearDeletesOnceCompleted

-------------------------------------------------------------------------------
\* The instance of EventHandlerProofs speaks of the handler of the system.
LEMMA SameHandler == [HP!Next]_HP!vars => [Handler!Next]_Handler!vars
BY DEF Handler!Next, HP!Next, Handler!WorkerStep, HP!WorkerStep, Handler!LoopStep, HP!LoopStep,
   Handler!vars, HP!vars, Handler!handlerVars, HP!handlerVars, Handler!AppendEvent, HP!AppendEvent,
   Handler!Subscribe, HP!Subscribe, Handler!GetCheckpoint, HP!GetCheckpoint, Handler!Receive,
   HP!Receive, Handler!IsNext, HP!IsNext, Handler!Wanted, HP!Wanted, Handler!After, HP!After,
   Handler!InQuery, HP!InQuery, Handler!Matches, HP!Matches, Handler!BeginHandle, HP!BeginHandle,
   Handler!BeginCheckpoint, HP!BeginCheckpoint, Handler!Begin, HP!Begin, Handler!WriterFree,
   HP!WriterFree, Handler!InTransaction, HP!InTransaction, Handler!CommitHandle, HP!CommitHandle,
   Handler!CommitCheckpoint, HP!CommitCheckpoint, Handler!RollBack, HP!RollBack,
   Handler!NotifyDone, HP!NotifyDone, Handler!NotifyFails, HP!NotifyFails, Handler!GiveUp,
   HP!GiveUp, Handler!WorkerEnds, HP!WorkerEnds, Handler!Leave, HP!Leave, Handler!Goto, HP!Goto,
   Handler!NoEventPosition, HP!NoEventPosition, Handler!Boot, HP!Boot, Handler!LookupFails,
   HP!LookupFails, Handler!DelayOver, HP!DelayOver, Handler!SubscriptionEnds,
   HP!SubscriptionEnds, Handler!Stop, HP!Stop, Handler!Exit, HP!Exit, Handler!ResetReadModels,
   HP!ResetReadModels

\* The todo handler inside the server is an EventHandler: requests, bulk commands and the
\* projection add nothing to what it may do, so what EventHandlerProofs shows holds of it.
THEOREM SystemRunsHandler == SystemSpec => Handler!Spec
<1>1. SystemInit => Handler!Init
  BY DEF SystemInit
<1>2. SystemInv /\ [SystemNext]_systemVars => [Handler!Next]_Handler!vars
  BY HandlerRuns, SameHandler
<1> QED BY <1>1, <1>2, SystemInductive, PTL DEF SystemSpec, Handler!Spec

-------------------------------------------------------------------------------
(* Rows and positions.  What follows is about a server that is stopped      *)
(* while its read models are reset; the run online_reset shows the other    *)
(* case.                                                                    *)

\* The events of a todo up to position p.
Told(t, p) == {i \in DOMAIN log : log[i].todo = t /\ ~ (i > p)}

Completes(i, told) ==
    /\ log[i].type = "TodoCompleted"
    /\ \A j \in told : j > i => log[j].type # "TodoReopened"

Names(i, told, name) ==
    /\ log[i].type \in TitledTypes /\ log[i].title = name
    /\ \A j \in told : j > i => log[j].type # "TodoRenamed"

\* A row is what the events of its todo up to position p tell of it.
Shows(row, t, p) ==
    \/ row = NoRow /\ Told(t, p) = {}
    \/ /\ row \in Row /\ Told(t, p) # {}
       /\ \A i \in Told(t, p) : log[i].user = row.user
       /\ row.deleted <=> \E i \in Told(t, p) : log[i].type = "TodoDeleted"
       /\ row.completed <=> \E i \in Told(t, p) : Completes(i, Told(t, p))
       /\ \E i \in Told(t, p) : Names(i, Told(t, p), row.title)

\* The table is the log at the last position delivered.
PageInv ==
    /\ SystemInv
    /\ HP!IInv
    /\ \A t \in Todo : Shows(todo_items[t], t, HP!Delivered)

\* The log, as most leaves below need it.
LEMMA LogFacts ==
    ASSUME SystemInv
    PROVE  /\ log \in Seq(Event) /\ Len(log) \in Nat /\ DOMAIN log = 1..Len(log)
           /\ \A i \in DOMAIN log : log[i] \in Event
BY DEF SystemInv, CommandsInv, IInv, TypeOK

\* The todo handler subscribes to every event, so the next one is the successor.
LEMMA NextIsSuccessor ==
    ASSUME SystemInv, NEW i, NEW p \in Nat, HP!NextOf(log, i, p)
    PROVE  i = p + 1 /\ i \in DOMAIN log
<1>1. ASSUME NEW e \in Event PROVE HP!InQuery(e, TodoReadModelEventHandlerQuery)
  <2> DEFINE c == [type |-> e.type]
  <2>1. c \in TodoReadModelEventHandlerQuery
    BY DEF Event, TodoReadModelEventHandlerQuery
  <2>2. HP!Matches(e, c)
    BY DEF HP!Matches, Event
  <2> QED BY <2>1, <2>2 DEF HP!InQuery
<1>2. /\ i \in DOMAIN log /\ i > p
      /\ \A j \in DOMAIN log : ~ (j > p /\ i > j)
  BY <1>1, LogFacts DEF HP!NextOf
<1>3. i \in Nat /\ p + 1 \in DOMAIN log
  BY <1>2, LogFacts
<1>4. ~ (i > p + 1)
  BY <1>2, <1>3
<1> QED BY <1>2, <1>3, <1>4

\* The last position delivered is the checkpoint or one event after it.
LEMMA DeliveredIs ==
    ASSUME SystemInv, HP!IInv
    PROVE  /\ checkpoint \in 0..Len(log) /\ HP!Delivered \in 0..Len(log)
           /\ HP!Delivered \in checkpoint..(checkpoint + 1)
<1>1. checkpoint \in 0..Len(log)
  BY DEF HP!IInv, HP!TypeInv, HP!TypeOK
<1>2. HP!Delivered = checkpoint \/ HP!NextOf(log, HP!Delivered, checkpoint)
  BY DEF HP!IInv, HP!DeliveryInv
<1> QED BY <1>1, <1>2, NextIsSuccessor, LogFacts

\* A row that shows the position before an event, or already the event, shows it after
\* the event has been projected: deliveries may repeat.
LEMMA ShowsProjected ==
    ASSUME SystemInv, NEW n \in DOMAIN log, NEW q \in {n - 1, n}, NEW t, t = log[n].todo,
           Shows(todo_items[t], t, q)
    PROVE  Shows(Project(todo_items, log[n])[t], t, n)
<1>0. PICK e \in Event : e = log[n]
  BY LogFacts
<1>1. /\ t \in Todo /\ e.todo = t /\ e.user \in User
      /\ todo_items \in [Todo -> Row \cup {NoRow}]
      /\ e.title \in Title <=> e.type \in TitledTypes
  BY <1>0 DEF Event, SystemInv, CommandsInv, TitlesFit
<1>2. PICK row : row = todo_items[t]
  OBVIOUS
<1>3. PICK new : new = Project(todo_items, e)[t]
  OBVIOUS
<1>r. /\ row = NoRow =>
           new = IF e.type = "TodoCreated"
                 THEN [user |-> e.user, title |-> e.title, completed |-> FALSE, deleted |-> FALSE]
                 ELSE NoRow
      /\ row # NoRow =>
           /\ new \in Row
           /\ new.user = row.user
           /\ new.title = IF e.type = "TodoRenamed" THEN e.title ELSE row.title
           /\ new.completed = IF e.type = "TodoCompleted" THEN TRUE
                              ELSE IF e.type = "TodoReopened" THEN FALSE ELSE row.completed
           /\ new.deleted = IF e.type = "TodoDeleted" THEN TRUE ELSE row.deleted
  <2>1. row = todo_items[e.todo] /\ new = Project(todo_items, e)[e.todo]
    BY <1>1, <1>2, <1>3
  <2>2. /\ todo_items \in [Todo -> Row \cup {NoRow}]
        /\ e.title \in Title <=> e.type \in TitledTypes
    BY <1>1
  <2> QED BY <2>1, <2>2, ProjectedRow
<1>4. PICK told : told = Told(t, q)
  OBVIOUS
<1>5. /\ Told(t, n) = told \cup {n} /\ \A i \in told : ~ (i > n) /\ (i = n \/ n > i) /\ i \in DOMAIN log
      /\ q = n - 1 => n \notin told
      /\ q = n => n \in told
      /\ ~ (n > n)
  BY <1>0, <1>1, <1>4, LogFacts DEF Told
<1>6. CASE e.type = "TodoCreated"
  <2>1. CASE q = n
    <3>1. row # NoRow /\ row \in Row
      BY <1>2, <1>4, <1>5, <2>1, NoRowAssumption DEF Shows
    <3>2. new = row
      BY <1>1, <1>2, <1>3, <3>1, <1>6, Zenon DEF Project, InsertCreatedTodo
    <3> QED BY <1>0, <1>2, <1>3, <2>1, <3>2
  <2>2. CASE q = n - 1
    <3>1. \A j \in 1..(n - 1) : log[j].todo # log[n].todo
      BY <1>0, <1>6 DEF SystemInv, CommandsInv, IInv, LogShape, OwnStream
    <3>2. told = {}
      BY <1>1, <1>4, <2>2, <3>1, LogFacts DEF Told
    <3>3. row = NoRow
      BY <1>2, <1>4, <3>2 DEF Shows
    <3>4. new = [user |-> e.user, title |-> e.title, completed |-> FALSE, deleted |-> FALSE]
      BY <1>r, <1>6, <3>3
    <3>5. /\ new \in Row /\ new.user = e.user /\ new.title = e.title /\ new.completed = FALSE
          /\ new.deleted = FALSE
      BY <1>1, <1>6, <3>4 DEF Row, TitledTypes
    <3>6. Told(t, n) = {n}
      BY <1>5, <3>2
    <3> QED BY <1>0, <1>3, <1>5, <1>6, <3>5, <3>6 DEF Shows, Completes, Names, TitledTypes
  <2> QED BY <2>1, <2>2
<1>7. CASE e.type # "TodoCreated"
  <2>1. PICK c \in told : log[c].type = "TodoCreated"
    <3>1. PICK j \in 1..(n - 1) : log[j].type = "TodoCreated" /\ log[j].todo = log[n].todo
      BY <1>0, <1>7 DEF SystemInv, CommandsInv, IInv, LogShape, OwnStream
    <3>2. j \in told
      BY <1>1, <1>4, <3>1, LogFacts DEF Told
    <3> QED BY <3>1, <3>2
  <2>2. /\ row \in Row
        /\ \A i \in told : log[i].user = row.user
        /\ row.deleted <=> \E i \in told : log[i].type = "TodoDeleted"
        /\ row.completed <=> \E i \in told : Completes(i, told)
        /\ \E i \in told : Names(i, told, row.title)
    BY <1>2, <1>4, <2>1 DEF Shows
  <2>3. /\ new \in Row
        /\ new.user = row.user
        /\ new.title = IF e.type = "TodoRenamed" THEN e.title ELSE row.title
        /\ new.completed = IF e.type = "TodoCompleted" THEN TRUE
                           ELSE IF e.type = "TodoReopened" THEN FALSE ELSE row.completed
        /\ new.deleted = IF e.type = "TodoDeleted" THEN TRUE ELSE row.deleted
    BY <1>r, <2>2, NoRowAssumption
  <2>4. \A i \in Told(t, n) : log[i].user = new.user
    <3>1. \A i \in Told(t, n) : i \in DOMAIN log /\ log[i].todo = log[c].todo
      BY <1>4, <2>1 DEF Told
    <3>2. c \in DOMAIN log /\ log[c].user = row.user
      BY <1>5, <2>1, <2>2
    <3> QED BY <2>3, <3>1, <3>2, OneOwner DEF SystemInv
  <2>5. new.deleted <=> \E i \in Told(t, n) : log[i].type = "TodoDeleted"
    BY <1>0, <1>5, <2>2, <2>3
  <2>6. new.completed <=> \E i \in Told(t, n) : Completes(i, Told(t, n))
    <3>1. CASE e.type = "TodoCompleted"
      BY <1>0, <1>5, <2>3, <3>1 DEF Completes
    <3>2. CASE e.type = "TodoReopened"
      BY <1>0, <1>5, <2>3, <3>2 DEF Completes
    <3>3. CASE e.type \notin {"TodoCompleted", "TodoReopened"}
      <4>1. \A i \in told : Completes(i, told) <=> Completes(i, Told(t, n))
        BY <1>0, <1>5, <3>3 DEF Completes
      <4>2. ~ Completes(n, Told(t, n))
        BY <1>0, <3>3 DEF Completes
      <4> QED BY <1>5, <2>2, <2>3, <3>3, <4>1, <4>2
    <3> QED BY <3>1, <3>2, <3>3
  <2>7. \E i \in Told(t, n) : Names(i, Told(t, n), new.title)
    <3>1. CASE e.type = "TodoRenamed"
      BY <1>0, <1>5, <2>3, <3>1 DEF Names, TitledTypes
    <3>2. CASE e.type # "TodoRenamed"
      <4>1. PICK i \in told : Names(i, told, row.title)
        BY <2>2
      <4>2. Names(i, Told(t, n), new.title)
        BY <1>0, <1>5, <2>3, <3>2, <4>1 DEF Names
      <4> QED BY <1>5, <4>2
    <3> QED BY <3>1, <3>2
  <2>8. Told(t, n) # {}
    BY <1>5
  <2> QED BY <1>0, <1>3, <2>3, <2>4, <2>5, <2>6, <2>7, <2>8 DEF Shows
<1> QED BY <1>6, <1>7

\* The other rows have nothing to tell of an event.
LEMMA ShowsOthers ==
    ASSUME SystemInv, NEW n \in DOMAIN log, NEW q \in {n - 1, n}, NEW t, t # log[n].todo, NEW row,
           Shows(row, t, q)
    PROVE  Shows(row, t, n)
<1>1. Told(t, n) = Told(t, q)
  BY LogFacts DEF Told
<1> QED BY <1>1 DEF Shows

\* The table moves with the last delivery.
LEMMA ProjectShows ==
    ASSUME PageInv, NEW w \in Worker, ProjectEvent(w)
    PROVE  \A t \in Todo : Shows(todo_items[t], t, HP!Delivered)'
<1>1. HP!CommitHandle(w)
  BY DEF ProjectEvent, Handler!CommitHandle, HP!CommitHandle, Handler!Goto, HP!Goto
<1>2. /\ HP!Delivered' = at[w]
      /\ \/ HP!Delivered' = HP!Delivered
         \/ HP!Delivered = checkpoint /\ HP!NextOf(log, HP!Delivered', HP!Delivered)
  BY <1>1, HP!CommitHandleDelivers, HandlerAssumptions DEF PageInv
<1>3. PICK n \in DOMAIN log : n = at[w]
  BY ProjectedEvent DEF PageInv
<1>4. PICK q : q = HP!Delivered
  OBVIOUS
<1>5. q \in {n - 1, n} /\ q \in Nat
  <2>1. q \in Nat /\ n \in Nat
    BY <1>3, <1>4, DeliveredIs, LogFacts DEF PageInv
  <2>2. HP!NextOf(log, n, q) => n = q + 1
    BY <2>1, NextIsSuccessor DEF PageInv
  <2> QED BY <1>2, <1>3, <1>4, <2>1, <2>2
<1>6. ASSUME NEW t \in Todo PROVE Shows(Project(todo_items, log[n])[t], t, n)
  <2>1. Shows(todo_items[t], t, q)
    BY <1>4 DEF PageInv
  <2>2. CASE t = log[n].todo
    BY <1>5, <2>1, <2>2, ShowsProjected DEF PageInv
  <2>3. CASE t # log[n].todo
    <3>1. Shows(todo_items[t], t, n)
      BY <1>5, <2>1, <2>3, ShowsOthers DEF PageInv
    <3>2. log[n] \in Event
      BY LogFacts DEF PageInv
    <3>3. Project(todo_items, log[n])[t] = todo_items[t]
      BY <2>3, <3>2, ProjectedRow DEF PageInv, SystemInv, CommandsInv, TitlesFit
    <3> QED BY <3>1, <3>3
  <2> QED BY <2>2, <2>3
<1>7. log' = log /\ todo_items' = Project(todo_items, log[n])
  BY <1>3, ProjectedEvent DEF PageInv
<1> QED BY <1>2, <1>3, <1>6, <1>7 DEF Shows, Told, Completes, Names

\* An event more changes nothing of what was told before it.
LEMMA ShowsAppended ==
    ASSUME SystemInv, NEW e \in Event, log' = log \/ log' = Append(log, e),
           NEW p \in 0..Len(log), NEW t
    PROVE  /\ Told(t, p)' = Told(t, p)
           /\ \A i \in Told(t, p) : log'[i] = log[i]
<1>1. CASE log' = log
  BY <1>1 DEF Told
<1>2. CASE log' = Append(log, e)
  <2>1. /\ DOMAIN log' = 1..(Len(log) + 1)
        /\ \A i \in DOMAIN log : log'[i] = log[i]
    BY <1>2, Appended, LogFacts
  <2> QED BY <2>1, LogFacts DEF Told
<1> QED BY <1>1, <1>2

LEMMA PageInit == SystemInit => PageInv
<1> SUFFICES ASSUME SystemInit PROVE PageInv
  OBVIOUS
<1>1. HP!Init
  BY DEF SystemInit, Handler!Init, HP!Init, Handler!NoEventPosition, HP!NoEventPosition
<1>2. HP!IInv
  BY <1>1, HP!TypeInit, HP!DeliveryInit, HandlerAssumptions DEF HP!IInv
<1>3. \A t \in Todo : todo_items[t] = NoRow /\ \A p : Told(t, p) = {}
  BY DEF SystemInit, Init, NoItems, Told
<1> QED BY <1>2, <1>3, SystemInvInit DEF PageInv, Shows

LEMMA PageStep ==
    OnlineReset = FALSE => (PageInv /\ [SystemNext]_systemVars => PageInv')
<1> SUFFICES ASSUME OnlineReset = FALSE, PageInv, [SystemNext]_systemVars PROVE PageInv'
  OBVIOUS
<1>1. SystemInv /\ SystemInv' /\ [HP!Next]_HP!vars
  BY SystemInvStep, HandlerRuns DEF PageInv
<1>2. HP!IInv'
  BY <1>1, HP!InvStep, HandlerAssumptions DEF PageInv
<1>3. CASE \E w \in Worker : ProjectEvent(w)
  BY <1>1, <1>2, <1>3, ProjectShows DEF PageInv
<1>4. CASE ResetReadModels
  <2>1. HP!ResetReadModels
    BY <1>4 DEF ResetReadModels, Handler!ResetReadModels, HP!ResetReadModels, Handler!WriterFree,
       HP!WriterFree, Handler!InTransaction, HP!InTransaction, Handler!NoEventPosition,
       HP!NoEventPosition
  <2>2. HP!Delivered' = 0
    BY <2>1, HP!ResetDelivers, HandlerAssumptions DEF PageInv
  <2>3. log' = log /\ todo_items' = NoItems
    BY <1>4 DEF ResetReadModels, Handler!ResetReadModels
  <2>4. \A t \in Todo : todo_items'[t] = NoRow
    BY <2>3 DEF NoItems
  <2>5. \A t : Told(t, 0) = {}
    BY <1>1, LogFacts DEF Told
  <2>6. \A t : Told(t, HP!Delivered)' = {}
    BY <2>2, <2>3, <2>5 DEF Told
  <2> QED BY <1>1, <1>2, <2>4, <2>6 DEF PageInv, Shows
<1>5. CASE RequestStep \/ HandlerStep \/ Exit \/ UNCHANGED systemVars
  <2>1. todo_items' = todo_items /\ applied' = applied
    BY <1>5 DEF RequestStep, HandlerStep, Exit, systemVars, handlerVars, Handler!Subscribe,
       Handler!Receive, Handler!BeginHandle, Handler!Begin, Handler!RollBack, Handler!NotifyDone,
       Handler!NotifyFails, Handler!BeginCheckpoint, Handler!CommitCheckpoint,
       Handler!WorkerEnds, Handler!Boot, Handler!LookupFails, Handler!DelayOver,
       Handler!SubscriptionEnds, Handler!Stop, Handler!Exit
  <2>2. HP!Delivered' = HP!Delivered
    BY <2>1 DEF HP!Delivered
  <2>3. PICK p \in 0..Len(log) : p = HP!Delivered
    BY <1>1, DeliveredIs DEF PageInv
  <2>4. ASSUME NEW t \in Todo PROVE Shows(todo_items[t], t, HP!Delivered)'
    <3>1. PICK row : row = todo_items[t] /\ Shows(row, t, p)
      BY <2>3 DEF PageInv
    <3>2. Told(t, p)' = Told(t, p) /\ \A i \in Told(t, p) : log'[i] = log[i]
      <4>1. CASE log' = log
        BY <4>1 DEF Told
      <4>2. CASE \E e \in Event : log' = Append(log, e)
        BY <1>1, <4>2, ShowsAppended
      <4> QED BY <1>1, <4>1, <4>2, StepWrites
    <3>3. \A i \in Told(t, p) : /\ Completes(i, Told(t, p))' <=> Completes(i, Told(t, p))
                                /\ \A name : Names(i, Told(t, p), name)' <=> Names(i, Told(t, p), name)
      BY <3>2 DEF Completes, Names
    <3>4. Shows(row, t, p)'
      BY <3>1, <3>2, <3>3 DEF Shows
    <3> QED BY <2>1, <2>2, <2>3, <3>1, <3>4
  <2> QED BY <1>1, <1>2, <2>4 DEF PageInv
<1> QED BY <1>3, <1>4, <1>5 DEF SystemNext

-------------------------------------------------------------------------------
(* The log as it was.                                                       *)

\* The last of some kinds of event among those a todo has up to a position.
LastTold(i, kinds, told) ==
    /\ log[i].type \in kinds
    /\ \A j \in told : j > i => log[j].type \notin kinds

\* What the commands read of a stream at position p, when all of it is the user's.
LEMMA PastReads ==
    ASSUME SystemInv, NEW p \in 0..Len(log), NEW t \in Todo, NEW u,
           \A i \in Told(t, p) : log[i].user = u
    PROVE  /\ Past(p)!Exists(t, u) <=> \E i \in Told(t, p) : log[i].type = "TodoCreated"
           /\ Past(p)!Deleted(t, u) <=>
                \E i \in Told(t, p) : /\ log[i].type = "TodoDeleted"
                                      /\ LastTold(i, {"TodoCreated", "TodoDeleted"}, Told(t, p))
           /\ Past(p)!Completed(t, u) <=>
                \E i \in Told(t, p) :
                  /\ log[i].type = "TodoCompleted"
                  /\ LastTold(i, {"TodoCreated", "TodoCompleted", "TodoReopened"}, Told(t, p))
           /\ \A name : Past(p)!Titled(name, t, u) <=>
                \E i \in Told(t, p) : /\ log[i].title = name
                                      /\ LastTold(i, {"TodoCreated", "TodoRenamed"}, Told(t, p))
<1>1. PICK past : past = SubSeq(log, 1, p)
  OBVIOUS
<1>2. DOMAIN past = 1..p /\ \A i \in 1..p : i \in DOMAIN log /\ past[i] = log[i]
  BY <1>1, LogFacts
<1>3. ASSUME NEW e PROVE Past(p)!InQuery(e, Past(p)!StreamQuery(t, u)) <=> InQuery(e, StreamQuery(t, u))
  BY DEF Past!InQuery, Past!StreamQuery, Past!Matches, InQuery, StreamQuery, Matches, TodoEventType,
         Past!TodoEventType
<1>4. ASSUME NEW i \in 1..p PROVE Past(p)!InStream(i, t, u) <=> i \in Told(t, p)
  <2>1. Past(p)!InStream(i, t, u) <=> InQuery(log[i], StreamQuery(t, u))
    BY <1>1, <1>2, <1>3 DEF Past!InStream
  <2>2. InQuery(log[i], StreamQuery(t, u)) <=> log[i].todo = t /\ log[i].user = u
    BY <1>2, LogFacts, StreamMembership
  <2> QED BY <1>2, <2>1, <2>2, LogFacts DEF Told
<1>5. Told(t, p) \in SUBSET (1..p)
  BY LogFacts DEF Told
<1>6. ASSUME NEW i \in 1..p, NEW kinds
      PROVE  Past(p)!IsLatest(i, kinds, t, u) <=> i \in Told(t, p) /\ LastTold(i, kinds, Told(t, p))
  BY <1>1, <1>2, <1>4, <1>5 DEF Past!IsLatest, Past!After, LastTold
<1>7. Past(p)!Exists(t, u) <=> \E i \in Told(t, p) : log[i].type = "TodoCreated"
  BY <1>1, <1>2, <1>4, <1>5 DEF Past!Exists
<1>8. Past(p)!Deleted(t, u) <=>
        \E i \in Told(t, p) : /\ log[i].type = "TodoDeleted"
                              /\ LastTold(i, {"TodoCreated", "TodoDeleted"}, Told(t, p))
  BY <1>1, <1>2, <1>5, <1>6 DEF Past!Deleted
<1>9. Past(p)!Completed(t, u) <=>
        \E i \in Told(t, p) :
          /\ log[i].type = "TodoCompleted"
          /\ LastTold(i, {"TodoCreated", "TodoCompleted", "TodoReopened"}, Told(t, p))
  BY <1>1, <1>2, <1>5, <1>6 DEF Past!Completed
<1>10. ASSUME NEW name
       PROVE  Past(p)!Titled(name, t, u) <=>
                \E i \in Told(t, p) : /\ log[i].title = name
                                      /\ LastTold(i, {"TodoCreated", "TodoRenamed"}, Told(t, p))
  BY <1>1, <1>2, <1>5, <1>6 DEF Past!Titled
<1> QED BY <1>7, <1>8, <1>9, <1>10

\* Another user reads nothing of it.
LEMMA PastOthers ==
    ASSUME SystemInv, NEW p \in 0..Len(log), NEW t \in Todo, NEW u,
           \A i \in Told(t, p) : log[i].user # u
    PROVE  ~ Past(p)!Exists(t, u)
<1>1. PICK past : past = SubSeq(log, 1, p)
  OBVIOUS
<1>2. DOMAIN past = 1..p /\ \A i \in 1..p : i \in DOMAIN log /\ past[i] = log[i]
  BY <1>1, LogFacts
<1>3. ASSUME NEW e PROVE Past(p)!InQuery(e, Past(p)!StreamQuery(t, u)) <=> InQuery(e, StreamQuery(t, u))
  BY DEF Past!InQuery, Past!StreamQuery, Past!Matches, InQuery, StreamQuery, Matches, TodoEventType,
         Past!TodoEventType
<1>4. ASSUME NEW i \in 1..p PROVE ~ Past(p)!InStream(i, t, u)
  <2>1. Past(p)!InStream(i, t, u) <=> InQuery(log[i], StreamQuery(t, u))
    BY <1>1, <1>2, <1>3 DEF Past!InStream
  <2>2. InQuery(log[i], StreamQuery(t, u)) <=> log[i].todo = t /\ log[i].user = u
    BY <1>2, LogFacts, StreamMembership
  <2> QED BY <1>2, <2>1, <2>2, LogFacts DEF Told
<1> QED BY <1>1, <1>2, <1>4 DEF Past!Exists

\* In a legal log the last events of the kinds a command looks at are those Shows
\* speaks of: nothing follows a deletion, completions alternate with reopenings, and
\* only the first event creates.
LEMMA ToldInOrder ==
    ASSUME SystemInv, NEW p \in 0..Len(log), NEW t \in Todo, Told(t, p) # {}
    PROVE  /\ \E i \in Told(t, p) : log[i].type = "TodoCreated"
           /\ \A i \in Told(t, p) : log[i].type = "TodoDeleted" =>
                LastTold(i, {"TodoCreated", "TodoDeleted"}, Told(t, p))
           /\ \A i \in Told(t, p) :
                (/\ log[i].type = "TodoCompleted"
                 /\ LastTold(i, {"TodoCreated", "TodoCompleted", "TodoReopened"}, Told(t, p)))
                <=> Completes(i, Told(t, p))
           /\ \A i \in Told(t, p) : \A name :
                Names(i, Told(t, p), name) =>
                  log[i].title = name /\ LastTold(i, {"TodoCreated", "TodoRenamed"}, Told(t, p))
<1>0. /\ OwnStream /\ NothingAfterDelete /\ TogglesAlternate
      /\ DOMAIN log = 1..Len(log) /\ Len(log) \in Nat
  BY LogFacts DEF SystemInv, CommandsInv, IInv, LogShape
<1>1. PICK told : told = Told(t, p)
  OBVIOUS
<1>2. /\ \A i \in told : i \in DOMAIN log /\ i \in Nat /\ log[i].todo = t /\ ~ (i > p)
      /\ \A i \in DOMAIN log : log[i].todo = t /\ ~ (i > p) => i \in told
  BY <1>0, <1>1 DEF Told
<1>3. \A i \in told : \E c \in told : log[c].type = "TodoCreated"
  BY <1>0, <1>2 DEF OwnStream
<1>4. \A i, j \in told : j > i => log[j].type # "TodoCreated"
  BY <1>0, <1>2 DEF OwnStream
<1>5. \A i, j \in told : log[i].type = "TodoDeleted" => ~ (j > i)
  BY <1>0, <1>2 DEF NothingAfterDelete, After
<1>6. ASSUME NEW i \in told, Completes(i, told)
      PROVE  LastTold(i, {"TodoCreated", "TodoCompleted", "TodoReopened"}, told)
  <2>1. ASSUME NEW j \in told, j > i, log[j].type = "TodoCompleted" PROVE FALSE
    <3>1. PICK k \in (i + 1)..(j - 1) :
            /\ log[k].todo = log[i].todo
            /\ log[k].type \in {"TodoCompleted", "TodoReopened"} \ {log[i].type}
      BY <1>0, <1>2, <1>6, <2>1 DEF TogglesAlternate, After, Completes
    <3>2. k \in told /\ k > i
      BY <1>0, <1>2, <2>1, <3>1
    <3> QED BY <1>6, <3>1, <3>2 DEF Completes
  <2> QED BY <1>4, <1>6, <2>1 DEF LastTold, Completes
<1>7. \A i \in told : LastTold(i, {"TodoCreated", "TodoCompleted", "TodoReopened"}, told)
                      /\ log[i].type = "TodoCompleted" => Completes(i, told)
  BY DEF LastTold, Completes
<1>8. \A i \in told : log[i].type = "TodoDeleted" =>
        LastTold(i, {"TodoCreated", "TodoDeleted"}, told)
  BY <1>5 DEF LastTold
<1>9. \A i \in told : \A name : Names(i, told, name) =>
        log[i].title = name /\ LastTold(i, {"TodoCreated", "TodoRenamed"}, told)
  BY <1>4 DEF LastTold, Names, TitledTypes
<1>10. \A i \in told : Completes(i, told) => log[i].type = "TodoCompleted"
  BY DEF Completes
<1> QED BY <1>1, <1>3, <1>6, <1>7, <1>8, <1>9, <1>10

\* A table whose rows show position p is the list the commands would have given there.
LEMMA ShowsPast ==
    ASSUME SystemInv, NEW p \in 0..Len(log), \A t \in Todo : Shows(todo_items[t], t, p)
    PROVE  ShowsLogAt(p)
<1> SUFFICES ASSUME NEW t \in Todo, NEW u \in User
             PROVE  /\ (t \in List(u)) = Past(p)!RequireActive(t, u)
                    /\ t \in List(u) =>
                         /\ todo_items[t].completed = Past(p)!Completed(t, u)
                         /\ Past(p)!Titled(todo_items[t].title, t, u)
  BY DEF ShowsLogAt
<1>1. Past(p)!RequireActive(t, u) <=> Past(p)!Exists(t, u) /\ ~ Past(p)!Deleted(t, u)
  BY DEF Past!RequireActive
<1>b. Past(p)!RequireActive(t, u) \in BOOLEAN /\ (t \in List(u)) \in BOOLEAN
  BY DEF Past!RequireActive
<1>2. PICK row : row = todo_items[t]
  OBVIOUS
<1>3. t \in List(u) <=> row # NoRow /\ row.user = u /\ ~ row.deleted
  BY <1>2 DEF List
<1>4. CASE row = NoRow /\ Told(t, p) = {}
  <2>1. ~ Past(p)!Exists(t, u)
    BY <1>4, PastOthers
  <2>2. ~ (t \in List(u)) /\ ~ Past(p)!RequireActive(t, u)
    BY <1>1, <1>3, <1>4, <2>1
  <2> QED BY <1>b, <2>2
<1>5. ASSUME /\ row \in Row /\ Told(t, p) # {}
             /\ \A i \in Told(t, p) : log[i].user = row.user
             /\ row.deleted <=> \E i \in Told(t, p) : log[i].type = "TodoDeleted"
             /\ row.completed <=> \E i \in Told(t, p) : Completes(i, Told(t, p))
             /\ \E i \in Told(t, p) : Names(i, Told(t, p), row.title)
      PROVE  /\ (t \in List(u)) = Past(p)!RequireActive(t, u)
             /\ t \in List(u) =>
                  /\ row.completed = Past(p)!Completed(t, u)
                  /\ Past(p)!Titled(row.title, t, u)
  <2>1. row # NoRow /\ row.completed \in BOOLEAN
    BY <1>5, NoRowAssumption DEF Row
  <2>2. CASE row.user # u
    <3>1. ~ Past(p)!Exists(t, u)
      BY <1>5, <2>2, PastOthers
    <3>2. ~ (t \in List(u)) /\ ~ Past(p)!RequireActive(t, u)
      BY <1>1, <1>3, <2>2, <3>1
    <3> QED BY <1>b, <3>2
  <2>3. CASE row.user = u
    <3>0. \A i \in Told(t, p) : log[i].user = u
      BY <1>5, <2>3
    <3>1. Past(p)!Exists(t, u)
      BY <1>5, <3>0, PastReads, ToldInOrder
    <3>2. Past(p)!Deleted(t, u) <=> row.deleted
      BY <1>5, <3>0, PastReads, ToldInOrder
    <3>3. Past(p)!Completed(t, u) <=> row.completed
      BY <1>5, <3>0, PastReads, ToldInOrder
    <3>4. Past(p)!Titled(row.title, t, u)
      <4>1. PICK i \in Told(t, p) : Names(i, Told(t, p), row.title)
        BY <1>5
      <4>2. log[i].title = row.title /\ LastTold(i, {"TodoCreated", "TodoRenamed"}, Told(t, p))
        BY <1>5, <4>1, ToldInOrder
      <4> QED BY <3>0, <4>2, PastReads
    <3>5. t \in List(u) <=> Past(p)!RequireActive(t, u)
      BY <1>1, <1>3, <2>1, <2>3, <3>1, <3>2
    <3>6. Past(p)!Completed(t, u) \in BOOLEAN
      BY DEF Past!Completed
    <3>7. row.completed = Past(p)!Completed(t, u)
      BY <2>1, <3>3, <3>6
    <3>8. (t \in List(u)) = Past(p)!RequireActive(t, u)
      BY <1>b, <3>5
    <3> QED BY <3>4, <3>7, <3>8
  <2> QED BY <2>2, <2>3
<1> QED BY <1>2, <1>4, <1>5 DEF Shows

\* The page of todos never mixes moments: whatever crashes, retries, late workers and
\* resets lie behind it, todo_items is the log at one position, the checkpoint of
\* todo_read_model_event_handler or one event after it.
THEOREM OneMoment ==
    ASSUME OnlineReset = FALSE
    PROVE  SystemSpec => []ListIsOneMoment
<1>1. PageInv => ListIsOneMoment
  <2> SUFFICES ASSUME PageInv PROVE ListIsOneMoment
    OBVIOUS
  <2>1. PICK p \in 0..Len(log) : p = HP!Delivered /\ p \in checkpoint..(checkpoint + 1)
    BY DeliveredIs DEF PageInv
  <2>2. ShowsLogAt(p)
    BY <2>1, ShowsPast DEF PageInv
  <2>3. p <= Len(log)
    BY LogFacts DEF PageInv
  <2> QED BY <2>1, <2>2, <2>3 DEF ListIsOneMoment
<1>2. PageInv /\ [SystemNext]_systemVars => PageInv'
  BY PageStep
<1> QED BY <1>1, <1>2, PageInit, PTL DEF SystemSpec

===============================================================================
