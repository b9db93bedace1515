------------------------------ MODULE TodoSystem ------------------------------
(***************************************************************************)
(* The todo feature end to end: the command handlers of TodoCommands write  *)
(* the log, the todo_read_model_event_handler, an EventHandler, projects it *)
(* into the todo_items table, and the bulk commands list that table.  One   *)
(* process runs all of it, so a crash ends the requests and the handler     *)
(* together; the log and the database survive.                              *)
(***************************************************************************)
EXTENDS TodoCommands

CONSTANTS Worker, NoWorker, OnlineReset, MaxResets, NoRow

ASSUME NoWorkerAssumption == NoWorker \notin Worker
ASSUME ResetsAssumption == OnlineReset \in BOOLEAN /\ MaxResets \in Nat

VARIABLES up, loop, current, step, at, checkpoint, applied, resets, todo_items

handlerVars == <<up, loop, current, step, at, checkpoint, applied, resets>>
requestVars == <<pc, command, position, bulk, pending>>
systemVars == <<vars, handlerVars, todo_items>>

TodoReadModelEventHandlerQuery == [type : TodoEventType]

Handler == INSTANCE EventHandler WITH
    HandlerQuery <- TodoReadModelEventHandlerQuery, GivesUp <- FALSE

\* A row of todo_items; deleted stands for deleted_at IS NOT NULL.
Row == [user : User, title : Title, completed : BOOLEAN, deleted : BOOLEAN]

ASSUME NoRowAssumption == NoRow \notin Row

\* INSERT ... ON CONFLICT (todo_id) DO NOTHING.
InsertCreatedTodo(items, event) ==
    IF items[event.todo] # NoRow THEN items
    ELSE [items EXCEPT ![event.todo] =
            [user |-> event.user, title |-> event.title, completed |-> FALSE, deleted |-> FALSE]]

\* UPDATE ... WHERE todo_id = @todo_id, without a look at the position stored in the row.
UpdateTodo(items, t, column, value) ==
    IF items[t] = NoRow THEN items
    ELSE [items EXCEPT ![t] = [@ EXCEPT ![column] = value]]

RenameTodo(items, event) == UpdateTodo(items, event.todo, "title", event.title)
CompleteTodo(items, event) == UpdateTodo(items, event.todo, "completed", TRUE)
ReopenTodo(items, event) == UpdateTodo(items, event.todo, "completed", FALSE)
DeleteTodo(items, event) == UpdateTodo(items, event.todo, "deleted", TRUE)

\* What the callback writes for one event.
Project(items, event) ==
    CASE event.type = "TodoCreated" -> InsertCreatedTodo(items, event)
      [] event.type = "TodoRenamed" -> RenameTodo(items, event)
      [] event.type = "TodoCompleted" -> CompleteTodo(items, event)
      [] event.type = "TodoReopened" -> ReopenTodo(items, event)
      [] event.type = "TodoDeleted" -> DeleteTodo(items, event)

NoItems == [t \in Todo |-> NoRow]

\* ReadModel.List: the user's rows that are not deleted.
List(u) == {t \in Todo :
    /\ todo_items[t] # NoRow
    /\ todo_items[t].user = u
    /\ ~ todo_items[t].deleted}

\* Faulty variant: the completed column is not looked at.
ListedItems(b) == List(b.user)

\* The items a bulk command works on: the active ones to complete, the completed
\* ones to reopen or to delete.
BulkItems(b) == {t \in List(b.user) : todo_items[t].completed = (b.op # "complete")}

-------------------------------------------------------------------------------
SystemInit == Init /\ Handler!Init /\ todo_items = NoItems

\* A request runs while the server is up and touches the log only.
RequestStep ==
    /\ up
    /\ \/ \E t \in Todo, u \in User, name \in Title : CreateTodo(t, u, name)
       \/ \E r \in Request, b \in BulkCommand : StartBulk(r, b, BulkItems(b))
       \/ \E r \in Request, c \in Command :
            LoadNotFound(r, c) \/ LoadSkip(r, c) \/ LoadReady(r, c)
       \/ \E r \in Request : SaveConflict(r) \/ SaveCommit(r) \/ Abort(r)
    /\ UNCHANGED <<handlerVars, todo_items>>

\* TodoReadModelEventHandler.handle commits its write.
ProjectEvent(w) ==
    /\ Handler!CommitHandle(w)
    /\ todo_items' = Project(todo_items, log[at[w]])
    /\ UNCHANGED requestVars

\* Every step of the handler that leaves the read model alone.
HandlerStep ==
    /\ \/ \E w \in Worker :
            \/ Handler!Subscribe(w) \/ Handler!Receive(w)
            \/ Handler!BeginHandle(w) \/ Handler!RollBack(w)
            \/ Handler!NotifyDone(w) \/ Handler!NotifyFails(w)
            \/ Handler!BeginCheckpoint(w) \/ Handler!CommitCheckpoint(w)
            \/ Handler!WorkerEnds(w)
       \/ Handler!Boot \/ Handler!LookupFails \/ Handler!DelayOver
       \/ Handler!SubscriptionEnds \/ Handler!Stop
    /\ UNCHANGED <<requestVars, todo_items>>

\* The process ends: no request survives it.
Exit ==
    /\ Handler!Exit
    /\ pc' = [r \in Request |-> "idle"]
    /\ command' = [r \in Request |-> NoCommand]
    /\ position' = [r \in Request |-> NoEventPosition]
    /\ bulk' = [r \in Request |-> NoCommand]
    /\ pending' = [r \in Request |-> {}]
    /\ UNCHANGED todo_items

\* Faulty variant: the reset forgets the table.
ResetCheckpointOnly ==
    /\ Handler!ResetReadModels
    /\ UNCHANGED <<requestVars, todo_items>>

ResetReadModels ==
    /\ Handler!ResetReadModels
    /\ todo_items' = NoItems
    /\ UNCHANGED requestVars

SystemNext ==
    \/ RequestStep
    \/ \E w \in Worker : ProjectEvent(w)
    \/ HandlerStep
    \/ Exit
    \/ ResetReadModels

SystemSpec == SystemInit /\ [][SystemNext]_systemVars

FairSystemSpec == SystemSpec /\ Handler!Fairness

-------------------------------------------------------------------------------
SystemTypeOK ==
    /\ TypeOK
    /\ Handler!TypeOK
    /\ todo_items \in [Todo -> Row \cup {NoRow}]

\* The log as it was at position p.
Past(p) == INSTANCE TodoCommands WITH log <- SubSeq(log, 1, p)

\* The rows show exactly what the commands would have decided on at position p.
ShowsLogAt(p) ==
    \A t \in Todo, u \in User :
        /\ (t \in List(u)) = Past(p)!RequireActive(t, u)
        /\ t \in List(u) =>
             /\ todo_items[t].completed = Past(p)!Completed(t, u)
             /\ Past(p)!Titled(todo_items[t].title, t, u)

\* The page never mixes moments: crashes, retries, resets and late workers included,
\* todo_items is the log at one position, the checkpoint or one event after it.
ListIsOneMoment ==
    \E p \in checkpoint..(checkpoint + 1) : p <= Len(log) /\ ShowsLogAt(p)

\* What is left of "clear completed" with a list that lags behind, whatever crashes and
\* resets shaped it: the todo it deletes may have been reopened since, but it is one of
\* the user's own that some event completed.
ClearDeletesOnceCompleted ==
    [][\A r \in Request :
          SaveCommit(r) /\ bulk[r] # NoCommand /\ command[r].op = "delete"
          => \E i \in DOMAIN log :
                InStream(i, command[r].todo, bulk[r].user) /\ log[i].type = "TodoCompleted"]_systemVars

\* When the log stops growing the page becomes current and stays so.
ListBecomesCurrent == <>[]ShowsLogAt(Len(log))

===============================================================================
