----------------------------- MODULE TodoCommands -----------------------------
(***************************************************************************)
(* The todo command handlers (internal/features/todo), run by concurrent    *)
(* HTTP requests against one event store.  A command is two store calls:    *)
(* it loads the latest events of its todo's stream and decides, then saves  *)
(* one event with the position it read at.  Everything another request does *)
(* may fall between the two.                                                *)
(*                                                                         *)
(* A bulk command (complete all, reopen all, clear completed) lists todos   *)
(* from the read model, which lags behind the log, and then runs the single *)
(* command on each of them in turn, stopping at the first error.  Here a    *)
(* list is any list some earlier log could have given; TodoSystem computes  *)
(* it from the projection.                                                  *)
(***************************************************************************)
EXTENDS EventStore

CONSTANTS
    User, Todo, Title,  \* registered users, todo ids, titles validateTitle accepts
    Request,            \* requests in flight at once
    NoTitle, NoCommand,
    MaxEvents           \* bound: length of the log

ASSUME NoTitleAssumption == NoTitle \notin Title
ASSUME MaxEventsAssumption == MaxEvents \in Nat

VARIABLES
    log,       \* the event store
    pc,        \* where each request stands: "idle", "loop" (bulk) or "save"
    command,   \* the single command it is about to save
    position,  \* the context position it loaded
    bulk,      \* the bulk command it runs, if any
    pending    \* the listed todos that one has still to process

vars == <<log, pc, command, position, bulk, pending>>

TodoEventType ==
    {"TodoCreated", "TodoRenamed", "TodoCompleted", "TodoReopened", "TodoDeleted"}

Event == [type : TodoEventType, todo : Todo, user : User, title : Title \cup {NoTitle}]

Command == [op : {"rename", "complete", "reopen", "delete"}, todo : Todo, user : User,
            title : Title \cup {NoTitle}]

BulkCommand == [op : {"complete", "reopen", "delete"}, user : User]

ASSUME NoCommandAssumption == NoCommand \notin Command \cup BulkCommand

-------------------------------------------------------------------------------
(* A todo's stream: the events of one todo written by one user.            *)

\* Faulty variant: the user tag is left out.
StreamQueryOfTodo(t, u) == [type : TodoEventType, todo : {t}]

StreamQuery(t, u) == [todo : {t}, user : {u}, type : TodoEventType]

InStream(i, t, u) == InQuery(log[i], StreamQuery(t, u))

\* log[i] is the last event of the stream whose type is one of kinds.
IsLatest(i, kinds, t, u) ==
    /\ log[i].type \in kinds
    /\ InStream(i, t, u)
    /\ \A j \in DOMAIN log : After(j, i) /\ log[j].type \in kinds => ~ InStream(j, t, u)

\* The fields of the contexts the handlers rebuild: each is set by the last
\* event that touches it.
Exists(t, u) == \E i \in DOMAIN log : log[i].type = "TodoCreated" /\ InStream(i, t, u)

Deleted(t, u) == \E i \in DOMAIN log :
    log[i].type = "TodoDeleted" /\ IsLatest(i, {"TodoCreated", "TodoDeleted"}, t, u)

Completed(t, u) == \E i \in DOMAIN log :
    /\ log[i].type = "TodoCompleted"
    /\ IsLatest(i, {"TodoCreated", "TodoCompleted", "TodoReopened"}, t, u)

Titled(name, t, u) == \E i \in DOMAIN log :
    log[i].title = name /\ IsLatest(i, {"TodoCreated", "TodoRenamed"}, t, u)

\* Faulty variants: the deleted flag is not looked at, nor whether there is
\* anything to do.
RequireExists(t, u) == Exists(t, u)
NeverSkips(c) == FALSE

RequireActive(t, u) == Exists(t, u) /\ ~ Deleted(t, u)

\* The commands that find nothing to do answer Skipped.  Delete never skips:
\* it does not look at the completed flag.
Skips(c) ==
    \/ c.op = "rename" /\ Titled(c.title, c.todo, c.user)
    \/ c.op = "complete" /\ Completed(c.todo, c.user)
    \/ c.op = "reopen" /\ ~ Completed(c.todo, c.user)

EventTypeOf == [rename |-> "TodoRenamed", complete |-> "TodoCompleted",
                reopen |-> "TodoReopened", delete |-> "TodoDeleted"]

Produced(c) == [type |-> EventTypeOf[c.op], todo |-> c.todo, user |-> c.user, title |-> c.title]

-------------------------------------------------------------------------------
Init ==
    /\ log = << >>
    /\ pc = [r \in Request |-> "idle"]
    /\ command = [r \in Request |-> NoCommand]
    /\ position = [r \in Request |-> NoEventPosition]
    /\ bulk = [r \in Request |-> NoCommand]
    /\ pending = [r \in Request |-> {}]

\* Faulty variant: the loaded context stays behind.
LeaveContext(r, place, rest) ==
    /\ pc' = [pc EXCEPT ![r] = place]
    /\ bulk' = IF place = "idle" THEN [bulk EXCEPT ![r] = NoCommand] ELSE bulk
    /\ pending' = [pending EXCEPT ![r] = rest]
    /\ UNCHANGED <<command, position>>

\* Request r goes to a place where it holds no loaded context.
Leave(r, place, rest) ==
    /\ pc' = [pc EXCEPT ![r] = place]
    /\ command' = [command EXCEPT ![r] = NoCommand]
    /\ position' = [position EXCEPT ![r] = NoEventPosition]
    /\ bulk' = IF place = "idle" THEN [bulk EXCEPT ![r] = NoCommand] ELSE bulk
    /\ pending' = [pending EXCEPT ![r] = rest]

\* Request r answers, with a result or an error, and is gone.
Return(r) == Leave(r, "idle", {})

\* A single command of r is done: a bulk command goes on with its next todo.
Done(r, t) ==
    \/ pending[r] \subseteq {t} /\ Return(r)
    \/ ~ (pending[r] \subseteq {t}) /\ Leave(r, "loop", pending[r] \ {t})

\* A save is one transaction of the store; the id of a new todo is a fresh UUID.
CreateTodo(t, u, name) ==
    /\ Len(log) < MaxEvents
    /\ \A i \in DOMAIN log : log[i].todo # t
    /\ ~ Conflicts(log, NoEventPosition, StreamQuery(t, u))
    /\ log' = Append(log, [type |-> "TodoCreated", todo |-> t, user |-> u, title |-> name])
    /\ UNCHANGED <<pc, command, position, bulk, pending>>

\* What the read model may have shown of the user's todos when it was listed:
\* "complete all" takes the active ones, the other two the completed ones.
MayBeListed(op, t, u) ==
    /\ Exists(t, u)
    /\ op # "complete" => \E i \in DOMAIN log :
                             InStream(i, t, u) /\ log[i].type = "TodoCompleted"

StartBulk(r, b, items) ==
    /\ pc[r] = "idle"
    /\ items # {}
    /\ bulk' = [bulk EXCEPT ![r] = b]
    /\ pending' = [pending EXCEPT ![r] = items]
    /\ pc' = [pc EXCEPT ![r] = "loop"]
    /\ UNCHANGED <<log, command, position>>

\* The commands r may run now.  A new request runs any: whatever id is in the URL,
\* another user's too.  Until it loads it has done nothing, so it is not in the
\* state.  A bulk command runs its own on one of the todos left.
MayRun(r, c) ==
    /\ (c.op = "rename") <=> (c.title # NoTitle)
    /\ \/ pc[r] = "idle"
       \/ pc[r] = "loop" /\ c.op = bulk[r].op /\ c.user = bulk[r].user /\ c.todo \in pending[r]

\* load...TodoContext, requireActive and the skip test, on one snapshot.  A new request
\* that is refused or has nothing to do answers and leaves no trace, so these two are
\* steps of a bulk command: it ends with ErrNotFound, or goes on with the next todo.
LoadNotFound(r, c) ==
    /\ pc[r] = "loop"
    /\ MayRun(r, c)
    /\ ~ RequireActive(c.todo, c.user)
    /\ Return(r)
    /\ UNCHANGED log

LoadSkip(r, c) ==
    /\ pc[r] = "loop"
    /\ MayRun(r, c)
    /\ RequireActive(c.todo, c.user)
    /\ Skips(c)
    /\ Done(r, c.todo)
    /\ UNCHANGED log

LoadReady(r, c) ==
    /\ MayRun(r, c)
    /\ RequireActive(c.todo, c.user)
    /\ ~ Skips(c)
    /\ \E p \in 0..Len(log) :
         /\ IsContextPosition(p, log, StreamQuery(c.todo, c.user))
         /\ position' = [position EXCEPT ![r] = p]
    /\ command' = [command EXCEPT ![r] = c]
    /\ pc' = [pc EXCEPT ![r] = "save"]
    /\ UNCHANGED <<log, bulk, pending>>

SaveQuery(r) == StreamQuery(command[r].todo, command[r].user)

\* ErrConflict ends the request, a bulk command included: no handler retries.
SaveConflict(r) ==
    /\ pc[r] = "save"
    /\ Conflicts(log, position[r], SaveQuery(r))
    /\ Return(r)
    /\ UNCHANGED log

\* Faulty variant: the save does not pass the position it read at.
SaveUnconditionally(r) ==
    /\ pc[r] = "save"
    /\ Len(log) < MaxEvents
    /\ log' = Append(log, Produced(command[r]))
    /\ Done(r, command[r].todo)

SaveCommit(r) ==
    /\ pc[r] = "save"
    /\ Len(log) < MaxEvents
    /\ ~ Conflicts(log, position[r], SaveQuery(r))
    /\ log' = Append(log, Produced(command[r]))
    /\ Done(r, command[r].todo)

\* The client goes away, the store fails or the process stops: the request ends
\* where it stands and what a bulk command has saved so far stays saved.
Abort(r) ==
    /\ pc[r] # "idle"
    /\ Return(r)
    /\ UNCHANGED log

Next ==
    \/ \E t \in Todo, u \in User, name \in Title : CreateTodo(t, u, name)
    \/ \E r \in Request, b \in BulkCommand, items \in SUBSET Todo :
         /\ \A t \in items : MayBeListed(b.op, t, b.user)
         /\ StartBulk(r, b, items)
    \/ \E r \in Request, c \in Command : LoadNotFound(r, c)
    \/ \E r \in Request, c \in Command : LoadSkip(r, c)
    \/ \E r \in Request, c \in Command : LoadReady(r, c)
    \/ \E r \in Request : SaveConflict(r)
    \/ \E r \in Request : SaveCommit(r)
    \/ \E r \in Request : Abort(r)

Spec == Init /\ [][Next]_vars

-------------------------------------------------------------------------------
\* The log holds todo events; a request that saves has a command and a position
\* inside the log, one that loops has a bulk command and todos left.
TypeOK ==
    /\ log \in Seq(Event)
    /\ pc \in [Request -> {"idle", "loop", "save"}]
    /\ command \in [Request -> Command \cup {NoCommand}]
    /\ position \in [Request -> Nat]
    /\ bulk \in [Request -> BulkCommand \cup {NoCommand}]
    /\ pending \in [Request -> SUBSET Todo]
    /\ \A r \in Request :
         /\ pc[r] = "save" <=> command[r] # NoCommand
         /\ pc[r] = "loop" => pending[r] # {}
         /\ pc[r] = "idle" => bulk[r] = NoCommand
         /\ bulk[r] = NoCommand => pending[r] = {}
         /\ position[r] <= Len(log)

\* Streams do not mix: the first event of a todo is its creation, it is created
\* once, and every later event of it carries the creator's id.  The handlers never
\* compare owners; this rests on the user tag of the stream query.
OwnStream ==
    \A i \in DOMAIN log :
        IF log[i].type = "TodoCreated"
        THEN \A j \in 1..(i - 1) : log[j].todo # log[i].todo
        ELSE \E j \in 1..(i - 1) :
                /\ log[j].type = "TodoCreated"
                /\ log[j].todo = log[i].todo
                /\ log[j].user = log[i].user

\* A deleted todo stays deleted: no command that loaded it alive can still save.
NothingAfterDelete ==
    \A i, j \in DOMAIN log :
        log[i].type = "TodoDeleted" /\ After(j, i) => log[j].todo # log[i].todo

\* Completed and reopened alternate: of two events of one kind, one of the other
\* kind lies between, so a double click or two tabs never save the same fact twice.
TogglesAlternate ==
    \A i, j \in DOMAIN log :
        /\ log[i].type \in {"TodoCompleted", "TodoReopened"}
        /\ After(j, i) /\ log[j].todo = log[i].todo /\ log[j].type = log[i].type
        => \E k \in (i + 1)..(j - 1) :
              /\ log[k].todo = log[i].todo
              /\ log[k].type \in {"TodoCompleted", "TodoReopened"} \ {log[i].type}

\* A rename saves only a title that differs from the one the todo has at that
\* moment, not merely from the one it had when the command loaded.
RenameChangesTitle ==
    \A i, j \in DOMAIN log :
        /\ log[j].type = "TodoRenamed" /\ log[i].type \in {"TodoCreated", "TodoRenamed"}
        /\ log[i].todo = log[j].todo /\ log[i].title = log[j].title /\ After(j, i)
        => \E k \in (i + 1)..(j - 1) :
              log[k].todo = log[i].todo /\ log[k].type = "TodoRenamed"

\* A decision taken at load time is still right when the save commits: whatever
\* happened in between either left the stream alone or makes the save conflict.
DecisionsHold ==
    \A r \in Request :
        pc[r] = "save" /\ ~ Conflicts(log, position[r], SaveQuery(r))
        => RequireActive(command[r].todo, command[r].user) /\ ~ Skips(command[r])

\* "Clear completed" deletes completed todos only: the page offers "Clear done"
\* (internal/views/todos.templ:76) and the test of the bulk actions expects the one
\* completed todo to go and the others to stay (todo_test.go:61-68).
ClearDeletesOnlyCompleted ==
    [][\A r \in Request :
          SaveCommit(r) /\ bulk[r] # NoCommand /\ command[r].op = "delete"
          => Completed(command[r].todo, command[r].user)]_vars

===============================================================================
