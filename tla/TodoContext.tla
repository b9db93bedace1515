------------------------------ MODULE TodoContext ------------------------------
(***************************************************************************)
(* The command contexts as the handlers build them: a fold of handle over   *)
(* the latest events, and the lifecycle the log implements.                 *)
(***************************************************************************)
EXTENDS TodoCommands, FiniteSetsExt

CONSTANT NoUser

EmptyContext == [exists |-> FALSE, deleted |-> FALSE, completed |-> FALSE, title |-> NoTitle]

\* The switch of the four handle methods, on the union of their fields.
Handle(model, event) ==
    CASE event.type = "TodoCreated" ->
           [exists |-> TRUE, deleted |-> FALSE, completed |-> FALSE, title |-> event.title]
      [] event.type = "TodoRenamed" -> [model EXCEPT !.title = event.title]
      [] event.type = "TodoCompleted" -> [model EXCEPT !.completed = TRUE]
      [] event.type = "TodoReopened" -> [model EXCEPT !.completed = FALSE]
      [] event.type = "TodoDeleted" -> [model EXCEPT !.deleted = TRUE]

\* Faulty variant: the results stay in an order of their own.
HandleUnsorted(positions) ==
    MapThenFoldSet(LAMBDA event, model : Handle(model, event), EmptyContext,
                   LAMBDA i : log[i], LAMBDA S : Min(S), positions)

\* The loop over EventsFromLatest, whose sort by position makes the event with the
\* largest position the last one that is handled.
HandleInOrder(positions) ==
    MapThenFoldSet(LAMBDA event, model : Handle(model, event), EmptyContext,
                   LAMBDA i : log[i], LAMBDA S : Max(S), positions)

Context(t, u) == HandleInOrder(LatestByCriteria(log, StreamQuery(t, u)))

\* The handlers read the last event of each type instead of the whole stream and
\* sort what they get.  Nothing is lost by that: the context is the one the whole
\* stream gives, and its fields are the ones the actions of TodoCommands test.
LatestPerTypeSuffices ==
    \A t \in Todo, u \in User :
        LET context == Context(t, u)
            stream == {i \in DOMAIN log : InStream(i, t, u)}
        IN  /\ context = HandleInOrder(stream)
            /\ context.exists = Exists(t, u)
            /\ context.deleted = Deleted(t, u)
            /\ context.completed = Completed(t, u)
            /\ \A name \in Title : (context.title = name) = Titled(name, t, u)

-------------------------------------------------------------------------------
\* The lifecycle state the log stands for, read off the todo id alone.
EventsOf(t) == {i \in DOMAIN log : log[i].todo = t}

StatusOf(t) ==
    IF EventsOf(t) = {} THEN "none"
    ELSE IF \E i \in EventsOf(t) : log[i].type = "TodoDeleted" THEN "deleted"
    ELSE IF \E i \in EventsOf(t) :
              /\ log[i].type = "TodoCompleted"
              /\ \A j \in EventsOf(t) : After(j, i) => log[j].type # "TodoReopened"
         THEN "completed"
    ELSE "active"

OwnerOf(t) ==
    IF EventsOf(t) = {} THEN NoUser
    ELSE CHOOSE u \in User : \E i \in EventsOf(t) : log[i].type = "TodoCreated" /\ log[i].user = u

TitleOf(t) ==
    IF EventsOf(t) = {} THEN NoTitle
    ELSE CHOOSE name \in Title : \E i \in EventsOf(t) :
           /\ log[i].title = name
           /\ \A j \in EventsOf(t) : After(j, i) => log[j].type # "TodoRenamed"

Lifecycle == INSTANCE TodoLifecycle WITH
    status <- [t \in Todo |-> StatusOf(t)],
    owner <- [t \in Todo |-> OwnerOf(t)],
    title <- [t \in Todo |-> TitleOf(t)]

\* The log behaves as TodoLifecycle says: every save that commits, whatever was
\* committed since its command loaded, is one legal step of one todo of its owner.
ImplementsLifecycle == Lifecycle!Spec

===============================================================================
