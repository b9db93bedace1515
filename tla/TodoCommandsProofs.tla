-------------------------- MODULE TodoCommandsProofs --------------------------
(***************************************************************************)
(* The todo commands keep every stream legal, for any number of users,      *)
(* todos, titles and concurrent requests and for a log of any length.       *)
(*                                                                         *)
(* The heart of the argument is DecisionsHold: an appended event either is  *)
(* in the stream of a waiting command, and then that command conflicts, or  *)
(* it is not, and then every field the command decided on is unchanged.     *)
(***************************************************************************)
EXTENDS TodoCommands, TLAPS

-------------------------------------------------------------------------------
(* The event store and the stream query.                                   *)

\* An event is in a todo's stream exactly when it carries its two scope tags.
LEMMA StreamMembership ==
    ASSUME NEW e \in Event, NEW t, NEW u
    PROVE  InQuery(e, StreamQuery(t, u)) <=> (e.todo = t /\ e.user = u)
<1>1. ASSUME InQuery(e, StreamQuery(t, u)) PROVE e.todo = t /\ e.user = u
  <2>1. PICK c \in StreamQuery(t, u) : Matches(e, c)
    BY <1>1 DEF InQuery
  <2>2. c.todo = t /\ c.user = u /\ "todo" \in DOMAIN c /\ "user" \in DOMAIN c
    BY <2>1 DEF StreamQuery
  <2> QED BY <2>1, <2>2 DEF Matches
<1>2. ASSUME e.todo = t, e.user = u PROVE InQuery(e, StreamQuery(t, u))
  <2> DEFINE c == [type |-> e.type, todo |-> t, user |-> u]
  <2>1. c \in StreamQuery(t, u)
    BY DEF StreamQuery, Event
  <2>2. Matches(e, c)
    BY <1>2 DEF Matches, Event
  <2> QED BY <2>1, <2>2 DEF InQuery
<1> QED BY <1>1, <1>2

\* The same for an event of the log.
LEMMA InStreamFields ==
    ASSUME log \in Seq(Event), NEW i \in DOMAIN log, NEW t, NEW u
    PROVE  InStream(i, t, u) <=> (log[i].todo = t /\ log[i].user = u)
BY StreamMembership DEF InStream

\* Appending to the log keeps its old part and adds one position at the end.
LEMMA Appended ==
    ASSUME log \in Seq(Event), NEW e \in Event, log' = Append(log, e)
    PROVE  /\ log' \in Seq(Event)
           /\ Len(log') = Len(log) + 1 /\ Len(log) \in Nat
           /\ DOMAIN log = 1..Len(log) /\ DOMAIN log' = 1..(Len(log) + 1)
           /\ \A i \in DOMAIN log : log'[i] = log[i]
           /\ log'[Len(log) + 1] = e
OBVIOUS

\* A command that is saved makes an event of its own todo and user.
LEMMA ProducedEvent ==
    ASSUME NEW c \in Command
    PROVE  /\ Produced(c) \in Event
           /\ Produced(c).todo = c.todo /\ Produced(c).user = c.user
           /\ Produced(c).title = c.title
           /\ Produced(c).type # "TodoCreated"
           /\ Produced(c).type = "TodoRenamed" <=> c.op = "rename"
           /\ Produced(c).type = "TodoCompleted" <=> c.op = "complete"
           /\ Produced(c).type = "TodoReopened" <=> c.op = "reopen"
           /\ Produced(c).type = "TodoDeleted" <=> c.op = "delete"
BY DEF Command, Produced, EventTypeOf, Event, TodoEventType

-------------------------------------------------------------------------------
(* Type correctness.                                                       *)

\* Leaving a request keeps the types of everything it writes, and a place other
\* than "loop" with todos left or "idle" is never entered.
LEMMA LeaveType ==
    ASSUME TypeOK, NEW r \in Request, NEW place \in {"idle", "loop"}, NEW rest \in SUBSET Todo,
           IF place = "loop" THEN bulk[r] # NoCommand /\ rest # {} ELSE rest = {},
           Leave(r, place, rest), log' \in Seq(Event), Len(log) <= Len(log')
    PROVE  TypeOK'
<1> USE DEF TypeOK, Leave, NoEventPosition
<1>1. /\ pc' \in [Request -> {"idle", "loop", "save"}]
      /\ command' \in [Request -> Command \cup {NoCommand}]
      /\ position' \in [Request -> Nat]
      /\ bulk' \in [Request -> BulkCommand \cup {NoCommand}]
      /\ pending' \in [Request -> SUBSET Todo]
  OBVIOUS
<1>2. ASSUME NEW q \in Request
      PROVE  /\ pc'[q] = "save" <=> command'[q] # NoCommand
             /\ pc'[q] = "loop" => pending'[q] # {}
             /\ pc'[q] = "idle" => bulk'[q] = NoCommand
             /\ bulk'[q] = NoCommand => pending'[q] = {}
             /\ position'[q] <= Len(log')
  <2>1. CASE q = r
    BY <2>1
  <2>2. CASE q # r
    BY <2>2
  <2> QED BY <2>1, <2>2
<1> QED BY <1>1, <1>2

\* So does finishing a single command, the last one of a request or not.
LEMMA DoneType ==
    ASSUME TypeOK, NEW r \in Request, NEW t,
           Done(r, t), log' \in Seq(Event), Len(log) <= Len(log')
    PROVE  TypeOK'
<1>1. CASE Return(r)
  BY <1>1, LeaveType DEF Return
<1>2. CASE ~ (pending[r] \subseteq {t}) /\ Leave(r, "loop", pending[r] \ {t})
  <2>1. pending[r] \in SUBSET Todo
    BY DEF TypeOK
  <2>2. pending[r] \ {t} # {} /\ bulk[r] # NoCommand
    BY <1>2 DEF TypeOK
  <2> QED BY <1>2, <2>1, <2>2, LeaveType
<1> QED BY <1>1, <1>2 DEF Done

LEMMA TypeInit == Init => TypeOK
BY DEF Init, TypeOK, NoEventPosition, Event

LEMMA TypeStep ==
    ASSUME TypeOK, [Next]_vars
    PROVE  TypeOK'
<1>0. log \in Seq(Event) /\ Len(log) \in Nat
  BY DEF TypeOK
<1>1. ASSUME NEW t \in Todo, NEW u \in User, NEW name \in Title, CreateTodo(t, u, name)
      PROVE  TypeOK'
  <2> DEFINE e == [type |-> "TodoCreated", todo |-> t, user |-> u, title |-> name]
  <2>1. e \in Event
    BY DEF Event, TodoEventType
  <2>2. log' = Append(log, e)
    BY <1>1 DEF CreateTodo
  <2>3. log' \in Seq(Event) /\ Len(log') = Len(log) + 1
    BY <1>0, <2>1, <2>2, Appended
  <2> QED BY <1>0, <1>1, <2>3 DEF CreateTodo, TypeOK
<1>2. ASSUME NEW r \in Request, NEW b \in BulkCommand, NEW items \in SUBSET Todo,
             StartBulk(r, b, items)
      PROVE  TypeOK'
  <2>1. b # NoCommand
    BY NoCommandAssumption
  <2> QED BY <1>2, <2>1 DEF StartBulk, TypeOK
<1>3. ASSUME NEW r \in Request, NEW c \in Command, LoadNotFound(r, c) PROVE TypeOK'
  BY <1>0, <1>3, LeaveType DEF LoadNotFound, Return
<1>4. ASSUME NEW r \in Request, NEW c \in Command, LoadSkip(r, c) PROVE TypeOK'
  BY <1>0, <1>4, DoneType DEF LoadSkip
<1>5. ASSUME NEW r \in Request, NEW c \in Command, LoadReady(r, c) PROVE TypeOK'
  <2>1. PICK p \in 0..Len(log) : position' = [position EXCEPT ![r] = p]
    BY <1>5 DEF LoadReady
  <2>2. c # NoCommand
    BY NoCommandAssumption
  <2> QED BY <1>0, <1>5, <2>1, <2>2 DEF LoadReady, TypeOK
<1>6. ASSUME NEW r \in Request, SaveConflict(r) PROVE TypeOK'
  BY <1>0, <1>6, LeaveType DEF SaveConflict, Return
<1>7. ASSUME NEW r \in Request, SaveCommit(r) PROVE TypeOK'
  <2>1. command[r] \in Command
    BY <1>7 DEF SaveCommit, TypeOK
  <2>2. log' \in Seq(Event) /\ Len(log') = Len(log) + 1
    BY <1>0, <1>7, <2>1, ProducedEvent, Appended DEF SaveCommit
  <2> QED BY <1>0, <1>7, <2>2, DoneType DEF SaveCommit
<1>8. ASSUME NEW r \in Request, Abort(r) PROVE TypeOK'
  BY <1>0, <1>8, LeaveType DEF Abort, Return
<1>9. CASE UNCHANGED vars
  BY <1>9 DEF vars, TypeOK
<1> QED BY <1>1, <1>2, <1>3, <1>4, <1>5, <1>6, <1>7, <1>8, <1>9 DEF Next

\* Every variable keeps its type and every request stays consistent: positions
\* inside the log, a command exactly while it saves, todos left only to a bulk.
THEOREM TypeCorrect == Spec => []TypeOK
BY TypeInit, TypeStep, PTL DEF Spec

-------------------------------------------------------------------------------
(* What an append does to a stream it is not in.                            *)

\* The positions of a stream, and which of them is the last of some kinds, do not
\* change when an event outside the stream is appended.
LEMMA LatestUnchanged ==
    ASSUME log \in Seq(Event), NEW e \in Event, log' = Append(log, e),
           NEW t, NEW u, ~ (e.todo = t /\ e.user = u),
           NEW i \in DOMAIN log', NEW kinds
    PROVE  /\ InStream(i, t, u)' <=> i \in DOMAIN log /\ InStream(i, t, u)
           /\ IsLatest(i, kinds, t, u)' <=> i \in DOMAIN log /\ IsLatest(i, kinds, t, u)
<1>1. ASSUME NEW j \in DOMAIN log'
      PROVE  InStream(j, t, u)' <=> j \in DOMAIN log /\ InStream(j, t, u)
  <2>1. CASE j \in DOMAIN log
    <3>1. log'[j] = log[j]
      BY <2>1, Appended
    <3> QED BY <2>1, <3>1 DEF InStream
  <2>2. CASE j = Len(log) + 1
    <3>1. log'[j] = e /\ j \notin DOMAIN log
      BY <2>2, Appended
    <3>2. ~ InQuery(e, StreamQuery(t, u))
      BY StreamMembership
    <3> QED BY <3>1, <3>2 DEF InStream
  <2> QED BY <2>1, <2>2, Appended
<1>2. \A j \in DOMAIN log : j \in DOMAIN log' /\ log'[j] = log[j]
  BY Appended
<1>3. (\A j \in DOMAIN log' : After(j, i) /\ log'[j].type \in kinds => ~ InStream(j, t, u)')
      <=> (\A j \in DOMAIN log : After(j, i) /\ log[j].type \in kinds => ~ InStream(j, t, u))
  BY <1>1, <1>2
<1>4. IsLatest(i, kinds, t, u)' <=>
        /\ log'[i].type \in kinds
        /\ InStream(i, t, u)'
        /\ \A j \in DOMAIN log' : After(j, i) /\ log'[j].type \in kinds => ~ InStream(j, t, u)'
  BY DEF IsLatest, After
<1> QED BY <1>1, <1>2, <1>3, <1>4 DEF IsLatest

\* Hence nothing a handler decides on changes, nor whether a save conflicts.
LEMMA StreamUnchanged ==
    ASSUME log \in Seq(Event), NEW e \in Event, log' = Append(log, e),
           NEW t, NEW u, ~ (e.todo = t /\ e.user = u)
    PROVE  /\ Exists(t, u)' <=> Exists(t, u)
           /\ Deleted(t, u)' <=> Deleted(t, u)
           /\ Completed(t, u)' <=> Completed(t, u)
           /\ \A name : Titled(name, t, u)' <=> Titled(name, t, u)
<1>1. \A j \in DOMAIN log : j \in DOMAIN log' /\ log'[j] = log[j]
  BY Appended
<1>2. Exists(t, u)' <=> Exists(t, u)
  BY <1>1, LatestUnchanged DEF Exists
<1>3. Deleted(t, u)' <=> Deleted(t, u)
  BY <1>1, LatestUnchanged DEF Deleted
<1>4. Completed(t, u)' <=> Completed(t, u)
  BY <1>1, LatestUnchanged DEF Completed
<1>5. ASSUME NEW name PROVE Titled(name, t, u)' <=> Titled(name, t, u)
  BY <1>1, LatestUnchanged DEF Titled
<1> QED BY <1>2, <1>3, <1>4, <1>5

\* An event appended to the stream of a waiting save makes that save conflict, and
\* a conflict, once there, stays.
LEMMA AppendConflicts ==
    ASSUME log \in Seq(Event), NEW e \in Event, log' = Append(log, e),
           NEW p \in Nat, p <= Len(log), NEW t, NEW u,
           Conflicts(log, p, StreamQuery(t, u)) \/ (e.todo = t /\ e.user = u)
    PROVE  Conflicts(log', p, StreamQuery(t, u))
<1>1. CASE e.todo = t /\ e.user = u
  <2>1. InQuery(log'[Len(log) + 1], StreamQuery(t, u)) /\ Len(log) + 1 \in DOMAIN log'
    BY <1>1, Appended, StreamMembership
  <2> QED BY <2>1, Appended DEF Conflicts, After
<1>2. CASE Conflicts(log, p, StreamQuery(t, u))
  BY <1>2, Appended DEF Conflicts
<1> QED BY <1>1, <1>2

LEMMA SameLog ==
    ASSUME log' = log, NEW t, NEW u
    PROVE  /\ Exists(t, u)' <=> Exists(t, u)
           /\ Deleted(t, u)' <=> Deleted(t, u)
           /\ Completed(t, u)' <=> Completed(t, u)
           /\ \A name : Titled(name, t, u)' <=> Titled(name, t, u)
BY DEF Exists, Deleted, Completed, Titled, IsLatest, InStream

-------------------------------------------------------------------------------
(* DecisionsHold.                                                          *)

\* A command c decided on the fields of its stream only.
LEMMA SameDecision ==
    ASSUME NEW c,
           Exists(c.todo, c.user)' <=> Exists(c.todo, c.user),
           Deleted(c.todo, c.user)' <=> Deleted(c.todo, c.user),
           Completed(c.todo, c.user)' <=> Completed(c.todo, c.user),
           \A name : Titled(name, c.todo, c.user)' <=> Titled(name, c.todo, c.user)
    PROVE  /\ RequireActive(c.todo, c.user)' <=> RequireActive(c.todo, c.user)
           /\ Skips(c)' <=> Skips(c)
BY Zenon DEF RequireActive, Skips

\* A request that keeps waiting to save c, while the log stays or grows by one event.
LEMMA WaitingDecisionHolds ==
    ASSUME TypeOK, DecisionsHold, NEW r \in Request, pc[r] = "save",
           NEW c, command[r] = c, NEW p, position[r] = p,
           log' = log \/ \E e \in Event : log' = Append(log, e),
           ~ Conflicts(log', p, StreamQuery(c.todo, c.user))
    PROVE  RequireActive(c.todo, c.user)' /\ ~ Skips(c)'
<1>0. log \in Seq(Event) /\ p \in Nat /\ p <= Len(log)
  BY DEF TypeOK
<1>1. ASSUME ~ Conflicts(log, p, StreamQuery(c.todo, c.user))
      PROVE  RequireActive(c.todo, c.user) /\ ~ Skips(c)
  BY <1>1 DEF DecisionsHold, SaveQuery
<1>2. CASE log' = log
  <2>1. RequireActive(c.todo, c.user) /\ ~ Skips(c)
    BY <1>1, <1>2
  <2> QED BY <1>2, <2>1, SameLog, SameDecision
<1>3. ASSUME NEW e \in Event, log' = Append(log, e)
      PROVE  RequireActive(c.todo, c.user)' /\ ~ Skips(c)'
  <2>1. /\ ~ Conflicts(log, p, StreamQuery(c.todo, c.user))
        /\ ~ (e.todo = c.todo /\ e.user = c.user)
    BY <1>0, <1>3, AppendConflicts
  <2>2. RequireActive(c.todo, c.user) /\ ~ Skips(c)
    BY <1>1, <2>1
  <2> QED BY <1>0, <1>3, <2>1, <2>2, StreamUnchanged, SameDecision
<1> QED BY <1>2, <1>3

\* What every step does to the log, and to a request that waits to save before and
\* after it: the log grows by at most one event, and the request either loaded just
\* now, from this log, or is left alone.
LEMMA StepShape ==
    ASSUME TypeOK, [Next]_vars
    PROVE  /\ log' = log \/ \E e \in Event : log' = Append(log, e)
           /\ \A r \in Request : pc'[r] = "save" =>
                \/ pc[r] = "save" /\ command'[r] = command[r] /\ position'[r] = position[r]
                \/ \E c \in Command : LoadReady(r, c)
<1>0. /\ log \in Seq(Event) /\ Len(log) \in Nat
      /\ pc \in [Request -> {"idle", "loop", "save"}]
      /\ command \in [Request -> Command \cup {NoCommand}]
      /\ position \in [Request -> Nat]
  BY DEF TypeOK
<1>1. ASSUME NEW q \in Request, NEW place \in {"idle", "loop"}, NEW rest, Leave(q, place, rest)
      PROVE  \A r \in Request : pc'[r] = "save" =>
               pc[r] = "save" /\ command'[r] = command[r] /\ position'[r] = position[r]
  BY <1>0, <1>1 DEF Leave
<1>2. ASSUME NEW q \in Request, NEW t, Done(q, t)
      PROVE  \A r \in Request : pc'[r] = "save" =>
               pc[r] = "save" /\ command'[r] = command[r] /\ position'[r] = position[r]
  BY <1>1, <1>2 DEF Done, Return
<1>3. ASSUME NEW t \in Todo, NEW u \in User, NEW name \in Title, CreateTodo(t, u, name)
      PROVE  /\ \E e \in Event : log' = Append(log, e)
             /\ pc' = pc /\ command' = command /\ position' = position
  BY <1>3 DEF CreateTodo, Event, TodoEventType
<1>4. ASSUME NEW q \in Request, NEW b \in BulkCommand, NEW items \in SUBSET Todo,
             StartBulk(q, b, items)
      PROVE  /\ log' = log /\ command' = command /\ position' = position
             /\ \A r \in Request : pc'[r] = "save" => pc[r] = "save"
  BY <1>0, <1>4 DEF StartBulk
<1>5. ASSUME NEW q \in Request, NEW c \in Command, LoadReady(q, c)
      PROVE  /\ log' = log
             /\ \A r \in Request : pc'[r] = "save" =>
                  \/ pc[r] = "save" /\ command'[r] = command[r] /\ position'[r] = position[r]
                  \/ \E d \in Command : LoadReady(r, d)
  <2>1. log' = log /\ \E p : position' = [position EXCEPT ![q] = p]
    BY <1>5 DEF LoadReady
  <2>2. /\ command' = [command EXCEPT ![q] = c]
        /\ pc' = [pc EXCEPT ![q] = "save"]
    BY <1>5 DEF LoadReady
  <2>3. ASSUME NEW r \in Request, pc'[r] = "save", r # q
        PROVE  pc[r] = "save" /\ command'[r] = command[r] /\ position'[r] = position[r]
    BY <1>0, <2>1, <2>2, <2>3
  <2> QED BY <1>5, <2>1, <2>3
<1>6. ASSUME NEW q \in Request, SaveCommit(q)
      PROVE  /\ \E e \in Event : log' = Append(log, e)
             /\ \A r \in Request : pc'[r] = "save" =>
                  pc[r] = "save" /\ command'[r] = command[r] /\ position'[r] = position[r]
  <2>1. command[q] \in Command
    BY <1>6 DEF SaveCommit, TypeOK
  <2> QED BY <1>2, <1>6, <2>1, ProducedEvent DEF SaveCommit
<1>7. CASE \E q \in Request, c \in Command : LoadNotFound(q, c) \/ LoadSkip(q, c)
  BY <1>1, <1>2, <1>7 DEF LoadNotFound, LoadSkip, Return
<1>8. CASE \E q \in Request : SaveConflict(q) \/ Abort(q)
  BY <1>1, <1>8 DEF SaveConflict, Abort, Return
<1>9. CASE UNCHANGED vars
  BY <1>9 DEF vars
<1> QED BY <1>3, <1>4, <1>5, <1>6, <1>7, <1>8, <1>9 DEF Next

LEMMA DecisionsInit == Init => DecisionsHold
BY DEF Init, DecisionsHold

LEMMA DecisionsStep ==
    ASSUME TypeOK, DecisionsHold, [Next]_vars
    PROVE  DecisionsHold'
<1> SUFFICES ASSUME NEW r \in Request, pc'[r] = "save",
                    NEW c, command'[r] = c, NEW p, position'[r] = p,
                    ~ Conflicts(log', p, StreamQuery(c.todo, c.user))
             PROVE  RequireActive(c.todo, c.user)' /\ ~ Skips(c)'
  BY DEF DecisionsHold, SaveQuery
<1>1. CASE pc[r] = "save" /\ command'[r] = command[r] /\ position'[r] = position[r]
  BY <1>1, StepShape, WaitingDecisionHolds
<1>2. ASSUME NEW d \in Command, LoadReady(r, d)
      PROVE  RequireActive(c.todo, c.user)' /\ ~ Skips(c)'
  <2>1. log' = log /\ c = d
    BY <1>2 DEF LoadReady, TypeOK
  <2>2. RequireActive(c.todo, c.user) /\ ~ Skips(c)
    BY <1>2, <2>1 DEF LoadReady
  <2> QED BY <2>1, <2>2, SameLog, SameDecision
<1> QED BY <1>1, <1>2, StepShape

-------------------------------------------------------------------------------
(* The shape of the log.                                                   *)

\* A step appends nothing, the creation of a fresh todo, or an event its command
\* decided on rightly.
LEMMA LogStep ==
    ASSUME TypeOK, DecisionsHold, [Next]_vars
    PROVE  \/ log' = log
           \/ \E e \in Event : /\ log' = Append(log, e)
                               /\ e.type = "TodoCreated"
                               /\ \A i \in DOMAIN log : log[i].todo # e.todo
           \/ \E c \in Command : /\ log' = Append(log, Produced(c))
                                 /\ RequireActive(c.todo, c.user)
                                 /\ ~ Skips(c)
<1>1. ASSUME NEW t \in Todo, NEW u \in User, NEW name \in Title, CreateTodo(t, u, name)
      PROVE  \E e \in Event : /\ log' = Append(log, e)
                              /\ e.type = "TodoCreated"
                              /\ \A i \in DOMAIN log : log[i].todo # e.todo
  BY <1>1 DEF CreateTodo, Event, TodoEventType
<1>2. ASSUME NEW r \in Request, SaveCommit(r)
      PROVE  \E c \in Command : /\ log' = Append(log, Produced(c))
                                /\ RequireActive(c.todo, c.user)
                                /\ ~ Skips(c)
  <2>1. command[r] \in Command
    BY <1>2 DEF SaveCommit, TypeOK
  <2>2. RequireActive(command[r].todo, command[r].user) /\ ~ Skips(command[r])
    BY <1>2 DEF SaveCommit, DecisionsHold
  <2> QED BY <1>2, <2>1, <2>2 DEF SaveCommit
<1>3. ASSUME \/ \E r \in Request, b \in BulkCommand, items \in SUBSET Todo : StartBulk(r, b, items)
             \/ \E r \in Request, c \in Command :
                  LoadNotFound(r, c) \/ LoadSkip(r, c) \/ LoadReady(r, c)
             \/ \E r \in Request : SaveConflict(r) \/ Abort(r)
             \/ UNCHANGED vars
      PROVE  log' = log
  BY <1>3 DEF StartBulk, LoadNotFound, LoadSkip, LoadReady, SaveConflict, Abort, vars
<1> QED BY <1>1, <1>2, <1>3 DEF Next

\* Where a user has a live todo, every event of that todo is the user's own, only
\* its first is a creation, and none deletes it.
LEMMA LiveStream ==
    ASSUME log \in Seq(Event), OwnStream, NothingAfterDelete, NEW t, NEW u, RequireActive(t, u)
    PROVE  \A i \in DOMAIN log : log[i].todo = t =>
             /\ InStream(i, t, u)
             /\ log[i].type # "TodoDeleted"
             /\ log[i].type = "TodoCreated" => \A j \in DOMAIN log : log[j].todo = t => i <= j
<1>0. DOMAIN log = 1..Len(log) /\ Len(log) \in Nat
  OBVIOUS
<1>1. PICK k \in DOMAIN log :
        log[k].todo = t /\ log[k].user = u /\ log[k].type = "TodoCreated"
  BY InStreamFields DEF RequireActive, Exists
<1>2. ASSUME NEW i \in DOMAIN log, log[i].todo = t, log[i].type = "TodoCreated"
      PROVE  /\ i = k
             /\ \A j \in DOMAIN log : log[j].todo = t => i <= j
  BY <1>0, <1>1, <1>2 DEF OwnStream
<1>3. ASSUME NEW i \in DOMAIN log, log[i].todo = t PROVE InStream(i, t, u)
  <2>1. CASE log[i].type = "TodoCreated"
    BY <1>1, <1>2, <1>3, <2>1, InStreamFields
  <2>2. CASE log[i].type # "TodoCreated"
    <3>1. PICK j \in 1..(i - 1) : /\ log[j].type = "TodoCreated"
                                  /\ log[j].todo = log[i].todo /\ log[j].user = log[i].user
      BY <2>2 DEF OwnStream
    <3>2. j \in DOMAIN log
      BY <1>0
    <3> QED BY <1>1, <1>2, <1>3, <3>1, <3>2, InStreamFields
  <2> QED BY <2>1, <2>2
<1>4. ASSUME NEW i \in DOMAIN log, log[i].todo = t, log[i].type = "TodoDeleted" PROVE FALSE
  <2>1. \A j \in DOMAIN log : After(j, i) => log[j].todo # t
    BY <1>4 DEF NothingAfterDelete
  <2>2. \A j \in DOMAIN log : After(j, i) => ~ InStream(j, t, u)
    BY <2>1, InStreamFields
  <2>3. IsLatest(i, {"TodoCreated", "TodoDeleted"}, t, u)
    BY <1>3, <1>4, <2>2 DEF IsLatest
  <2> QED BY <1>4, <2>3 DEF RequireActive, Deleted
<1> QED BY <1>2, <1>3, <1>4

LogShape == OwnStream /\ NothingAfterDelete /\ TogglesAlternate /\ RenameChangesTitle

LEMMA ShapeInit == Init => LogShape
BY DEF Init, LogShape, OwnStream, NothingAfterDelete, TogglesAlternate, RenameChangesTitle

\* The creation of a todo no event names yet.
LEMMA CreationKeepsShape ==
    ASSUME log \in Seq(Event), LogShape, NEW e \in Event, log' = Append(log, e),
           e.type = "TodoCreated", \A i \in DOMAIN log : log[i].todo # e.todo
    PROVE  LogShape'
<1> DEFINE n == Len(log) + 1
<1>0. /\ Len(log) \in Nat /\ DOMAIN log = 1..Len(log) /\ DOMAIN log' = 1..n
      /\ \A i \in 1..Len(log) : log'[i] = log[i]
      /\ log'[n] = e
  BY Appended
<1> USE DEF LogShape, After
<1>1. OwnStream'
  BY <1>0 DEF OwnStream
<1>2. NothingAfterDelete'
  BY <1>0 DEF NothingAfterDelete
<1>3. TogglesAlternate'
  BY <1>0 DEF TogglesAlternate
<1>4. RenameChangesTitle'
  BY <1>0 DEF RenameChangesTitle
<1> QED BY <1>1, <1>2, <1>3, <1>4

\* The event of a command whose decision holds.
LEMMA CommandKeepsShape ==
    ASSUME log \in Seq(Event), LogShape, NEW c \in Command, log' = Append(log, Produced(c)),
           RequireActive(c.todo, c.user), ~ Skips(c)
    PROVE  LogShape'
<1> DEFINE n == Len(log) + 1
           e == Produced(c)
<1>0. /\ Len(log) \in Nat /\ DOMAIN log = 1..Len(log) /\ DOMAIN log' = 1..n
      /\ \A i \in 1..Len(log) : log'[i] = log[i]
      /\ log'[n] = e
  BY Appended, ProducedEvent
<1>1. /\ e \in Event /\ e.todo = c.todo /\ e.user = c.user /\ e.title = c.title
      /\ e.type # "TodoCreated"
  BY ProducedEvent
<1>2. ASSUME NEW i \in 1..Len(log), log[i].todo = c.todo
      PROVE  /\ InStream(i, c.todo, c.user)
             /\ log[i].type # "TodoDeleted"
             /\ log[i].type = "TodoCreated" => \A j \in 1..Len(log) : log[j].todo = c.todo => i <= j
  BY <1>0, <1>2, LiveStream DEF LogShape
<1>3. \A i \in 1..Len(log) :
        InStream(i, c.todo, c.user) <=> log[i].todo = c.todo /\ log[i].user = c.user
  BY <1>0, InStreamFields
<1>4. OwnStream'
  <2>1. \E k \in 1..Len(log) :
          log[k].type = "TodoCreated" /\ log[k].todo = c.todo /\ log[k].user = c.user
    BY <1>0, <1>3 DEF RequireActive, Exists
  <2> HIDE DEF e
  <2>2. ASSUME NEW i \in 1..Len(log), log'[i].type = "TodoCreated", NEW j \in 1..(i - 1)
        PROVE  log'[j].todo # log'[i].todo
    <3>1. j \in 1..Len(log) /\ log'[i] = log[i] /\ log'[j] = log[j]
      BY <1>0
    <3> QED BY <1>0, <2>2, <3>1 DEF OwnStream, LogShape
  <2>3. ASSUME NEW i \in 1..Len(log), log'[i].type # "TodoCreated"
        PROVE  \E j \in 1..(i - 1) : /\ log'[j].type = "TodoCreated"
                                     /\ log'[j].todo = log'[i].todo
                                     /\ log'[j].user = log'[i].user
    <3>1. PICK j \in 1..(i - 1) : /\ log[j].type = "TodoCreated"
                                  /\ log[j].todo = log[i].todo
                                  /\ log[j].user = log[i].user
      BY <1>0, <2>3 DEF OwnStream, LogShape
    <3>2. j \in 1..Len(log) /\ log'[i] = log[i] /\ log'[j] = log[j]
      BY <1>0
    <3> QED BY <3>1, <3>2
  <2>4. \E j \in 1..(n - 1) : /\ log'[j].type = "TodoCreated"
                             /\ log'[j].todo = e.todo
                             /\ log'[j].user = e.user
    BY <1>0, <1>1, <2>1
  <2>5. ASSUME NEW i \in DOMAIN log'
        PROVE  IF log'[i].type = "TodoCreated"
               THEN \A j \in 1..(i - 1) : log'[j].todo # log'[i].todo
               ELSE \E j \in 1..(i - 1) : /\ log'[j].type = "TodoCreated"
                                         /\ log'[j].todo = log'[i].todo
                                         /\ log'[j].user = log'[i].user
    <3>1. CASE i \in 1..Len(log)
      BY <2>2, <2>3, <3>1
    <3>2. CASE i = n
      <4>1. log'[i] = e
        BY <1>0, <3>2
      <4> QED BY <1>1, <2>4, <3>2, <4>1
    <3> QED BY <1>0, <3>1, <3>2
  <2> QED BY <2>5 DEF OwnStream
<1>5. NothingAfterDelete'
  <2> HIDE DEF e
  <2> QED BY <1>0, <1>1, <1>2 DEF NothingAfterDelete, LogShape, After
<1>6. TogglesAlternate'
  <2>1. ASSUME NEW i \in 1..Len(log), log[i].type \in {"TodoCompleted", "TodoReopened"},
               log[i].todo = c.todo, log[i].type = e.type
        PROVE  \E k \in (i + 1)..(n - 1) :
                 /\ log[k].todo = c.todo
                 /\ log[k].type \in {"TodoCompleted", "TodoReopened"} \ {e.type}
    <3> DEFINE Toggle == {"TodoCreated", "TodoCompleted", "TodoReopened"}
    <3>1. CASE e.type = "TodoCompleted"
      <4>1. ~ Completed(c.todo, c.user)
        BY <3>1, ProducedEvent DEF Skips
      <4>2. ~ IsLatest(i, Toggle, c.todo, c.user)
        BY <1>0, <2>1, <3>1, <4>1 DEF Completed
      <4>3. PICK j \in 1..Len(log) :
              j > i /\ log[j].type \in Toggle /\ InStream(j, c.todo, c.user)
        BY <1>0, <1>2, <2>1, <4>2 DEF IsLatest, After
      <4>4. log[j].todo = c.todo /\ log[j].type # "TodoCreated"
        BY <1>2, <1>3, <2>1, <4>3
      <4>5. CASE log[j].type = "TodoReopened"
        BY <1>0, <3>1, <4>3, <4>4, <4>5
      <4>6. CASE log[j].type = "TodoCompleted"
        <5>0. /\ i \in DOMAIN log /\ j \in DOMAIN log /\ After(j, i)
              /\ log[j].todo = log[i].todo /\ log[j].type = log[i].type
          BY <1>0, <2>1, <3>1, <4>3, <4>4, <4>6 DEF After
        <5>1. PICK k \in (i + 1)..(j - 1) :
                /\ log[k].todo = log[i].todo
                /\ log[k].type \in {"TodoCompleted", "TodoReopened"} \ {log[i].type}
          BY <2>1, <5>0 DEF TogglesAlternate, LogShape
        <5> QED BY <1>0, <2>1, <4>3, <5>1
      <4> QED BY <4>3, <4>4, <4>5, <4>6
    <3>2. CASE e.type = "TodoReopened"
      <4>1. Completed(c.todo, c.user)
        BY <3>2, ProducedEvent DEF Skips
      <4>2. PICK k \in 1..Len(log) :
              IsLatest(k, Toggle, c.todo, c.user) /\ log[k].type = "TodoCompleted"
        BY <1>0, <4>1 DEF Completed
      <4>3. InStream(i, c.todo, c.user)
        BY <1>2, <2>1
      <4>4. ~ (i > k) /\ i # k /\ log[k].todo = c.todo
        BY <1>0, <1>3, <2>1, <3>2, <4>2, <4>3 DEF IsLatest, After
      <4> QED BY <1>0, <3>2, <4>2, <4>4
    <3> QED BY <2>1, <3>1, <3>2
  <2> HIDE DEF e
  <2>2. ASSUME NEW i \in DOMAIN log', NEW j \in DOMAIN log',
               log'[i].type \in {"TodoCompleted", "TodoReopened"}, j > i,
               log'[j].todo = log'[i].todo, log'[j].type = log'[i].type
        PROVE  \E k \in (i + 1)..(j - 1) :
                 /\ log'[k].todo = log'[i].todo
                 /\ log'[k].type \in {"TodoCompleted", "TodoReopened"} \ {log'[i].type}
    <3>1. CASE j = n
      <4>1. i \in 1..Len(log) /\ log'[i] = log[i]
        BY <1>0, <2>2, <3>1
      <4>2. PICK k \in (i + 1)..(n - 1) :
              /\ log[k].todo = c.todo
              /\ log[k].type \in {"TodoCompleted", "TodoReopened"} \ {e.type}
        BY <1>0, <1>1, <2>1, <2>2, <3>1, <4>1
      <4>3. log'[k] = log[k]
        BY <1>0, <4>1
      <4> QED BY <1>0, <1>1, <2>2, <3>1, <4>1, <4>2, <4>3
    <3>2. CASE j \in 1..Len(log)
      <4>1. i \in 1..Len(log) /\ \A k \in i..j : log'[k] = log[k]
        BY <1>0, <2>2, <3>2
      <4> QED BY <1>0, <2>2, <3>2, <4>1 DEF TogglesAlternate, LogShape, After
    <3> QED BY <1>0, <2>2, <3>1, <3>2
  <2> QED BY <2>2 DEF TogglesAlternate, After
<1>7. RenameChangesTitle'
  <2>1. ASSUME NEW i \in 1..Len(log), e.type = "TodoRenamed",
               log[i].type \in {"TodoCreated", "TodoRenamed"},
               log[i].todo = c.todo, log[i].title = c.title
        PROVE  \E k \in (i + 1)..(n - 1) : log[k].todo = c.todo /\ log[k].type = "TodoRenamed"
    <3>1. ~ Titled(c.title, c.todo, c.user)
      BY <2>1, ProducedEvent DEF Skips
    <3>2. ~ IsLatest(i, {"TodoCreated", "TodoRenamed"}, c.todo, c.user)
      BY <1>0, <2>1, <3>1 DEF Titled
    <3>3. PICK j \in 1..Len(log) :
            j > i /\ log[j].type \in {"TodoCreated", "TodoRenamed"} /\ InStream(j, c.todo, c.user)
      BY <1>0, <1>2, <2>1, <3>2 DEF IsLatest, After
    <3>4. log[j].todo = c.todo /\ log[j].type # "TodoCreated"
      BY <1>2, <1>3, <2>1, <3>3
    <3> QED BY <1>0, <3>3, <3>4
  <2> HIDE DEF e
  <2>2. ASSUME NEW i \in DOMAIN log', NEW j \in DOMAIN log',
               log'[j].type = "TodoRenamed", log'[i].type \in {"TodoCreated", "TodoRenamed"},
               log'[i].todo = log'[j].todo, log'[i].title = log'[j].title, j > i
        PROVE  \E k \in (i + 1)..(j - 1) :
                 log'[k].todo = log'[i].todo /\ log'[k].type = "TodoRenamed"
    <3>1. CASE j = n
      <4>1. i \in 1..Len(log) /\ log'[i] = log[i]
        BY <1>0, <2>2, <3>1
      <4>2. PICK k \in (i + 1)..(n - 1) : log[k].todo = c.todo /\ log[k].type = "TodoRenamed"
        BY <1>0, <1>1, <2>1, <2>2, <3>1, <4>1
      <4>3. log'[k] = log[k]
        BY <1>0, <4>1
      <4> QED BY <1>0, <1>1, <2>2, <3>1, <4>1, <4>2, <4>3
    <3>2. CASE j \in 1..Len(log)
      <4>1. i \in 1..Len(log) /\ \A k \in i..j : log'[k] = log[k]
        BY <1>0, <2>2, <3>2
      <4> QED BY <1>0, <2>2, <3>2, <4>1 DEF RenameChangesTitle, LogShape, After
    <3> QED BY <1>0, <2>2, <3>1, <3>2
  <2> QED BY <2>2 DEF RenameChangesTitle, After
<1> QED BY <1>4, <1>5, <1>6, <1>7 DEF LogShape

LEMMA ShapeStep ==
    ASSUME TypeOK, DecisionsHold, LogShape, [Next]_vars
    PROVE  LogShape'
<1>0. log \in Seq(Event)
  BY DEF TypeOK
<1>1. CASE log' = log
  BY <1>1 DEF LogShape, OwnStream, NothingAfterDelete, TogglesAlternate, RenameChangesTitle
<1>2. CASE \E e \in Event : /\ log' = Append(log, e)
                            /\ e.type = "TodoCreated"
                            /\ \A i \in DOMAIN log : log[i].todo # e.todo
  BY <1>0, <1>2, CreationKeepsShape
<1>3. CASE \E c \in Command : /\ log' = Append(log, Produced(c))
                              /\ RequireActive(c.todo, c.user)
                              /\ ~ Skips(c)
  BY <1>0, <1>3, CommandKeepsShape
<1> QED BY <1>1, <1>2, <1>3, LogStep

-------------------------------------------------------------------------------
(* The theorems.                                                           *)

IInv == TypeOK /\ DecisionsHold /\ LogShape

LEMMA Inductive == Spec => []IInv
<1>1. Init => IInv
  BY TypeInit, DecisionsInit, ShapeInit DEF IInv
<1>2. IInv /\ [Next]_vars => IInv'
  BY TypeStep, DecisionsStep, ShapeStep DEF IInv
<1> QED BY <1>1, <1>2, PTL DEF Spec

\* Optimistic concurrency is enough: a save that does not conflict acts on the state
\* its command saw, so no interleaving of requests makes a stale decision count.
THEOREM DecisionsAlwaysHold == Spec => []DecisionsHold
<1>1. IInv => DecisionsHold
  BY DEF IInv
<1> QED BY <1>1, Inductive, PTL

\* Todo streams belong to one user each and start with their only creation.
THEOREM StreamsAreOwned == Spec => []OwnStream
<1>1. IInv => OwnStream
  BY DEF IInv, LogShape
<1> QED BY <1>1, Inductive, PTL

\* No event of a todo is ever committed after its deletion.
THEOREM DeletionIsFinal == Spec => []NothingAfterDelete
<1>1. IInv => NothingAfterDelete
  BY DEF IInv, LogShape
<1> QED BY <1>1, Inductive, PTL

\* Completions and reopenings of a todo alternate.
THEOREM TogglesAlwaysAlternate == Spec => []TogglesAlternate
<1>1. IInv => TogglesAlternate
  BY DEF IInv, LogShape
<1> QED BY <1>1, Inductive, PTL

\* Every rename changes the title the todo has when it commits.
THEOREM RenamesChangeTitles == Spec => []RenameChangesTitle
<1>1. IInv => RenameChangesTitle
  BY DEF IInv, LogShape
<1> QED BY <1>1, Inductive, PTL

-------------------------------------------------------------------------------
(* Titles, which proofs about the state of a todo need as well.             *)

TitledTypes == {"TodoCreated", "TodoRenamed"}

\* Creations and renames carry a title, and only they.
TitlesFit ==
    /\ \A i \in DOMAIN log : log[i].title \in Title <=> log[i].type \in TitledTypes
    /\ \A r \in Request : pc[r] = "save" => (command[r].op = "rename" <=> command[r].title # NoTitle)

CommandsInv == IInv /\ TitlesFit

\* A step that writes saves a new todo, or a decided event whose title fits its type.
LEMMA Written ==
    ASSUME CommandsInv, [Next]_vars
    PROVE  \/ log' = log
           \/ \E e \in Event : /\ log' = Append(log, e)
                               /\ e.type = "TodoCreated" /\ e.title \in Title
                               /\ \A i \in DOMAIN log : log[i].todo # e.todo
           \/ \E c \in Command : /\ log' = Append(log, Produced(c))
                                 /\ c.op = "rename" <=> c.title # NoTitle
                                 /\ RequireActive(c.todo, c.user)
                                 /\ ~ Skips(c)
<1> USE DEF CommandsInv, IInv
<1>1. ASSUME NEW t \in Todo, NEW u \in User, NEW name \in Title, CreateTodo(t, u, name)
      PROVE  \E e \in Event : /\ log' = Append(log, e)
                              /\ e.type = "TodoCreated" /\ e.title \in Title
                              /\ \A i \in DOMAIN log : log[i].todo # e.todo
  <2> DEFINE e == [type |-> "TodoCreated", todo |-> t, user |-> u, title |-> name]
  <2>1. e \in Event /\ e.todo = t /\ e.type = "TodoCreated" /\ e.title = name
    BY DEF Event, TodoEventType
  <2>2. log' = Append(log, e) /\ \A i \in DOMAIN log : log[i].todo # t
    BY <1>1 DEF CreateTodo
  <2> HIDE DEF e
  <2> QED BY <2>1, <2>2
<1>2. ASSUME NEW r \in Request, SaveCommit(r)
      PROVE  \E c \in Command : /\ log' = Append(log, Produced(c))
                                /\ c.op = "rename" <=> c.title # NoTitle
                                /\ RequireActive(c.todo, c.user)
                                /\ ~ Skips(c)
  <2>1. command[r] \in Command /\ pc[r] = "save" /\ log' = Append(log, Produced(command[r]))
    BY <1>2 DEF TypeOK, SaveCommit
  <2>2. RequireActive(command[r].todo, command[r].user) /\ ~ Skips(command[r])
    BY <1>2 DEF SaveCommit, DecisionsHold
  <2>3. command[r].op = "rename" <=> command[r].title # NoTitle
    BY <2>1 DEF TitlesFit
  <2> QED BY <2>1, <2>2, <2>3
<1>3. ASSUME \/ \E r \in Request, b \in BulkCommand, items \in SUBSET Todo : StartBulk(r, b, items)
             \/ \E r \in Request, c \in Command :
                  LoadNotFound(r, c) \/ LoadSkip(r, c) \/ LoadReady(r, c)
             \/ \E r \in Request : SaveConflict(r) \/ Abort(r)
             \/ UNCHANGED vars
      PROVE  log' = log
  BY <1>3 DEF StartBulk, LoadNotFound, LoadSkip, LoadReady, SaveConflict, Abort, vars
<1> QED BY <1>1, <1>2, <1>3 DEF Next

\* What a command saves fits, and follows other events of its todo and user.
LEMMA ProducedFits ==
    ASSUME CommandsInv, NEW c \in Command, c.op = "rename" <=> c.title # NoTitle,
           RequireActive(c.todo, c.user)
    PROVE  /\ Produced(c) \in Event
           /\ Produced(c).title \in Title <=> Produced(c).type \in TitledTypes
           /\ \E i \in DOMAIN log : log[i].todo = c.todo /\ log[i].user = c.user
<1>1. c.title \in Title \cup {NoTitle}
  BY DEF Command
<1>2. Produced(c).title \in Title <=> Produced(c).type \in TitledTypes
  BY <1>1, NoTitleAssumption, ProducedEvent DEF TitledTypes
<1>3. PICK i \in DOMAIN log : InStream(i, c.todo, c.user)
  BY DEF RequireActive, Exists
<1>4. log[i].todo = c.todo /\ log[i].user = c.user
  BY <1>3, InStreamFields DEF CommandsInv, IInv, TypeOK
<1> QED BY <1>2, <1>4, ProducedEvent

\* Every save appends an event that fits.
LEMMA FittingEvent ==
    ASSUME CommandsInv, [Next]_vars, log' # log
    PROVE  \E e \in Event : /\ log' = Append(log, e)
                            /\ e.title \in Title <=> e.type \in TitledTypes
                            /\ \/ e.type = "TodoCreated"
                               \/ \E i \in DOMAIN log : log[i].todo = e.todo /\ log[i].user = e.user
<1>1. ASSUME NEW e \in Event, log' = Append(log, e), e.type = "TodoCreated", e.title \in Title
      PROVE  e.title \in Title <=> e.type \in TitledTypes
  BY <1>1 DEF TitledTypes
<1>2. ASSUME NEW c \in Command, log' = Append(log, Produced(c)),
             c.op = "rename" <=> c.title # NoTitle, RequireActive(c.todo, c.user)
      PROVE  \E e \in Event : /\ log' = Append(log, e)
                              /\ e.title \in Title <=> e.type \in TitledTypes
                              /\ \E i \in DOMAIN log : log[i].todo = e.todo /\ log[i].user = e.user
  BY <1>2, ProducedFits, ProducedEvent
<1> QED BY <1>1, <1>2, Written

LEMMA CommandsInit == Init => CommandsInv
BY TypeInit, DecisionsInit, ShapeInit DEF Init, CommandsInv, IInv, TitlesFit

LEMMA CommandsStep == CommandsInv /\ [Next]_vars => CommandsInv'
<1> SUFFICES ASSUME CommandsInv, [Next]_vars PROVE CommandsInv'
  OBVIOUS
<1>1. IInv'
  BY TypeStep, DecisionsStep, ShapeStep DEF CommandsInv, IInv
<1>2. \A i \in DOMAIN log' : log'[i].title \in Title <=> log'[i].type \in TitledTypes
  <2>1. CASE log' = log
    BY <2>1 DEF CommandsInv, TitlesFit
  <2>2. CASE log' # log
    <3>1. PICK e \in Event : log' = Append(log, e) /\ (e.title \in Title <=> e.type \in TitledTypes)
      BY <2>2, FittingEvent
    <3>2. \A i \in DOMAIN log' : (i \in DOMAIN log /\ log'[i] = log[i]) \/ log'[i] = e
      BY <3>1, Appended DEF CommandsInv, IInv, TypeOK
    <3> QED BY <3>1, <3>2 DEF CommandsInv, TitlesFit
  <2> QED BY <2>1, <2>2
<1>3. ASSUME NEW r \in Request, pc'[r] = "save"
      PROVE  command'[r].op = "rename" <=> command'[r].title # NoTitle
  <2>1. CASE pc[r] = "save" /\ command'[r] = command[r]
    BY <2>1 DEF CommandsInv, TitlesFit
  <2>2. ASSUME NEW c \in Command, LoadReady(r, c)
        PROVE  command'[r].op = "rename" <=> command'[r].title # NoTitle
    <3>1. command'[r] = c
      BY <2>2 DEF LoadReady, CommandsInv, IInv, TypeOK
    <3> QED BY <2>2, <3>1 DEF LoadReady, MayRun
  <2> QED BY <1>3, <2>1, <2>2, StepShape DEF CommandsInv, IInv
<1> QED BY <1>1, <1>2, <1>3 DEF CommandsInv, TitlesFit

===============================================================================
