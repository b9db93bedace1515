-------------------------- MODULE TodoLifecycleProofs --------------------------
(***************************************************************************)
(* The todo commands implement TodoLifecycle: read off the todo ids alone,  *)
(* every save that commits is one legal step of one todo.                   *)
(*                                                                         *)
(* TodoCommandsProofs shows that a save's decision holds on the log it is   *)
(* appended to.  A decision is about the events of one user; here it is     *)
(* translated into the state of the todo, whose events all are that user's. *)
(***************************************************************************)
EXTENDS TodoContext, TodoCommandsProofs

\* The title a todo has is written in its events: a creation or a rename after which
\* there is none.
HasTitle(i, t) ==
    /\ i \in EventsOf(t)
    /\ log[i].title \in Title
    /\ \A j \in EventsOf(t) : After(j, i) => log[j].type # "TodoRenamed"

\* How a todo's status is read off its events.
Gone(t) == \E i \in EventsOf(t) : log[i].type = "TodoDeleted"

Ends(i, t) ==
    /\ log[i].type = "TodoCompleted"
    /\ \A j \in EventsOf(t) : After(j, i) => log[j].type # "TodoReopened"

Ended(t) == \E i \in EventsOf(t) : Ends(i, t)

\* Every todo that has events has a title.
Titles == \A t \in Todo : EventsOf(t) # {} => \E i \in EventsOf(t) : HasTitle(i, t)

LifeInv == CommandsInv /\ Titles

\* The events of the todos after one event more.
LEMMA EventsAfter ==
    ASSUME log \in Seq(Event), NEW e \in Event, log' = Append(log, e)
    PROVE  /\ \A t : t # e.todo => EventsOf(t)' = EventsOf(t)
           /\ EventsOf(e.todo)' = EventsOf(e.todo) \cup {Len(log) + 1}
           /\ \A t : \A i \in EventsOf(t) : i \in DOMAIN log /\ log'[i] = log[i]
                                            /\ After(Len(log) + 1, i)
                                            /\ ~ After(i, Len(log) + 1)
           /\ log'[Len(log) + 1] = e /\ ~ After(Len(log) + 1, Len(log) + 1)
<1>1. /\ Len(log) \in Nat /\ DOMAIN log = 1..Len(log) /\ DOMAIN log' = 1..(Len(log) + 1)
      /\ \A i \in DOMAIN log : log'[i] = log[i]
      /\ log'[Len(log) + 1] = e
  BY Appended
<1>2. \A t : \A i : i \in EventsOf(t)' <=> i \in EventsOf(t) \/ (i = Len(log) + 1 /\ e.todo = t)
  BY <1>1 DEF EventsOf
<1>3. \A t : t # e.todo => EventsOf(t)' = EventsOf(t)
  BY <1>2 DEF EventsOf
<1>4. PICK t0 : t0 = e.todo
  OBVIOUS
<1>5. EventsOf(t0)' = EventsOf(t0) \cup {Len(log) + 1}
  BY <1>2, <1>4 DEF EventsOf
<1> QED BY <1>1, <1>3, <1>4, <1>5 DEF EventsOf, After

\* The titles stay in order when a fitting event is saved.
LEMMA TitlesAppended ==
    ASSUME LifeInv, NEW e \in Event, log' = Append(log, e),
           e.title \in Title <=> e.type \in TitledTypes,
           EventsOf(e.todo) = {} => e.type = "TodoCreated",
           NEW t \in Todo, EventsOf(t)' # {}
    PROVE  \E i \in EventsOf(t)' : HasTitle(i, t)'
<1>0. log \in Seq(Event)
  BY DEF LifeInv, CommandsInv, IInv, TypeOK
<1>1. CASE t # e.todo
  <2>1. PICK i \in EventsOf(t) : HasTitle(i, t)
    BY <1>0, <1>1, EventsAfter DEF LifeInv, Titles
  <2>2. HasTitle(i, t)'
    BY <1>0, <1>1, <2>1, EventsAfter DEF HasTitle
  <2> QED BY <1>0, <1>1, <2>1, <2>2, EventsAfter
<1>2. CASE t = e.todo /\ e.type \in TitledTypes
  <2>1. PICK n : n = Len(log) + 1
    OBVIOUS
  <2>2. n \in EventsOf(t)' /\ log'[n] = e
    BY <1>0, <1>2, <2>1, EventsAfter
  <2>3. \A j \in EventsOf(t)' : ~ After(j, n)
    BY <1>0, <1>2, <2>1, EventsAfter
  <2>4. HasTitle(n, t)'
    BY <1>2, <2>2, <2>3 DEF HasTitle, After
  <2> QED BY <2>2, <2>4
<1>3. CASE t = e.todo /\ e.type \notin TitledTypes
  <2>1. EventsOf(t) # {}
    BY <1>3 DEF TitledTypes
  <2>2. PICK i \in EventsOf(t) : HasTitle(i, t)
    BY <2>1 DEF LifeInv, Titles
  <2>3. HasTitle(i, t)'
    BY <1>0, <1>3, <2>2, EventsAfter DEF HasTitle, TitledTypes
  <2> QED BY <1>0, <1>3, <2>2, <2>3, EventsAfter
<1> QED BY <1>1, <1>2, <1>3

LEMMA LifeInvStep == LifeInv /\ [Next]_vars => LifeInv'
<1> SUFFICES ASSUME LifeInv, [Next]_vars PROVE LifeInv'
  OBVIOUS
<1>1. CommandsInv /\ CommandsInv'
  BY CommandsStep DEF LifeInv
<1>2. ASSUME NEW t \in Todo, EventsOf(t)' # {}
      PROVE  \E i \in EventsOf(t)' : HasTitle(i, t)'
  <2>1. CASE log' = log
    BY <1>2, <2>1 DEF LifeInv, Titles, EventsOf, HasTitle
  <2>2. CASE log' # log
    <3>1. PICK e \in Event : /\ log' = Append(log, e)
                             /\ e.title \in Title <=> e.type \in TitledTypes
                             /\ \/ e.type = "TodoCreated"
                                \/ \E i \in DOMAIN log : log[i].todo = e.todo
      BY <1>1, <2>2, FittingEvent
    <3>2. EventsOf(e.todo) = {} => e.type = "TodoCreated"
      BY <3>1 DEF EventsOf
    <3> QED BY <1>2, <3>1, <3>2, TitlesAppended
  <2> QED BY <2>1, <2>2
<1> QED BY <1>1, <1>2 DEF LifeInv, Titles

LEMMA LifeInvInit == Init => LifeInv
<1> SUFFICES ASSUME Init PROVE LifeInv
  OBVIOUS
<1>1. Titles
  BY DEF Init, Titles, EventsOf
<1> QED BY <1>1, CommandsInit DEF LifeInv

-------------------------------------------------------------------------------
(* The state of a todo.                                                     *)

\* All events of a todo are its owner's.
LEMMA OwnerIs ==
    ASSUME LifeInv, NEW t, NEW i \in EventsOf(t)
    PROVE  OwnerOf(t) = log[i].user
<1>0. DOMAIN log = 1..Len(log) /\ Len(log) \in Nat /\ \A j \in DOMAIN log : log[j] \in Event
  BY DEF LifeInv, CommandsInv, IInv, TypeOK
<1>1. \A j \in EventsOf(t) : \E k \in EventsOf(t) :
        log[k].type = "TodoCreated" /\ log[k].user = log[j].user
  BY <1>0 DEF LifeInv, CommandsInv, IInv, LogShape, OwnStream, EventsOf
<1>2. \A j, k \in EventsOf(t) :
        log[j].type = "TodoCreated" /\ log[k].type = "TodoCreated" => j = k
  BY <1>0 DEF LifeInv, CommandsInv, IInv, LogShape, OwnStream, EventsOf
<1> DEFINE P(u) == \E j \in EventsOf(t) : log[j].type = "TodoCreated" /\ log[j].user = u
<1>3. P(log[i].user) /\ log[i].user \in User
  BY <1>0, <1>1 DEF EventsOf, Event
<1>4. \A u \in User : P(u) => u = log[i].user
  BY <1>1, <1>2
<1>5. OwnerOf(t) = CHOOSE u \in User : P(u)
  BY DEF OwnerOf
<1> HIDE DEF P
<1> QED BY <1>3, <1>4, <1>5

\* The title is the last one written.
LEMMA TitleIs ==
    ASSUME LifeInv, NEW t, NEW i, HasTitle(i, t)
    PROVE  TitleOf(t) = log[i].title
<1>0. DOMAIN log = 1..Len(log) /\ Len(log) \in Nat
  BY DEF LifeInv, CommandsInv, IInv, TypeOK
<1> DEFINE P(name) == \E j \in EventsOf(t) :
             /\ log[j].title = name
             /\ \A k \in EventsOf(t) : After(k, j) => log[k].type # "TodoRenamed"
<1>1. P(log[i].title) /\ log[i].title \in Title /\ EventsOf(t) # {}
  BY DEF HasTitle
<1>2. ASSUME NEW name \in Title, P(name) PROVE name = log[i].title
  <2>1. PICK j : HasTitle(j, t) /\ log[j].title = name
    BY <1>2 DEF HasTitle
  <2>2. log[i].type \in TitledTypes /\ log[j].type \in TitledTypes
    BY <2>1 DEF HasTitle, LifeInv, CommandsInv, TitlesFit, EventsOf
  <2>3. \A k \in EventsOf(t) : log[k].type = "TodoCreated" =>
          \A m \in EventsOf(t) : ~ (m < k)
    BY <1>0 DEF EventsOf, LifeInv, CommandsInv, IInv, LogShape, OwnStream
  <2>4. i = j
    BY <1>0, <2>1, <2>2, <2>3 DEF HasTitle, After, TitledTypes, EventsOf
  <2> QED BY <2>1, <2>4
<1>3. TitleOf(t) = CHOOSE name \in Title : P(name)
  BY <1>1 DEF TitleOf
<1> HIDE DEF P
<1> QED BY <1>1, <1>2, <1>3

\* A todo a command may act on: its events are the user's, none deletes it, and its
\* state is what the command has decided on.
LEMMA LiveState ==
    ASSUME LifeInv, NEW t \in Todo, NEW u, RequireActive(t, u)
    PROVE  /\ EventsOf(t) # {}
           /\ \A i \in EventsOf(t) : log[i].type # "TodoDeleted"
           /\ StatusOf(t) = IF Completed(t, u) THEN "completed" ELSE "active"
           /\ Titled(TitleOf(t), t, u)
<1>0. log \in Seq(Event) /\ DOMAIN log = 1..Len(log) /\ Len(log) \in Nat
  BY DEF LifeInv, CommandsInv, IInv, TypeOK
<1>1. \A i \in EventsOf(t) :
        /\ i \in DOMAIN log /\ InStream(i, t, u)
        /\ log[i].type # "TodoDeleted"
        /\ log[i].type = "TodoCreated" => \A j \in EventsOf(t) : i <= j
  BY <1>0, LiveStream DEF LifeInv, CommandsInv, IInv, LogShape, EventsOf
<1>2. \A i \in DOMAIN log : InStream(i, t, u) <=> i \in EventsOf(t)
  BY <1>0, <1>1, InStreamFields DEF EventsOf
<1>3. EventsOf(t) # {}
  BY <1>2 DEF RequireActive, Exists
<1>4. Completed(t, u) <=>
        \E i \in EventsOf(t) :
          /\ log[i].type = "TodoCompleted"
          /\ \A j \in EventsOf(t) : After(j, i) => log[j].type # "TodoReopened"
  <2>1. ASSUME Completed(t, u)
        PROVE  \E i \in EventsOf(t) :
                 /\ log[i].type = "TodoCompleted"
                 /\ \A j \in EventsOf(t) : After(j, i) => log[j].type # "TodoReopened"
    BY <1>1, <1>2, <2>1 DEF Completed, IsLatest
  <2>2. ASSUME NEW i \in EventsOf(t), log[i].type = "TodoCompleted",
               \A j \in EventsOf(t) : After(j, i) => log[j].type # "TodoReopened"
        PROVE  Completed(t, u)
    <3>1. ASSUME NEW j \in EventsOf(t), After(j, i) PROVE log[j].type # "TodoCompleted"
      <4> SUFFICES ASSUME log[j].type = "TodoCompleted" PROVE FALSE
        OBVIOUS
      <4>1. log[j].todo = log[i].todo /\ i \in DOMAIN log /\ j \in DOMAIN log
        BY DEF EventsOf
      <4>2. PICK k \in (i + 1)..(j - 1) :
              /\ log[k].todo = log[i].todo
              /\ log[k].type \in {"TodoCompleted", "TodoReopened"} \ {log[i].type}
        BY <2>2, <3>1, <4>1 DEF LifeInv, CommandsInv, IInv, LogShape, TogglesAlternate
      <4>3. k \in EventsOf(t) /\ After(k, i)
        BY <1>0, <4>1, <4>2 DEF EventsOf, After
      <4> QED BY <2>2, <4>2, <4>3
    <3>2. \A j \in EventsOf(t) : After(j, i) => log[j].type # "TodoCreated"
      BY <1>0, <1>1 DEF After
    <3>3. IsLatest(i, {"TodoCreated", "TodoCompleted", "TodoReopened"}, t, u)
      BY <1>1, <1>2, <2>2, <3>1, <3>2 DEF IsLatest
    <3> QED BY <1>1, <2>2, <3>3 DEF Completed
  <2> QED BY <2>1, <2>2
<1>5. StatusOf(t) = IF Completed(t, u) THEN "completed" ELSE "active"
  BY <1>1, <1>3, <1>4 DEF StatusOf
<1>6. Titled(TitleOf(t), t, u)
  <2>1. PICK i \in EventsOf(t) : HasTitle(i, t)
    BY <1>3 DEF LifeInv, Titles
  <2>2. TitleOf(t) = log[i].title /\ log[i].type \in TitledTypes
    BY <2>1, TitleIs DEF LifeInv, CommandsInv, TitlesFit, HasTitle, EventsOf
  <2>3. \A j \in EventsOf(t) : After(j, i) => log[j].type # "TodoCreated"
    BY <1>0, <1>1 DEF After
  <2>4. IsLatest(i, {"TodoCreated", "TodoRenamed"}, t, u)
    BY <1>1, <1>2, <2>1, <2>2, <2>3 DEF IsLatest, HasTitle, TitledTypes
  <2> QED BY <1>1, <2>2, <2>4 DEF Titled
<1> QED BY <1>1, <1>3, <1>5, <1>6

\* What the events of a todo tell of its owner and its title, now and after a step.
Reads ==
    /\ \A t : \A i \in EventsOf(t) : OwnerOf(t) = log[i].user
    /\ \A t, i : HasTitle(i, t) => TitleOf(t) = log[i].title

LEMMA ReadsHold == LifeInv => Reads
BY OwnerIs, TitleIs DEF Reads

LEMMA ReadsNext == LifeInv' => Reads'
BY ReadsHold, PTL

-------------------------------------------------------------------------------
(* The steps of TodoLifecycle.                                              *)

\* A save leaves the other todos alone.
LEMMA OthersStay ==
    ASSUME LifeInv, LifeInv', NEW e \in Event, log' = Append(log, e),
           NEW t \in Todo, t # e.todo
    PROVE  StatusOf(t)' = StatusOf(t) /\ OwnerOf(t)' = OwnerOf(t) /\ TitleOf(t)' = TitleOf(t)
<1>0. log \in Seq(Event) /\ Reads /\ Reads'
  BY ReadsHold, ReadsNext DEF LifeInv, CommandsInv, IInv, TypeOK
<1>1. EventsOf(t)' = EventsOf(t) /\ \A i \in EventsOf(t) : log'[i] = log[i]
  BY <1>0, EventsAfter
<1>2. StatusOf(t)' = StatusOf(t)
  <2>1. Gone(t)' = Gone(t)
    BY <1>1 DEF Gone
  <2>2. Ended(t)' <=> Ended(t)
    <3>1. ASSUME NEW i \in EventsOf(t), Ends(i, t) PROVE Ends(i, t)'
      BY <1>1, <3>1 DEF Ends
    <3>2. ASSUME NEW i \in EventsOf(t), Ends(i, t)' PROVE Ends(i, t)
      BY <1>1, <3>2 DEF Ends
    <3> QED BY <1>1, <3>1, <3>2 DEF Ended
  <2> QED BY <1>1, <2>1, <2>2 DEF StatusOf, Gone, Ended, Ends
<1>3. CASE EventsOf(t) = {}
  BY <1>1, <1>2, <1>3 DEF OwnerOf, TitleOf
<1>4. CASE EventsOf(t) # {}
  <2>1. PICK i \in EventsOf(t) : HasTitle(i, t)
    BY <1>4 DEF LifeInv, Titles
  <2>2. HasTitle(i, t)'
    BY <1>1, <2>1 DEF HasTitle
  <2>3. OwnerOf(t) = log[i].user /\ TitleOf(t) = log[i].title
    BY <1>0, <2>1 DEF Reads
  <2>4. OwnerOf(t)' = log'[i].user
    <3>1. i \in EventsOf(t)'
      BY <1>1
    <3> QED BY <1>0, <3>1 DEF Reads
  <2>5. TitleOf(t)' = log'[i].title
    BY <1>0, <2>2 DEF Reads
  <2> QED BY <1>1, <1>2, <2>3, <2>4, <2>5
<1> QED BY <1>3, <1>4

\* A creation.
LEMMA CreationStep ==
    ASSUME LifeInv, LifeInv', NEW e \in Event, log' = Append(log, e),
           e.type = "TodoCreated", e.title \in Title, \A i \in DOMAIN log : log[i].todo # e.todo
    PROVE  Lifecycle!Next
<1>1. PICK t : t = e.todo
  OBVIOUS
<1>2. /\ log \in Seq(Event) /\ Reads /\ Reads' /\ t \in Todo /\ e.user \in User
      /\ EventsOf(t) = {}
  BY <1>1, ReadsHold, ReadsNext DEF LifeInv, CommandsInv, IInv, TypeOK, Event, EventsOf
<1>3. PICK n : n = Len(log) + 1
  OBVIOUS
<1>4. EventsOf(t)' = {n} /\ log'[n] = e /\ ~ After(n, n)
  BY <1>1, <1>2, <1>3, EventsAfter
<1>5. StatusOf(t) = "none" /\ StatusOf(t)' = "active"
  BY <1>2, <1>4 DEF StatusOf
<1>r. Reads'
  BY <1>2
<1>6. OwnerOf(t)' = e.user
  <2>1. n \in EventsOf(t)'
    BY <1>4
  <2>2. OwnerOf(t)' = log'[n].user
    BY <1>r, <2>1 DEF Reads
  <2> QED BY <1>4, <2>2
<1>7. HasTitle(n, t)'
  BY <1>4 DEF HasTitle, After
<1>8. TitleOf(t)' = e.title
  <2>1. TitleOf(t)' = log'[n].title
    BY <1>r, <1>7 DEF Reads
  <2> QED BY <1>4, <2>1
<1>9. \A s \in Todo : s # t => /\ StatusOf(s)' = StatusOf(s) /\ OwnerOf(s)' = OwnerOf(s)
                              /\ TitleOf(s)' = TitleOf(s)
  BY <1>1, OthersStay
<1>10. Lifecycle!Create(t, e.user, e.title)
  BY <1>2, <1>5, <1>6, <1>8, <1>9 DEF Lifecycle!Create
<1> QED BY <1>2, <1>10 DEF Lifecycle!Next

\* A command whose decision holds.
LEMMA CommandStep ==
    ASSUME LifeInv, LifeInv', NEW c \in Command, log' = Append(log, Produced(c)),
           c.op = "rename" <=> c.title # NoTitle, RequireActive(c.todo, c.user), ~ Skips(c)
    PROVE  Lifecycle!Next
<1>1. PICK e \in Event : e = Produced(c)
  BY ProducedEvent
<1>2. PICK t \in Todo : t = c.todo
  BY DEF Command
<1>3. /\ log' = Append(log, e) /\ e.todo = t /\ e.title = c.title
      /\ e.type = "TodoRenamed" <=> c.op = "rename"
      /\ e.type = "TodoCompleted" <=> c.op = "complete"
      /\ e.type = "TodoReopened" <=> c.op = "reopen"
      /\ e.type = "TodoDeleted" <=> c.op = "delete"
      /\ e.type # "TodoCreated"
  BY <1>1, <1>2, ProducedEvent
<1>4. log \in Seq(Event) /\ Reads /\ Reads'
  BY ReadsHold, ReadsNext DEF LifeInv, CommandsInv, IInv, TypeOK
<1>5. PICK n : n = Len(log) + 1
  OBVIOUS
<1>6. /\ EventsOf(t)' = EventsOf(t) \cup {n} /\ log'[n] = e /\ ~ After(n, n)
      /\ \A i \in EventsOf(t) : log'[i] = log[i] /\ After(n, i) /\ ~ After(i, n)
  BY <1>3, <1>4, <1>5, EventsAfter
<1>7. /\ EventsOf(t) # {} /\ \A i \in EventsOf(t) : log[i].type # "TodoDeleted"
      /\ StatusOf(t) = IF Completed(t, c.user) THEN "completed" ELSE "active"
      /\ Titled(TitleOf(t), t, c.user)
  BY <1>2, LiveState
<1>8. \A s \in Todo : s # t => /\ StatusOf(s)' = StatusOf(s) /\ OwnerOf(s)' = OwnerOf(s)
                              /\ TitleOf(s)' = TitleOf(s)
  BY <1>3, OthersStay
<1>9. PICK i \in EventsOf(t) : HasTitle(i, t)
  BY <1>7 DEF LifeInv, Titles
<1>r. Reads'
  BY <1>4
<1>10. OwnerOf(t)' = OwnerOf(t)
  <2>1. i \in EventsOf(t)'
    BY <1>6, <1>9
  <2>2. OwnerOf(t)' = log'[i].user
    BY <1>r, <2>1 DEF Reads
  <2>3. OwnerOf(t) = log[i].user
    BY <1>4, <1>9 DEF Reads
  <2> QED BY <1>6, <1>9, <2>2, <2>3
<1>11. e.type # "TodoRenamed" => TitleOf(t)' = TitleOf(t)
  <2> SUFFICES ASSUME e.type # "TodoRenamed" PROVE TitleOf(t)' = TitleOf(t)
    OBVIOUS
  <2>1. HasTitle(i, t)'
    BY <1>3, <1>6, <1>9 DEF HasTitle, After
  <2>2. TitleOf(t)' = log'[i].title
    BY <1>r, <2>1 DEF Reads
  <2>3. TitleOf(t) = log[i].title
    BY <1>4, <1>9 DEF Reads
  <2> QED BY <1>6, <1>9, <2>2, <2>3
<1>12. CASE c.op = "rename"
  <2>1. c.title \in Title
    BY <1>12 DEF Command
  <2>2. HasTitle(n, t)'
    BY <1>3, <1>6, <2>1 DEF HasTitle
  <2>3. TitleOf(t)' = c.title
    BY <1>3, <1>4, <1>6, <2>2 DEF Reads
  <2>4. TitleOf(t) # c.title
    BY <1>2, <1>7, <1>12 DEF Skips
  <2>5. StatusOf(t)' = StatusOf(t)
    <3>1. ~ Gone(t)' /\ ~ Gone(t)
      BY <1>3, <1>6, <1>7, <1>12 DEF Gone
    <3>2. ASSUME NEW k \in EventsOf(t), Ends(k, t) PROVE Ends(k, t)'
      BY <1>3, <1>6, <1>12, <3>2 DEF Ends
    <3>4. ASSUME NEW k \in EventsOf(t), Ends(k, t)' PROVE Ends(k, t)
      BY <1>3, <1>6, <1>12, <3>4 DEF Ends
    <3>5. ~ Ends(n, t)'
      BY <1>3, <1>6, <1>12 DEF Ends
    <3>6. Ended(t)' <=> Ended(t)
      BY <1>6, <3>2, <3>4, <3>5 DEF Ended
    <3>3. EventsOf(t)' # {}
      BY <1>6
    <3> QED BY <1>7, <3>1, <3>3, <3>6 DEF StatusOf, Gone, Ended, Ends
  <2>6. Lifecycle!Rename(t, c.title)
    BY <1>7, <1>8, <1>10, <2>3, <2>4, <2>5 DEF Lifecycle!Rename
  <2> QED BY <2>1, <2>6 DEF Lifecycle!Next
<1>13. CASE c.op = "complete"
  <2>1. StatusOf(t) = "active"
    BY <1>2, <1>7, <1>13 DEF Skips
  <2>2. StatusOf(t)' = "completed"
    <3>1. ~ Gone(t)'
      BY <1>3, <1>6, <1>7, <1>13 DEF Gone
    <3>2. Ended(t)'
      BY <1>3, <1>6, <1>7, <1>13 DEF Ended, Ends
    <3>3. EventsOf(t)' # {}
      BY <1>6
    <3> QED BY <3>1, <3>2, <3>3 DEF StatusOf, Gone, Ended, Ends
  <2>3. Lifecycle!Complete(t)
    BY <1>3, <1>8, <1>10, <1>11, <1>13, <2>1, <2>2 DEF Lifecycle!Complete, Lifecycle!Move
  <2> QED BY <2>3 DEF Lifecycle!Next
<1>14. CASE c.op = "reopen"
  <2>1. StatusOf(t) = "completed"
    BY <1>2, <1>7, <1>14 DEF Skips
  <2>2. StatusOf(t)' = "active"
    <3>1. ~ Gone(t)'
      BY <1>3, <1>6, <1>7, <1>14 DEF Gone
    <3>2. ~ Ended(t)'
      BY <1>3, <1>6, <1>7, <1>14 DEF Ended, Ends
    <3>3. EventsOf(t)' # {}
      BY <1>6
    <3> QED BY <3>1, <3>2, <3>3 DEF StatusOf, Gone, Ended, Ends
  <2>3. Lifecycle!Reopen(t)
    BY <1>3, <1>8, <1>10, <1>11, <1>14, <2>1, <2>2 DEF Lifecycle!Reopen, Lifecycle!Move
  <2> QED BY <2>3 DEF Lifecycle!Next
<1>15. CASE c.op = "delete"
  <2>1. StatusOf(t) \in {"active", "completed"}
    BY <1>7
  <2>2. StatusOf(t)' = "deleted"
    BY <1>3, <1>6, <1>7, <1>15 DEF StatusOf
  <2>3. Lifecycle!Delete(t)
    BY <1>3, <1>8, <1>10, <1>11, <1>15, <2>1, <2>2 DEF Lifecycle!Delete, Lifecycle!Move
  <2> QED BY <2>3 DEF Lifecycle!Next
<1> QED BY <1>12, <1>13, <1>14, <1>15 DEF Command

\* An empty log has no todos.
LEMMA LifecycleInit == Init => Lifecycle!Init
BY DEF Init, Lifecycle!Init, StatusOf, OwnerOf, TitleOf, EventsOf

\* Every step is one of TodoLifecycle, or leaves all todos alone.
LEMMA LifecycleStep == LifeInv /\ LifeInv' /\ [Next]_vars => [Lifecycle!Next]_Lifecycle!vars
<1> SUFFICES ASSUME LifeInv, LifeInv', [Next]_vars PROVE [Lifecycle!Next]_Lifecycle!vars
  OBVIOUS
<1>1. CASE log' = log
  BY <1>1 DEF Lifecycle!vars, StatusOf, OwnerOf, TitleOf, EventsOf
<1>2. CASE \E e \in Event : /\ log' = Append(log, e)
                            /\ e.type = "TodoCreated" /\ e.title \in Title
                            /\ \A i \in DOMAIN log : log[i].todo # e.todo
  BY <1>2, CreationStep
<1>3. CASE \E c \in Command : /\ log' = Append(log, Produced(c))
                              /\ c.op = "rename" <=> c.title # NoTitle
                              /\ RequireActive(c.todo, c.user)
                              /\ ~ Skips(c)
  BY <1>3, CommandStep
<1> QED BY <1>1, <1>2, <1>3, Written DEF LifeInv

\* The commands together, single and bulk, with whatever interleaving of their loads
\* and saves, are the life of todos that TodoLifecycle describes.
THEOREM LifecycleImplemented == Spec => ImplementsLifecycle
<1>1. Spec => []LifeInv
  BY LifeInvInit, LifeInvStep, PTL DEF Spec
<1>2. Spec => Lifecycle!Init /\ [][Lifecycle!Next]_Lifecycle!vars
  BY <1>1, LifecycleInit, LifecycleStep, PTL DEF Spec
<1> QED BY <1>2 DEF ImplementsLifecycle, Lifecycle!Spec

===============================================================================
