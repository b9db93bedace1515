--------------------------- MODULE TodoContextProofs ---------------------------
(***************************************************************************)
(* The contexts of the todo commands, for any log: handling the last event  *)
(* of each type in position order gives what handling the whole stream      *)
(* gives, and both give the fields that the actions of TodoCommands test.   *)
(*                                                                         *)
(* A fold is compared with Summary, which says without recursion what each  *)
(* field is.  The induction is over the positions of the log; the least     *)
(* position of a set of naturals stands in for it (WFMin), because it takes *)
(* a set where the induction theorems take an operator.                     *)
(***************************************************************************)
EXTENDS TodoContext, TodoCommandsProofs, WellFoundedInduction

-------------------------------------------------------------------------------
(* Sets of positions.                                                       *)

LEMMA NatMin ==
    ASSUME NEW T \in SUBSET Nat, T # {}
    PROVE  \E n \in T : \A m \in T : n <= m
<1> DEFINE Less == {pair \in Nat \X Nat : pair[1] < pair[2]}
<1>1. IsWellFoundedOn(Less, Nat)
  BY NatLessThanWellFounded DEF OpToRel
<1>2. PICK n \in T : \A m \in T : ~ (<<m, n>> \in Less)
  <2> HIDE DEF Less
  <2> QED BY <1>1, WFMin
<1>3. \A m \in T : ~ (m < n)
  BY <1>2
<1> QED BY <1>3

\* Induction over the naturals, for a set instead of a predicate.
LEMMA NatAll ==
    ASSUME NEW T \in SUBSET Nat, 0 \in T, \A n \in T : n + 1 \in T
    PROVE  T = Nat
<1>1. SUFFICES ASSUME Nat \ T # {} PROVE FALSE
  OBVIOUS
<1>2. PICK n \in Nat \ T : \A m \in Nat \ T : n <= m
  BY <1>1, NatMin
<1>3. n # 0 /\ n - 1 \in Nat /\ ~ (n <= n - 1)
  BY <1>2
<1>4. n - 1 \in T
  BY <1>2, <1>3
<1>5. (n - 1) + 1 \in T
  BY <1>4
<1> QED BY <1>2, <1>3, <1>5

\* A set of positions has a last one.
LEMMA MaxIs ==
    ASSUME NEW n \in Nat, NEW s \in SUBSET (1..n), s # {}
    PROVE  Max(s) \in s /\ \A i \in s : i <= Max(s)
<1> DEFINE Bounds == {b \in Nat : \A i \in s : i <= b}
<1>1. n \in Bounds
  OBVIOUS
<1>2. PICK b \in Bounds : \A c \in Bounds : b <= c
  BY <1>1, NatMin
<1>3. b \in s
  <2>1. SUFFICES ASSUME b \notin s PROVE FALSE
    OBVIOUS
  <2>2. PICK k \in s : TRUE
    OBVIOUS
  <2>3. b \in Nat /\ b - 1 \in Nat
    BY <1>2, <2>2
  <2>4. b - 1 \in Bounds
    BY <1>2, <2>1, <2>3
  <2> QED BY <1>2, <2>3, <2>4
<1>4. \E x \in s : \A y \in s : x >= y
  BY <1>2, <1>3
<1> QED BY <1>4 DEF Max

-------------------------------------------------------------------------------
(* What a fold comes to.                                                    *)

\* Event i is the last of these positions whose type is one of kinds.
LastOf(i, kinds, s) ==
    i \in s /\ log[i].type \in kinds /\ \A j \in s : j > i => log[j].type \notin kinds

\* Each field is set by the last event that touches it.
Summary(s) ==
    [exists |-> \E i \in s : log[i].type = "TodoCreated",
     deleted |-> \E i \in s :
        log[i].type = "TodoDeleted" /\ LastOf(i, {"TodoCreated", "TodoDeleted"}, s),
     completed |-> \E i \in s :
        /\ log[i].type = "TodoCompleted"
        /\ LastOf(i, {"TodoCreated", "TodoCompleted", "TodoReopened"}, s),
     title |-> IF \E i \in s : log[i].type \in TitledTypes
               THEN log[CHOOSE i \in s : LastOf(i, TitledTypes, s)].title ELSE NoTitle]

LEMMA LastExists ==
    ASSUME NEW n \in Nat, NEW s \in SUBSET (1..n), NEW kinds,
           \E i \in s : log[i].type \in kinds
    PROVE  \E i \in s : LastOf(i, kinds, s)
<1>0. \A i \in 1..n : i \in Nat
  OBVIOUS
<1>2. \A i \in s : i \in Nat
  BY <1>0
<1> DEFINE those == {i \in s : log[i].type \in kinds}
<1>1. Max(those) \in those /\ \A i \in those : i <= Max(those)
  BY MaxIs
<1> HIDE DEF those
<1>3. PICK m : m = Max(those)
  OBVIOUS
<1>4. m \in those /\ \A i \in those : i <= m
  BY <1>1, <1>3
<1> QED BY <1>2, <1>4 DEF LastOf, those

LEMMA LastIsOne ==
    ASSUME NEW n \in Nat, NEW s \in SUBSET (1..n), NEW kinds, NEW i, NEW j,
           LastOf(i, kinds, s), LastOf(j, kinds, s)
    PROVE  i = j
BY DEF LastOf

\* The title of a summary, without the choice.
LEMMA SummaryTitle ==
    ASSUME NEW n \in Nat, NEW s \in SUBSET (1..n)
    PROVE  /\ \A i : LastOf(i, TitledTypes, s) => Summary(s).title = log[i].title
           /\ (\A i \in s : log[i].type \notin TitledTypes) => Summary(s).title = NoTitle
<1>1. ASSUME NEW i, LastOf(i, TitledTypes, s)
      PROVE  Summary(s).title = log[i].title
  <2>1. i \in s /\ log[i].type \in TitledTypes
    BY <1>1 DEF LastOf
  <2> DEFINE last == CHOOSE j \in s : LastOf(j, TitledTypes, s)
  <2>2. LastOf(last, TitledTypes, s)
    BY <1>1, <2>1
  <2>3. last = i
    BY <1>1, <2>2, LastIsOne
  <2> QED BY <2>1, <2>3 DEF Summary
<1>2. (\A i \in s : log[i].type \notin TitledTypes) => Summary(s).title = NoTitle
  BY DEF Summary
<1> QED BY <1>1, <1>2

\* Handling one event more.
LEMMA SummaryHandles ==
    ASSUME log \in Seq(Event), NEW s \in SUBSET DOMAIN log, s # {}
    PROVE  Summary(s) = Handle(Summary(s \ {Max(s)}), log[Max(s)])
<1> DEFINE rest == s \ {Max(s)}
<1>0. Len(log) \in Nat /\ DOMAIN log = 1..Len(log) /\ \A i \in DOMAIN log : log[i] \in Event
  OBVIOUS
<1>1. PICK m : m = Max(s)
  OBVIOUS
<1>2. m \in s /\ \A i \in s : i <= m
  BY <1>0, <1>1, MaxIs
<1>3. PICK r : r = s \ {m}
  OBVIOUS
<1>4. /\ s = r \cup {m} /\ m \notin r /\ m \in Nat
      /\ \A i \in r : i \in Nat /\ m > i /\ ~ (i > m)
      /\ s \subseteq 1..Len(log) /\ r \subseteq 1..Len(log)
  BY <1>0, <1>2, <1>3
<1>5. PICK e \in Event : e = log[m]
  BY <1>0, <1>2
<1>6. \A kinds : \A i : LastOf(i, kinds, s) <=> IF e.type \in kinds THEN i = m ELSE LastOf(i, kinds, r)
  BY <1>4, <1>5 DEF LastOf
<1>7. Summary(s).exists <=> (e.type = "TodoCreated" \/ Summary(r).exists)
  BY <1>4, <1>5 DEF Summary
<1>8. Summary(s).deleted <=> IF e.type \in {"TodoCreated", "TodoDeleted"} THEN e.type = "TodoDeleted"
                             ELSE Summary(r).deleted
  BY <1>4, <1>5, <1>6 DEF Summary
<1>9. Summary(s).completed <=>
        IF e.type \in {"TodoCreated", "TodoCompleted", "TodoReopened"} THEN e.type = "TodoCompleted"
        ELSE Summary(r).completed
  BY <1>4, <1>5, <1>6 DEF Summary
<1>10. Summary(s).title = IF e.type \in TitledTypes THEN e.title ELSE Summary(r).title
  <2>1. CASE e.type \in TitledTypes
    BY <1>0, <1>4, <1>5, <1>6, <2>1, SummaryTitle
  <2>2. CASE e.type \notin TitledTypes /\ \E i \in r : log[i].type \in TitledTypes
    <3>1. PICK i \in r : LastOf(i, TitledTypes, r)
      BY <1>0, <1>4, <2>2, LastExists
    <3>2. LastOf(i, TitledTypes, s)
      BY <1>6, <2>2, <3>1
    <3> QED BY <1>0, <1>4, <2>2, <3>1, <3>2, SummaryTitle
  <2>3. CASE e.type \notin TitledTypes /\ \A i \in r : log[i].type \notin TitledTypes
    BY <1>0, <1>4, <1>5, <2>3, SummaryTitle
  <2> QED BY <2>1, <2>2, <2>3
<1>11. PICK c : c = Summary(r)
  OBVIOUS
<1>12. PICK d : d = Summary(s)
  OBVIOUS
<1>13. /\ c = [exists |-> c.exists, deleted |-> c.deleted, completed |-> c.completed,
              title |-> c.title]
       /\ d = [exists |-> d.exists, deleted |-> d.deleted, completed |-> d.completed,
              title |-> d.title]
       /\ c.exists \in BOOLEAN /\ c.deleted \in BOOLEAN /\ c.completed \in BOOLEAN
       /\ d.exists \in BOOLEAN /\ d.deleted \in BOOLEAN /\ d.completed \in BOOLEAN
  BY <1>11, <1>12 DEF Summary
<1>14. d = Handle(c, e)
  <2>1. e.type \in TodoEventType
    BY <1>5 DEF Event
  <2>2. CASE e.type = "TodoCreated"
    BY <1>7, <1>8, <1>9, <1>10, <1>11, <1>12, <1>13, <2>2 DEF Handle, TitledTypes
  <2>3. CASE e.type = "TodoRenamed"
    BY <1>7, <1>8, <1>9, <1>10, <1>11, <1>12, <1>13, <2>3 DEF Handle, TitledTypes
  <2>4. CASE e.type = "TodoCompleted"
    BY <1>7, <1>8, <1>9, <1>10, <1>11, <1>12, <1>13, <2>4 DEF Handle, TitledTypes
  <2>5. CASE e.type = "TodoReopened"
    BY <1>7, <1>8, <1>9, <1>10, <1>11, <1>12, <1>13, <2>5 DEF Handle, TitledTypes
  <2>6. CASE e.type = "TodoDeleted"
    BY <1>7, <1>8, <1>9, <1>10, <1>11, <1>12, <1>13, <2>6 DEF Handle, TitledTypes
  <2> QED BY <2>1, <2>2, <2>3, <2>4, <2>5, <2>6 DEF TodoEventType
<1> QED BY <1>1, <1>3, <1>5, <1>11, <1>12, <1>14

\* The recursive function behind the fold of some positions: of a set of them, what
\* handling the last one makes of what the others come to.
Folded(f, positions) ==
    [s \in SUBSET positions |->
        IF s = {} THEN EmptyContext ELSE Handle(f[s \ {Max(s)}], log[Max(s)])]

LEMMA SummaryEmpty == Summary({}) = EmptyContext
BY DEF Summary, EmptyContext

\* Summary obeys the recursion ...
LEMMA FoldExists ==
    ASSUME log \in Seq(Event), NEW positions \in SUBSET DOMAIN log
    PROVE  \E f : f = Folded(f, positions)
<1> DEFINE g == [s \in SUBSET positions |-> Summary(s)]
<1>1. ASSUME NEW s \in SUBSET positions, s # {}
      PROVE  g[s] = Handle(g[s \ {Max(s)}], log[Max(s)])
  <2>1. s \ {Max(s)} \in SUBSET positions
    OBVIOUS
  <2>2. Summary(s) = Handle(Summary(s \ {Max(s)}), log[Max(s)])
    BY <1>1, SummaryHandles
  <2> QED BY <2>1, <2>2
<1>2. g[{}] = EmptyContext
  BY SummaryEmpty
<1>3. g = [s \in SUBSET positions |-> g[s]]
  OBVIOUS
<1> HIDE DEF g
<1>4. g = Folded(g, positions)
  BY <1>1, <1>2, <1>3 DEF Folded
<1> QED BY <1>4

\* ... and whatever obeys it is Summary.
LEMMA FoldUnique ==
    ASSUME log \in Seq(Event), NEW positions \in SUBSET DOMAIN log,
           NEW f, f = Folded(f, positions)
    PROVE  \A s \in SUBSET positions : f[s] = Summary(s)
<1>0. Len(log) \in Nat /\ DOMAIN log = 1..Len(log)
  OBVIOUS
<1>s. \A s \in SUBSET positions :
        f[s] = IF s = {} THEN EmptyContext ELSE Handle(f[s \ {Max(s)}], log[Max(s)])
  BY DEF Folded
<1> DEFINE T == {n \in Nat : \A s \in SUBSET (positions \cap 1..n) : f[s] = Summary(s)}
<1>1. 0 \in T
  <2>1. \A s \in SUBSET (positions \cap 1..0) : s = {}
    OBVIOUS
  <2>2. f[{}] = Summary({})
    BY <1>s, SummaryEmpty
  <2> QED BY <2>1, <2>2
<1>2. ASSUME NEW n \in T PROVE n + 1 \in T
  <2>1. SUFFICES ASSUME NEW s \in SUBSET (positions \cap 1..(n + 1)) PROVE f[s] = Summary(s)
    BY <1>2
  <2>2. CASE s = {}
    BY <1>s, <2>2, SummaryEmpty
  <2>3. CASE s # {}
    <3>1. Max(s) \in s /\ \A i \in s : i <= Max(s)
      BY <1>0, <2>3, MaxIs
    <3>2. s \ {Max(s)} \in SUBSET (positions \cap 1..n)
      <4>1. PICK m : m = Max(s)
        OBVIOUS
      <4>2. m \in 1..(n + 1) /\ \A i \in s : i \in 1..(n + 1) /\ i <= m
        BY <3>1, <4>1
      <4>3. \A i \in s \ {m} : i \in 1..n
        BY <1>2, <4>2
      <4> QED BY <4>1, <4>3
    <3>3. f[s \ {Max(s)}] = Summary(s \ {Max(s)})
      BY <1>2, <3>2
    <3>4. s \in SUBSET positions /\ s \in SUBSET DOMAIN log
      OBVIOUS
    <3>5. f[s] = Handle(f[s \ {Max(s)}], log[Max(s)])
      BY <1>s, <2>3, <3>4
    <3>6. Summary(s) = Handle(Summary(s \ {Max(s)}), log[Max(s)])
      BY <2>3, <3>4, SummaryHandles
    <3> QED BY <3>3, <3>5, <3>6
  <2> QED BY <2>2, <2>3
<1>3. T = Nat
  <2> HIDE DEF T
  <2>1. T \in SUBSET Nat
    BY DEF T
  <2> QED BY <1>1, <1>2, <2>1, NatAll
<1>4. Len(log) \in T
  BY <1>0, <1>3
<1>5. positions \cap 1..Len(log) = positions
  BY <1>0
<1> QED BY <1>4, <1>5

LEMMA FoldIs ==
    ASSUME log \in Seq(Event), NEW positions \in SUBSET DOMAIN log
    PROVE  HandleInOrder(positions) = Summary(positions)
<1> DEFINE f == CHOOSE f : f = Folded(f, positions)
<1>1. f = Folded(f, positions)
  BY FoldExists
<1>2. f[positions] = Summary(positions)
  <2> HIDE DEF f
  <2> QED BY <1>1, FoldUnique
<1>3. HandleInOrder(positions) = f[positions]
  BY DEF HandleInOrder, MapThenFoldSet, Folded
<1> QED BY <1>2, <1>3

-------------------------------------------------------------------------------
(* The stream and its latest events.                                        *)

\* The answer has, of each type, the last event of the stream ...
LEMMA LatestIs ==
    ASSUME log \in Seq(Event), NEW t \in Todo, NEW u \in User, NEW i
    PROVE  i \in LatestByCriteria(log, StreamQuery(t, u))
             <=> i \in DOMAIN log /\ IsLatest(i, {log[i].type}, t, u)
<1> DEFINE criterion(kind) == [todo |-> t, user |-> u, type |-> kind]
<1>0. \A j \in DOMAIN log : log[j] \in Event
  OBVIOUS
<1>1. \A c \in StreamQuery(t, u) : \A j \in DOMAIN log :
        Matches(log[j], c) <=> InStream(j, t, u) /\ log[j].type = c.type
  <2> SUFFICES ASSUME NEW c \in StreamQuery(t, u), NEW j \in DOMAIN log
               PROVE  Matches(log[j], c) <=> InStream(j, t, u) /\ log[j].type = c.type
    OBVIOUS
  <2>1. c = criterion(c.type) /\ DOMAIN c = {"todo", "user", "type"}
    BY DEF StreamQuery
  <2>2. Matches(log[j], c) <=> log[j].todo = t /\ log[j].user = u /\ log[j].type = c.type
    BY <1>0, <2>1 DEF Matches, Event
  <2> QED BY <1>0, <2>2, InStreamFields
<1>2. \A j \in DOMAIN log : /\ log[j].type \in TodoEventType
                           /\ criterion(log[j].type) \in StreamQuery(t, u)
                           /\ criterion(log[j].type).type = log[j].type
  BY <1>0 DEF Event, StreamQuery
<1> HIDE DEF criterion
<1>3. \A k \in DOMAIN log :
        k \in LatestByCriteria(log, StreamQuery(t, u))
        <=> InStream(k, t, u) /\ \A j \in DOMAIN log : After(j, k) /\ log[j].type = log[k].type
                                                        => ~ InStream(j, t, u)
  BY <1>1, <1>2 DEF LatestByCriteria
<1> QED BY <1>3 DEF IsLatest, LatestByCriteria

\* ... so it has the last of any types.
LEMMA LatestHasLast ==
    ASSUME log \in Seq(Event), NEW t \in Todo, NEW u \in User, NEW kinds, NEW i
    PROVE  /\ LastOf(i, kinds, {j \in DOMAIN log : InStream(j, t, u)})
                <=> i \in DOMAIN log /\ IsLatest(i, kinds, t, u)
           /\ LastOf(i, kinds, LatestByCriteria(log, StreamQuery(t, u)))
                <=> i \in DOMAIN log /\ IsLatest(i, kinds, t, u)
<1>0. Len(log) \in Nat /\ DOMAIN log = 1..Len(log) /\ \A j \in DOMAIN log : j \in Nat
  OBVIOUS
<1>1. PICK stream : stream = {j \in DOMAIN log : InStream(j, t, u)}
  OBVIOUS
<1>2. PICK latest : latest = LatestByCriteria(log, StreamQuery(t, u))
  OBVIOUS
<1>3. \A k, some : LastOf(k, some, stream) <=> k \in DOMAIN log /\ IsLatest(k, some, t, u)
  BY <1>1 DEF LastOf, IsLatest, After
<1>4. \A k : k \in latest <=> LastOf(k, {log[k].type}, stream)
  BY <1>2, <1>3, LatestIs
<1>5. ASSUME LastOf(i, kinds, stream) PROVE LastOf(i, kinds, latest)
  <2>1. i \in latest
    BY <1>4, <1>5 DEF LastOf
  <2>2. \A j \in latest : j \in stream
    BY <1>4 DEF LastOf
  <2> QED BY <1>5, <2>1, <2>2 DEF LastOf
<1>6. ASSUME LastOf(i, kinds, latest) PROVE LastOf(i, kinds, stream)
  <2>1. i \in stream /\ log[i].type \in kinds
    BY <1>4, <1>6 DEF LastOf
  <2>2. ASSUME NEW j \in stream, j > i, log[j].type \in kinds PROVE FALSE
    <3>1. stream \in SUBSET (1..Len(log))
      BY <1>0, <1>1
    <3>2. PICK k \in stream : LastOf(k, {log[j].type}, stream)
      BY <1>0, <3>1, <2>2, LastExists
    <3>3. k \in latest /\ log[k].type = log[j].type
      BY <1>4, <3>2 DEF LastOf
    <3>4. k \in Nat /\ i \in Nat /\ j \in Nat
      BY <1>0, <1>1, <2>1
    <3>5. ~ (j > k)
      BY <2>2, <3>2 DEF LastOf
    <3> QED BY <1>6, <2>2, <3>3, <3>4, <3>5 DEF LastOf
  <2> QED BY <2>1, <2>2 DEF LastOf
<1> QED BY <1>1, <1>2, <1>3, <1>5, <1>6

\* A set of positions that has the last events of a stream sums up to its context.
HasLasts(s, t, u) ==
    \A i, kinds : LastOf(i, kinds, s) <=> i \in DOMAIN log /\ IsLatest(i, kinds, t, u)

LEMMA ContextIs ==
    ASSUME log \in Seq(Event), NEW t \in Todo, NEW u \in User, NEW s \in SUBSET DOMAIN log,
           HasLasts(s, t, u)
    PROVE  /\ Summary(s).exists = Exists(t, u)
           /\ Summary(s).deleted = Deleted(t, u)
           /\ Summary(s).completed = Completed(t, u)
           /\ \A name \in Title : (Summary(s).title = name) = Titled(name, t, u)
<1>0. Len(log) \in Nat /\ DOMAIN log = 1..Len(log)
  OBVIOUS
<1>1. PICK stream \in SUBSET DOMAIN log : stream = {j \in DOMAIN log : InStream(j, t, u)}
  OBVIOUS
<1>2. \A i, kinds : LastOf(i, kinds, stream) <=> LastOf(i, kinds, s)
  BY <1>1, LatestHasLast DEF HasLasts
<1>3. (\E i \in s : log[i].type = "TodoCreated") <=> Exists(t, u)
  <2>1. ASSUME NEW a \in SUBSET DOMAIN log, NEW i \in a, log[i].type = "TodoCreated"
        PROVE  \E k \in a : LastOf(k, {"TodoCreated"}, a)
    <3>1. \E k \in a : log[k].type \in {"TodoCreated"}
      BY <2>1
    <3> QED BY <1>0, <3>1, LastExists
  <2>2. Exists(t, u) <=> \E i \in stream : log[i].type = "TodoCreated"
    BY <1>1 DEF Exists
  <2>3. ASSUME NEW a \in SUBSET DOMAIN log
        PROVE  (\E i \in a : log[i].type = "TodoCreated") <=> \E k : LastOf(k, {"TodoCreated"}, a)
    BY <2>1 DEF LastOf
  <2>4. (\E k : LastOf(k, {"TodoCreated"}, stream)) <=> \E k : LastOf(k, {"TodoCreated"}, s)
    BY <1>2
  <2> QED BY <2>2, <2>3, <2>4
<1>4. Summary(s).exists = Exists(t, u)
  BY <1>3 DEF Summary, Exists
<1>5. Summary(s).deleted = Deleted(t, u)
  <2>1. (\E i \in s : log[i].type = "TodoDeleted" /\ LastOf(i, {"TodoCreated", "TodoDeleted"}, s))
          <=> Deleted(t, u)
    BY DEF HasLasts, Deleted, LastOf
  <2> QED BY <2>1 DEF Summary, Deleted
<1>6. Summary(s).completed = Completed(t, u)
  <2>1. (\E i \in s : /\ log[i].type = "TodoCompleted"
                     /\ LastOf(i, {"TodoCreated", "TodoCompleted", "TodoReopened"}, s))
          <=> Completed(t, u)
    BY DEF HasLasts, Completed, LastOf
  <2> QED BY <2>1 DEF Summary, Completed
<1>7. ASSUME NEW name \in Title PROVE (Summary(s).title = name) <=> Titled(name, t, u)
  <2>1. Titled(name, t, u) <=> \E i \in s : log[i].title = name /\ LastOf(i, TitledTypes, s)
    BY DEF HasLasts, Titled, LastOf, TitledTypes
  <2>2. CASE \E i \in s : log[i].type \in TitledTypes
    <3>1. PICK i \in s : LastOf(i, TitledTypes, s)
      BY <1>0, <2>2, LastExists
    <3>2. Summary(s).title = log[i].title
      BY <1>0, <3>1, SummaryTitle
    <3>3. \A j : LastOf(j, TitledTypes, s) => j = i
      BY <1>0, <3>1, LastIsOne
    <3> QED BY <2>1, <3>1, <3>2, <3>3
  <2>3. CASE \A i \in s : log[i].type \notin TitledTypes
    BY <1>0, <2>1, <2>3, SummaryTitle, NoTitleAssumption DEF LastOf
  <2> QED BY <2>2, <2>3
<1>8. \A name \in Title : (Summary(s).title = name) = Titled(name, t, u)
  BY <1>7 DEF Titled
<1> QED BY <1>4, <1>5, <1>6, <1>8

\* Two sets that have the last events of one stream sum up to the same.
LEMMA SameSummary ==
    ASSUME log \in Seq(Event), NEW t \in Todo, NEW u \in User,
           NEW a \in SUBSET DOMAIN log, NEW b \in SUBSET DOMAIN log,
           HasLasts(a, t, u), HasLasts(b, t, u)
    PROVE  Summary(a) = Summary(b)
<1>0. Len(log) \in Nat /\ DOMAIN log = 1..Len(log)
  OBVIOUS
<1>1. /\ Summary(a).exists = Summary(b).exists
      /\ Summary(a).deleted = Summary(b).deleted
      /\ Summary(a).completed = Summary(b).completed
  BY ContextIs
<1>2. Summary(a).title = Summary(b).title
  <2>1. \A i : LastOf(i, TitledTypes, a) <=> LastOf(i, TitledTypes, b)
    BY DEF HasLasts
  <2>2. CASE \E i : LastOf(i, TitledTypes, a)
    BY <1>0, <2>1, <2>2, SummaryTitle
  <2>3. CASE ~ \E i : LastOf(i, TitledTypes, a)
    <3>1. /\ \A i \in a : log[i].type \notin TitledTypes
          /\ \A i \in b : log[i].type \notin TitledTypes
      BY <1>0, <2>1, <2>3, LastExists
    <3> QED BY <1>0, <3>1, SummaryTitle
  <2> QED BY <2>2, <2>3
<1> QED BY <1>1, <1>2 DEF Summary

LEMMA LatestSuffices ==
    ASSUME log \in Seq(Event)
    PROVE  LatestPerTypeSuffices
<1> SUFFICES ASSUME NEW t \in Todo, NEW u \in User
             PROVE  LET context == Context(t, u)
                        stream == {i \in DOMAIN log : InStream(i, t, u)}
                    IN  /\ context = HandleInOrder(stream)
                        /\ context.exists = Exists(t, u)
                        /\ context.deleted = Deleted(t, u)
                        /\ context.completed = Completed(t, u)
                        /\ \A name \in Title : (context.title = name) = Titled(name, t, u)
  BY DEF LatestPerTypeSuffices
<1>1. PICK stream \in SUBSET DOMAIN log : stream = {i \in DOMAIN log : InStream(i, t, u)}
  OBVIOUS
<1>2. PICK latest \in SUBSET DOMAIN log : latest = LatestByCriteria(log, StreamQuery(t, u))
  BY DEF LatestByCriteria
<1>3. HasLasts(stream, t, u) /\ HasLasts(latest, t, u)
  BY <1>1, <1>2, LatestHasLast DEF HasLasts
<1>4. Context(t, u) = Summary(latest) /\ HandleInOrder(stream) = Summary(stream)
  BY <1>2, FoldIs DEF Context
<1> QED BY <1>1, <1>3, <1>4, ContextIs, SameSummary

\* Reading the last event of each type loses nothing a todo command decides on, whatever
\* is in the log.
THEOREM LatestAlwaysSuffices == Spec => []LatestPerTypeSuffices
<1>1. TypeOK => LatestPerTypeSuffices
  BY LatestSuffices DEF TypeOK
<1> QED BY <1>1, TypeCorrect, PTL

===============================================================================
