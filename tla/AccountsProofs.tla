----------------------------- MODULE AccountsProofs -----------------------------
(***************************************************************************)
(* The account commands for any users, names and requests, and a log of any *)
(* length.                                                                  *)
(*                                                                         *)
(* Every command saves under a query that covers its Boundary, the events   *)
(* that could make its decision wrong.  So either an event of the boundary  *)
(* was committed after the load, and the save conflicts, or the decision    *)
(* still holds when the event is saved.  What was decided is then what the  *)
(* invariants ask of the new event.                                         *)
(***************************************************************************)
EXTENDS Accounts, TLAPS

-------------------------------------------------------------------------------
(* Events and queries.                                                      *)

SentTypes == {"EmailVerificationOTPSent", "PasswordResetEmailSent"}

AboutTypes == SentTypes \cup {"EmailVerificationOTPValidated", "PasswordResetCompleted",
                              "AccountDeleted"}

\* The fields of an event follow from its type.
Fielded(e) ==
    /\ "type" \in DOMAIN e /\ "id" \in DOMAIN e /\ e.id \in Id
    /\ e.type \notin SentTypes => "user" \in DOMAIN e /\ e.user \in User
    /\ e.type \in SentTypes => "user" \notin DOMAIN e
    /\ e.type \in AboutTypes <=> "about" \in DOMAIN e
    /\ "about" \in DOMAIN e => e.about \in Id
    /\ e.type = "UserRegistered" => "username" \in DOMAIN e /\ "email" \in DOMAIN e

\* Every event has them.
LEMMA EventFields == ASSUME NEW e \in Event PROVE Fielded(e)
<1> USE DEF Fielded, SentTypes, AboutTypes
<1>1. CASE e \in UserRegistered
  BY <1>1 DEF UserRegistered
<1>2. CASE e \in UserNameChanged
  BY <1>2 DEF UserNameChanged
<1>3. CASE e \in EmailVerificationOTPGenerated
  BY <1>3 DEF EmailVerificationOTPGenerated
<1>4. CASE e \in EmailVerificationOTPValidated
  BY <1>4 DEF EmailVerificationOTPValidated
<1>5. CASE e \in EmailVerificationOTPSent
  BY <1>5 DEF EmailVerificationOTPSent
<1>6. CASE e \in PasswordResetRequested
  BY <1>6 DEF PasswordResetRequested
<1>7. CASE e \in PasswordResetEmailSent
  BY <1>7 DEF PasswordResetEmailSent
<1>8. CASE e \in PasswordResetCompleted
  BY <1>8 DEF PasswordResetCompleted
<1>9. CASE e \in PasswordChanged
  BY <1>9 DEF PasswordChanged
<1>10. CASE e \in AccountDeletionRequested
  BY <1>10 DEF AccountDeletionRequested
<1>11. CASE e \in AccountDeleted
  BY <1>11 DEF AccountDeleted
<1>12. CASE e \in ProfileBioUpdated
  BY <1>12 DEF ProfileBioUpdated
<1>13. CASE e \in ProfileImageUploaded
  BY <1>13 DEF ProfileImageUploaded
<1>14. CASE e \in ProfileHeaderImageUploaded
  BY <1>14 DEF ProfileHeaderImageUploaded
<1> QED BY <1>1, <1>2, <1>3, <1>4, <1>5, <1>6, <1>7, <1>8, <1>9, <1>10, <1>11, <1>12, <1>13, <1>14 DEF Event

\* A new id leaves the rest of an event alone.
LEMMA NewId ==
    ASSUME NEW e \in Event, NEW i \in Id
    PROVE  /\ [e EXCEPT !.id = i] \in Event
           /\ DOMAIN [e EXCEPT !.id = i] = DOMAIN e
           /\ [e EXCEPT !.id = i].id = i
           /\ \A field \in DOMAIN e : field # "id" => [e EXCEPT !.id = i][field] = e[field]
<1>1. CASE e \in UserRegistered
  <2>1. [e EXCEPT !.id = i] \in UserRegistered
    BY <1>1 DEF UserRegistered
  <2> QED BY <1>1, <2>1 DEF Event, UserRegistered
<1>2. CASE e \in UserNameChanged
  <2>1. [e EXCEPT !.id = i] \in UserNameChanged
    BY <1>2 DEF UserNameChanged
  <2> QED BY <1>2, <2>1 DEF Event, UserNameChanged
<1>3. CASE e \in EmailVerificationOTPGenerated
  <2>1. [e EXCEPT !.id = i] \in EmailVerificationOTPGenerated
    BY <1>3 DEF EmailVerificationOTPGenerated
  <2> QED BY <1>3, <2>1 DEF Event, EmailVerificationOTPGenerated
<1>4. CASE e \in EmailVerificationOTPValidated
  <2>1. [e EXCEPT !.id = i] \in EmailVerificationOTPValidated
    BY <1>4 DEF EmailVerificationOTPValidated
  <2> QED BY <1>4, <2>1 DEF Event, EmailVerificationOTPValidated
<1>5. CASE e \in EmailVerificationOTPSent
  <2>1. [e EXCEPT !.id = i] \in EmailVerificationOTPSent
    BY <1>5 DEF EmailVerificationOTPSent
  <2> QED BY <1>5, <2>1 DEF Event, EmailVerificationOTPSent
<1>6. CASE e \in PasswordResetRequested
  <2>1. [e EXCEPT !.id = i] \in PasswordResetRequested
    BY <1>6 DEF PasswordResetRequested
  <2> QED BY <1>6, <2>1 DEF Event, PasswordResetRequested
<1>7. CASE e \in PasswordResetEmailSent
  <2>1. [e EXCEPT !.id = i] \in PasswordResetEmailSent
    BY <1>7 DEF PasswordResetEmailSent
  <2> QED BY <1>7, <2>1 DEF Event, PasswordResetEmailSent
<1>8. CASE e \in PasswordResetCompleted
  <2>1. [e EXCEPT !.id = i] \in PasswordResetCompleted
    BY <1>8 DEF PasswordResetCompleted
  <2> QED BY <1>8, <2>1 DEF Event, PasswordResetCompleted
<1>9. CASE e \in PasswordChanged
  <2>1. [e EXCEPT !.id = i] \in PasswordChanged
    BY <1>9 DEF PasswordChanged
  <2> QED BY <1>9, <2>1 DEF Event, PasswordChanged
<1>10. CASE e \in AccountDeletionRequested
  <2>1. [e EXCEPT !.id = i] \in AccountDeletionRequested
    BY <1>10 DEF AccountDeletionRequested
  <2> QED BY <1>10, <2>1 DEF Event, AccountDeletionRequested
<1>11. CASE e \in AccountDeleted
  <2>1. [e EXCEPT !.id = i] \in AccountDeleted
    BY <1>11 DEF AccountDeleted
  <2> QED BY <1>11, <2>1 DEF Event, AccountDeleted
<1>12. CASE e \in ProfileBioUpdated
  <2>1. [e EXCEPT !.id = i] \in ProfileBioUpdated
    BY <1>12 DEF ProfileBioUpdated
  <2> QED BY <1>12, <2>1 DEF Event, ProfileBioUpdated
<1>13. CASE e \in ProfileImageUploaded
  <2>1. [e EXCEPT !.id = i] \in ProfileImageUploaded
    BY <1>13 DEF ProfileImageUploaded
  <2> QED BY <1>13, <2>1 DEF Event, ProfileImageUploaded
<1>14. CASE e \in ProfileHeaderImageUploaded
  <2>1. [e EXCEPT !.id = i] \in ProfileHeaderImageUploaded
    BY <1>14 DEF ProfileHeaderImageUploaded
  <2> QED BY <1>14, <2>1 DEF Event, ProfileHeaderImageUploaded
<1> QED BY <1>1, <1>2, <1>3, <1>4, <1>5, <1>6, <1>7, <1>8, <1>9, <1>10, <1>11, <1>12, <1>13, <1>14 DEF Event
\* What each query asks of an event.
LEMMA AsksOfUser ==
    ASSUME NEW e \in Event, NEW type, NEW u
    PROVE  InQuery(e, TypeOfUser(type, u)) <=> (e.type = type /\ "user" \in DOMAIN e /\ e.user = u)
<1> DEFINE c == [type |-> type, user |-> u]
<1>1. InQuery(e, TypeOfUser(type, u)) <=> Matches(e, c)
  BY DEF InQuery, TypeOfUser
<1>2. Matches(e, c) <=> ("type" \in DOMAIN e /\ e.type = type /\ "user" \in DOMAIN e /\ e.user = u)
  BY DEF Matches
<1> QED BY <1>1, <1>2, EventFields DEF Fielded

\* The same for the event another one refers to.
LEMMA AsksAbout ==
    ASSUME NEW e \in Event, NEW type, NEW i
    PROVE  InQuery(e, TypeAbout(type, i)) <=> (e.type = type /\ "about" \in DOMAIN e /\ e.about = i)
<1> DEFINE c == [type |-> type, about |-> i]
<1>1. InQuery(e, TypeAbout(type, i)) <=> Matches(e, c)
  BY DEF InQuery, TypeAbout
<1>2. Matches(e, c) <=> ("type" \in DOMAIN e /\ e.type = type /\ "about" \in DOMAIN e /\ e.about = i)
  BY DEF Matches
<1> QED BY <1>1, <1>2, EventFields DEF Fielded

\* And for the identity a registration asks for.
LEMMA AsksOfIdentity ==
    ASSUME NEW e \in Event, NEW new \in Event, e.type = "UserRegistered"
    PROVE  InQuery(e, UserRegisteredByUsernameOrEmailQuery(new))
             <=> (e.username = new.username \/ e.email = new.email)
<1> DEFINE c == [type |-> "UserRegistered", username |-> new.username]
           d == [type |-> "UserRegistered", email |-> new.email]
<1>1. InQuery(e, UserRegisteredByUsernameOrEmailQuery(new)) <=> Matches(e, c) \/ Matches(e, d)
  BY DEF InQuery, UserRegisteredByUsernameOrEmailQuery
<1>2. Matches(e, c) <=> ("username" \in DOMAIN e /\ e.username = new.username)
  BY EventFields DEF Matches, Fielded
<1>3. Matches(e, d) <=> ("email" \in DOMAIN e /\ e.email = new.email)
  BY EventFields DEF Matches, Fielded
<1> QED BY <1>1, <1>2, <1>3, EventFields DEF Fielded

\* A wider query asks for more.
LEMMA Wider ==
    ASSUME NEW e, NEW query, NEW wider, query \subseteq wider, InQuery(e, query)
    PROVE  InQuery(e, wider)
BY DEF InQuery

\* Appending to the log keeps its old part and adds one position at the end.
LEMMA Appended ==
    ASSUME log \in Seq(Event), NEW e \in Event, log' = Append(log, e)
    PROVE  /\ log' \in Seq(Event)
           /\ Len(log') = Len(log) + 1 /\ Len(log) \in Nat
           /\ DOMAIN log = 1..Len(log) /\ DOMAIN log' = 1..(Len(log) + 1)
           /\ \A i \in DOMAIN log : log'[i] = log[i]
           /\ log'[Len(log) + 1] = e
OBVIOUS

\* So a query finds what it found before, and the new event.
LEMMA FindsAppended ==
    ASSUME log \in Seq(Event), NEW e \in Event, log' = Append(log, e), NEW query
    PROVE  Finds(query)' <=> Finds(query) \/ InQuery(e, query)
<1>1. \A i : i \in DOMAIN log' <=> i \in DOMAIN log \/ i = Len(log) + 1
  BY Appended
<1>2. \A i \in DOMAIN log : log'[i] = log[i]
  BY Appended
<1>3. log'[Len(log) + 1] = e
  BY Appended
<1> QED BY <1>1, <1>2, <1>3 DEF Finds

-------------------------------------------------------------------------------
(* Decisions.                                                               *)

UpdateTypes == {"UserNameChanged", "ProfileBioUpdated"}

CodeTypes == {"EmailVerificationOTPGenerated", "EmailVerificationOTPValidated"}

\* What no earlier event may be when e is saved.
Forbids(e) ==
    CASE e.type = "UserRegistered" -> UserRegisteredByUsernameOrEmailQuery(e)
      [] e.type = "EmailVerificationOTPGenerated" -> TypeOfUser("EmailVerificationOTPValidated", e.user)
      [] e.type = "AccountDeletionRequested" -> TypeOfUser("AccountDeletionRequested", e.user)
      [] e.type \in AboutTypes -> TypeAbout(e.type, e.about)
      [] OTHER -> {}

\* What e depends on otherwise.
DependsOn(e) ==
    CASE e.type \in CodeTypes -> TypeOfUser("EmailVerificationOTPGenerated", e.user)
      [] e.type = "UserNameChanged" -> UpdateNameQuery(e.user)
      [] e.type = "ProfileBioUpdated" -> TypeOfUser("ProfileBioUpdated", e.user)
      [] OTHER -> {}

Boundary(e) == Forbids(e) \cup DependsOn(e)

\* An earlier update, or a registration, that e would repeat.
Repeats(e, i) ==
    /\ InQuery(log[i], DependsOn(e))
    /\ e.type = "UserNameChanged" => DisplayName(log[i]) = e.name
    /\ e.type = "ProfileBioUpdated" => log[i].bio = e.bio

\* The command's decision to save e, on the log as it is.
Decided(e) ==
    /\ ~ Finds(Forbids(e))
    /\ e.type = "EmailVerificationOTPValidated" =>
         \A i \in DOMAIN log : InQuery(log[i], DependsOn(e)) => ~ (i > e.about)
    /\ e.type = "EmailVerificationOTPGenerated" =>
         \A i \in DOMAIN log : InQuery(log[i], DependsOn(e)) => i \in expired
    /\ e.type = "ProfileBioUpdated" /\ e.bio = NoBio => Finds(DependsOn(e))
    /\ e.type \in UpdateTypes =>
         \A i \in DOMAIN log : Repeats(e, i) =>
             \E k \in DOMAIN log : k > i /\ InQuery(log[k], DependsOn(e))

\* It holds until an event of the boundary is appended.
LEMMA DecisionStays ==
    ASSUME log \in Seq(Event), NEW new \in Event, log' = Append(log, new), NEW e,
           Decided(e), ~ InQuery(new, Boundary(e)), expired' = expired
    PROVE  Decided(e)'
<1>1. ~ InQuery(new, Forbids(e)) /\ ~ InQuery(new, DependsOn(e))
  BY Wider DEF Boundary
<1>2. ~ Finds(Forbids(e))'
  BY <1>1, FindsAppended DEF Decided
<1>3. \A i : i \in DOMAIN log' <=> i \in DOMAIN log \/ i = Len(log) + 1
  BY Appended
<1>4. /\ \A i \in DOMAIN log : log'[i] = log[i]
      /\ log'[Len(log) + 1] = new
  BY Appended
<1>5. ASSUME NEW i \in DOMAIN log', InQuery(log'[i], DependsOn(e))
      PROVE  i \in DOMAIN log /\ log'[i] = log[i]
  BY <1>1, <1>3, <1>4, <1>5
<1>6. ASSUME e.type = "EmailVerificationOTPValidated",
             NEW i \in DOMAIN log', InQuery(log'[i], DependsOn(e))
      PROVE  ~ (i > e.about)
  BY <1>5, <1>6 DEF Decided
<1>7. ASSUME e.type \in UpdateTypes, NEW i \in DOMAIN log', Repeats(e, i)'
      PROVE  \E k \in DOMAIN log' : k > i /\ InQuery(log'[k], DependsOn(e))
  <2>1. InQuery(log'[i], DependsOn(e))
    BY <1>7 DEF Repeats
  <2>2. i \in DOMAIN log /\ Repeats(e, i)
    BY <1>5, <1>7, <2>1 DEF Repeats
  <2>3. PICK k \in DOMAIN log : k > i /\ InQuery(log[k], DependsOn(e))
    BY <1>7, <2>2 DEF Decided
  <2> QED BY <1>3, <1>4, <2>3
<1>8. ASSUME e.type = "EmailVerificationOTPGenerated",
             NEW i \in DOMAIN log', InQuery(log'[i], DependsOn(e))
      PROVE  i \in expired'
  BY <1>5, <1>8 DEF Decided
<1>9. e.type = "ProfileBioUpdated" /\ e.bio = NoBio => Finds(DependsOn(e))'
  BY FindsAppended DEF Decided
<1> QED BY <1>2, <1>6, <1>7, <1>8, <1>9 DEF Decided

-------------------------------------------------------------------------------
(* The invariant.                                                           *)

Is(i, type) == i \in DOMAIN log /\ log[i].type = type

\* Only a registered user has these.
OwnedTypes == {"UserNameChanged", "EmailVerificationOTPValidated", "AccountDeletionRequested",
               "AccountDeleted", "ProfileBioUpdated", "ProfileImageUploaded",
               "ProfileHeaderImageUploaded"}

\* What a command in flight has in hand, apart from its position.
Grounded(next, e) ==
    /\ next \in {"createKey", "readKey", "readCode", "readBio", "deleteData", "destroyKey", "save"}
    /\ e.type = "UserRegistered" => next \in {"createKey", "save"} /\ ~ Registered(e.user)
    /\ e.type = "UserRegistered" /\ next = "save" => e.user \in keys
    /\ e.type = "AccountDeleted" =>
         /\ next \in {"deleteData", "destroyKey", "save"}
         /\ Is(e.about, "AccountDeletionRequested") /\ log[e.about].user = e.user
    /\ e.type = "AccountDeleted" /\ next = "save" => e.user \notin keys
    /\ e.type \in OwnedTypes /\ next # "readBio" => Registered(e.user)
    /\ e.type = "EmailVerificationOTPValidated" /\ next # "readCode" =>
         Is(e.about, "EmailVerificationOTPGenerated") /\ log[e.about].user = e.user
    /\ next = "createKey" => e.type = "UserRegistered"
    /\ next \in {"deleteData", "destroyKey"} => e.type = "AccountDeleted"
    /\ next = "readCode" => e.type = "EmailVerificationOTPValidated"
    /\ next = "readBio" => e.type = "ProfileBioUpdated"

Loading == {"readCode", "readBio"}

\* A command that has loaded either conflicts or still decides the same.
Sound(c) ==
    /\ c = [next |-> c.next, round |-> c.round, position |-> c.position, query |-> c.query,
            event |-> c.event]
    /\ c.event \in Event
    /\ c.position \in 0..Len(log)
    /\ c.round \in 0..Rounds
    /\ c.query = {} <=> c.next \in Loading
    /\ Grounded(c.next, c.event)
    /\ c.query # {} =>
         /\ Boundary(c.event) \subseteq c.query
         /\ Conflicts(log, c.position, c.query) \/ Decided(c.event)

Registers(r, u) == request[r] # Idle /\ request[r].event.type = "UserRegistered"
                   /\ request[r].event.user = u

\* An id is in the hands of one registration.
OneRegistration ==
    \A u \in User : \A q, r \in Request : Registers(q, u) /\ Registers(r, u) => q = r

\* Every query has a last event.
HasLast == \A query : \E p \in 0..Len(log) : IsContextPosition(p, log, query)

\* What an event of the log refers to.
Rooted(i) ==
    /\ log[i].type \in OwnedTypes =>
         \E k \in DOMAIN log : k < i /\ InQuery(log[k], UserRegisteredQuery(log[i].user))
    /\ log[i].type = "AccountDeleted" =>
         Is(log[i].about, "AccountDeletionRequested") /\ log[log[i].about].user = log[i].user
    /\ log[i].type = "EmailVerificationOTPValidated" =>
         Is(log[i].about, "EmailVerificationOTPGenerated") /\ log[log[i].about].user = log[i].user

LogInv ==
    /\ log \in Seq(Event)
    /\ \A i \in DOMAIN log : log[i].id = i /\ Rooted(i)
    /\ HasLast
    /\ keys \subseteq User
    /\ \A i \in expired : Is(i, "EmailVerificationOTPGenerated")

RequestInv ==
    /\ request = [r \in Request |-> request[r]]
    /\ \A r \in Request : request[r] # Idle => Sound(request[r])
    /\ OneRegistration

Promises ==
    /\ IdentityTakenOnce /\ OncePerSubject /\ OneLiveCode /\ NewestCodeValidated
    /\ KeysFollowDeletion /\ UpdatesChange

IInv == LogInv /\ RequestInv /\ Promises

\* The types follow.
LEMMA InvTypes == IInv => TypeOK
BY DEF IInv, LogInv, RequestInv, Sound, Grounded, Loading, Is, TypeOK

\* The positions of the log are ids.
LEMMA Positions ==
    ASSUME LogInv
    PROVE  /\ Len(log) \in Nat /\ DOMAIN log = 1..Len(log)
           /\ Len(log) <= MaxEvents /\ MaxEvents \in Nat
           /\ \A i \in DOMAIN log : log[i] \in Event /\ i \in Id /\ log[i].id = i
<1>1. Len(log) \in Nat /\ DOMAIN log = 1..Len(log) /\ \A i \in DOMAIN log : log[i] \in Event
  BY DEF LogInv
<1>2. \A i \in DOMAIN log : i \in Id
  BY <1>1, EventFields DEF LogInv, Fielded
<1>3. Len(log) > 0 => Len(log) \in DOMAIN log
  BY <1>1
<1> QED BY <1>1, <1>2, <1>3, AccountsBoundAssumption DEF Id, LogInv

\* Newest finds the last event.
LEMMA NewestIs ==
    ASSUME LogInv, NEW query
    PROVE  /\ Newest(query) \in 0..Len(log)
           /\ Newest(query) # 0 => Newest(query) \in DOMAIN log /\ InQuery(log[Newest(query)], query)
           /\ \A i \in DOMAIN log : InQuery(log[i], query) => ~ (i > Newest(query))
<1>1. \E p \in 0..Len(log) : IsContextPosition(p, log, query)
  BY DEF LogInv, HasLast
<1>2. Newest(query) \in 0..Len(log) /\ IsContextPosition(Newest(query), log, query)
  BY <1>1 DEF Newest
<1> QED BY <1>2 DEF IsContextPosition, Conflicts, After, NoEventPosition

\* Nothing has happened at the start.
LEMMA InitInv == Init => IInv
<1> SUFFICES ASSUME Init PROVE IInv
  OBVIOUS
<1>1. log = << >> /\ Len(log) = 0 /\ DOMAIN log = {} /\ log \in Seq(Event)
  BY DEF Init
<1>2. HasLast
  BY <1>1 DEF HasLast, IsContextPosition, Conflicts, NoEventPosition
<1>3. LogInv
  BY <1>1, <1>2 DEF LogInv, Init
<1>4. RequestInv
  BY DEF RequestInv, OneRegistration, Registers, Init
<1>5. Promises
  BY <1>1 DEF Promises, IdentityTakenOnce, OncePerSubject, NewestCodeValidated,
     OneLiveCode, KeysFollowDeletion, UpdatesChange, Finds, Registered, Init
<1> QED BY <1>3, <1>4, <1>5 DEF IInv

-------------------------------------------------------------------------------
(* Steps of one command that leave log and keys alone.                      *)

\* A command ends.
LEMMA ReturnKeeps ==
    ASSUME IInv, NEW r \in Request, Return(r), UNCHANGED <<log, keys, expired>>
    PROVE  IInv'
<1>1. request' = [request EXCEPT ![r] = Idle]
  BY DEF Return, Hold
<1>2. request = [q \in Request |-> request[q]]
  BY DEF IInv, RequestInv
<1>3. \A q \in Request : request'[q] = IF q = r THEN Idle ELSE request[q]
  BY <1>1, <1>2
<1>4. request' = [q \in Request |-> request'[q]]
  BY <1>1, <1>2
<1>5. LogInv' /\ Promises'
  BY DEF IInv, LogInv, HasLast, Rooted, Is, Promises, IdentityTakenOnce, OncePerSubject,
     NewestCodeValidated, OneLiveCode, KeysFollowDeletion, UpdatesChange, Finds, Registered
<1>6. OneRegistration'
  BY <1>3 DEF IInv, RequestInv, OneRegistration, Registers
<1>7. ASSUME NEW q \in Request, request'[q] # Idle PROVE Sound(request[q])'
  <2>1. request'[q] = request[q] /\ Sound(request[q])
    BY <1>3, <1>7 DEF IInv, RequestInv
  <2>2. Grounded(request[q].next, request[q].event)'
    BY <2>1 DEF Sound, Grounded, Is, Finds, Registered
  <2>3. (request[q].query # {} =>
           Conflicts(log, request[q].position, request[q].query) \/ Decided(request[q].event))'
    BY <2>1 DEF Sound, Decided, Repeats, Finds
  <2> QED BY <2>1, <2>2, <2>3 DEF Sound
<1> QED BY <1>4, <1>5, <1>6, <1>7 DEF IInv, RequestInv

\* A command goes on with a sound context.
LEMMA HoldKeeps ==
    ASSUME IInv, NEW r \in Request, NEW c, Hold(r, c), Sound(c), UNCHANGED <<log, keys, expired>>,
           c.event.type = "UserRegistered" =>
             \A q \in Request : q # r => ~ Registers(q, c.event.user)
    PROVE  IInv'
<1>1. request' = [request EXCEPT ![r] = c]
  BY DEF Hold
<1>2. request = [q \in Request |-> request[q]]
  BY DEF IInv, RequestInv
<1>3. \A q \in Request : request'[q] = IF q = r THEN c ELSE request[q]
  BY <1>1, <1>2
<1>4. request' = [q \in Request |-> request'[q]]
  BY <1>1, <1>2
<1>5. LogInv' /\ Promises'
  BY DEF IInv, LogInv, HasLast, Rooted, Is, Promises, IdentityTakenOnce, OncePerSubject,
     NewestCodeValidated, OneLiveCode, KeysFollowDeletion, UpdatesChange, Finds, Registered
<1>6. OneRegistration'
  BY <1>3 DEF IInv, RequestInv, OneRegistration, Registers
<1>7. ASSUME NEW q \in Request, request'[q] # Idle PROVE Sound(request[q])'
  <2>1. Sound(request'[q])
    BY <1>3, <1>7 DEF IInv, RequestInv
  <2>2. Grounded(request[q].next, request[q].event)'
    BY <2>1 DEF Sound, Grounded, Is, Finds, Registered
  <2>3. (request[q].query # {} =>
           Conflicts(log, request[q].position, request[q].query) \/ Decided(request[q].event))'
    BY <2>1 DEF Sound, Decided, Repeats, Finds
  <2> QED BY <2>1, <2>2, <2>3 DEF Sound
<1> QED BY <1>4, <1>5, <1>6, <1>7 DEF IInv, RequestInv

\* A command loads and has decided.
LEMMA LoadKeeps ==
    ASSUME IInv, NEW r \in Request, NEW next, NEW query, NEW event \in Event,
           Load(r, next, query, event), next \notin Loading, query # {},
           Boundary(event) \subseteq query, Decided(event), Grounded(next, event),
           event.type = "UserRegistered" =>
             \A q \in Request : q # r => ~ Registers(q, event.user)
    PROVE  IInv'
<1>1. PICK p \in 0..Len(log) :
        Hold(r, [next |-> next, round |-> 0, position |-> p, query |-> query, event |-> event])
  BY DEF Load
<1> DEFINE c == [next |-> next, round |-> 0, position |-> p, query |-> query, event |-> event]
<1>2. Sound(c)
  BY RoundsAssumption DEF Sound
<1>3. c.event = event
  OBVIOUS
<1>4. UNCHANGED <<log, keys, expired>>
  BY DEF Load
<1> HIDE DEF c
<1> QED BY <1>1, <1>2, <1>3, <1>4, HoldKeeps DEF c

\* A command starts and has not loaded.
LEMMA StartKeeps ==
    ASSUME IInv, NEW r \in Request, NEW next \in Loading, NEW round \in 0..Rounds,
           NEW event \in Event, Start(r, next, round, event), Grounded(next, event),
           event.type # "UserRegistered"
    PROVE  IInv'
<1> DEFINE c == [next |-> next, round |-> round, position |-> NoEventPosition, query |-> {},
                 event |-> event]
<1>1. Len(log) \in Nat
  BY Positions DEF IInv
<1>2. Sound(c)
  BY <1>1 DEF Sound, NoEventPosition
<1>3. c.event = event
  OBVIOUS
<1>4. UNCHANGED <<log, keys, expired>> /\ Hold(r, c)
  BY DEF Start
<1> HIDE DEF c
<1> QED BY <1>2, <1>3, <1>4, HoldKeeps DEF c

\* A user that is registered has an event that says so.
LEMMA RegisteredBy ==
    ASSUME LogInv, NEW u
    PROVE  Registered(u) <=> \E i \in DOMAIN log : log[i].type = "UserRegistered" /\ log[i].user = u
<1>1. \A i \in DOMAIN log : InQuery(log[i], UserRegisteredQuery(u))
        <=> (log[i].type = "UserRegistered" /\ log[i].user = u)
  BY Positions, AsksOfUser, EventFields DEF UserRegisteredQuery, Fielded, SentTypes
<1> QED BY <1>1 DEF Registered, Finds

-------------------------------------------------------------------------------
(* The commands, one by one.                                                *)

LEMMA RegisterKeeps ==
    ASSUME IInv, NEW r \in Request, NEW event \in Registration, Register(r, event)
    PROVE  IInv'
<1>1. event \in UserRegistered /\ event \in Event /\ event.type = "UserRegistered"
  BY DEF Registration, UserRegistered, Event
<1> DEFINE query == UserRegisteredByUsernameOrEmailQuery(event)
<1>2. Forbids(event) = query /\ DependsOn(event) = {}
  BY <1>1 DEF Forbids, DependsOn, AboutTypes, SentTypes, CodeTypes
<1>3. query # {}
  BY DEF UserRegisteredByUsernameOrEmailQuery
<1>4. Boundary(event) \subseteq query /\ Decided(event)
  BY <1>1, <1>2 DEF Boundary, Decided, Register, UpdateTypes
<1>5. Grounded("createKey", event)
  BY <1>1 DEF Grounded, OwnedTypes, Register, Fresh
<1>6. \A q \in Request : ~ Registers(q, event.user)
  <2> SUFFICES ASSUME NEW q \in Request, Registers(q, event.user) PROVE FALSE
    OBVIOUS
  <2>1. request[q].event \in Event /\ request[q] # Idle
    BY DEF IInv, RequestInv, Sound, Registers
  <2>2. "user" \in DOMAIN request[q].event
    BY <2>1, EventFields DEF Fielded, SentTypes, Registers
  <2> QED BY <2>1, <2>2 DEF Register, Fresh, Registers
<1> QED BY <1>1, <1>3, <1>4, <1>5, <1>6, LoadKeeps DEF Register, Loading

LEMMA GenerateCodeKeeps ==
    ASSUME IInv, NEW r \in Request, NEW u \in User, GenerateCode(r, u)
    PROVE  IInv'
<1> DEFINE event == [type |-> "EmailVerificationOTPGenerated", id |-> NoEventPosition, user |-> u]
<1>1. event \in Event /\ event.type = "EmailVerificationOTPGenerated" /\ event.user = u
  BY AccountsBoundAssumption DEF Event, EmailVerificationOTPGenerated, Id, NoEventPosition
<1> HIDE DEF event
<1> DEFINE codes == TypeOfUser("EmailVerificationOTPGenerated", u)
<1>2. Forbids(event) = TypeOfUser("EmailVerificationOTPValidated", u) /\ DependsOn(event) = codes
  BY <1>1 DEF Forbids, DependsOn, AboutTypes, SentTypes, CodeTypes
<1>3. Boundary(event) \subseteq GenerateQuery(u) /\ GenerateQuery(u) # {}
  BY <1>2 DEF Boundary, GenerateQuery, TypeOfUser
<1>7. ASSUME NEW i \in DOMAIN log, InQuery(log[i], codes) PROVE i \in expired
  <2>1. /\ Newest(codes) # 0 => Newest(codes) \in DOMAIN log /\ InQuery(log[Newest(codes)], codes)
        /\ Newest(codes) \in 0..Len(log) /\ ~ (i > Newest(codes)) /\ i \in 1..Len(log)
        /\ Len(log) \in Nat
    BY <1>7, NewestIs, Positions DEF IInv
  <2>2. PICK n \in DOMAIN log : n = Newest(codes) /\ InQuery(log[n], codes) /\ n \in expired
    BY <2>1 DEF GenerateCode, NewestCode, NoEventPosition
  <2>3. /\ log[i].type = "EmailVerificationOTPGenerated" /\ log[i].user = u
        /\ log[n].type = "EmailVerificationOTPGenerated" /\ log[n].user = u
    BY <1>7, <2>2, AsksOfUser, Positions DEF IInv
  <2>4. i = n \/ After(n, i)
    BY <2>1, <2>2 DEF After
  <2> QED BY <2>2, <2>3, <2>4 DEF IInv, Promises, OneLiveCode
<1>4. Decided(event)
  <2> HIDE DEF codes
  <2> QED BY <1>1, <1>2, <1>7 DEF Decided, GenerateCode, UpdateTypes
<1>5. Grounded("save", event)
  BY <1>1 DEF Grounded, OwnedTypes
<1>6. Load(r, "save", GenerateQuery(u), event)
  BY DEF GenerateCode, event
<1> QED BY <1>1, <1>3, <1>4, <1>5, <1>6, LoadKeeps DEF Loading

LEMMA StartValidateKeeps ==
    ASSUME IInv, NEW r \in Request, NEW u \in User, StartValidate(r, u)
    PROVE  IInv'
<1> DEFINE event == Validation(u, NoEventPosition)
<1>1. event \in Event /\ event.type = "EmailVerificationOTPValidated" /\ event.user = u
  BY AccountsBoundAssumption DEF Event, EmailVerificationOTPValidated, Validation, Id,
     NoEventPosition
<1>2. Registered(u) /\ Start(r, "readCode", 1, event) /\ 1 \in 0..Rounds
  BY RoundsAssumption DEF StartValidate
<1> HIDE DEF event
<1>3. Grounded("readCode", event)
  BY <1>1, <1>2 DEF Grounded
<1> QED BY <1>1, <1>2, <1>3, StartKeeps DEF Loading

\* The validation that is being read.
LEMMA ValidationInHand ==
    ASSUME IInv, NEW r \in Request, At(r, "readCode")
    PROVE  /\ request[r] # Idle /\ Sound(request[r])
           /\ request[r].event.type = "EmailVerificationOTPValidated"
           /\ request[r].event.user \in User /\ request[r].event.about \in Id
           /\ Registered(request[r].event.user)
<1>1. request[r] # Idle /\ Sound(request[r]) /\ request[r].next = "readCode"
  BY DEF At, IInv, RequestInv
<1>2. /\ request[r].event \in Event /\ Registered(request[r].event.user)
      /\ request[r].event.type = "EmailVerificationOTPValidated"
  BY <1>1 DEF Sound, Grounded, OwnedTypes
<1> QED BY <1>1, <1>2, EventFields DEF Fielded, SentTypes, AboutTypes

\* A code of the user.
LEMMA CodeIs ==
    ASSUME LogInv, NEW u, NewestCode(u) # NoEventPosition
    PROVE  /\ NewestCode(u) \in DOMAIN log /\ NewestCode(u) \in Id
           /\ log[NewestCode(u)].type = "EmailVerificationOTPGenerated"
           /\ log[NewestCode(u)].user = u
<1> DEFINE query == TypeOfUser("EmailVerificationOTPGenerated", u)
<1>1. NewestCode(u) \in DOMAIN log /\ InQuery(log[NewestCode(u)], query)
  BY NewestIs DEF NewestCode, NoEventPosition
<1> QED BY <1>1, Positions, AsksOfUser

LEMMA ReadCodeAgainKeeps ==
    ASSUME IInv, NEW r \in Request, ReadCodeAgain(r)
    PROVE  IInv'
<1> DEFINE u == request[r].event.user
           code == NewestCode(u)
           event == Validation(u, code)
<1>1. At(r, "readCode") /\ code # NoEventPosition
  BY DEF ReadCodeAgain
<1>2. u \in User /\ Registered(u) /\ request[r].round \in 0..Rounds
  BY <1>1, ValidationInHand DEF Sound
<1>3. code \in Id
  BY <1>1, CodeIs DEF IInv
<1>4. event \in Event /\ event.type = "EmailVerificationOTPValidated" /\ event.user = u
  BY <1>2, <1>3, AccountsBoundAssumption DEF Event, EmailVerificationOTPValidated, Validation,
     Id, NoEventPosition
<1>5. CASE request[r].round = Rounds
  BY <1>5, ReturnKeeps DEF ReadCodeAgain
<1>6. CASE request[r].round # Rounds
  <2>1. Start(r, "readCode", request[r].round + 1, event)
    BY <1>6 DEF ReadCodeAgain
  <2>2. request[r].round + 1 \in 0..Rounds
    BY <1>2, <1>6, RoundsAssumption
  <2> HIDE DEF event, u
  <2>3. Grounded("readCode", event)
    BY <1>2, <1>4 DEF Grounded
  <2> QED BY <1>4, <2>1, <2>2, <2>3, StartKeeps DEF Loading
<1> QED BY <1>5, <1>6

LEMMA ReadCodeStableKeeps ==
    ASSUME IInv, NEW r \in Request, ReadCodeStable(r)
    PROVE  IInv'
<1> DEFINE u == request[r].event.user
           code == request[r].event.about
           event == Validation(u, code)
           codes == TypeOfUser("EmailVerificationOTPGenerated", u)
<1>1. /\ At(r, "readCode") /\ code = NewestCode(u) /\ code # NoEventPosition
      /\ ~ Finds(TypeAbout("EmailVerificationOTPValidated", code))
      /\ Load(r, "save", ValidateQuery(u, code), event)
  BY DEF ReadCodeStable
<1>2. u \in User /\ code \in Id /\ Registered(u)
  BY <1>1, ValidationInHand
<1>3. /\ event \in Event /\ event.type = "EmailVerificationOTPValidated"
      /\ event.user = u /\ event.about = code
  BY <1>2, AccountsBoundAssumption DEF Event, EmailVerificationOTPValidated, Validation,
     Id, NoEventPosition
<1>4. Is(code, "EmailVerificationOTPGenerated") /\ log[code].user = u
  BY <1>1, CodeIs DEF Is, IInv
<1>5. \A i \in DOMAIN log : InQuery(log[i], codes) => ~ (i > code)
  BY <1>1, NewestIs DEF IInv, NewestCode
<1> HIDE DEF event, u, code
<1>6. Forbids(event) = TypeAbout("EmailVerificationOTPValidated", code) /\ DependsOn(event) = codes
  BY <1>3 DEF Forbids, DependsOn, AboutTypes, SentTypes, CodeTypes
<1> HIDE DEF codes
<1>7. Boundary(event) \subseteq ValidateQuery(u, code) /\ ValidateQuery(u, code) # {}
  BY <1>6 DEF Boundary, ValidateQuery, codes, TypeOfUser
<1>8. Decided(event)
  BY <1>1, <1>3, <1>5, <1>6 DEF Decided, UpdateTypes
<1>9. Grounded("save", event)
  BY <1>2, <1>3, <1>4 DEF Grounded
<1> QED BY <1>1, <1>3, <1>7, <1>8, <1>9, LoadKeeps DEF Loading

\* An event of the log that a command refers to.
LEMMA Referred ==
    ASSUME IInv, NEW i \in DOMAIN log, log[i].type \notin SentTypes
    PROVE  log[i] \in Event /\ i \in Id /\ log[i].user \in User
BY Positions, EventFields DEF IInv, Fielded

LEMMA SendCodeKeeps ==
    ASSUME IInv, NEW r \in Request, NEW code, SendCode(r, code)
    PROVE  IInv'
<1> DEFINE event == [type |-> "EmailVerificationOTPSent", id |-> NoEventPosition, about |-> code]
<1>1. code \in Id
  BY Positions DEF SendCode, IInv
<1>2. event \in Event /\ event.type = "EmailVerificationOTPSent" /\ event.about = code
  BY <1>1, AccountsBoundAssumption DEF Event, EmailVerificationOTPSent, Id, NoEventPosition
<1> HIDE DEF event
<1>3. Forbids(event) = TypeAbout("EmailVerificationOTPSent", code) /\ DependsOn(event) = {}
  BY <1>2 DEF Forbids, DependsOn, AboutTypes, SentTypes, CodeTypes
<1> DEFINE query == SendCodeQuery(code, log[code].user)
<1>4. Boundary(event) \subseteq query /\ query # {}
  BY <1>3 DEF Boundary, SendCodeQuery, TypeAbout
<1>5. Decided(event)
  BY <1>2, <1>3 DEF Decided, SendCode, UpdateTypes
<1>6. Grounded("readKey", event)
  BY <1>2 DEF Grounded, OwnedTypes
<1>7. Load(r, "readKey", query, event)
  BY DEF SendCode, event
<1> HIDE DEF query
<1> QED BY <1>2, <1>4, <1>5, <1>6, <1>7, LoadKeeps DEF Loading

LEMMA SendResetKeeps ==
    ASSUME IInv, NEW r \in Request, NEW i, SendReset(r, i)
    PROVE  IInv'
<1> DEFINE event == [type |-> "PasswordResetEmailSent", id |-> NoEventPosition, about |-> i]
<1>1. i \in Id
  BY Positions DEF SendReset, IInv
<1>2. event \in Event /\ event.type = "PasswordResetEmailSent" /\ event.about = i
  BY <1>1, AccountsBoundAssumption DEF Event, PasswordResetEmailSent, Id, NoEventPosition
<1> HIDE DEF event
<1>3. Forbids(event) = TypeAbout("PasswordResetEmailSent", i) /\ DependsOn(event) = {}
  BY <1>2 DEF Forbids, DependsOn, AboutTypes, SentTypes, CodeTypes
<1>4. Boundary(event) \subseteq SendResetQuery(i) /\ SendResetQuery(i) # {}
  BY <1>3 DEF Boundary, SendResetQuery, TypeAbout
<1>5. Decided(event)
  BY <1>2, <1>3 DEF Decided, SendReset, UpdateTypes
<1>6. Grounded("readKey", event)
  BY <1>2 DEF Grounded, OwnedTypes
<1>7. Load(r, "readKey", SendResetQuery(i), event)
  BY DEF SendReset, event
<1> QED BY <1>2, <1>4, <1>5, <1>6, <1>7, LoadKeeps DEF Loading

LEMMA ResetPasswordKeeps ==
    ASSUME IInv, NEW r \in Request, NEW i, NEW password \in Password,
           ResetPassword(r, i, password)
    PROVE  IInv'
<1> DEFINE event == [type |-> "PasswordResetCompleted", id |-> NoEventPosition,
                     user |-> log[i].user, about |-> i, password |-> password]
<1>1. i \in Id /\ log[i].user \in User
  BY Referred DEF ResetPassword, SentTypes
<1>2. event \in Event /\ event.type = "PasswordResetCompleted" /\ event.about = i
  BY <1>1, AccountsBoundAssumption DEF Event, PasswordResetCompleted, Id, NoEventPosition
<1>3. Load(r, "save", CompleteResetQuery(i), event)
  BY DEF ResetPassword
<1> HIDE DEF event
<1>4. Forbids(event) = TypeAbout("PasswordResetCompleted", i) /\ DependsOn(event) = {}
  BY <1>2 DEF Forbids, DependsOn, AboutTypes, SentTypes, CodeTypes
<1>5. Boundary(event) \subseteq CompleteResetQuery(i) /\ CompleteResetQuery(i) # {}
  BY <1>4 DEF Boundary, CompleteResetQuery, TypeAbout
<1>6. Decided(event)
  BY <1>2, <1>4 DEF Decided, ResetPassword, UpdateTypes
<1>7. Grounded("save", event)
  BY <1>2 DEF Grounded, OwnedTypes
<1> QED BY <1>2, <1>3, <1>5, <1>6, <1>7, LoadKeeps DEF Loading

\* Types that any registered user may save.
FreeTypes == {"PasswordResetRequested", "PasswordChanged", "ProfileImageUploaded",
              "ProfileHeaderImageUploaded"}

LEMMA FreeKeeps ==
    ASSUME IInv, NEW r \in Request, NEW next \in {"save", "readKey"}, NEW query, query # {},
           NEW event \in Event, event.type \in FreeTypes, Load(r, next, query, event),
           Registered(event.user)
    PROVE  IInv'
<1>1. Forbids(event) = {} /\ DependsOn(event) = {}
  BY DEF Forbids, DependsOn, AboutTypes, SentTypes, CodeTypes, FreeTypes
<1>2. Boundary(event) \subseteq query
  BY <1>1 DEF Boundary
<1>3. ~ Finds({})
  BY DEF Finds, InQuery
<1>4. Decided(event)
  BY <1>1, <1>3 DEF Decided, UpdateTypes, FreeTypes
<1>5. Grounded(next, event)
  BY DEF Grounded, OwnedTypes, FreeTypes
<1>6. next \notin Loading /\ event.type # "UserRegistered"
  BY DEF Loading, FreeTypes
<1> QED BY <1>2, <1>4, <1>5, <1>6, LoadKeeps

LEMMA RequestResetKeeps ==
    ASSUME IInv, NEW r \in Request, NEW u \in User, RequestReset(r, u)
    PROVE  IInv'
<1> DEFINE event == [type |-> "PasswordResetRequested", id |-> NoEventPosition, user |-> u]
<1>1. event \in Event /\ event.type \in FreeTypes
  BY AccountsBoundAssumption DEF Event, PasswordResetRequested, Id, NoEventPosition, FreeTypes
<1>2. UserRegisteredQuery(u) # {}
  BY DEF UserRegisteredQuery, TypeOfUser
<1>3. Load(r, "readKey", UserRegisteredQuery(u), event) /\ Registered(event.user)
  BY DEF RequestReset
<1> HIDE DEF event
<1> QED BY <1>1, <1>2, <1>3, FreeKeeps

LEMMA ChangePasswordKeeps ==
    ASSUME IInv, NEW r \in Request, NEW u \in User, NEW password \in Password,
           ChangePassword(r, u, password)
    PROVE  IInv'
<1> DEFINE event == [type |-> "PasswordChanged", id |-> NoEventPosition, user |-> u,
                     password |-> password]
<1>1. event \in Event /\ event.type \in FreeTypes
  BY AccountsBoundAssumption DEF Event, PasswordChanged, Id, NoEventPosition, FreeTypes
<1>2. ChangePasswordQuery(u) # {}
  BY DEF ChangePasswordQuery, UserRegisteredQuery, TypeOfUser
<1>3. Load(r, "save", ChangePasswordQuery(u), event) /\ Registered(event.user)
  BY DEF ChangePassword
<1> HIDE DEF event
<1> QED BY <1>1, <1>2, <1>3, FreeKeeps

LEMMA UploadImageKeeps ==
    ASSUME IInv, NEW r \in Request, NEW u \in User,
           NEW type \in {"ProfileImageUploaded", "ProfileHeaderImageUploaded"},
           UploadImage(r, u, type)
    PROVE  IInv'
<1> DEFINE event == [type |-> type, id |-> NoEventPosition, user |-> u]
<1>1. event \in Event /\ event.type \in FreeTypes
  BY AccountsBoundAssumption DEF Event, ProfileImageUploaded, ProfileHeaderImageUploaded, Id,
     NoEventPosition, FreeTypes
<1>2. UploadImageQuery(type, u) # {}
  BY DEF UploadImageQuery, UserRegisteredQuery, TypeOfUser
<1>3. Load(r, "save", UploadImageQuery(type, u), event) /\ Registered(event.user)
  BY DEF UploadImage
<1> HIDE DEF event
<1> QED BY <1>1, <1>2, <1>3, FreeKeeps

LEMMA UpdateNameKeeps ==
    ASSUME IInv, NEW r \in Request, NEW u \in User, NEW name \in Name, UpdateName(r, u, name)
    PROVE  IInv'
<1> DEFINE event == [type |-> "UserNameChanged", id |-> NoEventPosition, user |-> u,
                     name |-> name]
           query == UpdateNameQuery(u)
<1>1. event \in Event /\ event.type = "UserNameChanged" /\ event.user = u /\ event.name = name
  BY AccountsBoundAssumption DEF Event, UserNameChanged, Id, NoEventPosition
<1>2. Load(r, "readKey", query, event) /\ Registered(u) /\ DisplayName(log[Newest(query)]) # name
  BY DEF UpdateName, CurrentName
<1> HIDE DEF event
<1>3. Forbids(event) = {} /\ DependsOn(event) = query
  BY <1>1 DEF Forbids, DependsOn, AboutTypes, SentTypes, CodeTypes
<1>4. Boundary(event) \subseteq query /\ query # {}
  BY <1>3 DEF Boundary, UpdateNameQuery, UserRegisteredQuery, TypeOfUser
<1>5. ~ Finds({})
  BY DEF Finds, InQuery
<1>6. PICK k \in DOMAIN log : InQuery(log[k], query)
  <2>1. PICK k \in DOMAIN log : InQuery(log[k], UserRegisteredQuery(u))
    BY <1>2 DEF Registered, Finds
  <2> QED BY <2>1, Wider DEF UpdateNameQuery
<1> HIDE DEF query
<1>7. Newest(query) \in DOMAIN log /\ InQuery(log[Newest(query)], query)
  BY <1>6, NewestIs, Positions DEF IInv
<1>8. \A i \in DOMAIN log : InQuery(log[i], query) => ~ (i > Newest(query))
  BY NewestIs DEF IInv
<1>9. ASSUME NEW i \in DOMAIN log, Repeats(event, i)
      PROVE  \E j \in DOMAIN log : j > i /\ InQuery(log[j], query)
  <2>1. InQuery(log[i], query) /\ DisplayName(log[i]) = name
    BY <1>1, <1>3, <1>9 DEF Repeats
  <2>2. i # Newest(query)
    BY <1>2, <2>1
  <2>3. Newest(query) > i
    BY <1>7, <1>8, <2>1, <2>2, Positions DEF IInv
  <2> QED BY <1>7, <2>3
<1>10. Decided(event)
  BY <1>1, <1>3, <1>5, <1>9 DEF Decided
<1>11. Grounded("readKey", event)
  BY <1>1, <1>2 DEF Grounded
<1> QED BY <1>1, <1>2, <1>4, <1>10, <1>11, LoadKeeps DEF Loading

LEMMA StartUpdateBioKeeps ==
    ASSUME IInv, NEW r \in Request, NEW u \in User, NEW bio \in Bio, StartUpdateBio(r, u, bio)
    PROVE  IInv'
<1> DEFINE event == [type |-> "ProfileBioUpdated", id |-> NoEventPosition, user |-> u, bio |-> bio]
<1>1. event \in Event /\ event.type = "ProfileBioUpdated"
  BY AccountsBoundAssumption DEF Event, ProfileBioUpdated, Id, NoEventPosition
<1>2. Start(r, "readBio", 0, event) /\ 0 \in 0..Rounds
  BY RoundsAssumption DEF StartUpdateBio
<1> HIDE DEF event
<1>3. Grounded("readBio", event)
  BY <1>1 DEF Grounded, OwnedTypes
<1> QED BY <1>1, <1>2, <1>3, StartKeeps DEF Loading

LEMMA ReadBioKeeps ==
    ASSUME IInv, NEW r \in Request, ReadBio(r)
    PROVE  IInv'
<1> DEFINE event == request[r].event
           u == event.user
           query == TypeOfUser("ProfileBioUpdated", u)
<1>1. event \in Event /\ event.type = "ProfileBioUpdated"
  BY DEF ReadBio, At, IInv, RequestInv, Sound, Grounded
<1>2. Load(r, "save", UpdateBioQuery(u), event) /\ CurrentBio(u) # event.bio /\ Registered(u)
  BY DEF ReadBio
<1>3. Newest(query) \in DOMAIN log => log[Newest(query)].bio # event.bio
  BY <1>2, Positions DEF CurrentBio, NoEventPosition, IInv
<1> HIDE DEF event
<1>4. Forbids(event) = {} /\ DependsOn(event) = query
  BY <1>1 DEF Forbids, DependsOn, AboutTypes, SentTypes, CodeTypes
<1>5. Boundary(event) \subseteq UpdateBioQuery(u) /\ UpdateBioQuery(u) # {}
  BY <1>4 DEF Boundary, UpdateBioQuery, UserRegisteredQuery, TypeOfUser
<1>6. ~ Finds({})
  BY DEF Finds, InQuery
<1> HIDE DEF query
<1>7. /\ Newest(query) # 0 => Newest(query) \in DOMAIN log /\ InQuery(log[Newest(query)], query)
      /\ Newest(query) \in 0..Len(log)
      /\ \A i \in DOMAIN log : InQuery(log[i], query) => ~ (i > Newest(query))
  BY NewestIs DEF IInv
<1>8. ASSUME NEW i \in DOMAIN log, Repeats(event, i)
      PROVE  \E j \in DOMAIN log : j > i /\ InQuery(log[j], query)
  <2>1. InQuery(log[i], query) /\ log[i].bio = event.bio
    BY <1>1, <1>4, <1>8 DEF Repeats
  <2>2. Newest(query) > i
    BY <1>3, <1>7, <2>1, Positions DEF IInv
  <2> QED BY <1>7, <2>2, Positions DEF IInv
<1>11. event.bio = NoBio => Finds(query)
  BY <1>2, <1>7 DEF CurrentBio, NoEventPosition, Finds, query
<1>9. Decided(event)
  BY <1>1, <1>4, <1>6, <1>8, <1>11 DEF Decided
<1>10. Grounded("save", event)
  BY <1>1, <1>2 DEF Grounded
<1> QED BY <1>1, <1>2, <1>5, <1>9, <1>10, LoadKeeps DEF Loading

LEMMA RequestDeletionKeeps ==
    ASSUME IInv, NEW r \in Request, NEW u \in User, RequestDeletion(r, u)
    PROVE  IInv'
<1> DEFINE event == [type |-> "AccountDeletionRequested", id |-> NoEventPosition, user |-> u]
           asked == TypeOfUser("AccountDeletionRequested", u)
<1>1. event \in Event /\ event.type = "AccountDeletionRequested" /\ event.user = u
  BY AccountsBoundAssumption DEF Event, AccountDeletionRequested, Id, NoEventPosition
<1>2. /\ Load(r, "save", RequestDeletionQuery(u), event) /\ Registered(u)
      /\ ~ Finds(asked \cup TypeOfUser("AccountDeleted", u))
  BY DEF RequestDeletion
<1>3. ~ Finds(asked)
  BY <1>2, Wider DEF Finds
<1> HIDE DEF event
<1>4. Forbids(event) = asked /\ DependsOn(event) = {}
  BY <1>1 DEF Forbids, DependsOn, AboutTypes, SentTypes, CodeTypes
<1>5. Boundary(event) \subseteq RequestDeletionQuery(u) /\ RequestDeletionQuery(u) # {}
  BY <1>4 DEF Boundary, RequestDeletionQuery, TypeOfUser
<1>6. Decided(event)
  BY <1>1, <1>3, <1>4 DEF Decided, UpdateTypes
<1>7. Grounded("save", event)
  BY <1>1, <1>2 DEF Grounded
<1> QED BY <1>1, <1>2, <1>5, <1>6, <1>7, LoadKeeps DEF Loading

LEMMA CompleteDeletionKeeps ==
    ASSUME IInv, NEW r \in Request, NEW i, CompleteDeletion(r, i)
    PROVE  IInv'
<1> DEFINE u == log[i].user
           event == [type |-> "AccountDeleted", id |-> NoEventPosition, user |-> u, about |-> i]
<1>1. i \in DOMAIN log /\ log[i].type = "AccountDeletionRequested"
  BY DEF CompleteDeletion
<1>2. i \in Id /\ u \in User
  BY <1>1, Referred DEF SentTypes
<1>3. event \in Event /\ event.type = "AccountDeleted" /\ event.about = i /\ event.user = u
  BY <1>2, AccountsBoundAssumption DEF Event, AccountDeleted, Id, NoEventPosition
<1>4. Load(r, "deleteData", CompleteDeletionQuery(i, u), event)
  BY DEF CompleteDeletion
<1>5. Registered(u)
  BY <1>1 DEF IInv, LogInv, Rooted, OwnedTypes, Registered, Finds
<1> HIDE DEF event, u
<1>6. Forbids(event) = TypeAbout("AccountDeleted", i) /\ DependsOn(event) = {}
  BY <1>3 DEF Forbids, DependsOn, AboutTypes, SentTypes, CodeTypes
<1>7. Boundary(event) \subseteq CompleteDeletionQuery(i, u) /\ CompleteDeletionQuery(i, u) # {}
  BY <1>6 DEF Boundary, CompleteDeletionQuery, TypeAbout
<1>8. Decided(event)
  BY <1>3, <1>6 DEF Decided, CompleteDeletion, UpdateTypes
<1>9. Grounded("deleteData", event)
  BY <1>1, <1>3, <1>5 DEF Grounded, Is, u
<1> QED BY <1>3, <1>4, <1>7, <1>8, <1>9, LoadKeeps DEF Loading

-------------------------------------------------------------------------------
(* The rest of a command.                                                    *)

\* The context of a command in flight is sound.
LEMMA InFlight ==
    ASSUME IInv, NEW r \in Request, request[r] # Idle
    PROVE  Sound(request[r]) /\ request[r].event \in Event
BY DEF IInv, RequestInv, Sound

\* A loaded command that goes on keeps its context.
LEMMA Proceeded ==
    ASSUME NEW c, Sound(c), NEW next, next \notin Loading, c.next \notin Loading,
           Grounded(next, c.event)
    PROVE  /\ Sound([c EXCEPT !.next = next])
           /\ [c EXCEPT !.next = next].event = c.event
<1> DEFINE d == [next |-> next, round |-> c.round, position |-> c.position, query |-> c.query,
                 event |-> c.event]
<1>1. [c EXCEPT !.next = next] = d
  BY DEF Sound
<1>2. Sound(d) /\ d.event = c.event
  BY DEF Sound
<1> HIDE DEF d
<1> QED BY <1>1, <1>2

\* A registration in flight is the only one with its id.
LEMMA OnlyRegistration ==
    ASSUME IInv, NEW r \in Request, request[r] # Idle, request[r].event.type = "UserRegistered"
    PROVE  /\ request[r].event.user \in User
           /\ \A q \in Request : q # r => ~ Registers(q, request[r].event.user)
<1>1. request[r].event.user \in User
  BY InFlight, EventFields DEF Fielded, SentTypes
<1> QED BY <1>1 DEF IInv, RequestInv, OneRegistration, Registers

LEMMA ReadKeyKeeps ==
    ASSUME IInv, NEW r \in Request, ReadKey(r)
    PROVE  IInv'
<1> DEFINE c == request[r]
<1>1. c # Idle /\ c.next = "readKey" /\ UNCHANGED <<log, keys, expired>>
  BY DEF ReadKey, At
<1>2. Sound(c)
  BY <1>1, InFlight
<1>3. CASE Return(r)
  BY <1>1, <1>3, ReturnKeeps
<1>4. CASE Proceed(r, "save")
  <2>1. Hold(r, [c EXCEPT !.next = "save"])
    BY <1>4 DEF Proceed
  <2>2. c.event.type # "UserRegistered" /\ Grounded("save", c.event)
    BY <1>1, <1>2 DEF Sound, Grounded
  <2>3. Sound([c EXCEPT !.next = "save"]) /\ [c EXCEPT !.next = "save"].event = c.event
    BY <1>1, <1>2, <2>2, Proceeded DEF Loading
  <2> QED BY <1>1, <2>1, <2>2, <2>3, HoldKeeps
<1> QED BY <1>3, <1>4 DEF ReadKey

LEMMA DeleteDataKeeps ==
    ASSUME IInv, NEW r \in Request, DeleteData(r)
    PROVE  IInv'
<1> DEFINE c == request[r]
<1>1. c # Idle /\ c.next = "deleteData" /\ UNCHANGED <<log, keys, expired>>
  BY DEF DeleteData, At
<1>2. Sound(c) /\ Hold(r, [c EXCEPT !.next = "destroyKey"])
  BY <1>1, InFlight DEF DeleteData, Proceed
<1>3. c.event.type = "AccountDeleted" /\ Grounded("destroyKey", c.event)
  BY <1>1, <1>2 DEF Sound, Grounded
<1>4. Sound([c EXCEPT !.next = "destroyKey"]) /\ [c EXCEPT !.next = "destroyKey"].event = c.event
  BY <1>1, <1>2, <1>3, Proceeded DEF Loading
<1> QED BY <1>1, <1>2, <1>3, <1>4, HoldKeeps

LEMMA SaveConflictKeeps ==
    ASSUME IInv, NEW r \in Request, SaveConflict(r)
    PROVE  IInv'
BY ReturnKeeps DEF SaveConflict

LEMMA AbortKeeps ==
    ASSUME IInv, NEW r \in Request, Abort(r)
    PROVE  IInv'
BY ReturnKeeps DEF Abort

LEMMA ExpireKeeps ==
    ASSUME IInv, NEW i, Expire(i)
    PROVE  IInv'
<1>1. /\ UNCHANGED <<log, keys, request>> /\ expired \subseteq expired'
      /\ \A j \in expired' : Is(j, "EmailVerificationOTPGenerated")
  BY DEF Expire, IInv, LogInv, Is
<1>2. LogInv'
  BY <1>1 DEF IInv, LogInv, HasLast, Rooted, Is
<1>3. Promises'
  BY <1>1 DEF IInv, Promises, IdentityTakenOnce, OncePerSubject,
     NewestCodeValidated, OneLiveCode, KeysFollowDeletion, UpdatesChange, Finds, Registered
<1>4. RequestInv'
  BY <1>1 DEF IInv, RequestInv, OneRegistration, Registers, Sound, Grounded, Is, Decided, Repeats,
     Finds, Registered
<1> QED BY <1>2, <1>3, <1>4 DEF IInv

LEMMA StutterKeeps ==
    ASSUME IInv, UNCHANGED vars
    PROVE  IInv'
<1>1. UNCHANGED <<log, keys, expired, request>>
  BY DEF vars
<1>2. LogInv'
  BY <1>1 DEF IInv, LogInv, HasLast, Rooted, Is
<1>3. Promises'
  BY <1>1 DEF IInv, Promises, IdentityTakenOnce, OncePerSubject,
     NewestCodeValidated, OneLiveCode, KeysFollowDeletion, UpdatesChange, Finds, Registered
<1>4. RequestInv'
  BY <1>1 DEF IInv, RequestInv, OneRegistration, Registers, Sound, Grounded, Is, Decided, Repeats,
     Finds, Registered
<1> QED BY <1>2, <1>3, <1>4 DEF IInv

\* One command takes a step and leaves the log alone, and the keys follow it.
LEMMA KeyKeeps ==
    ASSUME IInv, NEW r \in Request, NEW c, Hold(r, c), Sound(c)', UNCHANGED <<log, expired>>,
           keys' \subseteq User, KeysFollowDeletion',
           request[r] # Idle, c.event = request[r].event,
           \A q \in Request : \A next, e :
             /\ q # r /\ request[q] # Idle
             /\ next = request[q].next /\ e = request[q].event
             => Grounded(next, e)'
    PROVE  IInv'
<1>1. request' = [request EXCEPT ![r] = c]
  BY DEF Hold
<1>2. request = [q \in Request |-> request[q]]
  BY DEF IInv, RequestInv
<1>3. \A q \in Request : request'[q] = IF q = r THEN c ELSE request[q]
  BY <1>1, <1>2
<1>4. request' = [q \in Request |-> request'[q]]
  BY <1>1, <1>2
<1>5. LogInv' /\ Promises'
  BY DEF IInv, LogInv, HasLast, Rooted, Is, Promises, IdentityTakenOnce, OncePerSubject,
     NewestCodeValidated, OneLiveCode, UpdatesChange, Finds, Registered
<1>6. OneRegistration'
  BY <1>3 DEF IInv, RequestInv, OneRegistration, Registers
<1>7. ASSUME NEW q \in Request, request'[q] # Idle PROVE Sound(request[q])'
  <2>1. CASE q = r
    BY <1>3, <2>1
  <2>2. CASE q # r
    <3>1. request'[q] = request[q] /\ request[q] # Idle /\ Sound(request[q])
      BY <1>3, <1>7, <2>2 DEF IInv, RequestInv
    <3>2. PICK s : s = request[q]
      OBVIOUS
    <3>3. Grounded(s.next, s.event)'
      BY <2>2, <3>1, <3>2
    <3>4. Sound(s)'
      BY <3>1, <3>2, <3>3 DEF Sound, Decided, Repeats, Finds
    <3> QED BY <3>1, <3>2, <3>4
  <2> QED BY <2>1, <2>2
<1> QED BY <1>4, <1>5, <1>6, <1>7 DEF IInv, RequestInv

LEMMA CreateKeyKeeps ==
    ASSUME IInv, NEW r \in Request, CreateKey(r)
    PROVE  IInv'
<1>0. PICK c : c = request[r]
  OBVIOUS
<1> DEFINE d == [c EXCEPT !.next = "save"]
           u == c.event.user
<1>1. /\ c # Idle /\ c.next = "createKey" /\ UNCHANGED <<log, expired>>
      /\ keys' = keys \cup {u} /\ Hold(r, d)
  BY <1>0 DEF CreateKey, At, CreateSubjectPiiKey, Proceed
<1>2. Sound(c) /\ c.event.type = "UserRegistered" /\ ~ Registered(u)
  BY <1>0, <1>1, InFlight DEF Sound, Grounded, OwnedTypes
<1>3. u \in User
  BY <1>0, <1>1, <1>2, OnlyRegistration
<1>4. Grounded("save", c.event)'
  BY <1>1, <1>2 DEF Grounded, OwnedTypes, Registered, Finds
<1>5. Sound(c)'
  BY <1>1, <1>2 DEF Sound, Grounded, Is, Registered, Finds, Decided, Repeats
<1>6. Sound(d)' /\ d.event = c.event
  <2> DEFINE f == [next |-> "save", round |-> c.round, position |-> c.position,
                   query |-> c.query, event |-> c.event]
  <2>1. d = f
    BY <1>2 DEF Sound
  <2>2. Sound(f)'
    BY <1>1, <1>2, <1>4 DEF Sound, Loading, Decided, Repeats, Finds
  <2> HIDE DEF f, d
  <2>3. d.event = c.event
    BY <2>1 DEF f
  <2> QED BY <2>1, <2>2, <2>3
<1>7. ASSUME NEW v \in User
      PROVE  /\ (Registered(v) /\ v \notin keys => Finds(TypeOfUser("AccountDeletionRequested", v)))'
             /\ (Finds(TypeOfUser("AccountDeleted", v)) => v \notin keys)'
  <2>1. UNCHANGED <<Registered(v), Finds(TypeOfUser("AccountDeleted", v)),
                    Finds(TypeOfUser("AccountDeletionRequested", v))>>
    BY <1>1 DEF Registered, Finds
  <2>2. Finds(TypeOfUser("AccountDeleted", v)) => Registered(v)
    <3> SUFFICES ASSUME NEW i \in DOMAIN log, InQuery(log[i], TypeOfUser("AccountDeleted", v))
                 PROVE  Registered(v)
      BY DEF Finds
    <3>1. log[i].type = "AccountDeleted" /\ log[i].user = v
      BY AsksOfUser, Positions DEF IInv
    <3> QED BY <3>1 DEF IInv, LogInv, Rooted, OwnedTypes, Registered, Finds
  <2> QED BY <1>1, <1>2, <2>1, <2>2 DEF IInv, Promises, KeysFollowDeletion
<1>8. ASSUME NEW q \in Request, q # r, request[q] # Idle,
             NEW next, NEW e, next = request[q].next, e = request[q].event
      PROVE  Grounded(next, e)'
  <2>1. Grounded(next, e)
    BY <1>8, InFlight DEF Sound
  <2>2. e.type = "AccountDeleted" => e.user # u
    BY <1>2, <2>1 DEF Grounded, OwnedTypes
  <2> QED BY <1>1, <2>1, <2>2 DEF Grounded, Registered, Finds, Is
<1> HIDE DEF d
<1> QED BY <1>0, <1>1, <1>3, <1>6, <1>7, <1>8, KeyKeeps DEF KeysFollowDeletion, IInv, LogInv

LEMMA DestroyKeyKeeps ==
    ASSUME IInv, NEW r \in Request, DestroyKey(r)
    PROVE  IInv'
<1>0. PICK c : c = request[r]
  OBVIOUS
<1> DEFINE d == [c EXCEPT !.next = "save"]
           u == c.event.user
<1>1. /\ c # Idle /\ c.next = "destroyKey" /\ UNCHANGED <<log, expired>>
      /\ keys' = keys \ {u} /\ Hold(r, d)
  BY <1>0 DEF DestroyKey, At, DeleteSubjectPiiKey, Proceed
<1>2. /\ Sound(c) /\ c.event.type = "AccountDeleted" /\ Registered(u)
      /\ Is(c.event.about, "AccountDeletionRequested") /\ log[c.event.about].user = u
  BY <1>0, <1>1, InFlight DEF Sound, Grounded, OwnedTypes
<1>3. Finds(TypeOfUser("AccountDeletionRequested", u))
  BY <1>2, Positions, AsksOfUser, EventFields DEF IInv, Is, Finds, Fielded, SentTypes
<1>4. Grounded("save", c.event)'
  BY <1>1, <1>2 DEF Sound, Grounded, Registered, Finds, Is
<1>5. Sound(d)' /\ d.event = c.event
  <2> DEFINE f == [next |-> "save", round |-> c.round, position |-> c.position,
                   query |-> c.query, event |-> c.event]
  <2>1. d = f
    BY <1>2 DEF Sound
  <2>2. Sound(f)'
    BY <1>1, <1>2, <1>4 DEF Sound, Loading, Decided, Repeats, Finds
  <2> HIDE DEF f, d
  <2>3. d.event = c.event
    BY <2>1 DEF f
  <2> QED BY <2>1, <2>2, <2>3
<1>6. ASSUME NEW v \in User
      PROVE  /\ (Registered(v) /\ v \notin keys => Finds(TypeOfUser("AccountDeletionRequested", v)))'
             /\ (Finds(TypeOfUser("AccountDeleted", v)) => v \notin keys)'
  <2>1. UNCHANGED <<Registered(v), Finds(TypeOfUser("AccountDeleted", v)),
                    Finds(TypeOfUser("AccountDeletionRequested", v))>>
    BY <1>1 DEF Registered, Finds
  <2> QED BY <1>1, <1>3, <2>1 DEF IInv, Promises, KeysFollowDeletion
<1>7. ASSUME NEW q \in Request, q # r, request[q] # Idle,
             NEW next, NEW e, next = request[q].next, e = request[q].event
      PROVE  Grounded(next, e)'
  <2>1. Grounded(next, e)
    BY <1>7, InFlight DEF Sound
  <2>2. e.type = "UserRegistered" => e.user # u
    BY <1>2, <2>1 DEF Grounded, OwnedTypes
  <2> QED BY <1>1, <2>1, <2>2 DEF Grounded, Registered, Finds, Is
<1> HIDE DEF d
<1> QED BY <1>0, <1>1, <1>5, <1>6, <1>7, KeyKeeps DEF KeysFollowDeletion, IInv, LogInv

-------------------------------------------------------------------------------
(* The save.                                                                 *)

\* An event is decided with or without its id.
LEMMA SameDecision ==
    ASSUME NEW e \in Event, NEW i \in Id, NEW next, Decided(e), Grounded(next, e)
    PROVE  /\ Decided([e EXCEPT !.id = i])
           /\ Grounded(next, [e EXCEPT !.id = i])
           /\ [e EXCEPT !.id = i].type = e.type
           /\ e.type \notin SentTypes => [e EXCEPT !.id = i].user = e.user
<1>1. PICK new : new = [e EXCEPT !.id = i]
  OBVIOUS
<1>2. new \in Event /\ \A field \in DOMAIN e : field # "id" => new[field] = e[field]
  BY <1>1, NewId
<1>3. Fielded(e) /\ new.type = e.type
  BY <1>2, EventFields DEF Fielded
<1>4. /\ "user" \in DOMAIN e => new.user = e.user
      /\ "about" \in DOMAIN e => new.about = e.about
      /\ "username" \in DOMAIN e => new.username = e.username
      /\ "email" \in DOMAIN e => new.email = e.email
  BY <1>2
<1>5. /\ e.type \notin SentTypes => new.user = e.user
      /\ e.type \in AboutTypes => new.about = e.about
      /\ e.type = "UserRegistered" => new.username = e.username /\ new.email = e.email
  BY <1>3, <1>4 DEF Fielded
<1>6. Forbids(new) = Forbids(e) /\ DependsOn(new) = DependsOn(e)
  BY <1>3, <1>5 DEF Forbids, DependsOn, UserRegisteredByUsernameOrEmailQuery, SentTypes, AboutTypes,
     CodeTypes
<1>7. /\ e.type = "UserNameChanged" => new.name = e.name
      /\ e.type = "ProfileBioUpdated" => new.bio = e.bio
  <2>1. e.type = "UserNameChanged" => e \in UserNameChanged
    BY DEF Event, UserRegistered, UserNameChanged, EmailVerificationOTPGenerated,
       EmailVerificationOTPValidated, EmailVerificationOTPSent, PasswordResetRequested,
       PasswordResetEmailSent, PasswordResetCompleted, PasswordChanged, AccountDeletionRequested,
       AccountDeleted, ProfileBioUpdated, ProfileImageUploaded, ProfileHeaderImageUploaded
  <2>2. e.type = "ProfileBioUpdated" => e \in ProfileBioUpdated
    BY DEF Event, UserRegistered, UserNameChanged, EmailVerificationOTPGenerated,
       EmailVerificationOTPValidated, EmailVerificationOTPSent, PasswordResetRequested,
       PasswordResetEmailSent, PasswordResetCompleted, PasswordChanged, AccountDeletionRequested,
       AccountDeleted, ProfileBioUpdated, ProfileImageUploaded, ProfileHeaderImageUploaded
  <2>3. e \in UserNameChanged => "name" \in DOMAIN e
    BY DEF UserNameChanged
  <2>4. e \in ProfileBioUpdated => "bio" \in DOMAIN e
    BY DEF ProfileBioUpdated
  <2> QED BY <1>2, <2>1, <2>2, <2>3, <2>4
<1>8. Decided(new)
  BY <1>3, <1>5, <1>6, <1>7 DEF Decided, Repeats, UpdateTypes, AboutTypes, SentTypes
<1>9. Grounded(next, new)
  BY <1>3, <1>5 DEF Grounded, OwnedTypes, AboutTypes, SentTypes
<1> QED BY <1>1, <1>3, <1>5, <1>8, <1>9 DEF SentTypes

\* A save that does not conflict appends an event that is decided on the log as it is.
Saves(new) ==
    /\ log' = Append(log, new)
    /\ new.id = Len(log) + 1 /\ Len(log) < MaxEvents
    /\ Decided(new) /\ Grounded("save", new)
    /\ UNCHANGED <<keys, expired>>

LEMMA Accepted ==
    ASSUME IInv, NEW r \in Request, SaveCommit(r)
    PROVE  \E new \in Event : /\ Saves(new) /\ request[r] # Idle
                              /\ new.type = request[r].event.type
                              /\ new.type \notin SentTypes => new.user = request[r].event.user
                              /\ new.type = "UserRegistered" => Registers(r, new.user)
<1>1. PICK c : c = request[r]
  OBVIOUS
<1>2. /\ c # Idle /\ c.next = "save" /\ Len(log) < MaxEvents
      /\ ~ Conflicts(log, c.position, c.query)
      /\ log' = Append(log, [c.event EXCEPT !.id = Len(log) + 1])
      /\ UNCHANGED <<keys, expired>>
  BY <1>1 DEF SaveCommit, At
<1>3. Sound(c) /\ c.event \in Event
  BY <1>1, <1>2, InFlight
<1>4. Decided(c.event) /\ Grounded("save", c.event)
  BY <1>2, <1>3 DEF Sound, Loading
<1>5. Len(log) + 1 \in Id
  BY <1>2, Positions DEF Id, IInv
<1> DEFINE new == [c.event EXCEPT !.id = Len(log) + 1]
<1>6. new \in Event /\ new.id = Len(log) + 1
  BY <1>3, <1>5, NewId
<1>7. /\ Decided(new) /\ Grounded("save", new) /\ new.type = c.event.type
      /\ c.event.type \notin SentTypes => new.user = c.event.user
  BY <1>3, <1>4, <1>5, SameDecision
<1>8. Saves(new)
  BY <1>2, <1>6, <1>7 DEF Saves
<1> HIDE DEF new
<1> QED BY <1>1, <1>2, <1>6, <1>7, <1>8 DEF Registers, SentTypes

\* The log after a save.
LEMMA Saved ==
    ASSUME LogInv, NEW new \in Event, Saves(new)
    PROVE  /\ log' \in Seq(Event) /\ Len(log') = Len(log) + 1 /\ Len(log) \in Nat
           /\ DOMAIN log = 1..Len(log) /\ DOMAIN log' = 1..(Len(log) + 1)
           /\ \A i \in DOMAIN log : i \in DOMAIN log' /\ log'[i] = log[i] /\ log[i] \in Event
                                    /\ i < Len(log) + 1
           /\ \A i \in DOMAIN log' : \/ i \in DOMAIN log /\ log'[i] = log[i]
                                     \/ i = Len(log) + 1 /\ log'[i] = new
           /\ Len(log) + 1 \in DOMAIN log' /\ log'[Len(log) + 1] = new
<1>1. log \in Seq(Event)
  BY DEF LogInv
<1> QED BY <1>1, Appended, Positions DEF Saves

LEMMA LogSaved ==
    ASSUME LogInv, NEW new \in Event, Saves(new)
    PROVE  LogInv'
<1> DEFINE n == Len(log) + 1
<1>1. HasLast'
  <2> SUFFICES ASSUME NEW query PROVE \E p \in 0..Len(log') : IsContextPosition(p, log', query)
    BY DEF HasLast
  <2>1. PICK p \in 0..Len(log) : IsContextPosition(p, log, query)
    BY DEF LogInv, HasLast
  <2>2. CASE InQuery(new, query)
    <3>1. IsContextPosition(n, log', query)
      BY <2>2, Saved DEF IsContextPosition, Conflicts, After
    <3> QED BY <3>1, Saved
  <2>3. CASE ~ InQuery(new, query)
    <3>1. IsContextPosition(p, log', query)
      BY <2>1, <2>3, Saved DEF IsContextPosition, Conflicts, After
    <3> QED BY <3>1, Saved
  <2> QED BY <2>2, <2>3
<1>2. ASSUME NEW i \in DOMAIN log' PROVE (log[i].id = i /\ Rooted(i))'
  <2>1. CASE i \in DOMAIN log /\ log'[i] = log[i]
    <3>1. log[i].id = i /\ Rooted(i)
      BY <2>1 DEF LogInv
    <3> QED BY <2>1, <3>1, Saved DEF Rooted, Is
  <2>2. CASE i = n /\ log'[i] = new
    <3>1. Grounded("save", new)
      BY DEF Saves
    <3>2. new.type \in OwnedTypes =>
            \E k \in DOMAIN log' : k < i /\ InQuery(log'[k], UserRegisteredQuery(new.user))
      BY <2>2, <3>1, Saved DEF Grounded, Registered, Finds
    <3>3. new.type = "AccountDeleted" =>
            /\ new.about \in DOMAIN log' /\ log'[new.about].type = "AccountDeletionRequested"
            /\ log'[new.about].user = new.user
      BY <3>1, Saved DEF Grounded, Is
    <3>4. new.type = "EmailVerificationOTPValidated" =>
            /\ new.about \in DOMAIN log' /\ log'[new.about].type = "EmailVerificationOTPGenerated"
            /\ log'[new.about].user = new.user
      BY <3>1, Saved DEF Grounded, Is
    <3>5. Rooted(i)'
      BY <2>2, <3>2, <3>3, <3>4 DEF Rooted, Is
    <3> QED BY <2>2, <3>5 DEF Saves
  <2> QED BY <2>1, <2>2, Saved
<1>3. keys' \subseteq User /\ \A i \in expired' : Is(i, "EmailVerificationOTPGenerated")'
  BY Saved DEF Saves, LogInv, Is
<1> QED BY <1>1, <1>2, <1>3, Saved DEF LogInv

LEMMA RequestsSaved ==
    ASSUME IInv, NEW r \in Request, NEW new \in Event, Saves(new), Return(r),
           new.type = "UserRegistered" => Registers(r, new.user)
    PROVE  RequestInv'
<1> DEFINE n == Len(log) + 1
<1> USE DEF IInv
<1>1. request' = [request EXCEPT ![r] = Idle]
  BY DEF Return, Hold
<1>2. request = [q \in Request |-> request[q]]
  BY DEF RequestInv
<1>3. \A q \in Request : request'[q] = IF q = r THEN Idle ELSE request[q]
  BY <1>1, <1>2
<1>4. request' = [q \in Request |-> request'[q]]
  BY <1>1, <1>2
<1>5. OneRegistration'
  BY <1>3 DEF RequestInv, OneRegistration, Registers
<1>6. ASSUME NEW q \in Request, request'[q] # Idle PROVE Sound(request[q])'
  <2>1. PICK c : c = request[q]
    OBVIOUS
  <2>2. q # r /\ request'[q] = c /\ c # Idle /\ Sound(c) /\ c.event \in Event
    BY <1>3, <1>6, <2>1, InFlight
  <2>3. Grounded(c.next, c.event)
    BY <2>2 DEF Sound
  <2>4. \A u : Registered(u) => Registered(u)'
    BY Saved DEF Registered, Finds
  <2>5. ~ Registered(c.event.user)' \/ c.event.type # "UserRegistered"
    <3> SUFFICES ASSUME c.event.type = "UserRegistered", Registered(c.event.user)' PROVE FALSE
      OBVIOUS
    <3>1. c.event.user \in User /\ Registers(q, c.event.user) /\ ~ Registered(c.event.user)
      BY <2>1, <2>2, <2>3, OnlyRegistration DEF Registers, Grounded
    <3>2. InQuery(new, UserRegisteredQuery(c.event.user))
      BY <3>1, FindsAppended DEF Registered, Saves, LogInv
    <3>3. new.type = "UserRegistered" /\ new.user = c.event.user
      BY <3>2, AsksOfUser DEF UserRegisteredQuery
    <3> QED BY <2>2, <3>1, <3>3 DEF RequestInv, OneRegistration
  <2>6. \A i, type : Is(i, type) => Is(i, type)' /\ log'[i] = log[i]
    BY Saved DEF Is
  <2>7. Grounded(c.next, c.event)'
    BY <2>3, <2>4, <2>5, <2>6 DEF Grounded, Saves
  <2>8. ASSUME c.query # {} PROVE Conflicts(log', c.position, c.query) \/ Decided(c.event)'
    <3>1. /\ Boundary(c.event) \subseteq c.query /\ c.position \in 0..Len(log)
          /\ Conflicts(log, c.position, c.query) \/ Decided(c.event)
      BY <2>2, <2>8 DEF Sound
    <3>2. CASE Conflicts(log, c.position, c.query)
      BY <3>2, Saved DEF Conflicts
    <3>3. CASE InQuery(new, Boundary(c.event))
      <4>1. InQuery(log'[n], c.query) /\ After(n, c.position)
        BY <3>1, <3>3, Wider, Saved DEF After
      <4> QED BY <4>1, Saved DEF Conflicts
    <3>4. CASE Decided(c.event) /\ ~ InQuery(new, Boundary(c.event))
      BY <3>4, DecisionStays DEF Saves, LogInv
    <3> QED BY <3>1, <3>2, <3>3, <3>4
  <2>9. Sound(c)'
    BY <2>2, <2>7, <2>8, Saved DEF Sound
  <2> QED BY <2>2, <2>9
<1> QED BY <1>4, <1>5, <1>6 DEF RequestInv

\* Forbidden events are not in the log, type by type.
LEMMA NotBefore ==
    ASSUME LogInv, NEW new \in Event, Saves(new), NEW i \in DOMAIN log
    PROVE  /\ new.type = "UserRegistered" /\ log[i].type = "UserRegistered" =>
                log[i].username # new.username /\ log[i].email # new.email
                /\ log[i].user # new.user
           /\ new.type = "EmailVerificationOTPGenerated"
              /\ log[i].type = "EmailVerificationOTPValidated" => log[i].user # new.user
           /\ new.type = "AccountDeletionRequested" /\ log[i].type = new.type =>
                log[i].user # new.user
           /\ new.type \in AboutTypes /\ log[i].type = new.type => log[i].about # new.about
<1>1. ~ InQuery(log[i], Forbids(new)) /\ log[i] \in Event /\ Fielded(log[i])
  BY Positions, EventFields DEF Saves, Decided, Finds
<1>2. ASSUME new.type = "UserRegistered", log[i].type = "UserRegistered"
      PROVE  log[i].username # new.username /\ log[i].email # new.email /\ log[i].user # new.user
  <2>1. Forbids(new) = UserRegisteredByUsernameOrEmailQuery(new)
    BY <1>2 DEF Forbids, AboutTypes, SentTypes
  <2>2. ~ Registered(new.user)
    BY <1>2 DEF Saves, Grounded
  <2> QED BY <1>1, <1>2, <2>1, <2>2, AsksOfIdentity, RegisteredBy
<1>3. ASSUME new.type = "EmailVerificationOTPGenerated",
             log[i].type = "EmailVerificationOTPValidated"
      PROVE  log[i].user # new.user
  <2>1. Forbids(new) = TypeOfUser("EmailVerificationOTPValidated", new.user)
    BY <1>3 DEF Forbids, AboutTypes, SentTypes
  <2> QED BY <1>1, <1>3, <2>1, AsksOfUser DEF Fielded, SentTypes
<1>4. ASSUME new.type = "AccountDeletionRequested", log[i].type = new.type
      PROVE  log[i].user # new.user
  <2>1. Forbids(new) = TypeOfUser("AccountDeletionRequested", new.user)
    BY <1>4 DEF Forbids, AboutTypes, SentTypes
  <2> QED BY <1>1, <1>4, <2>1, AsksOfUser DEF Fielded, SentTypes
<1>5. ASSUME new.type \in AboutTypes, log[i].type = new.type
      PROVE  log[i].about # new.about
  <2>1. Forbids(new) = TypeAbout(new.type, new.about)
    BY <1>5 DEF Forbids, AboutTypes, SentTypes
  <2> QED BY <1>1, <1>5, <2>1, AsksAbout DEF Fielded
<1> QED BY <1>2, <1>3, <1>4, <1>5

LEMMA IdentitySaved ==
    ASSUME IInv, NEW new \in Event, Saves(new)
    PROVE  IdentityTakenOnce'
<1> SUFFICES ASSUME NEW i \in DOMAIN log', NEW j \in DOMAIN log', i # j,
                    log'[i].type = "UserRegistered", log'[j].type = "UserRegistered"
             PROVE  /\ log'[i].username # log'[j].username
                    /\ log'[i].email # log'[j].email
                    /\ log'[i].user # log'[j].user
  BY DEF IdentityTakenOnce
<1>1. CASE i \in DOMAIN log /\ j \in DOMAIN log
  BY <1>1, Saved DEF IInv, Promises, IdentityTakenOnce
<1>2. CASE i \in DOMAIN log /\ j \notin DOMAIN log
  <2>1. log'[j] = new /\ log'[i] = log[i]
    BY <1>2, Saved DEF IInv
  <2> QED BY <1>2, <2>1, NotBefore DEF IInv
<1>3. CASE i \notin DOMAIN log /\ j \in DOMAIN log
  <2>1. log'[i] = new /\ log'[j] = log[j]
    BY <1>3, Saved DEF IInv
  <2> QED BY <1>3, <2>1, NotBefore DEF IInv
<1> QED BY <1>1, <1>2, <1>3, Saved DEF IInv

\* Two events of which one is all there may be.
Apart(d, e) ==
    CASE d.type \in {"EmailVerificationOTPSent", "PasswordResetEmailSent",
                     "PasswordResetCompleted"} -> d.about # e.about
      [] d.type \in {"EmailVerificationOTPValidated", "AccountDeletionRequested",
                     "AccountDeleted"} -> d.user # e.user
      [] OTHER -> TRUE

\* No event like the new one is in the log.
LEMMA NoneLikeIt ==
    ASSUME IInv, NEW new \in Event, Saves(new), NEW i \in DOMAIN log, log[i].type = new.type
    PROVE  Apart(log[i], new) /\ Apart(new, log[i])
<1>1. /\ log[i] \in Event /\ Fielded(log[i]) /\ Fielded(new) /\ Rooted(i)
      /\ Grounded("save", new) /\ Decided(new)
  BY Positions, EventFields DEF IInv, LogInv, Saves
<1>2. CASE new.type \in {"EmailVerificationOTPSent", "PasswordResetEmailSent",
                         "PasswordResetCompleted"}
  <2>1. log[i].about # new.about
    BY <1>2, NotBefore DEF AboutTypes, SentTypes, IInv
  <2> QED BY <1>2, <2>1 DEF Apart
<1>3. CASE new.type = "AccountDeletionRequested"
  <2>1. log[i].user # new.user
    BY <1>3, NotBefore DEF IInv
  <2> QED BY <1>3, <2>1 DEF Apart
<1>4. CASE new.type = "AccountDeleted"
  <2>1. log[i].about # new.about
    BY <1>4, NotBefore DEF AboutTypes, IInv
  <2>2. /\ Is(log[i].about, "AccountDeletionRequested") /\ log[log[i].about].user = log[i].user
        /\ Is(new.about, "AccountDeletionRequested") /\ log[new.about].user = new.user
    BY <1>1, <1>4 DEF Rooted, Grounded
  <2>3. log[log[i].about].user # log[new.about].user
    BY <2>1, <2>2 DEF IInv, Promises, OncePerSubject, Is
  <2> QED BY <1>4, <2>2, <2>3 DEF Apart
<1>5. CASE new.type = "EmailVerificationOTPValidated"
  <2>1. log[i].about # new.about
    BY <1>5, NotBefore DEF AboutTypes, IInv
  <2>2. /\ Is(log[i].about, "EmailVerificationOTPGenerated") /\ log[log[i].about].user = log[i].user
        /\ Is(new.about, "EmailVerificationOTPGenerated") /\ log[new.about].user = new.user
    BY <1>1, <1>5 DEF Rooted, Grounded
  <2>3. ASSUME log[i].user = new.user PROVE FALSE
    <3>1. new.about <= log[i].about
      BY <1>1, <1>5, <2>2, <2>3 DEF IInv, Promises, NewestCodeValidated, Is
    <3>2. DependsOn(new) = TypeOfUser("EmailVerificationOTPGenerated", new.user)
      BY <1>5 DEF DependsOn, CodeTypes
    <3>3. log[log[i].about] \in Event /\ Fielded(log[log[i].about])
      BY <2>2, Positions, EventFields DEF Is, IInv
    <3>4. InQuery(log[log[i].about], DependsOn(new))
      BY <2>2, <2>3, <3>2, <3>3, AsksOfUser DEF Fielded, SentTypes, Is
    <3>5. ~ (log[i].about > new.about)
      BY <1>1, <1>5, <2>2, <3>4 DEF Decided, Is
    <3> QED BY <2>1, <2>2, <3>1, <3>5, Positions DEF Is, IInv
  <2> QED BY <1>5, <2>3 DEF Apart
<1>6. CASE new.type \notin {"EmailVerificationOTPSent", "PasswordResetEmailSent",
                            "PasswordResetCompleted", "EmailVerificationOTPValidated",
                            "AccountDeletionRequested", "AccountDeleted"}
  BY <1>6 DEF Apart
<1> QED BY <1>2, <1>3, <1>4, <1>5, <1>6

LEMMA OnceSaved ==
    ASSUME IInv, NEW new \in Event, Saves(new)
    PROVE  OncePerSubject'
<1> SUFFICES ASSUME NEW i \in DOMAIN log', NEW j \in DOMAIN log', i # j,
                    log'[i].type = log'[j].type
             PROVE  Apart(log'[i], log'[j])
  BY DEF OncePerSubject, Apart
<1>1. CASE i \in DOMAIN log /\ j \in DOMAIN log
  <2>1. log[i].type = log[j].type => Apart(log[i], log[j])
    BY <1>1 DEF IInv, Promises, OncePerSubject, Apart
  <2> QED BY <1>1, <2>1, Saved DEF IInv
<1>2. CASE i \in DOMAIN log /\ j \notin DOMAIN log
  <2>1. log'[j] = new /\ log'[i] = log[i]
    BY <1>2, Saved DEF IInv
  <2> QED BY <1>2, <2>1, NoneLikeIt
<1>3. CASE i \notin DOMAIN log /\ j \in DOMAIN log
  <2>1. log'[i] = new /\ log'[j] = log[j]
    BY <1>3, Saved DEF IInv
  <2> QED BY <1>3, <2>1, NoneLikeIt
<1> QED BY <1>1, <1>2, <1>3, Saved DEF IInv

LEMMA NewestSaved ==
    ASSUME IInv, NEW new \in Event, Saves(new)
    PROVE  NewestCodeValidated'
<1> SUFFICES ASSUME NEW i \in DOMAIN log', NEW j \in DOMAIN log',
                    log'[i].type = "EmailVerificationOTPValidated",
                    log'[j].type = "EmailVerificationOTPGenerated",
                    log'[j].user = log'[i].user
             PROVE  j <= log'[i].about
  BY DEF NewestCodeValidated
<1>1. CASE i \in DOMAIN log /\ j \in DOMAIN log
  BY <1>1, Saved DEF IInv, Promises, NewestCodeValidated
<1>2. CASE i \in DOMAIN log /\ j \notin DOMAIN log
  <2>1. log'[j] = new /\ log'[i] = log[i]
    BY <1>2, Saved DEF IInv
  <2> QED BY <1>2, <2>1, NotBefore DEF IInv
<1>3. CASE i \notin DOMAIN log /\ j \in DOMAIN log
  <2>1. log'[i] = new /\ log'[j] = log[j] /\ j \in Nat
    BY <1>3, Saved DEF IInv
  <2>2. DependsOn(new) = TypeOfUser("EmailVerificationOTPGenerated", new.user)
    BY <2>1 DEF DependsOn, CodeTypes
  <2>3. log[j] \in Event /\ Fielded(log[j])
    BY <1>3, Positions, EventFields DEF IInv
  <2>4. InQuery(log[j], DependsOn(new))
    BY <2>1, <2>2, <2>3, AsksOfUser DEF Fielded, SentTypes
  <2>5. ~ (j > new.about)
    BY <1>3, <2>1, <2>4 DEF Saves, Decided
  <2>6. new.about \in Id
    BY <2>1, EventFields DEF Fielded, AboutTypes
  <2> QED BY <2>1, <2>5, <2>6, AccountsBoundAssumption DEF Id
<1> QED BY <1>1, <1>2, <1>3, Saved DEF IInv

LEMMA LiveSaved ==
    ASSUME IInv, NEW new \in Event, Saves(new)
    PROVE  OneLiveCode'
<1> SUFFICES ASSUME NEW i \in DOMAIN log', NEW j \in DOMAIN log', j > i,
                    log'[i].type = "EmailVerificationOTPGenerated", log'[j].type = log'[i].type,
                    log'[i].user = log'[j].user
             PROVE  i \in expired'
  BY DEF OneLiveCode, After
<1>1. i \in DOMAIN log /\ log'[i] = log[i] /\ log[i] \in Event /\ expired' = expired
  BY Saved DEF IInv, Saves
<1>2. CASE j \in DOMAIN log
  BY <1>1, <1>2, Saved DEF IInv, Promises, OneLiveCode, After
<1>3. CASE j \notin DOMAIN log
  <2>1. log'[j] = new /\ Decided(new)
    BY <1>3, Saved DEF IInv, Saves
  <2>2. DependsOn(new) = TypeOfUser("EmailVerificationOTPGenerated", new.user)
    BY <2>1 DEF DependsOn, CodeTypes
  <2>3. InQuery(log[i], DependsOn(new))
    BY <1>1, <2>1, <2>2, AsksOfUser, EventFields DEF Fielded, SentTypes
  <2> QED BY <1>1, <2>1, <2>3 DEF Decided
<1> QED BY <1>2, <1>3

LEMMA KeysSaved ==
    ASSUME IInv, NEW new \in Event, Saves(new)
    PROVE  KeysFollowDeletion'
<1> SUFFICES ASSUME NEW u \in User
             PROVE  /\ Registered(u)' /\ u \notin keys' =>
                         Finds(TypeOfUser("AccountDeletionRequested", u))'
                    /\ Finds(TypeOfUser("AccountDeleted", u))' => u \notin keys'
  BY DEF KeysFollowDeletion
<1>1. log \in Seq(Event) /\ log' = Append(log, new) /\ keys' = keys /\ Grounded("save", new)
  BY DEF IInv, LogInv, Saves
<1>2. Registered(u)' => Registered(u) \/ (new.type = "UserRegistered" /\ new.user = u)
  BY <1>1, FindsAppended, AsksOfUser DEF Registered, UserRegisteredQuery
<1>3. Finds(TypeOfUser("AccountDeletionRequested", u))
        => Finds(TypeOfUser("AccountDeletionRequested", u))'
  BY <1>1, FindsAppended
<1>4. Finds(TypeOfUser("AccountDeleted", u))'
        => Finds(TypeOfUser("AccountDeleted", u)) \/ (new.type = "AccountDeleted" /\ new.user = u)
  BY <1>1, FindsAppended, AsksOfUser
<1> QED BY <1>1, <1>2, <1>3, <1>4 DEF IInv, Promises, KeysFollowDeletion, Grounded

LEMMA UpdatesSaved ==
    ASSUME IInv, NEW new \in Event, Saves(new)
    PROVE  UpdatesChange'
<1> SUFFICES ASSUME NEW i \in DOMAIN log', NEW j \in DOMAIN log', j > i,
                    \/ /\ log'[j].type = "UserNameChanged"
                       /\ log'[i].type \in {"UserRegistered", "UserNameChanged"}
                       /\ DisplayName(log'[i]) = log'[j].name
                    \/ /\ log'[j].type = "ProfileBioUpdated" /\ log'[i].type = "ProfileBioUpdated"
                       /\ log'[i].bio = log'[j].bio,
                    log'[i].user = log'[j].user
             PROVE  \E k \in (i + 1)..(j - 1) :
                      InQuery(log'[k], TypeOfUser(log'[j].type, log'[j].user))
  BY DEF UpdatesChange, After
<1>1. i \in DOMAIN log /\ log'[i] = log[i] /\ log[i] \in Event /\ Fielded(log[i])
  BY Saved, EventFields DEF IInv
<1>2. CASE j \in DOMAIN log
  <2>1. log'[j] = log[j]
    BY <1>2, Saved DEF IInv
  <2>2. PICK k \in (i + 1)..(j - 1) : InQuery(log[k], TypeOfUser(log[j].type, log[j].user))
    BY <1>1, <1>2, <2>1 DEF IInv, Promises, UpdatesChange, After
  <2>3. log'[k] = log[k]
    BY <1>1, <1>2, <2>2, Saved DEF IInv
  <2> QED BY <2>1, <2>2, <2>3
<1>3. CASE j \notin DOMAIN log
  <2>1. log'[j] = new /\ j = Len(log) + 1 /\ Decided(new)
    BY <1>3, Saved DEF IInv, Saves
  <2>2. /\ new.type = "UserNameChanged" => DependsOn(new) = UpdateNameQuery(new.user)
        /\ new.type = "ProfileBioUpdated" => DependsOn(new) = TypeOfUser("ProfileBioUpdated", new.user)
    BY DEF DependsOn, CodeTypes
  <2>3. InQuery(log[i], DependsOn(new))
    <3>1. CASE log[i].type = "UserRegistered"
      BY <1>1, <2>1, <2>2, <3>1, AsksOfUser, Wider DEF UpdateNameQuery, UserRegisteredQuery,
         Fielded, SentTypes
    <3>2. CASE log[i].type = "UserNameChanged"
      BY <1>1, <2>1, <2>2, <3>2, AsksOfUser, Wider DEF UpdateNameQuery, Fielded, SentTypes
    <3>3. CASE log[i].type = "ProfileBioUpdated"
      BY <1>1, <2>1, <2>2, <3>3, AsksOfUser DEF Fielded, SentTypes
    <3> QED BY <1>1, <2>1, <3>1, <3>2, <3>3
  <2>4. Repeats(new, i) /\ new.type \in UpdateTypes
    BY <1>1, <2>1, <2>3 DEF Repeats, UpdateTypes
  <2>5. PICK k \in DOMAIN log : k > i /\ InQuery(log[k], DependsOn(new))
    BY <1>1, <2>1, <2>4 DEF Decided
  <2>6. log[k] \in Event /\ Fielded(log[k]) /\ log'[k] = log[k] /\ k \in (i + 1)..(j - 1)
    BY <1>1, <2>1, <2>5, Saved, EventFields DEF IInv
  <2>7. CASE new.type = "ProfileBioUpdated"
    BY <2>1, <2>2, <2>5, <2>6, <2>7
  <2>8. CASE new.type = "UserNameChanged"
    <3>1. \/ InQuery(log[k], TypeOfUser("UserNameChanged", new.user))
          \/ InQuery(log[k], UserRegisteredQuery(new.user))
      BY <2>2, <2>5, <2>8 DEF InQuery, UpdateNameQuery
    <3>2. ~ InQuery(log[k], UserRegisteredQuery(new.user))
      <4> SUFFICES ASSUME InQuery(log[k], UserRegisteredQuery(new.user)) PROVE FALSE
        OBVIOUS
      <4>1. log[k].type = "UserRegistered" /\ log[k].user = new.user
        BY <2>6, AsksOfUser DEF UserRegisteredQuery
      <4>2. log[i].type # "UserRegistered"
        BY <1>1, <2>1, <2>5, <4>1 DEF IInv, Promises, IdentityTakenOnce, LogInv
      <4>3. log[i].type = "UserNameChanged" /\ log[i].user = new.user
        BY <1>1, <2>1, <2>8, <4>2
      <4>4. PICK m \in DOMAIN log : m < i /\ InQuery(log[m], UserRegisteredQuery(new.user))
        BY <1>1, <4>3 DEF IInv, LogInv, Rooted, OwnedTypes
      <4>5. log[m].type = "UserRegistered" /\ log[m].user = new.user /\ m # k
        BY <1>1, <2>5, <4>4, Positions, AsksOfUser DEF UserRegisteredQuery, IInv
      <4> QED BY <4>1, <4>5 DEF IInv, Promises, IdentityTakenOnce
    <3> QED BY <2>1, <2>6, <2>8, <3>1, <3>2
  <2> QED BY <2>4, <2>7, <2>8 DEF UpdateTypes
<1> QED BY <1>2, <1>3

LEMMA SaveCommitKeeps ==
    ASSUME IInv, NEW r \in Request, SaveCommit(r)
    PROVE  IInv'
<1>1. PICK new \in Event : /\ Saves(new) /\ request[r] # Idle
                           /\ new.type = "UserRegistered" => Registers(r, new.user)
  BY Accepted
<1>2. Return(r)
  BY DEF SaveCommit
<1>3. LogInv'
  BY <1>1, LogSaved DEF IInv
<1>4. RequestInv'
  BY <1>1, <1>2, RequestsSaved
<1>5. Promises'
  BY <1>1, IdentitySaved, OnceSaved, LiveSaved, NewestSaved, KeysSaved, UpdatesSaved
     DEF Promises
<1> QED BY <1>3, <1>4, <1>5 DEF IInv

-------------------------------------------------------------------------------
(* The log as AccountLifecycle sees it.                                      *)

Asked(u) == Finds(TypeOfUser("AccountDeletionRequested", u))
Closed(u) == Finds(TypeOfUser("AccountDeleted", u))
Verified(u) == Finds(TypeOfUser("EmailVerificationOTPValidated", u))

\* An event of a user is found by its type and user.
LEMMA FindsOfUser ==
    ASSUME LogInv, NEW type, type \notin SentTypes, NEW u
    PROVE  Finds(TypeOfUser(type, u)) <=> \E i \in DOMAIN log : log[i].type = type /\ log[i].user = u
BY Positions, EventFields, AsksOfUser DEF Finds, Fielded

\* Deleted users have asked for it, and users that asked are registered.
LEMMA StatesInOrder ==
    ASSUME IInv, NEW u
    PROVE  (Closed(u) => Asked(u)) /\ (Asked(u) => Registered(u))
<1> USE DEF SentTypes
<1>1. ASSUME Closed(u) PROVE Asked(u)
  <2>1. PICK i \in DOMAIN log : log[i].type = "AccountDeleted" /\ log[i].user = u
    BY <1>1, FindsOfUser DEF Closed, IInv
  <2>2. Is(log[i].about, "AccountDeletionRequested") /\ log[log[i].about].user = u
    BY <2>1 DEF IInv, LogInv, Rooted
  <2> QED BY <2>2, FindsOfUser DEF Asked, IInv, Is
<1>2. ASSUME Asked(u) PROVE Registered(u)
  <2>1. PICK i \in DOMAIN log : log[i].type = "AccountDeletionRequested" /\ log[i].user = u
    BY <1>2, FindsOfUser DEF Asked, IInv
  <2> QED BY <2>1 DEF IInv, LogInv, Rooted, OwnedTypes, Registered, Finds
<1> QED BY <1>1, <1>2

\* What a save adds to what is found of a user.
LEMMA FoundAfterSave ==
    ASSUME LogInv, NEW new \in Event, Saves(new), NEW u
    PROVE  /\ Registered(u)' <=> Registered(u) \/ (new.type = "UserRegistered" /\ new.user = u)
           /\ Asked(u)' <=> Asked(u) \/ (new.type = "AccountDeletionRequested" /\ new.user = u)
           /\ Closed(u)' <=> Closed(u) \/ (new.type = "AccountDeleted" /\ new.user = u)
           /\ Verified(u)' <=>
                Verified(u) \/ (new.type = "EmailVerificationOTPValidated" /\ new.user = u)
<1>1. log \in Seq(Event) /\ log' = Append(log, new)
  BY DEF LogInv, Saves
<1>2. \A type : type \notin SentTypes =>
        (Finds(TypeOfUser(type, u))' <=> Finds(TypeOfUser(type, u))
                                         \/ (new.type = type /\ new.user = u))
  BY <1>1, FindsAppended, AsksOfUser, EventFields DEF Fielded
<1> QED BY <1>2 DEF Registered, UserRegisteredQuery, Asked, Closed, Verified, SentTypes

\* And to its identity.
LEMMA IdentityAfterSave ==
    ASSUME LogInv, NEW new \in Event, Saves(new), NEW u
    PROVE  /\ new.type = "UserRegistered" /\ new.user = u =>
                Identity(u)' = {<<new.username, new.email>>} /\ Identity(u) = {}
           /\ ~ (new.type = "UserRegistered" /\ new.user = u) => Identity(u)' = Identity(u)
<1>1. ASSUME new.type = "UserRegistered", new.user = u
      PROVE  Identity(u)' = {<<new.username, new.email>>} /\ Identity(u) = {}
  <2>1. \A i \in DOMAIN log : ~ (log[i].type = "UserRegistered" /\ log[i].user = u)
    BY <1>1, NotBefore
  <2>2. \A i \in DOMAIN log' : log'[i].type = "UserRegistered" /\ log'[i].user = u
                                <=> i = Len(log) + 1
    BY <1>1, <2>1, Saved
  <2>3. Len(log) + 1 \in DOMAIN log' /\ log'[Len(log) + 1] = new
    BY Saved
  <2> QED BY <2>1, <2>2, <2>3 DEF Identity
<1>2. ASSUME ~ (new.type = "UserRegistered" /\ new.user = u)
      PROVE  Identity(u)' = Identity(u)
  BY <1>2, Saved DEF Identity
<1> QED BY <1>1, <1>2

\* An empty log has no accounts.
LEMMA LifecycleInit == Init => Lifecycle!Init
BY DEF Init, Lifecycle!Init, StateOf, Identity, Finds, Registered

\* Whether a user is verified is a truth value.
LEMMA VerifiedStays ==
    ASSUME \A v \in User : Verified(v)' <=> Verified(v)
    PROVE  [v \in User |-> Finds(TypeOfUser("EmailVerificationOTPValidated", v))]'
             = [v \in User |-> Finds(TypeOfUser("EmailVerificationOTPValidated", v))]
<1>1. \A v : Verified(v) \in BOOLEAN /\ Verified(v)' \in BOOLEAN
  BY DEF Verified, Finds
<1>2. \A v \in User : Verified(v)' = Verified(v)
  BY <1>1
<1> QED BY <1>2 DEF Verified

\* A validation verifies its user.
LEMMA VerifiedBecomes ==
    ASSUME NEW u, \A v \in User : Verified(v)' <=> (v = u \/ Verified(v))
    PROVE  [v \in User |-> Finds(TypeOfUser("EmailVerificationOTPValidated", v))]'
             = [[v \in User |-> Finds(TypeOfUser("EmailVerificationOTPValidated", v))]
                  EXCEPT ![u] = TRUE]
<1>1. \A v : Verified(v) \in BOOLEAN /\ Verified(v)' \in BOOLEAN
  BY DEF Verified, Finds
<1>2. \A v \in User : Verified(v)' = IF v = u THEN TRUE ELSE Verified(v)
  BY <1>1
<1> QED BY <1>2 DEF Verified

\* A save is a step of one account, or none.
LEMMA LifecycleSave ==
    ASSUME IInv, NEW new \in Event, Saves(new)
    PROVE  [Lifecycle!Next]_Lifecycle!vars
<1> DEFINE u == new.user
<1> USE DEF StateOf, Asked, Closed
<1>1. LogInv /\ Grounded("save", new) /\ Fielded(new)
  BY EventFields DEF IInv, Saves
<1>2. CASE new.type = "UserRegistered"
  <2>1. u \in User /\ ~ Registered(u) /\ StateOf(u) = "none"
    BY <1>1, <1>2, StatesInOrder DEF Fielded, SentTypes, Grounded
  <2>2. \A v \in User : \A other \in Identity(v) : new.username # other[1] /\ new.email # other[2]
    BY <1>1, <1>2, NotBefore DEF Identity
  <2>3. \A v \in User : StateOf(v)' = IF v = u THEN "registered" ELSE StateOf(v)
    BY <1>1, <1>2, <2>1, FoundAfterSave, StatesInOrder
  <2>4. \A v \in User : Identity(v)' = IF v = u THEN {<<new.username, new.email>>} ELSE Identity(v)
    BY <1>1, <1>2, IdentityAfterSave
  <2>5. \A v \in User : Verified(v)' <=> Verified(v)
    BY <1>1, <1>2, FoundAfterSave
  <2>6. new.username \in Username /\ new.email \in Email
    BY <1>2 DEF Event, UserRegistered, UserNameChanged, EmailVerificationOTPGenerated,
       EmailVerificationOTPValidated, EmailVerificationOTPSent, PasswordResetRequested,
       PasswordResetEmailSent, PasswordResetCompleted, PasswordChanged, AccountDeletionRequested,
       AccountDeleted, ProfileBioUpdated, ProfileImageUploaded, ProfileHeaderImageUploaded
  <2>7. Lifecycle!Register(u, new.username, new.email)
    BY <2>1, <2>2, <2>3, <2>4, <2>5, VerifiedStays DEF Lifecycle!Register
  <2> QED BY <2>1, <2>6, <2>7 DEF Lifecycle!Next
<1>3. CASE new.type = "EmailVerificationOTPValidated"
  <2>1. u \in User /\ Registered(u) /\ StateOf(u) # "none"
    BY <1>1, <1>3 DEF Fielded, SentTypes, Grounded, OwnedTypes
  <2>2. ~ Verified(u)
    BY <1>1, <1>3, NoneLikeIt, FindsOfUser DEF Apart, SentTypes, Verified
  <2>3. \A v \in User : StateOf(v)' = StateOf(v)
    BY <1>1, <1>3, FoundAfterSave
  <2>4. \A v \in User : Identity(v)' = Identity(v)
    BY <1>1, <1>3, IdentityAfterSave
  <2>5. \A v \in User : Verified(v)' <=> (v = u \/ Verified(v))
    BY <1>1, <1>3, FoundAfterSave
  <2>6. Lifecycle!Verify(u)
    BY <2>1, <2>2, <2>3, <2>4, <2>5, VerifiedBecomes DEF Lifecycle!Verify, Verified
  <2> QED BY <2>1, <2>6 DEF Lifecycle!Next
<1>4. CASE new.type = "AccountDeletionRequested"
  <2>1. u \in User /\ Registered(u) /\ ~ Asked(u) /\ StateOf(u) = "registered"
    BY <1>1, <1>4, NotBefore, FindsOfUser, StatesInOrder DEF Fielded, SentTypes, Grounded, OwnedTypes
  <2>2. \A v \in User : StateOf(v)' = IF v = u THEN "deleting" ELSE StateOf(v)
    BY <1>1, <1>4, <2>1, FoundAfterSave, StatesInOrder
  <2>3. \A v \in User : Identity(v)' = Identity(v)
    BY <1>1, <1>4, IdentityAfterSave
  <2>4. \A v \in User : Verified(v)' <=> Verified(v)
    BY <1>1, <1>4, FoundAfterSave
  <2>5. Lifecycle!RequestDeletion(u)
    BY <2>1, <2>2, <2>3, <2>4, VerifiedStays DEF Lifecycle!RequestDeletion, Lifecycle!Move
  <2> QED BY <2>1, <2>5 DEF Lifecycle!Next
<1>5. CASE new.type = "AccountDeleted"
  <2>1. u \in User /\ Asked(u)
    BY <1>1, <1>5, FindsOfUser DEF Fielded, SentTypes, Grounded, Is
  <2>2. ~ Closed(u)
    BY <1>1, <1>5, NoneLikeIt, FindsOfUser DEF Apart, SentTypes
  <2>3. \A v \in User : StateOf(v)' = IF v = u THEN "deleted" ELSE StateOf(v)
    BY <1>1, <1>5, FoundAfterSave
  <2>4. \A v \in User : Identity(v)' = Identity(v)
    BY <1>1, <1>5, IdentityAfterSave
  <2>5. \A v \in User : Verified(v)' <=> Verified(v)
    BY <1>1, <1>5, FoundAfterSave
  <2>6. Lifecycle!Delete(u)
    BY <2>1, <2>2, <2>3, <2>4, <2>5, VerifiedStays DEF Lifecycle!Delete, Lifecycle!Move
  <2> QED BY <2>1, <2>6 DEF Lifecycle!Next
<1>6. CASE new.type \notin {"UserRegistered", "EmailVerificationOTPValidated",
                            "AccountDeletionRequested", "AccountDeleted"}
  <2>1. \A v \in User : StateOf(v)' = StateOf(v)
    BY <1>1, <1>6, FoundAfterSave
  <2>2. \A v \in User : Identity(v)' = Identity(v)
    BY <1>1, <1>6, IdentityAfterSave
  <2>3. \A v \in User : Verified(v)' <=> Verified(v)
    BY <1>1, <1>6, FoundAfterSave
  <2> QED BY <2>1, <2>2, <2>3, VerifiedStays DEF Lifecycle!vars
<1> QED BY <1>2, <1>3, <1>4, <1>5, <1>6

\* A step that leaves the log alone leaves every account alone.
LEMMA LifecycleStutter ==
    ASSUME UNCHANGED log
    PROVE  UNCHANGED Lifecycle!vars
BY DEF Lifecycle!vars, StateOf, Identity, Finds, Registered

\* Only a save that commits changes the log.
LEMMA OnlySaves ==
    ASSUME Next
    PROVE  UNCHANGED log \/ \E r \in Request : SaveCommit(r)
<1> USE DEF Load, Start
<1>1. CASE \E r \in Request, event \in Registration : Register(r, event)
  BY <1>1 DEF Register
<1>2. ASSUME NEW r \in Request, NEW u \in User,
             \/ GenerateCode(r, u) \/ StartValidate(r, u)
             \/ RequestReset(r, u) \/ RequestDeletion(r, u)
             \/ \E password \in Password : ChangePassword(r, u, password)
             \/ \E name \in Name : UpdateName(r, u, name)
             \/ \E bio \in Bio : StartUpdateBio(r, u, bio)
             \/ \E type \in {"ProfileImageUploaded", "ProfileHeaderImageUploaded"} :
                  UploadImage(r, u, type)
      PROVE  UNCHANGED log
  BY <1>2 DEF GenerateCode, StartValidate, RequestReset, RequestDeletion, ChangePassword,
     UpdateName, StartUpdateBio, UploadImage
<1>3. ASSUME NEW r \in Request, NEW i \in 1..MaxEvents,
             \/ SendCode(r, i) \/ SendReset(r, i) \/ CompleteDeletion(r, i)
             \/ \E password \in Password : ResetPassword(r, i, password)
      PROVE  UNCHANGED log
  BY <1>3 DEF SendCode, SendReset, CompleteDeletion, ResetPassword
<1>4. ASSUME NEW r \in Request, Continue(r) \/ DeleteData(r)
      PROVE  UNCHANGED log
  BY <1>4 DEF Continue, DeleteData, ReadCodeAgain, ReadCodeStable, ReadBio, CreateKey, ReadKey,
     DestroyKey, SaveConflict, Abort
<1>5. ASSUME NEW i \in 1..MaxEvents, Expire(i)
      PROVE  UNCHANGED log
  BY <1>5 DEF Expire
<1> QED BY <1>1, <1>2, <1>3, <1>4, <1>5 DEF Next

\* So every step is one of AccountLifecycle.
LEMMA LifecycleStep == IInv /\ [Next]_vars => [Lifecycle!Next]_Lifecycle!vars
<1> SUFFICES ASSUME IInv, [Next]_vars PROVE [Lifecycle!Next]_Lifecycle!vars
  OBVIOUS
<1>1. CASE UNCHANGED log
  BY <1>1, LifecycleStutter
<1>2. ASSUME NEW r \in Request, SaveCommit(r) PROVE [Lifecycle!Next]_Lifecycle!vars
  BY <1>2, Accepted, LifecycleSave
<1> QED BY <1>1, <1>2, OnlySaves DEF vars

-------------------------------------------------------------------------------
(* The theorems.                                                             *)

\* Every step keeps the invariant.
LEMMA InvStep == IInv /\ [Next]_vars => IInv'
<1> SUFFICES ASSUME IInv, [Next]_vars PROVE IInv'
  OBVIOUS
<1>1. CASE UNCHANGED vars
  BY <1>1, StutterKeeps
<1>2. CASE \E r \in Request, event \in Registration : Register(r, event)
  BY <1>2, RegisterKeeps
<1>3. ASSUME NEW r \in Request, NEW u \in User,
             \/ GenerateCode(r, u) \/ StartValidate(r, u)
             \/ RequestReset(r, u) \/ RequestDeletion(r, u)
             \/ \E password \in Password : ChangePassword(r, u, password)
             \/ \E name \in Name : UpdateName(r, u, name)
             \/ \E bio \in Bio : StartUpdateBio(r, u, bio)
             \/ \E type \in {"ProfileImageUploaded", "ProfileHeaderImageUploaded"} :
                  UploadImage(r, u, type)
      PROVE  IInv'
  BY <1>3, GenerateCodeKeeps, StartValidateKeeps, RequestResetKeeps, RequestDeletionKeeps,
     ChangePasswordKeeps, UpdateNameKeeps, StartUpdateBioKeeps, UploadImageKeeps
<1>4. ASSUME NEW r \in Request, NEW i \in 1..MaxEvents,
             \/ SendCode(r, i) \/ SendReset(r, i) \/ CompleteDeletion(r, i)
             \/ \E password \in Password : ResetPassword(r, i, password)
      PROVE  IInv'
  BY <1>4, SendCodeKeeps, SendResetKeeps, CompleteDeletionKeeps, ResetPasswordKeeps
<1>5. ASSUME NEW r \in Request, Continue(r) \/ DeleteData(r) \/ SaveCommit(r)
      PROVE  IInv'
  <2>1. CASE Continue(r)
    BY <2>1, ReadCodeAgainKeeps, ReadCodeStableKeeps, ReadBioKeeps, CreateKeyKeeps, ReadKeyKeeps,
       DestroyKeyKeeps, SaveConflictKeeps, AbortKeeps DEF Continue
  <2> QED BY <1>5, <2>1, DeleteDataKeeps, SaveCommitKeeps
<1>6. ASSUME NEW i \in 1..MaxEvents, Expire(i)
      PROVE  IInv'
  BY <1>6, ExpireKeeps
<1> QED BY <1>1, <1>2, <1>3, <1>4, <1>5, <1>6 DEF Next

\* The invariant holds always.
LEMMA InvHolds == Spec => []IInv
BY InitInv, InvStep, PTL DEF Spec

\* The types are right, and an id is in the hands of one registration at most, for any
\* users, names and commands at once.
THEOREM TypeCorrect == Spec => []TypeOK
BY InvHolds, InvTypes, PTL

\* A username, an email and a user id are registered once for ever: the subset query of
\* the save decides between registrations that all found them free.
THEOREM IdentityIsTakenOnce == Spec => []IdentityTakenOnce
<1>1. IInv => IdentityTakenOnce
  BY DEF IInv, Promises
<1> QED BY <1>1, InvHolds, PTL

\* Handlers that run their command again for an event, and requests that are repeated,
\* record one mail, one reset, one validation, one deletion request and one deletion.
THEOREM OnceForEachSubject == Spec => []OncePerSubject
<1>1. IInv => OncePerSubject
  BY DEF IInv, Promises
<1> QED BY <1>1, InvHolds, PTL

\* However generations and validations of codes interleave, only the newest code of a
\* user is validated and none follows.
THEOREM OnlyTheNewestCode == Spec => []NewestCodeValidated
<1>1. IInv => NewestCodeValidated
  BY DEF IInv, Promises
<1> QED BY <1>1, InvHolds, PTL

\* The key of a registered user is there until its deletion was requested, and is gone
\* when the deletion is saved, wherever the commands in between failed.
THEOREM KeysAlwaysFollow == Spec => []KeysFollowDeletion
<1>1. IInv => KeysFollowDeletion
  BY DEF IInv, Promises
<1> QED BY <1>1, InvHolds, PTL

\* No name and no bio is saved twice in a row, also by two equal updates at once.
THEOREM UpdatesAlwaysChange == Spec => []UpdatesChange
<1>1. IInv => UpdatesChange
  BY DEF IInv, Promises
<1> QED BY <1>1, InvHolds, PTL

\* Whoever asks for another code, and however often at once, a user has one live code.
THEOREM OnlyOneLiveCode == Spec => []OneLiveCode
<1>1. IInv => OneLiveCode
  BY DEF IInv, Promises
<1> QED BY <1>1, InvHolds, PTL

\* What the proof calls a decision is what the command found when it loaded.
LEMMA DecidedIsRight ==
    ASSUME IInv, NEW e \in Event, Decided(e), Grounded("save", e)
    PROVE  StillRight(e)
<1>0. /\ LogInv /\ Fielded(e) /\ Len(log) \in Nat /\ DOMAIN log = 1..Len(log)
      /\ \A i \in DOMAIN log : log[i] \in Event /\ Fielded(log[i])
  BY Positions, EventFields DEF IInv
<1>n. \A query : /\ Newest(query) \in 0..Len(log)
                 /\ Newest(query) # 0 =>
                      Newest(query) \in DOMAIN log /\ InQuery(log[Newest(query)], query)
                 /\ \A i \in DOMAIN log : InQuery(log[i], query) => ~ (i > Newest(query))
  BY <1>0, NewestIs
<1>1. CASE e.type = "UserRegistered"
  BY <1>1 DEF StillRight, Decided, Forbids, AboutTypes, SentTypes
<1>2. CASE e.type = "EmailVerificationOTPGenerated"
  <2>1. Forbids(e) = TypeOfUser("EmailVerificationOTPValidated", e.user)
    BY <1>2 DEF Forbids, AboutTypes, SentTypes
  <2>2. DependsOn(e) = TypeOfUser("EmailVerificationOTPGenerated", e.user)
    BY <1>2 DEF DependsOn, CodeTypes
  <2>3. NewestCode(e.user) \in expired \cup {NoEventPosition}
    BY <1>2, <1>n, <2>2 DEF Decided, NewestCode, NoEventPosition
  <2> QED BY <1>2, <2>1, <2>3 DEF StillRight, Decided
<1>3. CASE e.type = "EmailVerificationOTPValidated"
  <2>1. PICK codes : codes = TypeOfUser("EmailVerificationOTPGenerated", e.user)
    OBVIOUS
  <2>2. DependsOn(e) = codes /\ Forbids(e) = TypeAbout("EmailVerificationOTPValidated", e.about)
    BY <1>3, <2>1 DEF DependsOn, Forbids, CodeTypes, AboutTypes, SentTypes
  <2>3. /\ e.about \in DOMAIN log /\ log[e.about].type = "EmailVerificationOTPGenerated"
        /\ log[e.about].user = e.user
    BY <1>3 DEF Grounded, Is
  <2>4. InQuery(log[e.about], codes)
    BY <1>0, <2>1, <2>3, AsksOfUser DEF Fielded, SentTypes
  <2>5. Newest(codes) \in DOMAIN log /\ ~ (e.about > Newest(codes)) /\ ~ (Newest(codes) > e.about)
    BY <1>0, <1>3, <1>n, <2>2, <2>3, <2>4 DEF Decided
  <2>6. NewestCode(e.user) = e.about
    BY <1>0, <2>1, <2>3, <2>5 DEF NewestCode
  <2> QED BY <1>3, <2>2, <2>6 DEF StillRight, Decided
<1>4. CASE e.type \in {"EmailVerificationOTPSent", "PasswordResetEmailSent",
                       "PasswordResetCompleted"}
  <2>1. Forbids(e) = TypeAbout(e.type, e.about)
    BY <1>4 DEF Forbids, AboutTypes, SentTypes
  <2> QED BY <1>4, <2>1 DEF StillRight, Decided
<1>5. CASE e.type = "UserNameChanged"
  <2>1. PICK n : n = Newest(UpdateNameQuery(e.user))
    OBVIOUS
  <2>2. DependsOn(e) = UpdateNameQuery(e.user)
    BY <1>5 DEF DependsOn, CodeTypes
  <2>3. PICK i \in DOMAIN log : InQuery(log[i], UserRegisteredQuery(e.user))
    BY <1>5 DEF Grounded, OwnedTypes, Registered, Finds
  <2>4. InQuery(log[i], UpdateNameQuery(e.user))
    BY <2>3, Wider DEF UpdateNameQuery
  <2>5. n \in DOMAIN log /\ InQuery(log[n], DependsOn(e))
    BY <1>0, <1>n, <2>1, <2>2, <2>3, <2>4
  <2>6. DisplayName(log[n]) # e.name
    BY <1>5, <1>n, <2>1, <2>2, <2>5 DEF Decided, Repeats, UpdateTypes
  <2> QED BY <1>5, <2>1, <2>6 DEF StillRight, CurrentName
<1>6. CASE e.type = "ProfileBioUpdated"
  <2>1. PICK n : n = Newest(TypeOfUser("ProfileBioUpdated", e.user))
    OBVIOUS
  <2>2. DependsOn(e) = TypeOfUser("ProfileBioUpdated", e.user)
    BY <1>6 DEF DependsOn, CodeTypes
  <2>3. CurrentBio(e.user) = IF n = 0 THEN NoBio ELSE log[n].bio
    BY <2>1 DEF CurrentBio, NoEventPosition
  <2>4. n = 0 => ~ Finds(DependsOn(e))
    BY <1>0, <1>n, <2>1, <2>2 DEF Finds
  <2>5. n # 0 => log[n].bio # e.bio
    BY <1>6, <1>n, <2>1, <2>2 DEF Decided, Repeats, UpdateTypes
  <2>6. CurrentBio(e.user) # e.bio
    BY <1>6, <2>3, <2>4, <2>5 DEF Decided
  <2> QED BY <1>6, <2>6 DEF StillRight
<1>7. CASE e.type = "AccountDeletionRequested"
  <2>1. Forbids(e) = TypeOfUser("AccountDeletionRequested", e.user)
    BY <1>7 DEF Forbids, AboutTypes, SentTypes
  <2>2. \A i \in DOMAIN log : log[i].type = "AccountDeletionRequested" => log[i].user # e.user
    BY <1>0, <2>1, AsksOfUser DEF Decided, Finds, Fielded, SentTypes
  <2>3. ASSUME NEW i \in DOMAIN log, InQuery(log[i], TypeOfUser("AccountDeleted", e.user))
        PROVE  FALSE
    <3>1. log[i].type = "AccountDeleted" /\ log[i].user = e.user
      BY <1>0, <2>3, AsksOfUser
    <3>2. Is(log[i].about, "AccountDeletionRequested") /\ log[log[i].about].user = e.user
      BY <1>0, <3>1 DEF LogInv, Rooted
    <3> QED BY <2>2, <3>2 DEF Is
  <2>4. ~ Finds(TypeOfUser("AccountDeletionRequested", e.user)
                \cup TypeOfUser("AccountDeleted", e.user))
    BY <2>1, <2>3 DEF Decided, Finds, InQuery
  <2> QED BY <1>7, <2>4 DEF StillRight
<1>8. CASE e.type = "AccountDeleted"
  <2>1. PICK asked : asked = TypeOfUser("AccountDeletionRequested", e.user)
    OBVIOUS
  <2>2. Forbids(e) = TypeAbout("AccountDeleted", e.about)
    BY <1>8 DEF Forbids, AboutTypes, SentTypes
  <2>3. /\ e.about \in DOMAIN log /\ log[e.about].type = "AccountDeletionRequested"
        /\ log[e.about].user = e.user
    BY <1>8 DEF Grounded, Is
  <2>4. InQuery(log[e.about], asked)
    BY <1>0, <2>1, <2>3, AsksOfUser DEF Fielded, SentTypes
  <2>5. Newest(asked) \in DOMAIN log /\ InQuery(log[Newest(asked)], asked)
    BY <1>0, <1>n, <2>3, <2>4
  <2>6. log[Newest(asked)].type = "AccountDeletionRequested" /\ log[Newest(asked)].user = e.user
    BY <1>0, <2>1, <2>5, AsksOfUser
  <2>7. Newest(asked) = e.about
    BY <2>3, <2>5, <2>6 DEF IInv, Promises, OncePerSubject
  <2> QED BY <1>8, <2>1, <2>2, <2>7 DEF StillRight, Decided
<1>9. CASE e.type \notin {"UserRegistered", "EmailVerificationOTPGenerated",
         "EmailVerificationOTPValidated", "EmailVerificationOTPSent", "PasswordResetEmailSent",
         "PasswordResetCompleted", "UserNameChanged", "ProfileBioUpdated",
         "AccountDeletionRequested", "AccountDeleted"}
  BY <1>9 DEF StillRight
<1> QED BY <1>1, <1>2, <1>3, <1>4, <1>5, <1>6, <1>7, <1>8, <1>9

LEMMA DecisionsFollow == IInv => DecisionsHold
<1> SUFFICES ASSUME IInv, NEW r \in Request, At(r, "save"),
                    ~ Conflicts(log, request[r].position, request[r].query)
             PROVE  StillRight(request[r].event)
  BY DEF DecisionsHold
<1>1. PICK c : c = request[r]
  OBVIOUS
<1>2. /\ Sound(c) /\ c.event \in Event /\ c.next = "save"
      /\ ~ Conflicts(log, c.position, c.query)
  BY <1>1, InFlight DEF At
<1>3. Decided(c.event) /\ Grounded("save", c.event)
  BY <1>2 DEF Sound, Loading
<1> QED BY <1>1, <1>2, <1>3, DecidedIsRight

\* No command saves what it would not decide again: its query covers all it found, so a
\* save that does not conflict is right on the log it is appended to.
THEOREM DecisionsAlwaysHold == Spec => []DecisionsHold
BY InvHolds, DecisionsFollow, PTL

\* Accounts follow AccountLifecycle: every event that is saved is one legal step of one
\* account, whatever was committed since its command loaded.
THEOREM LifecycleImplemented == Spec => ImplementsAccountLifecycle
<1>1. Spec => Lifecycle!Init /\ [][Lifecycle!Next]_Lifecycle!vars
  BY LifecycleInit, LifecycleStep, InvHolds, PTL DEF Spec
<1> QED BY <1>1 DEF ImplementsAccountLifecycle, Lifecycle!Spec
===============================================================================
